------------------------- MODULE RollbackController -------------------------
(***************************************************************************)
(* The hybrid rollback controller (engine/state_machine.rs) driven by the  *)
(* steps of one transaction: a step succeeds, or fails and is answered by  *)
(* a dependency jump, a local backtrack, a global reset or an abort.  The  *)
(* root cause comes from the dependency graph and is any step here.        *)
(*                                                                         *)
(* A decision is taken and carried out under the transaction's mutex, so   *)
(* it is one action.  Rewinds the controller does not decide (an explicit  *)
(* rollback, the retry of a step after a storage error) are steps too: it  *)
(* is not told of them.                                                    *)
(***************************************************************************)
EXTENDS Integers

CONSTANTS MaxLocalDepth, MaxGlobalResets,    \* RollbackPolicy
          Budget,         \* the replay budget by horizon
          MaxStep,        \* bound: steps of the transaction
          MaxFree         \* bound: executions undone behind the controller's back

ASSUME ControllerAssumption ==
  /\ MaxLocalDepth \in Nat /\ MaxGlobalResets \in Nat
  /\ MaxStep \in Nat /\ MaxFree \in Nat
  /\ Budget \in [0 .. MaxStep -> Nat \ {0}]
  /\ \A m, n \in 0 .. MaxStep : m <= n => Budget[m] <= Budget[n]

(* replay_budget for a whole factor: factor n ceil(log2(n + 1)), where the *)
(* logarithm is the number of binary digits of n.                          *)
Digits(n) == CHOOSE d \in 1 .. n : 2^(d - 1) <= n /\ n < 2^d
ReplayBudget(factor, n) == IF n = 0 THEN factor ELSE factor * n * Digits(n)

VARIABLES next,       \* next_step of the transaction, 0 once it has ended
          horizon,    \* furthest step observed
          retries,    \* failures per step in the epoch
          jumps,      \* jumps per root step in the epoch
          replayed,   \* replayed_steps of the epoch
          resets,     \* global_resets
          spent,      \* history: epoch -> executions of steps
          free        \* history: executions undone by other than the controller

vars == <<next, horizon, retries, jumps, replayed, resets, spent, free>>

Step   == 1 .. MaxStep
Epochs == 0 .. MaxGlobalResets
None   == 0                         \* no offending key, or no root cause
Bigger(a, b) == IF a < b THEN b ELSE a

Init == /\ next = 1
        /\ horizon = 0
        /\ retries = [k \in Step |-> 0]
        /\ jumps = [k \in Step |-> 0]
        /\ replayed = 0
        /\ resets = 0
        /\ spent = [e \in Epochs |-> 0]
        /\ free = 0

Executes == /\ next \in Step
            /\ horizon' = Bigger(horizon, next)
            /\ spent' = [spent EXCEPT ![resets] = @ + 1]

Succeeds == /\ Executes
            /\ next' = next + 1
            /\ UNCHANGED <<retries, jumps, replayed, resets, free>>

(* decide: the candidate, given the root cause the graph reports.          *)
JumpLimit     == Bigger(MaxLocalDepth, 1)
JumpsOnceMore(root) == root # None /\ root < next /\ jumps[root] <= JumpLimit
Jumps(root)   == root # None /\ root < next /\ jumps[root] < JumpLimit
Attempt       == retries[next] + 1
Candidate(root) == IF Jumps(root) THEN root ELSE Bigger(next - Attempt, 1)
HasCandidate(root) == Jumps(root) \/ Attempt <= MaxLocalDepth

CostOneShort(root) == next - Candidate(root)
Cost(root)    == next - Candidate(root) + 1
Affords(root) == HasCandidate(root) /\ replayed + Cost(root) <= Budget[horizon']

Rewind(root) ==
  /\ Executes
  /\ Affords(root)
  /\ next' = Candidate(root)
  /\ retries' = [retries EXCEPT ![next] = @ + 1]
  /\ jumps' = IF Jumps(root) THEN [jumps EXCEPT ![root] = @ + 1] ELSE jumps
  /\ replayed' = replayed + Cost(root)
  /\ UNCHANGED <<resets, free>>

(* escalate, below and at the limit of global resets. *)
GlobalReset(root) ==
  /\ Executes
  /\ ~Affords(root) /\ resets < MaxGlobalResets
  /\ next' = 1
  /\ resets' = resets + 1
  /\ retries' = [k \in Step |-> 0]
  /\ jumps' = [k \in Step |-> 0]
  /\ replayed' = 0
  /\ UNCHANGED free

Abort(root) ==
  /\ Executes
  /\ ~Affords(root) /\ resets >= MaxGlobalResets
  /\ next' = 0
  /\ retries' = [retries EXCEPT ![next] = @ + 1]
  /\ UNCHANGED <<jumps, replayed, resets, free>>

(* rollback(to_step), and the rewind to a step that met a storage error:   *)
(* the controller sees at most the step.                                   *)
RolledBack(s) ==
  /\ s \in Step /\ s < next
  /\ free + next - s <= MaxFree
  /\ next' = s
  /\ free' = free + next - s
  /\ UNCHANGED <<horizon, retries, jumps, replayed, resets, spent>>

StepError ==
  /\ free < MaxFree
  /\ Executes
  /\ free' = free + 1
  /\ UNCHANGED <<next, retries, jumps, replayed, resets>>

(* fail_hard: neither the step nor its rewind went through. *)
StepBreaks ==
  /\ Executes
  /\ next' = 0
  /\ UNCHANGED <<retries, jumps, replayed, resets, free>>

(* commit, or rollback of the whole transaction. *)
Ends == /\ next > 0
        /\ next' = 0
        /\ UNCHANGED <<horizon, retries, jumps, replayed, resets, spent, free>>

Fails == \E root \in Step \cup {None} : Rewind(root) \/ GlobalReset(root) \/ Abort(root)

Next == Succeeds \/ Fails \/ StepError \/ StepBreaks \/ Ends \/ \E s \in Step : RolledBack(s)

Spec == Init /\ [][Next]_vars
-----------------------------------------------------------------------------
TypeOK == /\ next \in 0 .. (MaxStep + 1) /\ horizon \in 0 .. MaxStep
          /\ retries \in [Step -> Nat] /\ jumps \in [Step -> Nat]
          /\ replayed \in Nat /\ free \in Nat
          /\ resets \in Epochs
          /\ spent \in [Epochs -> Nat]

(* "Total re-executions are bounded by (max_global_resets + 1) (budget + N)": *)
(* no epoch executes more steps than the budget of the furthest step N, and   *)
(* N, but for the executions undone by others; and there are at most          *)
(* max_global_resets + 1 epochs.                                              *)
EpochLimit     == Budget[horizon] + horizon + free
ReplaysBounded == \A e \in Epochs : spent[e] <= EpochLimit

(* The inductive invariant behind it: what the running epoch has executed is  *)
(* its net progress, what the controller charged for, and what others undid.  *)
ControllerInv ==
  /\ TypeOK
  /\ next <= horizon + 1
  /\ replayed <= Budget[horizon]
  /\ next > 0 => spent[resets] <= next - 1 + replayed + free
  /\ \A e \in Epochs : e > resets => spent[e] = 0
  /\ ReplaysBounded

(* A step may be the target of a jump at most max(max_local_depth, 1) times    *)
(* in an epoch, and a step that keeps failing backtracks one step further each *)
(* time, and never more than max_local_depth steps.                            *)
StrategiesBounded ==
  [][\A root \in Step :
       next' = root /\ root < next /\ free' = free /\ resets' = resets =>
         \/ jumps'[root] = jumps[root] + 1 /\ jumps'[root] <= JumpLimit
         \/ /\ next - root <= MaxLocalDepth
            /\ root > 1 => next - root = retries'[next]]_vars
=============================================================================
