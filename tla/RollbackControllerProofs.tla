---------------------- MODULE RollbackControllerProofs ----------------------
(***************************************************************************)
(* The execution bound of the rollback controller, for every policy,       *)
(* every monotone budget and every number of steps.                        *)
(***************************************************************************)
EXTENDS RollbackController, WellFoundedInduction, TLAPS

(* The arithmetic of the accounting: the executions s of an epoch at step  *)
(* n, with r charged and f undone by others, after a success, a rewind to  *)
(* t that is charged c, and an execution that is undone by others.         *)
LEMMA Accounting ==
  ASSUME NEW s \in Int, NEW n \in Int, NEW r \in Int, NEW f \in Int, s <= n - 1 + r + f
  PROVE  /\ s + 1 <= (n + 1) - 1 + r + f
         /\ \A t \in Int : s + 1 <= t - 1 + (r + (n - t + 1)) + f
         /\ s + 1 <= n - 1 + r + (f + 1)
OBVIOUS

(* It stays below the limit given by the furthest step h and its budget b. *)
LEMMA BelowLimit ==
  ASSUME NEW n \in Int, NEW r \in Int, NEW f \in Int, NEW h \in Int, NEW b \in Int,
         r <= b, NEW s \in Int
  PROVE  /\ n <= h + 1 /\ s <= n - 1 + r + f => s <= b + h + f
         /\ n <= h /\ s <= n - 1 + r + f => s + 1 <= b + h + f
OBVIOUS

(* Facts about integers, stated apart from the sets around them. *)
LEMMA Order ==
  ASSUME NEW a \in Int, NEW b \in Int, NEW c \in Int, a <= b
  PROVE  /\ b <= c => a <= c
         /\ a + 1 <= b + 1 /\ a <= b + 1
OBVIOUS

(* Where next_step may be. *)
LEMMA StepRange ==
  ASSUME NEW n \in Step
  PROVE  /\ n \in Nat /\ n > 0 /\ n \in 0 .. (MaxStep + 1) /\ n + 1 \in 0 .. (MaxStep + 1)
         /\ 0 \in 0 .. (MaxStep + 1)
BY ControllerAssumption DEF Step

(* Nothing has been executed. *)
LEMMA InitControllerInv == Init => ControllerInv
BY ControllerAssumption
DEF Init, ControllerInv, TypeOK, Step, Epochs, ReplaysBounded, EpochLimit

(* What a step's execution does to the horizon and the history: the limit  *)
(* never shrinks, and one execution is counted, in the running epoch.      *)
LEMMA ExecutesFacts ==
  ASSUME ControllerInv, Executes
  PROVE  /\ next \in Step /\ resets \in Epochs
         /\ horizon' \in 0 .. MaxStep /\ horizon <= horizon' /\ next <= horizon'
         /\ Budget[horizon] \in Nat /\ Budget[horizon'] \in Nat
         /\ Budget[horizon] <= Budget[horizon']
         /\ spent' \in [Epochs -> Nat]
         /\ spent'[resets] = spent[resets] + 1
         /\ \A e \in Epochs : e # resets => spent'[e] = spent[e]
<1>1. /\ next \in Step /\ horizon \in 0 .. MaxStep /\ horizon' = Bigger(horizon, next)
      /\ resets \in Epochs /\ spent \in [Epochs -> Nat]
      /\ spent' = [spent EXCEPT ![resets] = @ + 1]
  BY DEF ControllerInv, TypeOK, Executes
<1>2. horizon' \in 0 .. MaxStep /\ horizon <= horizon' /\ next <= horizon'
  BY <1>1, ControllerAssumption DEF Bigger, Step
<1>3. /\ Budget[horizon] \in Nat /\ Budget[horizon'] \in Nat
      /\ Budget[horizon] <= Budget[horizon']
  BY <1>1, <1>2, ControllerAssumption
<1> QED BY <1>1, <1>2, <1>3

(* A step that executes within an epoch keeps the invariant if it keeps    *)
(* the account of that epoch.                                              *)
LEMMA EpochGoesOn ==
  ASSUME ControllerInv, Executes, TypeOK', resets' = resets, free' >= free,
         replayed' <= Budget[horizon'], next' <= horizon' + 1,
         next' > 0 => spent[resets] + 1 <= next' - 1 + replayed' + free',
         spent[resets] + 1 <= Budget[horizon'] + horizon' + free'
  PROVE  ControllerInv'
<1>1. /\ horizon \in Int /\ horizon' \in Int /\ free \in Int /\ free' \in Int
      /\ Budget[horizon] \in Int /\ Budget[horizon'] \in Int
      /\ Budget[horizon] <= Budget[horizon'] /\ horizon <= horizon'
      /\ spent \in [Epochs -> Nat]
  <2>1. /\ horizon \in 0 .. MaxStep /\ free \in Nat
        /\ spent \in [Epochs -> Nat]
    BY DEF ControllerInv, TypeOK
  <2>2. free' \in Nat
    BY DEF TypeOK
  <2>3. /\ horizon' \in 0 .. MaxStep /\ horizon <= horizon'
        /\ Budget[horizon] \in Nat /\ Budget[horizon'] \in Nat
        /\ Budget[horizon] <= Budget[horizon']
    BY ExecutesFacts
  <2>4. MaxStep \in Nat
    BY ControllerAssumption
  <2> QED BY <2>1, <2>2, <2>3, <2>4
<1>2. \A e \in Epochs : spent'[e] <= Budget[horizon'] + horizon' + free'
  <2> TAKE e \in Epochs
  <2>1. CASE e = resets
    BY <2>1, ExecutesFacts
  <2>2. CASE e # resets
    <3>1. spent[e] \in Int /\ spent[e] <= Budget[horizon] + horizon + free
      BY <1>1 DEF ControllerInv, ReplaysBounded, EpochLimit
    <3>2. spent'[e] = spent[e]
      BY <2>2, ExecutesFacts
    <3> QED BY <1>1, <3>1, <3>2
  <2> QED BY <2>1, <2>2
<1>3. next' > 0 => spent'[resets'] <= next' - 1 + replayed' + free'
  BY ExecutesFacts
<1>4. \A e \in Epochs : e > resets' => spent'[e] = 0
  <2>1. resets \in Epochs /\ \A e \in Epochs : e > resets => e # resets
    BY ExecutesFacts, ControllerAssumption DEF Epochs
  <2> QED BY <2>1, ExecutesFacts DEF ControllerInv
<1> QED BY <1>2, <1>3, <1>4 DEF ControllerInv, ReplaysBounded, EpochLimit

(* The step a rewind goes back to, and what it is charged. *)
LEMMA CandidateFacts ==
  ASSUME ControllerInv, next \in Step, NEW root \in Step \cup {None}
  PROVE  /\ Candidate(root) \in Step /\ Candidate(root) <= next
         /\ Cost(root) = next - Candidate(root) + 1 /\ Cost(root) \in Nat
<1>1. retries[next] \in Nat /\ next \in Nat /\ next >= 1 /\ next <= MaxStep
  BY ControllerAssumption DEF ControllerInv, TypeOK, Step
<1>2. Candidate(root) \in Step /\ Candidate(root) <= next
  BY <1>1, ControllerAssumption DEF Candidate, Jumps, Bigger, Attempt, Step, None
<1> QED BY <1>1, <1>2, ControllerAssumption DEF Cost, Step

(* Every step keeps the types. *)
LEMMA StepTypeOK == ASSUME ControllerInv, [Next]_vars PROVE TypeOK'
<1>0. /\ next \in 0 .. (MaxStep + 1) /\ horizon \in 0 .. MaxStep
      /\ retries \in [Step -> Nat] /\ jumps \in [Step -> Nat]
      /\ replayed \in Nat /\ free \in Nat /\ resets \in Epochs /\ spent \in [Epochs -> Nat]
      /\ [k \in Step |-> 0] \in [Step -> Nat]
      /\ \A k \in Step : [retries EXCEPT ![k] = @ + 1] \in [Step -> Nat]
      /\ \A k \in Step : [jumps EXCEPT ![k] = @ + 1] \in [Step -> Nat]
      /\ \A n \in Nat : n + 1 \in Nat /\ replayed + n \in Nat
  BY DEF ControllerInv, TypeOK
<1>1. CASE Succeeds
  BY <1>0, <1>1, ExecutesFacts, StepRange DEF Succeeds, TypeOK
<1>2. ASSUME NEW root \in Step \cup {None}, Rewind(root) PROVE TypeOK'
  <2>1. Executes /\ next' \in Step /\ Cost(root) \in Nat
    BY <1>2, ExecutesFacts, CandidateFacts DEF Rewind
  <2>2. jumps' \in [Step -> Nat] /\ retries' \in [Step -> Nat]
    BY <1>0, <1>2, <2>1, ExecutesFacts DEF Rewind, Jumps
  <2>3. replayed' \in Nat
    BY <1>0, <1>2, <2>1 DEF Rewind
  <2> QED BY <1>0, <1>2, <2>1, <2>2, <2>3, ExecutesFacts, StepRange DEF Rewind, TypeOK
<1>3. ASSUME NEW root \in Step \cup {None}, GlobalReset(root) PROVE TypeOK'
  <2>1. Executes /\ resets' \in Epochs /\ 1 \in Step
    BY <1>0, <1>3, ExecutesFacts, ControllerAssumption DEF GlobalReset, Epochs, Step
  <2> QED BY <1>0, <1>3, <2>1, ExecutesFacts, StepRange DEF GlobalReset, TypeOK
<1>4. ASSUME NEW root \in Step \cup {None}, Abort(root) PROVE TypeOK'
  BY <1>0, <1>4, ExecutesFacts, StepRange DEF Abort, TypeOK
<1>5. CASE StepError
  BY <1>0, <1>5, ExecutesFacts DEF StepError, TypeOK
<1>6. ASSUME NEW s \in Step, RolledBack(s) PROVE TypeOK'
  <2>1. s \in Nat /\ s < next /\ next \in Nat /\ free' = free + next - s
    BY <1>0, <1>6, ControllerAssumption, StepRange DEF RolledBack
  <2>2. free' \in Nat
    BY <1>0, <2>1
  <2> QED BY <1>0, <1>6, <2>2, StepRange DEF RolledBack, TypeOK
<1>7. CASE Ends
  BY <1>0, <1>7, ControllerAssumption DEF Ends, TypeOK
<1>8. CASE StepBreaks
  BY <1>0, <1>8, ExecutesFacts, StepRange DEF StepBreaks, TypeOK
<1>9. CASE UNCHANGED vars
  BY <1>0, <1>9 DEF vars, TypeOK
<1> QED BY <1>1, <1>2, <1>3, <1>4, <1>5, <1>6, <1>7, <1>8, <1>9 DEF Next, Fails

(* Every step keeps the accounting. *)
LEMMA StepControllerInv == ASSUME ControllerInv, [Next]_vars PROVE ControllerInv'
<1>0. /\ TypeOK /\ TypeOK' /\ next <= horizon + 1 /\ replayed <= Budget[horizon]
      /\ next > 0 => spent[resets] <= next - 1 + replayed + free
      /\ \A e \in Epochs : e > resets => spent[e] = 0
      /\ ReplaysBounded
  BY StepTypeOK DEF ControllerInv
<1>T. /\ next \in Int /\ horizon \in Int /\ replayed \in Int /\ free \in Int
      /\ next' \in Int /\ horizon' \in Int /\ replayed' \in Int /\ free' \in Int
      /\ resets \in Epochs /\ spent[resets] \in Int /\ Budget[horizon] \in Int
      /\ free <= free /\ free <= free + 1
  BY <1>0, ControllerAssumption DEF TypeOK
<1>E. ASSUME Executes
      PROVE  /\ next \in Step /\ next > 0 /\ next <= horizon'
             /\ Budget[horizon'] \in Int /\ replayed <= Budget[horizon'] /\ 0 <= Budget[horizon']
             /\ spent[resets] <= next - 1 + replayed + free
             /\ spent[resets] + 1 <= Budget[horizon'] + horizon' + free
  <2>1. /\ next \in Step /\ next > 0 /\ next <= horizon'
        /\ Budget[horizon'] \in Int /\ Budget[horizon] <= Budget[horizon'] /\ 0 <= Budget[horizon']
    BY <1>E, ExecutesFacts, StepRange
  <2>2. replayed <= Budget[horizon'] /\ spent[resets] <= next - 1 + replayed + free
    BY <1>0, <1>T, <2>1, Order
  <2> QED BY <1>T, <2>1, <2>2, BelowLimit
<1>1. CASE Succeeds
  <2>1. Executes /\ next' = next + 1 /\ UNCHANGED <<replayed, resets, free>>
    BY <1>1 DEF Succeeds
  <2>2. next' <= horizon' + 1
    BY <2>1, <1>E, <1>T, Order
  <2>3. spent[resets] + 1 <= next' - 1 + replayed' + free'
    BY <2>1, <1>E, <1>T, Accounting
  <2> QED BY <1>0, <1>T, <1>E, <2>1, <2>2, <2>3, EpochGoesOn
<1>2. ASSUME NEW root \in Step \cup {None}, Rewind(root) PROVE ControllerInv'
  <2>1. /\ Executes /\ next' = Candidate(root) /\ replayed' = replayed + Cost(root)
        /\ UNCHANGED <<resets, free>> /\ replayed' <= Budget[horizon']
    BY <1>2 DEF Rewind, Affords
  <2>2. next' <= next /\ replayed' = replayed + (next - next' + 1)
    BY <2>1, <1>E, CandidateFacts
  <2>3. next' <= horizon' + 1
    BY <2>1, <2>2, <1>E, <1>T, Order
  <2>4. spent[resets] + 1 <= next' - 1 + replayed' + free'
    BY <2>1, <2>2, <1>E, <1>T, Accounting
  <2> QED BY <1>0, <1>T, <1>E, <2>1, <2>3, <2>4, EpochGoesOn
<1>3. ASSUME NEW root \in Step \cup {None}, GlobalReset(root) PROVE ControllerInv'
  <2>1. /\ Executes /\ next' = 1 /\ replayed' = 0 /\ resets' = resets + 1 /\ free' = free
        /\ resets < MaxGlobalResets
    BY <1>3 DEF GlobalReset
  <2>2. /\ resets \in Nat /\ resets' \in Epochs /\ resets' # resets /\ resets' > resets
        /\ \A e \in Epochs : e > resets' => e > resets /\ e # resets
    BY <2>1, <1>T, ControllerAssumption DEF Epochs
  <2>3. spent'[resets'] = 0 /\ \A e \in Epochs : e > resets' => spent'[e] = 0
    BY <2>1, <2>2, <1>0, ExecutesFacts
  <2>4. next' - 1 + replayed' + free' = free /\ 0 <= free /\ next' <= horizon' + 1
    <3>1. next' - 1 + replayed' + free' = free /\ 0 <= free /\ 1 <= horizon'
      BY <2>1, <1>T, <1>0, <1>E DEF TypeOK
    <3> QED BY <3>1, <2>1, <1>T, Order
  <2>5. ReplaysBounded'
    <3> SUFFICES ASSUME NEW e \in Epochs
                 PROVE  spent'[e] <= Budget[horizon'] + horizon' + free'
      BY DEF ReplaysBounded, EpochLimit
    <3>1. CASE e = resets
      BY <3>1, <2>1, <1>E, ExecutesFacts
    <3>2. CASE e # resets
      <4>1. spent'[e] = spent[e] /\ spent[e] \in Int
        BY <3>2, <2>1, <1>0, ExecutesFacts DEF TypeOK
      <4>2. spent[e] <= Budget[horizon] + horizon + free
        BY <1>0 DEF ReplaysBounded, EpochLimit
      <4>3. Budget[horizon] <= Budget[horizon'] /\ horizon <= horizon'
        BY <2>1, ExecutesFacts
      <4> QED BY <4>1, <4>2, <4>3, <2>1, <1>T, <1>E
    <3> QED BY <3>1, <3>2
  <2>6. spent'[resets'] <= next' - 1 + replayed' + free'
    BY <2>3, <2>4
  <2> QED BY <1>0, <1>E, <2>1, <2>3, <2>4, <2>5, <2>6 DEF ControllerInv
<1>4. ASSUME StepBreaks \/ \E root \in Step \cup {None} : Abort(root) PROVE ControllerInv'
  <2>1. Executes /\ next' = 0 /\ UNCHANGED <<replayed, resets, free>>
    BY <1>4 DEF Abort, StepBreaks
  <2>2. 0 <= horizon' /\ ~(next' > 0)
    BY <2>1, <1>T, <1>E
  <2>3. next' <= horizon' + 1
    BY <2>1, <2>2, <1>T, Order
  <2> QED BY <1>0, <1>T, <1>E, <2>1, <2>2, <2>3, EpochGoesOn
<1>5. CASE StepError
  <2>1. Executes /\ free' = free + 1 /\ UNCHANGED <<next, replayed, resets>>
    BY <1>5 DEF StepError
  <2>2. next' <= horizon' + 1
    BY <2>1, <1>E, <1>T, Order
  <2>3. spent[resets] + 1 <= next' - 1 + replayed' + free'
    BY <2>1, <1>E, <1>T, Accounting
  <2>4. spent[resets] + 1 <= Budget[horizon'] + horizon' + free'
    BY <2>1, <2>2, <2>3, <1>E, <1>T
  <2> QED BY <1>0, <1>T, <1>E, <2>1, <2>2, <2>3, <2>4, EpochGoesOn
<1>6. ASSUME NEW s \in Step, RolledBack(s) PROVE ControllerInv'
  <2>1. /\ s < next /\ next' = s /\ free' = free + next - s
        /\ UNCHANGED <<horizon, replayed, resets, spent>> /\ s \in Int /\ s > 0
    BY <1>6, StepRange DEF RolledBack
  <2>2. /\ free' >= free /\ next > 0 /\ next' <= next
        /\ next' - 1 + replayed' + free' = next - 1 + replayed + free
    BY <2>1, <1>T
  <2>3. spent'[resets'] <= next' - 1 + replayed' + free' /\ next' <= horizon' + 1
    BY <2>1, <2>2, <1>0, <1>T
  <2>4. ReplaysBounded'
    <3> SUFFICES ASSUME NEW e \in Epochs
                 PROVE  spent[e] <= Budget[horizon] + horizon + free'
      BY <2>1 DEF ReplaysBounded, EpochLimit
    <3>1. spent[e] \in Int /\ spent[e] <= Budget[horizon] + horizon + free
      BY <1>0 DEF ReplaysBounded, EpochLimit, TypeOK
    <3> QED BY <3>1, <2>2, <1>T
  <2> QED BY <2>1, <2>3, <2>4, <1>0 DEF ControllerInv
<1>7. CASE Ends
  <2>1. next' = 0 /\ UNCHANGED <<horizon, replayed, resets, spent, free>>
    BY <1>7 DEF Ends
  <2>2. ReplaysBounded' /\ next' <= horizon' + 1 /\ ~(next' > 0)
    BY <2>1, <1>0 DEF ReplaysBounded, EpochLimit, TypeOK
  <2> QED BY <2>1, <2>2, <1>0 DEF ControllerInv
<1>8. CASE UNCHANGED vars
  BY <1>8, <1>0 DEF vars, ControllerInv, ReplaysBounded, EpochLimit
<1> QED BY <1>1, <1>2, <1>3, <1>4, <1>5, <1>6, <1>7, <1>8 DEF Next, Fails

(* The accounting, and with it the bound on the executions of every epoch: *)
(* the replay budget of the furthest step, and that step.                  *)
THEOREM ControllerSafe == Spec => []ControllerInv
<1>1. ControllerInv /\ [Next]_vars => ControllerInv'
  BY StepControllerInv
<1> QED BY InitControllerInv, <1>1, PTL DEF Spec
-----------------------------------------------------------------------------
(* The documented bound is on the executions of all epochs together.       *)
(* total is the sum of spent up to, and without, each epoch.               *)
Totals(total) ==
  /\ total \in [0 .. MaxGlobalResets + 1 -> Nat]
  /\ total[0] = 0
  /\ \A e \in Epochs : total[e + 1] = total[e] + spent[e]
TotalBounded ==
  \E total : /\ Totals(total)
             /\ total[MaxGlobalResets + 1] <= (MaxGlobalResets + 1) * EpochLimit

(* A non-empty set of naturals has a smallest element. *)
LEMMA LeastEpoch ==
  ASSUME NEW S \in SUBSET Nat, S # {}
  PROVE  \E n \in S : \A m \in S : n <= m
<1>1. PICK n \in S : \A m \in S : ~ (<<m, n>> \in OpToRel(<, Nat))
  BY NatLessThanWellFounded, WFMin, Zenon
<1>2. \A m \in S : ~ (m < n)
  BY <1>1, Zenon DEF OpToRel
<1> QED BY <1>2

(* One more term, none above the limit, and the sum stays within as many   *)
(* times the limit as there are terms.                                     *)
LEMMA OneMoreTerm ==
  ASSUME NEW e \in Nat, NEW t \in Nat, NEW s \in Nat, NEW b \in Nat, t <= e * b, s <= b
  PROVE  t + s <= (e + 1) * b
<1>1. (e + 1) * b = e * b + b /\ e * b \in Nat
  OBVIOUS
<1> QED BY <1>1

(* Sums of bounded terms are bounded: of the first that was not, the last  *)
(* term would be too large.                                                *)
LEMMA SumsBounded ==
  ASSUME NEW N \in Nat, NEW b \in Nat, NEW t \in [0 .. N + 1 -> Nat], NEW s \in [0 .. N -> Nat],
         t[0] = 0, \A e \in 0 .. N : t[e + 1] = t[e] + s[e] /\ s[e] <= b
  PROVE  \A e \in 0 .. N + 1 : t[e] <= e * b
<1> DEFINE Over == {e \in 0 .. N + 1 : ~(t[e] <= e * b)}
<1> SUFFICES ASSUME Over # {} PROVE FALSE
  OBVIOUS
<1>1. PICK e \in Over : \A d \in Over : e <= d
  <2>1. Over \in SUBSET Nat
    OBVIOUS
  <2> HIDE DEF Over
  <2> QED BY <2>1, LeastEpoch
<1>2. e \in 0 .. N + 1 /\ ~(t[e] <= e * b)
  OBVIOUS
<1>3. e # 0
  <2>1. 0 * b = 0
    OBVIOUS
  <2> QED BY <1>2, <2>1
<1>4. e - 1 \in 0 .. N /\ e - 1 \in 0 .. N + 1 /\ e - 1 \in Nat /\ (e - 1) + 1 = e /\ ~(e <= e - 1)
  BY <1>2, <1>3
<1>5. t[e - 1] <= (e - 1) * b
  <2>1. e - 1 \notin Over
    <3> HIDE DEF Over
    <3> QED BY <1>1, <1>4
  <2> QED BY <1>4, <2>1
<1>6. t[e] = t[e - 1] + s[e - 1] /\ s[e - 1] <= b /\ t[e - 1] \in Nat /\ s[e - 1] \in Nat
  BY <1>4
<1>7. t[e - 1] + s[e - 1] <= ((e - 1) + 1) * b
  BY <1>4, <1>5, <1>6, OneMoreTerm
<1> QED BY <1>2, <1>4, <1>6, <1>7

(* There are such sums, so the bound speaks of something: to the sum up to *)
(* the first epoch that had none, the next term could be added.            *)
LEMMA SumsExist ==
  ASSUME NEW N \in Nat, NEW s \in [0 .. N -> Nat]
  PROVE  \E t \in [0 .. N + 1 -> Nat] : t[0] = 0 /\ \A e \in 0 .. N : t[e + 1] = t[e] + s[e]
<1> DEFINE SumsTo(n, t) == t[0] = 0 /\ \A e \in 0 .. n - 1 : t[e + 1] = t[e] + s[e]
           Without == {n \in 0 .. N + 1 : ~ \E t \in [0 .. n -> Nat] : SumsTo(n, t)}
<1>1. ASSUME Without # {} PROVE FALSE
  <2>1. PICK n \in Without : \A m \in Without : n <= m
    <3>1. Without \in SUBSET Nat
      OBVIOUS
    <3> HIDE DEF Without
    <3> QED BY <1>1, <3>1, LeastEpoch
  <2>2. n \in 0 .. N + 1 /\ ~ \E t \in [0 .. n -> Nat] : SumsTo(n, t)
    OBVIOUS
  <2>3. n # 0
    <3> SUFFICES ASSUME n = 0 PROVE FALSE
      OBVIOUS
    <3>1. [i \in 0 .. 0 |-> 0] \in [0 .. n -> Nat] /\ SumsTo(n, [i \in 0 .. 0 |-> 0])
      OBVIOUS
    <3> HIDE DEF SumsTo
    <3> QED BY <2>2, <3>1
  <2>4. n - 1 \in 0 .. N /\ n - 1 \in 0 .. N + 1 /\ ~(n <= n - 1)
    BY <2>2, <2>3
  <2>5. PICK t \in [0 .. n - 1 -> Nat] : SumsTo(n - 1, t)
    <3>1. n - 1 \notin Without
      <4> HIDE DEF Without
      <4> QED BY <2>1, <2>4
    <3> QED BY <2>4, <3>1
  <2> DEFINE more == [i \in 0 .. n |-> IF i = n THEN t[n - 1] + s[n - 1] ELSE t[i]]
  <2>6. t[n - 1] + s[n - 1] \in Nat /\ \A i \in 0 .. n : i # n => i \in 0 .. n - 1 /\ t[i] \in Nat
    BY <2>2, <2>3, <2>4
  <2>7. more \in [0 .. n -> Nat]
    BY <2>6
  <2>8. more[0] = 0
    BY <2>2, <2>3, <2>5
  <2>9. ASSUME NEW e \in 0 .. n - 1 PROVE more[e + 1] = more[e] + s[e]
    <3>1. more[e] = t[e] /\ e \in 0 .. n /\ e + 1 \in 0 .. n
      BY <2>2, <2>9
    <3>2. CASE e = n - 1
      BY <3>1, <3>2, <2>4
    <3>3. CASE e # n - 1
      <4>1. e \in 0 .. (n - 1) - 1 /\ e + 1 # n
        BY <2>2, <3>3
      <4>2. t[e + 1] = t[e] + s[e]
        BY <2>5, <4>1
      <4> QED BY <3>1, <4>1, <4>2
    <3> QED BY <3>2, <3>3
  <2> HIDE DEF more
  <2>10. SumsTo(n, more)
    BY <2>8, <2>9
  <2> HIDE DEF SumsTo
  <2> QED BY <2>2, <2>7, <2>10
<1>2. PICK t \in [0 .. N + 1 -> Nat] : SumsTo(N + 1, t)
  <2>1. N + 1 \in 0 .. N + 1 /\ N + 1 \notin Without
    <3> HIDE DEF Without
    <3> QED BY <1>1
  <2> QED BY <2>1
<1>3. (N + 1) - 1 = N
  OBVIOUS
<1>4. t[0] = 0 /\ \A e \in 0 .. N : t[e + 1] = t[e] + s[e]
  BY <1>2, <1>3
<1> QED BY <1>4

(* So the executions of all epochs add up to something. *)
LEMMA TotalsExist == ControllerInv => \E total : Totals(total)
<1> SUFFICES ASSUME ControllerInv PROVE \E total : Totals(total)
  OBVIOUS
<1>1. MaxGlobalResets \in Nat /\ spent \in [0 .. MaxGlobalResets -> Nat]
  BY ControllerAssumption DEF ControllerInv, TypeOK, Epochs
<1>2. PICK total \in [0 .. MaxGlobalResets + 1 -> Nat] :
        total[0] = 0 /\ \A e \in 0 .. MaxGlobalResets : total[e + 1] = total[e] + spent[e]
  BY <1>1, SumsExist
<1>3. Totals(total)
  BY <1>2 DEF Totals, Epochs
<1> QED BY <1>3

(* The documented bound follows from the accounting of each epoch. *)
LEMMA EpochsAddUp == ControllerInv => TotalBounded
<1> SUFFICES ASSUME ControllerInv PROVE TotalBounded
  OBVIOUS
<1>0. PICK total : Totals(total)
  BY TotalsExist
<1>1. EpochLimit \in Nat /\ MaxGlobalResets \in Nat
  BY ControllerAssumption DEF ControllerInv, TypeOK, EpochLimit
<1>2. spent \in [0 .. MaxGlobalResets -> Nat] /\ \A e \in 0 .. MaxGlobalResets : spent[e] <= EpochLimit
  BY DEF ControllerInv, TypeOK, ReplaysBounded, Epochs
<1>3. /\ total \in [0 .. MaxGlobalResets + 1 -> Nat] /\ total[0] = 0
      /\ \A e \in 0 .. MaxGlobalResets : total[e + 1] = total[e] + spent[e]
  BY <1>0 DEF Totals, Epochs
<1>4. \A e \in 0 .. MaxGlobalResets + 1 : total[e] <= e * EpochLimit
  BY <1>1, <1>2, <1>3, SumsBounded
<1>5. total[MaxGlobalResets + 1] <= (MaxGlobalResets + 1) * EpochLimit
  BY <1>1, <1>4
<1> QED BY <1>0, <1>5 DEF TotalBounded

(* "Total re-execution is bounded by (max_global_resets + 1) (budget + N)" *)
(* with N the furthest step, and but for executions undone by others: all  *)
(* failures, jumps, backtracks and resets together.                        *)
THEOREM TotalExecutionsBounded == Spec => []TotalBounded
BY ControllerSafe, EpochsAddUp, PTL
=============================================================================
