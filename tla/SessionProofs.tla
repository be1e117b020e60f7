---------------------------- MODULE SessionProofs ----------------------------
(***************************************************************************)
(* What an agent does over MCP, retries and requests in flight included,   *)
(* the controller sees as steps of its own: the bound on executions and    *)
(* the limits of its strategies hold for every session.  And the protocol  *)
(* keeps agent and server in step: what the agent waits for is under way,  *)
(* a step runs only on outputs that stand, a commit publishes the whole    *)
(* task, for any number of faults and steps.                               *)
(***************************************************************************)
EXTENDS Session, RollbackControllerProofs, FiniteSetTheorems

(* A request that is served does what the controller allows, or nothing. *)
LEMMA ServedByController == Serve => [Next]_vars
<1>1. Serve => \/ UNCHANGED server
               \/ Succeeds \/ StepError \/ StepBreaks \/ Ends \/ Fails
               \/ \E s \in Step : RolledBack(s)
  <2>1. Commit => Ends \/ UNCHANGED server
    BY DEF Commit, Sticks
  <2>2. Back => \/ UNCHANGED server \/ Ends \/ \E s \in Step : RolledBack(s)
    <3>1. RolledBack(Request.step) => Request.step \in Step
      BY DEF RolledBack
    <3> QED BY <3>1 DEF Back
  <2>3. \A root \in Step \cup {None} : StepFails(root) => Fails
    BY DEF StepFails, Fails
  <2>4. Cancel => Ends \/ UNCHANGED server
    BY DEF Cancel, Sticks
  <2> QED BY <2>1, <2>2, <2>3, <2>4
          DEF Serve, NotFound, Refused, OutOfOrder, StepSucceeds, StepErrs, Get
<1> QED BY <1>1 DEF Next, server, vars

(* The agent's own actions leave the transaction alone. *)
LEMMA AgentLeavesServer ==
  ASSUME Acts \/ GivesUp \/ Receives
  PROVE  UNCHANGED vars
<1>1. \A op, s : Send(op, s) => UNCHANGED server
  BY DEF Send
<1> QED BY <1>1 DEF Acts, Proceeds, Resyncs, Cancels, RollsBack, GivesUp, Receives, server, vars

(* Every step of a session is one of the controller, or changes nothing of it. *)
LEMMA SessionStep == [SessionNext]_session => [Next]_vars
<1>1. Reap => Next \/ UNCHANGED vars
  BY DEF Reap, Sticks, Next, server, vars
<1>2. UNCHANGED session => UNCHANGED vars
  BY DEF session, server, vars
<1> QED BY <1>1, <1>2, ServedByController, AgentLeavesServer DEF SessionNext

(* Every session is a behaviour of the rollback controller's transaction.  *)
THEOREM SessionImplementsController == SessionSpec => Spec
<1>1. SessionInit => Init
  BY DEF SessionInit
<1> QED BY <1>1, SessionStep, PTL DEF SessionSpec, Spec

(* So no epoch of a session executes more steps than the replay budget and *)
(* the furthest step allow, whatever the agent sends and however late.     *)
THEOREM SessionControllerSafe == SessionSpec => []ControllerInv
BY SessionImplementsController, ControllerSafe, PTL

(* And a whole session executes no more than the documented bound on all   *)
(* its epochs together.                                                    *)
THEOREM SessionTotalBounded == SessionSpec => []TotalBounded
BY SessionImplementsController, TotalExecutionsBounded, PTL

(* A decision to rewind within the epoch jumps within the limit of jumps,  *)
(* or goes back one step further than the last time, within the depth.     *)
LEMMA RewindStrategy ==
  ASSUME ControllerInv, next \in Step, NEW root \in Step \cup {None}, Rewind(root)
  PROVE  \/ jumps'[next'] = jumps[next'] + 1 /\ jumps'[next'] <= JumpLimit
         \/ /\ next - next' <= MaxLocalDepth
            /\ next' > 1 => next - next' = retries'[next]
<1>0. /\ retries \in [Step -> Nat] /\ jumps \in [Step -> Nat] /\ next \in Nat
      /\ retries[next] \in Nat /\ MaxLocalDepth \in Nat
      /\ next' = Candidate(root) /\ HasCandidate(root)
  <2>1. retries \in [Step -> Nat] /\ jumps \in [Step -> Nat]
    BY DEF ControllerInv, TypeOK
  <2>2. next \in Nat /\ MaxLocalDepth \in Nat
    BY ControllerAssumption DEF Step
  <2> QED BY <2>1, <2>2 DEF Rewind, Affords
<1>1. CASE Jumps(root)
  <2>1. root \in Step /\ next' = root /\ jumps' = [jumps EXCEPT ![root] = @ + 1]
        /\ jumps[root] < JumpLimit
    BY <1>0, <1>1 DEF Jumps, Candidate, Rewind
  <2>2. jumps'[root] = jumps[root] + 1 /\ jumps[root] \in Nat
    BY <1>0, <2>1
  <2>3. JumpLimit \in Nat
    BY <1>0 DEF JumpLimit, Bigger
  <2>4. \A a, b \in Nat : a < b => a + 1 <= b
    OBVIOUS
  <2> QED BY <2>1, <2>2, <2>3, <2>4
<1>2. CASE ~Jumps(root)
  <2>1. /\ next' = Bigger(next - (retries[next] + 1), 1) /\ retries[next] + 1 <= MaxLocalDepth
        /\ retries'[next] = retries[next] + 1
    BY <1>0, <1>2 DEF Candidate, HasCandidate, Attempt, Rewind
  <2>2. \A n, r, d \in Nat : r + 1 <= d =>
          /\ n - Bigger(n - (r + 1), 1) <= d
          /\ Bigger(n - (r + 1), 1) > 1 => n - Bigger(n - (r + 1), 1) = r + 1
    BY DEF Bigger
  <2> QED BY <1>0, <2>1, <2>2
<1> QED BY <1>1, <1>2

(* A rewind by the controller is a jump within its limit or a backtrack. *)
LEMMA StepStrategy ==
  ASSUME ControllerInv, Next, NEW root \in Step,
         next' = root, root < next, free' = free, resets' = resets
  PROVE  \/ jumps'[root] = jumps[root] + 1 /\ jumps'[root] <= JumpLimit
         \/ /\ next - root <= MaxLocalDepth
            /\ root > 1 => next - root = retries'[next]
<1>0. /\ next \in Nat /\ root \in Nat /\ root > 0 /\ free \in Nat /\ resets \in Nat
      /\ free + 1 # free /\ resets + 1 # resets
  BY ControllerAssumption, StepRange DEF ControllerInv, TypeOK, Epochs
<1>1. ~Succeeds /\ ~StepBreaks /\ ~Ends /\ ~StepError
  BY <1>0 DEF Succeeds, StepBreaks, Ends, StepError
<1>2. \A s \in Step : ~RolledBack(s)
  <2> SUFFICES ASSUME NEW s \in Step, RolledBack(s) PROVE FALSE
    OBVIOUS
  <2>1. s \in Nat /\ s < next /\ free = free + next - s
    BY StepRange DEF RolledBack
  <2> QED BY <1>0, <2>1
<1>3. PICK r \in Step \cup {None} : Rewind(r)
  BY <1>0, <1>1, <1>2 DEF Next, Fails, GlobalReset, Abort
<1>4. next \in Step
  BY <1>3 DEF Rewind, Executes
<1> QED BY <1>3, <1>4, RewindStrategy

(* The strategies stay within their limits, in every session. *)
THEOREM SessionStrategiesBounded == SessionSpec => StrategiesBounded
<1>1. ControllerInv /\ [Next]_vars =>
        [\A root \in Step :
           next' = root /\ root < next /\ free' = free /\ resets' = resets =>
             \/ jumps'[root] = jumps[root] + 1 /\ jumps'[root] <= JumpLimit
             \/ /\ next - root <= MaxLocalDepth
                /\ root > 1 => next - root = retries'[next]]_vars
  BY StepStrategy
<1> QED BY <1>1, SessionImplementsController, ControllerSafe, PTL DEF Spec, StrategiesBounded
-----------------------------------------------------------------------------
(* The inductive invariant of a session.  Requests and answers are served  *)
(* and read in the order they were sent, so every line older than the one  *)
(* the agent waits for bears an older id, and the awaited line is the last *)
(* of its queue.                                                           *)
Older(q, id)     == \A i \in DOMAIN q : q[i].id < id
LastBears(q, id) == q # <<>> /\ \A i \in DOMAIN q : q[i].id <= id /\ (q[i].id = id <=> i = Len(q))

InFlight ==
  /\ agent = "waits" =>
       /\ awaits <= FreshId
       /\ \/ LastBears(inbox, awaits) /\ Older(outbox, awaits)
          \/ inbox = <<>> /\ LastBears(outbox, awaits)
  /\ agent # "waits" => Older(inbox, FreshId) /\ Older(outbox, FreshId)

(* The agent moves on only when nothing is left on stdin, so what is there *)
(* concerns the step it is at; and a plan that lost its basis was made for *)
(* a step the server has not come back to.                                 *)
Pending(r) ==
  /\ r.op = "run_step" => /\ r.step = at /\ at <= Goal
                          /\ ~r.based /\ Open => next < at
  /\ r.op = "back"     => r.step < at
  /\ r.op = "commit"   => /\ at = Goal + 1
                          /\ Active => next = at
Requests == \A i \in DOMAIN inbox : Pending(inbox[i])

(* After its last step the agent asks before it tries anything again.      *)
AfterLast ==
  at > Goal =>
    /\ agent = "plans" => inbox = <<>> /\ (Active => next = at)
    /\ \A i \in DOMAIN inbox : i > 1 => inbox[i].op = "get"

(* The outputs the agent holds are of steps before its own; those that     *)
(* stand are behind the server's next step, the undone ones not.           *)
Outputs ==
  \A k \in Step :
    /\ heard[k] # "none" => k < at
    /\ Open /\ heard[k] = "stands" => k < next
    /\ Open /\ heard[k] = "undone" => next <= k

(* The awaited answer, once given, is the server's last word.              *)
Final == outbox[Len(outbox)]
Given == agent = "waits" /\ inbox = <<>>
LastWord ==
  Given =>
    /\ Open => Final.next = next
    /\ Final.kind \in {"success", "rollback", "view"} => Final.next > 0
    /\ Final.kind = "success"  => at <= Goal /\ Final.next = at + 1
    /\ Final.kind = "rollback" => Final.to <= Final.next
    /\ Final.kind = "error" /\ at > Goal /\ Active => next = at

(* Without faults it tells the agent exactly where the transaction is.     *)
Exact == [k \in Step |-> IF k < next THEN "stands" ELSE "none"]
UpToDate == at = next /\ heard = Exact
FaultFree ==
  faults = 0 /\ Open =>
    /\ agent # "resyncs"
    /\ \A i \in DOMAIN inbox : inbox[i].op # "get"
    /\ agent \in {"plans", "waits"} /\ ~Given => UpToDate
    /\ Given => /\ Final.kind \in {"success", "rollback", "error"}
                /\ Final.kind = "success"  => [heard EXCEPT ![at] = "stands"] = Exact
                /\ Final.kind = "rollback" => Forget(Final.to) = Exact
                /\ Final.kind = "error"    => UpToDate

(* What an answer, or the agent, says of the end is so.                    *)
Sure(verdict) ==
  /\ verdict \in Verdicts => outcome # "open"
  /\ verdict = "committed" => outcome = "committed"
  /\ verdict \in {"failed", "cancelled", "conflict"} => outcome = "undone"
Truthful == Sure(agent) /\ \A i \in DOMAIN outbox : Sure(outbox[i].kind)

SessionIInv ==
  /\ ControllerInv /\ SessionTypeOK
  /\ InFlight /\ Requests /\ AfterLast /\ Outputs /\ LastWord /\ FaultFree /\ Truthful

(* The lines of the two queues. *)
Lined == [op : {"run_step", "commit", "back", "abort", "get"}, step : 1 .. (MaxStep + 1),
          id : Id, based : BOOLEAN]
Spoken == [id : Id, kind : Kinds, to : 0 .. MaxStep, next : 0 .. (MaxStep + 1)]

(* What the type invariant says of the lines in flight. *)
LEMMA SessionTypes ==
  ASSUME SessionTypeOK
  PROVE  /\ inbox \in Seq(Lined) /\ Len(inbox) \in Nat /\ DOMAIN inbox = 1 .. Len(inbox)
         /\ \A i \in 1 .. Len(inbox) : inbox[i] \in Lined
         /\ outbox \in Seq(Spoken) /\ Len(outbox) \in Nat /\ DOMAIN outbox = 1 .. Len(outbox)
         /\ \A i \in 1 .. Len(outbox) : outbox[i] \in Spoken
         /\ (inbox = <<>> <=> Len(inbox) = 0) /\ (outbox = <<>> <=> Len(outbox) = 0)
         /\ faults \in Nat /\ MaxFaults \in Nat /\ MaxStep \in Nat
         /\ at \in Nat /\ awaits \in Nat /\ FreshId = faults + 1 /\ FreshId \in Id
<1>1. inbox \in Seq(Lined) /\ outbox \in Seq(Spoken)
  BY DEF SessionTypeOK, Lined, Spoken
<1>2. /\ faults \in Nat /\ MaxFaults \in Nat /\ MaxStep \in Nat /\ faults <= MaxFaults
      /\ at \in Nat /\ awaits \in Nat
  BY SessionAssumption, ControllerAssumption DEF SessionTypeOK, Id, NoId
<1>3. FreshId = faults + 1 /\ FreshId \in Id
  BY <1>2 DEF FreshId, Id
<1>4. /\ Len(inbox) \in Nat /\ DOMAIN inbox = 1 .. Len(inbox)
      /\ \A i \in 1 .. Len(inbox) : inbox[i] \in Lined
      /\ inbox = <<>> <=> Len(inbox) = 0
  BY <1>1
<1>5. /\ Len(outbox) \in Nat /\ DOMAIN outbox = 1 .. Len(outbox)
      /\ \A i \in 1 .. Len(outbox) : outbox[i] \in Spoken
      /\ outbox = <<>> <=> Len(outbox) = 0
  BY <1>1
<1> QED BY <1>1, <1>2, <1>3, <1>4, <1>5

(* A request goes to the end of stdin, with a new id, while the agent is   *)
(* not waiting for another.                                                *)
Sent(op, s) ==
  /\ Send(op, s) /\ agent # "waits" /\ s \in 1 .. (MaxStep + 1)
  /\ op # "get" => agent = "plans"
  /\ op = "get" => agent = "resyncs"
  /\ op \in {"run_step", "commit"} => s = at /\ (op = "run_step" <=> at <= Goal)
  /\ op = "back" => s < at
  /\ op \in {"run_step", "commit", "back", "abort", "get"}

(* Whatever the agent decides, it sends one request. *)
LEMMA ActsSend == ASSUME SessionTypeOK, Acts PROVE \E op, s : Sent(op, s)
<1>0. at \in 1 .. (MaxStep + 1) /\ MaxStep \in Nat
  BY ControllerAssumption DEF SessionTypeOK
<1>1. CASE Proceeds
  <2>1. CASE at <= Goal
    BY <1>0, <1>1, <2>1 DEF Proceeds, Sent
  <2>2. CASE ~(at <= Goal)
    BY <1>0, <1>1, <2>2 DEF Proceeds, Sent
  <2> QED BY <2>1, <2>2
<1>2. CASE Resyncs
  BY <1>0, <1>2 DEF Resyncs, Sent
<1>3. CASE Cancels
  BY <1>0, <1>3 DEF Cancels, Sent
<1>4. ASSUME NEW s \in Step, RollsBack(s) PROVE Sent("back", s)
  BY <1>0, <1>4 DEF RollsBack, Sent, Step
<1> QED BY <1>1, <1>2, <1>3, <1>4 DEF Acts

(* A request sent is the last line on stdin, and the agent waits for it. *)
LEMMA SentFacts ==
  ASSUME SessionTypeOK, NEW op, NEW s, Sent(op, s)
  PROVE  /\ inbox' \in Seq(Lined) /\ Len(inbox') = Len(inbox) + 1 /\ inbox' # <<>>
         /\ DOMAIN inbox' = 1 .. (Len(inbox) + 1)
         /\ \A i \in 1 .. Len(inbox) : inbox'[i] = inbox[i]
         /\ inbox'[Len(inbox) + 1] =
              [op |-> op, step |-> s, id |-> FreshId, based |-> \A k \in Step : heard[k] # "undone"]
         /\ agent' = "waits" /\ awaits' = FreshId
         /\ UNCHANGED <<next, outcome, outbox, at, heard, faults>>
<1> DEFINE r == [op |-> op, step |-> s, id |-> FreshId,
                 based |-> \A k \in Step : heard[k] # "undone"]
<1>1. /\ inbox' = Append(inbox, r) /\ agent' = "waits" /\ awaits' = FreshId
      /\ UNCHANGED <<next, outcome, outbox, at, heard, faults>>
  BY DEF Sent, Send, server
<1>2. r \in Lined
  BY SessionTypes DEF Sent, Lined
<1> HIDE DEF r
<1>3. /\ inbox' \in Seq(Lined) /\ Len(inbox') = Len(inbox) + 1 /\ inbox' # <<>>
      /\ DOMAIN inbox' = 1 .. (Len(inbox) + 1)
      /\ \A i \in 1 .. Len(inbox) : inbox'[i] = inbox[i]
      /\ inbox'[Len(inbox) + 1] = r
  BY <1>1, <1>2, SessionTypes
<1> QED BY <1>1, <1>3 DEF r

(* An answer takes the first line of stdin and goes to the end of stdout.  *)
LEMMA AnswerFacts ==
  ASSUME SessionTypeOK, inbox # <<>>, NEW kind \in Kinds, NEW to \in 0 .. MaxStep,
         next' \in 0 .. (MaxStep + 1), Answer(kind, to)
  PROVE  /\ inbox' \in Seq(Lined) /\ Len(inbox') = Len(inbox) - 1
         /\ DOMAIN inbox' = 1 .. (Len(inbox) - 1)
         /\ \A i \in 1 .. (Len(inbox) - 1) :
              /\ inbox'[i].op = inbox[i + 1].op /\ inbox'[i].step = inbox[i + 1].step
              /\ inbox'[i].id = inbox[i + 1].id
              /\ inbox'[i].based = (inbox[i + 1].based /\ inbox[i + 1].step <= next')
         /\ outbox' \in Seq(Spoken) /\ Len(outbox') = Len(outbox) + 1 /\ outbox' # <<>>
         /\ DOMAIN outbox' = 1 .. (Len(outbox) + 1)
         /\ \A i \in 1 .. Len(outbox) : outbox'[i] = outbox[i]
         /\ outbox'[Len(outbox) + 1] = [id |-> Request.id, kind |-> kind, to |-> to, next |-> next']
         /\ Len(inbox) > 0 /\ Request = inbox[1] /\ Request \in Lined
         /\ (inbox' = <<>> <=> Len(inbox) = 1)
         /\ UNCHANGED <<agent, awaits, at>>
<1> DEFINE a == [id |-> Request.id, kind |-> kind, to |-> to, next |-> next']
           line(i) == [inbox[i + 1] EXCEPT !.based = @ /\ inbox[i + 1].step <= next']
<1>0. /\ inbox' = [i \in 1 .. (Len(inbox) - 1) |-> line(i)]
      /\ outbox' = Append(outbox, a)
      /\ UNCHANGED <<agent, awaits, at>>
  BY DEF Answer
<1>1. Len(inbox) > 0 /\ Request = inbox[1] /\ Request \in Lined
  BY SessionTypes DEF Request
<1>2. a \in Spoken
  BY <1>1 DEF Lined, Spoken
<1>3. \A i \in 1 .. (Len(inbox) - 1) :
        /\ line(i) \in Lined
        /\ line(i).op = inbox[i + 1].op /\ line(i).step = inbox[i + 1].step
        /\ line(i).id = inbox[i + 1].id
        /\ line(i).based = (inbox[i + 1].based /\ inbox[i + 1].step <= next')
  <2> SUFFICES ASSUME NEW i \in 1 .. (Len(inbox) - 1)
               PROVE  /\ line(i) \in Lined
                      /\ line(i).op = inbox[i + 1].op /\ line(i).step = inbox[i + 1].step
                      /\ line(i).id = inbox[i + 1].id
                      /\ line(i).based = (inbox[i + 1].based /\ inbox[i + 1].step <= next')
    OBVIOUS
  <2>1. inbox[i + 1] \in Lined
    BY SessionTypes
  <2> QED BY <2>1 DEF Lined
<1> HIDE DEF a, line
<1>4. /\ outbox' \in Seq(Spoken) /\ Len(outbox') = Len(outbox) + 1 /\ outbox' # <<>>
      /\ DOMAIN outbox' = 1 .. (Len(outbox) + 1)
      /\ \A i \in 1 .. Len(outbox) : outbox'[i] = outbox[i]
      /\ outbox'[Len(outbox) + 1] = a
  BY <1>0, <1>2, SessionTypes
<1>5. /\ inbox' \in Seq(Lined) /\ Len(inbox') = Len(inbox) - 1
      /\ DOMAIN inbox' = 1 .. (Len(inbox) - 1)
      /\ \A i \in 1 .. (Len(inbox) - 1) : inbox'[i] = line(i)
  <2>1. Len(inbox) - 1 \in Nat
    BY <1>1, SessionTypes
  <2> QED BY <1>0, <1>3, <2>1
<1>6. inbox' = <<>> <=> Len(inbox) = 1
  <2>1. \A S : \A q \in Seq(S) : q = <<>> <=> Len(q) = 0
    OBVIOUS
  <2>2. inbox' = <<>> <=> Len(inbox) - 1 = 0
    BY <1>5, <2>1, Zenon
  <2>3. Len(inbox) \in Nat
    BY SessionTypes
  <2> QED BY <2>2, <2>3
<1> QED BY <1>0, <1>1, <1>3, <1>4, <1>5, <1>6 DEF a

(* Reading takes the first line of stdout. *)
LEMMA ReceivesFacts ==
  ASSUME SessionTypeOK, Receives
  PROVE  /\ outbox' \in Seq(Spoken) /\ Len(outbox') = Len(outbox) - 1 /\ Len(outbox) > 0
         /\ DOMAIN outbox' = 1 .. (Len(outbox) - 1)
         /\ \A i \in 1 .. (Len(outbox) - 1) : outbox'[i] = outbox[i + 1]
         /\ Answered = outbox[1] /\ Answered \in Spoken
         /\ UNCHANGED <<next, outcome, inbox, faults>>
<1>1. /\ outbox # <<>> /\ outbox' = Tail(outbox)
      /\ UNCHANGED <<next, outcome, inbox, faults>>
  BY DEF Receives, Reads, Ignores, server
<1>2. Len(outbox) > 0 /\ Answered = outbox[1] /\ Answered \in Spoken
  BY <1>1, SessionTypes DEF Answered
<1>3. /\ outbox' \in Seq(Spoken) /\ Len(outbox') = Len(outbox) - 1
      /\ DOMAIN outbox' = 1 .. (Len(outbox) - 1)
      /\ \A i \in 1 .. (Len(outbox) - 1) : outbox'[i] = outbox[i + 1]
  BY <1>1, <1>2, SessionTypes
<1> QED BY <1>1, <1>2, <1>3

(* What the server makes of the first line of stdin: the answer it gives,  *)
(* by the state it found the transaction in and the state it leaves.       *)
Replied(kind, to) ==
  /\ inbox # <<>> /\ kind \in Kinds /\ to \in 0 .. MaxStep /\ Answer(kind, to)
  /\ outcome' \in {"open", "committed", "undone", "stuck"}
  /\ outcome' \in {"open", "stuck"} <=> next' > 0
  /\ faults \in 0 .. MaxFaults /\ faults' \in faults .. MaxFaults
  /\ outcome' # outcome => outcome = "open"
  /\ ~Open => next' = 0
  /\ outcome' = "stuck" => next' = next /\ kind \in {"error", "view"}
  /\ next' > 0 => next' <= next \/ kind = "success"
  /\ kind = "success" => /\ Request.op = "run_step" /\ Request.step = next
                         /\ next \in Step /\ next' = next + 1
  /\ kind = "rollback" => next' > 0 /\ (to = next' \/ (to = 0 /\ next' = 1))
  /\ kind = "view" => Open /\ next' = next /\ Request.op = "get"
  /\ kind = "order" =>
       /\ Open /\ next' = next
       /\ \/ Request.op = "run_step" /\ Request.step # next
          \/ Request.op = "back" /\ Request.step >= next
  /\ kind = "error" /\ next' > 0 => next' = next
  /\ kind = "error" /\ outcome' = "open" =>
       \/ Request.op = "run_step" /\ Request.step = next
       \/ Request.op = "commit" /\ faults' > 0
  /\ Sure(kind)'

(* Whatever the server does with a request, it answers it with one line. *)
LEMMA ServeReplies ==
  ASSUME ControllerInv, ControllerInv', SessionTypeOK, Serve
  PROVE  \E kind, to : Replied(kind, to)
<1>0. /\ next \in 0 .. (MaxStep + 1) /\ next' \in 0 .. (MaxStep + 1) /\ MaxStep \in Nat
      /\ next \in Nat /\ next' \in Nat
      /\ 0 \in 0 .. MaxStep /\ \A s \in Step : s \in 0 .. MaxStep /\ s > 0
      /\ outcome \in {"open", "committed", "undone", "stuck"}
      /\ outcome \in {"open", "stuck"} <=> Open
      /\ (Active <=> outcome = "open") /\ (Active => Open)
      /\ faults \in 0 .. MaxFaults /\ faults \in faults .. MaxFaults /\ MaxFaults \in Nat
      /\ (Open <=> next > 0)
  BY ControllerAssumption, SessionAssumption
  DEF ControllerInv, TypeOK, SessionTypeOK, Step, Open, Active
<1>1. CASE NotFound
  <2>1. inbox # <<>> /\ ~Open /\ next' = next /\ Stays /\ Answer("gone", 0)
    BY <1>1 DEF NotFound, server
  <2>2. Replied("gone", 0)
    BY <1>0, <2>1 DEF Replied, Kinds, Verdicts, Stays, Sure
  <2> QED BY <2>2
<1>r. CASE Refused
  <2>1. /\ inbox # <<>> /\ Open /\ ~Active /\ next' = next /\ Stays /\ Answer("error", 0)
    BY <1>r DEF Refused, server
  <2>2. Replied("error", 0)
    BY <1>0, <2>1 DEF Replied, Kinds, Verdicts, Stays, Sure
  <2> QED BY <2>2
<1>2. CASE OutOfOrder
  <2>1. /\ inbox # <<>> /\ Active /\ next' = next /\ Stays /\ Answer("order", 0)
        /\ Request.op = "run_step" /\ Request.step # next
    BY <1>2 DEF OutOfOrder, server, Takes, InOrder
  <2>2. Replied("order", 0)
    BY <1>0, <2>1 DEF Replied, Kinds, Verdicts, Stays, Sure
  <2> QED BY <2>2
<1>3. CASE StepSucceeds
  <2>1. /\ inbox # <<>> /\ Active /\ next \in Step /\ next' = next + 1 /\ Stays
        /\ Answer("success", 0) /\ Request.op = "run_step" /\ Request.step = next
    BY <1>3 DEF StepSucceeds, Takes, InOrder, Succeeds, Executes
  <2>2. Replied("success", 0)
    BY <1>0, <2>1 DEF Replied, Kinds, Verdicts, Stays, Sure
  <2> QED BY <2>2
<1>4. ASSUME NEW root \in Step \cup {None}, StepFails(root)
      PROVE  \E kind, to : Replied(kind, to)
  <2>1. inbox # <<>> /\ Active /\ next \in Step
    BY <1>4 DEF StepFails, Takes, InOrder, Rewind, GlobalReset, Abort, Executes
  <2>2. CASE Rewind(root) /\ Stays /\ Answer("rollback", next')
    <3>1. next' \in Step /\ next' <= next
      BY <2>1, <2>2, CandidateFacts DEF Rewind
    <3>2. Replied("rollback", next')
      BY <1>0, <2>1, <2>2, <3>1 DEF Replied, Kinds, Verdicts, Stays, Sure
    <3> QED BY <3>2
  <2>3. CASE GlobalReset(root) /\ Stays /\ Answer("rollback", 0)
    <3>1. next' = 1
      BY <2>3 DEF GlobalReset
    <3>2. Replied("rollback", 0)
      BY <1>0, <2>1, <2>3, <3>1 DEF Replied, Kinds, Verdicts, Stays, Sure
    <3> QED BY <3>2
  <2>4. CASE Abort(root) /\ Closes("undone") /\ Answer("failed", 0)
    <3>1. next' = 0 /\ outcome' = "undone" /\ faults' = faults
      BY <2>4 DEF Abort, Closes
    <3>2. Replied("failed", 0)
      BY <1>0, <2>1, <2>4, <3>1 DEF Replied, Kinds, Verdicts, Sure
    <3> QED BY <3>2
  <2> QED BY <1>4, <2>2, <2>3, <2>4 DEF StepFails
<1>5. CASE StepErrs
  <2>1. inbox # <<>> /\ Active /\ Request.op = "run_step" /\ Request.step = next
    BY <1>5 DEF StepErrs, Takes, InOrder
  <2>2. \/ next' = next /\ outcome' = outcome /\ faults' = faults
        \/ next' = 0 /\ outcome' = "undone" /\ faults' = faults
    BY <1>5 DEF StepErrs, StepError, StepBreaks, Stays, Closes
  <2>3. Answer("error", 0)
    BY <1>5 DEF StepErrs
  <2>4. Replied("error", 0)
    BY <1>0, <2>1, <2>2, <2>3 DEF Replied, Kinds, Verdicts, Sure
  <2> QED BY <2>4
<1>6. CASE Commit
  <2>1. inbox # <<>> /\ Active /\ Request.op = "commit"
    BY <1>6 DEF Commit, Takes
  <2>2. CASE Ends /\ Closes("committed") /\ Answer("committed", 0)
    <3>1. next' = 0 /\ outcome' = "committed" /\ faults' = faults
      BY <2>2 DEF Ends, Closes
    <3>2. Replied("committed", 0)
      BY <1>0, <2>1, <2>2, <3>1 DEF Replied, Kinds, Verdicts, Sure
    <3> QED BY <3>2
  <2>3. CASE Ends /\ Closes("undone") /\ Answer("conflict", 0)
    <3>1. next' = 0 /\ outcome' = "undone" /\ faults' = faults
      BY <2>3 DEF Ends, Closes
    <3>2. Replied("conflict", 0)
      BY <1>0, <2>1, <2>3, <3>1 DEF Replied, Kinds, Verdicts, Sure
    <3> QED BY <3>2
  <2>5. CASE Sticks /\ Answer("error", 0)
    <3>1. next' = next /\ outcome' = "stuck" /\ faults' = faults
      BY <2>5 DEF Sticks, Closes, server
    <3>2. Replied("error", 0)
      BY <1>0, <2>1, <2>5, <3>1 DEF Replied, Kinds, Verdicts, Sure
    <3> QED BY <3>2
  <2>4. CASE /\ faults < MaxFaults /\ faults' = faults + 1
             /\ UNCHANGED <<server, outcome>> /\ Answer("error", 0)
    <3>1. /\ next' = next /\ outcome' = outcome /\ faults' \in faults .. MaxFaults
          /\ faults' > 0
      BY <1>0, <2>4 DEF server
    <3>2. Replied("error", 0)
      BY <1>0, <2>1, <2>4, <3>1 DEF Replied, Kinds, Verdicts, Sure
    <3> QED BY <3>2
  <2> QED BY <1>6, <2>2, <2>3, <2>4, <2>5 DEF Commit
<1>7. CASE Back
  <2>1. inbox # <<>> /\ Active /\ Request.op = "back"
    BY <1>7 DEF Back, Takes
  <2>2. CASE NotAfter /\ UNCHANGED server /\ Stays /\ Answer("order", 0)
    <3>1. next' = next /\ Request.step >= next
      BY <2>2 DEF server, NotAfter
    <3>2. Replied("order", 0)
      BY <1>0, <2>1, <2>2, <3>1 DEF Replied, Kinds, Verdicts, Stays, Sure
    <3> QED BY <3>2
  <2>3. CASE RolledBack(Request.step) /\ Stays /\ Answer("rollback", Request.step)
    <3>1. Request.step \in Step /\ next' = Request.step /\ Request.step < next
      BY <2>3 DEF RolledBack
    <3>2. Replied("rollback", next')
      BY <1>0, <2>1, <2>3, <3>1 DEF Replied, Kinds, Verdicts, Stays, Sure
    <3> QED BY <3>2
  <2>4. CASE Ends /\ Closes("undone") /\ Answer("error", 0)
    <3>1. next' = 0 /\ outcome' = "undone" /\ faults' = faults
      BY <2>4 DEF Ends, Closes
    <3>2. Replied("error", 0)
      BY <1>0, <2>1, <2>4, <3>1 DEF Replied, Kinds, Verdicts, Sure
    <3> QED BY <3>2
  <2> QED BY <1>7, <2>2, <2>3, <2>4 DEF Back
<1>8. CASE Cancel
  <2>1. inbox # <<>> /\ Active
    BY <1>8 DEF Cancel, Takes
  <2>2. CASE Ends /\ Closes("undone") /\ Answer("cancelled", 0)
    <3>1. next' = 0 /\ outcome' = "undone" /\ faults' = faults
      BY <2>2 DEF Ends, Closes
    <3>2. Replied("cancelled", 0)
      BY <1>0, <2>1, <2>2, <3>1 DEF Replied, Kinds, Verdicts, Sure
    <3> QED BY <3>2
  <2>3. CASE Sticks /\ Answer("error", 0)
    <3>1. next' = next /\ outcome' = "stuck" /\ faults' = faults
      BY <2>3 DEF Sticks, Closes, server
    <3>2. Replied("error", 0)
      BY <1>0, <2>1, <2>3, <3>1 DEF Replied, Kinds, Verdicts, Sure
    <3> QED BY <3>2
  <2> QED BY <1>8, <2>2, <2>3 DEF Cancel
<1>9. CASE Get
  <2>1. /\ inbox # <<>> /\ Open /\ next' = next /\ outcome' = outcome /\ faults' = faults
        /\ Answer("view", 0) /\ Request.op = "get"
    BY <1>9 DEF Get, Takes, server, Stays
  <2>2. Replied("view", 0)
    BY <1>0, <2>1 DEF Replied, Kinds, Verdicts, Sure
  <2> QED BY <2>2
<1> QED BY <1>1, <1>r, <1>2, <1>3, <1>4, <1>5, <1>6, <1>7, <1>8, <1>9 DEF Serve

(* An answer: the first line of stdin is gone, a last line is on stdout. *)
LEMMA RepliedFacts ==
  ASSUME SessionTypeOK, next' \in 0 .. (MaxStep + 1), NEW kind, NEW to, Replied(kind, to)
  PROVE  /\ inbox' \in Seq(Lined) /\ Len(inbox') = Len(inbox) - 1
         /\ DOMAIN inbox' = 1 .. (Len(inbox) - 1)
         /\ \A i \in 1 .. (Len(inbox) - 1) :
              /\ inbox'[i].op = inbox[i + 1].op /\ inbox'[i].step = inbox[i + 1].step
              /\ inbox'[i].id = inbox[i + 1].id
              /\ inbox'[i].based = (inbox[i + 1].based /\ inbox[i + 1].step <= next')
         /\ outbox' \in Seq(Spoken) /\ Len(outbox') = Len(outbox) + 1 /\ outbox' # <<>>
         /\ DOMAIN outbox' = 1 .. (Len(outbox) + 1)
         /\ \A i \in 1 .. Len(outbox) : outbox'[i] = outbox[i]
         /\ outbox'[Len(outbox) + 1] = [id |-> Request.id, kind |-> kind, to |-> to, next |-> next']
         /\ Len(inbox) > 0 /\ Request = inbox[1] /\ Request \in Lined
         /\ (inbox' = <<>> <=> Len(inbox) = 1)
         /\ UNCHANGED <<agent, awaits, at>>
BY AnswerFacts DEF Replied

(* Every action keeps the invariant.  The agent sends: the new line is the *)
(* newest, and concerns the step the agent is at.                          *)
LEMMA SentKeeps ==
  ASSUME SessionIInv, NEW op, NEW s, Sent(op, s)
  PROVE  /\ SessionTypeOK' /\ InFlight' /\ Requests' /\ AfterLast'
         /\ Outputs' /\ LastWord' /\ FaultFree' /\ Truthful'
<1> DEFINE r == [op |-> op, step |-> s, id |-> FreshId,
                 based |-> \A k \in Step : heard[k] # "undone"]
           n == Len(inbox) + 1
<1>0. /\ SessionTypeOK /\ ControllerInv
      /\ r.op = op /\ r.step = s /\ r.id = FreshId
      /\ r.based = \A k \in Step : heard[k] # "undone"
      /\ inbox'[n] = r
  BY SentFacts DEF SessionIInv
<1> HIDE DEF r
<1>1. /\ inbox' \in Seq(Lined) /\ inbox' # <<>> /\ DOMAIN inbox' = 1 .. n
      /\ Len(inbox') = n /\ n \in Nat /\ n > 0 /\ DOMAIN inbox = 1 .. (n - 1)
      /\ \A i \in 1 .. (n - 1) : inbox'[i] = inbox[i]
      /\ agent' = "waits" /\ awaits' = FreshId /\ FreshId' = FreshId
      /\ agent # "waits"
      /\ UNCHANGED <<next, outcome, outbox, at, heard, faults>>
      /\ (Open' <=> Open) /\ (Active' <=> Active)
  BY <1>0, SentFacts, SessionTypes DEF Sent, FreshId, Open, Active
<1>2. SessionTypeOK'
  BY <1>0, <1>1, SessionTypes DEF SessionTypeOK, Lined, NoId, Id
<1>3. InFlight'
  <2>1. \A i \in 1 .. (n - 1) : inbox[i].id < FreshId
    BY <1>1 DEF SessionIInv, InFlight, Older
  <2>2. \A i \in 1 .. (n - 1) : inbox[i].id \in Nat
    BY <1>0, SessionTypes DEF Lined, Id
  <2>3. LastBears(inbox, awaits)'
    <3>1. FreshId \in Nat /\ \A i \in 1 .. n : i # n => i \in 1 .. (n - 1)
      BY <1>0, <1>1, SessionTypes DEF Id
    <3>2. \A i \in 1 .. n : inbox'[i].id <= FreshId /\ (inbox'[i].id = FreshId <=> i = n)
      BY <1>0, <1>1, <2>1, <2>2, <3>1
    <3> QED BY <1>1, <3>2 DEF LastBears
  <2>4. Older(outbox, awaits)'
    BY <1>1 DEF SessionIInv, InFlight, Older
  <2>5. (awaits <= FreshId)'
    BY <1>0, <1>1, SessionTypes
  <2> QED BY <1>1, <2>3, <2>4, <2>5 DEF InFlight
<1>4. Requests'
  <2>1. \A i \in 1 .. (n - 1) : Pending(inbox[i])'
    BY <1>1 DEF SessionIInv, Requests, Pending
  <2>2. ~r.based /\ Open => next < at
    <3> SUFFICES ASSUME ~r.based, Open PROVE next < at
      OBVIOUS
    <3>1. PICK k \in Step : heard[k] = "undone"
      BY <1>0
    <3>2. next <= k /\ k < at
      BY <3>1 DEF SessionIInv, Outputs
    <3> QED BY <1>0, <3>2, SessionTypes, ControllerAssumption
            DEF ControllerInv, TypeOK, Step
  <2>3. op = "commit" => at = Goal + 1 /\ (Active => next = at)
    <3> SUFFICES ASSUME op = "commit" PROVE at = Goal + 1 /\ (Active => next = at)
      OBVIOUS
    <3>1. ~(at <= Goal) /\ agent = "plans"
      BY DEF Sent
    <3>2. at = Goal + 1 /\ at > Goal
      BY <1>0, <3>1, SessionTypes DEF SessionTypeOK, Goal
    <3> QED BY <3>1, <3>2 DEF SessionIInv, AfterLast
  <2>4. Pending(r)
    BY <1>0, <2>2, <2>3 DEF Pending, Sent
  <2>5. ASSUME NEW i \in 1 .. n, i = n PROVE Pending(inbox[i])'
    BY <1>0, <1>1, <2>4, <2>5 DEF Pending
  <2>6. \A i \in 1 .. n : i # n => i \in 1 .. (n - 1)
    BY <1>1
  <2>7. \A i \in 1 .. n : Pending(inbox[i])'
    BY <2>1, <2>5, <2>6
  <2> QED BY <1>1, <2>7 DEF Requests
<1>5. AfterLast'
  <2> SUFFICES ASSUME at > Goal, NEW i \in 1 .. n, i > 1 PROVE inbox'[i].op = "get"
    BY <1>1 DEF AfterLast
  <2>1. CASE i = n
    <3>1. inbox # <<>>
      BY <1>0, <1>1, <2>1, SessionTypes
    <3>2. agent # "plans"
      BY <3>1 DEF SessionIInv, AfterLast
    <3> QED BY <1>0, <2>1, <3>2 DEF Sent
  <2>2. CASE i # n
    <3>1. i \in 1 .. (n - 1)
      BY <1>1, <2>2
    <3> QED BY <1>1, <3>1 DEF SessionIInv, AfterLast
  <2> QED BY <2>1, <2>2
<1>6. Outputs'
  BY <1>1 DEF SessionIInv, Outputs
<1>7. LastWord'
  BY <1>1 DEF LastWord, Given
<1>8. FaultFree'
  <2> SUFFICES ASSUME faults = 0, Open
               PROVE  /\ \A i \in 1 .. n : inbox'[i].op # "get"
                      /\ UpToDate'
    BY <1>1 DEF FaultFree, Given
  <2>1. agent # "resyncs"
    BY DEF SessionIInv, FaultFree
  <2>2. op # "get" /\ agent = "plans"
    BY <2>1 DEF Sent
  <2>3. \A i \in 1 .. (n - 1) : inbox[i].op # "get"
    BY <1>1 DEF SessionIInv, FaultFree
  <2>4. \A i \in 1 .. n : inbox'[i].op # "get"
    BY <1>0, <1>1, <2>2, <2>3
  <2>5. UpToDate
    BY <1>1, <2>2 DEF SessionIInv, FaultFree, Given
  <2>6. UpToDate'
    BY <1>1, <2>5 DEF UpToDate, Exact
  <2> QED BY <2>4, <2>6
<1>9. Truthful'
  BY <1>1 DEF SessionIInv, Truthful, Sure, Verdicts
<1> QED BY <1>2, <1>3, <1>4, <1>5, <1>6, <1>7, <1>8, <1>9

(* The agent gives up: the line it waited for is as old as the others.     *)
LEMMA GivesUpKeeps ==
  ASSUME SessionIInv, GivesUp
  PROVE  /\ SessionTypeOK' /\ InFlight' /\ Requests' /\ AfterLast'
         /\ Outputs' /\ LastWord' /\ FaultFree' /\ Truthful'
<1>0. SessionTypeOK
  BY DEF SessionIInv
<1>1. /\ agent = "waits" /\ agent' \in {"plans", "resyncs"}
      /\ agent' = "plans" => at <= Goal
      /\ awaits' = NoId /\ faults' = faults + 1 /\ faults < MaxFaults
      /\ UNCHANGED <<next, outcome, inbox, outbox, at, heard>>
      /\ (Open' <=> Open) /\ (Active' <=> Active) /\ FreshId' = FreshId + 1
  BY DEF GivesUp, server, Open, Active, FreshId
<1>2. SessionTypeOK'
  BY <1>0, <1>1, SessionTypes DEF SessionTypeOK
<1>3. InFlight'
  <2>1. awaits <= FreshId
    BY <1>1 DEF SessionIInv, InFlight
  <2>2. \A i \in DOMAIN inbox : inbox[i].id <= awaits
    BY <1>1, <1>0, SessionTypes DEF SessionIInv, InFlight, LastBears
  <2>3. \A i \in DOMAIN outbox : outbox[i].id <= awaits
    <3>1. \A i \in DOMAIN outbox : outbox[i].id \in Nat
      BY <1>0, SessionTypes DEF Spoken, Id
    <3> QED BY <1>1, <1>0, <3>1, SessionTypes DEF SessionIInv, InFlight, LastBears, Older
  <2>4. /\ \A i \in DOMAIN inbox : inbox[i].id \in Nat
        /\ \A i \in DOMAIN outbox : outbox[i].id \in Nat
        /\ awaits \in Nat /\ FreshId \in Nat
    BY <1>0, SessionTypes DEF Spoken, Lined, Id
  <2>5. Older(inbox, FreshId)' /\ Older(outbox, FreshId)'
    BY <1>1, <2>1, <2>2, <2>3, <2>4 DEF Older
  <2> QED BY <1>1, <2>5 DEF InFlight
<1>4. Requests'
  BY <1>1 DEF SessionIInv, Requests, Pending
<1>5. AfterLast'
  BY <1>0, <1>1, SessionTypes DEF SessionIInv, AfterLast, Goal
<1>6. Outputs'
  BY <1>1 DEF SessionIInv, Outputs
<1>7. LastWord'
  BY <1>1 DEF LastWord, Given
<1>8. FaultFree'
  BY <1>0, <1>1, SessionTypes DEF FaultFree
<1>9. Truthful'
  BY <1>1 DEF SessionIInv, Truthful, Sure, Verdicts
<1> QED BY <1>2, <1>3, <1>4, <1>5, <1>6, <1>7, <1>8, <1>9

(* What the server undoes is, for the agent, no longer an output.          *)
LEMMA HeardAfter ==
  ASSUME SessionTypeOK, NEW kind, NEW to, Replied(kind, to)
  PROVE  \A k \in Step :
           heard'[k] = IF outcome' = "open" /\ k >= next' /\ heard[k] # "none"
                       THEN "undone" ELSE heard[k]
<1>1. Undone
  BY DEF Replied, Answer
<1> QED BY <1>1 DEF Undone, SessionTypeOK

(* What the agent knows of its steps stays a status for each. *)
LEMMA HeardTyped ==
  ASSUME SessionTypeOK, NEW kind, NEW to, Replied(kind, to)
  PROVE  heard' \in [Step -> {"none", "stands", "undone"}]
<1>1. Undone
  BY DEF Replied, Answer
<1> QED BY <1>1 DEF Undone, SessionTypeOK

(* The server answers: what was first on stdin is last on stdout.          *)
LEMMA ReplyKeeps ==
  ASSUME SessionIInv, ControllerInv', NEW kind, NEW to, Replied(kind, to)
  PROVE  /\ SessionTypeOK' /\ InFlight' /\ Requests' /\ AfterLast'
         /\ Outputs' /\ LastWord' /\ FaultFree' /\ Truthful'
<1> DEFINE n == Len(inbox)
           m == Len(outbox)
           a == [id |-> Request.id, kind |-> kind, to |-> to, next |-> next']
<1>0. /\ SessionTypeOK /\ ControllerInv
      /\ next \in 0 .. (MaxStep + 1) /\ next' \in 0 .. (MaxStep + 1)
      /\ next \in Nat /\ next' \in Nat /\ MaxStep \in Nat /\ at \in Nat
      /\ faults \in Nat /\ faults' \in Nat /\ faults <= faults' /\ faults' \in 0 .. MaxFaults
      /\ (Open <=> next > 0) /\ (Open' <=> next' > 0)
      /\ (Open' => Open) /\ (Active' => Active /\ Open')
      /\ (Active <=> outcome = "open") /\ (Active' <=> outcome' = "open")
      /\ \A k \in Step : k \in Nat /\ k > 0
  <2>1. SessionTypeOK /\ ControllerInv
    BY DEF SessionIInv
  <2>2. /\ next \in 0 .. (MaxStep + 1) /\ next' \in 0 .. (MaxStep + 1) /\ MaxStep \in Nat
        /\ MaxFaults \in Nat
    BY <2>1, ControllerAssumption, SessionAssumption DEF ControllerInv, TypeOK
  <2>3. next \in Nat /\ next' \in Nat /\ (Open <=> next > 0) /\ (Open' <=> next' > 0)
        /\ \A k \in Step : k \in Nat /\ k > 0
    BY <2>2 DEF Open, Step
  <2>4. (Open' => Open) /\ (Active' => Active /\ Open')
    BY <2>3 DEF Replied, Active
  <2> QED BY <2>1, <2>2, <2>3, <2>4, SessionTypes DEF Replied, Active
<1>1. /\ inbox' \in Seq(Lined) /\ outbox' \in Seq(Spoken)
      /\ n \in Nat /\ m \in Nat /\ n > 0
      /\ DOMAIN inbox = 1 .. n /\ DOMAIN outbox = 1 .. m
      /\ DOMAIN inbox' = 1 .. (n - 1) /\ DOMAIN outbox' = 1 .. (m + 1)
      /\ Len(inbox') = n - 1 /\ Len(outbox') = m + 1
      /\ inbox # <<>> /\ outbox' # <<>> /\ (inbox' = <<>> <=> n = 1)
      /\ \A i \in 1 .. (n - 1) :
           /\ inbox'[i].op = inbox[i + 1].op /\ inbox'[i].step = inbox[i + 1].step
           /\ inbox'[i].id = inbox[i + 1].id
           /\ inbox'[i].based = (inbox[i + 1].based /\ inbox[i + 1].step <= next')
      /\ \A i \in 1 .. m : outbox'[i] = outbox[i]
      /\ outbox'[m + 1] = a
      /\ Request = inbox[1] /\ Request \in Lined
      /\ UNCHANGED <<agent, awaits, at>>
  BY <1>0, RepliedFacts, SessionTypes DEF Replied
<1>2. a.id = Request.id /\ a.kind = kind /\ a.to = to /\ a.next = next'
  OBVIOUS
<1>ids. /\ \A i \in 1 .. n : inbox[i] \in Lined
        /\ \A i \in 1 .. m : outbox[i] \in Spoken
        /\ \A i \in 1 .. n : inbox[i].id \in Nat /\ inbox[i].id > 0
        /\ \A i \in 1 .. m : outbox[i].id \in Nat
        /\ \A i \in 1 .. (n - 1) : inbox'[i].id \in Nat
        /\ \A i \in 1 .. (m + 1) : outbox'[i].id \in Nat
        /\ Request.step \in Nat
  <2>1. /\ \A i \in 1 .. n : inbox[i] \in Lined
        /\ \A i \in 1 .. m : outbox[i] \in Spoken
    BY <1>0, SessionTypes
  <2>2. \A i \in 1 .. (n - 1) : inbox'[i] \in Lined
    BY <1>1
  <2>3. \A i \in 1 .. (m + 1) : outbox'[i] \in Spoken
    BY <1>1
  <2>4. \A x \in Id : x \in Nat /\ x > 0
    BY SessionAssumption DEF Id
  <2>5. \A x \in 1 .. (MaxStep + 1) : x \in Nat
    BY <1>0
  <2> QED BY <1>1, <2>1, <2>2, <2>3, <2>4, <2>5 DEF Lined, Spoken
<1> HIDE DEF a, n, m
<1>3. SessionTypeOK'
  <2>1. /\ outcome' \in {"open", "committed", "undone", "stuck"}
        /\ outcome' \in {"open", "stuck"} <=> Open'
    BY <1>0 DEF Replied
  <2>2. heard' \in [Step -> {"none", "stands", "undone"}]
    BY <1>0, HeardTyped
  <2>3. faults' \in 0 .. MaxFaults
    BY <1>0
  <2> QED BY <1>0, <1>1, <2>1, <2>2, <2>3 DEF SessionTypeOK, Lined, Spoken
<1>4. \A k \in Step :
        heard'[k] = IF outcome' = "open" /\ k >= next' /\ heard[k] # "none"
                    THEN "undone" ELSE heard[k]
  BY <1>0, HeardAfter
<1>5. Pending(Request)
  <2>1. 1 \in 1 .. n
    BY <1>1
  <2> QED BY <1>1, <2>1 DEF SessionIInv, Requests
<1>6. InFlight'
  <2>1. FreshId \in Nat /\ FreshId' \in Nat /\ FreshId <= FreshId' /\ awaits \in Nat
    <3>1. awaits \in Nat
      BY <1>0, SessionTypes
    <3>2. FreshId = faults + 1 /\ FreshId' = faults' + 1
      BY DEF FreshId
    <3>3. \A x, y \in Nat : x + 1 \in Nat /\ (x <= y => x + 1 <= y + 1)
      OBVIOUS
    <3> QED BY <1>0, <3>1, <3>2, <3>3
  <2>2. /\ \A i \in 1 .. n : inbox[i].id \in Nat
        /\ \A i \in 1 .. m : outbox[i].id \in Nat
    BY <1>ids
  <2>3. ASSUME NEW x \in Nat, Older(inbox, x), Older(outbox, x)
        PROVE  Older(inbox', x) /\ Older(outbox', x)
    <3>1. \A i \in 1 .. (n - 1) : i + 1 \in 1 .. n /\ inbox'[i].id = inbox[i + 1].id
      BY <1>1
    <3>2. \A i \in 1 .. (m + 1) : i = m + 1 \/ i \in 1 .. m
      BY <1>1
    <3>3. 1 \in 1 .. n
      BY <1>1
    <3> QED BY <1>1, <1>2, <2>3, <3>1, <3>2, <3>3 DEF Older
  <2>4. CASE agent # "waits"
    <3>1. Older(inbox, FreshId) /\ Older(outbox, FreshId)
      BY <2>4 DEF SessionIInv, InFlight
    <3>2. Older(inbox', FreshId) /\ Older(outbox', FreshId)
      BY <2>1, <2>3, <3>1
    <3>3. /\ \A i \in 1 .. (n - 1) : inbox'[i].id \in Nat
          /\ \A i \in 1 .. (m + 1) : outbox'[i].id \in Nat
      BY <1>ids
    <3>4. Older(inbox, FreshId)' /\ Older(outbox, FreshId)'
      BY <1>1, <2>1, <3>2, <3>3 DEF Older
    <3> QED BY <1>1, <2>4, <3>4 DEF InFlight
  <2>5. CASE agent = "waits"
    <3>1. awaits <= FreshId /\ LastBears(inbox, awaits) /\ Older(outbox, awaits)
      BY <1>1, <2>5 DEF SessionIInv, InFlight
    <3>2. \A i \in 1 .. n : inbox[i].id <= awaits /\ (inbox[i].id = awaits <=> i = n)
      BY <1>1, <3>1 DEF LastBears, n
    <3>3. CASE n = 1
      <4>1. Request.id = awaits
        BY <1>1, <3>2, <3>3
      <4>2. \A i \in 1 .. m : outbox[i].id < awaits
        BY <1>1, <3>1 DEF Older
      <4>3. \A i \in 1 .. (m + 1) : outbox'[i].id <= awaits /\ (outbox'[i].id = awaits <=> i = m + 1)
        <5>1. \A i \in 1 .. (m + 1) : i = m + 1 \/ (i \in 1 .. m /\ i # m + 1)
          BY <1>1
        <5> QED BY <1>1, <1>2, <2>1, <2>2, <4>1, <4>2, <5>1
      <4>4. LastBears(outbox, awaits)'
        BY <1>1, <4>3 DEF LastBears
      <4> QED BY <1>0, <1>1, <2>1, <2>5, <3>1, <3>3, <4>4 DEF InFlight
    <3>4. CASE n # 1
      <4>1. \A i \in 1 .. (n - 1) : i + 1 \in 1 .. n /\ (i + 1 = n <=> i = n - 1)
        BY <1>1
      <4>2. \A i \in 1 .. (n - 1) : inbox'[i].id <= awaits /\ (inbox'[i].id = awaits <=> i = n - 1)
        BY <1>1, <3>2, <4>1
      <4>3. LastBears(inbox, awaits)'
        BY <1>1, <3>4, <4>2 DEF LastBears
      <4>4. 1 \in 1 .. n /\ 1 # n /\ Request.id < awaits
        BY <1>1, <2>1, <2>2, <3>2, <3>4
      <4>5. \A i \in 1 .. (m + 1) : i = m + 1 \/ i \in 1 .. m
        BY <1>1
      <4>6. Older(outbox, awaits)'
        BY <1>1, <1>2, <3>1, <4>4, <4>5 DEF Older
      <4> QED BY <1>0, <1>1, <2>1, <2>5, <3>1, <4>3, <4>6 DEF InFlight
    <3> QED BY <3>3, <3>4
  <2> QED BY <2>4, <2>5
<1>7. Requests'
  <2> SUFFICES ASSUME NEW i \in 1 .. (n - 1) PROVE Pending(inbox[i])'
    BY <1>1 DEF Requests
  <2>1. i + 1 \in 1 .. n /\ i + 1 > 1
    BY <1>1
  <2>2. Pending(inbox[i + 1]) /\ inbox[i + 1] \in Lined
    BY <1>0, <1>1, <2>1, SessionTypes DEF SessionIInv, Requests, n
  <2>3. inbox[i + 1].op = "commit" => FALSE
    <3>1. SUFFICES ASSUME inbox[i + 1].op = "commit" PROVE FALSE
      OBVIOUS
    <3>2. at = Goal + 1
      BY <2>2, <3>1 DEF Pending
    <3>3. at > Goal
      <4>1. Goal \in Nat
        BY SessionTypes, <1>0 DEF Goal
      <4> QED BY <3>2, <4>1
    <3>4. i + 1 \in DOMAIN inbox
      BY <1>1, <2>1
    <3>5. AfterLast
      BY <1>0 DEF SessionIInv
    <3>6. inbox[i + 1].op = "get"
      BY <2>1, <3>3, <3>4, <3>5 DEF AfterLast
    <3> QED BY <3>1, <3>6
  <2>4. ASSUME inbox[i + 1].op = "run_step", ~inbox'[i].based, Open' PROVE next' < at
    <3>1. inbox[i + 1].step = at /\ (~inbox[i + 1].based => next < at)
      BY <1>0, <2>2, <2>4 DEF Pending
    <3>2. CASE inbox[i + 1].based
      <4>1. ~(inbox[i + 1].step <= next')
        BY <1>1, <2>4, <3>2, Zenon
      <4> QED BY <1>0, <3>1, <4>1
    <3>3. CASE ~inbox[i + 1].based
      <4>1. kind # "success"
        BY <1>0, <1>5, <3>1, <3>3 DEF Replied, Pending
      <4>2. next' <= next
        BY <1>0, <2>4, <4>1 DEF Replied
      <4> QED BY <1>0, <3>1, <3>3, <4>2
    <3> QED BY <3>2, <3>3
  <2> QED BY <1>1, <2>2, <2>3, <2>4 DEF Pending
<1>8. AfterLast'
  <2> SUFFICES ASSUME at > Goal
               PROVE  agent # "plans" /\ \A i \in 1 .. (n - 1) : i > 1 => inbox'[i].op = "get"
    BY <1>1 DEF AfterLast
  <2>1. agent # "plans"
    BY <1>1 DEF SessionIInv, AfterLast
  <2>2. \A i \in 1 .. (n - 1) : i + 1 \in 1 .. n /\ (i > 1 => i + 1 > 1)
    BY <1>1
  <2> QED BY <1>1, <2>1, <2>2 DEF SessionIInv, AfterLast
<1>9. Outputs'
  <2> SUFFICES ASSUME NEW k \in Step
               PROVE  /\ heard'[k] # "none" => k < at
                      /\ Open' /\ heard'[k] = "stands" => k < next'
                      /\ Open' /\ heard'[k] = "undone" => next' <= k
    BY <1>1 DEF Outputs
  <2>1. /\ heard[k] # "none" => k < at
        /\ Open /\ heard[k] = "undone" => next <= k
    BY DEF SessionIInv, Outputs
  <2>2. ASSUME Open', heard[k] = "undone" PROVE next' <= k
    <3>1. next <= k /\ k < at
      BY <1>0, <2>1, <2>2
    <3>2. kind # "success"
      BY <1>0, <1>5, <3>1 DEF Replied, Pending
    <3>3. next' <= next
      BY <1>0, <2>2, <3>2 DEF Replied
    <3> QED BY <1>0, <3>1, <3>3
  <2>3. ASSUME Open', heard'[k] = "stands" PROVE k < next'
    <3>1. heard[k] = "stands" /\ k < next
      BY <1>0, <1>4, <2>3 DEF SessionIInv, Outputs
    <3>2. CASE outcome' = "open"
      BY <1>0, <1>4, <2>3, <3>1, <3>2
    <3>3. CASE outcome' = "stuck"
      BY <3>1, <3>3 DEF Replied
    <3> QED BY <1>0, <2>3, <3>2, <3>3 DEF Replied
  <2>4. ASSUME Open', heard'[k] = "undone" PROVE next' <= k
    <3>1. CASE heard[k] = "undone"
      BY <2>2, <2>4, <3>1
    <3>2. CASE heard[k] # "undone"
      BY <1>0, <1>4, <2>4, <3>2
    <3> QED BY <3>1, <3>2
  <2> QED BY <1>0, <1>4, <2>1, <2>3, <2>4
<1>10. Given' => agent = "waits" /\ n = 1 /\ Final' = a
  BY <1>1 DEF Given, Final
<1>11. LastWord'
  <2> SUFFICES ASSUME agent = "waits", n = 1
               PROVE  /\ Open' => a.next = next'
                      /\ a.kind \in {"success", "rollback", "view"} => a.next > 0
                      /\ a.kind = "success"  => at <= Goal /\ a.next = at + 1
                      /\ a.kind = "rollback" => a.to <= a.next
                      /\ a.kind = "error" /\ at > Goal /\ Active' => next' = at
    BY <1>1, <1>10 DEF LastWord, Goal
  <2>1. kind = "success" => at <= Goal /\ next' = at + 1 /\ next' > 0
    BY <1>0, <1>5 DEF Replied, Pending
  <2>2. kind = "rollback" => to <= next' /\ next' > 0
    BY <1>0 DEF Replied
  <2>3. kind = "view" => next' > 0
    BY <1>0 DEF Replied
  <2>4. kind = "error" /\ at > Goal /\ Active' => next' = at
    BY <1>0, <1>5 DEF Replied, Pending, Goal
  <2> QED BY <1>2, <2>1, <2>2, <2>3, <2>4
<1>12. FaultFree'
  <2> SUFFICES ASSUME faults' = 0, Open' PROVE FaultFree'
    BY DEF FaultFree
  <2>1. faults = 0 /\ Open
    BY <1>0
  <2>2. agent # "resyncs" /\ \A i \in 1 .. n : inbox[i].op # "get"
    BY <1>1, <2>1 DEF SessionIInv, FaultFree
  <2>3. \A i \in 1 .. (n - 1) : inbox'[i].op # "get"
    <3>1. \A i \in 1 .. (n - 1) : i + 1 \in 1 .. n
      BY <1>1
    <3> QED BY <1>1, <2>2, <3>1
  <2>4. FreshId = 1 /\ \A i \in 1 .. n : inbox[i].id \in Nat /\ inbox[i].id > 0
    BY <1>ids, <2>1 DEF FreshId
  <2>5. agent = "waits" /\ n = 1
    <3>1. 1 \in 1 .. n /\ ~(inbox[1].id < 1)
      BY <1>1, <2>4
    <3>2. agent = "waits" /\ awaits <= 1 /\ LastBears(inbox, awaits)
      BY <1>1, <2>4, <3>1 DEF SessionIInv, InFlight, Older
    <3>3. inbox[1].id <= awaits /\ (inbox[1].id = awaits <=> 1 = n)
      BY <1>1, <3>1, <3>2 DEF LastBears, n
    <3>4. awaits \in Nat
      BY <1>0, SessionTypes
    <3> QED BY <2>4, <3>1, <3>2, <3>3, <3>4
  <2>6. UpToDate
    BY <1>1, <2>1, <2>5 DEF SessionIInv, FaultFree, Given
  <2>7. at = next /\ \A k \in Step : heard[k] = IF k < next THEN "stands" ELSE "none"
    BY <2>6 DEF UpToDate, Exact
  <2>8. heard' \in [Step -> {"none", "stands", "undone"}]
    BY <1>3 DEF SessionTypeOK
  <2>9. kind \in {"success", "rollback", "error"}
    <3>1. kind # "order"
      BY <1>0, <1>5, <1>ids, <2>7 DEF Replied, Pending
    <3>2. kind # "view"
      <4>1. 1 \in 1 .. n
        BY <1>1
      <4> QED BY <1>1, <2>2, <4>1 DEF Replied
    <3>3. kind \notin Verdicts
      BY <1>0 DEF Replied, Sure, Verdicts
    <3> QED BY <3>1, <3>2, <3>3 DEF Replied, Kinds
  <2>10. kind = "success" => [heard' EXCEPT ![at] = "stands"] = Exact'
    <3> SUFFICES ASSUME kind = "success" PROVE [heard' EXCEPT ![at] = "stands"] = Exact'
      OBVIOUS
    <3>1. next' = next + 1 /\ next \in Step
      BY DEF Replied
    <3>2. \A k \in Step : heard'[k] = IF k < next THEN "stands" ELSE "none"
      BY <1>0, <1>4, <2>7, <3>1
    <3>3. \A k \in Step : k < next' <=> k < next \/ k = next
      BY <1>0, <3>1
    <3> QED BY <2>7, <2>8, <3>1, <3>2, <3>3 DEF Exact
  <2>11. kind = "rollback" => Forget(to)' = Exact'
    <3> SUFFICES ASSUME kind = "rollback" PROVE Forget(to)' = Exact'
      OBVIOUS
    <3>1. next' <= next /\ next' > 0 /\ (to = next' \/ (to = 0 /\ next' = 1))
      BY <1>0 DEF Replied
    <3>2. \A k \in Step : (IF k >= to THEN "none" ELSE heard'[k]) = IF k < next' THEN "stands" ELSE "none"
      BY <1>0, <1>4, <2>7, <3>1
    <3>3. Forget(to)' = [k \in Step |-> IF k >= to THEN "none" ELSE heard'[k]]
      BY DEF Forget
    <3> QED BY <3>2, <3>3 DEF Exact
  <2>12. kind = "error" => UpToDate'
    <3> SUFFICES ASSUME kind = "error" PROVE UpToDate'
      OBVIOUS
    <3>1. next' = next
      BY <1>0 DEF Replied
    <3>2. \A k \in Step : heard'[k] = IF k < next' THEN "stands" ELSE "none"
      BY <1>0, <1>4, <2>7, <3>1
    <3>3. heard' = Exact'
      BY <2>8, <3>2 DEF Exact
    <3> QED BY <1>1, <2>7, <3>1, <3>3 DEF UpToDate
  <2>13. Forget(Final.to)' = Forget(to)'
    BY <1>2, <1>10, <2>5, <1>1 DEF Given, Forget
  <2> QED BY <1>1, <1>2, <1>10, <2>2, <2>3, <2>5, <2>9, <2>10, <2>11, <2>12, <2>13
          DEF FaultFree, Given
<1>13. Truthful'
  <2>1. ASSUME NEW v, Sure(v) PROVE Sure(v)'
    BY <1>0, <2>1 DEF Sure, Replied
  <2>2. Sure(agent)'
    BY <1>1, <2>1 DEF SessionIInv, Truthful, Sure
  <2>3. \A i \in 1 .. m : Sure(outbox[i].kind)'
    BY <1>1, <2>1 DEF SessionIInv, Truthful, Sure
  <2>4. Sure(kind)'
    BY DEF Replied
  <2>5. \A i \in 1 .. (m + 1) : i = m + 1 \/ i \in 1 .. m
    BY <1>1
  <2>6. \A i \in 1 .. (m + 1) : Sure(outbox[i].kind)'
    BY <1>1, <1>2, <2>3, <2>4, <2>5 DEF Sure
  <2> QED BY <1>1, <2>2, <2>6 DEF Truthful
<1> QED BY <1>3, <1>6, <1>7, <1>8, <1>9, <1>11, <1>12, <1>13

(* The transaction ends without a request. *)
LEMMA ReapKeeps ==
  ASSUME SessionIInv, Reap
  PROVE  /\ SessionTypeOK' /\ InFlight' /\ Requests' /\ AfterLast'
         /\ Outputs' /\ LastWord' /\ FaultFree' /\ Truthful'
<1>1. /\ outcome = "open" /\ ~Active' /\ (Open' => next' = next /\ Open)
      /\ \/ outcome' = "undone" /\ ~Open'
         \/ outcome' = "stuck" /\ next' = next /\ (Open' <=> Open)
      /\ UNCHANGED <<inbox, outbox, agent, awaits, at, heard, faults>>
  BY DEF Reap, Ends, Closes, Sticks, Open, Active, client, server
<1>2. SessionTypeOK
  BY DEF SessionIInv
<1>3. SessionTypeOK'
  BY <1>1, <1>2 DEF SessionTypeOK
<1>4. InFlight'
  BY <1>1 DEF SessionIInv, InFlight, Older, LastBears, FreshId
<1>5. Requests' /\ AfterLast' /\ Outputs'
  BY <1>1 DEF SessionIInv, Requests, Pending, AfterLast, Outputs
<1>6. LastWord'
  BY <1>1 DEF SessionIInv, LastWord, Given, Final
<1>7. FaultFree'
  <2> SUFFICES ASSUME Open' PROVE FaultFree'
    BY DEF FaultFree
  <2>1. /\ next' = next /\ Open /\ (Given' <=> Given) /\ Final' = Final /\ Exact' = Exact
        /\ (UpToDate' <=> UpToDate) /\ Forget(Final.to)' = Forget(Final.to)
    BY <1>1 DEF Given, Final, Exact, UpToDate, Forget
  <2> QED BY <1>1, <2>1 DEF SessionIInv, FaultFree
<1>8. Truthful'
  BY <1>1 DEF SessionIInv, Truthful, Sure
<1> QED BY <1>3, <1>4, <1>5, <1>6, <1>7, <1>8

(* An answer the agent does not wait for goes by. *)
LEMMA IgnoresKeeps ==
  ASSUME SessionIInv, Receives, Ignores
  PROVE  /\ SessionTypeOK' /\ InFlight' /\ Requests' /\ AfterLast'
         /\ Outputs' /\ LastWord' /\ FaultFree' /\ Truthful'
<1> DEFINE m == Len(outbox)
<1>0. SessionTypeOK
  BY DEF SessionIInv
<1>1. /\ m \in Nat /\ m > 0 /\ DOMAIN outbox = 1 .. m /\ Len(outbox') = m - 1
      /\ outbox' \in Seq(Spoken) /\ DOMAIN outbox' = 1 .. (m - 1)
      /\ \A i \in 1 .. (m - 1) : outbox'[i] = outbox[i + 1]
      /\ \A i \in 1 .. (m - 1) : i + 1 \in 1 .. m /\ (i + 1 = m <=> i = m - 1)
      /\ Answered = outbox[1]
      /\ UNCHANGED <<next, outcome, inbox, faults, agent, awaits, at, heard>>
      /\ (Open' <=> Open) /\ (Active' <=> Active) /\ FreshId' = FreshId
  <2>1. m \in Nat /\ m > 0 /\ DOMAIN outbox = 1 .. m
    BY <1>0, SessionTypes, ReceivesFacts
  <2>2. \A i \in 1 .. (m - 1) : i + 1 \in 1 .. m /\ (i + 1 = m <=> i = m - 1)
    BY <2>1
  <2> QED BY <1>0, <2>1, <2>2, ReceivesFacts DEF Ignores, client, Open, Active, FreshId
<1> HIDE DEF m
<1>2. agent = "waits" => outbox[1].id # awaits
  BY <1>1 DEF Ignores
<1>3. Given => m > 1 /\ Given' /\ Final' = Final
  <2> SUFFICES ASSUME Given PROVE m > 1 /\ Given' /\ Final' = Final
    OBVIOUS
  <2>1. LastBears(outbox, awaits) /\ agent = "waits" /\ inbox = <<>>
    BY <1>0, SessionTypes DEF SessionIInv, InFlight, Given, LastBears
  <2>2. m # 1
    BY <1>1, <1>2, <2>1 DEF LastBears, m
  <2>3. m - 1 \in 1 .. (m - 1) /\ (m - 1) + 1 = m
    BY <1>1, <2>2
  <2>4. outbox'[m - 1] = outbox[m]
    BY <1>1, <2>3
  <2> QED BY <1>1, <2>1, <2>3, <2>4 DEF Given, Final, m
<1>4. SessionTypeOK'
  BY <1>0, <1>1 DEF SessionTypeOK, Spoken
<1>5. InFlight'
  <2>1. \A x \in Nat : Older(outbox, x) => Older(outbox', x)
    BY <1>1 DEF Older
  <2>2. awaits \in Nat /\ FreshId \in Nat
    BY <1>0, SessionTypes
  <2>3. CASE agent # "waits"
    BY <1>1, <2>1, <2>2, <2>3 DEF SessionIInv, InFlight, Older
  <2>4. CASE agent = "waits" /\ LastBears(inbox, awaits) /\ Older(outbox, awaits)
    <3>1. awaits <= FreshId
      BY <2>4 DEF SessionIInv, InFlight
    <3>2. LastBears(inbox, awaits)' /\ Older(outbox, awaits)'
      BY <1>1, <2>1, <2>2, <2>4 DEF LastBears, Older
    <3> QED BY <1>1, <2>4, <3>1, <3>2 DEF InFlight
  <2>5. CASE agent = "waits" /\ inbox = <<>> /\ LastBears(outbox, awaits)
    <3>1. awaits <= FreshId /\ m > 1
      BY <1>3, <2>5 DEF SessionIInv, InFlight, Given
    <3>2. \A i \in 1 .. m : outbox[i].id <= awaits /\ (outbox[i].id = awaits <=> i = m)
      BY <1>1, <2>5 DEF LastBears, m
    <3>3. \A i \in 1 .. (m - 1) : outbox'[i].id <= awaits /\ (outbox'[i].id = awaits <=> i = m - 1)
      BY <1>1, <3>2
    <3>4. outbox' # <<>>
      BY <1>1, <3>1
    <3>5. LastBears(outbox, awaits)'
      BY <1>1, <3>3, <3>4 DEF LastBears
    <3> QED BY <1>1, <2>5, <3>1, <3>5 DEF InFlight
  <2> QED BY <2>3, <2>4, <2>5 DEF SessionIInv, InFlight
<1>6. Requests' /\ AfterLast' /\ Outputs'
  BY <1>1 DEF SessionIInv, Requests, Pending, AfterLast, Outputs
<1>7. Given' => Given
  BY <1>1 DEF Given
<1>8. LastWord'
  BY <1>1, <1>3, <1>7 DEF SessionIInv, LastWord
<1>9. FaultFree'
  <2> SUFFICES ASSUME faults = 0, Open PROVE FaultFree'
    BY <1>1 DEF FaultFree
  <2>1. UpToDate' <=> UpToDate
    BY <1>1 DEF UpToDate, Exact
  <2>2. Exact' = Exact /\ (Given => Forget(Final.to)' = Forget(Final.to))
    BY <1>1, <1>3 DEF Exact, Forget
  <2>3. Given' <=> Given
    BY <1>3, <1>7
  <2>4. /\ agent # "resyncs"
        /\ \A i \in DOMAIN inbox : inbox[i].op # "get"
        /\ agent \in {"plans", "waits"} /\ ~Given => UpToDate
        /\ Given => /\ Final.kind \in {"success", "rollback", "error"}
                    /\ Final.kind = "success"  => [heard EXCEPT ![at] = "stands"] = Exact
                    /\ Final.kind = "rollback" => Forget(Final.to) = Exact
                    /\ Final.kind = "error"    => UpToDate
    BY DEF SessionIInv, FaultFree
  <2> QED BY <1>1, <1>3, <2>1, <2>2, <2>3, <2>4 DEF FaultFree
<1>10. Truthful'
  <2>1. \A i \in 1 .. m : Sure(outbox[i].kind)
    BY <1>1 DEF SessionIInv, Truthful
  <2>2. \A i \in 1 .. (m - 1) : Sure(outbox[i].kind)'
    BY <1>1, <2>1 DEF Sure
  <2> QED BY <1>1, <2>2 DEF SessionIInv, Truthful, Sure
<1> QED BY <1>4, <1>5, <1>6, <1>8, <1>9, <1>10

(* The agent reads the answer it waits for: nothing else is under way, so  *)
(* it goes by the server's last word.                                      *)
LEMMA ReadsKeeps ==
  ASSUME SessionIInv, Receives, Reads
  PROVE  /\ SessionTypeOK' /\ InFlight' /\ Requests' /\ AfterLast'
         /\ Outputs' /\ LastWord' /\ FaultFree' /\ Truthful'
<1>0. SessionTypeOK /\ ControllerInv
  BY DEF SessionIInv
<1>1. /\ agent = "waits" /\ inbox = <<>> /\ Len(outbox) = 1 /\ Final = Answered /\ Given
  <2>1. Len(outbox) \in Nat /\ Len(outbox) > 0 /\ 1 \in DOMAIN outbox /\ Answered = outbox[1]
    BY <1>0, SessionTypes, ReceivesFacts
  <2>2. agent = "waits" /\ outbox[1].id = awaits /\ awaits \in Nat
    BY <1>0, <2>1, SessionTypes DEF Reads
  <2>3. ~Older(outbox, awaits)
    BY <2>1, <2>2 DEF Older
  <2>4. inbox = <<>> /\ LastBears(outbox, awaits)
    BY <2>2, <2>3 DEF SessionIInv, InFlight
  <2>5. 1 = Len(outbox)
    BY <2>1, <2>2, <2>4 DEF LastBears
  <2> QED BY <2>1, <2>2, <2>4, <2>5 DEF Given, Final
<1>2. /\ outbox' = <<>> /\ inbox' = <<>> /\ awaits' = NoId
      /\ DOMAIN outbox' = {} /\ DOMAIN inbox' = {}
      /\ UNCHANGED <<next, outcome, inbox, faults>>
      /\ (Open' <=> Open) /\ (Active' <=> Active) /\ Exact' = Exact
      /\ (Active => Open)
  <2>1. Len(outbox') = 0 /\ outbox' \in Seq(Spoken) /\ UNCHANGED <<next, outcome, inbox, faults>>
    BY <1>0, <1>1, ReceivesFacts
  <2> QED BY <1>0, <1>1, <2>1 DEF Reads, Open, Active, Exact, SessionTypeOK
<1>3. /\ Final \in Spoken /\ Sure(Final.kind)
      /\ next \in Nat /\ at \in Nat /\ at > 0 /\ at <= MaxStep + 1 /\ MaxStep \in Nat
      /\ Final.next \in Nat /\ Final.next <= MaxStep + 1 /\ Final.to \in Nat
      /\ \A k \in Step : k \in Nat
      /\ Final.kind \in Kinds
  <2>1. /\ next \in 0 .. (MaxStep + 1) /\ MaxStep \in Nat /\ at \in 1 .. (MaxStep + 1)
        /\ Final \in Spoken
    BY <1>0, <1>1, ReceivesFacts, SessionTypes DEF ControllerInv, TypeOK, SessionTypeOK
  <2>2. Sure(Final.kind)
    <3>1. 1 \in DOMAIN outbox
      BY <1>0, <1>1, SessionTypes
    <3> QED BY <1>1, <3>1 DEF SessionIInv, Truthful, Final
  <2> QED BY <2>1, <2>2 DEF Spoken, Step
<1>4. /\ Open => Final.next = next
      /\ Final.kind \in {"success", "rollback", "view"} => Final.next > 0
      /\ Final.kind = "success"  => at <= Goal /\ Final.next = at + 1
      /\ Final.kind = "rollback" => Final.to <= Final.next
      /\ Final.kind = "error" /\ at > Goal /\ Active => next = at
  BY <1>1 DEF SessionIInv, LastWord
<1>5. \A k \in Step :
        /\ heard[k] # "none" => k < at
        /\ Open /\ heard[k] = "stands" => k < next
        /\ Open /\ heard[k] = "undone" => next <= k
  BY DEF SessionIInv, Outputs
<1>6. heard \in [Step -> {"none", "stands", "undone"}]
  BY <1>0 DEF SessionTypeOK
<1>7. (* What the agent makes of the answer. *)
      \/ /\ Final.kind = "success" /\ heard' = [heard EXCEPT ![at] = "stands"]
         /\ at' = Final.next /\ agent' = "plans"
      \/ /\ Final.kind = "rollback" /\ heard' = Forget(Final.to)
         /\ at' = Final.next /\ agent' = "plans"
      \/ /\ Final.kind = "view" /\ heard' = Forget(Final.next)
         /\ at' = Final.next /\ agent' = "plans"
      \/ Final.kind = "order" /\ agent' = "resyncs" /\ UNCHANGED <<at, heard>>
      \/ Final.kind = "error" /\ agent' = "plans" /\ UNCHANGED <<at, heard>>
      \/ Final.kind \in Verdicts /\ agent' = Final.kind /\ UNCHANGED <<at, heard>>
  BY <1>1, <1>3 DEF Reads, Kinds
<1>8. at' \in Nat /\ at' > 0 /\ at' <= MaxStep + 1
  BY <1>3, <1>4, <1>7
<1>9. heard' \in [Step -> {"none", "stands", "undone"}]
  BY <1>6, <1>7 DEF Forget
<1>10. agent' \in {"plans", "resyncs"} \cup Verdicts
  BY <1>7
<1>11. agent' # "waits"
  BY <1>10 DEF Verdicts
<1>12. SessionTypeOK'
  BY <1>0, <1>2, <1>8, <1>9, <1>10, <1>11, <1>3 DEF SessionTypeOK, Lined, Spoken
<1>13. InFlight' /\ Requests' /\ LastWord'
  BY <1>2, <1>11 DEF InFlight, Older, Requests, LastWord, Given
<1>14. AfterLast'
  <2>1. agent' = "plans" /\ at' > Goal /\ Active => next = at'
    BY <1>2, <1>4, <1>7 DEF Verdicts
  <2> QED BY <1>2, <2>1 DEF AfterLast, Goal
<1>15. Outputs'
  <2> SUFFICES ASSUME NEW k \in Step
               PROVE  /\ heard'[k] # "none" => k < at'
                      /\ Open /\ heard'[k] = "stands" => k < next
                      /\ Open /\ heard'[k] = "undone" => next <= k
    BY <1>2 DEF Outputs
  <2>1. CASE Final.kind = "success"
    <3>1. heard' = [heard EXCEPT ![at] = "stands"] /\ at' = Final.next /\ at' = at + 1
      BY <1>4, <1>7, <2>1 DEF Verdicts
    <3>2. heard'[k] = IF k = at THEN "stands" ELSE heard[k]
      BY <1>6, <3>1
    <3> QED BY <1>3, <1>4, <1>5, <3>1, <3>2
  <2>2. CASE Final.kind = "rollback"
    <3>1. heard' = Forget(Final.to) /\ at' = Final.next /\ Final.to <= at'
      BY <1>4, <1>7, <2>2 DEF Verdicts
    <3>2. heard'[k] = IF k >= Final.to THEN "none" ELSE heard[k]
      BY <3>1 DEF Forget
    <3> QED BY <1>3, <1>4, <1>5, <3>1, <3>2
  <2>3. CASE Final.kind = "view"
    <3>1. heard' = Forget(Final.next) /\ at' = Final.next
      BY <1>4, <1>7, <2>3 DEF Verdicts
    <3>2. heard'[k] = IF k >= Final.next THEN "none" ELSE heard[k]
      BY <3>1 DEF Forget
    <3> QED BY <1>3, <1>4, <1>5, <3>1, <3>2
  <2>4. CASE Final.kind \notin {"success", "rollback", "view"}
    BY <1>5, <1>7, <2>4
  <2> QED BY <2>1, <2>2, <2>3, <2>4
<1>16. FaultFree'
  <2> SUFFICES ASSUME faults = 0, Open
               PROVE  agent' = "plans" /\ UpToDate'
    BY <1>2, <1>11 DEF FaultFree, Given
  <2>1. /\ Final.kind \in {"success", "rollback", "error"}
        /\ Final.kind = "success"  => [heard EXCEPT ![at] = "stands"] = Exact
        /\ Final.kind = "rollback" => Forget(Final.to) = Exact
        /\ Final.kind = "error"    => UpToDate
    BY <1>1 DEF SessionIInv, FaultFree
  <2>2. agent' = "plans" /\ at' = next /\ heard' = Exact
    BY <1>4, <1>7, <2>1 DEF UpToDate, Verdicts
  <2> QED BY <1>2, <2>2 DEF UpToDate
<1>17. Truthful'
  <2>1. Sure(agent')
    BY <1>3, <1>7 DEF Sure, Verdicts
  <2>2. Sure(agent)'
    BY <1>2, <2>1 DEF Sure
  <2> QED BY <1>2, <2>2 DEF Truthful
<1> QED BY <1>12, <1>13, <1>14, <1>15, <1>16, <1>17

(* Nothing happens. *)
LEMMA StutterKeeps ==
  ASSUME SessionIInv, UNCHANGED session
  PROVE  /\ SessionTypeOK' /\ InFlight' /\ Requests' /\ AfterLast'
         /\ Outputs' /\ LastWord' /\ FaultFree' /\ Truthful'
<1>1. UNCHANGED <<next, outcome, inbox, outbox, agent, awaits, at, heard, faults>>
  BY DEF session, server, client
<1>2. (Open' <=> Open) /\ (Active' <=> Active) /\ (Given' <=> Given) /\ Final' = Final /\ Exact' = Exact
      /\ (UpToDate' <=> UpToDate)
  BY <1>1 DEF Open, Active, Given, Final, Exact, UpToDate
<1>3. SessionTypeOK'
  BY <1>1, <1>2 DEF SessionIInv, SessionTypeOK
<1>4. InFlight' /\ Requests' /\ AfterLast' /\ Outputs'
  BY <1>1, <1>2
  DEF SessionIInv, InFlight, Older, LastBears, FreshId, Requests, Pending, AfterLast, Outputs
<1>5. LastWord' /\ FaultFree'
  BY <1>1, <1>2 DEF SessionIInv, LastWord, FaultFree, Forget
<1>6. Truthful'
  BY <1>1 DEF SessionIInv, Truthful, Sure
<1> QED BY <1>3, <1>4, <1>5, <1>6

(* A session begins with nothing in flight. *)
LEMMA InitSession == SessionInit => SessionIInv
<1> SUFFICES ASSUME SessionInit PROVE SessionIInv
  OBVIOUS
<1>1. /\ ControllerInv /\ next = 1 /\ outcome = "open" /\ inbox = <<>> /\ outbox = <<>>
      /\ agent = "plans" /\ awaits = NoId /\ at = 1 /\ faults = 0 /\ Open
      /\ heard = [k \in Step |-> "none"]
  BY InitControllerInv DEF SessionInit, Init, Open
<1>2. DOMAIN inbox = {} /\ DOMAIN outbox = {} /\ ~Given
      /\ MaxStep \in Nat /\ \A k \in Step : ~(k < 1)
  BY <1>1, ControllerAssumption DEF Given, Step
<1>3. SessionTypeOK
  BY <1>1, SessionAssumption, ControllerAssumption DEF SessionTypeOK, NoId, Verdicts
<1>4. InFlight /\ Requests /\ AfterLast /\ Outputs /\ LastWord
  BY <1>1, <1>2 DEF InFlight, Older, Requests, AfterLast, Outputs, LastWord
<1>5. FaultFree /\ Truthful
  BY <1>1, <1>2 DEF FaultFree, UpToDate, Exact, Truthful, Sure, Verdicts
<1> QED BY <1>1, <1>3, <1>4, <1>5 DEF SessionIInv

(* Every step of agent, server or reaper keeps the invariant. *)
LEMMA StepSession == ASSUME SessionIInv, [SessionNext]_session PROVE SessionIInv'
<1>1. ControllerInv /\ SessionTypeOK
  BY DEF SessionIInv
<1>2. ControllerInv'
  BY <1>1, SessionStep, StepControllerInv
<1>3. CASE Acts
  <2>1. PICK op, s : Sent(op, s)
    BY <1>1, <1>3, ActsSend
  <2> QED BY <1>2, <2>1, SentKeeps DEF SessionIInv
<1>4. CASE GivesUp
  BY <1>2, <1>4, GivesUpKeeps DEF SessionIInv
<1>5. CASE Serve
  <2>1. PICK kind, to : Replied(kind, to)
    BY <1>1, <1>2, <1>5, ServeReplies
  <2> QED BY <1>2, <2>1, ReplyKeeps DEF SessionIInv
<1>6. CASE Reap
  BY <1>2, <1>6, ReapKeeps DEF SessionIInv
<1>7. CASE Receives
  <2>1. Reads \/ Ignores
    BY <1>7 DEF Receives
  <2> QED BY <1>2, <1>7, <2>1, ReadsKeeps, IgnoresKeeps DEF SessionIInv
<1>8. CASE UNCHANGED session
  BY <1>2, <1>8, StutterKeeps DEF SessionIInv
<1> QED BY <1>3, <1>4, <1>5, <1>6, <1>7, <1>8 DEF SessionNext

(* So it holds throughout every session. *)
LEMMA AlwaysSession == SessionSpec => []SessionIInv
BY InitSession, StepSession, PTL DEF SessionSpec

(* What the agent waits for is the last line of one of the queues.         *)
LEMMA OneLine ==
  ASSUME NEW q, NEW id, LastBears(q, id), q \in Seq(Lined) \/ q \in Seq(Spoken)
  PROVE  Cardinality({i \in DOMAIN q : q[i].id = id}) = 1
<1>1. Len(q) \in DOMAIN q
  BY DEF LastBears
<1>2. {i \in DOMAIN q : q[i].id = id} = {Len(q)}
  BY <1>1 DEF LastBears
<1> QED BY <1>2, FS_Singleton

(* No line has a number newer than those given out. *)
LEMMA NoLine ==
  ASSUME NEW q, NEW id \in Nat, Older(q, id), \A i \in DOMAIN q : q[i].id \in Nat
  PROVE  Cardinality({i \in DOMAIN q : q[i].id = id}) = 0
<1>1. {i \in DOMAIN q : q[i].id = id} = {}
  BY DEF Older
<1> QED BY <1>1, FS_EmptySet

(* It says all that SessionInv does. *)
LEMMA SessionImplied == SessionIInv => SessionInv
<1> SUFFICES ASSUME SessionIInv PROVE SessionInv
  OBVIOUS
<1>1. SessionTypeOK
  BY DEF SessionIInv
<1>2. InStep
  <2>1. ASSUME Quiet, agent = "plans", faults = 0
        PROVE  at = next /\ \A k \in Step : heard[k] = IF k < next THEN "stands" ELSE "none"
    <3>1. UpToDate
      BY <2>1 DEF SessionIInv, FaultFree, Quiet, Given
    <3> QED BY <3>1 DEF UpToDate, Exact
  <2>2. ASSUME Open, at <= next, NEW k \in Step, heard[k] # "none"
        PROVE  k < next /\ heard[k] = "stands"
    <3>1. k \in Int /\ at \in Int /\ next \in Int
      BY <1>1, SessionTypes, ControllerAssumption
      DEF SessionIInv, ControllerInv, TypeOK, Step
    <3>2. k < at /\ (heard[k] = "undone" => next <= k)
      BY <2>2 DEF SessionIInv, Outputs
    <3>3. heard[k] \in {"none", "stands", "undone"}
      BY <1>1 DEF SessionTypeOK
    <3> QED BY <2>2, <3>1, <3>2, <3>3
  <2> QED BY <2>1, <2>2 DEF InStep
<1>3. Awaited
  <2> SUFFICES ASSUME agent = "waits"
               PROVE  Cardinality({i \in DOMAIN inbox : inbox[i].id = awaits}) +
                      Cardinality({i \in DOMAIN outbox : outbox[i].id = awaits}) = 1
    BY DEF Awaited
  <2>1. /\ inbox \in Seq(Lined) /\ outbox \in Seq(Spoken) /\ awaits \in Nat
        /\ \A i \in DOMAIN outbox : outbox[i].id \in Nat
    BY <1>1, SessionTypes DEF Spoken, Id
  <2>2. CASE LastBears(inbox, awaits) /\ Older(outbox, awaits)
    BY <2>1, <2>2, OneLine, NoLine
  <2>3. CASE inbox = <<>> /\ LastBears(outbox, awaits)
    <3>1. {i \in DOMAIN inbox : inbox[i].id = awaits} = {}
      BY <2>3
    <3>2. Cardinality({i \in DOMAIN outbox : outbox[i].id = awaits}) = 1
      BY <2>1, <2>3, OneLine
    <3> QED BY <3>1, <3>2, FS_EmptySet
  <2> QED BY <2>2, <2>3 DEF SessionIInv, InFlight
<1>4. VerdictTrue
  BY DEF SessionIInv, Truthful, Sure, VerdictTrue
<1> QED BY <1>1, <1>2, <1>3, <1>4 DEF SessionInv

(* What the agent waits for is always under way, exactly once, and it is   *)
(* right about how its transaction ended, however many answers it does not *)
(* wait for.  When it has waited for each, it goes by the server's next    *)
(* step and holds just the outputs that stand; when it has not, it may     *)
(* hold undone ones only while its next step is ahead of the server's.     *)
THEOREM SessionCoherent == SessionSpec => []SessionInv
BY AlwaysSession, SessionImplied, PTL

(* A step runs only on a plan whose outputs stand: a plan that lost its    *)
(* basis was made for a later step than the one the server has gone back   *)
(* to, and everything sent before the agent's next plan is for that step.  *)
THEOREM SessionRunsOnPlan == SessionSpec => RunsOnPlan
<1>1. ASSUME SessionIInv, [SessionNext]_session, spent' # spent PROVE Request.based
  <2>1. Serve
    <3>1. GivesUp \/ Receives \/ Acts => UNCHANGED vars
      BY AgentLeavesServer
    <3>2. Reap \/ UNCHANGED session => spent' = spent
      BY DEF Reap, Sticks, Ends, session, server
    <3> QED BY <1>1, <3>1, <3>2 DEF SessionNext, vars
  <2>2. StepSucceeds \/ StepErrs \/ \E root \in Step \cup {None} : StepFails(root)
    BY <1>1, <2>1 DEF Serve, NotFound, Refused, OutOfOrder, Commit, Back, Cancel, Get,
                           Sticks, Ends, RolledBack, server
  <2>3. Takes("run_step") /\ InOrder
    BY <2>2 DEF StepSucceeds, StepErrs, StepFails
  <2>4. 1 \in DOMAIN inbox /\ Request = inbox[1]
    BY <1>1, <2>3, SessionTypes DEF SessionIInv, Takes, Request
  <2>5. Pending(Request)
    BY <1>1, <2>4 DEF SessionIInv, Requests
  <2>6. next \in Int
    BY <1>1, ControllerAssumption DEF SessionIInv, ControllerInv, TypeOK
  <2>7. Open
    BY <1>1, <2>3 DEF SessionIInv, SessionTypeOK, InOrder, Active
  <2> QED BY <2>3, <2>5, <2>6, <2>7 DEF Pending, Takes, InOrder
<1>2. SessionIInv /\ [SessionNext]_session => [spent' # spent => Request.based]_session
  BY <1>1
<1> QED BY <1>2, AlwaysSession, PTL DEF SessionSpec, RunsOnPlan

(* A commit publishes the agent's whole task: nothing sent before it can   *)
(* take the transaction back once it is planned.                           *)
THEOREM SessionCommitsWhole == SessionSpec => CommitsWhole
<1>1. ASSUME SessionIInv, [SessionNext]_session, outcome' = "committed", outcome = "open"
      PROVE  next = Goal + 1 /\ \A k \in Step : heard[k] # "undone"
  <2>1. Commit
    <3>1. Acts => \E op, s : Send(op, s)
      BY DEF Acts, Proceeds, Resyncs, Cancels, RollsBack
    <3>2. ~(Acts \/ GivesUp \/ Reap \/ Receives \/ UNCHANGED session)
      BY <1>1, <3>1 DEF Send, GivesUp, Reap, Sticks, Closes, Receives, session
    <3> QED BY <1>1, <3>2 DEF SessionNext, Serve, NotFound, Refused, OutOfOrder, StepSucceeds, StepErrs,
              StepFails, Back, Cancel, Sticks, Get, Stays, Closes
  <2>2. Takes("commit") /\ Active /\ Open
    BY <1>1, <2>1 DEF Commit, SessionIInv, SessionTypeOK
  <2>3. 1 \in DOMAIN inbox /\ Request = inbox[1]
    BY <1>1, <2>2, SessionTypes DEF SessionIInv, Takes, Request
  <2>4. next = Goal + 1 /\ at = next
    BY <1>1, <2>2, <2>3 DEF SessionIInv, Requests, Pending, Takes
  <2>5. ASSUME NEW k \in Step, heard[k] = "undone" PROVE FALSE
    <3>1. next <= k /\ k < at
      BY <1>1, <2>2, <2>5 DEF SessionIInv, Outputs
    <3>2. next \in Int /\ k \in Int
      BY <1>1, ControllerAssumption DEF SessionIInv, ControllerInv, TypeOK, Step
    <3> QED BY <2>4, <3>1, <3>2
  <2> QED BY <2>4, <2>5
<1>2. SessionIInv /\ [SessionNext]_session =>
        [outcome' = "committed" /\ outcome = "open" =>
           /\ next = Goal + 1
           /\ \A k \in Step : heard[k] # "undone"]_session
  BY <1>1
<1> QED BY <1>2, AlwaysSession, PTL DEF SessionSpec, CommitsWhole
=============================================================================
