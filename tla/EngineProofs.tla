----------------------------- MODULE EngineProofs -----------------------------
(***************************************************************************)
(* For any number of steps, runs, effects and crashes, and any faults: the *)
(* engine implements the life cycle of TxStatus, a commit is final, every  *)
(* effect in force stays recoverable, effects are undone newest first, and *)
(* the effects in force and those sent are those of the steps that stand.  *)
(***************************************************************************)
EXTENDS Engine, FiniteSetTheorems, WellFoundedInduction, TLAPS

Live == {"ACTIVE", "EXECUTING", "ROLLING_BACK", "COMMITTING"}

(* The inductive invariant: which handler is under way, the status it has  *)
(* set, and the record of the transaction on disk agree.                   *)
Typed ==
  /\ status \in Live \cup {"none"}
  /\ record \in {"unborn", "open", "closed", "committed"}
  /\ pc \in {"idle", "begin", "tool", "record", "undo", "flush"}
  /\ up \in BOOLEAN
  /\ job = [why |-> job.why, target |-> job.target, clean |-> job.clean]
HandlersAgree ==
  /\ pc = "begin" => status = "none" /\ record = "open"
  /\ pc \in {"tool", "record"} => status = "EXECUTING"
  /\ pc = "undo" => /\ record = "open"
                    /\ status = IF job.why = "recover" THEN "none" ELSE "ROLLING_BACK"
  /\ pc = "flush" => status = "COMMITTING" /\ record = "committed"
  /\ ~up => pc = "idle" /\ status = "none"
DiskAgrees ==
  /\ record = "unborn" => status = "none"
  /\ record = "closed" => status \in {"none", "ROLLING_BACK"}
  /\ record = "committed" => status \in {"none", "COMMITTING"}
  /\ published # {} => record = "committed"
LifeInv == Typed /\ HandlersAgree /\ DiskAgrees

(* They agree initially, when nothing of the transaction is on disk. *)
LEMMA InitLife == Init => LifeInv /\ Cycle!Init
BY DEF Init, Idle, LifeInv, Live, Typed, HandlersAgree, DiskAgrees, Cycle!Init, Durable

(* Every step keeps them in agreement. *)
LEMMA StepLife == ASSUME LifeInv, [Next]_vars PROVE LifeInv'
<1> USE DEF LifeInv, Live, Typed, HandlersAgree, DiskAgrees, memory, handler, disk, outside, history
<1>1. CASE Begin \/ Begun
  BY <1>1 DEF Begin, Begun
<1>2. CASE Execute \/ RecordUndoFails \/ FinishStep
  BY <1>2 DEF Execute, RecordUndoFails, FinishStep, Ready, Compensate, Idle
<1>3. CASE ToolWrites \/ ToolActs \/ ToolReturns \/ RecordUndo
  <2>1. CASE ToolReturns
    BY <2>1 DEF ToolReturns
  <2> QED BY <1>3, <2>1 DEF ToolWrites, ToolActs, RecordUndo
<1>4. CASE LooseWrites \/ LooseActs \/ LooseEnds
  BY <1>4 DEF LooseWrites, LooseActs, LooseEnds
<1>5. CASE Undo \/ UndoFails
  BY <1>5 DEF Undo, UndoFails
<1>6. CASE Restore \/ RestoreFails
  BY <1>6 DEF Restore, RestoreFails, Rewinding, Compensate, Idle
<1>7. CASE Discard
  <2>1. CASE job.clean
    BY <1>7, <2>1 DEF Discard, Aborting, Idle
  <2>2. CASE ~job.clean
    BY <1>7, <2>2 DEF Discard, Aborting, Idle
  <2> QED BY <2>1, <2>2
<1>8. CASE DiscardFails
  <2>1. CASE job.why = "failed"
    BY <1>8, <2>1 DEF DiscardFails, Aborting, Compensate
  <2>2. CASE job.why = "recover"
    <3>1. ~up' /\ up' \in BOOLEAN
      BY <1>8, <2>2, Zenon DEF DiscardFails
    <3> QED BY <1>8, <2>2, <3>1 DEF DiscardFails, Aborting, Idle
  <2>3. CASE job.why \notin {"failed", "recover"}
    <3>1. up' /\ up' \in BOOLEAN
      BY <1>8, <2>3, Zenon DEF DiscardFails
    <3>2. pc' = "idle" /\ job' = Idle /\ UNCHANGED disk /\ status' \in {status, "none"}
      BY <1>8, <2>3, Zenon DEF DiscardFails
    <3> QED BY <1>8, <2>3, <3>1, <3>2 DEF DiscardFails, Aborting, Idle
  <2> QED BY <2>1, <2>2, <2>3
<1>9. CASE Commit \/ Dispatch \/ Committed \/ CancelCommit
  BY <1>9 DEF Commit, Dispatch, Committed, CancelCommit, Ready
<1>10. CASE CommitConflicts \/ Rollback \/ Reap \/ \E s \in 1 .. MaxStep : RollbackTo(s)
  BY <1>10 DEF CommitConflicts, Rollback, Reap, RollbackTo, Ready, Compensate
<1>11. CASE Cancel
  BY <1>11 DEF Cancel, HasClient, Dropped, CancelTool, CancelUndo, CancelStorage, CancelFlush,
               Rewinding, Aborting, Idle
<1>12. CASE Crash
  BY <1>12 DEF Crash, Idle
<1>13. CASE Restart
  <2>1. CASE record = "open"
    BY <1>13, <2>1 DEF Restart, Recover
  <2>2. CASE record # "open"
    BY <1>13, <2>2 DEF Restart
  <2> QED BY <2>1, <2>2
<1>14. CASE UNCHANGED vars
  BY <1>14 DEF vars
<1> QED
  BY <1>1, <1>2, <1>3, <1>4, <1>5, <1>6, <1>7, <1>8, <1>9, <1>10, <1>11, <1>12, <1>13, <1>14
  DEF Next, Client, Runs, Unwinds, Flushes

(* A transition that can_transition_to allows, in one step of the life     *)
(* cycle.                                                                  *)
LEMMA Allowed ==
  ASSUME \/ Durable = Durable'
         \/ Durable = "NONE" /\ Durable' \in {"ACTIVE", "ROLLING_BACK"}
         \/ Durable = "ACTIVE" /\ Durable' \in {"EXECUTING", "COMMITTING", "ROLLING_BACK"}
         \/ Durable = "EXECUTING" /\ Durable' \in {"ACTIVE", "ROLLING_BACK"}
         \/ Durable = "ROLLING_BACK" /\ Durable' \in {"ACTIVE", "ROLLED_BACK"}
         \/ Durable = "COMMITTING" /\ Durable' \in {"COMMITTED", "ACTIVE", "ROLLING_BACK"}
  PROVE  [Cycle!Next]_Durable
BY DEF Cycle!Next, Cycle!Successors, Cycle!Statuses

(* Every step of the engine is one of the life cycle, or leaves the status *)
(* that the transaction has, in memory or by what is on disk.              *)
LEMMA StepFollows == ASSUME LifeInv, [Next]_vars PROVE [Cycle!Next]_Durable
<1> USE DEF LifeInv, Live, Typed, HandlersAgree, DiskAgrees, memory, handler, disk, outside, history,
            Durable
<1>1. CASE Begin \/ Begun
  BY <1>1, Allowed DEF Begin, Begun
<1>2. CASE Execute \/ RecordUndoFails \/ FinishStep
  BY <1>2, Allowed DEF Execute, RecordUndoFails, FinishStep, Ready, Compensate
<1>3. CASE ToolWrites \/ ToolActs \/ ToolReturns \/ RecordUndo
  BY <1>3, Allowed DEF ToolWrites, ToolActs, ToolReturns, RecordUndo
<1>4. CASE LooseWrites \/ LooseActs \/ LooseEnds
  BY <1>4, Allowed DEF LooseWrites, LooseActs, LooseEnds
<1>5. CASE Undo \/ UndoFails
  BY <1>5, Allowed DEF Undo, UndoFails
<1>6. CASE Restore \/ RestoreFails
  BY <1>6, Allowed DEF Restore, RestoreFails, Rewinding, Compensate
<1>7. CASE Discard \/ DiscardFails
  <2>1. status' \in {status, "ROLLING_BACK", "none"} /\ record' \in {record, "closed"} /\ pc' # "begin"
    BY <1>7 DEF Discard, DiscardFails, Aborting, Compensate
  <2>2. status \in {"none", "ROLLING_BACK"} /\ record = "open" /\ pc = "undo"
    BY <1>7 DEF Discard, DiscardFails, Aborting
  <2>3. record' = "closed" => status' = "none"
    BY <1>7, <2>2 DEF Discard, DiscardFails, Aborting
  <2> QED BY <2>1, <2>2, <2>3, Allowed
<1>8. CASE Commit \/ Dispatch \/ Committed \/ CancelCommit
  <2>1. CASE Commit \/ CancelCommit
    BY <2>1, Allowed DEF Commit, CancelCommit, Ready
  <2>2. CASE Dispatch \/ Committed
    BY <2>2, Allowed DEF Dispatch, Committed
  <2> QED BY <1>8, <2>1, <2>2
<1>9. CASE CommitConflicts \/ Rollback \/ Reap \/ \E s \in 1 .. MaxStep : RollbackTo(s)
  BY <1>9, Allowed DEF CommitConflicts, Rollback, Reap, RollbackTo, Ready, Compensate
<1>10. CASE Cancel
  <2>1. status' = status /\ status # "none"
    BY <1>10 DEF Cancel, HasClient, Dropped, CancelTool, CancelUndo, CancelStorage, CancelFlush,
                 Rewinding, Aborting
  <2> QED BY <2>1, Allowed
<1>11. CASE Crash
  BY <1>11, Allowed DEF Crash
<1>12. CASE Restart
  BY <1>12, Allowed DEF Restart, Recover
<1>13. CASE UNCHANGED vars
  BY <1>13, Allowed DEF vars
<1> QED
  BY <1>1, <1>2, <1>3, <1>4, <1>5, <1>6, <1>7, <1>8, <1>9, <1>10, <1>11, <1>12, <1>13
  DEF Next, Client, Runs, Unwinds, Flushes

(* No step takes a commit back or compensates what it has published.       *)
LEMMA StepFinal ==
  ASSUME LifeInv, [Next]_vars, published # {}
  PROVE  UNCHANGED <<record, published>> /\ world \subseteq world'
<1> USE DEF LifeInv, Live, Typed, HandlersAgree, DiskAgrees, memory, handler, disk, outside, history
<1>1. record = "committed" /\ status \in {"none", "COMMITTING"} /\ pc \in {"idle", "flush"}
  OBVIOUS
<1>2. CASE LooseWrites \/ LooseActs \/ LooseEnds
  BY <1>1, <1>2 DEF LooseWrites, LooseActs, LooseEnds
<1>3. CASE Dispatch \/ Committed
  BY <1>1, <1>3 DEF Dispatch, Committed
<1>4. CASE Cancel
  BY <1>1, <1>4 DEF Cancel, HasClient, Dropped, CancelTool, CancelUndo, CancelStorage, CancelFlush,
                    Rewinding, Aborting
<1>5. CASE Crash \/ Restart
  BY <1>1, <1>5 DEF Crash, Restart
<1>6. CASE UNCHANGED vars
  BY <1>6 DEF vars
<1>7. ~(Begun \/ ToolWrites \/ ToolActs \/ ToolReturns \/ RecordUndo \/ RecordUndoFails \/ FinishStep)
  BY <1>1 DEF Begun, ToolWrites, ToolActs, ToolReturns, RecordUndo, RecordUndoFails, FinishStep
<1>8. ~(Undo \/ UndoFails \/ Restore \/ RestoreFails \/ Discard \/ DiscardFails)
  BY <1>1 DEF Undo, UndoFails, Restore, RestoreFails, Discard, DiscardFails, Rewinding, Aborting
<1>9. ~(Client \/ Reap \/ CancelCommit)
  BY <1>1 DEF Client, Begin, Execute, Commit, CommitConflicts, Rollback, RollbackTo, Reap, CancelCommit,
              Ready
<1> QED
  BY <1>2, <1>3, <1>4, <1>5, <1>6, <1>7, <1>8, <1>9 DEF Next, Runs, Unwinds, Flushes

(* So they agree for ever. *)
LEMMA AlwaysLife == Spec => []LifeInv
<1>1. Init => LifeInv
  BY InitLife
<1>2. LifeInv /\ [Next]_vars => LifeInv'
  BY StepLife
<1> QED BY <1>1, <1>2, PTL DEF Spec

(* The engine implements the life cycle: whatever fails, is dropped or     *)
(* crashes, the status of a transaction changes only as can_transition_to  *)
(* allows, also where it is assigned without asking, and a crash is but    *)
(* the beginning of a rollback.                                            *)
THEOREM EngineFollowsStatus == Spec => FollowsStatus
<1>1. Init => Cycle!Init
  BY InitLife
<1>2. LifeInv /\ [Next]_vars => [Cycle!Next]_Durable
  BY StepFollows
<1> QED BY <1>1, <1>2, AlwaysLife, PTL DEF Spec, FollowsStatus, Cycle!Spec

(* What is committed stays, through late tools, dropped handlers, crashes  *)
(* and recovery.                                                           *)
THEOREM EngineCommitFinal == Spec => CommitFinal
<1>1. LifeInv /\ [Next]_vars =>
        [published # {} => UNCHANGED <<record, published>> /\ world \subseteq world']_vars
  BY StepFinal
<1> QED BY <1>1, AlwaysLife, PTL DEF Spec, CommitFinal
-----------------------------------------------------------------------------
(* The queues of the engine: the ledger, the staging queue, what a handler *)
(* has in hand, and the outbox.  Along(q, R): R leads from each item to    *)
(* all those behind it.                                                    *)
Along(q, R) == \A i, j \in DOMAIN q : i < j => <<q[i], q[j]>> \in R
NewerLater  == {p \in Items \X Items : p[1].step <= p[2].step /\ p[1].n < p[2].n}
NextStep    == {p \in Items \X Items : p[1].step < p[2].step}
ByKey       == {p \in Items \X Items : Earlier(p[1], p[2])}

(* A non-empty set of naturals has a smallest element. *)
LEMMA LeastExists ==
  ASSUME NEW S \in SUBSET Nat, S # {}
  PROVE  \E n \in S : \A m \in S : n <= m
<1>1. PICK n \in S : \A m \in S : ~ (<<m, n>> \in OpToRel(<, Nat))
  BY NatLessThanWellFounded, WFMin, Zenon
<1>2. \A m \in S : ~ (m < n)
  BY <1>1, Zenon DEF OpToRel
<1> QED BY <1>2

(* What is in a queue. *)
LEMMA QueueItems ==
  ASSUME NEW S, NEW q \in Seq(S)
  PROVE  /\ Len(q) \in Nat /\ DOMAIN q = 1 .. Len(q) /\ ToSet(q) \subseteq S
         /\ \A i \in 1 .. Len(q) : q[i] \in ToSet(q)
         /\ \A x \in ToSet(q) : \E i \in 1 .. Len(q) : x = q[i]
BY DEF ToSet

(* An empty queue has no items, and any order. *)
LEMMA QueueEmpty == ToSet(<<>>) = {} /\ \A R : Along(<<>>, R)
BY DEF ToSet, Along

(* The elements of a queue that grows at its end. *)
LEMMA QueueGrows ==
  ASSUME NEW S, NEW q \in Seq(S), NEW x
  PROVE  /\ Append(q, x) \in Seq(S \cup {x}) /\ ToSet(Append(q, x)) = ToSet(q) \cup {x}
         /\ \A R : Along(q, R) /\ (\A y \in ToSet(q) : <<y, x>> \in R) => Along(Append(q, x), R)
<1>1. q \in Seq(S \cup {x}) /\ Len(q) \in Nat
  OBVIOUS
<1>2. /\ Append(q, x) \in Seq(S \cup {x})
      /\ DOMAIN Append(q, x) = 1 .. Len(q) + 1 /\ DOMAIN q = 1 .. Len(q)
      /\ Append(q, x)[Len(q) + 1] = x /\ \A i \in 1 .. Len(q) : Append(q, x)[i] = q[i]
  BY <1>1
<1>3. ToSet(Append(q, x)) = ToSet(q) \cup {x}
  BY <1>1, <1>2 DEF ToSet
<1>4. ASSUME NEW R, Along(q, R), \A y \in ToSet(q) : <<y, x>> \in R PROVE Along(Append(q, x), R)
  <2> DEFINE p == Append(q, x)
  <2> SUFFICES ASSUME NEW i \in DOMAIN p, NEW j \in DOMAIN p, i < j PROVE <<p[i], p[j]>> \in R
    BY DEF Along
  <2>1. i \in 1 .. Len(q) /\ p[i] = q[i] /\ q[i] \in ToSet(q)
    BY <1>1, <1>2, QueueItems
  <2> HIDE DEF p
  <2>2. CASE j = Len(q) + 1
    BY <1>2, <1>4, <2>1, <2>2 DEF p
  <2>3. CASE j \in 1 .. Len(q)
    BY <1>2, <1>4, <2>1, <2>3 DEF p, Along
  <2> QED BY <1>2, <2>2, <2>3 DEF p
<1> QED BY <1>2, <1>3, <1>4

(* A piece of a queue is in the order of the queue. *)
LEMMA QueuePiece ==
  ASSUME NEW S, NEW q \in Seq(S), NEW m \in 1 .. Len(q) + 1, NEW n \in 0 .. Len(q)
  PROVE  /\ SubSeq(q, m, n) \in Seq(S) /\ ToSet(SubSeq(q, m, n)) = {q[i] : i \in m .. n}
         /\ \A R : Along(q, R) => Along(SubSeq(q, m, n), R)
<1> DEFINE p == SubSeq(q, m, n)
<1>1. Len(q) \in Nat /\ DOMAIN q = 1 .. Len(q)
  OBVIOUS
<1>2. /\ p \in Seq(S) /\ Len(p) = (IF m <= n THEN n - m + 1 ELSE 0) /\ DOMAIN p = 1 .. Len(p)
      /\ \A i \in 1 .. Len(p) : p[i] = q[m + i - 1]
  BY <1>1
<1> HIDE DEF p
<1>3. \A i \in 1 .. Len(p) : m + i - 1 \in m .. n
  BY <1>1, <1>2
<1>4. \A i \in m .. n : i - m + 1 \in 1 .. Len(p) /\ p[i - m + 1] = q[i]
  BY <1>1, <1>2
<1>5. ToSet(p) = {q[i] : i \in m .. n}
  <2>1. ToSet(p) = {p[i] : i \in 1 .. Len(p)}
    BY <1>2 DEF ToSet
  <2>2. ASSUME NEW i \in 1 .. Len(p) PROVE p[i] \in {q[j] : j \in m .. n}
    BY <1>2, <1>3
  <2>3. ASSUME NEW j \in m .. n PROVE q[j] \in {p[i] : i \in 1 .. Len(p)}
    <3>1. j - m + 1 \in 1 .. Len(p) /\ p[j - m + 1] = q[j]
      BY <1>4
    <3> QED BY <3>1
  <2> QED BY <2>1, <2>2, <2>3
<1>6. ASSUME NEW R, Along(q, R), NEW i \in DOMAIN p, NEW j \in DOMAIN p, i < j
      PROVE  <<p[i], p[j]>> \in R
  <2>1. m + i - 1 \in 1 .. Len(q) /\ m + j - 1 \in 1 .. Len(q) /\ m + i - 1 < m + j - 1
    BY <1>1, <1>2, <1>3, <1>6
  <2> QED BY <1>1, <1>2, <1>6, <2>1 DEF Along
<1> QED BY <1>2, <1>5, <1>6 DEF p, Along

(* The elements of a queue that is taken from at its head. *)
LEMMA QueueShrinks ==
  ASSUME NEW S, NEW q \in Seq(S), q # <<>>
  PROVE  /\ Tail(q) \in Seq(S) /\ Head(q) \in S /\ ToSet(q) = {Head(q)} \cup ToSet(Tail(q))
         /\ \A R : Along(q, R) => Along(Tail(q), R) /\ \A y \in ToSet(Tail(q)) : <<Head(q), y>> \in R
<1>1. Len(q) \in Nat \ {0} /\ DOMAIN q = 1 .. Len(q) /\ Head(q) = q[1] /\ Tail(q) = SubSeq(q, 2, Len(q))
  OBVIOUS
<1>2. /\ Tail(q) \in Seq(S) /\ ToSet(Tail(q)) = {q[i] : i \in 2 .. Len(q)}
      /\ \A R : Along(q, R) => Along(Tail(q), R)
  <2>1. 2 \in 1 .. Len(q) + 1 /\ Len(q) \in 0 .. Len(q)
    BY <1>1
  <2> DEFINE p == SubSeq(q, 2, Len(q))
  <2>2. /\ p \in Seq(S) /\ ToSet(p) = {q[i] : i \in 2 .. Len(q)}
        /\ \A R : Along(q, R) => Along(p, R)
    BY <2>1, QueuePiece
  <2>3. Tail(q) = p
    BY <1>1
  <2> HIDE DEF p
  <2> QED BY <2>2, <2>3, Zenon
<1>3. DOMAIN q = {1} \cup 2 .. Len(q)
  BY <1>1
<1>4. ToSet(q) = {Head(q)} \cup ToSet(Tail(q)) /\ Head(q) \in S
  <2>1. ToSet(q) = {q[1]} \cup {q[i] : i \in 2 .. Len(q)}
    BY <1>3 DEF ToSet
  <2> QED BY <1>1, <1>2, <2>1
<1>5. ASSUME NEW R, Along(q, R), NEW y \in ToSet(Tail(q)) PROVE <<Head(q), y>> \in R
  BY <1>1, <1>2, <1>5 DEF Along
<1> QED BY <1>2, <1>4, <1>5

(* And at its end. *)
LEMMA QueueLoses ==
  ASSUME NEW S, NEW q \in Seq(S), q # <<>>
  PROVE  /\ Front(q) \in Seq(S) /\ Last(q) \in S /\ ToSet(q) = ToSet(Front(q)) \cup {Last(q)}
         /\ \A R : Along(q, R) => Along(Front(q), R) /\ \A y \in ToSet(Front(q)) : <<y, Last(q)>> \in R
<1>1. Len(q) \in Nat \ {0} /\ DOMAIN q = 1 .. Len(q)
  OBVIOUS
<1>2. /\ Front(q) \in Seq(S) /\ ToSet(Front(q)) = {q[i] : i \in 1 .. Len(q) - 1}
      /\ \A R : Along(q, R) => Along(Front(q), R)
  BY <1>1, QueuePiece DEF Front
<1>3. DOMAIN q = 1 .. (Len(q) - 1) \cup {Len(q)}
  BY <1>1
<1>4. ToSet(q) = ToSet(Front(q)) \cup {Last(q)} /\ Last(q) \in S
  <2>1. ToSet(q) = {q[i] : i \in 1 .. Len(q) - 1} \cup {q[Len(q)]}
    BY <1>3 DEF ToSet
  <2> QED BY <1>1, <1>2, <2>1 DEF Last
<1>5. ASSUME NEW R, Along(q, R), NEW y \in ToSet(Front(q)) PROVE <<y, Last(q)>> \in R
  BY <1>1, <1>2, <1>5 DEF Along, Last
<1> QED BY <1>2, <1>4, <1>5

(* compensate_from and discard_from: a queue in step order is split        *)
(* exactly at the step.                                                    *)
LEMMA QueueSplits ==
  ASSUME NEW q \in Seq(Items), InStepOrder(q), NEW s \in Nat
  PROVE  /\ Before(q, s) \in Seq(Items) /\ ToSet(Before(q, s)) = {x \in ToSet(q) : x.step < s}
         /\ From(q, s) \in Seq(Items) /\ ToSet(From(q, s)) = {x \in ToSet(q) : x.step >= s}
         /\ \A R : Along(q, R) =>
              /\ Along(Before(q, s), R) /\ Along(From(q, s), R)
              /\ \A x \in ToSet(Before(q, s)), y \in ToSet(From(q, s)) : <<x, y>> \in R
<1> DEFINE n == Split(q, s)
<1>1. Len(q) \in Nat /\ DOMAIN q = 1 .. Len(q) /\ \A i \in 1 .. Len(q) : q[i] \in Items /\ q[i].step \in Nat
  <2>1. \A x \in Items : x.step \in Nat
    BY EngineAssumption DEF Items
  <2>2. Len(q) \in Nat /\ DOMAIN q = 1 .. Len(q) /\ \A i \in 1 .. Len(q) : q[i] \in Items
    OBVIOUS
  <2> QED BY <2>1, <2>2
<1>2. n \in 0 .. Len(q) /\ \A i \in DOMAIN q : q[i].step < s <=> i <= n
  <2> DEFINE Late == {i \in 1 .. Len(q) : q[i].step >= s} \cup {Len(q) + 1}
  <2>1. Late \in SUBSET Nat /\ Late # {}
    BY <1>1
  <2>2. PICK k \in Late : \A i \in Late : k <= i
    <3> HIDE DEF Late
    <3> QED BY <2>1, LeastExists
  <2>3. k - 1 \in 0 .. Len(q)
    BY <1>1
  <2>4. \A i \in 1 .. Len(q) : q[i].step < s <=> i <= k - 1
    <3> TAKE i \in 1 .. Len(q)
    <3>1. CASE i <= k - 1
      <4>1. i \notin Late
        BY <1>1, <2>2, <3>1
      <4> QED BY <1>1, <3>1, <4>1
    <3>2. CASE ~(i <= k - 1)
      <4>1. k \in 1 .. Len(q) /\ q[k].step >= s /\ k <= i
        BY <1>1, <3>2
      <4>2. q[k].step <= q[i].step
        BY <1>1, <4>1 DEF InStepOrder
      <4> QED BY <1>1, <3>2, <4>1, <4>2
    <3> QED BY <3>1, <3>2
  <2>5. \E m \in 0 .. Len(q) : \A i \in DOMAIN q : q[i].step < s <=> i <= m
    BY <1>1, <2>3, <2>4
  <2> QED BY <2>5 DEF Split
<1> HIDE DEF n
<1>3. /\ Before(q, s) = SubSeq(q, 1, n) /\ From(q, s) = SubSeq(q, n + 1, Len(q))
      /\ 1 \in 1 .. Len(q) + 1 /\ n + 1 \in 1 .. Len(q) + 1 /\ Len(q) \in 0 .. Len(q)
  BY <1>1, <1>2 DEF Before, From, n
<1>4. /\ Before(q, s) \in Seq(Items) /\ ToSet(Before(q, s)) = {q[i] : i \in 1 .. n}
      /\ \A R : Along(q, R) => Along(Before(q, s), R)
  BY <1>2, <1>3, QueuePiece
<1>5. /\ From(q, s) \in Seq(Items) /\ ToSet(From(q, s)) = {q[i] : i \in n + 1 .. Len(q)}
      /\ \A R : Along(q, R) => Along(From(q, s), R)
  BY <1>3, QueuePiece
<1>6. ToSet(Before(q, s)) = {x \in ToSet(q) : x.step < s}
  <2>1. ASSUME NEW i \in 1 .. n PROVE q[i] \in ToSet(q) /\ q[i].step < s
    BY <1>1, <1>2 DEF ToSet
  <2>2. ASSUME NEW x \in ToSet(q), x.step < s PROVE x \in {q[i] : i \in 1 .. n}
    BY <1>1, <1>2, <2>2 DEF ToSet
  <2> QED BY <1>4, <2>1, <2>2
<1>7. ToSet(From(q, s)) = {x \in ToSet(q) : x.step >= s}
  <2>1. ASSUME NEW i \in n + 1 .. Len(q) PROVE q[i] \in ToSet(q) /\ q[i].step >= s
    BY <1>1, <1>2 DEF ToSet
  <2>2. ASSUME NEW x \in ToSet(q), x.step >= s PROVE x \in {q[i] : i \in n + 1 .. Len(q)}
    BY <1>1, <1>2, <2>2 DEF ToSet
  <2> QED BY <1>5, <2>1, <2>2
<1>8. ASSUME NEW R, Along(q, R), NEW x \in ToSet(Before(q, s)), NEW y \in ToSet(From(q, s))
      PROVE  <<x, y>> \in R
  <2>1. PICK i \in 1 .. n, j \in n + 1 .. Len(q) : x = q[i] /\ y = q[j]
    BY <1>4, <1>5
  <2>2. i \in DOMAIN q /\ j \in DOMAIN q /\ i < j
    BY <1>1, <1>2
  <2> QED BY <1>8, <2>1, <2>2 DEF Along
<1> QED BY <1>4, <1>5, <1>6, <1>7, <1>8
(* A non-empty set of numbers up to a bound has a largest element. *)
LEMMA GreatestExists ==
  ASSUME NEW b \in Nat, NEW S \in SUBSET (0 .. b), S # {}
  PROVE  \E n \in S : \A m \in S : m <= n
<1> DEFINE Above == {b - n : n \in S}
<1>1. Above \in SUBSET Nat /\ Above # {}
  <2>1. \A n \in S : b - n \in Nat
    OBVIOUS
  <2> QED BY <2>1
<1>2. PICK k \in Above : \A m \in Above : k <= m
  <2> HIDE DEF Above
  <2> QED BY <1>1, LeastExists
<1>3. PICK n \in S : k = b - n
  OBVIOUS
<1>4. \A m \in S : b - m \in Above /\ m \in Nat /\ n \in Nat
  OBVIOUS
<1>5. \A m \in S : m <= n
  BY <1>2, <1>3, <1>4
<1> QED BY <1>5

(* Of some items with different numbers, one comes last. *)
LEMMA LatestItem ==
  ASSUME NEW T \in SUBSET Items, T # {}, \A x, y \in T : x.n = y.n => x = y
  PROVE  \E z \in T : \A x \in T \ {z} : Earlier(x, z)
<1>1. /\ MaxStep \in Nat /\ MaxEffects \in Nat
      /\ \A x \in T : x.step \in 0 .. MaxStep /\ x.n \in 0 .. MaxEffects
  BY EngineAssumption DEF Items
<1> DEFINE steps == {x.step : x \in T}
<1>2. steps \in SUBSET (0 .. MaxStep) /\ steps # {}
  BY <1>1
<1>3. PICK s \in steps : \A m \in steps : m <= s
  <2> HIDE DEF steps
  <2> QED BY <1>1, <1>2, GreatestExists
<1> DEFINE ns == {x.n : x \in {y \in T : y.step = s}}
<1>4. ns \in SUBSET (0 .. MaxEffects) /\ ns # {}
  BY <1>1, <1>3
<1>5. PICK n \in ns : \A m \in ns : m <= n
  <2> HIDE DEF ns
  <2> QED BY <1>1, <1>4, GreatestExists
<1>6. PICK z \in T : z.step = s /\ z.n = n
  BY <1>5
<1>7. ASSUME NEW x \in T \ {z} PROVE Earlier(x, z)
  <2>1. x.step <= s /\ (x.step = s => x.n <= n) /\ x.n # n
    BY <1>3, <1>5, <1>6, <1>7
  <2> QED BY <1>1, <1>6, <1>7, <2>1 DEF Earlier
<1> QED BY <1>7

(* SagaLedger::recover can sort any records with different numbers. *)
LEMMA SortedByKey ==
  ASSUME NEW S \in SUBSET Items, IsFiniteSet(S), \A x, y \in S : x.n = y.n => x = y
  PROVE  Sorted(S) \in Seq(Items) /\ ToSet(Sorted(S)) = S /\ Along(Sorted(S), ByKey)
<1> DEFINE Sorts(q, T) == ToSet(q) = T /\ \A i, j \in DOMAIN q : i < j => Earlier(q[i], q[j])
           Unsorted == {k \in Nat : \E T \in SUBSET S :
                          /\ IsFiniteSet(T) /\ Cardinality(T) = k
                          /\ ~ \E q \in [1 .. k -> T] : Sorts(q, T)}
<1>1. Unsorted = {}
  <2> SUFFICES ASSUME Unsorted # {} PROVE FALSE
    OBVIOUS
  <2>1. PICK k \in Unsorted : \A m \in Unsorted : k <= m
    <3>1. Unsorted \in SUBSET Nat
      OBVIOUS
    <3> HIDE DEF Unsorted
    <3> QED BY <3>1, LeastExists
  <2>2. PICK T \in SUBSET S : /\ IsFiniteSet(T) /\ Cardinality(T) = k
                              /\ ~ \E q \in [1 .. k -> T] : Sorts(q, T)
    OBVIOUS
  <2>3. T # {}
    <3> SUFFICES ASSUME T = {} PROVE FALSE
      OBVIOUS
    <3>1. k = 0
      BY <2>2, FS_EmptySet
    <3>2. <<>> \in [1 .. k -> T] /\ Sorts(<<>>, T)
      BY <3>1 DEF ToSet
    <3> QED BY <2>2, <3>2
  <2>4. PICK z \in T : \A x \in T \ {z} : Earlier(x, z)
    BY <2>3, LatestItem
  <2> DEFINE U == T \ {z}
  <2>5. IsFiniteSet(U) /\ Cardinality(U) = k - 1 /\ k \in Nat /\ k - 1 \in Nat
    <3>1. IsFiniteSet(U) /\ Cardinality(U) = Cardinality(T) - 1
      BY <2>2, FS_RemoveElement
    <3>2. Cardinality(U) \in Nat
      BY <3>1, FS_CardinalityType
    <3> QED BY <2>1, <2>2, <3>1, <3>2
  <2>6. PICK p \in [1 .. k - 1 -> U] : Sorts(p, U)
    <3>1. k - 1 \notin Unsorted
      BY <2>1, <2>5
    <3> QED BY <2>5, <3>1
  <2> DEFINE q == [i \in 1 .. k |-> IF i = k THEN z ELSE p[i]]
  <2>7. q \in [1 .. k -> T]
    BY <2>5
  <2>8. ToSet(q) = T
    <3>1. ToSet(p) = {p[i] : i \in 1 .. k - 1} /\ ToSet(p) = U
      BY <2>6 DEF ToSet
    <3>2. ToSet(q) = {q[i] : i \in 1 .. k}
      BY DEF ToSet
    <3>3. 1 .. k = 1 .. (k - 1) \cup {k} /\ k \notin 1 .. k - 1
      BY <2>3, <2>2, <2>5
    <3>4. \A i \in 1 .. k - 1 : q[i] = p[i]
      BY <2>5
    <3>5. q[k] = z
      BY <2>5
    <3> HIDE DEF q
    <3>6. ToSet(q) = {p[i] : i \in 1 .. k - 1} \cup {z}
      BY <3>2, <3>3, <3>4, <3>5
    <3> QED BY <3>1, <3>6
  <2>9. \A i, j \in DOMAIN q : i < j => Earlier(q[i], q[j])
    <3>0. DOMAIN q = 1 .. k
      BY Zenon
    <3> SUFFICES ASSUME NEW i \in 1 .. k, NEW j \in 1 .. k, i < j PROVE Earlier(q[i], q[j])
      BY <3>0
    <3>1. i \in 1 .. k - 1 /\ q[i] = p[i] /\ p[i] \in U
      BY <2>5, <2>6
    <3>2. CASE j = k
      BY <2>4, <3>1, <3>2
    <3>3. CASE j # k
      <4>1. j \in 1 .. k - 1 /\ q[j] = p[j] /\ DOMAIN p = 1 .. k - 1
        BY <2>5, <2>6, <3>3
      <4> QED BY <2>6, <3>1, <4>1
    <3> QED BY <3>2, <3>3
  <2> QED BY <2>2, <2>7, <2>8, <2>9
<1>2. Cardinality(S) \in Nat
  BY FS_CardinalityType
<1>3. \E q \in [1 .. Cardinality(S) -> S] : Sorts(q, S)
  BY <1>1, <1>2
<1>4. Sorted(S) \in [1 .. Cardinality(S) -> S] /\ Sorts(Sorted(S), S)
  BY <1>3 DEF Sorted
<1>5. Sorted(S) \in Seq(Items)
  BY <1>2, <1>4
<1>6. \A i \in DOMAIN Sorted(S) : Sorted(S)[i] \in Items
  BY <1>4
<1>7. Along(Sorted(S), ByKey)
  BY <1>4, <1>6 DEF Along, ByKey
<1> QED BY <1>4, <1>5, <1>7
-----------------------------------------------------------------------------
(* The undo actions a tool has registered are of effects it performed, and *)
(* between two calls nothing is in hand; nothing at all happens before     *)
(* begin.                                                                  *)
InHand == /\ pc \in {"idle", "begin"} => todo = <<>>
          /\ pc \in {"tool", "record"} => todo \in Seq(made)
Untouched == record = "unborn" => world = {} /\ loose = {}

(* Every step keeps that: no step but begin leads from there.              *)
LEMMA StepUntouched == ASSUME LifeInv, Untouched, [Next]_vars PROVE Untouched'
<1> USE DEF LifeInv, Live, Typed, HandlersAgree, DiskAgrees, Untouched, memory, handler, disk, outside,
            history
<1>1. ASSUME record # "unborn" PROVE record' # "unborn"
  <2>1. CASE Client \/ Reap \/ CancelCommit
    BY <1>1, <2>1 DEF Client, Begin, Execute, Commit, CommitConflicts, Rollback, RollbackTo, Reap,
                      CancelCommit
  <2>2. CASE Runs \/ ToolWrites \/ ToolActs \/ LooseWrites \/ LooseActs \/ LooseEnds
    BY <1>1, <2>2 DEF Runs, Begun, ToolReturns, RecordUndo, RecordUndoFails, FinishStep, ToolWrites,
                      ToolActs, LooseWrites, LooseActs, LooseEnds
  <2>3. CASE Unwinds
    BY <1>1, <2>3 DEF Unwinds, Undo, UndoFails, Restore, RestoreFails, Discard, DiscardFails
  <2>4. CASE Cancel
    BY <1>1, <2>4 DEF Cancel, Dropped, CancelTool, CancelUndo, CancelStorage, CancelFlush
  <2>5. CASE Flushes \/ Crash \/ Restart \/ UNCHANGED vars
    BY <1>1, <2>5 DEF Flushes, Dispatch, Committed, Crash, Restart, vars
  <2> QED BY <2>1, <2>2, <2>3, <2>4, <2>5 DEF Next
<1>2. ASSUME record = "unborn" PROVE Untouched'
  <2>1. pc = "idle" /\ status = "none" /\ world = {} /\ loose = {}
    BY <1>2
  <2>2. CASE Begin
    BY <2>1, <2>2 DEF Begin
  <2>3. CASE Crash \/ Restart \/ UNCHANGED vars
    BY <2>1, <2>3 DEF Crash, Restart, vars
  <2>4. ~(Execute \/ Commit \/ CommitConflicts \/ Rollback \/ Reap \/ CancelCommit)
        /\ \A s \in 1 .. MaxStep : ~RollbackTo(s)
    BY <2>1 DEF Execute, Commit, CommitConflicts, Rollback, RollbackTo, Reap, CancelCommit, Ready
  <2>5. ~(Runs \/ ToolWrites \/ ToolActs \/ LooseWrites \/ LooseActs \/ LooseEnds)
    BY <2>1 DEF Runs, Begun, ToolReturns, RecordUndo, RecordUndoFails, FinishStep, ToolWrites, ToolActs,
                LooseWrites, LooseActs, LooseEnds
  <2>6. ~(Unwinds \/ Flushes \/ Cancel)
    BY <2>1 DEF Unwinds, Undo, UndoFails, Restore, RestoreFails, Discard, DiscardFails, Rewinding,
                Aborting, Flushes, Dispatch, Committed, Cancel, HasClient
  <2> QED BY <2>2, <2>3, <2>4, <2>5, <2>6 DEF Next, Client
<1> QED BY <1>1, <1>2

(* Every step keeps what is in hand so. *)
LEMMA StepInHand == ASSUME LifeInv, InHand, [Next]_vars PROVE InHand'
<1> USE DEF InHand, memory, handler, disk, outside, history
<1>1. CASE Begin \/ Begun \/ Commit \/ CancelCommit
  BY <1>1 DEF Begin, Begun, Commit, CancelCommit, Ready
<1>2. CASE Execute
  <2>1. <<>> \in Seq(made)
    OBVIOUS
  <2> QED BY <1>2, <2>1 DEF Execute, Ready, Compensate
<1>3. CASE ToolActs
  <2> DEFINE x == Item(Cardinality(made) + 1)
  <2>1. todo \in Seq(made) /\ todo' = Append(todo, x) /\ made' = made \cup {x} /\ pc' = pc
    BY <1>3 DEF ToolActs
  <2> HIDE DEF x
  <2>2. todo' \in Seq(made')
    BY <2>1, QueueGrows
  <2> QED BY <2>1, <2>2, <1>3 DEF ToolActs
<1>4. CASE RecordUndo
  <2>1. todo \in Seq(made) /\ todo # <<>> /\ todo' = Tail(todo) /\ UNCHANGED <<made, pc>> /\ pc = "record"
    BY <1>4 DEF RecordUndo
  <2> QED BY <2>1, QueueShrinks
<1>5. CASE ToolWrites \/ ToolReturns \/ RecordUndoFails \/ FinishStep
  BY <1>5 DEF ToolWrites, ToolReturns, RecordUndoFails, FinishStep, Compensate
<1>6. CASE LooseActs
  <2>1. made \subseteq made' /\ UNCHANGED <<pc, todo>>
    BY <1>6 DEF LooseActs
  <2>2. todo \in Seq(made) => todo \in Seq(made')
    BY <2>1
  <2> QED BY <2>1, <2>2
<1>7. CASE LooseWrites \/ LooseEnds
  BY <1>7 DEF LooseWrites, LooseEnds
<1>8. CASE Unwinds
  BY <1>8 DEF Unwinds, Undo, UndoFails, Restore, RestoreFails, Discard, DiscardFails, Rewinding,
              Aborting, Compensate
<1>9. CASE Dispatch \/ Committed
  BY <1>9 DEF Dispatch, Committed
<1>10. CASE CommitConflicts \/ Rollback \/ Reap \/ \E s \in 1 .. MaxStep : RollbackTo(s)
  BY <1>10 DEF CommitConflicts, Rollback, Reap, RollbackTo, Compensate
<1>11. CASE Cancel
  BY <1>11 DEF Cancel, Dropped
<1>12. CASE Crash
  BY <1>12 DEF Crash
<1>13. CASE Restart
  BY <1>13 DEF Restart, Recover, LifeInv, HandlersAgree
<1>14. CASE UNCHANGED vars
  BY <1>14 DEF vars
<1> QED
  BY <1>1, <1>2, <1>3, <1>4, <1>5, <1>6, <1>7, <1>8, <1>9, <1>10, <1>11, <1>12, <1>13, <1>14
  DEF Next, Client, Runs, Flushes

(* An open transaction keeps the record of every effect in force: an undo  *)
(* action leaves a tool's context for the disk or is one of those lost, and*)
(* a record leaves the disk after its effect.                              *)
LEMMA StepRecoverable == ASSUME LifeInv, InHand, Untouched, Recoverable, [Next]_vars PROVE Recoverable'
<1> USE DEF Recoverable, InContext, memory, handler, disk, outside, history
<1>1. CASE Begin \/ Begun
  BY <1>1 DEF Begin, Begun, Untouched
<1>2. CASE Execute
  BY <1>2 DEF Execute, Ready, Compensate
<1>3. CASE ToolActs
  <2>1. PICK x : todo' = Append(todo, x) /\ world' = world \cup {x}
    BY <1>3 DEF ToolActs
  <2>2. todo \in Seq(made) /\ pc = "tool" /\ UNCHANGED <<pc, record, logs, orphaned>>
    BY <1>3 DEF ToolActs, InHand
  <2>3. ToSet(Append(todo, x)) = ToSet(todo) \cup {x}
    BY <2>2, QueueGrows
  <2>4. ToSet(todo)' = ToSet(todo) \cup {x}
    BY <2>1, <2>3 DEF ToSet
  <2> QED BY <2>1, <2>2, <2>4
<1>4. CASE RecordUndo
  <2>1. todo \in Seq(made) /\ todo # <<>> /\ todo' = Tail(todo) /\ pc = "record"
        /\ logs' = logs \cup {Head(todo)} /\ UNCHANGED <<pc, record, world, orphaned>>
    BY <1>4 DEF RecordUndo, InHand
  <2>2. ToSet(todo) = {Head(todo)} \cup ToSet(todo')
    BY <2>1, QueueShrinks
  <2> QED BY <2>1, <2>2
<1>5. CASE RecordUndoFails
  BY <1>5 DEF RecordUndoFails, Compensate
<1>6. CASE FinishStep
  <2>1. ToSet(<<>>) = {}
    BY DEF ToSet
  <2> QED BY <1>6, <2>1 DEF FinishStep, Compensate
<1>7. CASE ToolWrites \/ ToolReturns
  BY <1>7 DEF ToolWrites, ToolReturns
<1>8. CASE LooseWrites \/ LooseActs \/ LooseEnds
  BY <1>8 DEF LooseWrites, LooseActs, LooseEnds
<1>9. CASE Undo \/ UndoFails
  BY <1>9 DEF Undo, UndoFails
<1>10. CASE Restore \/ RestoreFails
  BY <1>10 DEF Restore, RestoreFails, Rewinding, Compensate
<1>11. CASE Discard \/ DiscardFails
  <2>1. pc = "undo" /\ pc' \in {"idle", "undo"} /\ UNCHANGED <<world, orphaned>>
        /\ (record' = "closed" \/ UNCHANGED <<record, logs>>)
    BY <1>11 DEF Discard, DiscardFails, Aborting, Compensate
  <2> QED BY <2>1
<1>12. CASE Commit \/ CancelCommit
  BY <1>12 DEF Commit, CancelCommit, Ready
<1>13. CASE CommitConflicts \/ Rollback \/ Reap \/ \E s \in 1 .. MaxStep : RollbackTo(s)
  BY <1>13 DEF CommitConflicts, Rollback, Reap, RollbackTo, Ready, Compensate
<1>14. CASE Dispatch \/ Committed
  BY <1>14 DEF Dispatch, Committed, LifeInv, HandlersAgree
<1>15. CASE Cancel
  <2>1. pc' = "idle" /\ UNCHANGED made /\ HasClient
    BY <1>15 DEF Cancel, Dropped
  <2>2. CASE CancelTool
    BY <2>1, <2>2 DEF CancelTool
  <2>3. CASE CancelUndo
    BY <2>1, <2>3 DEF CancelUndo
  <2>4. CASE CancelStorage
    BY <2>1, <2>4 DEF CancelStorage, Rewinding, Aborting
  <2>5. CASE CancelFlush
    BY <2>1, <2>5 DEF CancelFlush
  <2> QED BY <1>15, <2>2, <2>3, <2>4, <2>5 DEF Cancel
<1>16. CASE Crash
  BY <1>16 DEF Crash
<1>17. CASE Restart
  BY <1>17 DEF Restart, Recover, LifeInv, HandlersAgree
<1>18. CASE UNCHANGED vars
  BY <1>18 DEF vars
<1> QED
  BY <1>1, <1>2, <1>3, <1>4, <1>5, <1>6, <1>7, <1>8, <1>9, <1>10, <1>11, <1>12, <1>13, <1>14, <1>15,
     <1>16, <1>17, <1>18
  DEF Next, Client, Runs, Unwinds, Flushes

(* As long as a transaction is open, every effect in force can be undone   *)
(* by the next recovery: its record is on disk, whatever failed, was       *)
(* dropped, or crashed half way; but for undo actions that never got to    *)
(* the ledger.                                                             *)
THEOREM EngineRecoverable == Spec => []Recoverable
<1>1. Init => InHand /\ Untouched /\ Recoverable
  BY DEF Init, InHand, Untouched, Recoverable
<1>2. LifeInv /\ InHand /\ Untouched /\ Recoverable /\ [Next]_vars
        => InHand' /\ Untouched' /\ Recoverable'
  BY StepInHand, StepUntouched, StepRecoverable
<1> QED BY <1>1, <1>2, AlwaysLife, PTL DEF Spec
-----------------------------------------------------------------------------
(* The inductive invariant of the engine's bookkeeping.  A transaction is  *)
(* alive between two calls, while a tool runs, and while its effects are   *)
(* undone; not so once a handler was dropped, and in recovery.             *)
InTool    == pc \in {"tool", "record"}
Unwinding == pc = "undo" /\ job.why # "recover"
Alive     == Ready \/ InTool \/ Unwinding

(* Everything has its type. *)
RunNumbers == 1 .. MaxRuns
RanTyped == ran \in Seq(RunNumbers) /\ Len(ran) <= MaxStep
StoreTyped ==
  /\ loose \subseteq Cells /\ late \subseteq Cells /\ data \subseteq Cells /\ published \subseteq Cells
  /\ DOMAIN saved \subseteq 0 .. MaxStep /\ \A s \in DOMAIN saved : saved[s] \subseteq Cells
HandlerTyped ==
  /\ job.target \in 0 .. MaxStep /\ job.clean \in BOOLEAN
  /\ runs \in 0 .. MaxRuns /\ crashes \in 0 .. MaxCrashes
  /\ InTool => step <= MaxStep /\ runs > 0
RunsTyped == RanTyped /\ StoreTyped /\ HandlerTyped
QueuesTyped ==
  entries \in Seq(Items) /\ todo \in Seq(Items) /\ staged \in Seq(Items) /\ sent \in Seq(Items)
EffectsTyped ==
  /\ logs \subseteq made /\ orphaned \subseteq made /\ world \subseteq made /\ failed \subseteq Items
  /\ made \subseteq Items /\ IsFiniteSet(made) /\ Cardinality(made) <= MaxEffects
Bounded == RunsTyped /\ QueuesTyped /\ EffectsTyped

(* A run belongs to one execution of a step, and a surviving run is none    *)
(* that somebody stopped waiting for; effects are numbered; an undo action  *)
(* that was lost is not on disk.                                            *)
RunsNumbered ==
  /\ \A s \in DOMAIN ran : ran[s] <= runs /\ (InTool => ran[s] < runs)
  /\ \A c \in loose \cup late :
       /\ c[2] <= runs /\ \A s \in DOMAIN ran : ran[s] # c[2]
       /\ pc = "tool" \/ (pc = "record" /\ job.why # "failed") => c[2] < runs
EffectsNumbered ==
  /\ \A x \in made : x.run <= runs /\ x.n <= Cardinality(made)
  /\ \A x, y \in made : x.n = y.n => x = y
Numbered == RunsNumbered /\ EffectsNumbered /\ logs \cap orphaned = {}

(* Until begin has answered there is nothing. *)
Blank == record = "unborn" \/ pc = "begin" =>
           /\ ran = <<>> /\ entries = <<>> /\ staged = <<>>
           /\ data = {} /\ saved = <<>> /\ late = {} /\ made = {} /\ loose = {}

(* The private data are those of the surviving runs, and the snapshots     *)
(* those of the runs before them.                                          *)
Restorable ==
  /\ Ready => data \ late = Writes(ran)
  /\ InTool => /\ Writes(ran) \subseteq data \ late /\ data \ late \subseteq Writes(ran) \cup {Run}
               /\ step \in DOMAIN saved
  /\ Unwinding => job.target <= step
  /\ Alive => /\ DOMAIN saved \subseteq 0 .. step /\ 0 .. Len(ran) \subseteq DOMAIN saved
              /\ \A s \in DOMAIN saved : saved[s] \ late = {w \in Writes(ran) : w[1] < s}

(* The ledger and what is in hand are in the order in which effects were   *)
(* performed, and hold all effects in force.                               *)
Current == Writes(ran) \cup (IF pc = "record" THEN {Run} ELSE {})
Chained == /\ Along(entries, NewerLater) /\ Along(todo, NewerLater)
           /\ \A x \in ToSet(entries), y \in ToSet(todo) : <<x, y>> \in NewerLater
LedgerInv ==
  /\ ~up \/ (pc = "undo" /\ job.why = "recover") => entries = <<>>
  /\ Alive => Chained /\ ToSet(entries) \subseteq logs
  /\ Ready \/ InTool => \A x \in ToSet(entries) : Cell(x) \in Current
  /\ InTool => \A x \in ToSet(todo) : x \in made /\ Cell(x) = Run /\ x \notin logs \cup orphaned
  /\ pc = "undo" => /\ Along(todo, ByKey) /\ \A x \in ToSet(todo) : x \in made /\ x \notin orphaned
                    /\ job.why \in {"error", "retry", "manual"} \/ job.target = 0
  /\ Unwinding => /\ \A x \in ToSet(todo) : x.step >= job.target
                  /\ \A x \in ToSet(entries) : x.step < job.target /\ Cell(x) \in Writes(ran)
  /\ Alive \/ pc = "undo" => world \ Exempt \subseteq ToSet(entries) \cup ToSet(todo)

(* What is not in force is not of a surviving run. *)
Undone ==
  /\ Ready \/ InTool =>
       \A x \in made \ (world \cup Exempt) : Cell(x) \notin Writes(ran) /\ (InTool => Cell(x) # Run)
  /\ Unwinding =>
       \A x \in made \ (world \cup Exempt) : x.step < job.target => Cell(x) \notin Writes(ran)
Settled ==
  /\ record = "closed" => world \subseteq Exempt
  /\ record = "committed" =>
       /\ \A x \in made \ Exempt : x \in world <=> Cell(x) \in published \ late
       /\ published \cap loose \subseteq late
StepsNumbered == \A x, y \in world \ Exempt : x.n < y.n => x.step <= y.step
Reversed == Undone /\ Settled /\ StepsNumbered

(* What is staged, and later dispatched, is of surviving runs, one effect  *)
(* of each step.                                                           *)
Staging ==
  /\ Alive => Along(staged, NextStep)
  /\ Ready \/ InTool => \A x \in ToSet(staged) : Cell(x) \in Writes(ran)
  /\ Unwinding => \A x \in ToSet(staged) : x.step < job.target => Cell(x) \in Writes(ran)
Sending ==
  /\ sent # <<>> => record = "committed"
  /\ Along(sent, NextStep) /\ \A x \in ToSet(sent) : Cell(x) \in published
  /\ pc = "flush" => /\ Along(todo, NextStep) /\ \A x \in ToSet(todo) : Cell(x) \in published
                     /\ \A x \in ToSet(sent), y \in ToSet(todo) : <<x, y>> \in NextStep
Outgoing == Staging /\ Sending

Books  == Bounded /\ Numbered /\ Blank /\ Restorable /\ LedgerInv /\ Reversed /\ Outgoing
EngineIInv == LifeInv /\ InHand /\ Untouched /\ Recoverable /\ Books

(* Items and cells have their types. *)
LEMMA ItemTypes ==
  /\ MaxStep \in Nat /\ MaxRuns \in Nat /\ MaxEffects \in Nat /\ MaxCrashes \in Nat /\ MaxLoose \in Nat
  /\ \A x \in Items : /\ x.step \in 1 .. MaxStep /\ x.run \in 1 .. MaxRuns /\ x.n \in 0 .. MaxEffects
                      /\ Cell(x) \in Cells
BY EngineAssumption DEF Items, Cell, Cells

(* The surviving runs, as the writes they made. *)
LEMMA SurvivingRuns ==
  ASSUME Bounded
  PROVE  /\ Len(ran) \in Nat /\ step = Len(ran) + 1 /\ step \in Nat /\ DOMAIN ran = 1 .. Len(ran)
         /\ \A s \in 1 .. Len(ran) : ran[s] \in 1 .. MaxRuns
         /\ \A w \in Writes(ran) : /\ w = <<w[1], w[2]>> /\ w[1] \in 1 .. Len(ran) /\ w[2] = ran[w[1]]
                                   /\ w[1] < step /\ w \in Cells
         /\ \A s \in 1 .. Len(ran) : <<s, ran[s]>> \in Writes(ran)
<1>1. /\ Len(ran) \in Nat /\ step = Len(ran) + 1 /\ step \in Nat /\ DOMAIN ran = 1 .. Len(ran)
      /\ \A s \in 1 .. Len(ran) : ran[s] \in 1 .. MaxRuns
  <2>1. ran \in Seq(RunNumbers) /\ step = Len(ran) + 1
    BY DEF Bounded, RunsTyped, RanTyped, step
  <2>2. Len(ran) \in Nat /\ DOMAIN ran = 1 .. Len(ran) /\ \A s \in 1 .. Len(ran) : ran[s] \in RunNumbers
    BY <2>1
  <2> QED BY <2>1, <2>2 DEF RunNumbers
<1>2. Len(ran) <= MaxStep
  BY DEF Bounded, RunsTyped, RanTyped
<1>3. ASSUME NEW w \in Writes(ran)
      PROVE  /\ w = <<w[1], w[2]>> /\ w[1] \in 1 .. Len(ran) /\ w[2] = ran[w[1]]
             /\ w[1] < step /\ w \in Cells
  <2>1. PICK s \in 1 .. Len(ran) : w = <<s, ran[s]>>
    BY <1>1 DEF Writes
  <2> QED BY <1>1, <1>2, <2>1, ItemTypes DEF Cells
<1>4. \A s \in 1 .. Len(ran) : <<s, ran[s]>> \in Writes(ran)
  BY <1>1 DEF Writes
<1> QED BY <1>1, <1>3, <1>4

(* In both orders of the ledger and in that of the staging queue, steps do *)
(* not decrease, and no item comes before itself.                          *)
LEMMA Orders ==
  ASSUME NEW q \in Seq(Items)
  PROVE  /\ Along(q, NewerLater) \/ Along(q, NextStep) => InStepOrder(q)
         /\ Along(q, NewerLater) => Along(q, ByKey)
         /\ \A x : <<x, x>> \notin NewerLater \cup NextStep \cup ByKey
<1>1. DOMAIN q = 1 .. Len(q) /\ Len(q) \in Nat
  OBVIOUS
<1>2. \A i, j \in DOMAIN q : i < j \/ ~(i < j)
  OBVIOUS
<1>3. \A x \in Items : x.step \in Nat /\ x.n \in Nat
  BY ItemTypes
<1>4. ASSUME Along(q, NewerLater) \/ Along(q, NextStep) PROVE InStepOrder(q)
  <2> SUFFICES ASSUME NEW i \in DOMAIN q, NEW j \in DOMAIN q, i < j PROVE q[i].step <= q[j].step
    BY DEF InStepOrder
  <2>1. <<q[i], q[j]>> \in NewerLater \/ <<q[i], q[j]>> \in NextStep
    BY <1>4 DEF Along
  <2>2. q[i] \in Items /\ q[j] \in Items
    OBVIOUS
  <2> QED BY <1>3, <2>1, <2>2 DEF NewerLater, NextStep
<1>5. \A p \in NewerLater : p \in ByKey
  BY <1>3 DEF NewerLater, ByKey, Earlier
<1>6. \A x : <<x, x>> \notin NewerLater \cup NextStep \cup ByKey
  BY <1>3 DEF NewerLater, NextStep, ByKey, Earlier
<1> QED BY <1>4, <1>5, <1>6, Zenon DEF Along

(* compensate_from: what it takes from the ledger, and what it leaves.      *)
LEMMA Compensates ==
  ASSUME entries \in Seq(Items), Along(entries, NewerLater),
         NEW why, NEW target \in Nat, Compensate(why, target)
  PROVE  /\ entries' \in Seq(Items) /\ ToSet(entries') = {x \in ToSet(entries) : x.step < target}
         /\ todo' \in Seq(Items) /\ ToSet(todo') = {x \in ToSet(entries) : x.step >= target}
         /\ Chained' /\ Along(todo', ByKey)
         /\ pc' = "undo" /\ job' = [why |-> why, target |-> target, clean |-> TRUE]
<1>1. InStepOrder(entries)
  BY Orders
<1>2. entries' = Before(entries, target) /\ todo' = From(entries, target)
      /\ pc' = "undo" /\ job' = [why |-> why, target |-> target, clean |-> TRUE]
  BY DEF Compensate
<1>3. /\ entries' \in Seq(Items) /\ ToSet(entries') = {x \in ToSet(entries) : x.step < target}
      /\ todo' \in Seq(Items) /\ ToSet(todo') = {x \in ToSet(entries) : x.step >= target}
      /\ Along(entries', NewerLater) /\ Along(todo', NewerLater)
      /\ \A x \in ToSet(entries'), y \in ToSet(todo') : <<x, y>> \in NewerLater
  BY <1>1, <1>2, QueueSplits
<1>4. Chained'
  BY <1>3 DEF Chained, Along, ToSet, NewerLater, Items
<1> QED BY <1>2, <1>3, <1>4, Orders
(* The item of an effect that a tool performs is new, and is the latest.   *)
LEMMA Performs ==
  ASSUME EngineIInv, Cardinality(made) < MaxEffects,
         NEW c \in Cells, NEW x, x = [step |-> c[1], run |-> c[2], n |-> Cardinality(made) + 1],
         made' = made \cup {x}
  PROVE  /\ x \in Items /\ Cell(x) = c /\ x \notin made /\ Cardinality(made) \in Nat
         /\ \A y \in made : y \in Items /\ y.n < x.n
         /\ made' \subseteq Items /\ IsFiniteSet(made')
         /\ Cardinality(made') = Cardinality(made) + 1 /\ Cardinality(made') <= MaxEffects
<1> USE DEF EngineIInv, Books
<1>1. /\ made \subseteq Items /\ IsFiniteSet(made) /\ Cardinality(made) \in Nat
      /\ \A y \in made : y.n <= Cardinality(made)
  BY FS_CardinalityType DEF Bounded, EffectsTyped, Numbered, EffectsNumbered
<1>2. x \in Items /\ Cell(x) = c
  BY <1>1, ItemTypes DEF Items, Cells, Cell
<1>3. \A y \in made : y \in Items /\ y.n < x.n
  BY <1>1, ItemTypes
<1>4. x \notin made
  BY <1>1, ItemTypes
<1>5. IsFiniteSet(made') /\ Cardinality(made') = Cardinality(made) + 1
  BY <1>1, <1>4, FS_AddElement
<1> QED BY <1>1, <1>2, <1>3, <1>4, <1>5, ItemTypes

(* Where a tool runs, its run is a cell. *)
LEMMA RunTyped ==
  ASSUME EngineIInv, InTool
  PROVE  Run \in Cells /\ Run = <<step, runs>> /\ step \in 1 .. MaxStep /\ runs \in 1 .. MaxRuns
BY ItemTypes, SurvivingRuns DEF EngineIInv, Books, Bounded, RunsTyped, HandlerTyped, Run, Cells

-----------------------------------------------------------------------------
(* What a step may do to the surviving runs. *)
LEMMA RanChanges ==
  ASSUME [Next]_vars
  PROVE  \/ ran' = ran \/ ran' = <<>>
         \/ FinishStep /\ ran' = Append(ran, runs)
         \/ Restore /\ ran' = SubSeq(ran, 1, job.target - 1)
<1> USE DEF memory, handler, disk, outside, history
<1>1. CASE Client \/ Reap \/ CancelCommit
  BY <1>1 DEF Client, Begin, Execute, Commit, CommitConflicts, Rollback, RollbackTo, Reap, CancelCommit
<1>2. CASE Runs \/ ToolWrites \/ ToolActs \/ LooseWrites \/ LooseActs \/ LooseEnds
  BY <1>2 DEF Runs, Begun, ToolReturns, RecordUndo, RecordUndoFails, FinishStep, ToolWrites,
              ToolActs, LooseWrites, LooseActs, LooseEnds
<1>3. CASE Unwinds
  BY <1>3 DEF Unwinds, Undo, UndoFails, Restore, RestoreFails, Discard, DiscardFails
<1>4. CASE Cancel \/ Flushes \/ Crash \/ Restart \/ UNCHANGED vars
  BY <1>4 DEF Cancel, Dropped, Flushes, Dispatch, Committed, Crash, Restart, vars
<1> QED BY <1>1, <1>2, <1>3, <1>4 DEF Next

(* The surviving runs keep their type. *)
LEMMA StepRanTyped == ASSUME EngineIInv, [Next]_vars PROVE RanTyped'
<1>1. ran \in Seq(RunNumbers) /\ Len(ran) \in Nat /\ Len(ran) <= MaxStep /\ MaxStep \in Nat
  BY ItemTypes, SurvivingRuns DEF EngineIInv, Books, Bounded, RunsTyped, RanTyped
<1>2. CASE ran' = ran \/ ran' = <<>>
  <2>1. ASSUME ran' = <<>> PROVE ran' \in Seq(RunNumbers) /\ Len(ran') = 0
    BY <2>1
  <2>2. RunNumbers' = RunNumbers
    BY DEF RunNumbers
  <2> QED BY <1>1, <1>2, <2>1, <2>2 DEF RanTyped
<1>3. CASE FinishStep /\ ran' = Append(ran, runs)
  <2>1. InTool
    BY <1>3 DEF FinishStep, InTool
  <2>2. runs \in RunNumbers /\ Len(ran) + 1 <= MaxStep
    BY <2>1, RunTyped, SurvivingRuns DEF RunNumbers, EngineIInv, Books, Bounded
  <2> QED BY <1>1, <1>3, <2>2 DEF RanTyped
<1>4. CASE Restore /\ ran' = SubSeq(ran, 1, job.target - 1)
  <2>1. job.target \in Nat /\ job.target <= Len(ran) + 1
    BY <1>4, SurvivingRuns
    DEF Restore, Rewinding, EngineIInv, Books, Bounded, RunsTyped, HandlerTyped, Restorable, Unwinding
  <2>2. CASE job.target = 0
    <3>1. ran' = <<>>
      BY <1>1, <1>4, <2>2
    <3> QED BY <1>1, <3>1 DEF RanTyped
  <2>3. CASE job.target # 0
    <3>1. 1 \in 1 .. Len(ran) + 1 /\ job.target - 1 \in 0 .. Len(ran)
      BY <1>1, <2>1, <2>3
    <3>2. ran' \in Seq(RunNumbers) /\ Len(ran') <= Len(ran)
      BY <1>1, <1>4, <3>1
    <3> QED BY <1>1, <3>2 DEF RanTyped
  <2> QED BY <2>2, <2>3
<1> QED BY <1>2, <1>3, <1>4, RanChanges

(* A rewind target is a step up to the next. *)
LEMMA TargetTyped ==
  ASSUME EngineIInv
  PROVE  /\ job.target \in 0 .. MaxStep /\ job.clean \in BOOLEAN /\ Len(ran) \in Nat
         /\ step = Len(ran) + 1 /\ Len(ran) <= MaxStep /\ MaxStep \in Nat
         /\ (InTool => step <= MaxStep) /\ (Unwinding => job.target <= step)
         /\ job = [why |-> job.why, target |-> job.target, clean |-> job.clean]
BY ItemTypes, SurvivingRuns
DEF EngineIInv, Books, Bounded, RunsTyped, RanTyped, HandlerTyped, Restorable, LifeInv, Typed

(* The store keeps its type. *)
LEMMA StepStoreTyped == ASSUME EngineIInv, [Next]_vars PROVE StoreTyped'
<1> USE DEF StoreTyped, memory, handler, disk, outside, history
<1>1. StoreTyped /\ MaxStep \in Nat /\ (InTool => Run \in Cells)
      /\ job.target \in 0 .. MaxStep /\ step \in Nat
  BY ItemTypes, RunTyped, TargetTyped DEF EngineIInv, Books, Bounded, RunsTyped
<1>2. CASE Client \/ Reap \/ CancelCommit
  <2>1. CASE Execute /\ saved' = Snapshot(step)
    <3>1. step \in 0 .. MaxStep
      BY <1>1, <2>1 DEF Execute
    <3> QED BY <1>1, <2>1, <3>1 DEF Execute, Snapshot
  <2>2. CASE Commit
    BY <1>1, <2>2 DEF Commit
  <2>3. CASE UNCHANGED <<loose, late, data, published, saved>>
    BY <1>1, <2>3
  <2> QED
    BY <1>2, <2>1, <2>2, <2>3
    DEF Client, Begin, Execute, CommitConflicts, Rollback, RollbackTo, Reap, CancelCommit
<1>3. CASE Runs \/ ToolWrites \/ ToolActs \/ LooseWrites \/ LooseActs \/ LooseEnds
  <2>1. CASE Begun
    <3>1. 0 \in 0 .. MaxStep
      BY <1>1
    <3> QED BY <1>1, <2>1, <3>1 DEF Begun, Snapshot
  <2>2. CASE ToolWrites \/ ToolReturns \/ FinishStep
    BY <1>1, <2>2 DEF ToolWrites, ToolReturns, FinishStep, InTool
  <2>3. CASE LooseWrites \/ LooseEnds
    BY <1>1, <2>3 DEF LooseWrites, LooseEnds
  <2>4. CASE RecordUndo \/ RecordUndoFails \/ ToolActs \/ LooseActs
    BY <1>1, <2>4 DEF RecordUndo, RecordUndoFails, ToolActs, LooseActs
  <2> QED BY <1>3, <2>1, <2>2, <2>3, <2>4 DEF Runs
<1>4. CASE Unwinds
  <2>1. CASE Restore
    BY <1>1, <2>1 DEF Restore
  <2>2. CASE Discard
    BY <1>1, <2>2 DEF Discard
  <2>3. CASE Undo \/ UndoFails \/ RestoreFails \/ DiscardFails
    BY <1>1, <2>3 DEF Undo, UndoFails, RestoreFails, DiscardFails
  <2> QED BY <1>4, <2>1, <2>2, <2>3 DEF Unwinds
<1>5. CASE Cancel
  <2>1. CASE CancelTool
    BY <1>1, <1>5, <2>1 DEF Cancel, Dropped, CancelTool, InTool
  <2>2. CASE CancelStorage
    BY <1>1, <1>5, <2>2 DEF Cancel, Dropped, CancelStorage
  <2>3. CASE CancelUndo \/ CancelFlush
    BY <1>1, <1>5, <2>3 DEF Cancel, Dropped, CancelUndo, CancelFlush
  <2> QED BY <1>5, <2>1, <2>2, <2>3 DEF Cancel
<1>6. CASE Flushes \/ Crash \/ Restart \/ UNCHANGED vars
  BY <1>1, <1>6 DEF Flushes, Dispatch, Committed, Crash, Restart, vars
<1> QED BY <1>2, <1>3, <1>4, <1>5, <1>6 DEF Next

(* And so do what the handler was called for and the counters. *)
LEMMA StepHandlerTyped == ASSUME EngineIInv, [Next]_vars PROVE HandlerTyped'
<1> USE DEF HandlerTyped, InTool, step, memory, handler, disk, outside, history
<1>1. /\ HandlerTyped /\ MaxStep \in Nat /\ MaxRuns \in Nat /\ MaxCrashes \in Nat
      /\ Len(ran) \in Nat /\ step \in 1 .. MaxStep + 1
      /\ job = [why |-> job.why, target |-> job.target, clean |-> job.clean]
      /\ pc = "idle" \/ up
  BY ItemTypes, TargetTyped
  DEF EngineIInv, Books, Bounded, RunsTyped, LifeInv, HandlersAgree
<1>2. ASSUME NEW why, NEW target \in 0 .. MaxStep, Compensate(why, target)
      PROVE  pc' = "undo" /\ job'.target \in 0 .. MaxStep /\ job'.clean \in BOOLEAN
  BY <1>2 DEF Compensate
<1>3. /\ Idle.target \in 0 .. MaxStep /\ Idle.clean \in BOOLEAN /\ 0 \in 0 .. MaxStep
  BY <1>1 DEF Idle
<1>4. CASE Client \/ Reap \/ CancelCommit
  <2>1. CASE Execute
    <3>1. step \in 0 .. MaxStep /\ runs' \in 0 .. MaxRuns /\ runs' > 0
      BY <1>1, <2>1 DEF Execute
    <3>2. (pc' = "tool" /\ job' = job) \/ Compensate("error", step)
      BY <2>1 DEF Execute
    <3> QED BY <1>1, <1>2, <2>1, <3>1, <3>2 DEF Execute
  <2>2. CASE CommitConflicts \/ Rollback \/ Reap
    BY <1>1, <1>2, <1>3, <2>2 DEF CommitConflicts, Rollback, Reap
  <2>3. ASSUME NEW s \in 1 .. MaxStep, RollbackTo(s) PROVE HandlerTyped'
    BY <1>1, <1>2, <2>3 DEF RollbackTo
  <2>4. CASE Begin \/ Commit \/ CancelCommit
    BY <1>1, <2>4 DEF Begin, Commit, CancelCommit, Ready
  <2> QED BY <1>4, <2>1, <2>2, <2>3, <2>4 DEF Client
<1>5. CASE Runs
  <2>1. CASE Begun
    BY <1>1, <2>1 DEF Begun
  <2>2. CASE ToolReturns
    BY <1>1, <2>2 DEF ToolReturns
  <2>3. CASE RecordUndo
    BY <1>1, <2>3 DEF RecordUndo
  <2>4. CASE RecordUndoFails
    BY <1>1, <1>2, <2>4 DEF RecordUndoFails
  <2>5. CASE FinishStep
    <3>1. step \in 0 .. MaxStep
      BY <1>1, <2>5 DEF FinishStep
    <3>2. \/ pc' = "idle" /\ job' = Idle
          \/ Compensate("error", step)
          \/ \E target \in 0 .. step : Compensate("retry", target)
          \/ Compensate("failed", 0)
      BY <2>5 DEF FinishStep
    <3>3. pc' \in {"idle", "undo"} /\ job'.target \in 0 .. MaxStep /\ job'.clean \in BOOLEAN
      BY <1>1, <1>2, <1>3, <3>1, <3>2
    <3> QED BY <1>1, <2>5, <3>3 DEF FinishStep
  <2> QED BY <1>5, <2>1, <2>2, <2>3, <2>4, <2>5 DEF Runs
<1>6. CASE Unwinds
  <2>1. CASE Undo \/ UndoFails
    BY <1>1, <2>1 DEF Undo, UndoFails
  <2>2. CASE Restore \/ Discard
    BY <1>1, <1>3, <2>2 DEF Restore, Discard
  <2>3. CASE RestoreFails
    BY <1>1, <1>2, <1>3, <2>3 DEF RestoreFails
  <2>4. CASE DiscardFails
    <3>1. (pc' = "idle" /\ job' = Idle) \/ Compensate("hard", 0)
      BY <2>4, Zenon DEF DiscardFails
    <3> QED BY <1>1, <1>2, <1>3, <2>4, <3>1 DEF DiscardFails
  <2> QED BY <1>6, <2>1, <2>2, <2>3, <2>4 DEF Unwinds
<1>7. CASE Cancel
  BY <1>1, <1>3, <1>7 DEF Cancel, Dropped
<1>8. CASE ToolWrites \/ ToolActs \/ LooseWrites \/ LooseActs \/ LooseEnds
  BY <1>1, <1>8 DEF ToolWrites, ToolActs, LooseWrites, LooseActs, LooseEnds
<1>9. CASE Flushes \/ Crash
  BY <1>1, <1>3, <1>9 DEF Flushes, Dispatch, Committed, Crash
<1>10. CASE Restart
  <2>1. \/ pc' = "undo" /\ job' = [why |-> "recover", target |-> 0, clean |-> TRUE]
        \/ UNCHANGED handler
    BY <1>10 DEF Restart, Recover
  <2>2. UNCHANGED <<ran, runs, crashes>>
    BY <1>10 DEF Restart
  <2>3. CASE UNCHANGED handler
    BY <1>1, <2>2, <2>3
  <2>4. CASE pc' = "undo" /\ job' = [why |-> "recover", target |-> 0, clean |-> TRUE]
    BY <1>1, <1>3, <2>2, <2>4
  <2> QED BY <2>1, <2>3, <2>4
<1>11. CASE UNCHANGED vars
  BY <1>1, <1>11 DEF vars
<1> QED BY <1>4, <1>5, <1>6, <1>7, <1>8, <1>9, <1>10, <1>11 DEF Next

(* What all steps have in common by which a live handler goes on to undo   *)
(* effects: undo actions not yet recorded are lost; of the staging queue,  *)
(* at most what a failed step has staged is new.                           *)
Rewinds == {"error", "retry", "manual"}
Restaged == \/ staged' = staged
            \/ pc = "record" /\ staged' = Append(staged, Item(0))
            \/ Unwinding /\ staged' = Before(staged, job.target)
            \/ staged' = <<>>
Turns(why, target) ==
  /\ Alive /\ Compensate(why, target)
  /\ target \in 0 .. step /\ (why \in Rewinds \/ target = 0) /\ why # "recover"
  /\ (Unwinding => target = 0)
  /\ (InTool => todo = <<>> \/ pc = "record") /\ (~InTool => todo = <<>>)
  /\ orphaned' = orphaned \cup ToSet(todo)
  /\ runs' \in {runs, runs + 1} /\ Restaged
  /\ UNCHANGED <<ran, up, loose, record, logs, data, saved, published, world, sent, made, crashes,
                 failed, late>>

(* Every step that starts to undo is one of these, but for recovery. *)
LEMMA StepTurns ==
  ASSUME EngineIInv, NEW why, NEW target, Compensate(why, target),
         \/ Execute \/ RecordUndoFails \/ FinishStep \/ RestoreFails \/ DiscardFails
         \/ CommitConflicts \/ Rollback \/ Reap \/ \E s \in 1 .. MaxStep : RollbackTo(s)
  PROVE  Turns(why, target)
<1> USE DEF memory, handler, disk, outside, history, InTool, Unwinding, Alive, Ready, Rewinds, Restaged
<1>0. /\ job' = [why |-> why, target |-> target, clean |-> TRUE] /\ pc' = "undo"
      /\ step \in Nat /\ ToSet(<<>>) = {} /\ runs \in Nat
      /\ pc = "idle" => todo = <<>>
  BY TargetTyped, QueueEmpty
  DEF Compensate, EngineIInv, InHand, Books, Bounded, RunsTyped, HandlerTyped
<1>1. ASSUME NEW w, NEW t, Compensate(w, t) PROVE why = w /\ target = t
  <2>1. job' = [why |-> w, target |-> t, clean |-> TRUE]
    BY <1>1 DEF Compensate
  <2> QED BY <1>0, <2>1
<1>2. CASE Execute
  <2>1. Compensate("error", step) /\ runs' = runs + 1
    BY <1>0, <1>2 DEF Execute
  <2>2. why = "error" /\ target = step /\ todo = <<>> /\ pc = "idle" /\ status = "ACTIVE"
    BY <1>0, <1>1, <1>2, <2>1 DEF Execute
  <2> QED BY <1>0, <1>2, <2>1, <2>2 DEF Execute, Turns
<1>3. CASE RecordUndoFails
  BY <1>0, <1>1, <1>3 DEF RecordUndoFails, Turns
<1>4. CASE FinishStep
  <2>1. \/ Compensate("error", step)
        \/ \E t \in 0 .. step : Compensate("retry", t)
        \/ Compensate("failed", 0)
    BY <1>0, <1>4 DEF FinishStep
  <2>2. target \in 0 .. step /\ (why \in Rewinds \/ target = 0) /\ why # "recover"
    BY <1>0, <1>1, <2>1
  <2>3. /\ UNCHANGED <<ran, up, loose, record, logs, data, saved, published, world, sent, made, crashes,
                       failed, late>>
        /\ UNCHANGED <<orphaned, runs>> /\ todo = <<>> /\ pc = "record"
        /\ staged' \in {staged, Append(staged, Item(0))}
    BY <1>0, <1>4 DEF FinishStep, Stagings
  <2> QED BY <1>0, <2>2, <2>3 DEF Turns
<1>5. CASE RestoreFails
  BY <1>0, <1>1, <1>5 DEF RestoreFails, Rewinding, Turns
<1>6. CASE DiscardFails
  <2>1. Compensate("hard", 0) /\ job.why = "failed" /\ UNCHANGED <<up, ran>>
    <3>1. pc' # "idle"
      BY <1>0
    <3> QED BY <1>6, <3>1, Zenon DEF DiscardFails
  <2>2. why = "hard" /\ target = 0
    BY <1>1, <2>1
  <2> QED BY <1>0, <1>6, <2>1, <2>2 DEF DiscardFails, Aborting, Turns
<1>7. CASE CommitConflicts \/ Rollback \/ Reap
  BY <1>0, <1>1, <1>7 DEF CommitConflicts, Rollback, Reap, Turns
<1>8. ASSUME NEW s \in 1 .. MaxStep, RollbackTo(s) PROVE Turns(why, target)
  BY <1>0, <1>1, <1>8 DEF RollbackTo, Turns
<1> QED BY <1>2, <1>3, <1>4, <1>5, <1>6, <1>7, <1>8

(* What is left of the staging queue when a step turns to undo. *)
LEMMA Restages ==
  ASSUME EngineIInv, Alive, Restaged
  PROVE  /\ staged' \in Seq(Items) /\ Along(staged', NextStep)
         /\ ~Unwinding => \A x \in ToSet(staged') : Cell(x) \in Writes(ran) \/ Cell(x) = Run
<1>1. /\ staged \in Seq(Items) /\ Along(staged, NextStep) /\ step \in Nat
      /\ ~Unwinding => \A x \in ToSet(staged) : Cell(x) \in Writes(ran)
  BY TargetTyped DEF EngineIInv, Books, Bounded, QueuesTyped, Outgoing, Staging, Alive
<1>2. CASE staged' = staged
  BY <1>1, <1>2, Zenon
<1>3. CASE staged' = <<>>
  BY <1>1, <1>3, QueueEmpty
<1>4. CASE Unwinding /\ staged' = Before(staged, job.target)
  <2>1. job.target \in Nat /\ InStepOrder(staged)
    BY <1>1, TargetTyped, Orders
  <2>2. Before(staged, job.target) \in Seq(Items) /\ Along(Before(staged, job.target), NextStep)
    BY <1>1, <2>1, QueueSplits
  <2> QED BY <1>4, <2>2, Zenon
<1>5. CASE pc = "record" /\ staged' = Append(staged, Item(0))
  <2>1. Item(0) \in Items /\ Item(0).step = step /\ Cell(Item(0)) = Run /\ ~Unwinding
    BY <1>5, RunTyped, ItemTypes DEF InTool, Item, Items, Cell, Run, Unwinding
  <2>2. \A y \in ToSet(staged) : y \in Items /\ Cell(y) \in Writes(ran) /\ <<y, Item(0)>> \in NextStep
    <3> TAKE y \in ToSet(staged)
    <3>1. y \in Items /\ Cell(y) \in Writes(ran)
      BY <1>1, <2>1, QueueItems
    <3>2. y.step < step
      BY <3>1, SurvivingRuns DEF EngineIInv, Books, Cell
    <3> QED BY <2>1, <3>1, <3>2 DEF NextStep
  <2> DEFINE z == Item(0)
  <2> HIDE DEF z
  <2>3. /\ Append(staged, z) \in Seq(Items \cup {z}) /\ Items \cup {z} = Items
        /\ Along(Append(staged, z), NextStep) /\ ToSet(Append(staged, z)) = ToSet(staged) \cup {z}
    BY <1>1, <2>1, <2>2, QueueGrows DEF z
  <2> QED BY <1>5, <2>1, <2>2, <2>3 DEF z
<1> QED BY <1>2, <1>3, <1>4, <1>5 DEF Restaged

(* The ledger is in order while the transaction is alive, and can be split. *)
LEMMA Turned ==
  ASSUME EngineIInv, NEW why, NEW target, Turns(why, target)
  PROVE  /\ entries' \in Seq(Items) /\ ToSet(entries') = {x \in ToSet(entries) : x.step < target}
         /\ todo' \in Seq(Items) /\ ToSet(todo') = {x \in ToSet(entries) : x.step >= target}
         /\ Chained' /\ Along(todo', ByKey)
         /\ pc' = "undo" /\ job' = [why |-> why, target |-> target, clean |-> TRUE]
         /\ target \in Nat /\ Unwinding' /\ Alive' /\ ~Ready' /\ ~InTool'
<1>1. entries \in Seq(Items) /\ Along(entries, NewerLater) /\ target \in Nat
  BY TargetTyped DEF EngineIInv, Books, Bounded, QueuesTyped, LedgerInv, Chained, Turns
<1>2. Compensate(why, target) /\ why # "recover"
  BY DEF Turns
<1>3. /\ entries' \in Seq(Items) /\ ToSet(entries') = {x \in ToSet(entries) : x.step < target}
      /\ todo' \in Seq(Items) /\ ToSet(todo') = {x \in ToSet(entries) : x.step >= target}
      /\ Chained' /\ Along(todo', ByKey)
      /\ pc' = "undo" /\ job' = [why |-> why, target |-> target, clean |-> TRUE]
  BY <1>1, <1>2, Compensates, Zenon
<1>4. Unwinding' /\ Alive' /\ ~Ready' /\ ~InTool'
  BY <1>2, <1>3 DEF Unwinding, Alive, Ready, InTool
<1> QED BY <1>1, <1>3, <1>4

(* The steps, with those that turn to undo taken together. *)
LEMMA StepCases ==
  ASSUME EngineIInv, [Next]_vars
  PROVE  \/ \E why, target : Turns(why, target)
         \/ Begin \/ Begun \/ (Execute /\ pc' = "tool")
         \/ ToolWrites \/ ToolActs \/ ToolReturns \/ LooseWrites \/ LooseActs \/ LooseEnds
         \/ RecordUndo \/ (FinishStep /\ pc' = "idle")
         \/ Undo \/ UndoFails \/ Restore \/ Discard \/ (DiscardFails /\ pc' = "idle")
         \/ Commit \/ Dispatch \/ Committed \/ Cancel \/ CancelCommit \/ Crash \/ Restart
         \/ UNCHANGED vars
<1>1. ASSUME \E why, target : Compensate(why, target),
             \/ Execute \/ RecordUndoFails \/ FinishStep \/ RestoreFails \/ DiscardFails
             \/ CommitConflicts \/ Rollback \/ Reap \/ \E s \in 1 .. MaxStep : RollbackTo(s)
      PROVE  \E why, target : Turns(why, target)
  BY <1>1, StepTurns
<1>2. ASSUME RecordUndoFails \/ RestoreFails \/ CommitConflicts \/ Rollback \/ Reap
             \/ \E s \in 1 .. MaxStep : RollbackTo(s)
      PROVE  \E why, target : Compensate(why, target)
  BY <1>2 DEF RecordUndoFails, RestoreFails, CommitConflicts, Rollback, Reap, RollbackTo
<1>3. ASSUME Execute, pc' # "tool" PROVE \E why, target : Compensate(why, target)
  BY <1>3 DEF Execute
<1>4. ASSUME FinishStep, pc' # "idle" PROVE \E why, target : Compensate(why, target)
  BY <1>4 DEF FinishStep
<1>5. ASSUME DiscardFails, pc' # "idle" PROVE \E why, target : Compensate(why, target)
  BY <1>5 DEF DiscardFails
<1>6. ASSUME RecordUndoFails \/ RestoreFails \/ CommitConflicts \/ Rollback \/ Reap
             \/ \E s \in 1 .. MaxStep : RollbackTo(s)
      PROVE  \E why, target : Turns(why, target)
  BY <1>1, <1>2, <1>6
<1>7. Execute => pc' = "tool" \/ \E why, target : Turns(why, target)
  BY <1>1, <1>3
<1>8. (FinishStep \/ DiscardFails) => pc' = "idle" \/ \E why, target : Turns(why, target)
  BY <1>1, <1>4, <1>5
<1> DEFINE T == \E why, target : Turns(why, target)
<1> HIDE DEF T
<1>9. /\ RecordUndoFails \/ RestoreFails \/ CommitConflicts \/ Rollback \/ Reap
         \/ (\E s \in 1 .. MaxStep : RollbackTo(s)) => T
      /\ Execute => pc' = "tool" \/ T
      /\ FinishStep \/ DiscardFails => pc' = "idle" \/ T
  BY <1>6, <1>7, <1>8 DEF T
<1> SUFFICES ASSUME ~T
    PROVE  \/ Begin \/ Begun \/ (Execute /\ pc' = "tool")
           \/ ToolWrites \/ ToolActs \/ ToolReturns \/ LooseWrites \/ LooseActs \/ LooseEnds
           \/ RecordUndo \/ (FinishStep /\ pc' = "idle")
           \/ Undo \/ UndoFails \/ Restore \/ Discard \/ (DiscardFails /\ pc' = "idle")
           \/ Commit \/ Dispatch \/ Committed \/ Cancel \/ CancelCommit \/ Crash \/ Restart
           \/ UNCHANGED vars
  BY DEF T
<1>10. CASE Client
  BY <1>9, <1>10 DEF Client
<1>11. CASE Runs
  BY <1>9, <1>11 DEF Runs
<1>12. CASE Unwinds
  BY <1>9, <1>12 DEF Unwinds
<1>13. CASE Flushes
  BY <1>13 DEF Flushes
<1>14. ~Reap
  BY <1>9
<1> QED BY <1>10, <1>11, <1>12, <1>13, <1>14, Zenon DEF Next

(* The records of an open transaction can be sorted for recovery. *)
LEMMA LogsSorted ==
  ASSUME EngineIInv
  PROVE  Sorted(logs) \in Seq(Items) /\ ToSet(Sorted(logs)) = logs /\ Along(Sorted(logs), ByKey)
<1>1. logs \subseteq Items /\ IsFiniteSet(logs) /\ \A x, y \in logs : x.n = y.n => x = y
  BY FS_Subset DEF EngineIInv, Books, Bounded, EffectsTyped, Numbered, EffectsNumbered
<1> QED BY <1>1, SortedByKey

(* Every queue goes on to consist of items. *)
LEMMA StepQueuesTyped == ASSUME EngineIInv, [Next]_vars PROVE QueuesTyped'
<1> USE DEF QueuesTyped, memory, handler, disk, outside, history
<1>1. QueuesTyped /\ Items' = Items /\ <<>> \in Seq(Items)
  BY DEF EngineIInv, Books, Bounded, Items
<1>2. ASSUME NEW why, NEW target, Turns(why, target) PROVE QueuesTyped'
  <2>1. sent' = sent /\ staged' \in Seq(Items)
    BY <1>2, Restages DEF Turns
  <2> QED BY <1>1, <1>2, <2>1, Turned
<1>3. CASE Begin \/ Begun \/ (Execute /\ pc' = "tool")
  BY <1>1, <1>3 DEF Begin, Begun, Execute, Compensate
<1>4. CASE ToolWrites \/ ToolReturns \/ LooseWrites \/ LooseActs \/ LooseEnds
  BY <1>1, <1>4 DEF ToolWrites, ToolReturns, LooseWrites, LooseActs, LooseEnds
<1>5. CASE ToolActs
  <2> DEFINE x == Item(Cardinality(made) + 1)
  <2>1. /\ todo' = Append(todo, x) /\ made' = made \cup {x} /\ Cardinality(made) < MaxEffects
        /\ InTool
    BY <1>5 DEF ToolActs, InTool
  <2>2. x = [step |-> Run[1], run |-> Run[2], n |-> Cardinality(made) + 1] /\ Run \in Cells
    BY <2>1, RunTyped DEF Item
  <2> HIDE DEF x
  <2>3. x \in Items
    BY <2>1, <2>2, Performs
  <2>4. Append(todo, x) \in Seq(Items \cup {x}) /\ Items \cup {x} = Items
    BY <1>1, <2>3, QueueGrows
  <2>5. UNCHANGED <<entries, staged, sent>>
    BY <1>5 DEF ToolActs
  <2> QED BY <1>1, <2>1, <2>4, <2>5
<1>6. CASE RecordUndo
  <2>1. todo # <<>> /\ todo' = Tail(todo) /\ entries' = Append(entries, Head(todo))
        /\ UNCHANGED <<staged, sent>>
    BY <1>6 DEF RecordUndo
  <2> DEFINE x == Head(todo)
  <2>2. Tail(todo) \in Seq(Items) /\ x \in Items
    BY <1>1, <2>1, QueueShrinks
  <2> HIDE DEF x
  <2>3. Append(entries, x) \in Seq(Items \cup {x}) /\ Items \cup {x} = Items
    BY <1>1, <2>2, QueueGrows
  <2> QED BY <1>1, <2>1, <2>2, <2>3 DEF x
<1>7. CASE FinishStep /\ pc' = "idle"
  <2>1. staged' \in Stagings /\ UNCHANGED <<entries, todo, sent>> /\ pc = "record"
    BY <1>7 DEF FinishStep, Compensate
  <2>2. Restaged /\ Alive
    BY <2>1 DEF Stagings, Restaged, Alive, InTool
  <2> QED BY <1>1, <2>1, <2>2, Restages
<1>8. CASE Undo \/ UndoFails
  <2>1. todo # <<>> /\ todo' = Front(todo) /\ UNCHANGED <<entries, staged, sent>>
    BY <1>8 DEF Undo, UndoFails
  <2> QED BY <1>1, <2>1, QueueLoses
<1>9. CASE Restore
  <2>1. staged' = Before(staged, job.target) /\ UNCHANGED <<entries, todo, sent>> /\ Rewinding
    BY <1>9 DEF Restore
  <2>2. Restaged /\ Alive
    BY <2>1 DEF Rewinding, Restaged, Alive, Unwinding
  <2> QED BY <1>1, <2>1, <2>2, Restages
<1>10. CASE Discard \/ (DiscardFails /\ pc' = "idle")
  <2>1. staged' = <<>> /\ UNCHANGED <<entries, todo, sent>>
    BY <1>10 DEF Discard, DiscardFails, Compensate
  <2> QED BY <1>1, <2>1
<1>11. CASE Commit \/ Committed \/ CancelCommit
  BY <1>1, <1>11 DEF Commit, Committed, CancelCommit
<1>12. CASE Dispatch
  <2>1. todo # <<>> /\ todo' = Tail(todo) /\ UNCHANGED <<entries, staged>>
        /\ sent' \in {sent, Append(sent, Head(todo))}
    BY <1>12 DEF Dispatch, Deliveries
  <2> DEFINE x == Head(todo)
  <2>2. Tail(todo) \in Seq(Items) /\ x \in Items
    BY <1>1, <2>1, QueueShrinks
  <2> HIDE DEF x
  <2>3. Append(sent, x) \in Seq(Items \cup {x}) /\ Items \cup {x} = Items
    BY <1>1, <2>2, QueueGrows
  <2> QED BY <1>1, <2>1, <2>2, <2>3 DEF x
<1>13. CASE Cancel
  <2>1. todo' = <<>> /\ UNCHANGED <<entries, staged>>
    BY <1>13 DEF Cancel, Dropped
  <2>2. sent' = sent \/ \E i \in DOMAIN todo : sent' = Append(sent, todo[i])
    BY <1>13 DEF Cancel, CancelTool, CancelUndo, CancelStorage, CancelFlush
  <2>3. ASSUME NEW i \in DOMAIN todo, sent' = Append(sent, todo[i]) PROVE sent' \in Seq(Items)
    BY <1>1, <2>3
  <2> QED BY <1>1, <2>1, <2>2, <2>3
<1>14. CASE Crash
  BY <1>1, <1>14 DEF Crash
<1>15. CASE Restart
  <2>1. UNCHANGED <<entries, staged, sent>> /\ (todo' = Sorted(logs) \/ todo' = todo)
    BY <1>15 DEF Restart, Recover
  <2> QED BY <1>1, <2>1, LogsSorted
<1>16. CASE UNCHANGED vars
  BY <1>1, <1>16 DEF vars
<1> QED
  BY <1>2, <1>3, <1>4, <1>5, <1>6, <1>7, <1>8, <1>9, <1>10, <1>11, <1>12, <1>13, <1>14, <1>15, <1>16,
     StepCases

(* Every step keeps the sets of effects within those performed. *)
LEMMA StepEffectsTyped == ASSUME EngineIInv, [Next]_vars PROVE EffectsTyped'
<1> USE DEF EffectsTyped, memory, handler, disk, outside, history
<1>1. /\ EffectsTyped /\ Items' = Items /\ MaxEffects' = MaxEffects
      /\ todo \in Seq(Items) /\ ToSet(<<>>) = {} /\ (pc = "idle" => todo = <<>>)
      /\ InTool => \A x \in ToSet(todo) : x \in made
  BY QueueEmpty DEF EngineIInv, Books, Bounded, QueuesTyped, Items, InHand, LedgerInv
<1>2. ASSUME made' = made, logs' \subseteq made, orphaned' \subseteq made, world' \subseteq made,
             failed' \subseteq failed \cup made
      PROVE  EffectsTyped'
  BY <1>1, <1>2
<1>3. ASSUME NEW why, NEW target, Turns(why, target) PROVE EffectsTyped'
  <2>1. UNCHANGED <<made, logs, world, failed>> /\ orphaned' = orphaned \cup ToSet(todo)
    BY <1>3 DEF Turns
  <2>2. ToSet(todo) \subseteq made
    BY <1>1, <1>3 DEF Turns
  <2> QED BY <1>1, <2>1, <2>2
<1>4. CASE Begin \/ Begun \/ (Execute /\ pc' = "tool")
  BY <1>1, <1>4 DEF Begin, Begun, Execute
<1>5. CASE ToolWrites \/ ToolReturns \/ LooseWrites \/ LooseEnds
  BY <1>1, <1>5 DEF ToolWrites, ToolReturns, LooseWrites, LooseEnds
<1>6. CASE ToolActs \/ LooseActs
  <2>1. PICK c, x : /\ c \in Cells
                    /\ x = [step |-> c[1], run |-> c[2], n |-> Cardinality(made) + 1]
                    /\ made' = made \cup {x} /\ Cardinality(made) < MaxEffects
                    /\ world' = world \cup {x} /\ orphaned' \in {orphaned, orphaned \cup {x}}
                    /\ UNCHANGED <<logs, failed>>
    <3>1. CASE ToolActs
      <4>1. InTool
        BY <3>1 DEF ToolActs, InTool
      <4>2. Run \in Cells /\ Item(Cardinality(made) + 1)
              = [step |-> Run[1], run |-> Run[2], n |-> Cardinality(made) + 1]
        BY <4>1, RunTyped DEF Item
      <4> QED BY <3>1, <4>2 DEF ToolActs
    <3>2. CASE LooseActs
      <4>1. loose \subseteq Cells
        BY DEF EngineIInv, Books, Bounded, RunsTyped, StoreTyped
      <4> QED BY <3>2, <4>1 DEF LooseActs
    <3> QED BY <1>6, <3>1, <3>2
  <2>2. made' \subseteq Items /\ IsFiniteSet(made') /\ Cardinality(made') <= MaxEffects
    BY <2>1, Performs
  <2> QED BY <1>1, <2>1, <2>2
<1>7. CASE RecordUndo
  <2>1. /\ todo # <<>> /\ logs' = logs \cup {Head(todo)}
        /\ UNCHANGED <<made, orphaned, world, failed>> /\ InTool
    BY <1>7 DEF RecordUndo, InTool
  <2>2. Head(todo) \in made
    BY <1>1, <2>1, QueueShrinks
  <2> QED BY <1>1, <2>1, <2>2
<1>8. CASE Undo \/ UndoFails
  BY <1>1, <1>8 DEF Undo, UndoFails
<1>9. CASE (FinishStep /\ pc' = "idle") \/ Restore
  BY <1>1, <1>9 DEF FinishStep, Restore
<1>10. CASE Discard
  BY <1>1, <1>10 DEF Discard
<1>11. CASE (DiscardFails /\ pc' = "idle") \/ Commit \/ Committed \/ CancelCommit \/ Dispatch
  BY <1>1, <1>11 DEF DiscardFails, Commit, Committed, CancelCommit, Dispatch
<1>12. CASE Cancel
  <2>1. made' = made /\ failed' = failed
    BY <1>12 DEF Cancel, Dropped
  <2>2. CASE CancelTool
    BY <1>1, <2>1, <2>2 DEF CancelTool, InTool
  <2>3. CASE CancelUndo \/ CancelFlush
    BY <1>1, <2>1, <2>3 DEF CancelUndo, CancelFlush
  <2>4. CASE CancelStorage
    BY <1>1, <2>1, <2>4 DEF CancelStorage
  <2> QED BY <1>12, <2>2, <2>3, <2>4 DEF Cancel
<1>13. CASE Crash
  BY <1>1, <1>13 DEF Crash, InTool
<1>14. CASE Restart
  BY <1>1, <1>14 DEF Restart
<1>15. CASE UNCHANGED vars
  BY <1>1, <1>15 DEF vars
<1> QED
  BY <1>3, <1>4, <1>5, <1>6, <1>7, <1>8, <1>9, <1>10, <1>11, <1>12, <1>13, <1>14, <1>15, StepCases

(* A surviving run stays at its step, or is the one that just succeeded. *)
LEMMA RanValues ==
  ASSUME EngineIInv, [Next]_vars
  PROVE  \A s \in DOMAIN ran' : \/ s \in DOMAIN ran /\ ran'[s] = ran[s]
                                \/ FinishStep /\ pc' = "idle" /\ s = step /\ ran'[s] = runs
<1>1. ran \in Seq(RunNumbers) /\ Len(ran) \in Nat /\ DOMAIN ran = 1 .. Len(ran) /\ step = Len(ran) + 1
  BY SurvivingRuns DEF EngineIInv, Books, Bounded, RunsTyped, RanTyped
<1>2. CASE ran' = <<>>
  BY <1>2
<1>3. CASE FinishStep /\ ran' = Append(ran, runs)
  <2>1. ran' # ran
    <3>1. Len(Append(ran, runs)) = Len(ran) + 1
      BY <1>1
    <3>2. Len(Append(ran, runs)) # Len(ran)
      <4>1. \A n \in Nat : n + 1 # n
        OBVIOUS
      <4> QED BY <1>1, <3>1, <4>1, Zenon
    <3> QED BY <1>3, <3>2, Zenon
  <2>2. pc' = "idle"
    BY <1>3, <2>1 DEF FinishStep
  <2> QED BY <1>1, <1>3, <2>2
<1>4. CASE Restore /\ ran' = SubSeq(ran, 1, job.target - 1)
  <2>1. job.target \in Nat /\ job.target <= step
    BY <1>4, TargetTyped DEF Restore, Rewinding, Unwinding
  <2>2. CASE job.target = 0
    <3>1. ran' = <<>>
      BY <1>1, <1>4, <2>2
    <3> QED BY <3>1
  <2>3. CASE job.target # 0
    <3>1. 1 \in 1 .. Len(ran) + 1 /\ job.target - 1 \in 0 .. Len(ran)
      BY <1>1, <2>1, <2>3
    <3>2. DOMAIN SubSeq(ran, 1, job.target - 1) = 1 .. (job.target - 1)
          /\ \A s \in 1 .. job.target - 1 : SubSeq(ran, 1, job.target - 1)[s] = ran[s]
      BY <1>1, <3>1
    <3> QED BY <1>1, <1>4, <3>1, <3>2
  <2> QED BY <2>2, <2>3
<1>5. CASE ran' = ran
  BY <1>5
<1> QED BY <1>2, <1>3, <1>4, <1>5, RanChanges

(* A run whose tool nobody waits for is one that just failed or whose      *)
(* caller went away; and when the next run starts it has the next number.  *)
LEMMA LooseRuns ==
  ASSUME EngineIInv, [Next]_vars
  PROVE  /\ \A c \in loose' \cup late' :
              \/ c \in loose \cup late
              \/ c = Run /\ pc = "tool" /\ (pc' = "idle" \/ (pc' = "record" /\ job'.why = "failed"))
         /\ runs' \in {runs, runs + 1}
         /\ InTool' => runs' = runs + 1 \/ InTool
         /\ pc' = "tool" \/ (pc' = "record" /\ job'.why # "failed") =>
              runs' = runs + 1 \/ pc = "tool" \/ (pc = "record" /\ job.why # "failed")
<1> USE DEF memory, handler, disk, outside, history, InTool
<1>1. pc = "idle" \/ (up /\ status # "none") \/ (pc = "begin") \/ (pc = "undo")
  BY DEF EngineIInv, LifeInv, HandlersAgree, Typed
<1>2. ASSUME NEW why, NEW target, Turns(why, target)
      PROVE  UNCHANGED <<loose, late>> /\ runs' \in {runs, runs + 1} /\ pc' = "undo"
  BY <1>2, Turned DEF Turns
<1>3. CASE Begin \/ Begun \/ (Execute /\ pc' = "tool")
  BY <1>3 DEF Begin, Begun, Execute, Compensate
<1>4. CASE ToolWrites \/ ToolActs \/ LooseWrites \/ LooseActs \/ LooseEnds
  BY <1>4 DEF ToolWrites, ToolActs, LooseWrites, LooseActs, LooseEnds
<1>5. CASE ToolReturns
  BY <1>5 DEF ToolReturns
<1>6. CASE RecordUndo \/ Undo \/ UndoFails
  BY <1>6 DEF RecordUndo, Undo, UndoFails
<1>7. CASE (FinishStep /\ pc' = "idle") \/ Restore \/ Discard \/ (DiscardFails /\ pc' = "idle")
  BY <1>7 DEF FinishStep, Restore, Discard, DiscardFails
<1>8. CASE Commit \/ Committed \/ CancelCommit \/ Dispatch
  BY <1>8 DEF Commit, Committed, CancelCommit, Dispatch, Ready
<1>9. CASE Cancel
  BY <1>9 DEF Cancel, Dropped, CancelTool, CancelUndo, CancelStorage, CancelFlush
<1>10. CASE Crash
  BY <1>10 DEF Crash
<1>11. CASE Restart
  BY <1>11 DEF Restart, Recover
<1>12. CASE UNCHANGED vars
  BY <1>12 DEF vars
<1> QED
  BY <1>2, <1>3, <1>4, <1>5, <1>6, <1>7, <1>8, <1>9, <1>10, <1>11, <1>12, StepCases

(* Runs stay numbered, and none that survives is one nobody waits for. *)
LEMMA StepRunsNumbered == ASSUME EngineIInv, [Next]_vars PROVE RunsNumbered'
<1>1. /\ runs \in Nat /\ runs' \in {runs, runs + 1}
      /\ \A s \in DOMAIN ran : ran[s] \in Nat /\ ran[s] <= runs /\ (InTool => ran[s] < runs)
      /\ \A c \in loose \cup late :
           /\ c[2] \in Nat /\ c[2] <= runs /\ \A s \in DOMAIN ran : ran[s] # c[2]
           /\ pc = "tool" \/ (pc = "record" /\ job.why # "failed") => c[2] < runs
  <2>1. \A c \in loose \cup late : c[2] \in Nat
    BY ItemTypes DEF EngineIInv, Books, Bounded, RunsTyped, StoreTyped, Cells
  <2>2. runs \in Nat /\ \A s \in DOMAIN ran : ran[s] \in Nat
    BY ItemTypes, SurvivingRuns DEF EngineIInv, Books, Bounded, RunsTyped, HandlerTyped
  <2>3. RunsNumbered
    BY DEF EngineIInv, Books, Numbered
  <2> QED BY <2>1, <2>2, <2>3, LooseRuns DEF RunsNumbered
<1>2. /\ InTool' => runs' = runs + 1 \/ InTool
      /\ pc' = "tool" \/ (pc' = "record" /\ job'.why # "failed") =>
           runs' = runs + 1 \/ pc = "tool" \/ (pc = "record" /\ job.why # "failed")
  BY LooseRuns
<1>3. ASSUME NEW s \in DOMAIN ran' PROVE ran'[s] <= runs' /\ (InTool' => ran'[s] < runs')
  <2>1. CASE s \in DOMAIN ran /\ ran'[s] = ran[s]
    BY <1>1, <1>2, <2>1
  <2>2. CASE FinishStep /\ pc' = "idle" /\ ran'[s] = runs
    BY <1>1, <2>2 DEF InTool
  <2> QED BY <1>3, <2>1, <2>2, RanValues
<1>4. ASSUME NEW c \in loose' \cup late'
      PROVE  /\ c[2] <= runs' /\ \A s \in DOMAIN ran' : ran'[s] # c[2]
             /\ pc' = "tool" \/ (pc' = "record" /\ job'.why # "failed") => c[2] < runs'
  <2>1. CASE c = Run /\ pc = "tool" /\ (pc' = "idle" \/ (pc' = "record" /\ job'.why = "failed"))
    <3>1. c[2] = runs /\ InTool
      BY <2>1 DEF Run, InTool
    <3>2. \A s \in DOMAIN ran' : s \in DOMAIN ran /\ ran'[s] = ran[s]
      BY <2>1, RanValues DEF FinishStep
    <3> QED BY <1>1, <2>1, <3>1, <3>2
  <2>2. CASE c \in loose \cup late
    <3>1. c[2] <= runs' /\ (pc' = "tool" \/ (pc' = "record" /\ job'.why # "failed") => c[2] < runs')
      BY <1>1, <1>2, <2>2
    <3>2. ASSUME FinishStep, pc' = "idle", ran' # ran PROVE c[2] < runs
      <4>1. pc = "record" /\ job.why = "ok"
        BY <3>2 DEF FinishStep, Compensate
      <4> QED BY <1>1, <2>2, <4>1
    <3>3. ASSUME NEW s \in DOMAIN ran' PROVE ran'[s] # c[2]
      <4>1. CASE ran' = ran
        BY <1>1, <2>2, <3>3, <4>1
      <4>2. CASE ran' # ran
        BY <1>1, <2>2, <3>2, <3>3, <4>2, RanValues
      <4> QED BY <4>1, <4>2
    <3> QED BY <3>1, <3>3
  <2> QED BY <1>4, <2>1, <2>2, LooseRuns
<1> QED BY <1>3, <1>4 DEF RunsNumbered

(* An effect is new when it is performed, and its undo action is in hand   *)
(* or lost.                                                                *)
LEMMA EffectsPerformed ==
  ASSUME EngineIInv, ToolActs \/ LooseActs
  PROVE  \E c, x :
           /\ c \in Cells
           /\ x = [step |-> c[1], run |-> c[2], n |-> Cardinality(made) + 1]
           /\ \/ ToolActs /\ c = Run /\ InTool /\ todo' = Append(todo, x) /\ orphaned' = orphaned
              \/ LooseActs /\ c \in loose /\ todo' = todo /\ orphaned' = orphaned \cup {x}
           /\ world' = world \cup {x} /\ made' = made \cup {x} /\ Cardinality(made) < MaxEffects
           /\ UNCHANGED <<ran, entries, staged, status, up, loose, pc, job, disk, sent, runs, crashes,
                          failed, late>>
<1> USE DEF memory, handler, outside, history
<1>1. CASE ToolActs
  <2>1. InTool
    BY <1>1 DEF ToolActs, InTool
  <2> DEFINE x == Item(Cardinality(made) + 1)
  <2>2. Run \in Cells /\ x = [step |-> Run[1], run |-> Run[2], n |-> Cardinality(made) + 1]
    BY <2>1, RunTyped DEF Item
  <2>3. /\ todo' = Append(todo, x) /\ world' = world \cup {x} /\ made' = made \cup {x}
        /\ Cardinality(made) < MaxEffects /\ orphaned' = orphaned
        /\ UNCHANGED <<ran, entries, staged, status, up, loose, pc, job, disk, sent, runs, crashes,
                       failed, late>>
    BY <1>1 DEF ToolActs
  <2> HIDE DEF x
  <2> QED BY <1>1, <2>1, <2>2, <2>3
<1>2. CASE LooseActs
  <2>1. loose \subseteq Cells
    BY DEF EngineIInv, Books, Bounded, RunsTyped, StoreTyped
  <2> QED BY <1>2, <2>1 DEF LooseActs
<1> QED BY <1>1, <1>2

(* No other step performs an effect. *)
LEMMA NonePerformed ==
  ASSUME EngineIInv, [Next]_vars
  PROVE  ToolActs \/ LooseActs \/ (made' = made /\ world' \subseteq world)
<1> USE DEF memory, handler, disk, outside, history
<1>1. ASSUME NEW why, NEW target, Turns(why, target) PROVE made' = made /\ world' \subseteq world
  BY <1>1 DEF Turns
<1>2. CASE Begin \/ Begun \/ (Execute /\ pc' = "tool") \/ ToolWrites \/ LooseWrites \/ LooseEnds
  BY <1>2 DEF Begin, Begun, Execute, ToolWrites, LooseWrites, LooseEnds
<1>3. CASE ToolReturns \/ RecordUndo \/ Undo \/ UndoFails \/ Restore \/ Discard
  BY <1>3 DEF ToolReturns, RecordUndo, Undo, UndoFails, Restore, Discard
<1>4. CASE (FinishStep /\ pc' = "idle") \/ (DiscardFails /\ pc' = "idle")
  BY <1>4 DEF FinishStep, DiscardFails
<1>5. CASE Commit \/ Committed \/ CancelCommit \/ Dispatch
  BY <1>5 DEF Commit, Committed, CancelCommit, Dispatch
<1>6. CASE Cancel
  BY <1>6 DEF Cancel, Dropped, CancelTool, CancelUndo, CancelStorage, CancelFlush
<1>7. CASE Crash \/ Restart \/ UNCHANGED vars
  BY <1>7 DEF Crash, Restart, vars
<1> QED BY <1>1, <1>2, <1>3, <1>4, <1>5, <1>6, <1>7, StepCases

(* Effects stay numbered. *)
LEMMA StepEffectsNumbered == ASSUME EngineIInv, [Next]_vars PROVE EffectsNumbered'
<1>1. EffectsNumbered /\ runs \in Nat /\ made \subseteq Items
  BY ItemTypes DEF EngineIInv, Books, Bounded, RunsTyped, HandlerTyped, EffectsTyped, Numbered
<1>2. \A x \in made : x.run <= runs'
  <2>1. \A x \in made : x.run <= runs /\ x.run \in Nat
    BY <1>1, ItemTypes DEF EffectsNumbered
  <2> QED BY <1>1, <2>1, LooseRuns
<1>3. CASE made' = made
  BY <1>1, <1>2, <1>3 DEF EffectsNumbered
<1>4. CASE made' # made
  <2>1. PICK c, x :
          /\ c \in Cells
          /\ x = [step |-> c[1], run |-> c[2], n |-> Cardinality(made) + 1]
          /\ made' = made \cup {x} /\ Cardinality(made) < MaxEffects /\ runs' = runs
          /\ (c = Run \/ c \in loose)
    BY <1>4, NonePerformed, EffectsPerformed
  <2>2. /\ Cardinality(made) \in Nat /\ Cardinality(made') = Cardinality(made) + 1
        /\ \A y \in made : y \in Items /\ y.n < x.n
    BY <2>1, Performs
  <2>3. x.run <= runs /\ x.n = Cardinality(made) + 1
    <3>1. c[2] <= runs
      BY <1>1, <2>1 DEF EngineIInv, Books, Numbered, RunsNumbered, Run
    <3> QED BY <2>1, <3>1
  <2>4. \A y \in made : y.n <= Cardinality(made) /\ y.n \in Nat
    BY <1>1, ItemTypes DEF EffectsNumbered
  <2>5. \A y \in made' : y.run <= runs' /\ y.n <= Cardinality(made')
    BY <1>2, <2>1, <2>2, <2>3, <2>4
  <2>6. \A y, z \in made' : y.n = z.n => y = z
    <3>1. ASSUME NEW y \in made PROVE y.n # x.n
      BY <2>2, <2>3, <2>4, <3>1
    <3>2. \A y, z \in made : y.n = z.n => y = z
      BY <1>1 DEF EffectsNumbered
    <3> QED BY <2>1, <3>1, <3>2
  <2> QED BY <2>5, <2>6 DEF EffectsNumbered
<1> QED BY <1>3, <1>4

(* An undo action is recorded or lost, never both. *)
LEMMA StepRecordedOrLost == ASSUME EngineIInv, [Next]_vars PROVE logs' \cap orphaned' = {}
<1> USE DEF memory, handler, disk, outside, history
<1>1. /\ logs \cap orphaned = {} /\ ToSet(<<>>) = {} /\ logs \subseteq made
      /\ todo \in Seq(Items) /\ (pc = "idle" => todo = <<>>)
      /\ InTool => \A x \in ToSet(todo) : x \notin logs \cup orphaned
  BY QueueEmpty
  DEF EngineIInv, Books, Bounded, QueuesTyped, EffectsTyped, Numbered, LedgerInv, InHand
<1>2. ASSUME NEW why, NEW target, Turns(why, target) PROVE logs' \cap orphaned' = {}
  BY <1>1, <1>2 DEF Turns
<1>3. CASE ToolActs \/ LooseActs
  <2>1. PICK c, x :
          /\ c \in Cells
          /\ x = [step |-> c[1], run |-> c[2], n |-> Cardinality(made) + 1]
          /\ made' = made \cup {x} /\ Cardinality(made) < MaxEffects
          /\ orphaned' \in {orphaned, orphaned \cup {x}} /\ logs' = logs
    BY <1>3, EffectsPerformed
  <2>2. x \notin made
    BY <2>1, Performs
  <2> QED BY <1>1, <2>1, <2>2
<1>4. CASE RecordUndo
  <2>1. todo # <<>> /\ logs' = logs \cup {Head(todo)} /\ UNCHANGED orphaned /\ InTool
    BY <1>4 DEF RecordUndo, InTool
  <2>2. Head(todo) \in ToSet(todo)
    BY <1>1, <2>1, QueueShrinks
  <2> QED BY <1>1, <2>1, <2>2
<1>5. CASE Begin \/ Begun \/ (Execute /\ pc' = "tool") \/ ToolWrites \/ ToolReturns \/ LooseWrites
           \/ LooseEnds
  BY <1>1, <1>5 DEF Begin, Begun, Execute, ToolWrites, ToolReturns, LooseWrites, LooseEnds
<1>6. CASE Undo \/ UndoFails \/ Restore \/ Discard
  BY <1>1, <1>6 DEF Undo, UndoFails, Restore, Discard
<1>7. CASE (FinishStep /\ pc' = "idle") \/ (DiscardFails /\ pc' = "idle")
  BY <1>1, <1>7 DEF FinishStep, DiscardFails
<1>8. CASE Commit \/ Committed \/ CancelCommit \/ Dispatch
  BY <1>1, <1>8 DEF Commit, Committed, CancelCommit, Dispatch
<1>9. CASE Cancel
  <2>1. CASE CancelTool
    BY <1>1, <2>1 DEF CancelTool, InTool
  <2>2. CASE CancelUndo \/ CancelStorage \/ CancelFlush
    BY <1>1, <2>2 DEF CancelUndo, CancelStorage, CancelFlush
  <2> QED BY <1>9, <2>1, <2>2 DEF Cancel
<1>10. CASE Crash
  BY <1>1, <1>10 DEF Crash, InTool
<1>11. CASE Restart \/ UNCHANGED vars
  BY <1>1, <1>11 DEF Restart, vars
<1> QED
  BY <1>2, <1>3, <1>4, <1>5, <1>6, <1>7, <1>8, <1>9, <1>10, <1>11, StepCases

(* Nothing happens before begin has answered. *)
LEMMA StepBlank == ASSUME EngineIInv, [Next]_vars PROVE Blank'
<1> USE DEF memory, handler, disk, outside, history
<1>1. /\ record \in {"unborn", "open", "closed", "committed"} /\ Blank
      /\ record = "unborn" => status = "none" /\ pc = "idle" /\ loose = {}
      /\ pc = "begin" => status = "none" /\ record = "open" /\ up
  BY DEF EngineIInv, LifeInv, Typed, HandlersAgree, DiskAgrees, Untouched, Books
<1>2. CASE record = "unborn" \/ pc = "begin"
  <2>1. /\ ran = <<>> /\ entries = <<>> /\ staged = <<>> /\ status = "none"
        /\ data = {} /\ saved = <<>> /\ late = {} /\ made = {} /\ loose = {} /\ pc \in {"idle", "begin"}
    BY <1>1, <1>2 DEF Blank
  <2>2. CASE Begin
    BY <2>1, <2>2 DEF Begin, Blank
  <2>3. CASE Begun
    BY <1>1, <2>1, <2>3 DEF Begun, Blank
  <2>4. CASE Crash \/ UNCHANGED vars
    BY <2>1, <2>4 DEF Crash, vars, Blank
  <2>5. CASE Restart
    <3>1. record = "unborn" /\ UNCHANGED handler
      BY <1>1, <1>2, <2>5 DEF Restart
    <3> QED BY <2>1, <2>5, <3>1 DEF Restart, Blank
  <2>6. ~(Execute \/ ToolWrites \/ ToolActs \/ ToolReturns \/ LooseWrites \/ LooseActs \/ LooseEnds
          \/ RecordUndo \/ FinishStep)
    BY <2>1 DEF Execute, ToolWrites, ToolActs, ToolReturns, LooseWrites, LooseActs, LooseEnds,
                RecordUndo, FinishStep, Ready
  <2>7. ~(Undo \/ UndoFails \/ Restore \/ Discard \/ DiscardFails)
    BY <2>1 DEF Undo, UndoFails, Restore, Discard, DiscardFails, Rewinding, Aborting
  <2>8. ~(Commit \/ Dispatch \/ Committed \/ Cancel \/ CancelCommit)
    BY <2>1 DEF Commit, Dispatch, Committed, Cancel, CancelCommit, HasClient, Ready
  <2>9. ~ \E why, target : Turns(why, target)
    BY <2>1 DEF Turns, Alive, Ready, InTool, Unwinding
  <2> QED BY <2>2, <2>3, <2>4, <2>5, <2>6, <2>7, <2>8, <2>9, StepCases
<1>3. CASE ~(record = "unborn" \/ pc = "begin")
  <2> SUFFICES record' # "unborn" /\ pc' # "begin"
    BY DEF Blank
  <2>1. ASSUME NEW why, NEW target, Turns(why, target) PROVE record' # "unborn" /\ pc' # "begin"
    BY <1>3, <2>1, Turned DEF Turns
  <2>2. CASE Begin \/ Begun \/ (Execute /\ pc' = "tool") \/ ToolWrites \/ ToolActs \/ ToolReturns
             \/ LooseWrites \/ LooseActs \/ LooseEnds \/ RecordUndo \/ (FinishStep /\ pc' = "idle")
    BY <1>3, <2>2 DEF Begin, Begun, Execute, ToolWrites, ToolActs, ToolReturns, LooseWrites, LooseActs,
                      LooseEnds, RecordUndo, FinishStep
  <2>3. CASE Undo \/ UndoFails \/ Restore \/ Discard \/ (DiscardFails /\ pc' = "idle")
    BY <1>3, <2>3 DEF Undo, UndoFails, Restore, Discard, DiscardFails
  <2>4. CASE Commit \/ Dispatch \/ Committed \/ CancelCommit
    BY <1>3, <2>4 DEF Commit, Dispatch, Committed, CancelCommit
  <2>5. CASE Cancel
    BY <1>3, <2>5 DEF Cancel, Dropped, CancelTool, CancelUndo, CancelStorage, CancelFlush
  <2>6. CASE Crash \/ Restart \/ UNCHANGED vars
    BY <1>3, <2>6 DEF Crash, Restart, Recover, vars
  <2> QED BY <2>1, <2>2, <2>3, <2>4, <2>5, <2>6, StepCases
<1> QED BY <1>2, <1>3

(* The surviving runs after a step that succeeds, and after a rewind. *)
LEMMA RunSurvives ==
  ASSUME EngineIInv, ran' = Append(ran, runs)
  PROVE  step' = step + 1 /\ Writes(ran') = Writes(ran) \cup {Run}
<1>1. ran \in Seq(RunNumbers) /\ Len(ran) \in Nat /\ DOMAIN ran = 1 .. Len(ran) /\ step = Len(ran) + 1
  BY SurvivingRuns DEF EngineIInv, Books, Bounded, RunsTyped, RanTyped
<1>2. /\ Len(ran') = Len(ran) + 1 /\ DOMAIN ran' = 1 .. Len(ran) + 1
      /\ ran'[Len(ran) + 1] = runs /\ \A s \in 1 .. Len(ran) : ran'[s] = ran[s]
  BY <1>1
<1>3. 1 .. Len(ran) + 1 = 1 .. Len(ran) \cup {Len(ran) + 1}
  BY <1>1
<1>4. Writes(ran') = {<<s, ran'[s]>> : s \in 1 .. Len(ran)} \cup {<<Len(ran) + 1, ran'[Len(ran) + 1]>>}
  BY <1>2, <1>3 DEF Writes
<1>5. {<<s, ran'[s]>> : s \in 1 .. Len(ran)} = {<<s, ran[s]>> : s \in 1 .. Len(ran)}
  BY <1>2
<1> QED BY <1>1, <1>2, <1>4, <1>5 DEF Writes, Run, step

(* Truncating the steps leaves the writes of those before the target. *)
LEMMA RunsRewound ==
  ASSUME EngineIInv, NEW t \in Nat, t <= step, ran' = SubSeq(ran, 1, t - 1)
  PROVE  /\ step' = (IF t = 0 THEN 1 ELSE t) /\ Len(ran') \in Nat /\ step' = Len(ran') + 1
         /\ Writes(ran') = {w \in Writes(ran) : w[1] < t}
<1>1. ran \in Seq(RunNumbers) /\ Len(ran) \in Nat /\ DOMAIN ran = 1 .. Len(ran) /\ step = Len(ran) + 1
  BY SurvivingRuns DEF EngineIInv, Books, Bounded, RunsTyped, RanTyped
<1>2. \A w \in Writes(ran) : w[1] \in 1 .. Len(ran) /\ w = <<w[1], ran[w[1]]>>
  BY SurvivingRuns DEF EngineIInv, Books
<1>3. \A s \in 1 .. Len(ran) : <<s, ran[s]>> \in Writes(ran)
  BY SurvivingRuns DEF EngineIInv, Books
<1>4. CASE t = 0
  <2>1. ran' = <<>>
    BY <1>1, <1>4
  <2>2. Writes(ran') = {} /\ Len(ran') = 0
    BY <2>1 DEF Writes
  <2>3. {w \in Writes(ran) : w[1] < t} = {}
    BY <1>1, <1>2, <1>4
  <2> QED BY <1>4, <2>2, <2>3 DEF step
<1>5. CASE t # 0
  <2>1. 1 \in 1 .. Len(ran) + 1 /\ t - 1 \in 0 .. Len(ran)
    BY <1>1, <1>5
  <2>2. /\ Len(ran') = t - 1 /\ DOMAIN ran' = 1 .. t - 1 /\ \A s \in 1 .. t - 1 : ran'[s] = ran[s]
    BY <1>1, <2>1
  <2>3. Writes(ran') = {<<s, ran[s]>> : s \in 1 .. t - 1}
    BY <2>2 DEF Writes
  <2>4. ASSUME NEW s \in 1 .. t - 1 PROVE <<s, ran[s]>> \in Writes(ran) /\ <<s, ran[s]>>[1] < t
    BY <1>1, <1>3, <2>1
  <2>5. ASSUME NEW w \in Writes(ran), w[1] < t PROVE w \in {<<s, ran[s]>> : s \in 1 .. t - 1}
    <3>1. w[1] \in 1 .. t - 1
      BY <1>1, <1>2, <2>1, <2>5
    <3> QED BY <1>2, <3>1
  <2> QED BY <1>1, <1>5, <2>1, <2>2, <2>3, <2>4, <2>5 DEF step
<1> QED BY <1>4, <1>5

(* After these steps no handler has the transaction in hand as alive.      *)
LEMMA LetsGo ==
  ASSUME EngineIInv,
         \/ Begin \/ Discard \/ (DiscardFails /\ pc' = "idle") \/ Commit \/ Dispatch \/ Committed
         \/ Cancel \/ CancelCommit \/ Crash \/ Restart
  PROVE  ~Alive' /\ ~Ready' /\ ~InTool' /\ ~Unwinding'
<1> USE DEF memory, handler, disk, outside, history, Alive, Ready, InTool, Unwinding
<1>1. /\ pc = "undo" => status \in {"none", "ROLLING_BACK"}
      /\ pc = "tool" => status = "EXECUTING"
      /\ pc = "flush" => status = "COMMITTING"
      /\ ~up => pc = "idle" /\ status = "none"
      /\ record = "unborn" => status = "none"
  BY DEF EngineIInv, LifeInv, HandlersAgree, DiskAgrees
<1>2. CASE Begin \/ Discard \/ Commit \/ Dispatch \/ Committed \/ CancelCommit \/ Crash
  BY <1>1, <1>2 DEF Begin, Discard, Commit, Dispatch, Committed, CancelCommit, Crash
<1>3. CASE DiscardFails /\ pc' = "idle"
  <2>1. pc = "undo" /\ status' \in {status, "none", "ROLLING_BACK"}
    BY <1>3 DEF DiscardFails, Aborting, Compensate
  <2> QED BY <1>1, <1>3, <2>1
<1>4. CASE Cancel
  BY <1>1, <1>4 DEF Cancel, Dropped, HasClient
<1>5. CASE Restart
  BY <1>1, <1>5 DEF Restart, Recover
<1> QED BY <1>2, <1>3, <1>4, <1>5

(* The store stays that of the surviving runs, and can be restored to each *)
(* step.                                                                   *)
LEMMA StepRestorable == ASSUME EngineIInv, [Next]_vars PROVE Restorable'
<1> USE DEF memory, handler, disk, outside, history
<1>1. /\ Restorable /\ Len(ran) \in Nat /\ step = Len(ran) + 1 /\ step \in Nat
      /\ \A w \in Writes(ran) : w[1] \in Nat /\ w[1] < step
      /\ \A c \in loose \cup late : c \notin Writes(ran)
      /\ DOMAIN saved \subseteq 0 .. MaxStep
  <2>1. /\ Len(ran) \in Nat /\ step = Len(ran) + 1 /\ DOMAIN ran = 1 .. Len(ran)
        /\ \A w \in Writes(ran) : w[1] \in 1 .. Len(ran) /\ w[2] = ran[w[1]] /\ w[1] < step
    BY SurvivingRuns DEF EngineIInv, Books
  <2>2. \A c \in loose \cup late : \A s \in DOMAIN ran : ran[s] # c[2]
    BY DEF EngineIInv, Books, Numbered, RunsNumbered
  <2>3. Restorable /\ DOMAIN saved \subseteq 0 .. MaxStep
    BY DEF EngineIInv, Books, Bounded, RunsTyped, StoreTyped
  <2> QED BY <2>1, <2>2, <2>3
<1>2. ASSUME NEW why, NEW target, Turns(why, target) PROVE Restorable'
  <2>1. /\ UNCHANGED <<ran, data, saved, late>> /\ job'.target = target /\ target \in 0 .. step
        /\ ~Ready' /\ ~InTool' /\ Alive
    BY <1>2, Turned DEF Turns
  <2>2. step' = step
    BY <2>1 DEF step
  <2> QED BY <1>1, <2>1, <2>2 DEF Restorable
<1>3. CASE Begun
  <2>1. pc' = "idle" /\ UNCHANGED <<ran, data, late>> /\ ran = <<>> /\ data = {} /\ saved = <<>>
        /\ ~InTool' /\ ~Unwinding' /\ status = "none"
    BY <1>3 DEF Begun, EngineIInv, Books, Blank, InTool, Unwinding, LifeInv, HandlersAgree
  <2>2. CASE saved' = Snapshot(0)
    <3>1. Writes(ran') = {} /\ step' = 1 /\ Len(ran') = 0
      BY <2>1 DEF Writes, step
    <3>2. DOMAIN saved' = {0} /\ saved'[0] = {}
      BY <2>1, <2>2 DEF Snapshot
    <3> QED BY <2>1, <3>1, <3>2 DEF Restorable
  <2>3. CASE ~Alive'
    BY <2>1, <2>3 DEF Restorable, Alive
  <2> QED BY <1>3, <2>1, <2>2, <2>3 DEF Begun, Alive, Ready
<1>4. CASE Execute /\ pc' = "tool"
  <2>1. /\ Ready /\ UNCHANGED <<ran, data, late>> /\ saved' = Snapshot(step)
        /\ ~Ready' /\ ~Unwinding'
    BY <1>4 DEF Execute, Compensate, Ready, Unwinding
  <2>2. step' = step /\ Run' = <<step, runs'>>
    BY <2>1 DEF step, Run
  <2>3. data \ late = Writes(ran)
    BY <1>1, <2>1 DEF Restorable
  <2>4. /\ DOMAIN saved' = DOMAIN saved \cup {step} /\ saved'[step] = data
        /\ \A s \in DOMAIN saved \ {step} : saved'[s] = saved[s]
    BY <2>1 DEF Snapshot
  <2>5. data \ late = {w \in Writes(ran) : w[1] < step}
    BY <1>1, <2>3
  <2> QED BY <1>1, <2>1, <2>2, <2>3, <2>4, <2>5 DEF Restorable, Alive
<1>5. CASE ToolWrites
  <2>1. /\ InTool /\ data' = data \cup {Run} /\ UNCHANGED <<ran, runs, saved, late, pc, job, status>>
    BY <1>5 DEF ToolWrites, InTool
  <2>2. step' = step /\ Run' = Run /\ ~Ready' /\ ~Unwinding' /\ Alive
    BY <2>1 DEF step, Run, InTool, Ready, Unwinding, Alive
  <2> QED BY <1>1, <2>1, <2>2 DEF Restorable
<1>6. CASE ToolReturns \/ ToolActs
  <2>1. /\ InTool /\ UNCHANGED <<ran, runs, saved, late, data>> /\ pc' \in {"tool", "record"}
    BY <1>6 DEF ToolReturns, ToolActs, InTool
  <2>2. step' = step /\ Run' = Run /\ ~Ready' /\ ~Unwinding' /\ Alive
    BY <2>1 DEF step, Run, InTool, Ready, Unwinding, Alive
  <2> QED BY <1>1, <2>1, <2>2 DEF Restorable
<1>7. CASE LooseWrites
  <2>1. PICK c \in loose : data' = data \cup {c} /\ late' = late \cup {c}
    BY <1>7 DEF LooseWrites
  <2>2. UNCHANGED <<ran, runs, saved, pc, job, status>>
    BY <1>7 DEF LooseWrites
  <2>3. /\ step' = step /\ Run' = Run /\ (Ready' <=> Ready) /\ (InTool' <=> InTool)
        /\ (Unwinding' <=> Unwinding) /\ (Alive' <=> Alive)
    BY <2>2 DEF step, Run, Ready, InTool, Unwinding, Alive
  <2>4. c \notin Writes(ran)
    BY <1>1
  <2> QED BY <1>1, <2>1, <2>2, <2>3, <2>4 DEF Restorable
<1>8. CASE LooseActs \/ LooseEnds \/ RecordUndo \/ Undo \/ UndoFails \/ UNCHANGED vars
  <2>1. UNCHANGED <<ran, runs, saved, late, data, pc, status>>
    BY <1>8 DEF LooseActs, LooseEnds, RecordUndo, Undo, UndoFails, vars
  <2>2. job'.target = job.target /\ job'.why = job.why
    BY <1>8, TargetTyped DEF LooseActs, LooseEnds, RecordUndo, Undo, UndoFails, vars
  <2>3. /\ step' = step /\ Run' = Run /\ (Ready' <=> Ready) /\ (InTool' <=> InTool)
        /\ (Unwinding' <=> Unwinding) /\ (Alive' <=> Alive)
    BY <2>1, <2>2 DEF step, Run, Ready, InTool, Unwinding, Alive
  <2> QED BY <1>1, <2>1, <2>2, <2>3 DEF Restorable
<1>9. CASE FinishStep /\ pc' = "idle"
  <2>1. /\ data' = data \cup {Run} /\ ran' = Append(ran, runs) /\ UNCHANGED <<saved, late>>
        /\ pc = "record" /\ job.why = "ok" /\ ~InTool' /\ ~Unwinding'
    BY <1>9 DEF FinishStep, Compensate, InTool, Unwinding
  <2>2. step' = step + 1 /\ Writes(ran') = Writes(ran) \cup {Run} /\ Len(ran') = step
    BY <1>1, <2>1, RunSurvives DEF step
  <2>3. InTool /\ Alive /\ Run[1] = step /\ Run[2] = runs
    BY <2>1 DEF InTool, Alive, Run
  <2>4. Run \notin late
    <3>1. \A c \in late : c[2] < runs
      BY <2>1 DEF EngineIInv, Books, Numbered, RunsNumbered
    <3>2. runs \in Nat
      BY ItemTypes DEF EngineIInv, Books, Bounded, RunsTyped, HandlerTyped
    <3> QED BY <2>3, <3>1, <3>2
  <2>5. data' \ late' = Writes(ran')
    BY <1>1, <2>1, <2>2, <2>3, <2>4 DEF Restorable
  <2>6. DOMAIN saved' \subseteq 0 .. step' /\ 0 .. Len(ran') \subseteq DOMAIN saved'
    BY <1>1, <2>1, <2>2, <2>3 DEF Restorable
  <2>7. ASSUME NEW s \in DOMAIN saved' PROVE saved'[s] \ late' = {w \in Writes(ran') : w[1] < s}
    <3>1. s \in 0 .. step /\ ~(step < s)
      BY <1>1, <2>1, <2>3, <2>7 DEF Restorable
    <3>2. saved'[s] \ late' = {w \in Writes(ran) : w[1] < s}
      BY <1>1, <2>1, <2>3, <2>7 DEF Restorable
    <3> QED BY <2>2, <2>3, <3>1, <3>2
  <2> QED BY <2>1, <2>5, <2>6, <2>7 DEF Restorable
<1>10. CASE Restore
  <2> DEFINE t == job.target
  <2>1. /\ Unwinding /\ Alive /\ t \in DOMAIN saved /\ t \in Nat /\ t <= step
        /\ data' = saved[t] /\ late' = late /\ ran' = SubSeq(ran, 1, t - 1)
        /\ saved' = [s \in {u \in DOMAIN saved : u <= t} |-> saved[s]] /\ ~InTool' /\ ~Unwinding'
    BY <1>10, TargetTyped DEF Restore, Rewinding, Unwinding, Alive, InTool
  <2> HIDE DEF t
  <2>2. /\ step' = (IF t = 0 THEN 1 ELSE t) /\ Len(ran') \in Nat /\ step' = Len(ran') + 1
        /\ Writes(ran') = {w \in Writes(ran) : w[1] < t}
    BY <2>1, RunsRewound
  <2>3. data' \ late' = Writes(ran')
    BY <1>1, <2>1, <2>2 DEF Restorable
  <2>4. DOMAIN saved' = {u \in DOMAIN saved : u <= t} /\ \A s \in DOMAIN saved' : saved'[s] = saved[s]
    BY <2>1
  <2>5. DOMAIN saved' \subseteq 0 .. step' /\ 0 .. Len(ran') \subseteq DOMAIN saved'
    BY <1>1, <2>1, <2>2, <2>4 DEF Restorable
  <2>6. ASSUME NEW s \in DOMAIN saved' PROVE saved'[s] \ late' = {w \in Writes(ran') : w[1] < s}
    <3>1. s \in Nat /\ s <= t /\ saved'[s] = saved[s] /\ s \in DOMAIN saved
      BY <1>1, <2>4, <2>6
    <3>2. saved'[s] \ late' = {w \in Writes(ran) : w[1] < s}
      BY <1>1, <2>1, <3>1 DEF Restorable
    <3> QED BY <1>1, <2>1, <2>2, <3>1, <3>2
  <2> QED BY <2>1, <2>3, <2>5, <2>6 DEF Restorable
<1>11. ASSUME ~Alive' PROVE Restorable'
  BY <1>11 DEF Restorable, Alive
<1> QED
  BY <1>2, <1>3, <1>4, <1>5, <1>6, <1>7, <1>8, <1>9, <1>10, <1>11, LetsGo, StepCases

(* While a handler is under way, and while the transaction is active, the  *)
(* process is up.                                                          *)
LEMMA UpWhileAlive == ASSUME EngineIInv PROVE Alive \/ pc # "idle" => up
BY DEF EngineIInv, LifeInv, HandlersAgree, Alive, Ready, InTool, Unwinding

(* compensate_from keeps the books of the ledger. *)
LEMMA TurnsLedger == ASSUME EngineIInv, NEW why, NEW target, Turns(why, target), logs' \cap orphaned' = {}
                     PROVE  LedgerInv'
<1>1. /\ UNCHANGED <<ran, up, logs, world, made, failed>> /\ orphaned' = orphaned \cup ToSet(todo)
      /\ target \in 0 .. step /\ (why \in Rewinds \/ target = 0) /\ (Unwinding => target = 0) /\ Alive
      /\ why # "recover" /\ (~InTool => todo = <<>>)
  BY DEF Turns
<1>2. /\ ToSet(entries') = {x \in ToSet(entries) : x.step < target}
      /\ ToSet(todo') = {x \in ToSet(entries) : x.step >= target}
      /\ Chained' /\ Along(todo', ByKey)
      /\ pc' = "undo" /\ job'.why = why /\ job'.target = target
      /\ target \in Nat /\ Unwinding' /\ Alive' /\ ~Ready' /\ ~InTool'
  BY Turned
<1>3. /\ ToSet(entries) \subseteq logs /\ logs \subseteq made /\ world \ Exempt \subseteq ToSet(entries) \cup ToSet(todo)
      /\ \A x \in ToSet(entries) : x.step \in Nat /\ (~Unwinding => Cell(x) \in Writes(ran) \cup {Run})
  <2>1. \A x \in ToSet(entries) : x.step \in Nat
    BY QueueItems, ItemTypes DEF EngineIInv, Books, Bounded, QueuesTyped
  <2>2. /\ ToSet(entries) \subseteq logs /\ world \ Exempt \subseteq ToSet(entries) \cup ToSet(todo)
        /\ (~Unwinding => \A x \in ToSet(entries) : Cell(x) \in Current)
    BY <1>1 DEF EngineIInv, Books, LedgerInv, Alive
  <2>3. Current \subseteq Writes(ran) \cup {Run}
    BY DEF Current
  <2>4. logs \subseteq made
    BY DEF EngineIInv, Books, Bounded, EffectsTyped
  <2> QED BY <2>1, <2>2, <2>3, <2>4
<1>4. up'
  BY <1>1, UpWhileAlive
<1>5. \A x \in ToSet(todo') : x \in made' /\ x \notin orphaned' /\ x.step >= target
  BY <1>1, <1>2, <1>3
<1>6. \A x \in ToSet(entries') : x.step < target /\ Cell(x) \in Writes(ran) /\ x \in logs
  <2> SUFFICES ASSUME NEW x \in ToSet(entries), x.step < target
               PROVE  Cell(x) \in Writes(ran) /\ x \in logs
    BY <1>2
  <2>1. x \in logs /\ x.step \in Nat
    BY <1>3
  <2>2. ~Unwinding
    BY <1>1, <2>1
  <2>3. step \in Nat
    BY TargetTyped
  <2>4. Cell(x) # Run
    BY <1>1, <2>1, <2>3 DEF Cell, Run
  <2> QED BY <1>3, <2>1, <2>2, <2>4
<1>7. world' \ Exempt' \subseteq ToSet(entries') \cup ToSet(todo')
  <2>1. ASSUME NEW x \in world, x \notin Exempt' PROVE x \in ToSet(entries)
    BY <1>1, <1>3, <2>1 DEF Exempt
  <2>2. \A x \in ToSet(entries) : x.step < target \/ x.step >= target
    BY <1>2, <1>3
  <2> QED BY <1>1, <1>2, <2>1, <2>2
<1>8. Writes(ran)' = Writes(ran)
  BY <1>1 DEF Writes
<1>9. ToSet(entries') \subseteq logs'
  BY <1>1, <1>6
<1> QED BY <1>1, <1>2, <1>4, <1>5, <1>6, <1>7, <1>8, <1>9 DEF LedgerInv, Rewinds

(* Every step keeps the books of the ledger. *)
LEMMA StepLedger == ASSUME EngineIInv, [Next]_vars, logs' \cap orphaned' = {} PROVE LedgerInv'
<1> USE DEF memory, handler, disk, outside, history
<1>1. /\ LedgerInv /\ logs \subseteq made /\ orphaned \subseteq made /\ logs \cap orphaned = {}
      /\ entries \in Seq(Items) /\ todo \in Seq(Items)
      /\ Alive \/ pc # "idle" => up
      /\ pc = "idle" => todo = <<>>
      /\ ToSet(<<>>) = {} /\ \A R : Along(<<>>, R)
  BY UpWhileAlive, QueueEmpty
  DEF EngineIInv, Books, Bounded, QueuesTyped, EffectsTyped, Numbered, InHand
<1>2. ASSUME NEW why, NEW target, Turns(why, target) PROVE LedgerInv'
  BY <1>2, TurnsLedger
<1>3. CASE Begun
  <2>1. /\ entries' = <<>> /\ todo' = <<>> /\ world' = {} /\ up' /\ pc' = "idle"
        /\ status' \in {status, "ACTIVE"}
    BY <1>1, <1>3 DEF Begun, EngineIInv, Books, Bounded, EffectsTyped, Blank, InHand
  <2> QED BY <1>1, <2>1 DEF LedgerInv, Chained, Alive, InTool, Unwinding
<1>4. CASE Execute /\ pc' = "tool"
  <2>1. /\ UNCHANGED <<ran, entries, todo, up, logs, world, made, orphaned, failed>> /\ Ready /\ todo = <<>>
        /\ ~Ready' /\ InTool' /\ ~Unwinding'
    BY <1>1, <1>4 DEF Execute, Compensate, Ready, InTool, Unwinding
  <2>2. Current' = Writes(ran) /\ Current = Writes(ran)
    BY <1>4, <2>1 DEF Current, Writes, Ready
  <2> QED BY <1>1, <1>4, <2>1, <2>2 DEF LedgerInv, Chained, Alive, Exempt
<1>5. CASE ToolWrites \/ LooseWrites \/ LooseEnds \/ UNCHANGED vars
  <2>1. UNCHANGED <<ran, runs, entries, todo, up, status, pc, job, logs, world, made, orphaned, failed>>
    BY <1>5 DEF ToolWrites, LooseWrites, LooseEnds, vars
  <2>2. /\ Current' = Current /\ Run' = Run /\ Writes(ran)' = Writes(ran) /\ Exempt' = Exempt
        /\ Chained' = Chained /\ Ready' = Ready /\ InTool' = InTool /\ Unwinding' = Unwinding /\ Alive' = Alive
    BY <2>1, Zenon DEF Current, Writes, Run, step, Exempt, Chained, Ready, InTool, Unwinding, Alive
  <2> QED BY <1>1, <2>1, <2>2 DEF LedgerInv
<1>6. CASE ToolActs
  <2>1. PICK x :
          /\ x = [step |-> Run[1], run |-> Run[2], n |-> Cardinality(made) + 1]
          /\ InTool /\ todo' = Append(todo, x) /\ world' = world \cup {x} /\ made' = made \cup {x}
          /\ Cardinality(made) < MaxEffects /\ pc = "tool"
          /\ UNCHANGED <<ran, runs, entries, up, status, pc, job, logs, orphaned, failed>>
    BY <1>6 DEF ToolActs, InTool, Run, Item
  <2>2. /\ x \in Items /\ Cell(x) = Run /\ x \notin made /\ x.step = step
        /\ \A y \in made : y \in Items /\ y.n < x.n
    BY <2>1, RunTyped, Performs DEF Run
  <2>3. /\ todo \in Seq(Items) /\ todo' = Append(todo, x) /\ ToSet(todo') = ToSet(todo) \cup {x}
        /\ \A R : Along(todo, R) /\ (\A y \in ToSet(todo) : <<y, x>> \in R) => Along(todo', R)
    <3>1. todo \in Seq(Items) /\ todo' = Append(todo, x)
      BY <1>1, <2>1
    <3> QED BY <3>1, QueueGrows, Zenon
  <2>4. /\ \A y \in ToSet(todo) : y \in made /\ Cell(y) = Run /\ y \notin logs \cup orphaned
        /\ \A y \in ToSet(entries) : y \in logs /\ Cell(y) \in Writes(ran)
        /\ Chained /\ Alive
    BY <1>1, <2>1 DEF LedgerInv, Alive, Current
  <2>5. \A y \in ToSet(entries) \cup ToSet(todo) : <<y, x>> \in NewerLater
    <3>1. \A y \in ToSet(entries) \cup ToSet(todo) : y \in made /\ y.step \in Nat
      BY <1>1, <2>2, <2>4, ItemTypes
    <3>2. \A y \in ToSet(entries) \cup ToSet(todo) : y.step <= step
      <4>1. \A y \in ToSet(entries) : y.step < step
        BY <2>4, SurvivingRuns DEF Cell, EngineIInv, Books
      <4>2. \A y \in ToSet(todo) : y.step = step
        BY <2>4 DEF Cell, Run
      <4> QED BY <3>1, <4>1, <4>2, TargetTyped
    <3> QED BY <2>2, <3>1, <3>2 DEF NewerLater
  <2>6. Along(todo', NewerLater)
    BY <2>3, <2>4, <2>5 DEF Chained
  <2>7. Chained'
    BY <2>1, <2>3, <2>4, <2>5, <2>6 DEF Chained
  <2>8. /\ Current' = Current /\ Run' = Run /\ ~Ready' /\ ~Unwinding' /\ pc' # "undo" /\ up'
    BY <1>1, <2>1 DEF Current, Writes, Run, step, Ready, Unwinding
  <2>9. x \notin logs' \cup orphaned'
    BY <1>1, <2>1, <2>2
  <2> QED BY <1>1, <2>1, <2>2, <2>3, <2>4, <2>7, <2>8, <2>9 DEF LedgerInv, Exempt
<1>7. CASE LooseActs
  <2>1. PICK x : /\ world' = world \cup {x} /\ made' = made \cup {x} /\ orphaned' = orphaned \cup {x}
                 /\ x \notin made
                 /\ UNCHANGED <<ran, runs, entries, todo, up, status, pc, job, logs, failed>>
    <3>1. PICK c, x :
            /\ c \in Cells
            /\ x = [step |-> c[1], run |-> c[2], n |-> Cardinality(made) + 1]
            /\ world' = world \cup {x} /\ made' = made \cup {x} /\ orphaned' = orphaned \cup {x}
            /\ Cardinality(made) < MaxEffects
      <4>1. loose \subseteq Cells
        BY DEF EngineIInv, Books, Bounded, RunsTyped, StoreTyped
      <4> QED BY <1>7, <4>1 DEF LooseActs
    <3>2. x \notin made
      BY <3>1, Performs
    <3> QED BY <1>7, <3>1, <3>2 DEF LooseActs
  <2>2. /\ Current' = Current /\ Run' = Run /\ Writes(ran)' = Writes(ran) /\ Exempt' = Exempt \cup {x}
        /\ Chained' = Chained /\ Ready' = Ready /\ InTool' = InTool /\ Unwinding' = Unwinding /\ Alive' = Alive
    <3>1. Exempt' = Exempt \cup {x}
      BY <2>1 DEF Exempt
    <3> QED BY <2>1, <3>1, Zenon DEF Current, Writes, Run, step, Chained, Ready, InTool, Unwinding, Alive
  <2>3. \A y \in made : y # x
    BY <2>1
  <2> QED BY <1>1, <2>1, <2>2, <2>3 DEF LedgerInv
<1>8. CASE ToolReturns
  <2>1. /\ UNCHANGED <<ran, runs, entries, todo, up, status, logs, world, made, orphaned, failed>>
        /\ InTool /\ InTool' /\ ~Ready' /\ ~Unwinding' /\ pc = "tool" /\ pc' = "record"
    BY <1>8 DEF ToolReturns, InTool, Ready, Unwinding
  <2>2. Run' = Run /\ Current \subseteq Current' /\ Exempt' = Exempt /\ Chained' = Chained /\ Alive /\ up
    BY <1>1, <2>1 DEF Current, Writes, Run, step, Exempt, Chained, Alive
  <2> QED BY <1>1, <2>1, <2>2 DEF LedgerInv
<1>9. CASE RecordUndo
  <2> DEFINE x == Head(todo)
  <2>1. /\ todo # <<>> /\ todo' = Tail(todo) /\ entries' = Append(entries, x) /\ logs' = logs \cup {x}
        /\ UNCHANGED <<ran, runs, up, status, pc, job, world, made, orphaned, failed>>
        /\ InTool /\ pc = "record"
    BY <1>9 DEF RecordUndo, InTool
  <2>2. todo \in Seq(Items) /\ entries \in Seq(Items)
    BY <1>1
  <2>3. /\ ToSet(todo) = {x} \cup ToSet(todo')
        /\ \A R : Along(todo, R) => Along(todo', R) /\ \A y \in ToSet(todo') : <<x, y>> \in R
    BY <2>1, <2>2, QueueShrinks, Zenon
  <2> HIDE DEF x
  <2>4. /\ ToSet(entries') = ToSet(entries) \cup {x}
        /\ \A R : Along(entries, R) /\ (\A y \in ToSet(entries) : <<y, x>> \in R) => Along(entries', R)
    BY <2>1, <2>2, QueueGrows, Zenon
  <2>5. /\ Chained /\ Alive /\ up /\ ToSet(entries) \subseteq logs
        /\ \A y \in ToSet(entries) : Cell(y) \in Current
        /\ \A y \in ToSet(todo) : y \in made /\ Cell(y) = Run /\ y \notin logs \cup orphaned
        /\ Run \in Current
    BY <1>1, <2>1 DEF LedgerInv, Alive, Current
  <2>6. \A y \in ToSet(todo') : <<x, y>> \in NewerLater /\ y # x
    BY <2>2, <2>3, <2>5, Orders DEF Chained
  <2>7. Chained'
    <3>1. Along(todo', NewerLater) /\ Along(entries', NewerLater)
      BY <2>3, <2>4, <2>5 DEF Chained
    <3> QED BY <2>3, <2>4, <2>5, <2>6, <3>1 DEF Chained
  <2>8. /\ Current' = Current /\ Run' = Run /\ ~Ready' /\ ~Unwinding' /\ pc' # "undo" /\ up'
    BY <2>1, <2>5 DEF Current, Writes, Run, step, Ready, Unwinding
  <2>9. \A y \in ToSet(todo') : y \notin logs' \cup orphaned'
    BY <2>1, <2>3, <2>5, <2>6
  <2> QED BY <1>1, <2>1, <2>3, <2>4, <2>5, <2>7, <2>8, <2>9 DEF LedgerInv, Exempt
<1>10. CASE FinishStep /\ pc' = "idle"
  <2>1. /\ UNCHANGED <<entries, todo, up, logs, world, made, orphaned, failed>> /\ todo = <<>>
        /\ pc = "record" /\ InTool /\ ran' = Append(ran, runs)
        /\ ~InTool' /\ ~Unwinding'
    BY <1>10 DEF FinishStep, Compensate, InTool, Unwinding
  <2>2. Current' = Current
    <3>1. Current = Writes(ran) \cup {Run} /\ Current' = Writes(ran')
      BY <1>10, <2>1 DEF Current, Writes
    <3> QED BY <2>1, <3>1, RunSurvives
  <2>3. Exempt' = Exempt /\ Chained' = Chained /\ Alive /\ up
    BY <1>1, <2>1 DEF Exempt, Chained, Alive
  <2> QED BY <1>1, <1>10, <2>1, <2>2, <2>3 DEF LedgerInv
<1>11. CASE Undo \/ UndoFails
  <2> DEFINE x == Last(todo)
  <2>1. /\ todo # <<>> /\ todo' = Front(todo) /\ pc = "undo"
        /\ UNCHANGED <<ran, entries, up, status, pc, made, orphaned>>
        /\ (logs' = logs \/ logs' = logs \ {x})
        /\ \/ world' = world \ {x} /\ failed' = failed \ {x}
           \/ world' = world /\ failed' = failed \cup ({x} \cap world)
    BY <1>11 DEF Undo, UndoFails
  <2>2. todo \in Seq(Items) /\ job'.why = job.why /\ job'.target = job.target
    BY <1>1, <1>11, TargetTyped DEF Undo, UndoFails
  <2>3. /\ ToSet(todo) = ToSet(todo') \cup {x}
        /\ \A R : Along(todo, R) => Along(todo', R)
    BY <2>1, <2>2, QueueLoses, Zenon
  <2> HIDE DEF x
  <2>4. /\ Writes(ran)' = Writes(ran) /\ ~Ready' /\ ~InTool' /\ Unwinding' = Unwinding
        /\ (Alive' <=> Unwinding) /\ (Alive <=> Unwinding)
    BY <2>1, <2>2, Zenon DEF Writes, Ready, InTool, Unwinding, Alive
  <2>5. ASSUME Unwinding PROVE Chained' /\ ToSet(entries') \subseteq logs'
    <3>1. Chained /\ ToSet(entries) \subseteq logs
      BY <1>1, <2>4, <2>5 DEF LedgerInv
    <3>2. x \notin ToSet(entries)
      BY <1>1, <2>3, <3>1, Orders DEF Chained
    <3> QED BY <2>1, <2>3, <3>1, <3>2 DEF Chained
  <2>6. world' \ Exempt' \subseteq (world \ Exempt) \ {x}
    BY <2>1 DEF Exempt
  <2>7. /\ Along(todo, ByKey) /\ \A y \in ToSet(todo) : y \in made /\ y \notin orphaned
        /\ job.why \in {"error", "retry", "manual"} \/ job.target = 0
        /\ world \ Exempt \subseteq ToSet(entries) \cup ToSet(todo)
    BY <1>1, <2>1 DEF LedgerInv
  <2> QED BY <1>1, <2>1, <2>2, <2>3, <2>4, <2>5, <2>6, <2>7 DEF LedgerInv
<1>12. CASE Restore
  <2> DEFINE t == job.target
  <2>1. /\ UNCHANGED <<entries, todo, up, logs, world, made, orphaned, failed>> /\ todo = <<>>
        /\ Unwinding /\ t \in Nat /\ t <= step /\ ran' = SubSeq(ran, 1, t - 1)
        /\ pc' = "idle" /\ ~InTool' /\ ~Unwinding'
    BY <1>12, TargetTyped DEF Restore, Rewinding, Unwinding, InTool
  <2> HIDE DEF t
  <2>2. Current' = {w \in Writes(ran) : w[1] < t}
    BY <2>1, RunsRewound DEF Current, Writes
  <2>3. \A x \in ToSet(entries) : x.step < t /\ Cell(x) \in Writes(ran)
    BY <1>1, <2>1 DEF LedgerInv, t
  <2>4. \A x \in ToSet(entries) : Cell(x) \in Current'
    BY <2>2, <2>3 DEF Cell
  <2>5. Exempt' = Exempt /\ Chained' = Chained /\ Alive /\ up
    BY <1>1, <2>1 DEF Exempt, Chained, Alive
  <2> QED BY <1>1, <2>1, <2>4, <2>5 DEF LedgerInv
<1>13. ASSUME ~Alive', pc' # "undo", up' \/ entries' = <<>> PROVE LedgerInv'
  BY <1>13 DEF LedgerInv, Alive
<1>14. CASE Begin \/ Discard \/ Commit \/ Dispatch \/ Committed \/ Cancel \/ CancelCommit \/ Crash
  <2>1. pc' # "undo" /\ (up' \/ entries' = <<>>)
    BY <1>1, <1>14
    DEF Begin, Discard, Aborting, Commit, Dispatch, Committed, Cancel, Dropped, HasClient, CancelCommit,
        Crash, Ready, Alive
  <2> QED BY <1>13, <1>14, <2>1, LetsGo
<1>15. CASE DiscardFails /\ pc' = "idle"
  <2>1. up' \/ entries' = <<>>
    <3>1. CASE job.why = "recover"
      BY <1>1, <1>15, <3>1 DEF DiscardFails, Aborting, LedgerInv
    <3>2. CASE job.why # "recover"
      BY <1>15, <3>2, Zenon DEF DiscardFails, Compensate
    <3> QED BY <3>1, <3>2
  <2> QED BY <1>13, <1>15, <2>1, LetsGo
<1>16. CASE Restart
  <2>1. /\ UNCHANGED <<entries, logs, world, made, orphaned, failed>> /\ up' /\ ~up /\ pc = "idle"
        /\ entries = <<>>
    BY <1>1, <1>16 DEF Restart, LedgerInv
  <2>2. CASE record = "open"
    <3>1. /\ pc' = "undo" /\ job'.why = "recover" /\ job'.target = 0 /\ todo' = Sorted(logs)
          /\ Exempt' = Exempt
      BY <1>16, <2>1, <2>2 DEF Restart, Recover, Exempt
    <3>2. ToSet(todo') = logs /\ Along(todo', ByKey)
      BY <3>1, LogsSorted
    <3>3. world \ Exempt \subseteq logs
      BY <2>1, <2>2 DEF EngineIInv, Recoverable, InContext, Exempt
    <3> QED BY <1>1, <1>16, <2>1, <3>1, <3>2, <3>3, LetsGo DEF LedgerInv
  <2>3. CASE record # "open"
    BY <1>1, <1>13, <1>16, <2>1, <2>3, LetsGo DEF Restart
  <2> QED BY <2>2, <2>3
<1> QED
  BY <1>2, <1>3, <1>4, <1>5, <1>6, <1>7, <1>8, <1>9, <1>10, <1>11, <1>12, <1>14, <1>15, <1>16, StepCases

(* A transaction that is alive is open. *)
LEMMA AliveOpen == ASSUME EngineIInv PROVE Alive \/ pc = "undo" => record = "open"
BY DEF EngineIInv, LifeInv, Typed, HandlersAgree, DiskAgrees, Alive, Ready, InTool, Unwinding

(* An effect that is not in force any more is not of a surviving run, also *)
(* while effects are undone.                                               *)
LEMMA StepUndone == ASSUME EngineIInv, [Next]_vars PROVE Undone'
<1> USE DEF memory, handler, disk, outside, history
<1> DEFINE Gone == made \ (world \cup Exempt)
<1>1. /\ step \in Nat /\ runs \in Nat /\ \A x \in made : x \in Items /\ x.step \in Nat /\ x.run <= runs
      /\ \A x \in made : x.run \in Nat
      /\ Ready \/ InTool => \A x \in Gone : Cell(x) \notin Writes(ran) /\ (InTool => Cell(x) # Run)
      /\ Unwinding => \A x \in Gone : x.step < job.target => Cell(x) \notin Writes(ran)
  <2>1. \A x \in made : x \in Items /\ x.step \in Nat /\ x.run \in Nat /\ x.run <= runs
    BY ItemTypes DEF EngineIInv, Books, Bounded, EffectsTyped, Numbered, EffectsNumbered
  <2>2. Undone /\ runs \in Nat
    BY ItemTypes DEF EngineIInv, Books, Bounded, RunsTyped, HandlerTyped, Reversed
  <2> QED BY <2>1, <2>2, TargetTyped DEF Undone
<1> HIDE DEF Gone
<1>2. ASSUME NEW why, NEW target, Turns(why, target) PROVE Undone'
  <2>1. /\ Gone' \subseteq Gone /\ ran' = ran /\ (Unwinding => target = 0) /\ Alive
    BY <1>2 DEF Turns, Gone, Exempt
  <2>2. job'.target = target /\ ~Ready' /\ ~InTool'
    BY <1>2, Turned
  <2>3. \A x \in Gone : x.step \in Nat
    BY <1>1 DEF Gone
  <2>4. ASSUME NEW x \in Gone', x.step < target PROVE Cell(x) \notin Writes(ran')
    <3>1. ~Unwinding
      BY <2>1, <2>3, <2>4
    <3> QED BY <1>1, <2>1, <2>4, <3>1 DEF Alive
  <2> QED BY <2>2, <2>4 DEF Undone, Gone
<1>3. CASE Begun
  <2>1. made' = {}
    BY <1>3 DEF Begun, EngineIInv, Books, Blank
  <2> QED BY <2>1 DEF Undone
<1>4. CASE Execute /\ pc' = "tool"
  <2>1. /\ Gone' = Gone /\ ran' = ran /\ runs' = runs + 1 /\ Ready /\ ~Unwinding'
    BY <1>4 DEF Execute, Gone, Exempt, Unwinding
  <2>2. \A x \in Gone : x.run # runs'
    BY <1>1, <2>1 DEF Gone
  <2>3. \A x \in Gone' : Cell(x) \notin Writes(ran') /\ Cell(x) # Run'
    BY <1>1, <2>1, <2>2 DEF Cell, Run
  <2> QED BY <2>1, <2>3 DEF Undone, Gone
<1>5. CASE ToolActs \/ LooseActs
  <2>1. PICK x : /\ made' = made \cup {x} /\ world' = world \cup {x}
                 /\ orphaned \subseteq orphaned' /\ failed' = failed
                 /\ UNCHANGED <<ran, runs, status, pc, job>>
    BY <1>5, EffectsPerformed
  <2>2. Gone' \subseteq Gone
    BY <2>1 DEF Gone, Exempt
  <2>3. /\ Writes(ran)' = Writes(ran) /\ Run' = Run /\ (Ready' <=> Ready) /\ (InTool' <=> InTool)
        /\ (Unwinding' <=> Unwinding)
    BY <2>1 DEF Writes, Run, step, Ready, InTool, Unwinding
  <2> QED BY <1>1, <2>1, <2>2, <2>3 DEF Undone, Gone
<1>6. CASE ToolWrites \/ LooseWrites \/ LooseEnds \/ UNCHANGED vars \/ ToolReturns \/ RecordUndo
  <2>1. UNCHANGED <<ran, runs, status, made, world, orphaned, failed>>
    BY <1>6 DEF ToolWrites, LooseWrites, LooseEnds, vars, ToolReturns, RecordUndo
  <2>2. UNCHANGED <<pc, job>> \/ (pc \in {"tool", "record"} /\ pc' \in {"tool", "record"})
    BY <1>6 DEF ToolWrites, LooseWrites, LooseEnds, vars, ToolReturns, RecordUndo
  <2>3. Writes(ran)' = Writes(ran) /\ Run' = Run /\ Gone' = Gone
    BY <2>1 DEF Writes, Run, step, Gone, Exempt
  <2>4. /\ (Ready' <=> Ready) /\ (InTool' <=> InTool) /\ (Unwinding' <=> Unwinding)
        /\ (Unwinding => job' = job)
    BY <2>1, <2>2 DEF Ready, InTool, Unwinding
  <2> QED BY <1>1, <2>3, <2>4 DEF Undone, Gone
<1>7. CASE FinishStep /\ pc' = "idle"
  <2>1. /\ Gone' = Gone /\ InTool /\ ran' = Append(ran, runs) /\ ~InTool' /\ ~Unwinding'
    BY <1>7 DEF FinishStep, Compensate, InTool, Unwinding, Gone, Exempt
  <2>2. Writes(ran') = Writes(ran) \cup {Run}
    BY <2>1, RunSurvives
  <2> QED BY <1>1, <2>1, <2>2 DEF Undone, Gone
<1>8. CASE Undo \/ UndoFails
  <2> DEFINE z == Last(todo)
  <2>1. /\ todo # <<>> /\ pc = "undo" /\ UNCHANGED <<ran, status, pc, made, orphaned>>
        /\ \/ world' = world \ {z} /\ failed' = failed \ {z}
           \/ world' = world /\ failed \subseteq failed'
    BY <1>8 DEF Undo, UndoFails
  <2>2. todo \in Seq(Items) /\ job'.why = job.why /\ job'.target = job.target
    BY <1>8, TargetTyped DEF Undo, UndoFails, EngineIInv, Books, Bounded, QueuesTyped
  <2>3. z \in ToSet(todo)
    <3>1. ToSet(todo) = ToSet(Front(todo)) \cup {Last(todo)}
      BY <2>1, <2>2, QueueLoses, Zenon
    <3> QED BY <3>1
  <2> HIDE DEF z
  <2>4. Unwinding => z.step >= job.target /\ job.target \in Nat
    BY <2>3, TargetTyped DEF EngineIInv, Books, LedgerInv
  <2>5. Gone' \subseteq Gone \cup {z}
    BY <2>1 DEF Gone, Exempt
  <2>6. Writes(ran)' = Writes(ran) /\ ~Ready' /\ ~InTool' /\ (Unwinding' <=> Unwinding)
    BY <2>1, <2>2 DEF Writes, Ready, InTool, Unwinding
  <2>7. ASSUME Unwinding, NEW x \in Gone', x.step < job.target PROVE Cell(x) \notin Writes(ran)
    <3>1. x \in made
      BY <2>1, <2>7 DEF Gone
    <3>2. x # z
      BY <1>1, <2>4, <2>7, <3>1
    <3> QED BY <1>1, <2>5, <2>7, <3>2
  <2> QED BY <2>2, <2>6, <2>7 DEF Undone, Gone
<1>9. CASE Restore
  <2> DEFINE t == job.target
  <2>1. /\ Gone' = Gone /\ Unwinding /\ t \in Nat /\ t <= step /\ ran' = SubSeq(ran, 1, t - 1)
        /\ pc' = "idle" /\ ~InTool' /\ ~Unwinding'
    BY <1>9, TargetTyped DEF Restore, Rewinding, Unwinding, InTool, Gone, Exempt
  <2> HIDE DEF t
  <2>2. Writes(ran') = {w \in Writes(ran) : w[1] < t}
    BY <2>1, RunsRewound
  <2>3. ASSUME NEW x \in Gone PROVE Cell(x) \notin Writes(ran')
    BY <1>1, <2>1, <2>2, <2>3 DEF Cell, t
  <2> QED BY <2>1, <2>3 DEF Undone, Gone
<1>10. ASSUME ~Alive' PROVE Undone'
  BY <1>10 DEF Undone, Alive
<1> QED
  BY <1>2, <1>3, <1>4, <1>5, <1>6, <1>7, <1>8, <1>9, <1>10, LetsGo, StepCases

(* When an abort has gone through the ledger, or recovery through the      *)
(* records, nothing that can be undone is left.                            *)
LEMMA AllUndone == ASSUME EngineIInv, Aborting PROVE world \subseteq Exempt
<1>1. /\ world \ Exempt \subseteq ToSet(entries) \cup ToSet(todo) /\ ToSet(<<>>) = {} /\ todo = <<>>
      /\ pc = "undo" /\ entries \in Seq(Items)
      /\ job.why = "recover" => entries = <<>>
      /\ job.why # "recover" => job.target = 0 /\ \A x \in ToSet(entries) : x.step < job.target
  BY QueueEmpty DEF Aborting, EngineIInv, Books, Bounded, QueuesTyped, LedgerInv, Unwinding
<1>2. \A x \in ToSet(entries) : x.step \in Nat
  BY <1>1, QueueItems, ItemTypes
<1>3. ToSet(entries) = {}
  BY <1>1, <1>2
<1> QED BY <1>1, <1>3

(* The effects of a commit are those of the writes it publishes. *)
LEMMA CommitSettles == ASSUME EngineIInv, Commit PROVE Settled'
<1> USE DEF memory, handler, disk, outside, history
<1>1. /\ Ready /\ published' = data /\ record' = "committed"
      /\ UNCHANGED <<ran, loose, late, world, made, orphaned, failed>>
  BY DEF Commit
<1>2. data \ late = Writes(ran)
  BY <1>1 DEF EngineIInv, Books, Restorable
<1>3. /\ todo = <<>> /\ ToSet(<<>>) = {} /\ Current = Writes(ran)
      /\ \A x \in ToSet(entries) : Cell(x) \in Current
      /\ world \ Exempt \subseteq ToSet(entries) \cup ToSet(todo)
      /\ \A x \in made \ (world \cup Exempt) : Cell(x) \notin Writes(ran)
  BY <1>1, QueueEmpty DEF EngineIInv, Books, InHand, LedgerInv, Alive, Ready, Reversed, Undone, Current
<1>4. \A x \in made \ Exempt : x \in world <=> Cell(x) \in data \ late
  BY <1>2, <1>3
<1>5. data \cap loose \subseteq late
  <2>1. \A w \in Writes(ran) : w \notin loose
    <3>1. \A w \in Writes(ran) : w[1] \in DOMAIN ran /\ w[2] = ran[w[1]]
      BY SurvivingRuns DEF EngineIInv, Books
    <3> QED BY <3>1 DEF EngineIInv, Books, Numbered, RunsNumbered
  <2> QED BY <1>2, <2>1
<1>6. Exempt' = Exempt
  BY <1>1 DEF Exempt
<1> QED BY <1>1, <1>4, <1>5, <1>6 DEF Settled

(* A closed transaction has no effect left in force that could be undone,  *)
(* and a committed one exactly those of what it published.                 *)
LEMMA StepSettled == ASSUME EngineIInv, [Next]_vars PROVE Settled'
<1> USE DEF memory, handler, disk, outside, history
<1>1. Settled /\ made \subseteq Items /\ (Alive \/ pc = "undo" => record = "open")
  BY AliveOpen DEF EngineIInv, Books, Bounded, EffectsTyped, Reversed
<1>2. ASSUME record' = "open" \/ record' = "unborn" PROVE Settled'
  BY <1>2 DEF Settled
<1>3. ASSUME UNCHANGED <<record, published, world, made, orphaned, failed, late>>, loose' \subseteq loose
      PROVE  Settled'
  BY <1>1, <1>3 DEF Settled, Exempt
<1>4. ASSUME NEW why, NEW target, Turns(why, target) PROVE Settled'
  BY <1>1, <1>2, <1>4 DEF Turns
<1>5. CASE Begin \/ Begun \/ (Execute /\ pc' = "tool") \/ ToolWrites \/ ToolActs \/ ToolReturns
           \/ RecordUndo \/ (FinishStep /\ pc' = "idle")
  <2>1. pc = "begin" => record = "open"
    BY DEF EngineIInv, LifeInv, HandlersAgree
  <2>2. record' = "open"
    BY <1>1, <1>5, <2>1
    DEF Begin, Begun, Execute, ToolWrites, ToolActs, ToolReturns, RecordUndo, FinishStep, Alive, InTool
  <2> QED BY <1>2, <2>2
<1>6. CASE Undo \/ UndoFails \/ Restore \/ (DiscardFails /\ pc' = "idle") \/ CancelCommit
  <2>1. record' = "open"
    BY <1>1, <1>6 DEF Undo, UndoFails, Restore, Rewinding, DiscardFails, Aborting, CancelCommit, Alive
  <2> QED BY <1>2, <2>1
<1>7. CASE LooseWrites
  <2>1. PICK c \in loose : late' = late \cup {c}
    BY <1>7 DEF LooseWrites
  <2>2. UNCHANGED <<record, published, loose, world, made, orphaned, failed>>
    BY <1>7 DEF LooseWrites
  <2>3. record = "committed" => published \ late' = published \ late
    BY <1>1, <2>1 DEF Settled
  <2> QED BY <1>1, <2>1, <2>2, <2>3 DEF Settled, Exempt
<1>8. CASE LooseActs
  <2>1. PICK c, x :
           /\ c \in Cells
           /\ x = [step |-> c[1], run |-> c[2], n |-> Cardinality(made) + 1]
           /\ world' = world \cup {x} /\ made' = made \cup {x} /\ orphaned' = orphaned \cup {x}
           /\ Cardinality(made) < MaxEffects
           /\ UNCHANGED <<record, published, loose, late, failed>>
    <3>1. loose \subseteq Cells
      BY DEF EngineIInv, Books, Bounded, RunsTyped, StoreTyped
    <3> QED BY <1>8, <3>1 DEF LooseActs
  <2>2. x \notin made
    BY <2>1, Performs
  <2>3. made' \ Exempt' = (made \ Exempt) \ {x} /\ Exempt' = Exempt \cup {x}
    BY <2>1 DEF Exempt
  <2> QED BY <1>1, <2>1, <2>2, <2>3 DEF Settled
<1>9. CASE Discard
  <2>1. CASE job.clean
    <3>1. record' = "closed" /\ UNCHANGED <<world, orphaned, failed>>
      BY <1>9, <2>1 DEF Discard
    <3>2. world \subseteq Exempt
      BY <1>9, AllUndone DEF Discard
    <3> QED BY <3>1, <3>2 DEF Settled, Exempt
  <2>2. CASE ~job.clean
    BY <1>1, <1>2, <1>9, <2>2 DEF Discard, Aborting
  <2> QED BY <2>1, <2>2
<1>10. CASE Commit
  BY <1>10, CommitSettles
<1>11. CASE LooseEnds \/ Dispatch \/ Committed \/ Restart \/ UNCHANGED vars
  BY <1>3, <1>11 DEF LooseEnds, Dispatch, Committed, Restart, vars
<1>12. CASE Cancel
  <2>1. UNCHANGED <<published, made, failed, late>>
    BY <1>12 DEF Cancel, Dropped
  <2>2. CASE CancelTool \/ CancelUndo
    <3>1. record' = "open"
      BY <1>1, <2>2 DEF CancelTool, CancelUndo, Alive, InTool
    <3> QED BY <1>2, <3>1
  <2>3. CASE CancelStorage
    <3>1. CASE Aborting /\ job.clean
      <4>1. record' = "closed" /\ UNCHANGED <<world, orphaned>>
        BY <2>3, <3>1 DEF CancelStorage, Rewinding, Aborting
      <4>2. world \subseteq Exempt
        BY <3>1, AllUndone
      <4> QED BY <2>1, <4>1, <4>2 DEF Settled, Exempt
    <3>2. CASE ~(Aborting /\ job.clean)
      BY <1>1, <1>2, <2>3, <3>2 DEF CancelStorage, Rewinding, Aborting
    <3> QED BY <3>1, <3>2
  <2>4. CASE CancelFlush
    BY <1>3, <2>1, <2>4 DEF CancelFlush
  <2> QED BY <1>12, <2>2, <2>3, <2>4 DEF Cancel
<1>13. CASE Crash
  <2>1. CASE pc \in {"tool", "record"}
    BY <1>1, <1>2, <1>13, <2>1 DEF Crash, Alive, InTool
  <2>2. CASE pc \notin {"tool", "record"}
    BY <1>3, <1>13, <2>2 DEF Crash
  <2> QED BY <2>1, <2>2
<1> QED
  BY <1>4, <1>5, <1>6, <1>7, <1>8, <1>9, <1>10, <1>11, <1>12, <1>13, StepCases

(* Of effects in force, the later is of no earlier step. *)
LEMMA StepStepsNumbered == ASSUME EngineIInv, [Next]_vars PROVE StepsNumbered'
<1> USE DEF memory, handler, disk, outside, history
<1>1. StepsNumbered /\ made \subseteq Items /\ world \subseteq made
  BY DEF EngineIInv, Books, Bounded, EffectsTyped, Reversed
<1>2. ASSUME world' \ Exempt' \subseteq world \ Exempt PROVE StepsNumbered'
  BY <1>1, <1>2 DEF StepsNumbered
<1>3. ASSUME world' \subseteq world, orphaned \subseteq orphaned', failed \subseteq failed'
      PROVE  StepsNumbered'
  BY <1>2, <1>3 DEF Exempt
<1>4. ASSUME NEW why, NEW target, Turns(why, target) PROVE StepsNumbered'
  BY <1>3, <1>4 DEF Turns
<1>5. CASE ToolActs
  <2>1. PICK x :
          /\ x = [step |-> Run[1], run |-> Run[2], n |-> Cardinality(made) + 1]
          /\ InTool /\ world' = world \cup {x} /\ made' = made \cup {x} /\ pc = "tool"
          /\ Cardinality(made) < MaxEffects /\ UNCHANGED <<orphaned, failed>>
    BY <1>5 DEF ToolActs, InTool, Run, Item
  <2>2. /\ x.step = step /\ x.n \in Nat
        /\ \A y \in made : y.n < x.n /\ y.n \in Nat /\ y.step \in Nat
    <3>1. x \in Items /\ x.step = step /\ \A y \in made : y \in Items /\ y.n < x.n
      BY <2>1, RunTyped, Performs DEF Run
    <3> QED BY <3>1, ItemTypes
  <2>3. \A y \in world \ Exempt : y.step <= step
    <3>1. /\ world \ Exempt \subseteq ToSet(entries) \cup ToSet(todo)
          /\ \A y \in ToSet(entries) : Cell(y) \in Writes(ran)
          /\ \A y \in ToSet(todo) : Cell(y) = Run
      BY <2>1 DEF EngineIInv, Books, LedgerInv, Alive, Current
    <3>2. \A y \in ToSet(entries) : y.step < step
      BY <3>1, SurvivingRuns DEF Cell, EngineIInv, Books
    <3>3. \A y \in ToSet(todo) : y.step = step
      BY <3>1 DEF Cell, Run
    <3> QED BY <1>1, <2>2, <3>1, <3>2, <3>3, TargetTyped
  <2>4. world' \ Exempt' \subseteq (world \ Exempt) \cup {x}
    BY <2>1 DEF Exempt
  <2>5. ASSUME NEW y \in (world \ Exempt) \cup {x}, NEW z \in (world \ Exempt) \cup {x}, y.n < z.n
        PROVE  y.step <= z.step
    <3>1. CASE y = x
      BY <1>1, <2>2, <2>5, <3>1
    <3>2. CASE y # x /\ z = x
      BY <2>2, <2>3, <2>5, <3>2
    <3>3. CASE y # x /\ z # x
      BY <1>1, <2>5, <3>3 DEF StepsNumbered
    <3> QED BY <3>1, <3>2, <3>3
  <2> QED BY <2>4, <2>5 DEF StepsNumbered
<1>6. CASE LooseActs
  <2>1. PICK x : world' = world \cup {x} /\ orphaned' = orphaned \cup {x} /\ failed' = failed
    BY <1>6 DEF LooseActs
  <2> QED BY <1>2, <2>1 DEF Exempt
<1>7. CASE Undo \/ UndoFails
  <2>1. world' \ Exempt' \subseteq world \ Exempt
    BY <1>7 DEF Undo, UndoFails, Exempt
  <2> QED BY <1>2, <2>1
<1>8. CASE Begin \/ Begun \/ (Execute /\ pc' = "tool") \/ ToolWrites \/ ToolReturns \/ LooseWrites
           \/ LooseEnds \/ RecordUndo \/ (FinishStep /\ pc' = "idle") \/ Restore
  BY <1>3, <1>8 DEF Begin, Begun, Execute, ToolWrites, ToolReturns, LooseWrites, LooseEnds, RecordUndo,
                    FinishStep, Restore
<1>9. CASE Discard \/ (DiscardFails /\ pc' = "idle") \/ Commit \/ Dispatch \/ Committed \/ CancelCommit
           \/ Restart \/ UNCHANGED vars
  BY <1>3, <1>9 DEF Discard, DiscardFails, Commit, Dispatch, Committed, CancelCommit, Restart, vars
<1>10. CASE Cancel
  BY <1>3, <1>10 DEF Cancel, Dropped, CancelTool, CancelUndo, CancelStorage, CancelFlush
<1>11. CASE Crash
  BY <1>3, <1>11 DEF Crash
<1> QED
  BY <1>4, <1>5, <1>6, <1>7, <1>8, <1>9, <1>10, <1>11, StepCases

(* What is staged stays of surviving runs, one effect of each step. *)
LEMMA StepStaging == ASSUME EngineIInv, [Next]_vars PROVE Staging'
<1> USE DEF memory, handler, disk, outside, history
<1>1. /\ Staging /\ staged \in Seq(Items) /\ step \in Nat
      /\ \A x \in Items : x.step \in Nat
  BY TargetTyped, ItemTypes DEF EngineIInv, Books, Bounded, QueuesTyped, Outgoing
<1>2. ASSUME NEW why, NEW target, Turns(why, target) PROVE Staging'
  <2>1. /\ Alive /\ Restaged /\ ran' = ran /\ target \in 0 .. step /\ (Unwinding => target = 0)
    BY <1>2 DEF Turns
  <2>2. /\ staged' \in Seq(Items) /\ Along(staged', NextStep)
        /\ ~Unwinding => \A x \in ToSet(staged') : Cell(x) \in Writes(ran) \/ Cell(x) = Run
    BY <2>1, Restages
  <2>3. job'.target = target /\ ~Ready' /\ ~InTool'
    BY <1>2, Turned
  <2>4. ASSUME NEW x \in ToSet(staged'), x.step < target PROVE Cell(x) \in Writes(ran')
    <3>1. x.step \in Nat
      BY <1>1, <2>2, QueueItems
    <3>2. ~Unwinding
      BY <2>1, <2>4, <3>1
    <3>3. Cell(x) # Run
      BY <1>1, <2>1, <2>4, <3>1 DEF Cell, Run
    <3> QED BY <2>1, <2>2, <3>2, <3>3
  <2> QED BY <2>2, <2>3, <2>4 DEF Staging
<1>3. CASE Begun
  <2>1. staged' = <<>>
    BY <1>3 DEF Begun, EngineIInv, Books, Blank
  <2> QED BY <2>1, QueueEmpty DEF Staging
<1>4. CASE \/ (Execute /\ pc' = "tool") \/ ToolWrites \/ ToolActs \/ ToolReturns \/ LooseWrites
           \/ LooseActs \/ LooseEnds \/ RecordUndo \/ Undo \/ UndoFails \/ UNCHANGED vars
  <2>1. UNCHANGED <<ran, staged>>
    BY <1>4 DEF Execute, ToolWrites, ToolActs, ToolReturns, LooseWrites, LooseActs, LooseEnds, RecordUndo,
                Undo, UndoFails, vars
  <2>2. /\ (Ready' \/ InTool') => (Ready \/ InTool)
        /\ Unwinding' => Unwinding /\ job'.target = job.target
    <3>1. CASE (Execute /\ pc' = "tool") \/ ToolReturns \/ ToolWrites \/ ToolActs \/ RecordUndo
      BY <3>1 DEF Execute, ToolReturns, ToolWrites, ToolActs, RecordUndo, Ready, InTool, Unwinding
    <3>2. CASE Undo \/ UndoFails
      <4>1. job'.why = job.why /\ job'.target = job.target
        BY <3>2, TargetTyped DEF Undo, UndoFails
      <4> QED BY <3>2, <4>1 DEF Undo, UndoFails, Ready, InTool, Unwinding
    <3>3. CASE LooseWrites \/ LooseActs \/ LooseEnds \/ UNCHANGED vars
      BY <3>3 DEF LooseWrites, LooseActs, LooseEnds, vars, Ready, InTool, Unwinding
    <3> QED BY <1>4, <3>1, <3>2, <3>3
  <2> QED BY <1>1, <2>1, <2>2 DEF Staging, Alive
<1>5. CASE FinishStep /\ pc' = "idle"
  <2>1. /\ pc = "record" /\ ran' = Append(ran, runs) /\ staged' \in Stagings
        /\ ~InTool' /\ ~Unwinding'
    BY <1>5 DEF FinishStep, Compensate, InTool, Unwinding
  <2>2. Alive /\ Restaged /\ ~Unwinding
    BY <2>1 DEF Alive, InTool, Unwinding, Restaged, Stagings
  <2>3. /\ Along(staged', NextStep)
        /\ \A x \in ToSet(staged') : Cell(x) \in Writes(ran) \/ Cell(x) = Run
    BY <2>2, Restages
  <2>4. Writes(ran') = Writes(ran) \cup {Run}
    BY <2>1, RunSurvives
  <2> QED BY <2>1, <2>3, <2>4 DEF Staging
<1>6. CASE Restore
  <2> DEFINE t == job.target
  <2>1. /\ Unwinding /\ Alive /\ t \in Nat /\ t <= step /\ ran' = SubSeq(ran, 1, t - 1)
        /\ staged' = Before(staged, t) /\ ~InTool' /\ ~Unwinding'
    BY <1>6, TargetTyped DEF Restore, Rewinding, Unwinding, Alive, InTool
  <2>2. /\ Along(staged, NextStep) /\ InStepOrder(staged)
        /\ \A x \in ToSet(staged) : x.step < t => Cell(x) \in Writes(ran)
    BY <1>1, <2>1, Orders DEF Staging
  <2> HIDE DEF t
  <2>3. Writes(ran') = {w \in Writes(ran) : w[1] < t}
    BY <2>1, RunsRewound
  <2>4. /\ ToSet(Before(staged, t)) = {x \in ToSet(staged) : x.step < t}
        /\ Along(Before(staged, t), NextStep)
    BY <1>1, <2>1, <2>2, QueueSplits
  <2>5. \A x \in ToSet(staged') : Cell(x) \in Writes(ran')
    BY <2>1, <2>2, <2>3, <2>4 DEF Cell
  <2>6. Along(staged', NextStep)
    BY <2>1, <2>4, Zenon
  <2> QED BY <2>1, <2>5, <2>6 DEF Staging
<1>7. ASSUME ~Alive' PROVE Staging'
  BY <1>7 DEF Staging, Alive
<1> QED BY <1>2, <1>3, <1>4, <1>5, <1>6, <1>7, LetsGo, StepCases

(* What is dispatched is of what the commit has published, in step order. *)
LEMMA StepSending == ASSUME EngineIInv, [Next]_vars PROVE Sending'
<1> USE DEF memory, handler, disk, outside, history
<1>1. /\ Sending /\ sent \in Seq(Items) /\ todo \in Seq(Items)
      /\ ToSet(<<>>) = {} /\ \A R : Along(<<>>, R)
  BY QueueEmpty DEF EngineIInv, Books, Bounded, QueuesTyped, Outgoing
<1>2. ASSUME sent # <<>> PROVE record' = "committed" /\ published' = published /\ record = "committed"
  <2>1. Len(sent) \in Nat \ {0} /\ sent[1] \in ToSet(sent)
    BY <1>1, <1>2, QueueItems
  <2>2. published # {} /\ record = "committed"
    BY <1>1, <1>2, <2>1 DEF Sending
  <2> QED BY <2>2, StepFinal DEF EngineIInv
<1>3. ASSUME sent' = sent
      PROVE  /\ sent' # <<>> => record' = "committed"
             /\ Along(sent', NextStep) /\ \A x \in ToSet(sent') : Cell(x) \in published'
  <2>1. CASE sent = <<>>
    BY <1>1, <1>3, <2>1
  <2>2. CASE sent # <<>>
    BY <1>1, <1>2, <1>3, <2>2 DEF Sending
  <2> QED BY <2>1, <2>2
<1>4. ASSUME sent' = sent, pc' # "flush" PROVE Sending'
  BY <1>3, <1>4 DEF Sending
<1>5. CASE Commit
  <2>1. /\ sent' = sent /\ todo' = staged /\ published' = data /\ Ready /\ Alive
    BY <1>5 DEF Commit, Alive
  <2>2. /\ data \ late = Writes(ran) /\ \A x \in ToSet(staged) : Cell(x) \in Writes(ran)
        /\ Along(staged, NextStep) /\ record = "open"
    BY <2>1, AliveOpen DEF EngineIInv, Books, Restorable, Outgoing, Staging
  <2>3. sent = <<>>
    BY <1>2, <2>2
  <2>4. ToSet(sent') = {}
    BY <1>1, <2>1, <2>3
  <2>5. Along(todo', NextStep) /\ \A x \in ToSet(todo') : Cell(x) \in published'
    BY <2>1, <2>2
  <2> QED BY <1>3, <2>1, <2>4, <2>5 DEF Sending
<1>6. ASSUME NEW x, pc = "flush", sent' = Append(sent, x), x \in ToSet(todo),
             \A y \in ToSet(sent) : <<y, x>> \in NextStep, UNCHANGED <<record, published>>
      PROVE  /\ sent' # <<>> => record' = "committed"
             /\ Along(sent', NextStep) /\ \A y \in ToSet(sent') : Cell(y) \in published'
             /\ ToSet(sent') = ToSet(sent) \cup {x}
  <2>1. record = "committed"
    BY <1>6 DEF EngineIInv, LifeInv, HandlersAgree
  <2>2. /\ ToSet(Append(sent, x)) = ToSet(sent) \cup {x}
        /\ Along(sent, NextStep) /\ (\A y \in ToSet(sent) : <<y, x>> \in NextStep)
             => Along(Append(sent, x), NextStep)
    BY <1>1, QueueGrows, Zenon
  <2>3. Along(sent, NextStep) /\ \A y \in ToSet(sent) \cup {x} : Cell(y) \in published
    BY <1>1, <1>6 DEF Sending
  <2>4. Along(sent', NextStep) /\ ToSet(sent') = ToSet(sent) \cup {x}
    BY <1>6, <2>2, <2>3, Zenon
  <2> QED BY <1>6, <2>1, <2>3, <2>4
<1>7. CASE Dispatch
  <2> DEFINE x == Head(todo)
  <2>1. /\ pc = "flush" /\ todo # <<>> /\ todo' = Tail(todo) /\ UNCHANGED <<record, published, pc>>
        /\ sent' \in {sent, Append(sent, x)}
    BY <1>7 DEF Dispatch, Deliveries
  <2>2. /\ ToSet(todo) = {x} \cup ToSet(todo')
        /\ \A R : Along(todo, R) => Along(todo', R) /\ \A y \in ToSet(todo') : <<x, y>> \in R
    BY <1>1, <2>1, QueueShrinks, Zenon
  <2> HIDE DEF x
  <2>3. /\ Along(todo, NextStep) /\ \A y \in ToSet(todo) : Cell(y) \in published
        /\ \A y \in ToSet(sent), z \in ToSet(todo) : <<y, z>> \in NextStep
    BY <1>1, <2>1 DEF Sending
  <2>4. /\ Along(todo', NextStep) /\ \A y \in ToSet(todo') : <<x, y>> \in NextStep
    BY <2>2, <2>3
  <2>5. CASE sent' = sent
    BY <1>3, <2>1, <2>2, <2>3, <2>4, <2>5 DEF Sending
  <2>6. CASE sent' = Append(sent, x)
    <3>1. /\ sent' # <<>> => record' = "committed"
          /\ Along(sent', NextStep) /\ \A y \in ToSet(sent') : Cell(y) \in published'
          /\ ToSet(sent') = ToSet(sent) \cup {x}
      BY <1>6, <2>1, <2>2, <2>3, <2>6
    <3> QED BY <2>1, <2>2, <2>3, <2>4, <3>1 DEF Sending
  <2> QED BY <2>1, <2>5, <2>6
<1>8. CASE Cancel
  <2>1. pc' = "idle"
    BY <1>8 DEF Cancel, Dropped
  <2>2. CASE sent' # sent
    <3>1. PICK i \in DOMAIN todo : sent' = Append(sent, todo[i]) /\ pc = "flush" /\ UNCHANGED record
      BY <1>8, <2>2 DEF Cancel, CancelTool, CancelUndo, CancelStorage, CancelFlush
    <3>2. UNCHANGED <<record, published>>
      BY <1>8, <3>1 DEF Cancel, Dropped
    <3>3. todo[i] \in ToSet(todo)
      BY <1>1, QueueItems
    <3>4. \A y \in ToSet(sent) : <<y, todo[i]>> \in NextStep
      BY <1>1, <3>1, <3>3 DEF Sending
    <3> QED BY <1>6, <2>1, <3>1, <3>2, <3>3, <3>4 DEF Sending
  <2> QED BY <1>4, <2>1, <2>2
<1>9. CASE LooseWrites \/ LooseActs \/ LooseEnds \/ UNCHANGED vars
  BY <1>1, <1>9 DEF LooseWrites, LooseActs, LooseEnds, vars, Sending
<1>10. ASSUME NEW why, NEW target, Turns(why, target) PROVE Sending'
  BY <1>4, <1>10, Turned DEF Turns
<1>11. CASE Begin \/ Begun \/ (Execute /\ pc' = "tool") \/ ToolWrites \/ ToolActs \/ ToolReturns
            \/ RecordUndo \/ (FinishStep /\ pc' = "idle")
  BY <1>4, <1>11 DEF Begin, Begun, Execute, ToolWrites, ToolActs, ToolReturns, RecordUndo, FinishStep
<1>12. CASE Undo \/ UndoFails \/ Restore \/ Discard \/ (DiscardFails /\ pc' = "idle")
  BY <1>4, <1>12 DEF Undo, UndoFails, Restore, Discard, DiscardFails
<1>13. CASE Committed \/ CancelCommit \/ Crash
  BY <1>4, <1>13 DEF Committed, CancelCommit, Crash, Ready
<1>14. CASE Restart
  <2>1. sent' = sent /\ pc' \in {pc, "undo"} /\ pc # "flush"
    BY <1>14 DEF Restart, Recover, EngineIInv, LifeInv, HandlersAgree
  <2> QED BY <1>4, <2>1
<1> QED
  BY <1>5, <1>7, <1>8, <1>9, <1>10, <1>11, <1>12, <1>13, <1>14, StepCases

(* The books are right at the beginning, and after every step. *)
LEMMA InitBooks == Init => Books
<1> SUFFICES ASSUME Init PROVE Books
  OBVIOUS
<1>1. /\ ran = <<>> /\ entries = <<>> /\ staged = <<>> /\ todo = <<>> /\ sent = <<>> /\ saved = <<>>
      /\ loose = {} /\ late = {} /\ data = {} /\ published = {} /\ logs = {} /\ world = {} /\ made = {}
      /\ orphaned = {} /\ failed = {} /\ runs = 0 /\ crashes = 0 /\ up
      /\ status = "none" /\ pc = "idle" /\ record = "unborn" /\ job = Idle
  BY DEF Init
<1>2. ~Ready /\ ~InTool /\ ~Unwinding /\ ~Alive
  BY <1>1 DEF Ready, InTool, Unwinding, Alive
<1>3. RanTyped
  <2>1. ran \in Seq(RunNumbers) /\ Len(ran) = 0
    BY <1>1
  <2> QED BY <2>1, ItemTypes DEF RanTyped
<1>4. StoreTyped
  <2>1. DOMAIN saved = {}
    BY <1>1
  <2> QED BY <1>1, <2>1 DEF StoreTyped
<1>5. HandlerTyped
  BY <1>1, <1>2, ItemTypes DEF HandlerTyped, Idle
<1>6. QueuesTyped
  BY <1>1 DEF QueuesTyped
<1>7. EffectsTyped
  BY <1>1, ItemTypes, FS_EmptySet DEF EffectsTyped
<1>8. Numbered
  BY <1>1 DEF Numbered, RunsNumbered, EffectsNumbered
<1>9. Blank /\ Restorable
  BY <1>1, <1>2 DEF Blank, Restorable
<1>10. LedgerInv
  BY <1>1, <1>2 DEF LedgerInv
<1>11. Reversed
  BY <1>1, <1>2 DEF Reversed, Undone, Settled, StepsNumbered
<1>12. Outgoing
  BY <1>1, <1>2, QueueEmpty DEF Outgoing, Staging, Sending
<1> QED
  BY <1>3, <1>4, <1>5, <1>6, <1>7, <1>8, <1>9, <1>10, <1>11, <1>12 DEF Books, Bounded, RunsTyped

(* Every action keeps the books: the lemmas above, put together. *)
LEMMA StepBooks == ASSUME EngineIInv, [Next]_vars PROVE Books'
<1>1. logs' \cap orphaned' = {}
  BY StepRecordedOrLost
<1>2. RunsTyped'
  BY StepRanTyped, StepStoreTyped, StepHandlerTyped DEF RunsTyped
<1>3. Numbered'
  BY <1>1, StepRunsNumbered, StepEffectsNumbered DEF Numbered
<1>4. Reversed'
  BY StepUndone, StepSettled, StepStepsNumbered DEF Reversed
<1>5. Outgoing'
  BY StepStaging, StepSending DEF Outgoing
<1>6. LedgerInv'
  BY <1>1, StepLedger
<1> QED
  BY <1>2, <1>3, <1>4, <1>5, <1>6, StepQueuesTyped, StepEffectsTyped, StepBlank, StepRestorable
  DEF Books, Bounded

(* So they are right for ever. *)
LEMMA AlwaysBooks == Spec => []EngineIInv
<1>1. Init => EngineIInv
  <2> SUFFICES ASSUME Init PROVE EngineIInv
    OBVIOUS
  <2>1. LifeInv /\ Books
    BY InitLife, InitBooks
  <2>2. InHand /\ Untouched /\ Recoverable
    BY DEF Init, InHand, Untouched, Recoverable
  <2> QED BY <2>1, <2>2 DEF EngineIInv
<1>2. EngineIInv /\ [Next]_vars => EngineIInv'
  <2> SUFFICES ASSUME EngineIInv, [Next]_vars PROVE EngineIInv'
    OBVIOUS
  <2>1. LifeInv' /\ InHand' /\ Untouched' /\ Recoverable'
    BY StepLife, StepInHand, StepUntouched, StepRecoverable DEF EngineIInv
  <2> QED BY <2>1, StepBooks DEF EngineIInv
<1> QED BY <1>1, <1>2, PTL DEF Spec

(* Between two calls, memory and disk agree on what has happened: nothing  *)
(* of a rewound run is left in the store, the queue or the ledger, every   *)
(* earlier step can still be rewound to, and every undo action in memory   *)
(* is on disk.                                                             *)
THEOREM EngineCoherent == Spec => []EngineInv
<1>1. EngineIInv => EngineInv
  <2> SUFFICES ASSUME EngineIInv PROVE EngineInv
    OBVIOUS
  <2>1. TypeOK
    <3>1. ran \in Seq(1 .. MaxRuns) /\ Len(ran) <= MaxStep
      BY DEF EngineIInv, Books, Bounded, RunsTyped, RanTyped, RunNumbers
    <3>2. /\ loose \subseteq Cells /\ late \subseteq Cells /\ data \subseteq Cells /\ published \subseteq Cells
          /\ DOMAIN saved \subseteq 0 .. MaxStep /\ \A s \in DOMAIN saved : saved[s] \subseteq Cells
      BY DEF EngineIInv, Books, Bounded, RunsTyped, StoreTyped
    <3>3. /\ job.target \in 0 .. MaxStep /\ job.clean \in BOOLEAN
          /\ runs \in 0 .. MaxRuns /\ crashes \in 0 .. MaxCrashes
      BY DEF EngineIInv, Books, Bounded, RunsTyped, HandlerTyped
    <3>4. /\ entries \in Seq(Items) /\ staged \in Seq(Items) /\ todo \in Seq(Items) /\ sent \in Seq(Items)
          /\ {logs, world, made, orphaned, failed} \subseteq SUBSET Items
      BY DEF EngineIInv, Books, Bounded, QueuesTyped, EffectsTyped
    <3>5. /\ status \in {"none", "ACTIVE", "EXECUTING", "ROLLING_BACK", "COMMITTING"}
          /\ up \in BOOLEAN /\ pc \in {"idle", "begin", "tool", "record", "undo", "flush"}
          /\ record \in {"unborn", "open", "closed", "committed"}
      BY DEF EngineIInv, LifeInv, Typed, Live
    <3> QED BY <3>1, <3>2, <3>3, <3>4, <3>5 DEF TypeOK
  <2>2. ASSUME Ready PROVE Coherent
    <3>1. /\ data \ late = Writes(ran) /\ Len(ran) \in Nat
          /\ \A s \in 0 .. Len(ran) : s \in DOMAIN saved /\ saved[s] \ late = {w \in Writes(ran) : w[1] < s}
      BY <2>2, TargetTyped DEF EngineIInv, Books, Restorable, Alive
    <3>2. /\ entries \in Seq(Items) /\ staged \in Seq(Items)
          /\ Along(entries, NewerLater) /\ Along(staged, NextStep) /\ ToSet(entries) \subseteq logs
          /\ \A x \in ToSet(entries) \cup ToSet(staged) : Cell(x) \in Writes(ran)
      BY <2>2
      DEF EngineIInv, Books, Bounded, QueuesTyped, LedgerInv, Chained, Outgoing, Staging, Alive, Ready, Current
    <3>3. InStepOrder(entries) /\ InStepOrder(staged)
      BY <3>2, Orders
    <3>4. ToSet(entries \o staged) \subseteq ToSet(entries) \cup ToSet(staged)
      BY <3>2 DEF ToSet
    <3> QED BY <3>1, <3>2, <3>3, <3>4 DEF Coherent
  <2>3. Coherent
    BY <2>2 DEF Coherent
  <2> QED BY <2>1, <2>3 DEF EngineInv
<1> QED BY <1>1, AlwaysBooks, PTL

(* Between two calls, closed or committed, the effects in force are those  *)
(* of the runs that survive, no more and no fewer; but for effects whose   *)
(* undo action was lost or failed.                                         *)
THEOREM EngineEffectsMatch == Spec => []EffectsMatchState
<1>1. EngineIInv => EffectsMatchState
  <2> SUFFICES ASSUME EngineIInv, Ready \/ record \in {"closed", "committed"}, NEW x \in made \ Exempt
               PROVE  x \in world <=> Cell(x) \in Survivors
    BY DEF EffectsMatchState
  <2>1. CASE Ready
    <3>1. record = "open" /\ todo = <<>>
      BY <2>1, AliveOpen DEF Alive, EngineIInv, InHand, Ready
    <3>2. /\ \A y \in ToSet(entries) : Cell(y) \in Writes(ran)
          /\ world \ Exempt \subseteq ToSet(entries)
          /\ \A y \in made \ (world \cup Exempt) : Cell(y) \notin Writes(ran)
      BY <2>1, <3>1, QueueEmpty
      DEF EngineIInv, Books, LedgerInv, Reversed, Undone, Alive, Ready, Current
    <3>3. Survivors = Writes(ran)
      BY <3>1 DEF Survivors
    <3> QED BY <3>2, <3>3
  <2>2. CASE record = "closed"
    BY <2>2 DEF EngineIInv, Books, Reversed, Settled, Survivors
  <2>3. CASE record = "committed"
    BY <2>3 DEF EngineIInv, Books, Reversed, Settled, Survivors
  <2> QED BY <2>1, <2>2, <2>3
<1> QED BY <1>1, AlwaysBooks, PTL

(* Effects that cannot be reversed leave only after the commit is on disk, *)
(* only those of committed runs, in step order, and none twice.            *)
THEOREM EngineOutboxSound == Spec => []OutboxSound
<1>1. EngineIInv => OutboxSound
  <2> SUFFICES ASSUME EngineIInv PROVE OutboxSound
    OBVIOUS
  <2>2. /\ sent \in Seq(Items) /\ Along(sent, NextStep)
        /\ \A x \in ToSet(sent) : Cell(x) \in published
    BY DEF EngineIInv, Books, Bounded, QueuesTyped, Outgoing, Sending
  <2>3. \A i \in DOMAIN sent : sent[i] \in ToSet(sent)
    BY <2>2, QueueItems
  <2>4. \A i, j \in DOMAIN sent : i < j => sent[i].step < sent[j].step
    BY <2>2 DEF Along, NextStep
  <2>5. sent # <<>> => record = "committed"
    BY DEF EngineIInv, Books, Outgoing, Sending
  <2> QED BY <2>2, <2>3, <2>4, <2>5 DEF OutboxSound
<1> QED BY <1>1, AlwaysBooks, PTL

(* No other step takes an effect back. *)
LEMMA EffectsUndone ==
  ASSUME [Next]_vars, NEW x \in world \ world'
  PROVE  pc = "undo" /\ todo # <<>> /\ x = Last(todo)
<1> USE DEF memory, handler, disk, outside, history
<1>1. CASE Client \/ Reap \/ CancelCommit
  BY <1>1 DEF Client, Begin, Execute, Commit, CommitConflicts, Rollback, RollbackTo, Reap, CancelCommit
<1>2. CASE Runs \/ ToolWrites \/ ToolActs \/ LooseWrites \/ LooseActs \/ LooseEnds
  BY <1>2 DEF Runs, Begun, ToolReturns, RecordUndo, RecordUndoFails, FinishStep, ToolWrites,
              ToolActs, LooseWrites, LooseActs, LooseEnds
<1>3. CASE Unwinds
  BY <1>3 DEF Unwinds, Undo, UndoFails, Restore, RestoreFails, Discard, DiscardFails
<1>4. CASE Cancel
  BY <1>4 DEF Cancel, Dropped, CancelTool, CancelUndo, CancelStorage, CancelFlush
<1>5. CASE Flushes \/ Crash \/ Restart \/ UNCHANGED vars
  BY <1>5 DEF Flushes, Dispatch, Committed, Crash, Restart, vars
<1> QED BY <1>1, <1>2, <1>3, <1>4, <1>5 DEF Next

(* Compensations run newest first, across rewinds, aborts and recovery:    *)
(* when an effect is undone none that was performed later is in force,     *)
(* but for those that cannot be undone.                                    *)
THEOREM EngineNewestFirst == Spec => NewestFirst
<1>1. ASSUME EngineIInv, [Next]_vars, NEW x \in world \ world', x \notin failed,
             NEW y \in world, y.n > x.n, y \notin Exempt
      PROVE  FALSE
  <2>1. pc = "undo" /\ todo # <<>> /\ x = Last(todo)
    BY <1>1, EffectsUndone
  <2>2. /\ todo \in Seq(Items) /\ world \subseteq made /\ made \subseteq Items /\ Along(todo, ByKey)
        /\ \A z \in ToSet(todo) : z \notin orphaned
        /\ world \ Exempt \subseteq ToSet(entries) \cup ToSet(todo)
        /\ \A v, w \in world \ Exempt : v.n < w.n => v.step <= w.step
    BY <1>1, <2>1
    DEF EngineIInv, Books, Bounded, QueuesTyped, EffectsTyped, LedgerInv, Reversed, StepsNumbered
  <2>3. ToSet(todo) = ToSet(Front(todo)) \cup {x} /\ \A z \in ToSet(Front(todo)) : <<z, x>> \in ByKey
    BY <2>1, <2>2, QueueLoses
  <2>4. x \in world \ Exempt /\ y \in world \ Exempt
    BY <1>1, <2>2, <2>3 DEF Exempt
  <2>5. /\ x.n \in Nat /\ y.n \in Nat /\ x.step \in Nat /\ y.step \in Nat
    BY <2>2, <2>4, ItemTypes
  <2>6. x.n < y.n /\ x.step <= y.step
    BY <1>1, <2>2, <2>4, <2>5
  <2>7. y \notin ToSet(entries)
    <3>1. CASE job.why = "recover"
      BY <1>1, <2>1, <3>1, QueueEmpty DEF EngineIInv, Books, LedgerInv
    <3>2. CASE job.why # "recover"
      <4>1. Chained
        BY <1>1, <2>1, <3>2 DEF EngineIInv, Books, LedgerInv, Alive, Unwinding
      <4>2. y \in ToSet(entries) => y.n < x.n
        BY <2>3, <4>1 DEF Chained, NewerLater
      <4> QED BY <2>5, <2>6, <4>2
    <3> QED BY <3>1, <3>2
  <2>8. y \in ToSet(Front(todo)) \/ y = x
    BY <2>2, <2>3, <2>4, <2>7
  <2>9. y # x
    BY <2>5, <2>6
  <2>10. Earlier(y, x)
    BY <2>3, <2>8, <2>9 DEF ByKey
  <2> QED BY <2>5, <2>6, <2>10 DEF Earlier
<1>2. EngineIInv /\ [Next]_vars =>
        [\A x \in world \ world' : x \notin failed => \A y \in world : y.n > x.n => y \in Exempt]_vars
  BY <1>1
<1> QED BY <1>2, AlwaysBooks, PTL DEF Spec, NewestFirst
-----------------------------------------------------------------------------
(* What a commit has published, and the records of failed compensations.   *)
NoneFailed == record = "unborn" => failed = {}

(* Only a commit publishes, and what it publishes is never touched again;  *)
(* the writes nobody waited for only get more.                             *)
LEMMA StepPublishes ==
  ASSUME [Next]_vars
  PROVE  \/ Commit
         \/ LooseWrites /\ UNCHANGED <<published, loose>>
         \/ UNCHANGED <<published, late>>
<1> USE DEF memory, handler, disk, outside, history
<1>1. CASE Client \/ Reap \/ CancelCommit
  BY <1>1 DEF Client, Begin, Execute, CommitConflicts, Rollback, RollbackTo, Reap, CancelCommit
<1>2. CASE Runs \/ ToolWrites \/ ToolActs \/ LooseWrites \/ LooseActs \/ LooseEnds
  BY <1>2 DEF Runs, Begun, ToolReturns, RecordUndo, RecordUndoFails, FinishStep, ToolWrites,
              ToolActs, LooseWrites, LooseActs, LooseEnds
<1>3. CASE Unwinds
  BY <1>3 DEF Unwinds, Undo, UndoFails, Restore, RestoreFails, Discard, DiscardFails
<1>4. CASE Cancel
  BY <1>4 DEF Cancel, Dropped
<1>5. CASE Flushes \/ Crash \/ Restart \/ UNCHANGED vars
  BY <1>5 DEF Flushes, Dispatch, Committed, Crash, Restart, vars
<1> QED BY <1>1, <1>2, <1>3, <1>4, <1>5 DEF Next

(* A commit finds the private data to be the writes of the surviving runs, *)
(* one of each step; a tool nobody waited for that writes later is of none *)
(* of them.                                                                *)
LEMMA StepPublishedWhole == ASSUME EngineIInv, PublishedWhole, [Next]_vars PROVE PublishedWhole'
<1>1. CASE Commit
  <2>1. /\ published' = data /\ late' = late /\ data \ late = Writes(ran)
    BY <1>1 DEF Commit, history, EngineIInv, Books, Restorable
  <2>2. Len(ran) \in 0 .. MaxStep /\ ran \in [1 .. Len(ran) -> 1 .. MaxRuns]
    <3>1. ran \in Seq(1 .. MaxRuns) /\ Len(ran) <= MaxStep /\ MaxStep \in Nat
      BY ItemTypes DEF EngineIInv, Books, Bounded, RunsTyped, RanTyped, RunNumbers
    <3>2. \A S : \A q \in Seq(S) : Len(q) \in Nat /\ q \in [1 .. Len(q) -> S]
      OBVIOUS
    <3>3. Len(ran) \in Nat /\ ran \in [1 .. Len(ran) -> 1 .. MaxRuns]
      BY <3>1, <3>2, Zenon
    <3>4. Len(ran) \in 0 .. MaxStep
      BY <3>1, <3>3
    <3> QED BY <3>3, <3>4
  <2>3. published' \ late' = Writes(ran)
    BY <2>1
  <2> DEFINE R(n) == [1 .. n -> 1 .. MaxRuns]
  <2>4. \E n \in 0 .. MaxStep : \E rs \in R(n) : published' \ late' = Writes(rs)
    BY <2>2, <2>3
  <2> QED BY <2>4 DEF PublishedWhole, Writes
<1>2. CASE published' \ late' = published \ late
  BY <1>2 DEF PublishedWhole, Writes
<1>3. CASE LooseWrites /\ UNCHANGED <<published, loose>>
  <2>1. PICK c \in loose : late' = late \cup {c}
    BY <1>3 DEF LooseWrites
  <2>2. published # {} => record = "committed"
    BY DEF EngineIInv, LifeInv, DiskAgrees
  <2>3. record = "committed" => published \cap loose \subseteq late
    BY DEF EngineIInv, Books, Reversed, Settled
  <2>4. c \in published => c \in late
    BY <2>2, <2>3
  <2> QED BY <1>2, <1>3, <2>1, <2>4
<1> QED BY <1>1, <1>2, <1>3, StepPublishes

(* A compensation that fails is one of those in hand, whose record is on   *)
(* disk; one that is retried with success is not failed any more; all else *)
(* leaves the records alone while the transaction is open.                 *)
LEMMA StepFailedOnRecord ==
  ASSUME EngineIInv, NoneFailed, FailedOnRecord, [Next]_vars
  PROVE  NoneFailed' /\ FailedOnRecord'
<1> USE DEF memory, handler, disk, outside, history
<1>0. pc = "undo" => record = "open"
  BY AliveOpen
<1>1. ASSUME failed' \subseteq failed, failed \cap logs \subseteq logs', orphaned \subseteq orphaned',
             record' = record \/ (record = "unborn" /\ record' = "open")
      PROVE  NoneFailed' /\ FailedOnRecord'
  BY <1>1 DEF NoneFailed, FailedOnRecord
<1>2. ASSUME record' = "closed" \/ record' = "committed" PROVE NoneFailed' /\ FailedOnRecord'
  BY <1>2 DEF NoneFailed, FailedOnRecord
<1>3. CASE Client \/ Reap \/ CancelCommit
  <2>1. CASE Commit
    BY <1>2, <2>1 DEF Commit
  <2>2. CASE Begin
    BY <1>1, <2>2 DEF Begin
  <2>3. CASE Execute \/ CommitConflicts \/ Rollback \/ Reap \/ CancelCommit
             \/ \E s \in 1 .. MaxStep : RollbackTo(s)
    <3>1. UNCHANGED <<failed, logs, orphaned, record>>
      BY <2>3 DEF Execute, CommitConflicts, Rollback, RollbackTo, Reap, CancelCommit
    <3> QED BY <1>1, <3>1
  <2> QED BY <1>3, <2>1, <2>2, <2>3 DEF Client
<1>4. CASE Runs \/ ToolWrites \/ ToolActs \/ LooseWrites \/ LooseActs \/ LooseEnds
  <2>1. failed' = failed /\ logs \subseteq logs' /\ orphaned \subseteq orphaned' /\ record' = record
    BY <1>4 DEF Runs, Begun, ToolReturns, RecordUndo, RecordUndoFails, FinishStep, ToolWrites,
                ToolActs, LooseWrites, LooseActs, LooseEnds
  <2> QED BY <1>1, <2>1
<1>5. CASE Undo
  <2>1. /\ failed' = failed \ {Last(todo)} /\ logs \ {Last(todo)} \subseteq logs'
        /\ UNCHANGED <<orphaned, record>>
    BY <1>5 DEF Undo
  <2> QED BY <1>0, <1>5, <2>1 DEF Undo, NoneFailed, FailedOnRecord
<1>6. CASE UndoFails
  <2>1. /\ pc = "undo" /\ failed' \subseteq failed \cup world
        /\ UNCHANGED <<logs, orphaned, record>>
    BY <1>6 DEF UndoFails
  <2>2. world \subseteq logs \cup orphaned
    BY <1>0, <2>1 DEF EngineIInv, Recoverable, InContext
  <2> QED BY <1>0, <2>1, <2>2 DEF NoneFailed, FailedOnRecord
<1>7. CASE Restore \/ RestoreFails \/ DiscardFails
  <2>1. UNCHANGED <<failed, logs, orphaned, record>>
    BY <1>7 DEF Restore, RestoreFails, DiscardFails
  <2> QED BY <1>1, <2>1
<1>8. CASE Discard
  <2>1. \/ record' = "closed"
        \/ UNCHANGED <<failed, logs, orphaned, record>>
    BY <1>8 DEF Discard
  <2> QED BY <1>1, <1>2, <2>1
<1>9. CASE Cancel
  <2>1. \/ record' = "closed"
        \/ failed' = failed /\ logs' = logs /\ orphaned \subseteq orphaned' /\ record' = record
    BY <1>9 DEF Cancel, Dropped, CancelTool, CancelUndo, CancelStorage, CancelFlush
  <2> QED BY <1>1, <1>2, <2>1
<1>10. CASE Flushes \/ Crash \/ Restart \/ UNCHANGED vars
  <2>1. failed' = failed /\ logs' = logs /\ orphaned \subseteq orphaned' /\ record' = record
    BY <1>10 DEF Flushes, Dispatch, Committed, Crash, Restart, vars
  <2> QED BY <1>1, <2>1
<1> QED
  BY <1>3, <1>4, <1>5, <1>6, <1>7, <1>8, <1>9, <1>10 DEF Next, Unwinds

(* A commit publishes one run of each step, whole, from the first to the   *)
(* last that stood, and nothing else but writes of tools nobody waited     *)
(* for: the atomicity of a transaction, across rewinds, failed steps,      *)
(* dropped handlers and crashes.                                           *)
THEOREM EnginePublishesWhole == Spec => []PublishedWhole
<1>1. Init => PublishedWhole
  <2> SUFFICES ASSUME Init PROVE PublishedWhole
    OBVIOUS
  <2> DEFINE none == [i \in 1 .. 0 |-> 1]
             R(n) == [1 .. n -> 1 .. MaxRuns]
  <2>1. published \ late = {} /\ 0 \in 0 .. MaxStep
    BY ItemTypes DEF Init
  <2>2. none \in R(0) /\ DOMAIN none = {}
    OBVIOUS
  <2>3. Writes(none) = {}
    BY <2>2 DEF Writes
  <2> HIDE DEF none
  <2>4. \E n \in 0 .. MaxStep : \E rs \in R(n) : published \ late = Writes(rs)
    BY <2>1, <2>2, <2>3
  <2> QED BY <2>4 DEF PublishedWhole
<1>2. EngineIInv /\ PublishedWhole /\ [Next]_vars => PublishedWhole'
  BY StepPublishedWhole
<1> QED BY <1>1, <1>2, AlwaysBooks, PTL DEF Spec

(* The record of a failed compensation is there for the next recovery as   *)
(* long as the transaction is open.                                        *)
THEOREM EngineFailedOnRecord == Spec => []FailedOnRecord
<1>1. Init => NoneFailed /\ FailedOnRecord
  BY DEF Init, NoneFailed, FailedOnRecord
<1>2. EngineIInv /\ NoneFailed /\ FailedOnRecord /\ [Next]_vars => NoneFailed' /\ FailedOnRecord'
  BY StepFailedOnRecord
<1> QED BY <1>1, <1>2, AlwaysBooks, PTL DEF Spec
=============================================================================
