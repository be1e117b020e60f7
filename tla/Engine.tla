------------------------------- MODULE Engine -------------------------------
(***************************************************************************)
(* The life of one transaction in the engine (engine/mod.rs) with its saga *)
(* ledger and staging queue (ledger/saga.rs): steps whose tools perform    *)
(* reversible effects and stage others, rewinds, aborts, commit, the idle  *)
(* reaper, crashes and recovery.                                           *)
(*                                                                         *)
(* Handlers hold the transaction's mutex from their first check to their   *)
(* return, so at most one is under way (pc); its steps are the points      *)
(* where it touches the disk or the outside world, between which the       *)
(* process may crash.  Transactions meet only in the store: what the store *)
(* does is abstracted here to a set of writes with the snapshots of        *)
(* SnapshotStack and a commit that succeeds or conflicts (RocksStore), and *)
(* the controller's choice to any it may make (RollbackController).        *)
(***************************************************************************)
EXTENDS Integers, FiniteSets, SequencesExt

CONSTANTS Faults,                               \* those that may happen
          MaxStep, MaxRuns, MaxEffects, MaxCrashes, MaxLoose    \* bounds

ASSUME EngineAssumption ==
  /\ Faults \subseteq {"crash", "store", "undo", "dispatch", "cancel", "linger"}
  /\ MaxStep \in Nat /\ MaxRuns \in Nat /\ MaxEffects \in Nat
  /\ MaxCrashes \in Nat /\ MaxLoose \in Nat

VARIABLES
  status,     \* of the entry in the transaction table, "none" if there is none
  ran,        \* the runs that completed steps 1, 2, ... (steps; next_step is one more)
  entries,    \* the ledger in memory, in the order recorded
  staged,     \* the staging queue
  up,         \* is the process up?
  loose,      \* the runs of tools that go on although nobody waits for them
  pc, job,    \* where the handler that holds the mutex is, and what for
  todo,       \* the items it has in hand: to record, to undo, or to dispatch
  record,     \* disk: the open-transaction record
  logs,       \* disk: saga records
  data,       \* disk: private writes and step outputs
  saved,      \* disk: snapshots, by step
  published,  \* disk: what the transaction has committed
  world,      \* outside: effects in force
  sent,       \* outside: effects dispatched
  made,       \* history: every effect performed
  runs, crashes,    \* history: tool runs and crashes so far
  orphaned,   \* history: effects whose undo action was lost before it was recorded
  failed,     \* history: effects whose compensation failed
  late        \* history: writes of tools nobody waited for

memory  == <<status, ran, entries, staged, up, loose>>
handler == <<pc, job, todo>>
disk    == <<record, logs, data, saved, published>>
outside == <<world, sent>>
history == <<made, runs, crashes, orphaned, failed, late>>
vars    == <<memory, handler, disk, outside, history>>

step      == Len(ran) + 1                  \* next_step
Writes(rs) == {<<s, rs[s]>> : s \in DOMAIN rs}
Run       == <<step, runs>>                  \* the run under way
Item(n)   == [step |-> step, run |-> runs, n |-> n]
Cell(x)   == <<x.step, x.run>>
Idle      == [why |-> "none", target |-> 0, clean |-> TRUE]

Init == /\ status = "none" /\ ran = <<>> /\ entries = <<>> /\ staged = <<>> /\ up = TRUE
        /\ loose = {}
        /\ pc = "idle" /\ job = Idle /\ todo = <<>>
        /\ record = "unborn" /\ logs = {} /\ data = {} /\ saved = <<>> /\ published = {}
        /\ world = {} /\ sent = <<>>
        /\ made = {} /\ runs = 0 /\ crashes = 0 /\ orphaned = {} /\ failed = {}
        /\ late = {}
-----------------------------------------------------------------------------
(* create_snapshot: the store as it is before a step.                      *)
Snapshot(s) == [t \in DOMAIN saved \cup {s} |-> IF t = s THEN data ELSE saved[t]]

(* begin: the record; then the Step-0 snapshot and the table entry, or a   *)
(* storage error, which leaves the record behind.                          *)
Begin ==
  /\ record = "unborn" /\ up /\ pc = "idle"
  /\ record' = "open" /\ pc' = "begin"
  /\ UNCHANGED <<memory, job, todo, logs, data, saved, published, outside,
                 history>>
Begun ==
  /\ pc = "begin"
  /\ pc' = "idle"
  /\ \/ saved' = Snapshot(0) /\ status' = "ACTIVE"
     \/ "store" \in Faults /\ UNCHANGED <<saved, status>>
  /\ UNCHANGED <<ran, entries, staged, up, loose, job, todo, record, logs, data,
                 published, outside, history>>

(* The ledger and the staging queue are in step order: compensate_from     *)
(* splits the one at its partition point, and what discard_from retains of *)
(* the other is what stands before such a point.                           *)
Split(q, s)  == CHOOSE n \in 0 .. Len(q) : \A i \in DOMAIN q : q[i].step < s <=> i <= n
Before(q, s) == SubSeq(q, 1, Split(q, s))
From(q, s)   == SubSeq(q, Split(q, s) + 1, Len(q))

(* compensate_from(target): the entries it takes, to be undone newest      *)
(* first.  What follows depends on why.                                    *)
CompensateLater(why, target) ==
  /\ job' = [why |-> why, target |-> target, clean |-> TRUE]
  /\ pc' = "undo"
  /\ todo' = From(entries, target + 1)
  /\ entries' = Before(entries, target + 1)
  /\ status' = "ROLLING_BACK"
Compensate(why, target) ==
  /\ job' = [why |-> why, target |-> target, clean |-> TRUE]
  /\ pc' = "undo"
  /\ todo' = From(entries, target)
  /\ entries' = Before(entries, target)
  /\ status' = "ROLLING_BACK"

ReadyInTable == pc = "idle" /\ status # "none"
Ready == pc = "idle" /\ status = "ACTIVE"

(* execute_step up to the tool: the snapshot of the step, or its failure.  *)
Execute ==
  /\ Ready /\ step <= MaxStep /\ runs < MaxRuns
  /\ runs' = runs + 1
  /\ \/ /\ status' = "EXECUTING" /\ pc' = "tool"
        /\ saved' = Snapshot(step)
        /\ UNCHANGED <<entries, job, todo>>
     \/ /\ "store" \in Faults
        /\ Compensate("error", step)
        /\ UNCHANGED saved
  /\ UNCHANGED <<ran, staged, up, loose, record, logs, data, published, outside,
                 made, crashes, orphaned, failed, late>>

(* The tool, on its own task: a private write; an effect, whose undo       *)
(* action is registered first and so far only in the tool's context; its   *)
(* result, a timeout or a panic.  A failed step may be one that never got  *)
(* to its tool.  On a timeout the task is aborted, which ends it only when *)
(* it next awaits: a blocking section goes on.                             *)
ToolWrites ==
  /\ pc = "tool"
  /\ data' = data \cup {Run}
  /\ UNCHANGED <<memory, handler, record, logs, saved, published, outside,
                 history>>
ToolActs ==
  /\ pc = "tool" /\ Cardinality(made) < MaxEffects
  /\ LET x == Item(Cardinality(made) + 1)
     IN  /\ todo' = Append(todo, x)
         /\ world' = world \cup {x}
         /\ made' = made \cup {x}
  /\ UNCHANGED <<memory, pc, job, disk, sent, runs, crashes, orphaned, failed,
                 late>>
ToolReturns ==
  /\ pc = "tool"
  /\ pc' = "record"
  /\ \E result \in {"ok", "failed", "internal"} : job' = [job EXCEPT !.why = result]
  /\ \/ UNCHANGED loose
     \/ /\ "linger" \in Faults /\ job'.why = "failed" /\ Cardinality(loose) < MaxLoose
        /\ loose' = loose \cup {Run}
  /\ UNCHANGED <<status, ran, entries, staged, up, todo, disk, outside,
                 history>>

(* A tool nobody waits for goes on in the same way; but the context it     *)
(* registers its undo actions in is no longer read.                        *)
LooseWrites ==
  /\ \E c \in loose : data' = data \cup {c} /\ late' = late \cup {c}
  /\ UNCHANGED <<memory, handler, record, logs, saved, published, outside, made,
                 runs, crashes, orphaned, failed>>
LooseActs ==
  /\ Cardinality(made) < MaxEffects
  /\ \E c \in loose :
       LET x == [step |-> c[1], run |-> c[2], n |-> Cardinality(made) + 1]
       IN  /\ world' = world \cup {x}
           /\ made' = made \cup {x}
           /\ orphaned' = orphaned \cup {x}
  /\ UNCHANGED <<memory, handler, disk, sent, runs, crashes, failed, late>>
LooseEnds ==
  /\ \E c \in loose : loose' = loose \ {c}
  /\ UNCHANGED <<status, ran, entries, staged, up, handler, disk, outside,
                 history>>

(* SagaLedger::record of each action taken from the context: the record on *)
(* disk, then the entry.  A failure drops the actions not yet recorded.    *)
RecordUndo ==
  /\ pc = "record" /\ todo # <<>>
  /\ logs' = logs \cup {Head(todo)}
  /\ entries' = Append(entries, Head(todo))
  /\ todo' = Tail(todo)
  /\ UNCHANGED <<status, ran, staged, up, loose, pc, job, record, data, saved,
                 published, outside, history>>
RecordUndoFails ==
  /\ pc = "record" /\ todo # <<>> /\ "store" \in Faults
  /\ orphaned' = orphaned \cup ToSet(todo)
  /\ Compensate("error", step)
  /\ UNCHANGED <<ran, staged, up, loose, disk, outside, made, runs, crashes,
                 failed, late>>

(* stage_effect and take_staged: what the tool left to dispatch on commit. *)
(* The code takes a list; here a run stages at most one effect (a bound).  *)
Stagings == {staged, Append(staged, Item(0))}

(* The rest of run_step, execute_locked and handle_failure: the staged     *)
(* effects, then the output of a step that succeeded, or the controller's  *)
(* decision on one that failed.                                            *)
FinishStep ==
  /\ pc = "record" /\ todo = <<>>
  /\ staged' \in Stagings
  /\ \/ /\ job.why = "ok"
        /\ data' = data \cup {Run}
        /\ ran' = Append(ran, runs)
        /\ status' = "ACTIVE"
        /\ pc' = "idle" /\ job' = Idle
        /\ UNCHANGED <<entries, todo>>
     \/ /\ job.why \in {"internal"} \cup {r \in {"ok"} : "store" \in Faults}
        /\ Compensate("error", step)
        /\ UNCHANGED <<data, ran>>
     \/ /\ job.why = "failed"
        /\ \/ \E target \in 0 .. step : Compensate("retry", target)
           \/ Compensate("failed", 0)
        /\ UNCHANGED <<data, ran>>
  /\ UNCHANGED <<up, loose, record, logs, saved, published, outside, history>>
-----------------------------------------------------------------------------
(* run_one for the newest entry taken: the undo, then the deletion of its  *)
(* record, whose failure is only logged; or the failure of every attempt.  *)
UndoOldestFirst ==
  /\ pc = "undo" /\ todo # <<>>
  /\ todo' = Tail(todo)
  /\ world' = world \ {Head(todo)} /\ failed' = failed \ {Head(todo)}
  /\ \/ logs' = logs \ {Head(todo)}
     \/ "store" \in Faults /\ logs' = logs
  /\ UNCHANGED <<memory, pc, job, record, data, saved, published, sent, made,
                 runs, crashes, orphaned, late>>
Undo ==
  /\ pc = "undo" /\ todo # <<>>
  /\ todo' = Front(todo)
  /\ world' = world \ {Last(todo)} /\ failed' = failed \ {Last(todo)}
  /\ \/ logs' = logs \ {Last(todo)}
     \/ "store" \in Faults /\ logs' = logs
  /\ UNCHANGED <<memory, pc, job, record, data, saved, published, sent, made,
                 runs, crashes, orphaned, late>>
UndoFailsForgets ==
  /\ pc = "undo" /\ todo # <<>> /\ "undo" \in Faults
  /\ todo' = Front(todo) /\ logs' = logs \ {Last(todo)}
  /\ failed' = failed \cup ({Last(todo)} \cap world)
  /\ job' = [job EXCEPT !.clean = FALSE]
  /\ UNCHANGED <<memory, pc, record, data, saved, published, outside, made, runs,
                 crashes, orphaned, late>>
UndoFails ==
  /\ pc = "undo" /\ todo # <<>> /\ "undo" \in Faults
  /\ todo' = Front(todo)
  /\ failed' = failed \cup ({Last(todo)} \cap world)
  /\ job' = [job EXCEPT !.clean = FALSE]
  /\ UNCHANGED <<memory, pc, disk, outside, made, runs, crashes, orphaned,
                 late>>

Rewinding == pc = "undo" /\ todo = <<>> /\ job.why \in {"error", "retry", "manual"}
Aborting  == pc = "undo" /\ todo = <<>> /\ job.why \notin {"error", "retry", "manual"}

(* The rest of rewind_locked: staged effects, storage, memory; its failure *)
(* goes on to fail_hard.                                                   *)
RestoreKeepsStaged ==
  /\ Rewinding /\ job.target \in DOMAIN saved
  /\ data' = saved[job.target]
  /\ saved' = [s \in {u \in DOMAIN saved : u <= job.target} |-> saved[s]]
  /\ ran' = SubSeq(ran, 1, job.target - 1)
  /\ status' = "ACTIVE" /\ pc' = "idle" /\ job' = Idle
  /\ UNCHANGED <<entries, staged, up, loose, todo, record, logs, published,
                 outside, history>>
Restore ==
  /\ Rewinding /\ job.target \in DOMAIN saved
  /\ staged' = Before(staged, job.target)
  /\ data' = saved[job.target]
  /\ saved' = [s \in {u \in DOMAIN saved : u <= job.target} |-> saved[s]]
  /\ ran' = SubSeq(ran, 1, job.target - 1)
  /\ status' = "ACTIVE" /\ pc' = "idle" /\ job' = Idle
  /\ UNCHANGED <<entries, up, loose, todo, record, logs, published, outside,
                 history>>
RestoreFails ==
  /\ Rewinding
  /\ "store" \in Faults \/ job.target \notin DOMAIN saved
  /\ staged' = Before(staged, job.target)
  /\ Compensate("hard", 0)
  /\ UNCHANGED <<ran, up, loose, disk, outside, history>>

(* The rest of abort_locked, and of recover: discard if every compensation *)
(* succeeded, else discard_state, which keeps the record and the logs.     *)
Discard ==
  /\ Aborting
  /\ data' = {} /\ saved' = <<>>
  /\ IF job.clean THEN record' = "closed" /\ logs' = {}
                  ELSE UNCHANGED <<record, logs>>
  /\ staged' = <<>> /\ ran' = <<>> /\ status' = "none"
  /\ pc' = "idle" /\ job' = Idle
  /\ UNCHANGED <<entries, up, loose, todo, published, outside, history>>

(* Its failure: execute_step retries it in fail_hard, which gives up and   *)
(* drops the transaction; elsewhere the status stays as it is; recovery,   *)
(* and with it the process, ends.                                          *)
DiscardFails ==
  /\ Aborting /\ "store" \in Faults
  /\ staged' = <<>>
  /\ IF job.why = "failed"
     THEN Compensate("hard", 0) /\ UNCHANGED <<up, ran>>
     ELSE /\ pc' = "idle" /\ job' = Idle
          /\ up' = (job.why # "recover")
          /\ IF job.why = "hard" THEN status' = "none" /\ ran' = <<>>
                                 ELSE UNCHANGED <<status, ran>>
          /\ UNCHANGED <<todo, entries>>
  /\ UNCHANGED <<loose, disk, outside, history>>

(* rollback with and without to_step, and reap_idle. *)
RollbackTo(s) == /\ Ready /\ s < step
                 /\ Compensate("manual", s)
                 /\ UNCHANGED <<ran, staged, up, loose, disk, outside, history>>
Rollback      == /\ Ready
                 /\ Compensate("request", 0)
                 /\ UNCHANGED <<ran, staged, up, loose, disk, outside, history>>
Reap          == /\ Ready
                 /\ Compensate("reap", 0)
                 /\ UNCHANGED <<ran, staged, up, loose, disk, outside, history>>
-----------------------------------------------------------------------------
(* commit: the store's batch, then forget_all and the draining of the      *)
(* queue.  A storage error leaves the transaction as it was.               *)
CommitKeepsRecord ==
  /\ Ready
  /\ published' = data
  /\ data' = {} /\ saved' = <<>>
  /\ entries' = <<>> /\ todo' = staged /\ staged' = <<>>
  /\ status' = "COMMITTING" /\ pc' = "flush"
  /\ UNCHANGED <<ran, up, loose, job, record, logs, outside, history>>
Commit ==
  /\ Ready
  /\ published' = data
  /\ record' = "committed" /\ logs' = {} /\ data' = {} /\ saved' = <<>>
  /\ entries' = <<>> /\ todo' = staged /\ staged' = <<>>
  /\ status' = "COMMITTING" /\ pc' = "flush"
  /\ UNCHANGED <<ran, up, loose, job, outside, history>>
CommitConflicts ==
  /\ Ready /\ data # {}
  /\ Compensate("conflict", 0)
  /\ UNCHANGED <<ran, staged, up, loose, disk, outside, history>>

(* OutboxDispatcher::dispatch appends the line of an effect and syncs it.  *)
(* An error may come before the line is in the file, or after.             *)
Deliveries == {Append(sent, Head(todo))} \cup {q \in {sent} : "dispatch" \in Faults}

(* flush: effects are dispatched in order; one that fails is not retried.  *)
Dispatch ==
  /\ pc = "flush" /\ todo # <<>>
  /\ todo' = Tail(todo)
  /\ sent' \in Deliveries
  /\ UNCHANGED <<memory, pc, job, disk, world, history>>
Committed ==
  /\ pc = "flush" /\ todo = <<>>
  /\ status' = "none" /\ ran' = <<>> /\ pc' = "idle"
  /\ UNCHANGED <<entries, staged, up, loose, job, todo, disk, outside, history>>

(* The client of a call goes away: the handler's future is dropped where   *)
(* it awaits the tool, an undo action, the storage or a dispatch.  The     *)
(* mutex is free again, the status stays what it was, and what the handler *)
(* had in hand is lost.  The tool's task goes on, and so does a storage    *)
(* operation on its blocking thread; of an undo or a dispatch nobody knows.*)
(* The reaper and recovery have no client.                                 *)
Dropped == /\ pc' = "idle" /\ job' = Idle /\ todo' = <<>>
           /\ UNCHANGED <<status, ran, entries, staged, up, published, made, runs,
                          crashes, failed, late>>
HasClient == pc \in {"tool", "undo", "flush"} /\ job.why \notin {"reap", "recover"}

CancelTool ==
  /\ pc = "tool"
  /\ loose' = loose \cup {Run}
  /\ orphaned' = orphaned \cup ToSet(todo)
  /\ UNCHANGED <<record, logs, data, saved, outside>>
CancelUndo ==
  /\ pc = "undo" /\ todo # <<>>
  /\ world' \in {world, world \ {Last(todo)}}
  /\ UNCHANGED <<loose, record, logs, data, saved, sent, orphaned>>
CancelStorage ==
  /\ \/ /\ Rewinding /\ job.target \in DOMAIN saved
        /\ data' = saved[job.target]
        /\ saved' = [s \in {u \in DOMAIN saved : u <= job.target} |-> saved[s]]
        /\ UNCHANGED <<record, logs>>
     \/ /\ Aborting
        /\ data' = {} /\ saved' = <<>>
        /\ IF job.clean THEN record' = "closed" /\ logs' = {}
                        ELSE UNCHANGED <<record, logs>>
  /\ UNCHANGED <<loose, outside, orphaned>>
CancelFlush ==
  /\ pc = "flush"
  /\ sent' \in {sent} \cup {Append(sent, todo[i]) : i \in DOMAIN todo \cap {1}}
  /\ UNCHANGED <<loose, record, logs, data, saved, world, orphaned>>
Cancel == /\ "cancel" \in Faults /\ HasClient
          /\ CancelTool \/ CancelUndo \/ CancelStorage \/ CancelFlush
          /\ Dropped

(* The same before the handler learns that its commit was refused. *)
CancelCommit == /\ "cancel" \in Faults /\ Ready
                /\ data # {} \/ "store" \in Faults
                /\ status' = "COMMITTING"
                /\ UNCHANGED <<ran, entries, staged, up, loose, handler, disk,
                               outside, history>>

(* The process dies: what is in memory is lost, undo actions that are not  *)
(* recorded included.                                                      *)
Crash ==
  /\ up /\ "crash" \in Faults /\ crashes < MaxCrashes
  /\ crashes' = crashes + 1
  /\ up' = FALSE
  /\ status' = "none" /\ ran' = <<>> /\ entries' = <<>> /\ staged' = <<>>
  /\ loose' = {}
  /\ pc' = "idle" /\ job' = Idle /\ todo' = <<>>
  /\ orphaned' = IF pc \in {"tool", "record"} THEN orphaned \cup ToSet(todo) ELSE orphaned
  /\ UNCHANGED <<disk, outside, made, runs, failed, late>>

Earlier(x, y) == x.step < y.step \/ (x.step = y.step /\ x.n < y.n)

(* It starts again: SagaLedger::recover sorts the records of an open       *)
(* transaction by step and sequence number, for compensate_all.            *)
Sorted(S) == CHOOSE q \in [1 .. Cardinality(S) -> S] :
               ToSet(q) = S /\ \A i, j \in DOMAIN q : i < j => Earlier(q[i], q[j])
Recover == /\ pc' = "undo"
           /\ job' = [why |-> "recover", target |-> 0, clean |-> TRUE]
           /\ todo' = Sorted(logs)
RestartIfLogged ==
  /\ ~up
  /\ up' = TRUE
  /\ IF record = "open" /\ logs # {} THEN Recover ELSE UNCHANGED handler
  /\ UNCHANGED <<status, ran, entries, staged, loose, disk, outside, history>>
Restart ==
  /\ ~up
  /\ up' = TRUE
  /\ IF record = "open" THEN Recover ELSE UNCHANGED handler
  /\ UNCHANGED <<status, ran, entries, staged, loose, disk, outside, history>>

Runs    == Begun \/ ToolReturns \/ RecordUndo \/ RecordUndoFails \/ FinishStep
Unwinds == Undo \/ UndoFails \/ Restore \/ RestoreFails \/ Discard \/ DiscardFails
Flushes == Dispatch \/ Committed
Client  == \/ Begin \/ Execute \/ Commit \/ CommitConflicts \/ Rollback
           \/ \E s \in 1 .. MaxStep : RollbackTo(s)

Next == \/ Client \/ ToolWrites \/ ToolActs \/ Runs \/ Unwinds \/ Flushes
        \/ LooseWrites \/ LooseActs \/ LooseEnds
        \/ Reap \/ Cancel \/ CancelCommit \/ Crash \/ Restart

Spec == Init /\ [][Next]_vars

(* Handlers go on once they hold the mutex (the executor's timeout ends a  *)
(* tool that does not), the reaper ticks, and the process is restarted;    *)
(* clients need not come back.                                             *)
FairSpec == Spec /\ WF_vars(Runs) /\ WF_vars(Unwinds) /\ WF_vars(Flushes)
                 /\ WF_vars(Reap) /\ WF_vars(Restart)
-----------------------------------------------------------------------------
Items == [step : 1 .. MaxStep, run : 1 .. MaxRuns, n : 0 .. MaxEffects]
Cells == (1 .. MaxStep) \X (1 .. MaxRuns)
TypeOK ==
  /\ status \in {"none", "ACTIVE", "EXECUTING", "ROLLING_BACK", "COMMITTING"}
  /\ ran \in Seq(1 .. MaxRuns) /\ Len(ran) <= MaxStep
  /\ entries \in Seq(Items) /\ staged \in Seq(Items) /\ todo \in Seq(Items)
  /\ up \in BOOLEAN /\ loose \subseteq Cells /\ late \subseteq Cells
  /\ pc \in {"idle", "begin", "tool", "record", "undo", "flush"}
  /\ job.target \in 0 .. MaxStep /\ job.clean \in BOOLEAN
  /\ record \in {"unborn", "open", "closed", "committed"}
  /\ {logs, world, made, orphaned, failed} \subseteq SUBSET Items
  /\ {data, published} \subseteq SUBSET Cells
  /\ DOMAIN saved \subseteq 0 .. MaxStep /\ \A s \in DOMAIN saved : saved[s] \subseteq Cells
  /\ sent \in Seq(Items) /\ runs \in 0 .. MaxRuns /\ crashes \in 0 .. MaxCrashes

Exempt == orphaned \cup failed
InStepOrder(q) == \A i, j \in DOMAIN q : i < j => q[i].step <= q[j].step

(* Between two calls of an active transaction, memory and disk agree that   *)
(* exactly the steps below next_step have happened, each in its last run:   *)
(* nothing of a rewound run is left in the store, the queue or the ledger,  *)
(* every earlier step can still be rewound to, and every undo action in     *)
(* memory is on disk; but for writes of tools nobody waited for.            *)
Coherent ==
  Ready =>
    /\ data \ late = Writes(ran)
    /\ \A s \in 0 .. Len(ran) :
         s \in DOMAIN saved /\ saved[s] \ late = {w \in Writes(ran) : w[1] < s}
    /\ InStepOrder(entries) /\ InStepOrder(staged)
    /\ ToSet(entries) \subseteq logs
    /\ \A x \in ToSet(entries \o staged) : Cell(x) \in Writes(ran)
EngineInv == TypeOK /\ Coherent

(* Whenever a transaction is between two calls, closed or committed, the    *)
(* effects in force are those of the runs that survive, no more and no      *)
(* fewer; but for effects whose undo action was never recorded or failed.   *)
Survivors == CASE record = "committed" -> published \ late
               [] record = "closed"    -> {}
               [] OTHER                -> Writes(ran)
EffectsMatchState ==
  Ready \/ record \in {"closed", "committed"} =>
    \A x \in made \ Exempt : x \in world <=> Cell(x) \in Survivors

(* As long as a transaction is open, every effect in force has its record   *)
(* on disk for the next recovery, whatever failed, was interrupted or was   *)
(* dropped half way; but for undo actions that never got to the ledger.     *)
InContext == IF pc \in {"tool", "record"} THEN ToSet(todo) ELSE {}
Recoverable == record = "open" => world \ (orphaned \cup InContext) \subseteq logs

(* Non-reversible effects leave only after the commit is on disk, only      *)
(* those of committed runs, in step order, and none twice.                  *)
OutboxSound ==
  /\ sent # <<>> => record = "committed"
  /\ \A i \in DOMAIN sent : Cell(sent[i]) \in published
  /\ \A i, j \in DOMAIN sent : i < j => sent[i].step < sent[j].step

(* A commit publishes one run of each step from the first to the last that  *)
(* stood, whole, and nothing of a run that was rewound or of a failed step; *)
(* but for writes of tools nobody waited for.                               *)
PublishedWhole ==
  \E n \in 0 .. MaxStep : \E rs \in [1 .. n -> 1 .. MaxRuns] :
    published \ late = Writes(rs)

(* The record of a failed compensation stays on disk at least until its     *)
(* transaction is committed or closed, through rewinds, further failures,   *)
(* dropped handlers and crashes; it never was there if the tool's failure   *)
(* or the crash lost it.                                                    *)
FailedOnRecord == record = "open" => failed \subseteq logs \cup orphaned

(* Compensations run newest first, across rewinds, aborts and recovery: one *)
(* is undone only when no later effect is in force; but for effects that    *)
(* cannot be undone, and the retry of a compensation that failed.           *)
NewestFirst ==
  [][\A x \in world \ world' : x \notin failed =>
       \A y \in world : y.n > x.n => y \in Exempt]_vars

(* What is committed stays: no crash, recovery or late handler compensates  *)
(* it or takes back the commit.                                             *)
CommitFinal ==
  [][published # {} => UNCHANGED <<record, published>> /\ world \subseteq world']_vars

(* The engine implements the life cycle of TxStatus, errors that assign the *)
(* status directly, dropped handlers, crashes and recovery included.  When  *)
(* the transaction table knows nothing of a transaction, the disk does: a   *)
(* crash before the commit is the beginning of a rollback, and a            *)
(* transaction stays in it until its record is closed.                      *)
Durable == IF status # "none" THEN status ELSE
           CASE record = "unborn" \/ pc = "begin" -> "NONE"
             [] record = "committed"              -> "COMMITTED"
             [] record = "closed"                 -> "ROLLED_BACK"
             [] OTHER                             -> "ROLLING_BACK"
Cycle == INSTANCE TxStatus WITH status <- Durable
FollowsStatus == Cycle!Spec

(* Left alone, a transaction is closed: by the reaper, by the handler that  *)
(* has it, or by the next recovery; unless a compensation failed.           *)
Closes == (record = "open") ~> (record # "open" \/ failed # {})

(* "A failed compensation ... its record stays on disk."                    *)
FailedKeepsRecord == failed \subseteq logs

(* "Interrupted transactions are compensated and discarded on restart."     *)
RecoveryCompensates == record = "closed" => world = {}
=============================================================================
