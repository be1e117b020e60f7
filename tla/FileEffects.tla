---------------------------- MODULE FileEffects ----------------------------
(***************************************************************************)
(* The reversible file effect (fs.write and FileRestoreUndo of             *)
(* engine/builtin_tools.rs) under the saga ledger (ledger/saga.rs), at the *)
(* level of the file system: one transaction whose steps write one path,   *)
(* its rewinds, abort, commit, crashes and recovery.  What Engine takes    *)
(* for one action - perform an effect, undo it - is here a write of the    *)
(* temporary file and a rename, each of which may fail, be cut short by a  *)
(* crash, or go on after the executor's timeout, since tokio runs it on a  *)
(* blocking thread that an abort does not reach.  The storage under the    *)
(* ledger may fail (the saga records, the snapshot, the discard), and the  *)
(* client may go away, which drops the handler at its await.               *)
(*                                                                         *)
(* No other transaction writes the path (nothing in the code sees to it).  *)
(* Contents are named after the run that writes them; what the file held   *)
(* before the transaction is one of Bases.                                 *)
(***************************************************************************)
EXTENDS Integers, FiniteSets, SequencesExt

CONSTANTS Absent, Torn,                 \* no file; part of some contents
          Bases,                        \* what the file may hold at first
          Faults,                       \* those that may happen
          MaxAttempts,                  \* compensation_retries
          MaxRuns, MaxCrashes           \* bounds

ASSUME FileEffectsAssumption ==
  /\ Faults \subseteq {"io", "store", "delete", "timeout", "cancel", "crash"}
  /\ MaxAttempts \in Nat \ {0} /\ MaxRuns \in Nat /\ MaxCrashes \in Nat
  /\ Torn \notin Bases \cup {Absent} \cup (1 .. MaxRuns)

VARIABLES
  file, tmp,     \* disk: the path, and the path with ".agenttx-tmp"
  record, logs,  \* disk: the open-transaction record and the saga records
  entries, seq,  \* the ledger in memory, and its next_seq
  pc, ok,        \* where the handler is, and what the tool returned
  prior,         \* the tool's context: no undo action or one, with the bytes it read
  job, todo, tries,      \* the compensation under way
  flight,        \* an operation of a timed-out tool on its blocking thread
  versions,      \* history: what each surviving step left, the first entry before them
  runs, crashes, \* history: tool runs and crashes so far
  spoiled,       \* history: the file was left to a write that no record undoes
  skipped        \* history: a saga record stayed although older ones were to go

disk    == <<file, tmp, record, logs>>
ledger  == <<entries, seq>>
tool    == <<ok, prior>>
unwind  == <<job, todo, tries>>
history == <<versions, runs, crashes, spoiled, skipped>>
vars    == <<disk, ledger, pc, tool, unwind, flight, history>>

step     == Len(versions)               \* next_step
Nothing  == [op |-> "none", bytes |-> 0]
Ready    == pc = "idle" /\ record = "open"
Earlier(x, y) == x.step < y.step \/ (x.step = y.step /\ x.seq < y.seq)

Init == /\ file \in Bases /\ tmp = Absent /\ record = "open" /\ logs = {}
        /\ entries = <<>> /\ seq = 0
        /\ pc = "idle" /\ ok = FALSE /\ prior = <<>>
        /\ job = [why |-> "none", target |-> 0, clean |-> TRUE] /\ todo = <<>> /\ tries = 0
        /\ flight = Nothing
        /\ versions = <<file>> /\ runs = 0 /\ crashes = 0
        /\ spoiled = FALSE /\ skipped = FALSE
-----------------------------------------------------------------------------
(* FsWrite::execute: what the path holds is read and registered, with the  *)
(* tool's context, before the file is touched.  Or the step fails before   *)
(* that: its arguments, its read, its snapshot.                            *)
Read ==
  /\ Ready /\ runs < MaxRuns
  /\ runs' = runs + 1
  /\ \/ pc' = "write" /\ prior' = <<file>>
     \/ pc' = "record" /\ prior' = <<>>
  /\ ok' = FALSE
  /\ UNCHANGED <<disk, ledger, unwind, flight, versions, crashes, spoiled, skipped>>

(* write_atomically: the temporary file, which a write still in flight may *)
(* mix with this one; then the rename.                                     *)
WriteTmp(bytes, then) ==
  /\ pc' = then
  /\ \/ tmp' = bytes /\ UNCHANGED spoiled
     \/ flight.op = "write" /\ tmp' = Torn /\ spoiled' = TRUE
RenameTmp == tmp # Absent /\ file' = tmp /\ tmp' = Absent
IoError    == "io" \in Faults
StoreError == "store" \in Faults

Write ==
  /\ pc = "write"
  /\ \/ WriteTmp(runs, "rename")
     \/ IoError /\ tmp' \in {tmp, Torn} /\ pc' = "record" /\ UNCHANGED spoiled
  /\ UNCHANGED <<file, record, logs, ledger, tool, unwind, flight, versions, runs,
                 crashes, skipped>>
Rename ==
  /\ pc = "rename"
  /\ pc' = "record"
  /\ \/ RenameTmp /\ ok' = TRUE
     \/ /\ IoError \/ tmp = Absent
        /\ UNCHANGED <<file, tmp, ok>>
  /\ UNCHANGED <<record, logs, ledger, prior, unwind, flight, history>>

(* The executor's timeout aborts the task at its await: the step failed,   *)
(* and the operation it awaited ends some time later.                      *)
Timeout ==
  /\ pc \in {"write", "rename"} /\ "timeout" \in Faults /\ flight = Nothing
  /\ flight' = [op |-> pc, bytes |-> runs]
  /\ pc' = "record"
  /\ UNCHANGED <<disk, ledger, tool, unwind, history>>

(* It does no harm before the compensation of its own step begins, nor if  *)
(* it only leaves a temporary file that nobody is about to rename.  A tool *)
(* whose handler was dropped goes on from its write to its rename.         *)
BeforeUndo == \/ pc = "record" /\ runs = flight.bytes
              \/ pc = "undo" /\ todo # <<>> /\ tries = 0 /\ Last(todo).run = flight.bytes
Late ==
  /\ flight # Nothing
  /\ \/ /\ flight.op \in {"write", "tool"}
        /\ flight' = IF flight.op = "tool" THEN [flight EXCEPT !.op = "rename"] ELSE Nothing
        /\ tmp' = flight.bytes /\ file' = file
        /\ spoiled' = (spoiled \/ pc \in {"rename", "undoRename"})
     \/ /\ flight.op = "rename" /\ flight' = Nothing
        /\ IF tmp # Absent THEN RenameTmp ELSE UNCHANGED <<file, tmp>>
        /\ spoiled' = (spoiled \/ (tmp # Absent /\ ~BeforeUndo))
  /\ UNCHANGED <<record, logs, ledger, pc, tool, unwind, versions, runs, crashes, skipped>>

(* compensate_from: the entries of the target step and later, to be undone *)
(* newest first.  Entries are in step order, so they split at one place.   *)
Split(q, s) == CHOOSE n \in 0 .. Len(q) : \A i \in DOMAIN q : q[i].step < s <=> i <= n
Compensate(why, target, es) ==
  /\ pc' = "undo"
  /\ job' = [why |-> why, target |-> target, clean |-> TRUE]
  /\ todo' = SubSeq(es, Split(es, target) + 1, Len(es))
  /\ entries' = SubSeq(es, 1, Split(es, target))

(* The rest of the step: the undo action goes to disk and to the ledger,   *)
(* then the step counts, or the controller rewinds or gives up, or its     *)
(* output cannot be stored and the step is rewound.                        *)
Registered == [i \in DOMAIN prior |->
                 [step |-> step, seq |-> seq, run |-> runs, prior |-> prior[i]]]
Recorded(xs) ==
  /\ logs' = logs \cup ToSet(xs) /\ seq' = seq + Len(xs)
  /\ \/ /\ ok
        /\ entries' = entries \o xs
        /\ versions' = Append(versions, runs) /\ pc' = "idle"
        /\ UNCHANGED <<job, todo>>
     \/ /\ \/ ~ok /\ \E target \in 1 .. step : Compensate("rewind", target, entries \o xs)
           \/ ~ok /\ Compensate("abort", 0, entries \o xs)
           \/ StoreError /\ Compensate("rewind", step, entries \o xs)
        /\ UNCHANGED versions
  /\ UNCHANGED spoiled

(* SagaLedger::record fails: its number is spent, the undo action is gone  *)
(* and with it what the file held; the step is rewound without it.         *)
LosesUndo == pc = "record" /\ prior # <<>> /\ file # Last(versions)
Unrecorded ==
  /\ StoreError /\ prior # <<>>
  /\ seq' = seq + 1
  /\ Compensate("rewind", step, entries)
  /\ spoiled' = (spoiled \/ LosesUndo)
  /\ UNCHANGED <<logs, versions>>
Finishes(xs) ==
  /\ pc = "record"
  /\ Recorded(xs) \/ Unrecorded
  /\ prior' = <<>>
  /\ UNCHANGED <<file, tmp, record, ok, tries, flight, runs, crashes, skipped>>
FinishLogsOnSuccess == Finishes(IF ok THEN Registered ELSE <<>>)
Finish == Finishes(Registered)

(* rollback, with and without to_step; without it also the reaper, and     *)
(* commit after a conflict.                                                *)
Rollback ==
  /\ Ready
  /\ \/ \E target \in 1 .. step - 1 : Compensate("rewind", target, entries)
     \/ Compensate("request", 0, entries)
  /\ UNCHANGED <<disk, seq, tool, tries, flight, history>>
-----------------------------------------------------------------------------
(* FileRestoreUndo::undo, in run_one: the prior bytes are written back, or *)
(* a file that was not there is removed, if it still is there.  Then the   *)
(* record goes, if the store lets it; a failure is tried again, and in the *)
(* end reported.                                                           *)
Undone ==
  /\ pc' = "undo" /\ todo' = Front(todo) /\ tries' = 0
  /\ \/ logs' = logs \ {Last(todo)} /\ UNCHANGED skipped
     \/ "delete" \in Faults /\ skipped' = TRUE /\ UNCHANGED logs
  /\ UNCHANGED job
Failed ==
  /\ pc' = "undo"
  /\ IF tries + 1 < MaxAttempts
     THEN tries' = tries + 1 /\ UNCHANGED <<todo, job, skipped>>
     ELSE /\ tries' = 0 /\ todo' = Front(todo) /\ skipped' = TRUE
          /\ job' = [job EXCEPT !.clean = FALSE]
  /\ UNCHANGED logs

UndoInPlace ==
  /\ pc = "undo" /\ todo # <<>>
  /\ IF Last(todo).prior = Absent
     THEN /\ \/ file' = Absent /\ Undone
             \/ IoError /\ file # Absent /\ UNCHANGED file /\ Failed
          /\ UNCHANGED <<tmp, spoiled>>
     ELSE \/ /\ file' = Last(todo).prior /\ Undone
             /\ UNCHANGED <<tmp, spoiled>>
          \/ IoError /\ file' = Torn /\ Failed /\ UNCHANGED <<tmp, spoiled>>
  /\ UNCHANGED <<record, ledger, tool, flight, versions, runs, crashes>>
Undo ==
  /\ pc = "undo" /\ todo # <<>>
  /\ IF Last(todo).prior = Absent
     THEN /\ \/ file' = Absent /\ Undone
             \/ IoError /\ file # Absent /\ UNCHANGED file /\ Failed
          /\ UNCHANGED <<tmp, spoiled>>
     ELSE \/ /\ WriteTmp(Last(todo).prior, "undoRename")
             /\ UNCHANGED <<file, logs, unwind, skipped>>
          \/ IoError /\ tmp' \in {tmp, Torn} /\ Failed /\ UNCHANGED <<file, spoiled>>
  /\ UNCHANGED <<record, ledger, tool, flight, versions, runs, crashes>>
UndoRename ==
  /\ pc = "undoRename"
  /\ \/ RenameTmp /\ Undone
     \/ /\ IoError \/ tmp = Absent
        /\ Failed /\ UNCHANGED <<file, tmp>>
  /\ UNCHANGED <<record, ledger, tool, flight, versions, runs, crashes, spoiled>>

(* The rest of rewind_locked, abort_locked and recover.  A rewind goes on  *)
(* whether or not its compensations succeeded; an abort keeps the record   *)
(* and the logs of those that did not, for the next start.                 *)
Unwound ==
  /\ pc = "undo" /\ todo = <<>>
  /\ job' = [why |-> "none", target |-> 0, clean |-> TRUE]
  /\ \/ /\ job.why = "rewind"
        /\ pc' = "idle"
        /\ versions' = SubSeq(versions, 1, job.target)
        /\ UNCHANGED <<record, logs>>
     \/ /\ job.why # "rewind"
        /\ pc' = "gone"
        /\ IF job.clean THEN record' = "closed" /\ logs' = {}
                        ELSE UNCHANGED <<record, logs>>
        /\ UNCHANGED versions
  /\ UNCHANGED <<file, tmp, ledger, tool, todo, tries, flight, runs, crashes, spoiled, skipped>>

(* The snapshot is not restored, or the state not discarded.  A step's     *)
(* handler, and a rewind's, then abort for good (fail_hard); if that fails *)
(* too, or an abort that was asked for does, the transaction stays on disk *)
(* and nobody touches it before the next start; a start itself fails.      *)
Forgets ==
  /\ entries' = <<>> /\ seq' = 0 /\ ok' = FALSE /\ prior' = <<>>
  /\ job' = [why |-> "none", target |-> 0, clean |-> TRUE] /\ todo' = <<>> /\ tries' = 0
UnwindFails ==
  /\ pc = "undo" /\ todo = <<>> /\ StoreError
  /\ \/ /\ job.why \in {"rewind", "abort"}
        /\ Compensate("hard", 0, entries)
        /\ UNCHANGED <<seq, tool, tries>>
     \/ /\ job.why \notin {"rewind", "abort"}
        /\ pc' = IF job.why = "recover" THEN "down" ELSE "stuck"
        /\ Forgets
  /\ UNCHANGED <<disk, flight, history>>

Commit ==
  /\ Ready
  /\ record' = "committed" /\ logs' = {} /\ entries' = <<>> /\ pc' = "gone"
  /\ UNCHANGED <<file, tmp, seq, tool, unwind, flight, history>>

(* The handler is dropped: its status stays, and refuses every later call. *)
(* A tool goes on in its task; of an undo, a discard or a commit, the      *)
(* operation it was waiting for is done or not, and nothing after it.      *)
MayEnd(how) == UNCHANGED <<record, logs>> \/ (record' = how /\ logs' = {})
Drops ==
  CASE pc \in {"write", "rename"} ->
         /\ flight = Nothing
         /\ flight' = [op |-> IF pc = "write" THEN "tool" ELSE "rename", bytes |-> runs]
         /\ UNCHANGED disk
    [] pc = "undo" /\ todo # <<>> ->
         /\ IF Last(todo).prior = Absent
            THEN file' \in {file, Absent} /\ tmp' = tmp
            ELSE tmp' \in {tmp, Last(todo).prior} /\ file' = file
         /\ UNCHANGED <<record, logs, flight>>
    [] pc = "undoRename" ->
         /\ RenameTmp \/ UNCHANGED <<file, tmp>>
         /\ UNCHANGED <<record, logs, flight>>
    [] pc = "undo" /\ todo = <<>> /\ job.why # "rewind" /\ job.clean ->
         /\ MayEnd("closed")
         /\ UNCHANGED <<file, tmp, flight>>
    [] pc = "idle" ->
         /\ MayEnd("committed")
         /\ UNCHANGED <<file, tmp, flight>>
    [] OTHER -> UNCHANGED <<disk, flight>>
Cancel ==
  /\ pc \notin {"gone", "down", "stuck"} /\ job.why # "recover" /\ "cancel" \in Faults
  /\ pc' = "stuck"
  /\ Drops
  /\ spoiled' = (spoiled \/ LosesUndo)
  /\ Forgets
  /\ UNCHANGED <<versions, runs, crashes, skipped>>

(* The process dies: the temporary file it was writing may be torn, the    *)
(* path never is; an undo action not yet on disk is lost.                  *)
Crash ==
  /\ pc # "down" /\ "crash" \in Faults /\ crashes < MaxCrashes
  /\ crashes' = crashes + 1
  /\ \/ UNCHANGED tmp
     \/ pc \in {"write", "undo", "stuck"} /\ tmp' = Torn
  /\ spoiled' = (spoiled \/ LosesUndo)
  /\ pc' = "down" /\ flight' = Nothing
  /\ Forgets
  /\ UNCHANGED <<file, record, logs, versions, runs, skipped>>

(* SagaLedger::recover, if the transaction is still open, and              *)
(* compensate_all.                                                         *)
Sorted(S) == CHOOSE q \in [1 .. Cardinality(S) -> S] :
               ToSet(q) = S /\ \A i, j \in DOMAIN q : i < j => Earlier(q[i], q[j])
Restart ==
  /\ pc = "down"
  /\ IF record = "open"
     THEN /\ pc' = "undo"
          /\ job' = [why |-> "recover", target |-> 0, clean |-> TRUE]
          /\ todo' = Sorted(logs)
     ELSE pc' = "gone" /\ UNCHANGED <<job, todo>>
  /\ UNCHANGED <<disk, ledger, tool, tries, flight, history>>

Next == \/ Read \/ Write \/ Rename \/ Timeout \/ Late \/ Finish \/ Rollback
        \/ Undo \/ UndoRename \/ Unwound \/ UnwindFails \/ Commit \/ Cancel
        \/ Crash \/ Restart

Spec == Init /\ [][Next]_vars
-----------------------------------------------------------------------------
Contents == Bases \cup (1 .. MaxRuns) \cup {Absent, Torn}
Entries  == [step : 1 .. MaxRuns, seq : 0 .. MaxRuns - 1, run : 1 .. MaxRuns, prior : Contents]
TypeOK ==
  /\ {file, tmp} \subseteq Contents
  /\ record \in {"open", "closed", "committed"} /\ logs \subseteq Entries
  /\ entries \in Seq(Entries) /\ seq \in 0 .. MaxRuns /\ todo \in Seq(Entries)
  /\ pc \in {"idle", "write", "rename", "record", "undo", "undoRename", "gone", "down",
            "stuck"}
  /\ ok \in BOOLEAN /\ prior \in {<<>>} \cup {<<c>> : c \in Contents}
  /\ job.target \in 0 .. MaxRuns /\ job.clean \in BOOLEAN /\ tries \in 0 .. MaxAttempts - 1
  /\ flight.op \in {"none", "write", "rename", "tool"} /\ flight.bytes \in 0 .. MaxRuns
  /\ versions \in Seq(Contents) /\ runs \in 0 .. MaxRuns /\ crashes \in 0 .. MaxCrashes
  /\ spoiled \in BOOLEAN /\ skipped \in BOOLEAN

(* The file holds what the last surviving step wrote whenever the           *)
(* transaction is between two calls or committed, and what it held before   *)
(* the transaction once that is aborted, at once or by recovery; unless an  *)
(* undo action was lost before it was on disk (the process died, the client *)
(* went away, saga.record failed), an operation outlived its timeout or its *)
(* client, or a saga record could not be removed.                           *)
FileMatchesSteps ==
  ~spoiled /\ ~skipped =>
    /\ Ready \/ record = "committed" => file = Last(versions)
    /\ record = "closed" => file = versions[1]

(* Readers of the path see whole contents at every moment, through failed   *)
(* and interrupted writes, undos and crashes; unless two writes of the      *)
(* temporary file overlap after a timeout.                                  *)
NeverTorn == file = Torn => spoiled

(* The records of an open transaction lead back to what the file held       *)
(* before it, from every state in which the process may die: the oldest     *)
(* has those bytes.                                                         *)
LeadsBack ==
  record = "open" /\ ~spoiled /\ ~skipped =>
    /\ \A x \in logs : (\A y \in logs \ {x} : Earlier(x, y)) => x.prior = versions[1]
    /\ logs = {} /\ pc # "record" => file = versions[1]
FilesInv == TypeOK /\ FileMatchesSteps /\ LeadsBack

(* "Saga undo restores the previous bytes, or deletes the file if it didn't *)
(* exist": a recovery that reports no failure has done so.                  *)
CleanRecoveryRestores ==
  pc = "undo" /\ todo = <<>> /\ job.why = "recover" /\ job.clean /\ ~spoiled =>
    file = versions[1]
=============================================================================
