------------------------------- MODULE Session -------------------------------
(***************************************************************************)
(* One agent and one transaction over MCP (mcp/mod.rs, mcp/tools.rs): the  *)
(* agent sends requests as lines of the server's stdin, the server takes   *)
(* them one at a time and answers on stdout, and the agent follows the     *)
(* answers.  The agent is the loop of the benchmark (run_agenttx in        *)
(* agenttx-bench/src/sim.rs): do the step the last answer named, commit    *)
(* after the last one, stop when the transaction has failed.  Here it may  *)
(* also roll back, and tire of waiting for an answer.                      *)
(*                                                                         *)
(* The transaction is the one RollbackController follows: its next_step,   *)
(* and which failures may be answered how.                                 *)
(***************************************************************************)
EXTENDS RollbackController, Sequences, FiniteSets

CONSTANT MaxFaults        \* bound: answers not waited for, and commits that meet an error

ASSUME SessionAssumption == MaxFaults \in Nat

VARIABLES outcome,    \* of the transaction: open, committed, undone or stuck
          inbox,      \* lines on stdin
          outbox,     \* lines on stdout
          agent,      \* what the agent does next: plans, waits, resyncs, or its verdict
          awaits,     \* the id of the request it waits for
          at,         \* the next_step_id it goes by
          heard,      \* step -> the output it has of it: none, one that stands, one since undone
          faults      \* bounded by MaxFaults

server  == <<next, horizon, retries, jumps, replayed, resets, spent, free>>
client  == <<agent, awaits, at, heard>>
session == <<server, outcome, inbox, outbox, client, faults>>

Id       == 1 .. (MaxFaults + 1)       \* JSON-RPC ids
NoId     == 0
Goal     == MaxStep                    \* steps of the agent's task
Verdicts == {"committed", "failed", "cancelled", "conflict", "gone"}
Lines(q) == {q[i] : i \in DOMAIN q}

SessionInit ==
  /\ Init
  /\ outcome = "open" /\ inbox = <<>> /\ outbox = <<>>
  /\ agent = "plans" /\ awaits = NoId /\ at = 1
  /\ heard = [k \in Step |-> "none"]
  /\ faults = 0
-----------------------------------------------------------------------------
(* The agent sends a request under an id no other line in flight bears: it *)
(* has given up on all of them since they were sent.  A request is planned *)
(* on the outputs of earlier steps, and "based" while they stand.          *)
FreshId == faults + 1

Send(op, s) ==
  /\ inbox' = Append(inbox, [op |-> op, step |-> s, id |-> FreshId,
                             based |-> \A k \in Step : heard[k] # "undone"])
  /\ agent' = "waits" /\ awaits' = FreshId
  /\ UNCHANGED <<server, outcome, outbox, at, heard, faults>>

(* A rollback undoes at most the steps from s on; MaxFree bounds it.       *)
Undoes(s) == MaxStep + 1 - s
Promised  == IF \E l \in Lines(inbox) : l.op = "back"
             THEN Undoes((CHOOSE l \in Lines(inbox) : l.op = "back").step) ELSE 0

Proceeds == agent = "plans" /\ IF at <= Goal THEN Send("run_step", at) ELSE Send("commit", at)
RollsBack(s) == /\ agent = "plans" /\ s < at
                /\ Promised = 0 /\ free + Undoes(s) <= MaxFree
                /\ Send("back", s)
Cancels  == agent = "plans" /\ Send("abort", at)
Resyncs  == agent = "resyncs" /\ Send("get", at)

(* It stops waiting, and retries the step or asks where the transaction is. *)
GivesUp ==
  /\ agent = "waits" /\ faults < MaxFaults
  /\ faults' = faults + 1
  /\ agent' \in IF at <= Goal THEN {"plans", "resyncs"} ELSE {"resyncs"}
  /\ awaits' = NoId
  /\ UNCHANGED <<server, outcome, inbox, outbox, at, heard>>
-----------------------------------------------------------------------------
(* The server: what becomes of a request, by the state of the transaction. *)
(* Steps from next' on are undone, and with them the outputs the agent has *)
(* and the plans made on them.                                             *)
Request == Head(inbox)
Takes(op) == inbox # <<>> /\ Request.op = op

Undone ==
  heard' = IF outcome' # "open" THEN heard
           ELSE [k \in Step |-> IF k >= next' /\ heard[k] # "none" THEN "undone" ELSE heard[k]]
AnswerBefore(kind, to) ==
  /\ inbox' = Tail(inbox)
  /\ outbox' = Append(outbox, [id |-> Request.id, kind |-> kind, to |-> to, next |-> next])
  /\ Undone
  /\ UNCHANGED <<agent, awaits, at>>
Answer(kind, to) ==
  /\ inbox' = [i \in 1 .. Len(inbox) - 1 |->
                 [inbox[i + 1] EXCEPT !.based = @ /\ inbox[i + 1].step <= next']]
  /\ outbox' = Append(outbox, [id |-> Request.id, kind |-> kind, to |-> to, next |-> next'])
  /\ Undone
  /\ UNCHANGED <<agent, awaits, at>>
Stays == UNCHANGED <<outcome, faults>>
Closes(result) == outcome' = result /\ UNCHANGED faults

(* An abort whose discard fails leaves the status ROLLING_BACK and the      *)
(* transaction in the table, where ensure_active refuses every later call.  *)
Sticks     == UNCHANGED server /\ Closes("stuck")

Open       == next > 0               \* in the engine's table
Active     == outcome = "open"       \* and of status ACTIVE
InAnyOrder == Active
InOrder    == Active /\ Request.step = next
NotAfter   == Active /\ Request.step >= next

NotFound == /\ inbox # <<>> /\ ~Open
            /\ UNCHANGED server /\ Stays /\ Answer("gone", 0)

(* Every tool but get_transaction then asks for an active one. *)
Refused  == /\ inbox # <<>> /\ Request.op # "get" /\ Open /\ ~Active
            /\ UNCHANGED server /\ Stays /\ Answer("error", 0)

(* run_step. *)
OutOfOrder == Takes("run_step") /\ Active /\ ~InOrder
              /\ UNCHANGED server /\ Stays /\ Answer("order", 0)
StepSucceeds == Takes("run_step") /\ InOrder /\ Succeeds /\ Stays /\ Answer("success", 0)
StepFails(root) ==
  /\ Takes("run_step") /\ InOrder
  /\ \/ Rewind(root) /\ Stays /\ Answer("rollback", next')
     \/ GlobalReset(root) /\ Stays /\ Answer("rollback", 0)
     \/ Abort(root) /\ Closes("undone") /\ Answer("failed", 0)
StepErrs ==
  /\ Takes("run_step") /\ InOrder
  /\ \/ free + Promised < MaxFree /\ StepError /\ Stays /\ Answer("error", 0)
     \/ StepBreaks /\ Closes("undone") /\ Answer("error", 0)

(* commit_transaction: published, in conflict and undone or stuck there,   *)
(* or not tried.                                                           *)
Commit ==
  /\ Takes("commit") /\ Active
  /\ \/ Ends /\ Closes("committed") /\ Answer("committed", 0)
     \/ Ends /\ Closes("undone") /\ Answer("conflict", 0)
     \/ Sticks /\ Answer("error", 0)
     \/ /\ faults < MaxFaults /\ faults' = faults + 1
        /\ UNCHANGED <<server, outcome>> /\ Answer("error", 0)

(* rollback_transaction, with and without to_step. *)
Back ==
  /\ Takes("back") /\ Active
  /\ \/ NotAfter /\ UNCHANGED server /\ Stays /\ Answer("order", 0)
     \/ ~NotAfter /\ RolledBack(Request.step) /\ Stays /\ Answer("rollback", Request.step)
     \/ ~NotAfter /\ Ends /\ Closes("undone") /\ Answer("error", 0)
Cancel ==
  /\ Takes("abort") /\ Active
  /\ \/ Ends /\ Closes("undone") /\ Answer("cancelled", 0)
     \/ Sticks /\ Answer("error", 0)

(* get_transaction. *)
Get == Takes("get") /\ Open /\ UNCHANGED server /\ Stays /\ Answer("view", 0)

(* reap_idle finds the transaction unlocked. *)
Reap == /\ Active
        /\ (Ends /\ Closes("undone")) \/ Sticks
        /\ UNCHANGED <<inbox, outbox, client>>

Serve == \/ NotFound \/ Refused \/ OutOfOrder \/ StepSucceeds \/ StepErrs
         \/ \E root \in Step \cup {None} : StepFails(root)
         \/ Commit \/ Back \/ Cancel \/ Get
-----------------------------------------------------------------------------
(* The agent reads a line.  It takes the one it waits for, and does what   *)
(* INSTRUCTIONS say.                                                       *)
Answered == Head(outbox)
Forget(s) == [k \in Step |-> IF k >= s THEN "none" ELSE heard[k]]

Reads ==
  /\ outbox # <<>> /\ agent = "waits" /\ Answered.id = awaits
  /\ awaits' = NoId
  /\ CASE Answered.kind = "success"  -> /\ heard' = [heard EXCEPT ![at] = "stands"]
                                        /\ at' = Answered.next /\ agent' = "plans"
       [] Answered.kind = "rollback" -> /\ heard' = Forget(Answered.to)
                                        /\ at' = Answered.next /\ agent' = "plans"
       [] Answered.kind = "view"     -> /\ heard' = Forget(Answered.next)
                                        /\ at' = Answered.next /\ agent' = "plans"
       [] Answered.kind = "order"    -> agent' = "resyncs" /\ UNCHANGED <<at, heard>>
       [] Answered.kind = "error"    -> agent' = "plans" /\ UNCHANGED <<at, heard>>
       [] OTHER                      -> agent' = Answered.kind /\ UNCHANGED <<at, heard>>
Ignores ==
  /\ outbox # <<>> /\ ~(agent = "waits" /\ Answered.id = awaits)
  /\ UNCHANGED client
Receives == /\ Reads \/ Ignores
            /\ outbox' = Tail(outbox)
            /\ UNCHANGED <<server, outcome, inbox, faults>>

Acts == Proceeds \/ Resyncs \/ Cancels \/ \E s \in Step : RollsBack(s)
SessionNext == Acts \/ GivesUp \/ Serve \/ Reap \/ Receives

SessionSpec == SessionInit /\ [][SessionNext]_session

(* The server reads stdin and the agent goes on. *)
Fair == WF_session(Serve) /\ WF_session(Receives) /\ WF_session(Proceeds \/ Resyncs)
FairSession == SessionSpec /\ Fair
-----------------------------------------------------------------------------
Kinds == {"success", "rollback", "view", "order", "error"} \cup Verdicts
SessionTypeOK ==
  /\ outcome \in {"open", "committed", "undone", "stuck"}
  /\ outcome \in {"open", "stuck"} <=> Open
  /\ inbox \in Seq([op : {"run_step", "commit", "back", "abort", "get"}, step : 1 .. (MaxStep + 1),
                    id : Id, based : BOOLEAN])
  /\ outbox \in Seq([id : Id, kind : Kinds, to : 0 .. MaxStep, next : 0 .. (MaxStep + 1)])
  /\ agent \in {"plans", "waits", "resyncs"} \cup Verdicts
  /\ awaits \in Id \cup {NoId} /\ (agent = "waits" <=> awaits # NoId)
  /\ at \in 1 .. (MaxStep + 1)
  /\ heard \in [Step -> {"none", "stands", "undone"}]
  /\ faults \in 0 .. MaxFaults

(* "Always using next_step_id from the previous response": when everything *)
(* the agent sent was answered and read, and it waited for every answer, it*)
(* goes by the server's next step, holds no output that was undone, and has*)
(* forgotten every step it has to do again, unless the transaction ended.  *)
(* However many answers it did not wait for, one whose outputs were undone *)
(* is ahead of the server, which refuses the step it would do next.        *)
Quiet  == inbox = <<>> /\ outbox = <<>> /\ Open
InStep == /\ Quiet /\ agent = "plans" /\ faults = 0 =>
               /\ at = next
               /\ \A k \in Step : heard[k] = IF k < next THEN "stands" ELSE "none"
          /\ Open /\ at <= next =>
               \A k \in Step : heard[k] # "none" => k < next /\ heard[k] = "stands"

(* What the agent waits for is under way: one request or one answer bears  *)
(* its id.                                                                 *)
Awaited == agent = "waits" =>
             Cardinality({i \in DOMAIN inbox : inbox[i].id = awaits}) +
             Cardinality({i \in DOMAIN outbox : outbox[i].id = awaits}) = 1

(* The agent is right about how its transaction ended, and a commit has    *)
(* published its whole task.                                               *)
VerdictTrue ==
  /\ agent = "committed" => outcome = "committed"
  /\ agent \in {"failed", "cancelled", "conflict"} => outcome = "undone"
SessionInv == SessionTypeOK /\ InStep /\ Awaited /\ VerdictTrue

(* A step runs only on a plan made from outputs that stand, although step   *)
(* ids are used again after a rollback and late requests are still served.  *)
RunsOnPlan == [][spent' # spent => Request.based]_session

(* A commit publishes the steps of the whole task, none of them undone.     *)
CommitsWhole == [][outcome' = "committed" /\ outcome = "open" =>
                     /\ next = Goal + 1
                     /\ \A k \in Step : heard[k] # "undone"]_session

=============================================================================
