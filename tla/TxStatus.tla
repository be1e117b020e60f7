------------------------------- MODULE TxStatus -------------------------------
(***************************************************************************)
(* The life cycle of a transaction as its status declares it               *)
(* (engine/state_machine.rs): what the engine promises of every            *)
(* transaction, whatever fails, is dropped, or crashes under way.          *)
(*                                                                         *)
(* "NONE" is a transaction before begin has answered.  One that begin made *)
(* a record of but did not open is to be rolled back, as presumed abort    *)
(* has it of every transaction that a crash finds uncommitted.             *)
(***************************************************************************)
VARIABLE status

Statuses == {"NONE", "ACTIVE", "EXECUTING", "ROLLING_BACK", "COMMITTING",
             "COMMITTED", "ROLLED_BACK", "FAILED"}

Successors == [s \in Statuses |->
  CASE s = "NONE"         -> {"ACTIVE", "ROLLING_BACK"}
    [] s = "ACTIVE"       -> {"EXECUTING", "COMMITTING", "ROLLING_BACK"}
    [] s = "EXECUTING"    -> {"ACTIVE", "ROLLING_BACK"}
    [] s = "ROLLING_BACK" -> {"ACTIVE", "ROLLED_BACK", "FAILED"}
    [] s = "COMMITTING"   -> {"COMMITTED", "ACTIVE", "ROLLING_BACK"}
    [] OTHER              -> {}]

Init == status = "NONE"
Next == status' \in Successors[status]
Spec == Init /\ [][Next]_status
=============================================================================
