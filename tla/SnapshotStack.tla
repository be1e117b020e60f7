--------------------------- MODULE SnapshotStack ---------------------------
(***************************************************************************)
(* What the snapshots of one transaction promise (docs of create_snapshot  *)
(* and restore_snapshot in storage/rocks.rs): a snapshot of step s is a    *)
(* full copy of the transaction's private data taken before s runs, and    *)
(* restoring it brings exactly that copy back, drops every later snapshot  *)
(* and keeps the restored one.  The implementation, UndoJournal, keeps no  *)
(* copy: only a pointer into an undo journal.                              *)
(***************************************************************************)
EXTENDS Naturals

CONSTANTS Key,      \* raw keys of the transaction's private range "x/{tx}/"
          Val,      \* raw values
          Absent,   \* the raw key does not exist
          Steps     \* step ids, 0 for the snapshot taken at begin

VARIABLES data,     \* the private data: overlay and step outputs
          saved     \* step id -> copy of data, for every live snapshot

vars == <<data, saved>>

UpTo(s) == {t \in DOMAIN saved : t <= s}

Init == /\ data = [k \in Key |-> Absent]
        /\ saved = [s \in {} |-> data]

Write(k, v) == /\ data' = [data EXCEPT ![k] = v]
               /\ UNCHANGED saved

Capture(s) == /\ saved' = [t \in DOMAIN saved \cup {s} |->
                             IF t = s THEN data ELSE saved[t]]
              /\ UNCHANGED data

Restore(s) == /\ s \in DOMAIN saved
              /\ data' = saved[s]
              /\ saved' = [t \in UpTo(s) |-> saved[t]]

Discard == /\ data' = [k \in Key |-> Absent]
           /\ saved' = [s \in {} |-> data]

Next == \/ \E k \in Key, v \in Val : Write(k, v)
        \/ \E s \in Steps : Capture(s) \/ Restore(s)
        \/ Discard

Spec == Init /\ [][Next]_vars
=============================================================================
