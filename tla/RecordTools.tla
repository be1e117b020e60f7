----------------------------- MODULE RecordTools -----------------------------
(***************************************************************************)
(* The tool record.insert (engine/builtin_tools.rs) run by concurrent      *)
(* transactions over the store: it reads whether the row exists and, for   *)
(* every declared reference, whether the row referred to does, and then    *)
(* puts the row.  No tool deletes a row.                                   *)
(*                                                                         *)
(* Reads take no part in the validation of commit.  The reads of           *)
(* references are taken together with the base version of the put: a       *)
(* transaction never sees a row disappear, so an earlier read is no better.*)
(***************************************************************************)
EXTENDS RocksStore

CONSTANTS Rows,         \* the keys under records/, the others being those under kv/
          References    \* row -> the rows it refers to

ASSUME RecordsAssumption == Rows \subseteq Key /\ References \in [Rows -> SUBSET Rows]

VARIABLE checked     \* Tx -> the key whose first check the tool under way has passed

recordVars == <<vars, checked>>

(* get: the transaction's own write first, then the committed value. *)
SeesDirty(t, k) == committed[k] > 0 \/ \E u \in Tx : overlay[u][k].tag = "value"
Sees(t, k) == IF k \in Wrote(t) THEN overlay[t][k].tag = "value" ELSE committed[k] > 0

RecordsInit == Init /\ checked = [t \in Tx |-> Nobody]

(* An insert whose first check fails changes nothing. *)
CheckPrimaryKey(t, k) ==
  /\ Ready(t) /\ checked[t] = Nobody
  /\ k \in Rows /\ ~Sees(t, k)
  /\ checked' = [checked EXCEPT ![t] = k]
  /\ UNCHANGED vars

Refers(t, k) == \A r \in References[k] : Sees(t, r)

Insert(t) ==
  \E k \in Rows : /\ checked[t] = k /\ Refers(t, k)
                 /\ ReadBase(t, k, "value")
                 /\ checked' = [checked EXCEPT ![t] = Nobody]
ForeignKeyViolation(t) ==
  \E k \in Rows : /\ checked[t] = k /\ ~Refers(t, k)
                 /\ checked' = [checked EXCEPT ![t] = Nobody]
                 /\ UNCHANGED vars

(* kv.put, and kv.delete, which looks whether the key exists and then      *)
(* deletes it; between the two, another transaction may delete it, too.    *)
KvPut(t, k) == /\ k \notin Rows /\ checked[t] = Nobody
               /\ ReadBase(t, k, "value")
               /\ UNCHANGED checked
KvDeleteFinds(t, k) ==
  /\ Ready(t) /\ checked[t] = Nobody
  /\ k \notin Rows /\ Sees(t, k)
  /\ checked' = [checked EXCEPT ![t] = k]
  /\ UNCHANGED vars
KvDelete(t) ==
  \E k \in Key \ Rows : /\ checked[t] = k
                        /\ ReadBase(t, k, "tombstone")
                        /\ checked' = [checked EXCEPT ![t] = Nobody]

(* The other operations of a transaction wait for its tool to return. *)
Other(t) == /\ checked[t] = Nobody
            /\ \/ Begin(t) \/ ApplyWrite(t) \/ CreateSnapshot(t)
               \/ \E s \in 1 .. MaxSnapshots : RestoreSnapshot(t, s)
               \/ CommitBatch(t) \/ CommitPublish(t) \/ CommitConflict(t)
               \/ Discard(t)
            /\ UNCHANGED checked

Dies == Restart /\ checked' = [t \in Tx |-> Nobody]

RecordsNext ==
  \/ \E t \in Tx : \/ \E k \in Key : CheckPrimaryKey(t, k) \/ KvPut(t, k) \/ KvDeleteFinds(t, k)
                   \/ KvDelete(t)
                   \/ Insert(t) \/ ForeignKeyViolation(t)
                   \/ Other(t)
  \/ Dies

RecordsSpec == RecordsInit /\ [][RecordsNext]_recordVars
-----------------------------------------------------------------------------
Held == {k \in Rows : committed[k] > 0}

(* "Built-in tools enforce ... foreign keys": a committed row refers only   *)
(* to committed rows, whatever was rewound, aborted or refused meanwhile.   *)
ForeignKeysHold == \A k \in Held : References[k] \subseteq Held

(* The same within a transaction: the rows it has written, those a rewind   *)
(* may bring back and the one it is about to write refer to rows among them *)
(* or to committed ones.                                                    *)
Backed(row, slots, held) == \A r \in References[row] : slots[r].tag = "value" \/ r \in held
Consistent(slots, held) ==
  \A k \in Rows : slots[k].tag # "none" => slots[k].tag = "value" /\ Backed(k, slots, held)
WriteBacked(t) ==
  writing[t].key \in Rows =>
    /\ phase[t] = "open" /\ lock # t
    /\ writing[t].slot.tag = "value" /\ Backed(writing[t].key, overlay[t], Held)
RecordsInv ==
  /\ ForeignKeysHold
  /\ checked \in [Tx -> Key \cup {Nobody}]
  /\ \A t \in Tx : /\ Consistent(overlay[t], Held)
                   /\ \A s \in 1 .. Len(saved[t]) : Consistent(saved[t][s], Held)
                   /\ WriteBacked(t)

(* "Built-in tools enforce primary ... keys": the row of a committed insert *)
(* is never replaced by another insert.                                     *)
PrimaryKeysHold ==
  [][\A k \in Rows : committed[k] > 0 => committed'[k] = committed[k]]_recordVars
=============================================================================
