-------------------------- MODULE RecordToolsProofs --------------------------
(***************************************************************************)
(* Foreign keys hold for every set of transactions, rows and references.   *)
(***************************************************************************)
EXTENDS RecordTools, RocksStoreProofs

(* The tools go through the store's operations only: whatever they do is a  *)
(* behaviour of the store, so what it promises its callers holds for them.  *)
THEOREM ToolsRefineStore == RecordsSpec => Spec
<1>1. RecordsInit => Init
  BY DEF RecordsInit
<1>2. [RecordsNext]_recordVars => [Next]_vars
  <2>1. ASSUME NEW t \in Tx, Insert(t) PROVE Next
    BY <2>1, RecordsAssumption DEF Insert, Next
  <2>2. ASSUME NEW t \in Tx, Other(t) PROVE Next
    BY <2>2 DEF Other, Next
  <2>3. ASSUME NEW t \in Tx, NEW k \in Key, KvPut(t, k) PROVE Next
    BY <2>3 DEF KvPut, Next
  <2>4. ASSUME NEW t \in Tx, KvDelete(t) PROVE Next
    BY <2>4 DEF KvDelete, Next
  <2> QED BY <2>1, <2>2, <2>3, <2>4
          DEF RecordsNext, CheckPrimaryKey, ForeignKeyViolation, KvDeleteFinds, Dies, Next,
              recordVars
<1> QED BY <1>1, <1>2, PTL DEF RecordsSpec, Spec

(* Its invariant, that no commit of a tool's write loses an update, and    *)
(* that none is refused without a conflict.                                *)
THEOREM RecordsStoreSafe == RecordsSpec => []StoreInv /\ NoLostUpdate /\ NoSpuriousConflict
BY ToolsRefineStore, StoreSafe, CommitsLoseNoUpdate, ConflictsAreReal

(* What is consistent stays so when more rows are committed. *)
LEMMA MoreHeld ==
  ASSUME NEW held, NEW more, held \subseteq more, NEW slots
  PROVE  /\ Consistent(slots, held) => Consistent(slots, more)
         /\ \A k \in Rows : Backed(k, slots, held) => Backed(k, slots, more)
BY DEF Consistent, Backed

(* A transaction that has written nothing is consistent. *)
LEMMA NothingWritten == ASSUME NEW held PROVE Consistent(NoOverlay, held)
BY RecordsAssumption DEF Consistent, NoOverlay, Unwritten

(* A row whose references are there can be added. *)
LEMMA AddRow ==
  ASSUME NEW slots \in [Key -> Slot], NEW held, Consistent(slots, held),
         NEW k \in Rows, NEW slot \in Slot, slot.tag = "value", Backed(k, slots, held)
  PROVE  Consistent([slots EXCEPT ![k] = slot], held)
BY RecordsAssumption DEF Consistent, Backed

(* What is written under other keys is no matter to the rows. *)
LEMMA AddKey ==
  ASSUME NEW slots \in [Key -> Slot], NEW held, Consistent(slots, held),
         NEW k \in Key \ Rows, NEW slot
  PROVE  Consistent([slots EXCEPT ![k] = slot], held)
BY RecordsAssumption DEF Consistent, Backed

(* A commit publishes rows and unpublishes none, and what it publishes     *)
(* refers to what is published.                                            *)
LEMMA CommitHolds ==
  ASSUME StoreInv, RecordsInv, NEW t \in Tx, CommitBatch(t)
  PROVE  Held \subseteq Held' /\ ForeignKeysHold'
<1>1. /\ \A k \in Key : committed'[k] = IF k \notin Wrote(t) THEN committed[k]
                                        ELSE IF overlay[t][k].tag = "value" THEN version + 1 ELSE 0
      /\ version \in Nat
      /\ Consistent(overlay[t], Held)
  BY DEF CommitBatch, Stamp, StoreInv, TypeOK, RecordsInv
<1>2. \A k \in Wrote(t) \cap Rows :
        k \in Key /\ overlay[t][k].tag = "value" /\ Backed(k, overlay[t], Held)
  BY <1>1 DEF Wrote, Consistent
<1>3. \A k \in Wrote(t) \cap Rows : committed'[k] > 0
  BY <1>1, <1>2
<1>4. Held' = Held \cup (Wrote(t) \cap Rows)
  BY <1>1, <1>2, <1>3, RecordsAssumption DEF Held, Wrote
<1>5. ASSUME NEW k \in Held' PROVE References[k] \subseteq Held'
  <2>1. CASE k \in Wrote(t) \cap Rows
    BY <2>1, <1>2, <1>4, RecordsAssumption DEF Backed, Wrote
  <2>2. CASE k \in Held
    BY <2>2, <1>4 DEF RecordsInv, ForeignKeysHold
  <2> QED BY <2>1, <2>2, <1>4
<1> QED BY <1>4, <1>5 DEF ForeignKeysHold

(* Every step of a transaction, of its tool, and a restart. *)
LEMMA StepRecordsInv ==
  ASSUME StoreInv, RecordsInv, [RecordsNext]_recordVars
  PROVE  RecordsInv'
<1> USE StoreAssumption, RecordsAssumption
<1>0. TypeOK /\ Idle.key \notin Key
  BY UnwrittenSound DEF StoreInv
<1>1. ASSUME UNCHANGED <<committed, overlay, saved, writing>>,
             checked' \in [Tx -> Key \cup {Nobody}],
             \A u \in Tx : writing[u].key \in Rows => phase'[u] = phase[u] /\ lock' # u
      PROVE  RecordsInv'
  BY <1>1 DEF RecordsInv, ForeignKeysHold, Held, WriteBacked
(* A step of t leaves the others as they are, and their view of the rows   *)
(* committed only grows.                                                   *)
<1>2. ASSUME NEW t \in Tx, ForeignKeysHold', Held \subseteq Held',
             checked' \in [Tx -> Key \cup {Nobody}],
             \A u \in Tx \ {t} : /\ overlay'[u] = overlay[u] /\ saved'[u] = saved[u]
                                 /\ writing'[u] = writing[u] /\ phase'[u] = phase[u]
                                 /\ lock' # u \/ lock' = lock,
             Consistent(overlay'[t], Held'),
             \A s \in 1 .. Len(saved'[t]) : Consistent(saved'[t][s], Held'),
             WriteBacked(t)'
      PROVE  RecordsInv'
  <2>1. ASSUME NEW u \in Tx
        PROVE  /\ Consistent(overlay'[u], Held')
               /\ \A s \in 1 .. Len(saved'[u]) : Consistent(saved'[u][s], Held')
               /\ WriteBacked(u)'
    <3>1. CASE u = t
      BY <3>1, <1>2
    <3>2. CASE u # t
      <4>1. Consistent(overlay'[u], Held')
        BY <3>2, <1>2, MoreHeld DEF RecordsInv
      <4>2. \A s \in 1 .. Len(saved'[u]) : Consistent(saved'[u][s], Held')
        BY <3>2, <1>2, MoreHeld DEF RecordsInv
      <4>3. WriteBacked(u)'
        BY <3>2, <1>2, MoreHeld DEF RecordsInv, WriteBacked
      <4> QED BY <4>1, <4>2, <4>3
    <3> QED BY <3>1, <3>2
  <2> QED BY <2>1, <1>2 DEF RecordsInv
(* A step that commits nothing. *)
<1>3. ASSUME UNCHANGED committed PROVE ForeignKeysHold' /\ Held' = Held
  BY <1>3 DEF RecordsInv, ForeignKeysHold, Held
<1>4. ASSUME NEW t \in Tx, NEW k \in Key, CheckPrimaryKey(t, k) PROVE RecordsInv'
  <2>1. /\ UNCHANGED <<committed, overlay, saved, writing, phase, lock>>
        /\ checked' = [checked EXCEPT ![t] = k]
    BY <1>4 DEF CheckPrimaryKey, vars
  <2>2. checked' \in [Tx -> Key \cup {Nobody}]
    BY <2>1 DEF RecordsInv
  <2> QED BY <2>1, <2>2, <1>1 DEF RecordsInv, WriteBacked
<1>5. ASSUME NEW t \in Tx, ForeignKeyViolation(t) PROVE RecordsInv'
  <2>1. /\ UNCHANGED <<committed, overlay, saved, writing, phase, lock>>
        /\ checked' = [checked EXCEPT ![t] = Nobody]
    BY <1>5 DEF ForeignKeyViolation, vars
  <2>2. checked' \in [Tx -> Key \cup {Nobody}]
    BY <2>1 DEF RecordsInv
  <2> QED BY <2>1, <2>2, <1>1 DEF RecordsInv, WriteBacked
<1>6. ASSUME NEW t \in Tx, Insert(t) PROVE RecordsInv'
  <2>1. PICK k \in Rows : /\ Refers(t, k) /\ ReadBase(t, k, "value")
                         /\ checked' = [checked EXCEPT ![t] = Nobody]
    BY <1>6 DEF Insert
  <2>2. /\ UNCHANGED <<committed, overlay, saved, phase, lock>>
        /\ phase[t] = "open" /\ lock # t
        /\ writing' = [writing EXCEPT ![t] = [key |-> k, slot |-> NewSlot(t, k, "value")]]
    BY <2>1 DEF ReadBase, Ready
  <2>3. NewSlot(t, k, "value").tag = "value"
    BY <1>0 DEF NewSlot, TypeOK, Slot
  <2>4. Backed(k, overlay[t], Held)
    BY <2>1 DEF Refers, Sees, Backed, Held, Wrote
  <2>5. WriteBacked(t)'
    BY <2>2, <2>3, <2>4, <1>0, <1>3 DEF WriteBacked, TypeOK
  <2>6. checked' \in [Tx -> Key \cup {Nobody}]
    BY <2>1 DEF RecordsInv
  <2>7. \A u \in Tx \ {t} : writing'[u] = writing[u]
    BY <2>2, <1>0 DEF TypeOK
  <2> QED BY <2>2, <2>5, <2>6, <2>7, <1>2, <1>3 DEF RecordsInv
<1>19. ASSUME NEW t \in Tx, NEW k \in Key \ Rows, NEW tag, ReadBase(t, k, tag),
              checked' \in [Tx -> Key \cup {Nobody}]
       PROVE  RecordsInv'
  <2>1. /\ UNCHANGED <<committed, overlay, saved, phase, lock>>
        /\ writing' = [writing EXCEPT ![t] = [key |-> k, slot |-> NewSlot(t, k, tag)]]
    BY <1>19 DEF ReadBase
  <2>2. writing'[t].key \notin Rows /\ \A u \in Tx \ {t} : writing'[u] = writing[u]
    BY <2>1, <1>0 DEF TypeOK
  <2>3. WriteBacked(t)'
    BY <2>2 DEF WriteBacked
  <2> QED BY <2>1, <2>2, <2>3, <1>19, <1>2, <1>3 DEF RecordsInv
<1>20. ASSUME NEW t \in Tx, NEW k \in Key, KvPut(t, k) PROVE RecordsInv'
  <2>1. checked' \in [Tx -> Key \cup {Nobody}]
    BY <1>20 DEF KvPut, RecordsInv
  <2> QED BY <2>1, <1>19, <1>20 DEF KvPut
<1>21. ASSUME NEW t \in Tx, NEW k \in Key, KvDeleteFinds(t, k) PROVE RecordsInv'
  <2>1. /\ UNCHANGED <<committed, overlay, saved, writing, phase, lock>>
        /\ checked' = [checked EXCEPT ![t] = k]
    BY <1>21 DEF KvDeleteFinds, vars
  <2>2. checked' \in [Tx -> Key \cup {Nobody}]
    BY <2>1 DEF RecordsInv
  <2> QED BY <2>1, <2>2, <1>1 DEF RecordsInv, WriteBacked
<1>22. ASSUME NEW t \in Tx, KvDelete(t) PROVE RecordsInv'
  <2>1. PICK k \in Key \ Rows : /\ ReadBase(t, k, "tombstone")
                                /\ checked' = [checked EXCEPT ![t] = Nobody]
    BY <1>22 DEF KvDelete
  <2>2. checked' \in [Tx -> Key \cup {Nobody}]
    BY <2>1 DEF RecordsInv
  <2> QED BY <2>1, <2>2, <1>19
<1>7. ASSUME NEW t \in Tx, UNCHANGED checked, Begin(t) PROVE RecordsInv'
  <2>1. /\ UNCHANGED <<committed, overlay, writing, lock>> /\ phase[t] = "unborn"
        /\ saved' = [saved EXCEPT ![t] = <<NoOverlay>>]
        /\ phase' = [phase EXCEPT ![t] = "open"]
    BY <1>7 DEF Begin
  <2>2. WriteBacked(t)'
    BY <2>1 DEF RecordsInv, WriteBacked
  <2>3. saved'[t] = <<NoOverlay>>
    BY <2>1, <1>0 DEF TypeOK
  <2>4. \A s \in 1 .. Len(saved'[t]) : Consistent(saved'[t][s], Held')
    BY <2>3, NothingWritten
  <2>5. \A u \in Tx \ {t} : saved'[u] = saved[u] /\ phase'[u] = phase[u]
    BY <2>1, <1>0 DEF TypeOK
  <2> QED BY <2>1, <2>2, <2>4, <2>5, <1>7, <1>2, <1>3 DEF RecordsInv
<1>8. ASSUME NEW t \in Tx, UNCHANGED checked, ApplyWrite(t) PROVE RecordsInv'
  <2>1. /\ UNCHANGED <<committed, saved, phase, lock>> /\ writing[t].key \in Key
        /\ writing' = [writing EXCEPT ![t] = Idle]
        /\ \/ overlay' = [overlay EXCEPT ![t][writing[t].key] = writing[t].slot]
           \/ UNCHANGED overlay
    BY <1>8 DEF ApplyWrite
  <2> DEFINE row == [overlay[t] EXCEPT ![writing[t].key] = writing[t].slot]
  <2>2. row \in [Key -> Slot] /\ Consistent(row, Held)
    <3>1. /\ overlay[t] \in [Key -> Slot] /\ writing[t].slot \in Slot
          /\ Consistent(overlay[t], Held) /\ row \in [Key -> Slot]
      BY <2>1, <1>0 DEF TypeOK, RecordsInv
    <3>2. CASE writing[t].key \in Rows
      <4>1. writing[t].slot.tag = "value" /\ Backed(writing[t].key, overlay[t], Held)
        BY <3>2 DEF RecordsInv, WriteBacked
      <4> QED BY <3>1, <3>2, <4>1, AddRow
    <3>3. CASE writing[t].key \notin Rows
      BY <3>1, <3>3, <2>1, AddKey
    <3> QED BY <3>1, <3>2, <3>3
  <2>3. overlay' = overlay \/ overlay' = [overlay EXCEPT ![t] = row]
    BY <2>1, <1>0 DEF TypeOK
  <2> HIDE DEF row
  <2>4. Consistent(overlay'[t], Held) /\ \A u \in Tx \ {t} : overlay'[u] = overlay[u]
    BY <2>2, <2>3, <1>0 DEF TypeOK, RecordsInv
  <2>5. writing'[t] = Idle /\ \A u \in Tx \ {t} : writing'[u] = writing[u]
    BY <2>1, <1>0 DEF TypeOK
  <2>6. WriteBacked(t)'
    BY <2>5, <1>0 DEF WriteBacked
  <2> QED BY <2>1, <2>4, <2>5, <2>6, <1>8, <1>2, <1>3 DEF RecordsInv
<1>9. ASSUME NEW t \in Tx, UNCHANGED checked, CreateSnapshot(t) PROVE RecordsInv'
  <2>1. /\ UNCHANGED <<committed, overlay, writing, phase, lock>> /\ writing[t] = Idle
        /\ saved' = [saved EXCEPT ![t] = Append(@, overlay[t])]
    BY <1>9 DEF CreateSnapshot, Ready
  <2>2. \A u \in Tx \ {t} : saved'[u] = saved[u]
    BY <2>1, <1>0 DEF TypeOK
  <2>3. \A s \in 1 .. Len(saved'[t]) :
          \/ s \in 1 .. Len(saved[t]) /\ saved'[t][s] = saved[t][s]
          \/ saved'[t][s] = overlay[t]
    BY <2>1, <1>0 DEF TypeOK
  <2>4. \A s \in 1 .. Len(saved'[t]) : Consistent(saved'[t][s], Held')
    BY <2>1, <2>3, <1>3 DEF RecordsInv
  <2>5. WriteBacked(t)'
    BY <2>1, <1>0 DEF WriteBacked
  <2> QED BY <2>1, <2>2, <2>4, <2>5, <1>9, <1>2, <1>3 DEF RecordsInv
<1>10. ASSUME NEW t \in Tx, UNCHANGED checked, NEW s \in 1 .. MaxSnapshots,
              RestoreSnapshot(t, s)
       PROVE  RecordsInv'
  <2>1. /\ UNCHANGED <<committed, writing, phase, lock>> /\ writing[t] = Idle
        /\ s \in 1 .. Len(saved[t])
        /\ overlay' = [overlay EXCEPT ![t] = saved[t][s]]
        /\ saved' = [saved EXCEPT ![t] = SubSeq(@, 1, s)]
    BY <1>10 DEF RestoreSnapshot, Ready
  <2>2. \A u \in Tx \ {t} : saved'[u] = saved[u] /\ overlay'[u] = overlay[u]
    BY <2>1, <1>0 DEF TypeOK
  <2>3. /\ overlay'[t] = saved[t][s]
        /\ \A i \in 1 .. Len(saved'[t]) : i \in 1 .. Len(saved[t]) /\ saved'[t][i] = saved[t][i]
    BY <2>1, <1>0 DEF TypeOK
  <2>4. /\ Consistent(overlay'[t], Held')
        /\ \A i \in 1 .. Len(saved'[t]) : Consistent(saved'[t][i], Held')
    BY <2>1, <2>3, <1>3 DEF RecordsInv
  <2>5. WriteBacked(t)'
    BY <2>1, <1>0 DEF WriteBacked
  <2> QED BY <2>1, <2>2, <2>4, <2>5, <1>10, <1>2, <1>3 DEF RecordsInv
<1>11. ASSUME NEW t \in Tx, Forget(t)
       PROVE  /\ \A u \in Tx \ {t} : saved'[u] = saved[u] /\ overlay'[u] = overlay[u]
              /\ overlay'[t] = NoOverlay /\ saved'[t] = <<>>
  BY <1>11, <1>0 DEF Forget, TypeOK
<1>12. ASSUME NEW t \in Tx, UNCHANGED checked, CommitBatch(t) PROVE RecordsInv'
  <2>1. /\ UNCHANGED <<writing, phase>> /\ writing[t] = Idle /\ lock' = t /\ Forget(t)
    BY <1>12 DEF CommitBatch, Ready
  <2>2. WriteBacked(t)'
    BY <2>1, <1>0 DEF WriteBacked
  <2>3. /\ Consistent(overlay'[t], Held')
        /\ \A i \in 1 .. Len(saved'[t]) : Consistent(saved'[t][i], Held')
    BY <2>1, <1>11, NothingWritten
  <2>4. Held \subseteq Held' /\ ForeignKeysHold'
    BY <1>12, CommitHolds
  <2> QED BY <2>1, <2>2, <2>3, <2>4, <1>11, <1>12, <1>2 DEF RecordsInv
<1>13. ASSUME NEW t \in Tx, UNCHANGED checked, CommitPublish(t) PROVE RecordsInv'
  <2>1. /\ UNCHANGED <<committed, overlay, saved, writing>> /\ lock = t /\ lock' = Nobody
        /\ phase' = [phase EXCEPT ![t] = "committed"]
    BY <1>13 DEF CommitPublish
  <2>2. \A u \in Tx : writing[u].key \in Rows => u # t
    BY <2>1 DEF RecordsInv, WriteBacked
  <2>3. \A u \in Tx : writing[u].key \in Rows => phase'[u] = phase[u] /\ lock' # u
    BY <2>1, <2>2, <1>0 DEF TypeOK
  <2> QED BY <2>1, <2>3, <1>13, <1>1 DEF RecordsInv
<1>14. ASSUME NEW t \in Tx, UNCHANGED checked, CommitConflict(t) PROVE RecordsInv'
  <2>1. /\ UNCHANGED <<committed, overlay, saved, writing, lock>> /\ writing[t] = Idle
        /\ phase' = [phase EXCEPT ![t] = "conflict"]
    BY <1>14 DEF CommitConflict, Ready
  <2>2. \A u \in Tx : writing[u].key \in Rows => phase'[u] = phase[u] /\ lock' # u
    BY <2>1, <1>0 DEF TypeOK, RecordsInv, WriteBacked
  <2> QED BY <2>1, <2>2, <1>14, <1>1 DEF RecordsInv
<1>15. ASSUME NEW t \in Tx, UNCHANGED checked, Discard(t) PROVE RecordsInv'
  <2>1. /\ UNCHANGED <<committed, writing, lock>> /\ Forget(t)
        /\ phase' = [phase EXCEPT ![t] = "aborted"]
        /\ writing[t] = Idle \/ phase[t] # "open"
    BY <1>15 DEF Discard, Ready
  <2>2. writing[t].key \notin Rows
    BY <2>1, <1>0 DEF RecordsInv, WriteBacked
  <2>3. WriteBacked(t)'
    BY <2>1, <2>2 DEF WriteBacked
  <2>4. /\ Consistent(overlay'[t], Held')
        /\ \A i \in 1 .. Len(saved'[t]) : Consistent(saved'[t][i], Held')
    BY <2>1, <1>11, NothingWritten
  <2>5. \A u \in Tx \ {t} : phase'[u] = phase[u]
    BY <2>1, <1>0 DEF TypeOK
  <2> QED BY <2>1, <2>3, <2>4, <2>5, <1>11, <1>15, <1>2, <1>3 DEF RecordsInv
<1>16. CASE Dies
  <2>1. /\ UNCHANGED <<committed, overlay, saved>>
        /\ \A u \in Tx : writing'[u] = Idle
        /\ checked' \in [Tx -> Key \cup {Nobody}]
    BY <1>16 DEF Dies, Restart
  <2>2. \A u \in Tx : WriteBacked(u)'
    BY <2>1, <1>0 DEF WriteBacked
  <2> QED BY <2>1, <2>2, <1>3 DEF RecordsInv
<1>17. CASE UNCHANGED recordVars
  <2>1. UNCHANGED <<committed, overlay, saved, writing, phase, lock, checked>>
    BY <1>17 DEF recordVars, vars
  <2> QED BY <2>1, <1>1 DEF RecordsInv, WriteBacked
<1>18. ASSUME NEW t \in Tx, Other(t) PROVE RecordsInv'
  BY <1>18, <1>7, <1>8, <1>9, <1>10, <1>12, <1>13, <1>14, <1>15 DEF Other
<1> QED BY <1>4, <1>5, <1>6, <1>16, <1>17, <1>18, <1>20, <1>21, <1>22 DEF RecordsNext

(* The rows a transaction holds, or may get back by a rewind, refer to rows *)
(* among them or committed, in every state.                                 *)
THEOREM RecordsSafe == RecordsSpec => []RecordsInv
<1>1. RecordsInit => RecordsInv
  BY NothingWritten, UnwrittenSound, RecordsAssumption
  DEF RecordsInit, Init, RecordsInv, ForeignKeysHold, Held, WriteBacked
<1> QED BY <1>1, StepRecordsInv, RecordsStoreSafe, PTL DEF RecordsSpec

(* A committed row refers only to committed rows. *)
THEOREM CommittedRowsRefer == RecordsSpec => []ForeignKeysHold
<1>1. RecordsInv => ForeignKeysHold
  BY DEF RecordsInv
<1> QED BY <1>1, RecordsSafe, PTL
=============================================================================
