-------------------------- MODULE RocksStoreProofs --------------------------
(***************************************************************************)
(* First-committer-wins for every set of transactions and keys: the        *)
(* version invariant of the store, what it means for a commit that goes    *)
(* through, and that one is refused for no other reason.                   *)
(***************************************************************************)
EXTENDS RocksStore, TLAPS

(* The store's invariant holds initially. *)
LEMMA InitStoreInv == Init => StoreInv
BY StoreAssumption
DEF Init, StoreInv, TypeOK, VersionsOK, SlotsSound, Sound, Slot, Unwritten, Idle, NoOverlay

(* An entry that was never written is of the right type, and is sound      *)
(* whatever is committed.                                                  *)
LEMMA UnwrittenSound ==
  /\ NoOverlay \in [Key -> Slot]
  /\ \A k \in Key, ver, top, n \in Nat : Sound(NoOverlay[k], ver, top, n)
  /\ Idle \in [key : Key \cup {Nobody}, slot : Slot] /\ Idle.key \notin Key
BY StoreAssumption DEF NoOverlay, Unwritten, Slot, Sound, Idle

(* The entry a write is about to make is sound. *)
LEMMA NewSlotSound ==
  ASSUME StoreInv, NEW t \in Tx, NEW k \in Key, NEW tag \in {"value", "tombstone"}
  PROVE  /\ NewSlot(t, k, tag) \in Slot
         /\ Sound(NewSlot(t, k, tag), committed[k], durable, changes[k])
<1>1. overlay[t][k] \in Slot /\ Sound(overlay[t][k], committed[k], durable, changes[k])
  BY DEF StoreInv, TypeOK, SlotsSound
<1>2. committed[k] \in Nat /\ committed[k] <= durable /\ changes[k] \in Nat
  BY DEF StoreInv, TypeOK, VersionsOK
<1>3. CASE k \notin Wrote(t)
  BY <1>2, <1>3 DEF NewSlot, Slot, Sound
<1>4. CASE k \in Wrote(t)
  <2>1. NewSlot(t, k, tag) = [tag |-> tag, base |-> overlay[t][k].base, at |-> overlay[t][k].at]
    BY <1>1, <1>4 DEF NewSlot, Slot
  <2> QED BY <2>1, <1>1 DEF Slot, Sound
<1> QED BY <1>3, <1>4

(* A commit keeps every other entry sound: its stamp is above every base   *)
(* version there is.                                                       *)
LEMMA CommitKeepsSound ==
  ASSUME StoreInv, NEW t \in Tx, CommitBatch(t), NEW k \in Key, NEW slot \in Slot,
         Sound(slot, committed[k], durable, changes[k])
  PROVE  Sound(slot, committed'[k], durable', changes'[k])
<1>1. /\ durable' = durable + 1 /\ durable \in Nat
      /\ committed'[k] \in {committed[k], durable + 1, 0}
      /\ changes'[k] = IF committed'[k] # committed[k] THEN changes[k] + 1 ELSE changes[k]
      /\ committed[k] \in Nat /\ committed[k] <= durable /\ changes[k] \in Nat
  BY DEF CommitBatch, StoreInv, TypeOK, VersionsOK, Stamp
<1>2. slot.base \in Nat /\ slot.at \in Nat
  BY DEF Slot
<1> QED BY <1>1, <1>2 DEF Sound

(* Every step keeps the types. *)
LEMMA StepTypeOK == ASSUME StoreInv, [Next]_vars PROVE TypeOK'
<1> USE StoreAssumption DEF StoreInv, TypeOK
<1>1. ASSUME NEW t \in Tx, Begin(t) PROVE TypeOK'
  <2>1. saved' = [saved EXCEPT ![t] = <<NoOverlay>>] /\ NoOverlay \in [Key -> Slot]
    BY <1>1, UnwrittenSound DEF Begin
  <2> QED BY <2>1, <1>1 DEF Begin
<1>2. ASSUME NEW t \in Tx, NEW k \in Key, NEW tag \in {"value", "tombstone"},
             ReadBase(t, k, tag)
      PROVE  TypeOK'
  <2>1. [key |-> k, slot |-> NewSlot(t, k, tag)] \in [key : Key \cup {Nobody}, slot : Slot]
    BY NewSlotSound
  <2>2. /\ writing' = [writing EXCEPT ![t] = [key |-> k, slot |-> NewSlot(t, k, tag)]]
        /\ UNCHANGED <<committed, durable, version, lock, overlay, saved, phase, changes>>
    BY <1>2 DEF ReadBase
  <2>3. writing' \in [Tx -> [key : Key \cup {Nobody}, slot : Slot]]
    BY <2>1, <2>2
  <2> QED BY <2>2, <2>3
<1>3. ASSUME NEW t \in Tx, ApplyWrite(t) PROVE TypeOK'
  <2>1. writing' \in [Tx -> [key : Key \cup {Nobody}, slot : Slot]]
    <3>1. writing' = [writing EXCEPT ![t] = Idle]
      BY <1>3 DEF ApplyWrite
    <3> QED BY <3>1, UnwrittenSound
  <2>2. writing[t].key \in Key /\ writing[t].slot \in Slot
    BY <1>3 DEF ApplyWrite
  <2> DEFINE row == [overlay[t] EXCEPT ![writing[t].key] = writing[t].slot]
  <2>3. overlay' \in [Tx -> [Key -> Slot]]
    <3>1. row \in [Key -> Slot]
      BY <2>2
    <3>2. overlay' = overlay \/ overlay' = [overlay EXCEPT ![t] = row]
      BY <1>3, <2>2 DEF ApplyWrite
    <3> HIDE DEF row
    <3> QED BY <3>1, <3>2
  <2> QED BY <1>3, <2>1, <2>3 DEF ApplyWrite
<1>4. ASSUME NEW t \in Tx, CreateSnapshot(t) PROVE TypeOK'
  BY <1>4 DEF CreateSnapshot
<1>5. ASSUME NEW t \in Tx, NEW s \in 1 .. MaxSnapshots, RestoreSnapshot(t, s) PROVE TypeOK'
  <2>1. saved[t][s] \in [Key -> Slot] /\ SubSeq(saved[t], 1, s) \in Seq([Key -> Slot])
    BY <1>5 DEF RestoreSnapshot
  <2> QED BY <2>1, <1>5 DEF RestoreSnapshot
<1>6. ASSUME NEW t \in Tx, CommitBatch(t) PROVE TypeOK'
  BY <1>6, UnwrittenSound DEF CommitBatch, Forget, Stamp
<1>7. ASSUME NEW t \in Tx, CommitPublish(t) PROVE TypeOK'
  BY <1>7 DEF CommitPublish, Stamp
<1>8. ASSUME NEW t \in Tx, CommitConflict(t) PROVE TypeOK'
  BY <1>8 DEF CommitConflict
<1>9. ASSUME NEW t \in Tx, Discard(t) PROVE TypeOK'
  BY <1>9, UnwrittenSound DEF Discard, Forget
<1>10. CASE Restart
  BY <1>10, UnwrittenSound DEF Restart
<1>11. CASE UNCHANGED vars
  BY <1>11 DEF vars
<1> HIDE StoreAssumption DEF StoreInv, TypeOK
<1> QED BY <1>1, <1>2, <1>3, <1>4, <1>5, <1>6, <1>7, <1>8, <1>9, <1>10, <1>11 DEF Next

(* Every step keeps commit_version one with the disk, or one behind it     *)
(* while a commit is under way, and above every stamp.                     *)
LEMMA StepVersionsOK == ASSUME StoreInv, [Next]_vars PROVE VersionsOK'
<1> USE StoreAssumption DEF StoreInv, TypeOK, VersionsOK
<1>1. ASSUME NEW t \in Tx, CommitBatch(t) PROVE VersionsOK'
  <2>1. /\ version = durable /\ lock' = t /\ t # Nobody
        /\ durable' = durable + 1 /\ version' = version
        /\ \A k \in Key : committed'[k] \in {committed[k], durable + 1, 0}
    BY <1>1 DEF CommitBatch, Stamp
  <2>2. durable \in Nat /\ \A k \in Key : committed[k] \in Nat /\ committed[k] <= durable
    OBVIOUS
  <2> HIDE DEF StoreInv, TypeOK, VersionsOK
  <2>3. \A k \in Key : committed'[k] <= durable'
    BY <2>1, <2>2
  <2>4. version' = IF lock' = Nobody THEN durable' ELSE durable' - 1
    BY <2>1, <2>2
  <2> QED BY <2>3, <2>4 DEF VersionsOK
<1>2. ASSUME NEW t \in Tx, CommitPublish(t) PROVE VersionsOK'
  BY <1>2 DEF CommitPublish, Stamp
<1>3. CASE Restart
  BY <1>3 DEF Restart
<1>4. ASSUME UNCHANGED <<version, durable, lock, committed>> PROVE VersionsOK'
  BY <1>4
<1> QED BY <1>1, <1>2, <1>3, <1>4
        DEF Next, vars, Begin, ReadBase, ApplyWrite, CreateSnapshot, RestoreSnapshot,
            CommitConflict, Discard

(* Where the entries of a step's result come from: each is one there was, *)
(* the one a write has in hand, or an unwritten one.                       *)
Moved ==
  /\ \A u \in Tx, k \in Key :
       \/ overlay'[u][k] = overlay[u][k]
       \/ overlay'[u][k] = NoOverlay[k]
       \/ \E s \in 1 .. Len(saved[u]) : overlay'[u][k] = saved[u][s][k]
       \/ writing[u].key = k /\ overlay'[u][k] = writing[u].slot
  /\ \A u \in Tx, k \in Key : \A s \in 1 .. Len(saved'[u]) :
       \/ s \in 1 .. Len(saved[u]) /\ saved'[u][s][k] = saved[u][s][k]
       \/ saved'[u][s][k] = overlay[u][k]
       \/ saved'[u][s][k] = NoOverlay[k]
  /\ \A u \in Tx, k \in Key : writing'[u].key = k =>
       \/ writing'[u] = writing[u]
       \/ \E tag \in {"value", "tombstone"} : writing'[u].slot = NewSlot(u, k, tag)

(* And every action takes them from there. *)
LEMMA StepMoves == ASSUME StoreInv, [Next]_vars PROVE Moved
<1> USE StoreAssumption
<1>0. /\ TypeOK /\ NoOverlay \in [Key -> Slot] /\ Idle.key \notin Key
  BY UnwrittenSound DEF StoreInv
<1>1. ASSUME NEW t \in Tx, Begin(t) PROVE Moved
  <2>1. /\ UNCHANGED <<committed, durable, changes, overlay, writing>>
        /\ saved' = [saved EXCEPT ![t] = <<NoOverlay>>]
    BY <1>1 DEF Begin
  <2>2. \A u \in Tx : \/ saved'[u] = saved[u]
                      \/ Len(saved'[u]) = 1 /\ saved'[u][1] = NoOverlay
    BY <2>1 DEF TypeOK, StoreInv
  <2>3. \A u \in Tx, k \in Key : \A s \in 1 .. Len(saved'[u]) :
          \/ s \in 1 .. Len(saved[u]) /\ saved'[u][s][k] = saved[u][s][k]
          \/ saved'[u][s][k] = NoOverlay[k]
    BY <2>2
  <2> QED BY <2>1, <2>3 DEF Moved
<1>2. ASSUME NEW t \in Tx, NEW k \in Key, NEW tag \in {"value", "tombstone"},
             ReadBase(t, k, tag)
      PROVE  Moved
  <2>1. /\ UNCHANGED <<committed, durable, changes, overlay, saved>>
        /\ writing' = [writing EXCEPT ![t] = [key |-> k, slot |-> NewSlot(t, k, tag)]]
    BY <1>2 DEF ReadBase
  <2>2. \A u \in Tx, l \in Key : writing'[u].key = l =>
          \/ writing'[u] = writing[u]
          \/ \E g \in {"value", "tombstone"} : writing'[u].slot = NewSlot(u, l, g)
    BY <2>1, <1>0 DEF TypeOK
  <2> QED BY <2>1, <2>2 DEF Moved
<1>3. ASSUME NEW t \in Tx, ApplyWrite(t) PROVE Moved
  <2>1. /\ UNCHANGED <<committed, durable, changes, saved>> /\ writing[t].key \in Key
        /\ writing' = [writing EXCEPT ![t] = Idle]
        /\ \/ overlay' = [overlay EXCEPT ![t][writing[t].key] = writing[t].slot]
           \/ UNCHANGED overlay
    BY <1>3 DEF ApplyWrite
  <2> DEFINE row == [overlay[t] EXCEPT ![writing[t].key] = writing[t].slot]
  <2>2. \A u \in Tx, k \in Key :
          \/ overlay'[u][k] = overlay[u][k]
          \/ writing[u].key = k /\ overlay'[u][k] = writing[u].slot
    <3> TAKE u \in Tx, k \in Key
    <3>1. overlay' = overlay \/ overlay' = [overlay EXCEPT ![t] = row]
      BY <2>1, <1>0 DEF TypeOK
    <3>2. row[k] = IF k = writing[t].key THEN writing[t].slot ELSE overlay[t][k]
      BY <1>0 DEF TypeOK
    <3> HIDE DEF row
    <3> QED BY <3>1, <3>2, <1>0 DEF TypeOK
  <2>3. \A u \in Tx, k \in Key : writing'[u].key = k => writing'[u] = writing[u]
    <3> TAKE u \in Tx, k \in Key
    <3>1. writing'[u] = IF u = t THEN Idle ELSE writing[u]
      BY <2>1, <1>0 DEF TypeOK
    <3> QED BY <3>1, <1>0
  <2> QED BY <2>1, <2>2, <2>3 DEF Moved
<1>4. ASSUME NEW t \in Tx, CreateSnapshot(t) PROVE Moved
  <2>1. /\ UNCHANGED <<committed, durable, changes, overlay, writing>>
        /\ saved' = [saved EXCEPT ![t] = Append(@, overlay[t])]
    BY <1>4 DEF CreateSnapshot
  <2>2. \A u \in Tx : \A s \in 1 .. Len(saved'[u]) :
          \/ s \in 1 .. Len(saved[u]) /\ saved'[u][s] = saved[u][s]
          \/ saved'[u][s] = overlay[u]
    BY <2>1, <1>0 DEF TypeOK
  <2>3. \A u \in Tx, k \in Key : \A s \in 1 .. Len(saved'[u]) :
          \/ s \in 1 .. Len(saved[u]) /\ saved'[u][s][k] = saved[u][s][k]
          \/ saved'[u][s][k] = overlay[u][k]
    BY <2>2
  <2> QED BY <2>1, <2>3 DEF Moved
<1>5. ASSUME NEW t \in Tx, NEW s \in 1 .. MaxSnapshots, RestoreSnapshot(t, s)
      PROVE  Moved
  <2>1. /\ UNCHANGED <<committed, durable, changes, writing>> /\ s \in 1 .. Len(saved[t])
        /\ overlay' = [overlay EXCEPT ![t] = saved[t][s]]
        /\ saved' = [saved EXCEPT ![t] = SubSeq(@, 1, s)]
    BY <1>5 DEF RestoreSnapshot
  <2>2. \A u \in Tx : \A i \in 1 .. Len(saved'[u]) :
          i \in 1 .. Len(saved[u]) /\ saved'[u][i] = saved[u][i]
    BY <2>1, <1>0 DEF TypeOK
  <2>3. \A u \in Tx, k \in Key :
          \/ overlay'[u][k] = overlay[u][k]
          \/ \E i \in 1 .. Len(saved[u]) : overlay'[u][k] = saved[u][i][k]
    BY <2>1, <1>0 DEF TypeOK
  <2> QED BY <2>1, <2>2, <2>3 DEF Moved
<1>6. ASSUME NEW t \in Tx, Forget(t)
      PROVE  /\ \A u \in Tx, k \in Key : overlay'[u][k] \in {overlay[u][k], NoOverlay[k]}
             /\ \A u \in Tx : \A s \in 1 .. Len(saved'[u]) :
                  s \in 1 .. Len(saved[u]) /\ saved'[u][s] = saved[u][s]
  BY <1>6, <1>0 DEF Forget, TypeOK
<1>7. ASSUME NEW t \in Tx, CommitBatch(t) PROVE Moved
  <2>1. UNCHANGED writing /\ Forget(t)
    BY <1>7 DEF CommitBatch
  <2> QED BY <2>1, <1>6 DEF Moved
<1>8. ASSUME NEW t \in Tx, Discard(t) PROVE Moved
  <2>1. UNCHANGED <<committed, durable, changes, writing>> /\ Forget(t)
    BY <1>8 DEF Discard
  <2> QED BY <2>1, <1>6 DEF Moved
<1>9. CASE Restart
  <2>1. /\ UNCHANGED <<committed, durable, changes, overlay, saved>>
        /\ \A u \in Tx : writing'[u] = Idle
    BY <1>9 DEF Restart
  <2> QED BY <2>1, <1>0 DEF Moved
<1>10. ASSUME UNCHANGED <<overlay, saved, writing>> PROVE Moved
  BY <1>10 DEF Moved
<1> QED BY <1>1, <1>2, <1>3, <1>4, <1>5, <1>7, <1>8, <1>9, <1>10
        DEF Next, vars, CommitPublish, CommitConflict

(* Only a commit batch changes what is committed, and no write is made     *)
(* in the same step.                                                       *)
LEMMA OnlyBatches ==
  ASSUME [Next]_vars
  PROVE  \/ UNCHANGED <<committed, durable, changes>>
         \/ \E t \in Tx : CommitBatch(t) /\ UNCHANGED writing
BY DEF Next, vars, Begin, ReadBase, ApplyWrite, CreateSnapshot, RestoreSnapshot, CommitBatch,
       CommitPublish, CommitConflict, Discard, Restart

(* Every step keeps every entry sound, those a rewind may bring back too.  *)
LEMMA StepSlotsSound == ASSUME StoreInv, [Next]_vars PROVE SlotsSound'
<1> SUFFICES ASSUME NEW u \in Tx, NEW k \in Key
             PROVE  /\ Sound(overlay'[u][k], committed'[k], durable', changes'[k])
                    /\ \A s \in 1 .. Len(saved'[u]) :
                         Sound(saved'[u][s][k], committed'[k], durable', changes'[k])
                    /\ writing'[u].key = k =>
                         Sound(writing'[u].slot, committed'[k], durable', changes'[k])
  BY DEF SlotsSound
<1>1. Moved
  BY StepMoves
<1>2. /\ overlay[u][k] \in Slot /\ NoOverlay[k] \in Slot /\ writing[u].slot \in Slot
      /\ \A s \in 1 .. Len(saved[u]) : saved[u][s][k] \in Slot
  BY UnwrittenSound DEF StoreInv, TypeOK
<1>3. ASSUME NEW slot \in Slot, Sound(slot, committed[k], durable, changes[k])
      PROVE  Sound(slot, committed'[k], durable', changes'[k])
  BY <1>3, OnlyBatches, CommitKeepsSound
<1>4. /\ Sound(overlay[u][k], committed[k], durable, changes[k])
      /\ \A s \in 1 .. Len(saved[u]) :
           Sound(saved[u][s][k], committed[k], durable, changes[k])
      /\ writing[u].key = k => Sound(writing[u].slot, committed[k], durable, changes[k])
      /\ Sound(NoOverlay[k], committed[k], durable, changes[k])
  BY UnwrittenSound DEF StoreInv, SlotsSound, TypeOK
<1>5. /\ Sound(overlay[u][k], committed'[k], durable', changes'[k])
      /\ \A s \in 1 .. Len(saved[u]) :
           Sound(saved[u][s][k], committed'[k], durable', changes'[k])
      /\ writing[u].key = k => Sound(writing[u].slot, committed'[k], durable', changes'[k])
      /\ Sound(NoOverlay[k], committed'[k], durable', changes'[k])
      /\ \A tag \in {"value", "tombstone"} :
           Sound(NewSlot(u, k, tag), committed'[k], durable', changes'[k])
  BY <1>2, <1>3, <1>4, NewSlotSound
<1>6. Sound(overlay'[u][k], committed'[k], durable', changes'[k])
  BY <1>1, <1>5 DEF Moved
<1>7. \A s \in 1 .. Len(saved'[u]) :
        Sound(saved'[u][s][k], committed'[k], durable', changes'[k])
  BY <1>1, <1>5 DEF Moved
<1>8. writing'[u].key = k => Sound(writing'[u].slot, committed'[k], durable', changes'[k])
  BY <1>1, <1>5 DEF Moved
<1> QED BY <1>6, <1>7, <1>8

(* StoreInv holds in every state: commit_version never lags the disk but   *)
(* in the middle of a commit, no stamp is given out twice, and a base      *)
(* version that matches a present value is not stale.                      *)
THEOREM StoreSafe == Spec => []StoreInv
<1>1. StoreInv /\ [Next]_vars => StoreInv'
  BY StepTypeOK, StepVersionsOK, StepSlotsSound DEF StoreInv
<1> QED BY InitStoreInv, <1>1, PTL DEF Spec

(* A commit never overwrites a committed write it has not seen, unless the *)
(* key was absent both when the transaction first wrote it and now.        *)
THEOREM CommitsLoseNoUpdate == Spec => NoLostUpdate
<1>1. StoreInv /\ [Next]_vars
      => [\A t \in Tx, k \in Key :
            Publishes(t, k) /\ (overlay[t][k].base > 0 \/ committed[k] > 0)
              => overlay[t][k].at = changes[k]]_vars
  <2> SUFFICES ASSUME StoreInv, Next, NEW t \in Tx, NEW k \in Key,
                      Publishes(t, k), overlay[t][k].base > 0 \/ committed[k] > 0
               PROVE  overlay[t][k].at = changes[k]
    BY DEF vars
  <2>1. CommitBatch(t)
    <3>1. lock = Nobody /\ lock' = t /\ lock' # lock /\ lock' # Nobody
      BY StoreAssumption DEF Publishes
    <3>2. PICK u \in Tx : CommitBatch(u)
      BY <3>1
      DEF Next, Begin, ReadBase, ApplyWrite, CreateSnapshot, RestoreSnapshot,
          CommitPublish, CommitConflict, Discard, Restart
    <3> QED BY <3>1, <3>2 DEF CommitBatch
  <2>2. committed[k] = overlay[t][k].base
    BY <2>1 DEF CommitBatch, Valid, Publishes
  <2>3. Sound(overlay[t][k], committed[k], durable, changes[k])
    BY DEF StoreInv, SlotsSound
  <2> QED BY <2>2, <2>3 DEF Sound
<1> QED BY <1>1, StoreSafe, PTL DEF Spec, NoLostUpdate

(* The other half of an entry's soundness: while no commit has changed the *)
(* key since the base version of a write was read, that version is still   *)
(* the committed one.                                                      *)
Current(slot, ver, n) == slot.tag # "none" /\ slot.at = n => slot.base = ver
BasesCurrent ==
  \A t \in Tx, k \in Key :
    /\ Current(overlay[t][k], committed[k], changes[k])
    /\ \A s \in 1 .. Len(saved[t]) : Current(saved[t][s][k], committed[k], changes[k])
    /\ writing[t].key = k => Current(writing[t].slot, committed[k], changes[k])

(* A base read now, or kept from the first write, is current or outdated. *)
LEMMA NewSlotCurrent ==
  ASSUME StoreInv, BasesCurrent, NEW t \in Tx, NEW k \in Key, NEW tag \in {"value", "tombstone"}
  PROVE  Current(NewSlot(t, k, tag), committed[k], changes[k])
<1>1. overlay[t][k] \in Slot /\ Current(overlay[t][k], committed[k], changes[k])
  BY DEF StoreInv, TypeOK, BasesCurrent
<1>2. CASE k \notin Wrote(t)
  BY <1>2 DEF NewSlot, Current
<1>3. CASE k \in Wrote(t)
  <2>1. NewSlot(t, k, tag) = [tag |-> tag, base |-> overlay[t][k].base, at |-> overlay[t][k].at]
    BY <1>1, <1>3 DEF NewSlot, Slot
  <2>2. overlay[t][k].tag # "none"
    BY <1>3 DEF Wrote
  <2> QED BY <1>1, <2>1, <2>2 DEF Current
<1> QED BY <1>2, <1>3

(* A commit that leaves a key's version alone is not counted, and one that *)
(* changes it is later than every entry.                                   *)
LEMMA CommitKeepsCurrent ==
  ASSUME StoreInv, NEW t \in Tx, CommitBatch(t), NEW k \in Key, NEW slot \in Slot,
         slot.at <= changes[k], Current(slot, committed[k], changes[k])
  PROVE  Current(slot, committed'[k], changes'[k])
<1>1. /\ changes'[k] = IF committed'[k] # committed[k] THEN changes[k] + 1 ELSE changes[k]
      /\ changes[k] \in Nat /\ slot.at \in Nat
  BY DEF CommitBatch, StoreInv, TypeOK, Slot
<1>2. CASE committed'[k] # committed[k]
  <2>1. slot.at # changes'[k]
    BY <1>1, <1>2
  <2> QED BY <2>1 DEF Current
<1>3. CASE committed'[k] = committed[k]
  BY <1>1, <1>3 DEF Current
<1> QED BY <1>2, <1>3

(* Every action keeps bases current. *)
LEMMA StepBasesCurrent == ASSUME StoreInv, BasesCurrent, [Next]_vars PROVE BasesCurrent'
<1> SUFFICES ASSUME NEW u \in Tx, NEW k \in Key
             PROVE  /\ Current(overlay'[u][k], committed'[k], changes'[k])
                    /\ \A s \in 1 .. Len(saved'[u]) :
                         Current(saved'[u][s][k], committed'[k], changes'[k])
                    /\ writing'[u].key = k =>
                         Current(writing'[u].slot, committed'[k], changes'[k])
  BY DEF BasesCurrent
<1>1. Moved
  BY StepMoves
<1>2. /\ overlay[u][k] \in Slot /\ NoOverlay[k] \in Slot /\ writing[u].slot \in Slot
      /\ \A s \in 1 .. Len(saved[u]) : saved[u][s][k] \in Slot
      /\ \A tag \in {"value", "tombstone"} : NewSlot(u, k, tag) \in Slot
  BY UnwrittenSound, NewSlotSound DEF StoreInv, TypeOK
<1>3. ASSUME NEW slot \in Slot, slot.at <= changes[k], Current(slot, committed[k], changes[k])
      PROVE  Current(slot, committed'[k], changes'[k])
  BY <1>3, OnlyBatches, CommitKeepsCurrent
<1>4. /\ overlay[u][k].at <= changes[k] /\ NoOverlay[k].at <= changes[k]
      /\ \A s \in 1 .. Len(saved[u]) : saved[u][s][k].at <= changes[k]
      /\ writing[u].key = k => writing[u].slot.at <= changes[k]
      /\ \A tag \in {"value", "tombstone"} : NewSlot(u, k, tag).at <= changes[k]
  <2>1. committed[k] \in Nat /\ durable \in Nat /\ changes[k] \in Nat
    BY DEF StoreInv, TypeOK
  <2> QED BY <2>1, UnwrittenSound, NewSlotSound DEF StoreInv, SlotsSound, Sound
<1>5. /\ Current(overlay[u][k], committed[k], changes[k])
      /\ \A s \in 1 .. Len(saved[u]) : Current(saved[u][s][k], committed[k], changes[k])
      /\ writing[u].key = k => Current(writing[u].slot, committed[k], changes[k])
      /\ Current(NoOverlay[k], committed[k], changes[k])
      /\ \A tag \in {"value", "tombstone"} :
           Current(NewSlot(u, k, tag), committed[k], changes[k])
  BY NewSlotCurrent DEF BasesCurrent, Current, NoOverlay, Unwritten
<1>6. Current(overlay'[u][k], committed'[k], changes'[k])
  BY <1>1, <1>2, <1>3, <1>4, <1>5 DEF Moved
<1>7. \A s \in 1 .. Len(saved'[u]) : Current(saved'[u][s][k], committed'[k], changes'[k])
  BY <1>1, <1>2, <1>3, <1>4, <1>5 DEF Moved
<1>8. writing'[u].key = k => Current(writing'[u].slot, committed'[k], changes'[k])
  BY <1>1, <1>2, <1>3, <1>4, <1>5 DEF Moved
<1> QED BY <1>6, <1>7, <1>8

(* A commit is refused only over a key that another transaction did commit *)
(* after the base version of it was read: not for another key's commit,    *)
(* nor for a rewind, an abort or a restart in between.                     *)
THEOREM ConflictsAreReal == Spec => NoSpuriousConflict
<1>1. Init => BasesCurrent
  BY StoreAssumption DEF Init, BasesCurrent, Current, NoOverlay, Unwritten, Idle
<1>2. StoreInv /\ BasesCurrent /\ [Next]_vars
      => [\A t \in Tx : phase[t] = "open" /\ phase'[t] = "conflict"
            => \E k \in Wrote(t) : overlay[t][k].at < changes[k]]_vars
  <2> SUFFICES ASSUME StoreInv, BasesCurrent, Next, NEW t \in Tx,
                      phase[t] = "open", phase'[t] = "conflict"
               PROVE  \E k \in Wrote(t) : overlay[t][k].at < changes[k]
    BY DEF vars
  <2>1. phase \in [Tx -> {"unborn", "open", "committed", "conflict", "orphan", "aborted"}]
    BY DEF StoreInv, TypeOK
  <2>2. CommitConflict(t)
    BY <2>1
    DEF Next, Begin, ReadBase, ApplyWrite, CreateSnapshot, RestoreSnapshot, CommitBatch,
        CommitPublish, CommitConflict, Discard, Restart
  <2>3. PICK k \in Wrote(t) : committed[k] # overlay[t][k].base
    BY <2>2 DEF CommitConflict, Valid
  <2>4. k \in Key /\ overlay[t][k].tag # "none"
    BY <2>3 DEF Wrote
  <2>5. Current(overlay[t][k], committed[k], changes[k])
    BY <2>4 DEF BasesCurrent
  <2>6. overlay[t][k].at <= changes[k] /\ overlay[t][k].at # changes[k]
    BY <2>3, <2>4, <2>5 DEF StoreInv, SlotsSound, Sound, Current
  <2>7. overlay[t][k].at \in Nat /\ changes[k] \in Nat
    BY <2>4 DEF StoreInv, TypeOK, Slot
  <2> QED BY <2>6, <2>7
<1> QED BY <1>1, <1>2, StepBasesCurrent, StoreSafe, PTL DEF Spec, NoSpuriousConflict
=============================================================================
