----------------------------- MODULE RocksStore -----------------------------
(***************************************************************************)
(* The store shared by all transactions (storage/rocks.rs): committed      *)
(* values stamped with a version, a private overlay per transaction whose  *)
(* entries carry the base version read at the first write of the key, and  *)
(* the commit that validates base versions under commit_lock and publishes *)
(* in one batch.  Values are abstracted to their version stamps.  Rewinds  *)
(* are those of SnapshotStack, which UndoJournal implements.               *)
(*                                                                         *)
(* A transaction's own operations are serialized (the engine's mutex); a   *)
(* write of one transaction reads its base version and applies its batch   *)
(* in two steps, between which another transaction may commit.             *)
(***************************************************************************)
EXTENDS Naturals, Sequences

CONSTANTS Tx, Key, Nobody,
          MaxSnapshots,     \* bound: snapshots of a transaction
          Rewinders         \* bound: transactions that take more than the first

ASSUME StoreAssumption == /\ Nobody \notin Tx \cup Key
                          /\ MaxSnapshots \in Nat
                          /\ Rewinders \subseteq Tx

VARIABLES committed,   \* Key -> version of the committed value, 0 if absent
          durable,     \* the persisted COMMIT_VERSION
          version,     \* commit_version, its copy in memory
          lock,        \* holder of commit_lock
          overlay,     \* Tx -> Key -> uncommitted write, or Unwritten
          saved,       \* Tx -> overlays captured by its live snapshots, oldest first
          writing,     \* Tx -> the write whose base is read and batch not yet applied
          phase,       \* Tx -> where it is in its life
          changes      \* history: Key -> number of commits that changed it

vars == <<committed, durable, version, lock, overlay, saved, writing, phase, changes>>

Unwritten == [tag |-> "none", base |-> 0, at |-> 0]
Idle      == [key |-> Nobody, slot |-> Unwritten]
NoOverlay == [k \in Key |-> Unwritten]

(* An overlay entry: the tag and base version of split_overlay, and (for   *)
(* the properties only) the number of commits of the key at the time its   *)
(* base version was fixed.                                                 *)
Slot == [tag : {"none", "value", "tombstone"}, base : Nat, at : Nat]

Wrote(t) == {k \in Key : overlay[t][k].tag # "none"}
-----------------------------------------------------------------------------
Init == /\ committed = [k \in Key |-> 0]
        /\ durable = 0
        /\ version = 0
        /\ lock = Nobody
        /\ overlay = [t \in Tx |-> NoOverlay]
        /\ saved = [t \in Tx |-> <<>>]
        /\ writing = [t \in Tx |-> Idle]
        /\ phase = [t \in Tx |-> "unborn"]
        /\ changes = [k \in Key |-> 0]

(* register_transaction and the Step-0 snapshot; ids are fresh, and begin  *)
(* is served only once recovery is over.                                   *)
Begin(t) == /\ phase[t] = "unborn"
            /\ \A u \in Tx : phase[u] # "orphan"
            /\ phase' = [phase EXCEPT ![t] = "open"]
            /\ saved' = [saved EXCEPT ![t] = <<NoOverlay>>]
            /\ UNCHANGED <<committed, durable, version, lock, overlay, writing, changes>>

Ready(t) == phase[t] = "open" /\ writing[t] = Idle /\ lock # t

(* put and delete, up to the point where write_overlay has read the prior  *)
(* entry and, if there is none, the committed version.                     *)
VersionedSlot(t, k, tag) ==
  IF k \notin Wrote(t)
  THEN [tag |-> tag, base |-> version, at |-> changes[k]]
  ELSE [overlay[t][k] EXCEPT !.tag = tag]
NewSlot(t, k, tag) ==
  IF k \notin Wrote(t)
  THEN [tag |-> tag, base |-> committed[k], at |-> changes[k]]
  ELSE [overlay[t][k] EXCEPT !.tag = tag]

ReadBase(t, k, tag) ==
  /\ Ready(t)
  /\ writing' = [writing EXCEPT ![t] = [key |-> k, slot |-> NewSlot(t, k, tag)]]
  /\ UNCHANGED <<committed, durable, version, lock, overlay, saved, phase, changes>>

(* The batch of journaled_write, or its failure. *)
ApplyWrite(t) ==
  /\ phase[t] = "open" /\ writing[t].key \in Key
  /\ writing' = [writing EXCEPT ![t] = Idle]
  /\ \/ overlay' = [overlay EXCEPT ![t][writing[t].key] = writing[t].slot]
     \/ UNCHANGED overlay
  /\ UNCHANGED <<committed, durable, version, lock, saved, phase, changes>>

CreateSnapshot(t) ==
  /\ Ready(t) /\ t \in Rewinders /\ Len(saved[t]) < MaxSnapshots
  /\ saved' = [saved EXCEPT ![t] = Append(@, overlay[t])]
  /\ UNCHANGED <<committed, durable, version, lock, overlay, writing, phase, changes>>

RestoreSnapshot(t, s) ==
  /\ Ready(t) /\ s \in 1 .. Len(saved[t])
  /\ overlay' = [overlay EXCEPT ![t] = saved[t][s]]
  /\ saved' = [saved EXCEPT ![t] = SubSeq(@, 1, s)]
  /\ UNCHANGED <<committed, durable, version, lock, writing, phase, changes>>
-----------------------------------------------------------------------------
(* Under commit_lock: validate every written key, then write one batch     *)
(* that publishes values, deletes the keys of tombstones, persists the     *)
(* version and deletes the transaction's own records.                      *)
Stamp == version + 1
ValidExceptDeletes(t) ==
  \A k \in Wrote(t) : overlay[t][k].tag = "value" => committed[k] = overlay[t][k].base
Valid(t) == \A k \in Wrote(t) : committed[k] = overlay[t][k].base

Forget(t) == /\ overlay' = [overlay EXCEPT ![t] = NoOverlay]
             /\ saved' = [saved EXCEPT ![t] = <<>>]

CommitNotDurable(t) ==
  /\ Ready(t) /\ lock = Nobody /\ Valid(t)
  /\ lock' = t
  /\ committed' = [k \in Key |-> IF k \notin Wrote(t) THEN committed[k]
                                 ELSE IF overlay[t][k].tag = "value" THEN Stamp ELSE 0]
  /\ changes' = [k \in Key |-> IF committed'[k] # committed[k] THEN changes[k] + 1 ELSE changes[k]]
  /\ Forget(t)
  /\ UNCHANGED <<durable, version, writing, phase>>
CommitBatch(t) ==
  /\ Ready(t) /\ lock = Nobody /\ Valid(t)
  /\ lock' = t
  /\ committed' = [k \in Key |-> IF k \notin Wrote(t) THEN committed[k]
                                 ELSE IF overlay[t][k].tag = "value" THEN Stamp ELSE 0]
  /\ changes' = [k \in Key |-> IF committed'[k] # committed[k] THEN changes[k] + 1 ELSE changes[k]]
  /\ durable' = Stamp
  /\ Forget(t)
  /\ UNCHANGED <<version, writing, phase>>

(* The rest of commit, after the batch: the version in memory, the unlock. *)
CommitPublish(t) ==
  /\ lock = t
  /\ version' = Stamp
  /\ lock' = Nobody
  /\ phase' = [phase EXCEPT ![t] = "committed"]
  /\ UNCHANGED <<committed, durable, overlay, saved, writing, changes>>

(* WriteConflict: nothing is written, and the engine then discards t. *)
CommitConflict(t) ==
  /\ Ready(t) /\ lock = Nobody /\ ~Valid(t)
  /\ phase' = [phase EXCEPT ![t] = "conflict"]
  /\ UNCHANGED <<committed, durable, version, lock, overlay, saved, writing, changes>>

(* discard and discard_state: after a rollback or a conflict, and by       *)
(* recovery for every transaction found open on disk.                      *)
Discard(t) ==
  /\ Ready(t) \/ phase[t] \in {"conflict", "orphan"}
  /\ phase' = [phase EXCEPT ![t] = "aborted"]
  /\ Forget(t)
  /\ UNCHANGED <<committed, durable, version, lock, writing, changes>>

(* A crash and the next open: memory is lost and commit_version is loaded  *)
(* from disk.  A transaction whose commit batch is written is committed;   *)
(* the others are left open on disk.                                       *)
Restart ==
  /\ version' = durable
  /\ lock' = Nobody
  /\ writing' = [t \in Tx |-> Idle]
  /\ phase' = [t \in Tx |-> IF lock = t THEN "committed"
                            ELSE IF phase[t] \in {"open", "conflict"} THEN "orphan"
                            ELSE phase[t]]
  /\ UNCHANGED <<committed, durable, overlay, saved, changes>>

Next == \/ \E t \in Tx : \/ Begin(t) \/ ApplyWrite(t)
                         \/ \E k \in Key, tag \in {"value", "tombstone"} : ReadBase(t, k, tag)
                         \/ CreateSnapshot(t)
                         \/ \E s \in 1 .. MaxSnapshots : RestoreSnapshot(t, s)
                         \/ CommitBatch(t) \/ CommitPublish(t) \/ CommitConflict(t)
                         \/ Discard(t)
        \/ Restart

Spec == Init /\ [][Next]_vars
-----------------------------------------------------------------------------
TypeOK ==
  /\ committed \in [Key -> Nat] /\ changes \in [Key -> Nat]
  /\ durable \in Nat /\ version \in Nat
  /\ lock \in Tx \cup {Nobody}
  /\ overlay \in [Tx -> [Key -> Slot]]
  /\ saved \in [Tx -> Seq([Key -> Slot])]
  /\ writing \in [Tx -> [key : Key \cup {Nobody}, slot : Slot]]
  /\ phase \in [Tx -> {"unborn", "open", "committed", "conflict", "orphan", "aborted"}]

(* An entry of a key whose committed version is ver, with n commits so far *)
(* and top the last stamp: if its base version still matches a present     *)
(* value, it was read after the last commit that changed the key.          *)
Sound(slot, ver, top, n) == /\ slot.base <= top
                            /\ slot.at <= n
                            /\ slot.base = ver /\ slot.base > 0 => slot.at = n

(* commit_version covers every stamp on disk, also when a crash hits the   *)
(* middle of a commit, so no stamp is given out twice; and every entry     *)
(* there is, or that a rewind may bring back, is sound.                    *)
VersionsOK ==
  /\ version = IF lock = Nobody THEN durable ELSE durable - 1
  /\ \A k \in Key : committed[k] <= durable
SlotsSound ==
  \A t \in Tx, k \in Key :
    /\ Sound(overlay[t][k], committed[k], durable, changes[k])
    /\ \A s \in 1 .. Len(saved[t]) :
         Sound(saved[t][s][k], committed[k], durable, changes[k])
    /\ writing[t].key = k => Sound(writing[t].slot, committed[k], durable, changes[k])
StoreInv == TypeOK /\ VersionsOK /\ SlotsSound

Publishes(t, k) == lock = Nobody /\ lock' = t /\ k \in Wrote(t)

(* "Commits never overwrite concurrent committed writes": a commit that    *)
(* publishes a key the transaction had read as present, or that is present *)
(* now, has seen every earlier commit of that key, through rewinds, aborts *)
(* of others and restarts.                                                 *)
NoLostUpdate ==
  [][\A t \in Tx, k \in Key :
       Publishes(t, k) /\ (overlay[t][k].base > 0 \/ committed[k] > 0)
         => overlay[t][k].at = changes[k]]_vars

(* A commit is refused only if another transaction did commit one of the   *)
(* keys after the base version of that key was read.                       *)
NoSpuriousConflict ==
  [][\A t \in Tx : phase[t] = "open" /\ phase'[t] = "conflict"
       => \E k \in Wrote(t) : overlay[t][k].at < changes[k]]_vars
=============================================================================
