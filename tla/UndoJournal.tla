---------------------------- MODULE UndoJournal ----------------------------
(***************************************************************************)
(* The undo journal of one transaction (storage/rocks.rs): every write     *)
(* journals the prior raw value under the next sequence number in the same *)
(* atomic batch, a snapshot is a pointer into the journal, and a restore   *)
(* replays the entries from the pointer on, newest first, in one batch.    *)
(* The next sequence number is cached in memory and reloaded from the last *)
(* journal entry after the store is reopened.                              *)
(***************************************************************************)
EXTENDS Integers

CONSTANTS Key, Val, Absent, Steps,
          MaxSeq,            \* bound: sequence numbers (the code's is 2^64)
          ReopenAfterGap     \* may the store be reopened, and the transaction
                             \* go on, with a snapshot beyond the last entry?

ASSUME JournalAssumption == /\ Absent \notin Val
                            /\ Steps \subseteq Nat
                            /\ MaxSeq \in Nat
                            /\ ReopenAfterGap \in BOOLEAN

VARIABLES data,      \* raw key -> raw value, the keys under "x/{tx}/"
          journal,   \* sequence number -> JournalEntry, the keys under "j/{tx}/"
          snaps,     \* step id -> journal_seq of its SnapshotMeta, under "m/{tx}/"
          next       \* the cached journal_seq of the transaction

vars == <<data, journal, snaps, next>>

Unset == -1          \* no entry for the transaction in the journal_seq map
Entry == [key : Key, prior : Val \cup {Absent}]

(* load_next_journal_seq: one past the last entry on disk. *)
LastSeqAgain ==
  IF DOMAIN journal = {} THEN 0
  ELSE CHOOSE n \in DOMAIN journal : \A m \in DOMAIN journal : m <= n
LoadNext ==
  IF DOMAIN journal = {} THEN 0
  ELSE 1 + CHOOSE n \in DOMAIN journal : \A m \in DOMAIN journal : m <= n

(* peek_journal_seq, and the number allocate_journal_seq hands out. *)
Seq == IF next = Unset THEN LoadNext ELSE next

(* The data once every entry from p on is undone: of several entries of a  *)
(* key the oldest one's prior is what remains (the last put or delete of a *)
(* key in a WriteBatch wins, and the batch is filled newest first).        *)
Later(p, k) == {n \in DOMAIN journal : n >= p /\ journal[n].key = k}
Oldest(ns)  == CHOOSE n \in ns : \A m \in ns : n <= m
UndoneNewestPrior(p) ==
  [k \in Key |-> IF Later(p, k) = {} THEN data[k]
                 ELSE journal[CHOOSE n \in Later(p, k) :
                                \A m \in Later(p, k) : m <= n].prior]
Undone(p) ==
  [k \in Key |-> IF Later(p, k) = {} THEN data[k]
                 ELSE journal[Oldest(Later(p, k))].prior]
-----------------------------------------------------------------------------
Init == /\ data = [k \in Key |-> Absent]
        /\ journal = [n \in {} |-> 0]
        /\ snaps = [s \in {} |-> 0]
        /\ next = Unset

(* write_overlay and put_output: journaled_write of an encoded value. *)
Write(k, v) ==
  /\ Seq < MaxSeq
  /\ next' = Seq + 1
  /\ journal' = [n \in DOMAIN journal \cup {Seq} |->
                   IF n = Seq THEN [key |-> k, prior |-> data[k]] ELSE journal[n]]
  /\ data' = [data EXCEPT ![k] = v]
  /\ UNCHANGED snaps

(* The batch of journaled_write fails: its number is consumed all the same. *)
WriteFails ==
  /\ Seq < MaxSeq
  /\ next' = Seq + 1
  /\ UNCHANGED <<data, journal, snaps>>

(* create_snapshot.  The engine snapshots the step it is about to run, so  *)
(* no later snapshot exists: a rewind has deleted those.                   *)
CreateSnapshot(s) ==
  /\ \A t \in DOMAIN snaps : t <= s
  /\ next' = Seq
  /\ snaps' = [t \in DOMAIN snaps \cup {s} |-> IF t = s THEN Seq ELSE snaps[t]]
  /\ UNCHANGED <<data, journal>>

RestoreSnapshot(s) ==
  /\ s \in DOMAIN snaps
  /\ data' = Undone(snaps[s])
  /\ journal' = [n \in {m \in DOMAIN journal : m < snaps[s]} |-> journal[n]]
  /\ snaps' = [t \in {u \in DOMAIN snaps : u <= s} |-> snaps[t]]
  /\ next' = snaps[s]

(* commit, discard and discard_state, as far as this range is concerned. *)
Discard == /\ data' = [k \in Key |-> Absent]
           /\ journal' = [n \in {} |-> 0]
           /\ snaps' = [s \in {} |-> 0]
           /\ next' = Unset

(* The process restarts and open starts with an empty journal_seq map. *)
Reopen == /\ ReopenAfterGap \/ \A s \in DOMAIN snaps : snaps[s] <= LoadNext
          /\ next' = Unset
          /\ UNCHANGED <<data, journal, snaps>>

Next == \/ \E k \in Key, v \in Val : Write(k, v)
        \/ WriteFails
        \/ \E s \in Steps : CreateSnapshot(s) \/ RestoreSnapshot(s)
        \/ Discard
        \/ Reopen

Spec == Init /\ [][Next]_vars
-----------------------------------------------------------------------------
TypeOK == /\ data \in [Key -> Val \cup {Absent}]
          /\ DOMAIN journal \subseteq 0 .. (MaxSeq - 1)
          /\ journal \in [DOMAIN journal -> Entry]
          /\ DOMAIN snaps \subseteq Steps
          /\ snaps \in [DOMAIN snaps -> 0 .. MaxSeq]
          /\ next \in (0 .. MaxSeq) \cup {Unset}

(* The number the next write takes is above every entry, so no entry is    *)
(* ever overwritten; no snapshot points beyond it, so every later write is *)
(* undone by a restore; and later steps have later pointers, so a restore  *)
(* keeps the entries every surviving snapshot needs.                       *)
JournalInv == /\ TypeOK
              /\ \A n \in DOMAIN journal : n < Seq
              /\ \A s \in DOMAIN snaps : snaps[s] <= Seq
              /\ \A s, t \in DOMAIN snaps : s <= t => snaps[s] <= snaps[t]

(* restore_snapshot's contract, "rewinds to exactly the state captured":   *)
(* the journal implements full copies.                                     *)
Copies == INSTANCE SnapshotStack WITH saved <- [s \in DOMAIN snaps |-> Undone(snaps[s])]
RewindsExactly == Copies!Spec
=============================================================================
