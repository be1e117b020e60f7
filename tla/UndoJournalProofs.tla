------------------------- MODULE UndoJournalProofs -------------------------
(***************************************************************************)
(* The undo journal implements full copies, for every set of keys and      *)
(* values, every set of steps and every bound on the sequence numbers.     *)
(***************************************************************************)
EXTENDS UndoJournal, WellFoundedInduction, TLAPS

(* A non-empty set of naturals has a smallest element. *)
LEMMA LeastExists ==
  ASSUME NEW S \in SUBSET Nat, S # {}
  PROVE  \E n \in S : \A m \in S : n <= m
<1>1. PICK n \in S : \A m \in S : ~ (<<m, n>> \in OpToRel(<, Nat))
  BY NatLessThanWellFounded, WFMin, Zenon
<1>2. \A m \in S : ~ (m < n)
  <2> SUFFICES ASSUME NEW m \in S, m < n PROVE FALSE
    OBVIOUS
  <2>1. <<m, n>> \in OpToRel(<, Nat)
    BY Zenon DEF OpToRel
  <2> QED BY <2>1, <1>1
<1> QED BY <1>2

(* A non-empty set of naturals below a bound has a largest element. *)
LEMMA GreatestExists ==
  ASSUME NEW S \in SUBSET Nat, S # {}, NEW b \in Nat, \A n \in S : n <= b
  PROVE  \E n \in S : \A m \in S : m <= n
<1> DEFINE Above == {n \in Nat : \A m \in S : m <= n}
<1>1. Above \in SUBSET Nat /\ Above # {}
  OBVIOUS
<1>2. PICK n \in Above : \A m \in Above : n <= m
  BY <1>1, LeastExists
<1>3. n \in S
  <2> SUFFICES ASSUME n \notin S PROVE FALSE
    OBVIOUS
  <2>1. n > 0
    BY <1>2, \E m \in S : m <= n /\ m # n
  <2>2. n - 1 \in Above
    BY <2>1, <1>2
  <2> QED BY <2>2, <1>2
<1> QED BY <1>2, <1>3

(* Oldest picks a lower bound that belongs to the set. *)
LEMMA OldestIsLeast ==
  ASSUME NEW S \in SUBSET Nat, S # {}
  PROVE  Oldest(S) \in S /\ \A m \in S : Oldest(S) <= m
BY LeastExists DEF Oldest

(* The least element of a set of naturals is the one Oldest picks. *)
LEMMA OldestIs ==
  ASSUME NEW S \in SUBSET Nat, NEW n \in S, \A m \in S : n <= m
  PROVE  Oldest(S) = n
<1>1. Oldest(S) \in S /\ Oldest(S) <= n
  BY OldestIsLeast
<1>2. Oldest(S) \in Nat /\ n \in Nat /\ n <= Oldest(S)
  BY <1>1
<1> QED BY <1>1, <1>2

(* The reloaded sequence number is a natural within the bound, one above   *)
(* the last journal entry.                                                 *)
LEMMA LoadNextType ==
  ASSUME TypeOK
  PROVE  LoadNext \in 0 .. MaxSeq /\ \A n \in DOMAIN journal : n < LoadNext
<1> USE JournalAssumption
<1>1. CASE DOMAIN journal = {}
  BY <1>1 DEF LoadNext
<1>2. CASE DOMAIN journal # {}
  <2>1. DOMAIN journal \in SUBSET Nat /\ \A n \in DOMAIN journal : n <= MaxSeq
    BY DEF TypeOK
  <2>2. \E n \in DOMAIN journal : \A m \in DOMAIN journal : m <= n
    BY <1>2, <2>1, GreatestExists
  <2> DEFINE last == CHOOSE n \in DOMAIN journal : \A m \in DOMAIN journal : m <= n
  <2>3. last \in DOMAIN journal /\ \A m \in DOMAIN journal : m <= last
    BY <2>2
  <2>4. LoadNext = 1 + last
    BY <1>2 DEF LoadNext
  <2> HIDE DEF last
  <2>5. last \in 0 .. (MaxSeq - 1)
    BY <2>3 DEF TypeOK
  <2> QED BY <2>3, <2>4, <2>5, <2>1
<1> QED BY <1>1, <1>2

(* The sequence number in use is within the bound. *)
LEMMA SeqType ==
  ASSUME TypeOK
  PROVE  Seq \in 0 .. MaxSeq
BY LoadNextType, JournalAssumption DEF Seq, TypeOK, Unset

(* Undoing from any pointer yields data of the right type. *)
LEMMA UndoneType ==
  ASSUME TypeOK, NEW p \in Nat
  PROVE  Undone(p) \in [Key -> Val \cup {Absent}]
<1> SUFFICES ASSUME NEW k \in Key, Later(p, k) # {}
             PROVE  journal[Oldest(Later(p, k))].prior \in Val \cup {Absent}
  BY DEF Undone, TypeOK
<1>1. Later(p, k) \in SUBSET Nat
  BY JournalAssumption DEF Later, TypeOK
<1>2. Oldest(Later(p, k)) \in DOMAIN journal
  BY <1>1, OldestIsLeast DEF Later
<1> QED BY <1>2 DEF TypeOK, Entry

(* A write leaves what every live snapshot restores as it was: its entry   *)
(* holds the prior value, and is younger than every entry a pointer spans. *)
LEMMA WriteKeepsCopies ==
  ASSUME JournalInv, NEW k \in Key, NEW v \in Val, Write(k, v),
         NEW p \in Nat, p <= Seq
  PROVE  Undone(p)' = Undone(p)
<1> USE JournalAssumption
<1>1. /\ Seq \in Nat /\ Seq \notin DOMAIN journal
      /\ DOMAIN journal \in SUBSET Nat
  BY SeqType DEF JournalInv, TypeOK
<1>2. /\ DOMAIN journal' = DOMAIN journal \cup {Seq}
      /\ journal'[Seq] = [key |-> k, prior |-> data[k]]
      /\ \A n \in DOMAIN journal : journal'[n] = journal[n]
      /\ data' = [data EXCEPT ![k] = v] /\ data \in [Key -> Val \cup {Absent}]
  BY <1>1 DEF Write, JournalInv, TypeOK
<1>3. ASSUME NEW l \in Key
      PROVE  Undone(p)'[l] = Undone(p)[l]
  <2>1. /\ Later(p, l) \in SUBSET Nat
        /\ Seq \notin Later(p, l)
        /\ Later(p, l) \subseteq DOMAIN journal
    BY <1>1 DEF Later
  <2>2. Undone(p)[l] = IF Later(p, l) = {} THEN data[l]
                       ELSE journal[Oldest(Later(p, l))].prior
    BY DEF Undone
  <2>3. Undone(p)'[l] = IF Later(p, l)' = {} THEN data'[l]
                        ELSE journal'[Oldest(Later(p, l)')].prior
    BY DEF Undone, Oldest
  <2>4. CASE l # k
    <3>1. Later(p, l)' = Later(p, l)
      BY <1>1, <1>2, <2>4 DEF Later
    <3>2. CASE Later(p, l) = {}
      BY <3>1, <3>2, <2>2, <2>3, <2>4, <1>2
    <3>3. CASE Later(p, l) # {}
      <4>1. Oldest(Later(p, l)) \in DOMAIN journal
        BY <3>3, <2>1, OldestIsLeast
      <4> QED BY <4>1, <3>1, <3>3, <2>2, <2>3, <1>2
    <3> QED BY <3>2, <3>3
  <2>5. CASE l = k
    <3>1. Later(p, l)' = Later(p, l) \cup {Seq}
      BY <1>1, <1>2, <2>5 DEF Later
    <3>2. CASE Later(p, l) = {}
      <4>1. Oldest(Later(p, l)') = Seq
        BY <3>1, <3>2, <1>1, OldestIs
      <4> QED BY <4>1, <3>1, <3>2, <2>2, <2>3, <1>2, <2>5
    <3>3. CASE Later(p, l) # {}
      <4> DEFINE n == Oldest(Later(p, l))
      <4>1. n \in Later(p, l) /\ \A m \in Later(p, l) : n <= m
        BY <3>3, <2>1, OldestIsLeast
      <4>2. n < Seq
        BY <4>1, <2>1 DEF JournalInv
      <4>3. \A m \in Later(p, l)' : n <= m
        BY <4>1, <4>2, <3>1, <2>1, <1>1
      <4>4. Oldest(Later(p, l)') = n
        <5> HIDE DEF n
        <5> QED BY <4>1, <4>3, <3>1, <2>1, <1>1, OldestIs
      <4> QED BY <4>1, <4>4, <3>1, <3>3, <2>1, <2>2, <2>3, <1>2
    <3> QED BY <3>2, <3>3
  <2> QED BY <2>4, <2>5
<1> QED BY <1>3 DEF Undone

(* A restore to pointer p leaves what every snapshot with an older pointer *)
(* q restores as it was: the entries from q to p survive, and the undone   *)
(* data stands for the entries from p on.                                  *)
LEMMA RestoreKeepsCopies ==
  ASSUME JournalInv, NEW s \in Steps, RestoreSnapshot(s),
         NEW q \in Nat, q <= snaps[s]
  PROVE  Undone(q)' = Undone(q)
<1> USE JournalAssumption
<1> DEFINE p == snaps[s]
<1>1. p \in Nat /\ DOMAIN journal \in SUBSET Nat
  BY DEF RestoreSnapshot, JournalInv, TypeOK
<1>2. /\ DOMAIN journal' = {m \in DOMAIN journal : m < p}
      /\ \A n \in DOMAIN journal' : journal'[n] = journal[n]
      /\ data' = Undone(p)
  BY DEF RestoreSnapshot
<1> HIDE DEF p
<1>3. ASSUME NEW l \in Key
      PROVE  Undone(q)'[l] = Undone(q)[l]
  <2>1. /\ Later(q, l) \in SUBSET Nat /\ Later(q, l) \subseteq DOMAIN journal
        /\ Later(p, l) \in SUBSET Nat
        /\ Later(q, l)' = {n \in Later(q, l) : n < p}
        /\ Later(p, l) = {n \in Later(q, l) : n >= p}
    BY <1>1, <1>2, p = snaps[s] DEF Later, p
  <2>2. /\ Undone(q)[l] = IF Later(q, l) = {} THEN data[l]
                           ELSE journal[Oldest(Later(q, l))].prior
        /\ Undone(p)[l] = IF Later(p, l) = {} THEN data[l]
                           ELSE journal[Oldest(Later(p, l))].prior
    BY DEF Undone
  <2>3. Undone(q)'[l] = IF Later(q, l)' = {} THEN data'[l]
                        ELSE journal'[Oldest(Later(q, l)')].prior
    BY DEF Undone, Oldest
  <2>4. CASE Later(q, l)' = {}
    <3>1. Later(p, l) = Later(q, l)
      BY <2>4, <2>1, <1>1
    <3> QED BY <3>1, <2>4, <2>2, <2>3, <1>2
  <2>5. CASE Later(q, l)' # {}
    <3> DEFINE n == Oldest(Later(q, l))
    <3>1. n \in Later(q, l) /\ \A m \in Later(q, l) : n <= m
      BY <2>5, <2>1, OldestIsLeast
    <3>2. n \in Later(q, l)' /\ \A m \in Later(q, l)' : n <= m
      <4> HIDE DEF n
      <4> QED BY <3>1, <2>5, <2>1, <1>1
    <3>3. Oldest(Later(q, l)') = n
      <4> HIDE DEF n
      <4> QED BY <3>2, <2>1, OldestIs
    <3>4. n \in DOMAIN journal'
      BY <3>2, <2>1, <1>2
    <3> QED BY <3>1, <3>3, <3>4, <2>5, <2>2, <2>3, <1>2
  <2> QED BY <2>4, <2>5
<1> QED BY <1>3 DEF Undone

(* JournalInv holds initially. *)
LEMMA InitJournalInv == Init => JournalInv
BY JournalAssumption DEF Init, JournalInv, TypeOK, Seq, LoadNext, Unset

(* Every step preserves JournalInv, unless the store may be reopened with  *)
(* a snapshot pointer beyond the last entry.                               *)
LEMMA StepJournalInv ==
  ASSUME ~ReopenAfterGap, JournalInv, [Next]_vars
  PROVE  JournalInv'
<1> USE JournalAssumption
<1>0. /\ Seq \in 0 .. MaxSeq /\ LoadNext \in 0 .. MaxSeq
      /\ \A n \in DOMAIN journal : n < LoadNext
  BY SeqType, LoadNextType DEF JournalInv
<1>1. ASSUME NEW k \in Key, NEW v \in Val, Write(k, v)
      PROVE  JournalInv'
  <2>1. /\ next' = Seq + 1 /\ Seq + 1 \in 0 .. MaxSeq /\ snaps' = snaps
        /\ DOMAIN journal' = DOMAIN journal \cup {Seq}
    BY <1>0, <1>1 DEF Write
  <2>2. Seq' = Seq + 1
    BY <2>1 DEF Seq, Unset
  <2>3. journal' \in [DOMAIN journal' -> Entry]
    BY <1>1 DEF Write, JournalInv, TypeOK, Entry
  <2>4. data' \in [Key -> Val \cup {Absent}]
    BY <1>1 DEF Write, JournalInv, TypeOK
  <2>5. TypeOK'
    BY <1>0, <2>1, <2>3, <2>4 DEF JournalInv, TypeOK
  <2> QED BY <2>1, <2>2, <2>5, <1>0 DEF JournalInv, TypeOK
<1>2. CASE WriteFails
  <2>1. /\ next' = Seq + 1 /\ Seq + 1 \in 0 .. MaxSeq
        /\ UNCHANGED <<data, journal, snaps>>
    BY <1>0, <1>2 DEF WriteFails
  <2>2. Seq' = Seq + 1
    BY <2>1 DEF Seq, Unset
  <2> QED BY <2>1, <2>2, <1>0 DEF JournalInv, TypeOK
<1>3. ASSUME NEW s \in Steps, CreateSnapshot(s)
      PROVE  JournalInv'
  <2>1. /\ next' = Seq /\ UNCHANGED <<data, journal>>
        /\ snaps' = [t \in DOMAIN snaps \cup {s} |-> IF t = s THEN Seq ELSE snaps[t]]
    BY <1>3 DEF CreateSnapshot
  <2>2. Seq' = Seq
    BY <2>1, <1>0 DEF Seq, Unset
  <2>3. TypeOK'
    BY <2>1, <1>0 DEF JournalInv, TypeOK
  <2>4. \A t, u \in DOMAIN snaps' : t <= u => snaps'[t] <= snaps'[u]
    BY <2>1, <1>0, <1>3 DEF CreateSnapshot, JournalInv, TypeOK
  <2>5. \A t \in DOMAIN snaps' : snaps'[t] <= Seq'
    BY <2>1, <2>2, <1>0 DEF JournalInv
  <2>6. \A n \in DOMAIN journal' : n < Seq'
    BY <2>1, <2>2 DEF JournalInv
  <2> QED BY <2>3, <2>4, <2>5, <2>6 DEF JournalInv
<1>4. ASSUME NEW s \in Steps, RestoreSnapshot(s)
      PROVE  JournalInv'
  <2>1. /\ s \in DOMAIN snaps /\ snaps[s] \in 0 .. MaxSeq /\ next' = snaps[s]
        /\ data' = Undone(snaps[s])
        /\ journal' = [n \in {m \in DOMAIN journal : m < snaps[s]} |-> journal[n]]
        /\ snaps' = [t \in {u \in DOMAIN snaps : u <= s} |-> snaps[t]]
    BY <1>4 DEF RestoreSnapshot, JournalInv, TypeOK
  <2>2. Seq' = snaps[s]
    BY <2>1 DEF Seq, Unset
  <2>3. data' \in [Key -> Val \cup {Absent}]
    BY <2>1, UndoneType DEF JournalInv
  <2>4. TypeOK'
    BY <2>1, <2>3 DEF JournalInv, TypeOK
  <2> QED BY <2>1, <2>2, <2>4 DEF JournalInv, TypeOK
<1>5. CASE Discard
  BY <1>5 DEF Discard, JournalInv, TypeOK, Seq, LoadNext, Unset
<1>6. CASE Reopen
  <2>1. /\ next' = Unset /\ UNCHANGED <<data, journal, snaps>>
        /\ \A s \in DOMAIN snaps : snaps[s] <= LoadNext
    BY <1>6 DEF Reopen
  <2>2. Seq' = LoadNext
    BY <2>1 DEF Seq, LoadNext
  <2>3. TypeOK'
    BY <2>1 DEF JournalInv, TypeOK
  <2> QED BY <2>1, <2>2, <2>3, <1>0 DEF JournalInv
<1>7. CASE UNCHANGED vars
  BY <1>7 DEF vars, JournalInv, TypeOK, Seq, LoadNext
<1> QED BY <1>1, <1>2, <1>3, <1>4, <1>5, <1>6, <1>7 DEF Next

(* The journal invariant of create_snapshot and journaled_write: numbers   *)
(* never collide and pointers are ordered like steps.                      *)
THEOREM JournalSafe == ~ReopenAfterGap => (Spec => []JournalInv)
<1> SUFFICES ASSUME ~ReopenAfterGap PROVE Spec => []JournalInv
  OBVIOUS
<1>1. JournalInv /\ [Next]_vars => JournalInv'
  BY StepJournalInv
<1> QED BY <1>1, InitJournalInv, PTL DEF Spec

(* Every step of the journal is a step of the full copies, or leaves them  *)
(* unchanged.                                                              *)
LEMMA StepCopies ==
  ASSUME JournalInv, [Next]_vars
  PROVE  [Copies!Next]_(Copies!vars)
<1> USE JournalAssumption
<1>0. /\ Seq \in Nat /\ DOMAIN snaps \subseteq Steps
      /\ \A s \in DOMAIN snaps : snaps[s] \in Nat /\ snaps[s] <= Seq
  BY SeqType DEF JournalInv, TypeOK
<1>1. ASSUME NEW k \in Key, NEW v \in Val, Write(k, v)
      PROVE  Copies!Write(k, v)
  <2>1. ASSUME NEW s \in DOMAIN snaps
        PROVE  Undone(snaps[s])' = Undone(snaps[s])
    <3>1. /\ snaps[s] \in Nat /\ snaps[s] <= Seq
          /\ snaps'[s] = snaps[s]
      BY <1>0, <1>1 DEF Write
    <3> QED BY <3>1, <1>1, WriteKeepsCopies
  <2> QED BY <2>1, <1>1 DEF Write, Copies!Write
<1>2. CASE WriteFails
  BY <1>2 DEF WriteFails, Copies!vars, Undone, Later
<1>3. ASSUME NEW s \in Steps, CreateSnapshot(s)
      PROVE  Copies!Capture(s)
  <2>1. /\ UNCHANGED <<data, journal>>
        /\ snaps' = [t \in DOMAIN snaps \cup {s} |-> IF t = s THEN Seq ELSE snaps[t]]
    BY <1>3 DEF CreateSnapshot
  <2>2. \A p \in Nat : Undone(p)' = Undone(p)
    BY <2>1 DEF Undone, Later
  <2>3. Undone(Seq) = data
    <3>1. \A k \in Key : Later(Seq, k) = {}
      BY <1>0 DEF Later, JournalInv, TypeOK
    <3> QED BY <3>1 DEF Undone, JournalInv, TypeOK
  <2>4. ASSUME NEW t \in DOMAIN snaps \cup {s}
        PROVE  Undone(snaps[t])' = IF t = s THEN data ELSE Undone(snaps[t])
    <3>1. /\ snaps'[t] = IF t = s THEN Seq ELSE snaps[t]
          /\ snaps'[t] \in Nat
      BY <2>1, <1>0
    <3>2. Undone(snaps[t])' = Undone(snaps'[t])
      BY <2>1 DEF Undone, Later
    <3> QED BY <3>1, <3>2, <2>3
  <2> QED BY <2>1, <2>4 DEF Copies!Capture
<1>4. ASSUME NEW s \in Steps, RestoreSnapshot(s)
      PROVE  Copies!Restore(s)
  <2>1. /\ s \in DOMAIN snaps /\ data' = Undone(snaps[s])
        /\ snaps' = [t \in {u \in DOMAIN snaps : u <= s} |-> snaps[t]]
    BY <1>4 DEF RestoreSnapshot
  <2>2. ASSUME NEW t \in DOMAIN snaps, t <= s
        PROVE  Undone(snaps[t])' = Undone(snaps[t])
    <3>1. /\ snaps[t] \in Nat /\ snaps[t] <= snaps[s]
          /\ snaps'[t] = snaps[t]
      BY <1>0, <2>1, <2>2 DEF JournalInv
    <3> QED BY <3>1, <1>4, RestoreKeepsCopies
  <2> QED BY <2>1, <2>2 DEF Copies!Restore, Copies!UpTo
<1>5. CASE Discard
  <2>1. DOMAIN snaps' = {} /\ data' = [k \in Key |-> Absent]
    BY <1>5 DEF Discard
  <2>2. [s \in DOMAIN snaps |-> Undone(snaps[s])]' = [s \in {} |-> data]
    BY <2>1
  <2>3. Copies!Discard
    BY <2>1, <2>2 DEF Copies!Discard
  <2> QED BY <2>3 DEF Copies!Next
<1>6. CASE Reopen
  BY <1>6 DEF Reopen, Copies!vars, Undone, Later
<1>7. CASE UNCHANGED vars
  BY <1>7 DEF vars, Copies!vars, Undone, Later
<1> QED BY <1>1, <1>2, <1>3, <1>4, <1>5, <1>6, <1>7 DEF Next, Copies!Next

(* restore_snapshot rewinds to exactly the state its snapshot captured:    *)
(* the journal with pointers implements a stack of full copies.            *)
THEOREM JournalRewindsExactly == ~ReopenAfterGap => (Spec => RewindsExactly)
<1> SUFFICES ASSUME ~ReopenAfterGap PROVE Spec => RewindsExactly
  OBVIOUS
<1>1. Init => Copies!Init
  BY DEF Init, Copies!Init
<1>2. JournalInv /\ [Next]_vars => [Copies!Next]_(Copies!vars)
  BY StepCopies
<1>3. Spec => []JournalInv
  BY JournalSafe
<1> QED BY <1>1, <1>2, <1>3, PTL DEF Spec, RewindsExactly, Copies!Spec
=============================================================================
