-------------------------- MODULE FileEffectsProofs --------------------------
(***************************************************************************)
(* For any path, any number of runs, crashes and attempts, and any faults  *)
(* of the disk, the storage, the executor, the client and the process:     *)
(* whoever reads the path sees whole contents, what a transaction leaves   *)
(* there is what its surviving steps wrote, and its saga records lead back *)
(* to what was there before; with the exceptions the properties name.      *)
(***************************************************************************)
EXTENDS FileEffects, FiniteSetTheorems, SequenceTheorems, WellFoundedInduction, TLAPS

(* The inductive invariant.  Which handler is under way, and how far a     *)
(* compensation goes back, as a place in versions.                         *)
Recovers == pc \in {"undo", "undoRename"} /\ job.why = "recover"
Unwinds  == pc \in {"undo", "undoRename"} /\ job.why # "recover"
Running  == pc \in {"write", "rename", "record"}
Halted   == pc \in {"down", "stuck"}
Lives    == pc # "gone" /\ ~Halted /\ ~Recovers
first    == IF job.target = 0 THEN 1 ELSE job.target

Handlers ==
  /\ job = [why |-> job.why, target |-> job.target, clean |-> job.clean]
  /\ pc \in {"write", "rename"} => prior # <<>> /\ ~ok
  /\ pc = "record" /\ ok => prior # <<>>
  /\ ~Running => prior = <<>>
  /\ pc = "idle" \/ Running => record = "open" /\ todo = <<>> /\ Len(entries) = Len(versions) - 1
  /\ pc \in {"undo", "undoRename"} =>
       /\ record = "open" /\ job.why \in {"rewind", "abort", "request", "hard", "recover"}
       /\ IF job.why = "rewind" THEN job.target \in 1 .. Len(versions) ELSE job.target = 0
       /\ ~job.clean => skipped
  /\ pc = "undoRename" => todo # <<>>

(* Step i left entry i; what is to be undone follows what stays.           *)
InOrder(q) == \A i, j \in DOMAIN q : i < j => Earlier(q[i], q[j])
Queues ==
  /\ \A i \in DOMAIN entries : entries[i].step = i
  /\ Unwinds => /\ Len(entries) = first - 1
                /\ \A i \in DOMAIN todo : todo[i].step = first - 1 + i
  /\ InOrder(todo)
  /\ ~Lives => entries = <<>>

(* Versions and records are counted by the runs that made them. *)
Numbered ==
  /\ IsFiniteSet(logs) /\ \A x, y \in logs : x.seq = y.seq => x = y
  /\ Lives => \A x \in logs : x.seq < seq
  /\ Len(versions) \in 1 .. runs + 1 /\ seq \in 0 .. runs
  /\ Running => Len(versions) <= runs /\ seq < runs

(* The operation still in flight is of a run that failed: of the step to   *)
(* finish, of the first to undo or of none.                                *)
Flying ==
  /\ flight = Nothing \/ flight \in [op : {"write", "rename", "tool"}, bytes : 1 .. runs]
  /\ pc \in {"write", "rename"} => flight.bytes < runs
  /\ pc = "record" /\ flight.bytes = runs => prior # <<>> /\ ~ok
  /\ pc = "down" \/ Recovers => flight = Nothing
  /\ \A i \in DOMAIN entries : /\ entries[i].run # flight.bytes /\ entries[i].run <= runs
                               /\ Running => entries[i].run < runs
  /\ \A i \in DOMAIN todo : todo[i].run = flight.bytes => i = Len(todo)

(* Nothing that will reach the path is torn, be it about to be renamed, in *)
(* flight, or what an undo action writes back.                             *)
Untorn == ~spoiled =>
  /\ file # Torn
  /\ pc \in {"rename", "undoRename"} \/ (flight.op = "rename" /\ BeforeUndo) => tmp # Torn
  /\ \A x \in logs : x.prior # Torn
  /\ \A i \in DOMAIN entries : entries[i].prior # Torn
  /\ \A i \in DOMAIN todo : todo[i].prior # Torn
  /\ \A i \in DOMAIN prior : prior[i] # Torn

(* The records of an open transaction are the ledger's, one for each step  *)
(* from the first on, with what the file held before it.                   *)
Clean == ~spoiled /\ ~skipped
Chained(S, v) ==
  /\ \A x \in S : x.step \in 1 .. Len(v) /\ x.prior = v[x.step]
  /\ \A x, y \in S : x.step = y.step => x = y
  /\ \A x \in S : \A s \in 1 .. x.step - 1 : \E y \in S : y.step = s
Whole == Clean =>
  /\ record = "open" => Chained(logs, versions) /\ (~Halted => logs = ToSet(entries) \cup ToSet(todo))
  /\ pc = "gone" => record # "open"

(* What the file holds on the way forward, and on the way back.            *)
Forward == Clean =>
  /\ pc \in {"idle", "write", "rename"} \/ (pc = "record" /\ prior = <<>>) => file = Last(versions)
  /\ \A i \in DOMAIN prior : prior[i] = Last(versions)
  /\ pc = "rename" => tmp = runs
  /\ pc = "record" /\ ok => file = runs
  /\ record = "committed" => file = Last(versions)
Back == Clean =>
  /\ pc = "undo" /\ todo = <<>> => file = versions[first]
  /\ pc = "undoRename" => tmp = Last(todo).prior
  /\ Halted /\ record = "open" /\ logs = {} => file = versions[1]
  /\ record = "closed" => file = versions[1]
FilesIInv == TypeOK /\ Handlers /\ Queues /\ Numbered /\ Flying /\ Untorn /\ Whole /\ Forward /\ Back
-----------------------------------------------------------------------------
(* What the bounds and the records are. *)
LEMMA Bounds ==
  /\ MaxRuns \in Nat /\ MaxAttempts \in Nat \ {0} /\ MaxCrashes \in Nat
  /\ Torn \notin Bases /\ Torn # Absent /\ \A n \in 1 .. MaxRuns : n # Torn
  /\ \A x \in Entries : /\ x.step \in 1 .. MaxRuns /\ x.seq \in 0 .. MaxRuns - 1
                        /\ x.run \in 1 .. MaxRuns /\ x.prior \in Contents
BY FileEffectsAssumption DEF Entries

(* A queue that ends in front of its last entry. *)
LEMMA Fronts ==
  ASSUME NEW S, NEW q \in Seq(S), q # <<>>
  PROVE  /\ Len(q) \in Nat \ {0} /\ Last(q) = q[Len(q)] /\ Last(q) \in S
         /\ Front(q) \in Seq(S) /\ Len(Front(q)) = Len(q) - 1
         /\ DOMAIN Front(q) = 1 .. Len(q) - 1 /\ \A i \in 1 .. Len(q) - 1 : Front(q)[i] = q[i]
         /\ ToSet(q) = ToSet(Front(q)) \cup {Last(q)}
<1>1. Len(q) \in Nat \ {0} /\ DOMAIN q = 1 .. Len(q)
  OBVIOUS
<1>2. Front(q) = SubSeq(q, 1, Len(q) - 1) /\ Last(q) = q[Len(q)]
  BY DEF Front, Last
<1>3. /\ Front(q) \in Seq(S) /\ Len(Front(q)) = Len(q) - 1
      /\ \A i \in 1 .. Len(q) - 1 : Front(q)[i] = q[i]
  BY <1>1, <1>2
<1>4. DOMAIN Front(q) = 1 .. Len(q) - 1
  BY <1>1, <1>3
<1>5. DOMAIN q = DOMAIN Front(q) \cup {Len(q)}
  BY <1>1, <1>4
<1>6. ToSet(q) = ToSet(Front(q)) \cup {Last(q)}
  BY <1>2, <1>3, <1>4, <1>5 DEF ToSet
<1> QED BY <1>1, <1>2, <1>3, <1>4, <1>6

(* compensate_from: entries numbered by their steps split at the step. *)
LEMMA Splits ==
  ASSUME NEW q \in Seq(Entries), \A i \in DOMAIN q : q[i].step = i, NEW s \in 0 .. Len(q) + 1
  PROVE  Split(q, s) = IF s = 0 THEN 0 ELSE s - 1
<1> DEFINE k == IF s = 0 THEN 0 ELSE s - 1
<1>1. Len(q) \in Nat /\ DOMAIN q = 1 .. Len(q) /\ k \in 0 .. Len(q)
  OBVIOUS
<1>2. \A i \in DOMAIN q : q[i].step < s <=> i <= k
  BY <1>1
<1>3. ASSUME NEW n \in 0 .. Len(q), \A i \in DOMAIN q : q[i].step < s <=> i <= n PROVE n = k
  <2>1. \A i \in 1 .. Len(q) : i <= k <=> i <= n
    BY <1>1, <1>2, <1>3
  <2>2. ~(n < k)
    BY <1>1, <2>1
  <2>3. ~(k < n)
    BY <1>1, <2>1
  <2> QED BY <1>1, <2>2, <2>3
<1> QED BY <1>1, <1>2, <1>3 DEF Split

(* What a compensation leaves in the ledger and what it takes out. *)
LEMMA Compensates ==
  ASSUME NEW why, NEW es \in Seq(Entries), \A i \in DOMAIN es : es[i].step = i,
         NEW target \in 0 .. Len(es) + 1, Compensate(why, target, es)
  PROVE  /\ first' \in 1 .. Len(es) + 1 /\ first' = IF target = 0 THEN 1 ELSE target
         /\ entries' \in Seq(Entries) /\ Len(entries') = first' - 1 /\ DOMAIN entries' = 1 .. first' - 1
         /\ \A i \in 1 .. first' - 1 : entries'[i] = es[i]
         /\ todo' \in Seq(Entries) /\ Len(todo') = Len(es) + 1 - first'
         /\ DOMAIN todo' = 1 .. Len(es) + 1 - first'
         /\ \A i \in 1 .. Len(es) + 1 - first' : todo'[i] = es[first' - 1 + i]
         /\ ToSet(entries') \cup ToSet(todo') = ToSet(es)
         /\ pc' = "undo" /\ job' = [why |-> why, target |-> target, clean |-> TRUE]
<1> DEFINE k == IF target = 0 THEN 1 ELSE target
<1>1. /\ pc' = "undo" /\ job' = [why |-> why, target |-> target, clean |-> TRUE]
      /\ first' = k /\ k \in 1 .. Len(es) + 1 /\ Len(es) \in Nat /\ DOMAIN es = 1 .. Len(es)
  BY DEF Compensate, first
<1>2. Split(es, target) = k - 1
  BY Splits
<1> HIDE DEF k
<1>3. entries' = SubSeq(es, 1, k - 1) /\ todo' = SubSeq(es, k, Len(es))
  <2>1. Split(es, target) + 1 = k
    BY <1>1, <1>2
  <2> QED BY <1>2, <2>1 DEF Compensate
<1>4. /\ entries' \in Seq(Entries) /\ Len(entries') = k - 1
      /\ \A i \in 1 .. k - 1 : entries'[i] = es[i]
  BY <1>1, <1>3
<1>5. /\ todo' \in Seq(Entries) /\ Len(todo') = Len(es) + 1 - k
      /\ \A i \in 1 .. Len(es) + 1 - k : todo'[i] = es[k - 1 + i]
  BY <1>1, <1>3
<1>6. DOMAIN entries' = 1 .. k - 1 /\ DOMAIN todo' = 1 .. Len(es) + 1 - k
  BY <1>1, <1>4, <1>5
<1>7. ToSet(entries') \cup ToSet(todo') = ToSet(es)
  <2>1. ASSUME NEW i \in 1 .. Len(es) PROVE es[i] \in ToSet(entries') \cup ToSet(todo')
    <3>1. CASE i < k
      BY <1>1, <1>4, <1>6, <3>1 DEF ToSet
    <3>2. CASE k <= i
      <4>1. i - k + 1 \in DOMAIN todo' /\ todo'[i - k + 1] = es[i]
        BY <1>1, <1>5, <1>6, <3>2
      <4> QED BY <4>1 DEF ToSet
    <3> QED BY <1>1, <3>1, <3>2
  <2>2. ToSet(entries') \subseteq ToSet(es)
    BY <1>1, <1>4, <1>6 DEF ToSet
  <2>3. ToSet(todo') \subseteq ToSet(es)
    <3>1. \A i \in 1 .. Len(es) + 1 - k : k - 1 + i \in 1 .. Len(es)
      BY <1>1
    <3>2. \A i \in DOMAIN todo' : \E j \in DOMAIN es : todo'[i] = es[j]
      BY <1>1, <1>5, <1>6, <3>1
    <3> QED BY <3>2 DEF ToSet
  <2>4. ToSet(es) \subseteq ToSet(entries') \cup ToSet(todo')
    BY <1>1, <2>1 DEF ToSet
  <2> QED BY <2>2, <2>3, <2>4
<1> QED BY <1>1, <1>4, <1>5, <1>6, <1>7 DEF k

(* The ledger of the transaction, with what the step to finish registered. *)
Ledger == IF pc = "record" THEN entries \o Registered ELSE entries
Added  == IF pc = "record" THEN ToSet(Registered) ELSE {}

(* What a step registers: nothing, or its one undo action. *)
LEMMA Registers ==
  ASSUME FilesIInv, pc = "record"
  PROVE  /\ Registered \in Seq(Entries)
         /\ prior = <<>> => Registered = <<>> /\ Len(Registered) = 0 /\ ToSet(Registered) = {}
         /\ prior # <<>> =>
              /\ Len(prior) = 1 /\ DOMAIN prior = {1} /\ prior[1] \in Contents
              /\ Registered[1] = [step |-> Len(versions), seq |-> seq, run |-> runs, prior |-> prior[1]]
              /\ Len(Registered) = 1 /\ DOMAIN Registered = {1} /\ ToSet(Registered) = {Registered[1]}
              /\ Registered[1] \in Entries
<1>1. /\ Len(versions) \in 1 .. MaxRuns /\ seq \in 0 .. MaxRuns - 1 /\ runs \in 1 .. MaxRuns
      /\ prior = <<>> \/ \E c \in Contents : prior = <<c>>
  BY Bounds DEF FilesIInv, TypeOK, Numbered, Running
<1>2. CASE prior = <<>>
  <2>1. DOMAIN prior = {}
    BY <1>2
  <2>2. DOMAIN Registered = {} /\ Registered = <<>>
    BY <2>1 DEF Registered
  <2> QED BY <1>2, <2>2 DEF ToSet
<1>3. CASE prior # <<>>
  <2>1. PICK c \in Contents : prior = <<c>>
    BY <1>1, <1>3
  <2>2. Len(prior) = 1 /\ DOMAIN prior = 1 .. 1 /\ prior[1] = c
    BY <2>1
  <2> DEFINE x == [step |-> Len(versions), seq |-> seq, run |-> runs, prior |-> c]
  <2>3. Registered = [i \in 1 .. 1 |-> x]
    BY <2>2 DEF Registered, step
  <2>4. x \in Entries
    BY <1>1 DEF Entries
  <2> HIDE DEF x
  <2>5. Registered \in Seq(Entries) /\ Len(Registered) = 1 /\ Registered[1] = x /\ DOMAIN Registered = 1 .. 1
    BY <2>3, <2>4
  <2>6. 1 .. 1 = {1}
    OBVIOUS
  <2>7. ToSet(Registered) = {x}
    BY <2>5, <2>6 DEF ToSet
  <2> QED BY <1>3, <2>2, <2>4, <2>5, <2>6, <2>7 DEF x
<1> QED BY <1>2, <1>3

(* The ledger has one entry for each step it counts. *)
LEMMA Ledgers ==
  ASSUME FilesIInv, pc = "idle" \/ pc = "record"
  PROVE  /\ Ledger \in Seq(Entries) /\ Len(entries) = Len(versions) - 1 /\ Len(versions) \in Nat \ {0}
         /\ DOMAIN Ledger = 1 .. Len(Ledger) /\ \A i \in DOMAIN Ledger : Ledger[i].step = i
         /\ \A i \in 1 .. Len(entries) : i \in DOMAIN entries /\ Ledger[i] = entries[i]
         /\ DOMAIN entries = 1 .. Len(entries)
         /\ ToSet(Ledger) = ToSet(entries) \cup Added
         /\ Len(Ledger) = IF pc = "record" /\ prior # <<>> THEN Len(versions) ELSE Len(versions) - 1
         /\ pc = "record" /\ prior # <<>> => Ledger[Len(versions)] = Registered[1]
<1>1. /\ entries \in Seq(Entries) /\ versions \in Seq(Contents) /\ Len(entries) = Len(versions) - 1
      /\ \A i \in DOMAIN entries : entries[i].step = i
      /\ Len(versions) \in Nat \ {0} /\ DOMAIN entries = 1 .. Len(entries) /\ Len(entries) \in Nat
  BY DEF FilesIInv, TypeOK, Handlers, Queues, Numbered, Running
<1>2. CASE pc = "record" /\ prior # <<>>
  <2>1. /\ Registered \in Seq(Entries) /\ Len(Registered) = 1 /\ DOMAIN Registered = {1}
        /\ ToSet(Registered) = {Registered[1]}
        /\ Registered[1] = [step |-> Len(versions), seq |-> seq, run |-> runs, prior |-> prior[1]]
    BY <1>2, Registers
  <2>2. Ledger = entries \o Registered
    BY <1>2 DEF Ledger
  <2>3. /\ Ledger \in Seq(Entries) /\ Len(Ledger) = Len(versions)
        /\ \A i \in 1 .. Len(entries) : Ledger[i] = entries[i]
        /\ Ledger[Len(versions)] = Registered[1]
    <3>1. /\ Ledger \in Seq(Entries) /\ Len(Ledger) = Len(entries) + Len(Registered)
          /\ \A i \in 1 .. Len(entries) + Len(Registered) :
               Ledger[i] = IF i <= Len(entries) THEN entries[i] ELSE Registered[i - Len(entries)]
      <4>1. entries \in Seq(Entries) /\ Registered \in Seq(Entries)
        BY <1>1, <2>1
      <4> QED BY <4>1, <2>2, ConcatProperties, Zenon
    <3>2. Len(entries) \in Nat /\ Len(Registered) = 1
      BY <1>1, <2>1
    <3>3. \A i \in 1 .. Len(entries) : Ledger[i] = entries[i]
      BY <3>1, <3>2
    <3>4. Ledger[Len(entries) + 1] = Registered[1]
      <4>1. Len(entries) + 1 \in 1 .. Len(entries) + Len(Registered) /\ ~(Len(entries) + 1 <= Len(entries))
            /\ (Len(entries) + 1) - Len(entries) = 1
        BY <3>2
      <4> QED BY <3>1, <4>1
    <3>5. Len(entries) + 1 = Len(versions)
      BY <1>1
    <3> QED BY <3>1, <3>2, <3>3, <3>4, <3>5
  <2>4. DOMAIN Ledger = 1 .. Len(entries) \cup {Len(versions)} /\ DOMAIN Ledger = 1 .. Len(Ledger)
    <3>1. DOMAIN Ledger = 1 .. Len(Ledger)
      BY <2>3
    <3>2. 1 .. Len(versions) = 1 .. Len(entries) \cup {Len(versions)}
      BY <1>1
    <3> QED BY <2>3, <3>1, <3>2
  <2>5. ToSet(Ledger) = ToSet(entries) \cup {Registered[1]}
    BY <1>1, <2>3, <2>4 DEF ToSet
  <2>6. Registered[1].step = Len(versions)
    BY <2>1
  <2>7. \A i \in DOMAIN Ledger : Ledger[i].step = i
    BY <1>1, <2>3, <2>4, <2>6
  <2> QED BY <1>1, <1>2, <2>1, <2>3, <2>4, <2>5, <2>7 DEF Added
<1>3. CASE ~(pc = "record" /\ prior # <<>>)
  <2>1. Ledger = entries /\ Added = {}
    <3>1. CASE pc = "record"
      <4>1. Registered = <<>> /\ ToSet(Registered) = {}
        BY <1>3, <3>1, Registers
      <4>2. entries \o <<>> = entries
        BY <1>1
      <4> QED BY <3>1, <4>1, <4>2 DEF Ledger, Added
    <3>2. CASE pc # "record"
      BY <3>2 DEF Ledger, Added
    <3> QED BY <3>1, <3>2
  <2> QED BY <1>1, <1>3, <2>1
<1> QED BY <1>2, <1>3

(* A handler starts to compensate: a failed step, or the agent's rollback. *)
Turning == (Finish /\ Recorded(Registered) /\ pc' = "undo") \/ Rollback

(* handle_failure and rollback: the ledger is split at the step to return  *)
(* to, and nothing else changes but for what the step registered.          *)
LEMMA Turns ==
  ASSUME FilesIInv, Turning
  PROVE  /\ pc = "idle" \/ pc = "record"
         /\ record = "open" /\ todo = <<>> /\ pc' = "undo"
         /\ job' = [why |-> job.why, target |-> job.target, clean |-> TRUE]'
         /\ (job.why \in {"rewind", "abort", "request"})' /\ job.clean'
         /\ (IF job.why = "rewind" THEN job.target \in 1 .. Len(versions) ELSE job.target = 0)'
         /\ job'.target \in 0 .. runs
         /\ first' \in 1 .. Len(versions) /\ first' <= Len(Ledger) + 1 /\ Len(Ledger) \in Nat
         /\ entries' \in Seq(Entries) /\ Len(entries') = first' - 1 /\ DOMAIN entries' = 1 .. first' - 1
         /\ \A i \in 1 .. first' - 1 : entries'[i] = Ledger[i]
         /\ todo' \in Seq(Entries) /\ Len(todo') = Len(Ledger) + 1 - first'
         /\ DOMAIN todo' = 1 .. Len(Ledger) + 1 - first'
         /\ \A i \in 1 .. Len(Ledger) + 1 - first' : todo'[i] = Ledger[first' - 1 + i]
         /\ ToSet(entries') \cup ToSet(todo') = ToSet(Ledger)
         /\ logs' = logs \cup Added /\ prior' = <<>>
         /\ seq' = IF pc = "record" THEN seq + Len(Registered) ELSE seq
         /\ UNCHANGED <<file, tmp, record, ok, tries, flight, history>>
<1>1. /\ pc = "idle" \/ pc = "record"
      /\ record = "open" /\ todo = <<>>
      /\ logs' = logs \cup Added /\ prior' = <<>>
      /\ seq' = IF pc = "record" THEN seq + Len(Registered) ELSE seq
      /\ UNCHANGED <<file, tmp, record, ok, tries, flight, history>>
  <2>1. CASE Finish /\ Recorded(Registered) /\ pc' = "undo"
    BY <2>1 DEF Finish, Finishes, Recorded, FilesIInv, Handlers, Running, Added, history
  <2>2. CASE Rollback
    BY <2>2 DEF Rollback, Ready, FilesIInv, Handlers, Running, Added, history, disk, tool
  <2> QED BY <2>1, <2>2 DEF Turning
<1>2. /\ Ledger \in Seq(Entries) /\ \A i \in DOMAIN Ledger : Ledger[i].step = i
      /\ Len(Ledger) \in {Len(versions) - 1, Len(versions)} /\ Len(versions) \in Nat \ {0}
  BY <1>1, Ledgers
<1>3. \/ \E target \in 1 .. Len(versions) : target <= runs /\ Compensate("rewind", target, Ledger)
      \/ \E why \in {"abort", "request"} : Compensate(why, 0, Ledger)
  <2>0. runs \in Nat /\ Len(versions) \in 1 .. runs + 1 /\ (pc = "record" => Len(versions) <= runs)
    BY DEF FilesIInv, TypeOK, Numbered, Running
  <2>1. CASE Finish /\ Recorded(Registered) /\ pc' = "undo"
    BY <2>0, <2>1 DEF Finish, Finishes, Recorded, Ledger, step
  <2>2. CASE Rollback
    BY <2>0, <2>2 DEF Rollback, Ready, Ledger, step
  <2> QED BY <2>1, <2>2 DEF Turning
<1>0. runs \in Nat
  BY DEF FilesIInv, TypeOK
<1>4. PICK why \in {"rewind", "abort", "request"}, target \in 0 .. Len(versions) :
        /\ Compensate(why, target, Ledger) /\ target \in 0 .. runs
        /\ IF why = "rewind" THEN target \in 1 .. Len(versions) ELSE target = 0
  BY <1>0, <1>2, <1>3
<1>5. Len(Ledger) \in Nat /\ target \in 0 .. Len(Ledger) + 1
  BY <1>2, <1>4
<1>6. /\ first' \in 1 .. Len(Ledger) + 1 /\ first' = IF target = 0 THEN 1 ELSE target
      /\ entries' \in Seq(Entries) /\ Len(entries') = first' - 1 /\ DOMAIN entries' = 1 .. first' - 1
      /\ \A i \in 1 .. first' - 1 : entries'[i] = Ledger[i]
      /\ todo' \in Seq(Entries) /\ Len(todo') = Len(Ledger) + 1 - first'
      /\ DOMAIN todo' = 1 .. Len(Ledger) + 1 - first'
      /\ \A i \in 1 .. Len(Ledger) + 1 - first' : todo'[i] = Ledger[first' - 1 + i]
      /\ ToSet(entries') \cup ToSet(todo') = ToSet(Ledger)
      /\ pc' = "undo" /\ job' = [why |-> why, target |-> target, clean |-> TRUE]
  BY <1>2, <1>4, <1>5, Compensates, Zenon
<1>7. first' \in 1 .. Len(versions) /\ first' <= Len(Ledger) + 1
  BY <1>2, <1>4, <1>5, <1>6
<1>8. /\ job' = [why |-> job.why, target |-> job.target, clean |-> TRUE]'
      /\ (job.why \in {"rewind", "abort", "request"})' /\ job.clean'
      /\ (IF job.why = "rewind" THEN job.target \in 1 .. Len(versions) ELSE job.target = 0)'
  <2>1. versions' = versions
    BY <1>1 DEF history
  <2>2. job'.why = why /\ job'.target = target /\ job'.clean
    BY <1>6
  <2> QED BY <1>4, <1>6, <2>1, <2>2
<1>9. job'.target \in 0 .. runs
  BY <1>4, <1>6
<1> QED BY <1>9, <1>1, <1>5, <1>6, <1>7, <1>8

(* run_one, at its end: the last entry to undo is off the list, or it is   *)
(* to be tried again; one whose record stays is noted.                     *)
LEMMA Settles ==
  ASSUME FilesIInv, pc \in {"undo", "undoRename"}, todo # <<>>, Undone \/ Failed
  PROVE  /\ pc' = "undo" /\ tries' \in 0 .. MaxAttempts - 1 /\ skipped' \in BOOLEAN
         /\ \/ todo' = Front(todo)
            \/ todo' = todo /\ tries' # 0 /\ logs' = logs
         /\ logs' = logs \/ logs' = logs \ {Last(todo)}
         /\ \/ job' = job
            \/ job' = [job EXCEPT !.clean = FALSE] /\ skipped'
         /\ skipped => skipped'
         /\ ~skipped' => (todo' = todo /\ logs' = logs) \/ (todo' = Front(todo) /\ logs' = logs \ {Last(todo)})
         /\ ~skipped' /\ Undone => todo' = Front(todo) /\ logs' = logs \ {Last(todo)}
         /\ ~skipped' /\ Failed => todo' = todo
<1>1. tries \in 0 .. MaxAttempts - 1 /\ MaxAttempts \in Nat \ {0} /\ skipped \in BOOLEAN
  BY Bounds DEF FilesIInv, TypeOK
<1>2. ASSUME Undone PROVE /\ todo' = Front(todo) /\ tries' = 0 /\ pc' = "undo" /\ job' = job
                          /\ \/ logs' = logs \ {Last(todo)} /\ skipped' = skipped
                             \/ logs' = logs /\ skipped' = TRUE
  BY <1>2 DEF Undone
<1>3. ASSUME Failed
      PROVE  /\ pc' = "undo" /\ logs' = logs
             /\ \/ /\ tries' = tries + 1 /\ tries + 1 < MaxAttempts
                   /\ todo' = todo /\ job' = job /\ skipped' = skipped
                \/ /\ tries' = 0 /\ todo' = Front(todo) /\ skipped' = TRUE
                   /\ job' = [job EXCEPT !.clean = FALSE]
  BY <1>3 DEF Failed
<1>4. ASSUME Failed PROVE tries' \in 0 .. MaxAttempts - 1 /\ ((todo' = todo /\ tries' # 0) \/ todo' = Front(todo))
  <2>1. CASE tries' = tries + 1 /\ tries + 1 < MaxAttempts /\ todo' = todo
    BY <1>1, <2>1
  <2>2. CASE tries' = 0 /\ todo' = Front(todo)
    BY <1>1, <2>2
  <2> QED BY <1>3, <1>4, <2>1, <2>2
<1>5. 0 \in 0 .. MaxAttempts - 1
  BY <1>1
<1>6. CASE Undone
  <2>1. ~(Failed /\ ~skipped')
    <3>1. todo # Front(todo)
      <4>1. Len(todo) \in Nat /\ Len(Front(todo)) = Len(todo) - 1
        BY Fronts DEF FilesIInv, TypeOK
      <4> QED BY <4>1
    <3> QED BY <1>2, <1>3, <1>6, <3>1, Zenon
  <2> QED BY <1>1, <1>2, <1>5, <1>6, <2>1, Zenon
<1>7. CASE Failed /\ ~Undone
  BY <1>1, <1>3, <1>4, <1>7, Zenon
<1> QED BY <1>6, <1>7, Zenon

(* FileRestoreUndo::undo: the temporary file gets the prior bytes and is   *)
(* renamed, or a file that was not there is removed, or it fails.          *)
LEMMA Undoes ==
  ASSUME FilesIInv, Undo \/ UndoRename
  PROVE  /\ pc \in {"undo", "undoRename"} /\ todo # <<>> /\ record = "open"
         /\ UNCHANGED <<record, entries, seq, ok, prior, flight, versions, runs, crashes>>
         /\ \/ /\ pc = "undo" /\ pc' = "undoRename" /\ UNCHANGED <<file, logs, job, todo, tries, skipped>>
               /\ \/ tmp' = Last(todo).prior /\ spoiled' = spoiled
                  \/ tmp' = Torn /\ spoiled'
            \/ /\ Undone \/ Failed
               /\ spoiled' = spoiled
               /\ \/ Failed /\ file' = file /\ tmp' \in {tmp, Torn}
                  \/ Undone /\ pc = "undo" /\ file' = Absent /\ Last(todo).prior = Absent /\ tmp' = tmp
                  \/ Undone /\ pc = "undoRename" /\ file' = tmp /\ tmp' = Absent
<1>1. pc = "undoRename" => todo # <<>>
  BY DEF FilesIInv, Handlers
<1>2. pc \in {"undo", "undoRename"} => record = "open"
  BY DEF FilesIInv, Handlers
<1>3. CASE Undo
  <2>1. CASE Last(todo).prior = Absent
    BY <1>2, <1>3, <2>1 DEF Undo, ledger, tool
  <2>2. CASE Last(todo).prior # Absent
    BY <1>2, <1>3, <2>2 DEF Undo, WriteTmp, ledger, tool, unwind
  <2> QED BY <2>1, <2>2
<1>4. CASE UndoRename
  BY <1>1, <1>2, <1>4 DEF UndoRename, RenameTmp, ledger, tool
<1> QED BY <1>3, <1>4

(* A non-empty set of naturals has a smallest element. *)
LEMMA LeastExists ==
  ASSUME NEW S \in SUBSET Nat, S # {}
  PROVE  \E n \in S : \A m \in S : n <= m
<1>1. PICK n \in S : \A m \in S : ~ (<<m, n>> \in OpToRel(<, Nat))
  BY NatLessThanWellFounded, WFMin, Zenon
<1>2. \A m \in S : ~ (m < n)
  BY <1>1, Zenon DEF OpToRel
<1> QED BY <1>2

(* A non-empty set of numbers up to a bound has a largest one. *)
LEMMA GreatestExists ==
  ASSUME NEW b \in Nat, NEW S \in SUBSET (0 .. b), S # {}
  PROVE  \E n \in S : \A m \in S : m <= n
<1> DEFINE Above == {b - n : n \in S}
<1>1. Above \in SUBSET Nat /\ Above # {}
  <2>1. \A n \in S : b - n \in Nat
    OBVIOUS
  <2> QED BY <2>1
<1>2. PICK k \in Above : \A m \in Above : k <= m
  <2> HIDE DEF Above
  <2> QED BY <1>1, LeastExists
<1>3. PICK n \in S : k = b - n
  OBVIOUS
<1>4. \A m \in S : b - m \in Above /\ m \in Nat /\ n \in Nat
  OBVIOUS
<1>5. \A m \in S : m <= n
  BY <1>2, <1>3, <1>4
<1> QED BY <1>5

(* Of some entries with different numbers, one comes last. *)
LEMMA LatestEntry ==
  ASSUME NEW T \in SUBSET Entries, T # {}, \A x, y \in T : x.seq = y.seq => x = y
  PROVE  \E z \in T : \A x \in T \ {z} : Earlier(x, z)
<1>1. MaxRuns \in Nat /\ \A x \in T : x.step \in 0 .. MaxRuns /\ x.seq \in 0 .. MaxRuns
  <2>1. MaxRuns \in Nat /\ \A x \in Entries : x.step \in 1 .. MaxRuns /\ x.seq \in 0 .. MaxRuns - 1
    BY Bounds
  <2> QED BY <2>1
<1> DEFINE steps == {x.step : x \in T}
<1>2. steps \in SUBSET (0 .. MaxRuns) /\ steps # {}
  BY <1>1
<1>3. PICK s \in steps : \A m \in steps : m <= s
  <2> HIDE DEF steps
  <2> QED BY <1>1, <1>2, GreatestExists
<1> DEFINE ns == {x.seq : x \in {y \in T : y.step = s}}
<1>4. ns \in SUBSET (0 .. MaxRuns) /\ ns # {}
  BY <1>1, <1>3
<1>5. PICK n \in ns : \A m \in ns : m <= n
  <2> HIDE DEF ns
  <2> QED BY <1>1, <1>4, GreatestExists
<1>6. PICK z \in T : z.step = s /\ z.seq = n
  BY <1>5
<1>7. ASSUME NEW x \in T \ {z} PROVE Earlier(x, z)
  <2>1. x.step <= s /\ (x.step = s => x.seq <= n) /\ x.seq # n
    BY <1>3, <1>5, <1>6, <1>7
  <2> QED BY <1>1, <1>6, <1>7, <2>1 DEF Earlier
<1> QED BY <1>7

(* SagaLedger::recover can sort the records, which differ in their keys. *)
LEMMA Recovery ==
  ASSUME NEW S \in SUBSET Entries, IsFiniteSet(S), \A x, y \in S : x.seq = y.seq => x = y
  PROVE  Sorted(S) \in Seq(Entries) /\ ToSet(Sorted(S)) = S /\ InOrder(Sorted(S))
<1> DEFINE Sorts(q, T) == ToSet(q) = T /\ \A i, j \in DOMAIN q : i < j => Earlier(q[i], q[j])
           Unsorted == {k \in Nat : \E T \in SUBSET S :
                          /\ IsFiniteSet(T) /\ Cardinality(T) = k
                          /\ ~ \E q \in [1 .. k -> T] : Sorts(q, T)}
<1>1. Unsorted = {}
  <2> SUFFICES ASSUME Unsorted # {} PROVE FALSE
    OBVIOUS
  <2>1. PICK k \in Unsorted : \A m \in Unsorted : k <= m
    <3>1. Unsorted \in SUBSET Nat
      OBVIOUS
    <3> HIDE DEF Unsorted
    <3> QED BY <3>1, LeastExists
  <2>2. PICK T \in SUBSET S : /\ IsFiniteSet(T) /\ Cardinality(T) = k
                              /\ ~ \E q \in [1 .. k -> T] : Sorts(q, T)
    OBVIOUS
  <2>3. T # {}
    <3> SUFFICES ASSUME T = {} PROVE FALSE
      OBVIOUS
    <3>1. k = 0
      BY <2>2, FS_EmptySet
    <3>2. <<>> \in [1 .. k -> T] /\ Sorts(<<>>, T)
      BY <3>1 DEF ToSet
    <3> QED BY <2>2, <3>2
  <2>4. PICK z \in T : \A x \in T \ {z} : Earlier(x, z)
    BY <2>3, LatestEntry
  <2> DEFINE U == T \ {z}
  <2>5. IsFiniteSet(U) /\ Cardinality(U) = k - 1 /\ k \in Nat /\ k - 1 \in Nat
    <3>1. IsFiniteSet(U) /\ Cardinality(U) = Cardinality(T) - 1
      BY <2>2, FS_RemoveElement
    <3>2. Cardinality(U) \in Nat
      BY <3>1, FS_CardinalityType
    <3> QED BY <2>1, <2>2, <3>1, <3>2
  <2>6. PICK p \in [1 .. k - 1 -> U] : Sorts(p, U)
    <3>1. k - 1 \notin Unsorted
      BY <2>1, <2>5
    <3> QED BY <2>5, <3>1
  <2> DEFINE q == [i \in 1 .. k |-> IF i = k THEN z ELSE p[i]]
  <2>7. q \in [1 .. k -> T]
    BY <2>5
  <2>8. ToSet(q) = T
    <3>1. ToSet(p) = {p[i] : i \in 1 .. k - 1} /\ ToSet(p) = U
      BY <2>6 DEF ToSet
    <3>2. ToSet(q) = {q[i] : i \in 1 .. k}
      BY DEF ToSet
    <3>3. 1 .. k = 1 .. (k - 1) \cup {k} /\ k \notin 1 .. k - 1
      BY <2>3, <2>2, <2>5
    <3>4. \A i \in 1 .. k - 1 : q[i] = p[i]
      BY <2>5
    <3>5. q[k] = z
      BY <2>5
    <3> HIDE DEF q
    <3>6. ToSet(q) = {p[i] : i \in 1 .. k - 1} \cup {z}
      BY <3>2, <3>3, <3>4, <3>5
    <3> QED BY <3>1, <3>6
  <2>9. \A i, j \in DOMAIN q : i < j => Earlier(q[i], q[j])
    <3>0. DOMAIN q = 1 .. k
      BY Zenon
    <3> SUFFICES ASSUME NEW i \in 1 .. k, NEW j \in 1 .. k, i < j PROVE Earlier(q[i], q[j])
      BY <3>0
    <3>1. i \in 1 .. k - 1 /\ q[i] = p[i] /\ p[i] \in U
      BY <2>5, <2>6
    <3>2. CASE j = k
      BY <2>4, <3>1, <3>2
    <3>3. CASE j # k
      <4>1. j \in 1 .. k - 1 /\ q[j] = p[j] /\ DOMAIN p = 1 .. k - 1
        BY <2>5, <2>6, <3>3
      <4> QED BY <2>6, <3>1, <4>1
    <3> QED BY <3>2, <3>3
  <2> QED BY <2>2, <2>7, <2>8, <2>9
<1>2. Cardinality(S) \in Nat
  BY FS_CardinalityType
<1>3. \E q \in [1 .. Cardinality(S) -> S] : Sorts(q, S)
  BY <1>1, <1>2
<1>4. Sorted(S) \in [1 .. Cardinality(S) -> S] /\ Sorts(Sorted(S), S)
  BY <1>3 DEF Sorted
<1>5. Sorted(S) \in Seq(Entries)
  BY <1>2, <1>4
<1>6. InOrder(Sorted(S))
  BY <1>4 DEF InOrder
<1> QED BY <1>4, <1>5, <1>6
-----------------------------------------------------------------------------
(* What a step may be: the last write of a run, a compensation begun, gone *)
(* on with or begun again for want of storage, the end of a handler or of  *)
(* the process before its time, or one of the others.                      *)
Succeeds == Finish /\ Recorded(Registered) /\ pc' = "idle"
Undoing  == Undo \/ UndoRename
Failing  == (Finish /\ Unrecorded) \/ (UnwindFails /\ job.why \in {"rewind", "abort"})
Halting  == Crash \/ Cancel \/ (UnwindFails /\ job.why \notin {"rewind", "abort"})

(* Every step of the specification is one of these. *)
LEMMA StepCases ==
  ASSUME [Next]_vars
  PROVE  \/ Read \/ Write \/ Rename \/ Timeout \/ Late \/ Succeeds \/ Turning \/ Failing
         \/ Undoing \/ Unwound \/ Commit \/ Halting \/ Restart \/ UNCHANGED vars
<1>1. CASE Finish
  <2>1. CASE Recorded(Registered)
    <3>1. pc' = "idle" \/ pc' = "undo"
      BY <2>1 DEF Recorded, Compensate
    <3> QED BY <1>1, <2>1, <3>1 DEF Succeeds, Turning
  <2>2. CASE Unrecorded
    BY <1>1, <2>2 DEF Failing
  <2> QED BY <1>1, <2>1, <2>2 DEF Finish, Finishes
<1>2. CASE UnwindFails
  BY <1>2 DEF Failing, Halting
<1>3. CASE Next /\ ~Finish /\ ~UnwindFails
  BY <1>3 DEF Next, Turning, Undoing, Halting
<1> QED BY <1>1, <1>2, <1>3

(* A step that counts: its undo action is on disk and in the ledger. *)
LEMMA Counts ==
  ASSUME FilesIInv, Succeeds
  PROVE  /\ pc = "record" /\ ok /\ pc' = "idle" /\ prior # <<>> /\ prior' = <<>> /\ record = "open"
         /\ entries' = Ledger /\ logs' = logs \cup Added /\ seq' = seq + 1
         /\ versions' = Append(versions, runs) /\ Len(versions') = Len(versions) + 1
         /\ Last(versions') = runs /\ versions' \in Seq(Contents)
         /\ \A i \in 1 .. Len(versions) : versions'[i] = versions[i]
         /\ UNCHANGED <<file, tmp, record, ok, tries, job, todo, flight, runs, crashes, spoiled, skipped>>
<1>1. /\ pc = "record" /\ pc' = "idle" /\ prior' = <<>> /\ ok
      /\ entries' = Ledger /\ logs' = logs \cup Added /\ seq' = seq + Len(Registered)
      /\ versions' = Append(versions, runs)
      /\ UNCHANGED <<file, tmp, record, ok, tries, job, todo, flight, runs, crashes, spoiled, skipped>>
  BY DEF Succeeds, Finish, Finishes, Recorded, Compensate, Ledger, Added
<1>2. prior # <<>> /\ record = "open"
  BY <1>1 DEF FilesIInv, Handlers, Running
<1>3. Len(Registered) = 1
  BY <1>1, <1>2, Registers
<1>4. versions \in Seq(Contents) /\ runs \in Contents
  BY <1>1, Bounds DEF FilesIInv, TypeOK, Numbered, Running, Contents
<1>5. /\ Len(versions') = Len(versions) + 1 /\ versions' \in Seq(Contents)
      /\ versions'[Len(versions')] = runs
      /\ \A i \in 1 .. Len(versions) : versions'[i] = versions[i]
  BY <1>1, <1>4
<1> QED BY <1>1, <1>2, <1>3, <1>5 DEF Last

(* saga.record or a rewind fails: what the ledger has is split at the step *)
(* to return to, and nothing goes on disk.                                 *)
LEMMA Fails ==
  ASSUME FilesIInv, Failing
  PROVE  /\ Lives /\ pc \in {"record", "undo"} /\ record = "open" /\ todo = <<>> /\ pc' = "undo"
         /\ job' = [why |-> job.why, target |-> job.target, clean |-> TRUE]'
         /\ (job.why \in {"rewind", "hard"})' /\ job.clean'
         /\ (IF job.why = "rewind" THEN job.target \in 1 .. Len(versions) ELSE job.target = 0)'
         /\ job'.target \in 0 .. runs /\ first' \in Nat \ {0} /\ first' <= Len(entries) + 1
         /\ entries' \in Seq(Entries) /\ Len(entries') = first' - 1 /\ DOMAIN entries' = 1 .. first' - 1
         /\ \A i \in 1 .. first' - 1 : i \in DOMAIN entries /\ entries'[i] = entries[i]
         /\ todo' \in Seq(Entries) /\ Len(todo') = Len(entries) + 1 - first'
         /\ DOMAIN todo' = 1 .. Len(entries) + 1 - first'
         /\ \A i \in DOMAIN todo' : first' - 1 + i \in DOMAIN entries /\ todo'[i] = entries[first' - 1 + i]
         /\ ToSet(entries') \cup ToSet(todo') = ToSet(entries)
         /\ logs' = logs /\ prior' = <<>>
         /\ seq' = IF pc = "record" THEN seq + 1 ELSE seq
         /\ spoiled' \in BOOLEAN /\ (spoiled => spoiled')
         /\ todo' = <<>> /\ Clean /\ ~spoiled' => file = versions[first']
         /\ UNCHANGED <<file, tmp, record, ok, tries, flight, versions, runs, crashes, skipped>>
<1>1. /\ entries \in Seq(Entries) /\ \A i \in DOMAIN entries : entries[i].step = i
      /\ Len(entries) \in Nat /\ DOMAIN entries = 1 .. Len(entries) /\ spoiled \in BOOLEAN
      /\ runs \in Nat /\ Len(versions) \in Nat \ {0} /\ Len(versions) \in 1 .. runs + 1
  BY DEF FilesIInv, TypeOK, Queues, Numbered
<1>2. CASE Finish /\ Unrecorded
  <2>1. /\ pc = "record" /\ prior # <<>> /\ prior' = <<>> /\ seq' = seq + 1 /\ logs' = logs
        /\ Compensate("rewind", Len(versions), entries)
        /\ spoiled' = (spoiled \/ (prior # <<>> /\ file # Last(versions)))
        /\ UNCHANGED <<file, tmp, record, ok, tries, flight, versions, runs, crashes, skipped>>
    BY <1>2, Zenon DEF Finish, Finishes, Unrecorded, LosesUndo, step
  <2>2. record = "open" /\ todo = <<>> /\ Len(entries) = Len(versions) - 1 /\ Len(versions) <= runs /\ Lives
    BY <2>1 DEF FilesIInv, Handlers, Numbered, Running, Lives, Halted, Recovers
  <2>3. Len(versions) \in 0 .. Len(entries) + 1
    BY <1>1, <2>2
  <2>4. /\ first' \in 1 .. Len(entries) + 1 /\ first' = IF Len(versions) = 0 THEN 1 ELSE Len(versions)
        /\ entries' \in Seq(Entries) /\ Len(entries') = first' - 1 /\ DOMAIN entries' = 1 .. first' - 1
        /\ \A i \in 1 .. first' - 1 : entries'[i] = entries[i]
        /\ todo' \in Seq(Entries) /\ Len(todo') = Len(entries) + 1 - first'
        /\ DOMAIN todo' = 1 .. Len(entries) + 1 - first'
        /\ \A i \in 1 .. Len(entries) + 1 - first' : todo'[i] = entries[first' - 1 + i]
        /\ ToSet(entries') \cup ToSet(todo') = ToSet(entries)
        /\ pc' = "undo" /\ job' = [why |-> "rewind", target |-> Len(versions), clean |-> TRUE]
    BY <1>1, <2>1, <2>3, Compensates, Zenon
  <2>5. first' = Len(versions)
    BY <1>1, <2>4
  <2>6. spoiled' \in BOOLEAN /\ (spoiled => spoiled') /\ (~spoiled' => file = Last(versions))
    BY <1>1, <2>1, Zenon
  <2>7. /\ first' \in Nat \ {0} /\ first' <= Len(entries) + 1
        /\ \A i \in 1 .. first' - 1 : i \in DOMAIN entries
        /\ \A i \in 1 .. Len(entries) + 1 - first' : first' - 1 + i \in DOMAIN entries
        /\ Len(versions) \in 0 .. runs /\ Len(versions) \in 1 .. Len(versions)
    BY <1>1, <2>2, <2>5
  <2>8. file = Last(versions) => file = versions[first']
    BY <2>5 DEF Last
  <2>9. /\ job' = [why |-> job.why, target |-> job.target, clean |-> TRUE]'
        /\ (job.why \in {"rewind", "hard"})' /\ job.clean' /\ job'.target \in 0 .. runs
        /\ (IF job.why = "rewind" THEN job.target \in 1 .. Len(versions) ELSE job.target = 0)'
    <3>1. job'.why = "rewind" /\ job'.target = Len(versions) /\ job'.clean
      BY <2>4
    <3>2. versions' = versions
      BY <2>1
    <3> QED BY <2>4, <2>7, <3>1, <3>2
  <2> QED BY <2>1, <2>2, <2>4, <2>6, <2>7, <2>8, <2>9
<1>3. CASE UnwindFails /\ job.why \in {"rewind", "abort"}
  <2>1. /\ pc = "undo" /\ todo = <<>> /\ Compensate("hard", 0, entries)
        /\ UNCHANGED <<file, tmp, record, logs, seq, ok, prior, tries, flight, versions, runs, crashes,
                       spoiled, skipped>>
    BY <1>3 DEF UnwindFails, disk, tool, history
  <2>2. record = "open" /\ prior = <<>> /\ Lives /\ Len(entries) = first - 1 /\ first \in Nat
    BY <1>3, <2>1 DEF FilesIInv, TypeOK, Handlers, Queues, Unwinds, Running, Lives, Halted, Recovers, first
  <2>3. 0 \in 0 .. Len(entries) + 1
    BY <1>1
  <2>4. /\ first' \in 1 .. Len(entries) + 1 /\ first' = IF 0 = 0 THEN 1 ELSE 0
        /\ entries' \in Seq(Entries) /\ Len(entries') = first' - 1 /\ DOMAIN entries' = 1 .. first' - 1
        /\ \A i \in 1 .. first' - 1 : entries'[i] = entries[i]
        /\ todo' \in Seq(Entries) /\ Len(todo') = Len(entries) + 1 - first'
        /\ DOMAIN todo' = 1 .. Len(entries) + 1 - first'
        /\ \A i \in 1 .. Len(entries) + 1 - first' : todo'[i] = entries[first' - 1 + i]
        /\ ToSet(entries') \cup ToSet(todo') = ToSet(entries)
        /\ pc' = "undo" /\ job' = [why |-> "hard", target |-> 0, clean |-> TRUE]
    BY <1>1, <2>1, <2>3, Compensates, Zenon
  <2>5. first' = 1
    BY <2>4
  <2>6. /\ first' \in Nat \ {0} /\ first' <= Len(entries) + 1
        /\ \A i \in 1 .. first' - 1 : i \in DOMAIN entries
        /\ \A i \in 1 .. Len(entries) + 1 - first' : first' - 1 + i \in DOMAIN entries
    BY <1>1, <2>5
  <2>7. ASSUME todo' = <<>>, Clean PROVE file = versions[first']
    <3>1. Len(entries) = 0
      BY <1>1, <2>4, <2>5, <2>7
    <3>2. first = 1
      BY <2>2, <3>1
    <3> QED BY <2>1, <2>5, <2>7, <3>2 DEF FilesIInv, Back
  <2>8. /\ job' = [why |-> job.why, target |-> job.target, clean |-> TRUE]'
        /\ (job.why \in {"rewind", "hard"})' /\ job.clean' /\ job'.target \in 0 .. runs
        /\ (IF job.why = "rewind" THEN job.target \in 1 .. Len(versions) ELSE job.target = 0)'
    <3>1. job'.why = "hard" /\ job'.target = 0 /\ job'.clean
      BY <2>4
    <3> QED BY <1>1, <2>4, <3>1
  <2> QED BY <1>1, <2>1, <2>2, <2>4, <2>6, <2>7, <2>8
<1> QED BY <1>2, <1>3 DEF Failing

(* The handler or the process ends before its time: what is in memory is   *)
(* gone, and on disk at most the operation it was at is done.              *)
LEMMA Halts ==
  ASSUME FilesIInv, Halting
  PROVE  /\ pc' \in {"down", "stuck"} /\ entries' = <<>> /\ seq' = 0 /\ ok' = FALSE /\ prior' = <<>>
         /\ job' = [why |-> "none", target |-> 0, clean |-> TRUE] /\ todo' = <<>> /\ tries' = 0
         /\ UNCHANGED <<versions, runs, skipped>> /\ crashes' \in 0 .. MaxCrashes
         /\ spoiled' \in BOOLEAN /\ (spoiled => spoiled')
         /\ ~spoiled' /\ pc = "record" /\ prior # <<>> => file = Last(versions)
         /\ \/ UNCHANGED <<record, logs>>
            \/ /\ logs' = {} /\ record = "open" /\ UNCHANGED file
               /\ \/ record' = "closed" /\ pc = "undo" /\ todo = <<>> /\ first = 1
                  \/ record' = "committed" /\ pc = "idle"
         /\ \/ flight' = Nothing
            \/ pc' = "stuck" /\ flight' = flight
            \/ /\ pc' = "stuck" /\ runs \in Nat \ {0}
               /\ flight' \in [op : {"rename", "tool"}, bytes : {runs}]
         /\ \/ UNCHANGED file
            \/ /\ pc \in {"undo", "undoRename"} /\ todo # <<>>
               /\ file' = Absent \/ (pc = "undoRename" /\ file' = tmp)
         /\ {file', tmp'} \subseteq Contents
<1>0. /\ {file, tmp, Absent, Torn} \subseteq Contents /\ spoiled \in BOOLEAN /\ runs \in Nat
      /\ crashes \in 0 .. MaxCrashes /\ MaxCrashes \in Nat /\ Handlers /\ Flying
      /\ pc \in {"idle", "write", "rename", "record", "undo", "undoRename", "gone", "down", "stuck"}
  BY Bounds DEF FilesIInv, TypeOK, Contents
<1>a. todo # <<>> => Last(todo).prior \in Contents
  <2>1. ASSUME todo # <<>> PROVE Last(todo) \in Entries
    BY <2>1, Fronts DEF FilesIInv, TypeOK
  <2> QED BY <2>1, Bounds
<1>1. CASE Crash
  <2>1. /\ pc' = "down" /\ flight' = Nothing /\ Forgets /\ tmp' \in {tmp, Torn}
        /\ UNCHANGED <<file, record, logs, versions, runs, skipped>>
    BY <1>1 DEF Crash
  <2>2. crashes' \in 0 .. MaxCrashes
    <3>1. crashes < MaxCrashes /\ crashes' = crashes + 1
      BY <1>1 DEF Crash
    <3> QED BY <1>0, <3>1
  <2>3. spoiled' \in BOOLEAN /\ (spoiled => spoiled') /\ (~spoiled' => ~LosesUndo)
    <3>1. spoiled' = (spoiled \/ LosesUndo)
      BY <1>1, Zenon DEF Crash
    <3> QED BY <3>1, Zenon
  <2> QED BY <1>0, <2>1, <2>2, <2>3 DEF Forgets, LosesUndo
<1>2. CASE Cancel
  <2>1. /\ pc' = "stuck" /\ Forgets /\ Drops /\ pc \notin {"gone", "down", "stuck"} /\ job.why # "recover"
        /\ UNCHANGED <<versions, runs, crashes, skipped>>
    BY <1>2 DEF Cancel
  <2>2. spoiled' \in BOOLEAN /\ (spoiled => spoiled') /\ (~spoiled' => ~LosesUndo)
    <3>1. spoiled' = (spoiled \/ LosesUndo)
      BY <1>2, Zenon DEF Cancel
    <3> QED BY <3>1, Zenon
  <2> DEFINE Kept == /\ \/ UNCHANGED <<record, logs>>
                        \/ /\ logs' = {} /\ record = "open" /\ UNCHANGED file
                           /\ \/ record' = "closed" /\ pc = "undo" /\ todo = <<>> /\ first = 1
                              \/ record' = "committed" /\ pc = "idle"
                     /\ \/ flight' = flight
                        \/ runs \in Nat \ {0} /\ flight' \in [op : {"rename", "tool"}, bytes : {runs}]
                     /\ \/ UNCHANGED file
                        \/ /\ pc \in {"undo", "undoRename"} /\ todo # <<>>
                           /\ file' = Absent \/ (pc = "undoRename" /\ file' = tmp)
                     /\ {file', tmp'} \subseteq Contents
  <2>3. Kept
    <3>1. CASE pc \in {"write", "rename"}
      <4>1. flight' = [op |-> IF pc = "write" THEN "tool" ELSE "rename", bytes |-> runs] /\ UNCHANGED disk
        BY <2>1, <3>1 DEF Drops
      <4>2. runs \in Nat \ {0}
        BY <3>1 DEF FilesIInv, TypeOK, Numbered, Running
      <4>3. flight' \in [op : {"rename", "tool"}, bytes : {runs}]
        BY <4>1
      <4> QED BY <1>0, <4>1, <4>2, <4>3 DEF disk
    <3>2. CASE pc = "undo" /\ todo # <<>>
      BY <1>0, <1>a, <2>1, <3>2 DEF Drops
    <3>3. CASE pc = "undoRename"
      <4>1. todo # <<>>
        BY <1>0, <3>3 DEF Handlers
      <4> QED BY <1>0, <2>1, <3>3, <4>1 DEF Drops, RenameTmp
    <3>4. CASE pc = "undo" /\ todo = <<>>
      <4>1. record = "open" /\ (job.why # "rewind" => first = 1)
        BY <1>0, <3>4 DEF Handlers, first
      <4>2. CASE job.why # "rewind" /\ job.clean
        BY <1>0, <2>1, <3>4, <4>1, <4>2 DEF Drops, MayEnd
      <4>3. CASE ~(job.why # "rewind" /\ job.clean)
        <5>1. UNCHANGED <<disk, flight>>
          BY <2>1, <3>4, <4>3 DEF Drops
        <5> QED BY <1>0, <5>1 DEF disk
      <4> QED BY <4>2, <4>3
    <3>5. CASE pc = "idle"
      <4>1. record = "open"
        BY <1>0, <3>5 DEF Handlers
      <4> QED BY <1>0, <2>1, <3>5, <4>1 DEF Drops, MayEnd
    <3>6. CASE pc = "record"
      <4>1. UNCHANGED <<disk, flight>>
        BY <2>1, <3>6 DEF Drops
      <4> QED BY <1>0, <4>1 DEF disk
    <3> QED BY <1>0, <2>1, <3>1, <3>2, <3>3, <3>4, <3>5, <3>6
  <2> QED BY <1>0, <2>1, <2>2, <2>3 DEF Forgets, LosesUndo
<1>3. CASE UnwindFails /\ job.why \notin {"rewind", "abort"}
  <2>1. /\ pc = "undo" /\ pc' = (IF job.why = "recover" THEN "down" ELSE "stuck") /\ Forgets
        /\ UNCHANGED <<file, tmp, record, logs, flight, versions, runs, crashes, spoiled, skipped>>
    BY <1>3 DEF UnwindFails, disk, history
  <2>2. pc' = "down" => flight' = Nothing
    BY <1>0, <2>1 DEF Flying, Recovers
  <2> QED BY <1>0, <2>1, <2>2 DEF Forgets
<1> QED BY <1>1, <1>2, <1>3 DEF Halting

(* The operation in flight ends: a tool's write goes on to the rename.     *)
LEMMA Lates ==
  ASSUME FilesIInv, Late
  PROVE  /\ flight \in [op : {"write", "rename", "tool"}, bytes : 1 .. runs]
         /\ UNCHANGED <<record, logs, entries, seq, pc, ok, prior, job, todo, tries, versions, runs,
                        crashes, skipped>>
         /\ flight' = Nothing \/ flight' = [op |-> "rename", bytes |-> flight.bytes]
         /\ spoiled' \in BOOLEAN /\ (spoiled => spoiled')
         /\ {file', tmp'} \subseteq Contents
         /\ \/ /\ file' = file /\ tmp' = flight.bytes /\ tmp' # Torn
               /\ ~spoiled' => pc \notin {"rename", "undoRename"}
            \/ flight' = Nothing /\ UNCHANGED <<file, tmp>>
            \/ /\ flight.op = "rename" /\ flight' = Nothing /\ file' = tmp /\ tmp' = Absent
               /\ ~spoiled' => BeforeUndo
<1>1. /\ flight \in [op : {"write", "rename", "tool"}, bytes : 1 .. runs] /\ flight.bytes \in 1 .. MaxRuns
      /\ {file, tmp, Absent, flight.bytes} \subseteq Contents /\ flight.bytes # Torn /\ spoiled \in BOOLEAN
  <2>1. flight \in [op : {"write", "rename", "tool"}, bytes : 1 .. runs]
    BY DEF Late, FilesIInv, Flying
  <2>2. flight.bytes \in 1 .. MaxRuns /\ MaxRuns \in Nat
    BY <2>1, Bounds DEF FilesIInv, TypeOK
  <2> QED BY <2>1, <2>2, Bounds DEF FilesIInv, TypeOK, Contents
<1>2. UNCHANGED <<record, logs, entries, seq, pc, ok, prior, job, todo, tries, versions, runs, crashes, skipped>>
  BY DEF Late, ledger, tool, unwind
<1>3. CASE flight.op \in {"write", "tool"}
  <2>1. /\ flight' = IF flight.op = "tool" THEN [flight EXCEPT !.op = "rename"] ELSE Nothing
        /\ file' = file /\ tmp' = flight.bytes
    BY <1>3 DEF Late
  <2>2. spoiled' = (spoiled \/ pc \in {"rename", "undoRename"})
    BY <1>3 DEF Late
  <2>3. flight' = Nothing \/ flight' = [op |-> "rename", bytes |-> flight.bytes]
    BY <1>1, <2>1
  <2>4. spoiled' \in BOOLEAN /\ (spoiled => spoiled') /\ (~spoiled' => pc \notin {"rename", "undoRename"})
    BY <2>2, Zenon
  <2> QED BY <1>1, <1>2, <2>1, <2>3, <2>4
<1>4. CASE flight.op = "rename"
  <2>1. flight' = Nothing
    BY <1>4 DEF Late
  <2>2. /\ spoiled' = (spoiled \/ (tmp # Absent /\ ~BeforeUndo))
        /\ \/ tmp = Absent /\ UNCHANGED <<file, tmp>>
           \/ tmp # Absent /\ file' = tmp /\ tmp' = Absent
    BY <1>4 DEF Late, RenameTmp
  <2>3. spoiled' \in BOOLEAN /\ (spoiled => spoiled') /\ (~spoiled' => tmp = Absent \/ BeforeUndo)
    BY <2>2, Zenon
  <2> QED BY <1>1, <1>2, <1>4, <2>1, <2>2, <2>3
<1> QED BY <1>1, <1>3, <1>4

(* Every step keeps the types. *)
LEMMA StepTyped == ASSUME FilesIInv, [Next]_vars PROVE TypeOK'
<1> USE DEF disk, ledger, tool, unwind, history, TypeOK
<1>0. /\ TypeOK /\ MaxRuns \in Nat /\ MaxAttempts \in Nat \ {0} /\ 0 \in 0 .. MaxRuns /\ 0 \in 0 .. MaxAttempts - 1
      /\ Torn \in Contents /\ Absent \in Contents /\ (1 .. MaxRuns) \subseteq Contents
  BY Bounds DEF FilesIInv, Contents
<1>a. flight = Nothing \/ flight \in [op : {"write", "rename", "tool"}, bytes : 1 .. runs]
  BY DEF FilesIInv, Flying
<1>1. CASE Read
  <2>1. runs + 1 \in 0 .. MaxRuns
    BY <1>0, <1>1 DEF Read
  <2> QED BY <1>0, <1>1, <2>1 DEF Read
<1>2. CASE Write
  <2>1. runs \in 1 .. MaxRuns
    BY <1>0, <1>2 DEF Write, FilesIInv, Numbered, Running
  <2>2. /\ pc' \in {"rename", "record"} /\ tmp' \in {tmp, Torn, runs} /\ spoiled' \in BOOLEAN
        /\ UNCHANGED <<file, record, logs, entries, seq, ok, prior, job, todo, tries, flight, versions,
                       runs, crashes, skipped>>
    BY <1>0, <1>2 DEF Write, WriteTmp
  <2> HIDE DEF TypeOK
  <2> QED BY <1>0, <2>1, <2>2 DEF TypeOK
<1>3. CASE Rename
  BY <1>0, <1>3 DEF Rename, RenameTmp
<1>4. CASE Timeout
  <2>1. flight'.op \in {"none", "write", "rename", "tool"} /\ flight'.bytes \in 0 .. MaxRuns
    BY <1>0, <1>4 DEF Timeout
  <2> QED BY <1>0, <1>4, <2>1 DEF Timeout
<1>5. CASE Late
  <2>1. /\ UNCHANGED <<record, logs, entries, seq, pc, ok, prior, job, todo, tries, versions, runs,
                       crashes, skipped>>
        /\ spoiled' \in BOOLEAN /\ {file', tmp'} \subseteq Contents
    BY <1>5, Lates
  <2>2. flight'.op \in {"none", "rename"} /\ flight'.bytes \in 0 .. MaxRuns
    <3>1. flight' = Nothing \/ flight' = [op |-> "rename", bytes |-> flight.bytes]
      BY <1>5, Lates
    <3> QED BY <1>0, <3>1 DEF Nothing
  <2> HIDE DEF TypeOK
  <2> QED BY <1>0, <2>1, <2>2 DEF TypeOK
<1>6. CASE Succeeds
  <2>1. /\ pc = "record" /\ prior # <<>> /\ pc' = "idle" /\ prior' = <<>>
        /\ entries' = Ledger /\ logs' = logs \cup Added /\ seq' = seq + 1
        /\ versions' \in Seq(Contents)
        /\ UNCHANGED <<file, tmp, record, ok, tries, job, todo, flight, runs, crashes, spoiled, skipped>>
    BY <1>6, Counts
  <2>2. Ledger \in Seq(Entries) /\ Added \subseteq Entries
    <3>1. Ledger \in Seq(Entries)
      BY <2>1, Ledgers
    <3>2. Registered[1] \in Entries /\ ToSet(Registered) = {Registered[1]}
      BY <2>1, Registers
    <3> QED BY <3>1, <3>2 DEF Added
  <2>3. seq' \in 0 .. MaxRuns
    BY <1>0, <2>1 DEF FilesIInv, Numbered, Running
  <2> HIDE DEF TypeOK
  <2> QED BY <1>0, <2>1, <2>2, <2>3 DEF TypeOK
<1>7. CASE Turning
  <2>1. /\ pc' = "undo" /\ job'.clean \in BOOLEAN /\ job'.target \in 0 .. MaxRuns
        /\ entries' \in Seq(Entries) /\ todo' \in Seq(Entries)
        /\ logs' = logs \cup Added /\ prior' = <<>>
        /\ seq' = IF pc = "record" THEN seq + Len(Registered) ELSE seq
        /\ UNCHANGED <<file, tmp, record, ok, tries, flight, versions, runs, crashes, spoiled, skipped>>
    <3>1. /\ pc' = "undo" /\ job'.clean /\ job'.target \in 0 .. runs
          /\ entries' \in Seq(Entries) /\ todo' \in Seq(Entries)
          /\ logs' = logs \cup Added /\ prior' = <<>>
          /\ seq' = IF pc = "record" THEN seq + Len(Registered) ELSE seq
          /\ UNCHANGED <<file, tmp, record, ok, tries, flight, versions, runs, crashes, spoiled, skipped>>
      BY <1>7, Turns
    <3> QED BY <1>0, <3>1
  <2>2. Added \subseteq Entries /\ (pc = "record" => seq + Len(Registered) \in 0 .. MaxRuns)
    <3>1. CASE pc = "record" /\ prior # <<>>
      <4>1. Registered[1] \in Entries /\ ToSet(Registered) = {Registered[1]} /\ Len(Registered) = 1
        BY <3>1, Registers
      <4>2. seq + 1 \in 0 .. MaxRuns
        BY <1>0, <3>1 DEF FilesIInv, Numbered, Running
      <4> QED BY <4>1, <4>2 DEF Added
    <3>2. CASE pc = "record" /\ prior = <<>>
      <4>1. ToSet(Registered) = {} /\ Len(Registered) = 0
        BY <3>2, Registers
      <4> QED BY <1>0, <4>1 DEF Added
    <3>3. CASE pc # "record"
      BY <3>3 DEF Added
    <3> QED BY <3>1, <3>2, <3>3
  <2> HIDE DEF TypeOK
  <2> QED BY <1>0, <2>1, <2>2 DEF TypeOK
<1>8. CASE Undoing
  <2>1. /\ pc \in {"undo", "undoRename"} /\ todo # <<>> /\ todo \in Seq(Entries)
        /\ Last(todo) \in Entries /\ Front(todo) \in Seq(Entries) /\ Last(todo).prior \in Contents
    BY <1>0, <1>8, Undoes, Fronts, Bounds DEF Undoing
  <2>2. UNCHANGED <<record, entries, seq, ok, prior, flight, versions, runs, crashes>>
    BY <1>8, Undoes DEF Undoing
  <2>3. {file', tmp'} \subseteq Contents
    BY <1>0, <1>8, <2>1, Undoes DEF Undoing
  <2>4. spoiled' \in BOOLEAN
    BY <1>0, <1>8, Undoes, Zenon DEF Undoing
  <2>5. /\ pc' \in {"undo", "undoRename"} /\ logs' \subseteq Entries /\ todo' \in Seq(Entries)
        /\ tries' \in 0 .. MaxAttempts - 1 /\ skipped' \in BOOLEAN
        /\ job'.clean \in BOOLEAN /\ job'.target \in 0 .. MaxRuns
    <3>1. CASE Undone \/ Failed
      <4>1. /\ pc' = "undo" /\ tries' \in 0 .. MaxAttempts - 1 /\ skipped' \in BOOLEAN
            /\ todo' = Front(todo) \/ todo' = todo
            /\ logs' \subseteq logs
        BY <2>1, <3>1, Settles
      <4>2. job' = job \/ job' = [job EXCEPT !.clean = FALSE]
        BY <2>1, <3>1, Settles
      <4>3. job = [why |-> job.why, target |-> job.target, clean |-> job.clean]
        BY DEF FilesIInv, Handlers
      <4>4. job'.clean \in BOOLEAN /\ job'.target \in 0 .. MaxRuns
        BY <1>0, <4>2, <4>3
      <4> QED BY <1>0, <2>1, <4>1, <4>4
    <3>2. CASE pc' = "undoRename" /\ UNCHANGED <<logs, job, todo, tries, skipped>>
      BY <1>0, <3>2
    <3> QED BY <1>8, <3>1, <3>2, Undoes DEF Undoing
  <2> HIDE DEF TypeOK
  <2> QED BY <1>0, <2>2, <2>3, <2>4, <2>5 DEF TypeOK
<1>9. CASE Unwound
  <2>1. versions' \in Seq(Contents)
    <3>1. CASE job.why = "rewind"
      <4>1. job.target \in 1 .. Len(versions)
        BY <1>9, <3>1 DEF Unwound, FilesIInv, Handlers
      <4>2. SubSeq(versions, 1, job.target) \in Seq(Contents)
        BY <1>0, <4>1
      <4> QED BY <1>9, <3>1, <4>2 DEF Unwound
    <3>2. CASE job.why # "rewind"
      BY <1>0, <1>9, <3>2 DEF Unwound
    <3> QED BY <3>1, <3>2
  <2> QED BY <1>0, <1>9, <2>1 DEF Unwound
<1>10. CASE Commit
  BY <1>0, <1>10 DEF Commit
<1>11. CASE Halting
  <2>1. /\ pc' \in {"down", "stuck"} /\ entries' = <<>> /\ seq' = 0 /\ ok' = FALSE /\ prior' = <<>>
        /\ job' = [why |-> "none", target |-> 0, clean |-> TRUE] /\ todo' = <<>> /\ tries' = 0
        /\ UNCHANGED <<versions, runs, skipped>> /\ crashes' \in 0 .. MaxCrashes
        /\ spoiled' \in BOOLEAN /\ {file', tmp'} \subseteq Contents
    BY <1>11, Halts
  <2>2. record' \in {"open", "closed", "committed"} /\ logs' \subseteq Entries
    <3>1. UNCHANGED <<record, logs>> \/ (logs' = {} /\ record' \in {"closed", "committed"})
      BY <1>11, Halts
    <3> QED BY <1>0, <3>1
  <2>3. flight'.op \in {"none", "write", "rename", "tool"} /\ flight'.bytes \in 0 .. MaxRuns
    <3>1. flight' = Nothing \/ flight' = flight \/ flight' \in [op : {"rename", "tool"}, bytes : {runs}]
      BY <1>11, Halts
    <3> QED BY <1>0, <3>1 DEF Nothing
  <2>4. <<>> \in Seq(Entries) /\ job'.target = 0 /\ job'.clean = TRUE
    BY <2>1
  <2> HIDE DEF TypeOK
  <2> QED BY <1>0, <2>1, <2>2, <2>3, <2>4 DEF TypeOK
<1>12. CASE Restart
  <2>1. Sorted(logs) \in Seq(Entries)
    BY <1>0, Recovery DEF FilesIInv, Numbered
  <2>2. /\ UNCHANGED <<file, tmp, record, logs, entries, seq, ok, prior, tries, flight,
                        versions, runs, crashes, spoiled, skipped>>
        /\ pc' \in {"undo", "gone"}
        /\ todo' \in {todo, Sorted(logs)}
        /\ job' \in {job, [why |-> "recover", target |-> 0, clean |-> TRUE]}
    BY <1>12 DEF Restart
  <2>3. job'.clean \in BOOLEAN /\ job'.target \in 0 .. MaxRuns
    <3>1. CASE job' = job
      BY <1>0, <3>1
    <3>2. CASE job' = [why |-> "recover", target |-> 0, clean |-> TRUE]
      <4>1. job'.clean = TRUE /\ job'.target = 0
        BY <3>2
      <4> QED BY <1>0, <4>1
    <3> QED BY <2>2, <3>1, <3>2
  <2> HIDE DEF TypeOK
  <2> QED BY <1>0, <2>1, <2>2, <2>3 DEF TypeOK
<1>13. CASE UNCHANGED vars
  BY <1>0, <1>13 DEF vars
<1>14. CASE Failing
  <2>1. /\ pc' = "undo" /\ job'.clean /\ job'.target \in 0 .. runs
        /\ job' = [why |-> job.why, target |-> job.target, clean |-> TRUE]'
        /\ entries' \in Seq(Entries) /\ todo' \in Seq(Entries) /\ logs' = logs /\ prior' = <<>>
        /\ seq' = (IF pc = "record" THEN seq + 1 ELSE seq) /\ spoiled' \in BOOLEAN
        /\ UNCHANGED <<file, tmp, record, ok, tries, flight, versions, runs, crashes, skipped>>
    BY <1>14, Fails
  <2>2. pc = "record" => seq + 1 \in 0 .. MaxRuns
    BY <1>0 DEF FilesIInv, Numbered, Running
  <2>3. seq' \in 0 .. MaxRuns /\ job'.target \in 0 .. MaxRuns /\ job'.clean \in BOOLEAN
    BY <1>0, <2>1, <2>2
  <2> HIDE DEF TypeOK
  <2> QED BY <1>0, <2>1, <2>3 DEF TypeOK
<1> QED BY <1>1, <1>2, <1>3, <1>4, <1>5, <1>6, <1>7, <1>8, <1>9, <1>10, <1>11, <1>12, <1>13, <1>14, StepCases

(* Every step keeps the handler and the ledger in agreement. *)
LEMMA StepHandlers == ASSUME FilesIInv, [Next]_vars PROVE Handlers'
<1> USE DEF disk, ledger, tool, unwind, history, Handlers, Running
<1>0. Handlers /\ skipped \in BOOLEAN
  BY DEF FilesIInv, TypeOK
<1>1. CASE Read
  BY <1>0, <1>1 DEF Read, Ready
<1>2. CASE Write \/ Rename
  BY <1>0, <1>2 DEF Write, WriteTmp, Rename, RenameTmp
<1>3. CASE Timeout
  BY <1>0, <1>3 DEF Timeout
<1>4. CASE Late
  <2>1. UNCHANGED <<record, entries, pc, ok, prior, job, todo, versions, skipped>>
    BY <1>4, Lates
  <2> QED BY <1>0, <2>1
<1>5. CASE Succeeds
  <2>1. Len(Ledger) = Len(versions) /\ Len(versions) \in Nat
    BY <1>5, Counts, Ledgers
  <2>2. /\ pc = "record" /\ pc' = "idle" /\ prior' = <<>> /\ record = "open"
        /\ entries' = Ledger /\ Len(versions') = Len(versions) + 1
        /\ UNCHANGED <<record, ok, job, todo, skipped>>
    BY <1>5, Counts
  <2>3. Len(entries') = Len(versions') - 1
    BY <2>1, <2>2
  <2> QED BY <1>0, <2>2, <2>3
<1>6. CASE Turning
  <2>1. /\ record = "open" /\ pc' = "undo" /\ prior' = <<>> /\ record' = record
        /\ job' = [why |-> job.why, target |-> job.target, clean |-> TRUE]'
        /\ (job.why \in {"rewind", "abort", "request"})' /\ job.clean'
        /\ (IF job.why = "rewind" THEN job.target \in 1 .. Len(versions) ELSE job.target = 0)'
    BY <1>6, Turns
  <2>2. (job = [why |-> job.why, target |-> job.target, clean |-> job.clean])'
    BY <2>1
  <2> QED BY <2>1, <2>2
<1>7. CASE Undoing
  <2>1. /\ pc \in {"undo", "undoRename"} /\ todo # <<>> /\ record = "open"
        /\ UNCHANGED <<record, entries, ok, prior, versions>>
    BY <1>7, Undoes DEF Undoing
  <2>2. CASE pc' = "undoRename" /\ UNCHANGED <<job, todo, skipped>>
    BY <1>0, <2>1, <2>2
  <2>3. CASE Undone \/ Failed
    <3>1. /\ pc' = "undo"
          /\ \/ job' = job
             \/ job' = [job EXCEPT !.clean = FALSE] /\ skipped'
          /\ skipped => skipped'
      BY <2>1, <2>3, Settles
    <3>2. /\ job.why \in {"rewind", "abort", "request", "hard", "recover"} /\ (~job.clean => skipped)
          /\ IF job.why = "rewind" THEN job.target \in 1 .. Len(versions) ELSE job.target = 0
          /\ prior = <<>> /\ job = [why |-> job.why, target |-> job.target, clean |-> job.clean]
      BY <1>0, <2>1
    <3>3. /\ job'.why = job.why /\ job'.target = job.target /\ (~job'.clean => skipped')
          /\ (job = [why |-> job.why, target |-> job.target, clean |-> job.clean])'
      BY <3>1, <3>2
    <3> QED BY <2>1, <3>1, <3>2, <3>3
  <2> QED BY <1>7, <2>2, <2>3, Undoes DEF Undoing
<1>8. CASE Unwound
  <2>1. /\ pc = "undo" /\ todo = <<>> /\ record = "open" /\ prior = <<>> /\ job' = [why |-> "none", target |-> 0, clean |-> TRUE]
        /\ UNCHANGED <<entries, ok, prior, todo, skipped>>
    BY <1>0, <1>8 DEF Unwound
  <2>2. CASE job.why = "rewind"
    <3>1. job.target \in 1 .. Len(versions) /\ versions \in Seq(Contents) /\ Len(entries) = first - 1
      BY <1>0, <2>1, <2>2 DEF FilesIInv, TypeOK, Queues, Unwinds
    <3>2. Len(SubSeq(versions, 1, job.target)) = job.target /\ first = job.target
      BY <3>1 DEF first
    <3>3. pc' = "idle" /\ versions' = SubSeq(versions, 1, job.target) /\ record' = record
      BY <1>8, <2>2 DEF Unwound
    <3> QED BY <2>1, <3>1, <3>2, <3>3
  <2>3. CASE job.why # "rewind"
    BY <1>8, <2>1, <2>3 DEF Unwound
  <2> QED BY <2>2, <2>3
<1>9. CASE Commit
  BY <1>0, <1>9 DEF Commit, Ready
<1>10. CASE Halting
  <2>1. /\ pc' \in {"down", "stuck"} /\ prior' = <<>>
        /\ job' = [why |-> "none", target |-> 0, clean |-> TRUE]
    BY <1>10, Halts
  <2> QED BY <2>1
<1>11. CASE Restart
  BY <1>0, <1>11 DEF Restart
<1>12. CASE UNCHANGED vars
  BY <1>0, <1>12 DEF vars
<1>13. CASE Failing
  <2>1. /\ record = "open" /\ pc' = "undo" /\ prior' = <<>> /\ record' = record
        /\ job' = [why |-> job.why, target |-> job.target, clean |-> TRUE]'
        /\ (job.why \in {"rewind", "hard"})' /\ job.clean'
        /\ (IF job.why = "rewind" THEN job.target \in 1 .. Len(versions) ELSE job.target = 0)'
    BY <1>13, Fails
  <2>2. (job = [why |-> job.why, target |-> job.target, clean |-> job.clean])'
    BY <2>1
  <2> QED BY <2>1, <2>2
<1> QED BY <1>1, <1>2, <1>3, <1>4, <1>5, <1>6, <1>7, <1>8, <1>9, <1>10, <1>11, <1>12, <1>13, StepCases

(* And the queues in step order: what is undone leaves a shorter queue. *)
LEMMA StepQueues == ASSUME FilesIInv, [Next]_vars PROVE Queues'
<1> USE DEF disk, ledger, tool, unwind, history, Queues, Recovers, Unwinds, Running, Halted, Lives, InOrder
<1>0. /\ Queues /\ Handlers /\ entries \in Seq(Entries) /\ todo \in Seq(Entries)
      /\ DOMAIN <<>> = {}
  BY DEF FilesIInv, TypeOK
<1>1. CASE Read \/ Write \/ Rename \/ Timeout
  BY <1>0, <1>1 DEF Read, Ready, Write, WriteTmp, Rename, RenameTmp, Timeout
<1>2. CASE Late
  <2>1. UNCHANGED <<entries, pc, job, todo>>
    BY <1>2, Lates
  <2> QED BY <1>0, <2>1 DEF first
<1>3. CASE Succeeds
  <2>1. \A i \in DOMAIN Ledger : Ledger[i].step = i
    BY <1>3, Counts, Ledgers
  <2>2. pc = "record" /\ pc' = "idle" /\ entries' = Ledger /\ UNCHANGED <<job, todo>>
    BY <1>3, Counts
  <2> QED BY <1>0, <2>1, <2>2
<1>4. CASE Turning
  <2>1. /\ pc = "idle" \/ pc = "record"
        /\ pc' = "undo" /\ (job.why \in {"rewind", "abort", "request"})'
        /\ Len(entries') = first' - 1 /\ DOMAIN entries' = 1 .. first' - 1
        /\ \A i \in 1 .. first' - 1 : entries'[i] = Ledger[i]
        /\ DOMAIN todo' = 1 .. Len(Ledger) + 1 - first'
        /\ \A i \in 1 .. Len(Ledger) + 1 - first' : todo'[i] = Ledger[first' - 1 + i]
        /\ first' \in Nat \ {0} /\ first' <= Len(Ledger) + 1 /\ Len(Ledger) \in Nat
    <3>1. Len(versions) \in Nat
      BY DEF FilesIInv, Numbered, TypeOK
    <3>2. first' \in 1 .. Len(versions)
      BY <1>4, Turns
    <3>3. first' \in Nat \ {0}
      BY <3>1, <3>2
    <3> QED BY <1>4, <3>3, Turns
  <2>2. DOMAIN Ledger = 1 .. Len(Ledger) /\ \A i \in DOMAIN Ledger : Ledger[i].step = i
    BY <2>1, Ledgers
  <2>3. ASSUME NEW i \in DOMAIN entries' PROVE entries'[i].step = i
    <3>1. i \in 1 .. first' - 1 /\ entries'[i] = Ledger[i]
      BY <2>1
    <3>2. i \in 1 .. Len(Ledger)
      BY <2>1, <3>1
    <3> QED BY <2>2, <3>1, <3>2
  <2>4. ASSUME NEW i \in DOMAIN todo' PROVE todo'[i].step = first' - 1 + i
    <3>1. i \in 1 .. Len(Ledger) + 1 - first' /\ todo'[i] = Ledger[first' - 1 + i]
      BY <2>1
    <3>2. first' - 1 + i \in 1 .. Len(Ledger)
      BY <2>1, <3>1
    <3> QED BY <2>2, <3>1, <3>2
  <2>5. InOrder(todo)'
    <3> SUFFICES ASSUME NEW i \in DOMAIN todo', NEW j \in DOMAIN todo', i < j
                 PROVE  Earlier(todo'[i], todo'[j])
      OBVIOUS
    <3>1. i \in Nat /\ j \in Nat /\ first' \in Nat
      BY <2>1
    <3>2. todo'[i].step = first' - 1 + i /\ todo'[j].step = first' - 1 + j
      BY <2>4
    <3> HIDE DEF InOrder
    <3> QED BY <3>1, <3>2 DEF Earlier
  <2> QED BY <2>1, <2>3, <2>4, <2>5
<1>5. CASE Undoing
  <2>1. /\ pc \in {"undo", "undoRename"} /\ todo # <<>> /\ UNCHANGED entries
    BY <1>5, Undoes DEF Undoing
  <2>2. /\ Len(todo) \in Nat /\ DOMAIN todo = 1 .. Len(todo)
        /\ DOMAIN Front(todo) = 1 .. Len(todo) - 1
        /\ \A i \in 1 .. Len(todo) - 1 : Front(todo)[i] = todo[i]
    <3>1. Len(todo) \in Nat /\ DOMAIN todo = 1 .. Len(todo)
      BY <1>0
    <3> QED BY <1>0, <2>1, <3>1, Fronts, Zenon
  <2>3. /\ pc' \in {"undo", "undoRename"} /\ (todo' = todo \/ todo' = Front(todo))
        /\ job'.why = job.why /\ job'.target = job.target
    <3>1. CASE pc' = "undoRename" /\ UNCHANGED <<job, todo>>
      BY <3>1
    <3>2. CASE Undone \/ Failed
      <4>1. /\ pc' = "undo" /\ (todo' = todo \/ todo' = Front(todo))
            /\ job' = job \/ job' = [job EXCEPT !.clean = FALSE]
        BY <2>1, <3>2, Settles
      <4>2. job = [why |-> job.why, target |-> job.target, clean |-> job.clean]
        BY <1>0 DEF Handlers
      <4> QED BY <4>1, <4>2
    <3> QED BY <1>5, <3>1, <3>2, Undoes DEF Undoing
  <2>4. /\ \A i \in DOMAIN todo' : i \in DOMAIN todo /\ todo'[i] = todo[i]
        /\ DOMAIN todo' \subseteq DOMAIN todo
    BY <2>2, <2>3
  <2>5. first' = first
    BY <2>3 DEF first
  <2>6. InOrder(todo)'
    BY <1>0, <2>4
  <2> QED BY <1>0, <2>1, <2>3, <2>4, <2>5, <2>6
<1>6. CASE Unwound
  <2>1. pc = "undo" /\ todo = <<>> /\ UNCHANGED <<entries, todo>> /\ pc' \in {"idle", "gone"}
        /\ (pc' = "gone" => job.why # "rewind")
    BY <1>6 DEF Unwound
  <2>2. pc' = "gone" => entries = <<>>
    <3>1. CASE Recovers
      BY <1>0, <3>1
    <3>2. CASE ~Recovers /\ pc' = "gone"
      <4>1. Len(entries) = first - 1 /\ job.target = 0
        BY <1>0, <2>1, <3>2 DEF Handlers
      <4> QED BY <1>0, <4>1 DEF first
    <3> QED BY <3>1, <3>2
  <2> QED BY <1>0, <2>1, <2>2
<1>7. CASE Commit
  BY <1>0, <1>7 DEF Commit, Ready
<1>8. CASE Halting
  <2>1. pc' \in {"down", "stuck"} /\ entries' = <<>> /\ todo' = <<>>
    BY <1>8, Halts
  <2> QED BY <1>0, <2>1
<1>9. CASE Restart
  <2>1. InOrder(Sorted(logs))
    BY Recovery DEF FilesIInv, TypeOK, Numbered
  <2>2. pc = "down" /\ entries' = entries /\ pc' \in {"undo", "gone"} /\ entries = <<>>
    BY <1>0, <1>9 DEF Restart
  <2>3. CASE record = "open"
    <3>1. pc' = "undo" /\ job'.why = "recover" /\ todo' = Sorted(logs)
      BY <1>9, <2>3 DEF Restart
    <3> QED BY <1>0, <2>1, <2>2, <3>1
  <2>4. CASE record # "open"
    <3>1. pc' = "gone" /\ UNCHANGED <<job, todo>>
      BY <1>9, <2>4 DEF Restart
    <3> QED BY <1>0, <2>2, <3>1
  <2> QED BY <2>3, <2>4
<1>10. CASE UNCHANGED vars
  BY <1>0, <1>10 DEF vars, first
<1>11. CASE Failing
  <2>1. /\ pc' = "undo" /\ (job.why \in {"rewind", "hard"})' /\ first' \in Nat
        /\ Len(entries') = first' - 1 /\ DOMAIN entries' = 1 .. first' - 1
        /\ \A i \in 1 .. first' - 1 : i \in DOMAIN entries /\ entries'[i] = entries[i]
        /\ DOMAIN todo' = 1 .. Len(entries) + 1 - first'
        /\ \A i \in DOMAIN todo' : first' - 1 + i \in DOMAIN entries /\ todo'[i] = entries[first' - 1 + i]
    BY <1>11, Fails
  <2>2. /\ \A i \in DOMAIN entries' : entries'[i].step = i
        /\ \A i \in DOMAIN todo' : todo'[i].step = first' - 1 + i
    BY <1>0, <2>1
  <2>3. InOrder(todo)'
    <3> SUFFICES ASSUME NEW i \in DOMAIN todo', NEW j \in DOMAIN todo', i < j
                 PROVE  Earlier(todo'[i], todo'[j])
      OBVIOUS
    <3>1. i \in Nat /\ j \in Nat
      BY <2>1
    <3> HIDE DEF InOrder
    <3> QED BY <2>1, <2>2, <3>1 DEF Earlier
  <2> QED BY <2>1, <2>2, <2>3
<1> QED BY <1>1, <1>2, <1>3, <1>4, <1>5, <1>6, <1>7, <1>8, <1>9, <1>10, <1>11, StepCases

(* What the step to finish adds to the records: nothing, or its one entry. *)
LEMMA AddedFacts ==
  ASSUME FilesIInv
  PROVE  /\ \A x \in Added : /\ pc = "record" /\ prior # <<>> /\ x \in Entries
                             /\ x = [step |-> Len(versions), seq |-> seq, run |-> runs, prior |-> prior[1]]
         /\ pc = "record" => Len(Registered) \in {0, 1} /\ (Added # {} => Len(Registered) = 1)
         /\ pc = "record" /\ prior # <<>> => Added = {Registered[1]}
         /\ IsFiniteSet(Added)
<1>1. CASE pc = "record" /\ prior # <<>>
  <2>1. /\ Len(Registered) = 1 /\ ToSet(Registered) = {Registered[1]} /\ Registered[1] \in Entries
        /\ Registered[1] = [step |-> Len(versions), seq |-> seq, run |-> runs, prior |-> prior[1]]
    BY <1>1, Registers
  <2> HIDE DEF Registered
  <2> QED BY <1>1, <2>1, FS_Singleton DEF Added
<1>2. CASE pc = "record" /\ prior = <<>>
  BY <1>2, Registers, FS_EmptySet DEF Added
<1>3. CASE pc # "record"
  BY <1>3, FS_EmptySet DEF Added
<1> QED BY <1>1, <1>2, <1>3

(* A compensation goes on in the same hands. *)
LEMMA UndoingFacts ==
  ASSUME FilesIInv, Undoing
  PROVE  /\ pc \in {"undo", "undoRename"} /\ pc' \in {"undo", "undoRename"} /\ record = "open"
         /\ todo # <<>> /\ todo \in Seq(Entries) /\ (todo' = todo \/ todo' = Front(todo))
         /\ Len(todo) \in Nat \ {0} /\ DOMAIN todo = 1 .. Len(todo)
         /\ Len(todo') \in {Len(todo), Len(todo) - 1} /\ DOMAIN todo' = 1 .. Len(todo')
         /\ \A i \in DOMAIN todo' : i \in DOMAIN todo /\ todo'[i] = todo[i]
         /\ logs' = logs \/ logs' = logs \ {Last(todo)}
         /\ job'.why = job.why /\ job'.target = job.target /\ first' = first
         /\ skipped => skipped'
         /\ UNCHANGED <<record, entries, seq, ok, prior, flight, versions, runs, crashes>>
<1>1. /\ pc \in {"undo", "undoRename"} /\ todo # <<>> /\ record = "open"
      /\ UNCHANGED <<record, entries, seq, ok, prior, flight, versions, runs, crashes>>
      /\ todo \in Seq(Entries) /\ job = [why |-> job.why, target |-> job.target, clean |-> job.clean]
  BY Undoes DEF Undoing, FilesIInv, TypeOK, Handlers
<1>2. /\ pc' \in {"undo", "undoRename"} /\ (todo' = todo \/ todo' = Front(todo))
      /\ logs' = logs \/ logs' = logs \ {Last(todo)}
      /\ job'.why = job.why /\ job'.target = job.target
      /\ skipped => skipped'
  <2>1. CASE pc' = "undoRename" /\ UNCHANGED <<logs, job, todo, skipped>>
    BY <2>1
  <2>2. CASE Undone \/ Failed
    <3>1. /\ pc' = "undo" /\ (todo' = todo \/ todo' = Front(todo))
          /\ logs' = logs \/ logs' = logs \ {Last(todo)}
          /\ job' = job \/ job' = [job EXCEPT !.clean = FALSE]
          /\ skipped => skipped'
      BY <1>1, <2>2, Settles
    <3> QED BY <1>1, <3>1
  <2> QED BY <2>1, <2>2, Undoes DEF Undoing
<1>3. /\ Len(todo) \in Nat \ {0} /\ DOMAIN todo = 1 .. Len(todo)
      /\ Len(Front(todo)) = Len(todo) - 1 /\ DOMAIN Front(todo) = 1 .. Len(todo) - 1
      /\ \A i \in 1 .. Len(todo) - 1 : Front(todo)[i] = todo[i]
  <2>1. Len(todo) \in Nat /\ DOMAIN todo = 1 .. Len(todo)
    BY <1>1
  <2> QED BY <1>1, <2>1, Fronts, Zenon
<1>4. /\ Len(todo') \in {Len(todo), Len(todo) - 1} /\ DOMAIN todo' = 1 .. Len(todo')
      /\ \A i \in DOMAIN todo' : i \in DOMAIN todo /\ todo'[i] = todo[i]
  <2>1. CASE todo' = todo
    BY <1>3, <2>1
  <2>2. CASE todo' = Front(todo)
    <3>1. Len(todo') = Len(todo) - 1 /\ DOMAIN todo' = 1 .. Len(todo) - 1
      BY <1>3, <2>2
    <3>2. \A i \in 1 .. Len(todo) - 1 : todo'[i] = todo[i] /\ i \in DOMAIN todo
      BY <1>3, <2>2
    <3> QED BY <3>1, <3>2
  <2> QED BY <1>2, <2>1, <2>2
<1>5. first' = first
  BY <1>2 DEF first
<1> QED BY <1>1, <1>2, <1>3, <1>4, <1>5

(* Every step keeps the numbers: a record is new, or was there. *)
LEMMA StepNumbered == ASSUME FilesIInv, [Next]_vars PROVE Numbered'
<1> USE DEF disk, ledger, tool, unwind, history, Numbered, Recovers, Running, Halted, Lives
<1>0. /\ Numbered /\ logs \subseteq Entries /\ runs \in Nat /\ Len(versions) \in Nat \ {0} /\ seq \in Nat
      /\ \A x \in Entries : x.seq \in Nat
      /\ \A n \in Nat : n + 1 \in Nat
  <2>1. \A x \in Entries : x.seq \in Nat
    BY Bounds
  <2> QED BY <2>1 DEF FilesIInv, TypeOK
<1>1. CASE Read
  <2>1. pc = "idle" /\ runs' = runs + 1 /\ UNCHANGED <<logs, seq, versions, job>> /\ pc' \in {"write", "record"}
    BY <1>1 DEF Read, Ready
  <2> QED BY <1>0, <2>1
<1>2. CASE Write \/ Rename \/ Timeout \/ Late
  <2>1. /\ UNCHANGED <<logs, seq, versions, runs, job>>
        /\ (Running /\ Running') \/ UNCHANGED pc
    BY <1>2, Lates DEF Write, WriteTmp, Rename, RenameTmp, Timeout
  <2> QED BY <1>0, <2>1
<1>3. ASSUME Succeeds \/ Turning
      PROVE  /\ logs' = logs \cup Added /\ runs' = runs /\ Lives /\ ~Running'
             /\ seq' = IF pc = "record" THEN seq + Len(Registered) ELSE seq
             /\ versions' = versions \/ (pc = "record" /\ Len(versions') = Len(versions) + 1)
  <2>1. CASE Succeeds
    <3>1. /\ pc = "record" /\ prior # <<>> /\ pc' = "idle" /\ logs' = logs \cup Added /\ runs' = runs
          /\ seq' = seq + 1 /\ Len(versions') = Len(versions) + 1
      BY <2>1, Counts
    <3>2. Len(Registered) = 1
      BY <3>1, Registers
    <3> QED BY <3>1, <3>2
  <2>2. CASE Turning
    <3>1. /\ pc = "idle" \/ pc = "record"
          /\ pc' = "undo" /\ logs' = logs \cup Added
          /\ seq' = IF pc = "record" THEN seq + Len(Registered) ELSE seq
          /\ UNCHANGED history
      BY <2>2, Turns
    <3> QED BY <3>1
  <2> QED BY <1>3, <2>1, <2>2
<1>4. CASE Succeeds \/ Turning
  <2>1. /\ \A x \in Added : pc = "record" /\ x.seq = seq
        /\ pc = "record" => Len(Registered) \in {0, 1} /\ (Added # {} => Len(Registered) = 1)
        /\ \A x, y \in Added : x = y
        /\ IsFiniteSet(Added)
    <3>1. \A x \in Added : pc = "record" /\ x.seq = seq
      BY AddedFacts
    <3> QED BY <3>1, AddedFacts
  <2>2. IsFiniteSet(logs')
    <3>1. IsFiniteSet(logs \cup Added)
      BY <1>0, <2>1, FS_Union, Zenon
    <3> QED BY <1>3, <1>4, <3>1
  <2>3. \A x \in logs : x.seq < seq
    BY <1>0, <1>3, <1>4
  <2>4. \A x, y \in logs' : x.seq = y.seq => x = y
    <3>1. \A x \in logs : x.seq # seq
      BY <1>0, <2>3
    <3> QED BY <1>0, <1>3, <1>4, <2>1, <3>1
  <2>5. seq' \in Nat /\ (pc = "record" => seq' <= seq + 1) /\ (pc # "record" => seq' = seq)
        /\ \A x \in logs' : x.seq < seq'
    <3>1. CASE pc = "record"
      <4>1. seq' = seq + Len(Registered) /\ Len(Registered) \in {0, 1}
        BY <1>3, <1>4, <2>1, <3>1
      <4>2. seq' \in Nat /\ seq' <= seq + 1 /\ seq <= seq'
        <5>1. CASE Len(Registered) = 0
          BY <1>0, <4>1, <5>1
        <5>2. CASE Len(Registered) = 1
          BY <1>0, <4>1, <5>2
        <5> QED BY <4>1, <5>1, <5>2
      <4>3. ASSUME NEW x \in logs' PROVE x.seq < seq'
        <5>1. CASE x \in logs
          BY <1>0, <2>3, <4>2, <5>1
        <5>2. CASE x \in Added
          BY <1>0, <2>1, <4>1, <5>2
        <5> QED BY <1>3, <1>4, <5>1, <5>2
      <4> QED BY <3>1, <4>2, <4>3
    <3>2. CASE pc # "record"
      <4>1. seq' = seq /\ Added = {}
        BY <1>3, <1>4, <2>1, <3>2
      <4> QED BY <1>0, <1>3, <1>4, <2>3, <3>2, <4>1
    <3> QED BY <3>1, <3>2
  <2>6. Len(versions') \in 1 .. runs' + 1 /\ seq' \in 0 .. runs'
    BY <1>0, <1>3, <1>4, <2>5
  <2> QED BY <1>3, <1>4, <2>2, <2>4, <2>5, <2>6
<1>5. CASE Undoing
  <2>1. /\ pc \in {"undo", "undoRename"} /\ pc' \in {"undo", "undoRename"}
        /\ logs' \subseteq logs /\ job'.why = job.why
        /\ UNCHANGED <<seq, versions, runs>>
    BY <1>5, UndoingFacts
  <2>2. IsFiniteSet(logs')
    BY <1>0, <2>1, FS_Subset
  <2> QED BY <1>0, <2>1, <2>2
<1>6. CASE Unwound
  <2>1. pc = "undo" /\ UNCHANGED <<seq, runs>>
    BY <1>6 DEF Unwound
  <2>2. CASE job.why = "rewind"
    <3>1. job.target \in 1 .. Len(versions) /\ versions \in Seq(Contents)
      BY <2>1, <2>2 DEF FilesIInv, TypeOK, Handlers
    <3>2. versions' = SubSeq(versions, 1, job.target) /\ pc' = "idle" /\ logs' = logs
      BY <1>6, <2>2 DEF Unwound
    <3>3. Len(versions') = job.target
      BY <3>1, <3>2
    <3>4. Len(versions') \in 1 .. runs' + 1
      BY <1>0, <2>1, <3>1, <3>3
    <3> QED BY <1>0, <2>1, <2>2, <3>2, <3>4
  <2>3. CASE job.why # "rewind"
    <3>1. pc' = "gone" /\ versions' = versions /\ (logs' = logs \/ logs' = {})
      BY <1>6, <2>3 DEF Unwound
    <3> QED BY <1>0, <2>1, <3>1, FS_EmptySet
  <2> QED BY <2>2, <2>3
<1>7. CASE Commit
  BY <1>0, <1>7, FS_EmptySet DEF Commit
<1>8. CASE Halting
  <2>1. pc' \in {"down", "stuck"} /\ seq' = 0 /\ UNCHANGED <<versions, runs>> /\ (logs' = logs \/ logs' = {})
    BY <1>8, Halts
  <2>2. IsFiniteSet(logs') /\ logs' \subseteq logs
    BY <1>0, <2>1, FS_EmptySet
  <2> QED BY <1>0, <2>1, <2>2
<1>9. CASE Restart
  <2>1. /\ (pc' = "undo" /\ job'.why = "recover") \/ pc' = "gone"
        /\ UNCHANGED <<logs, seq, versions, runs>>
    BY <1>9 DEF Restart
  <2> QED BY <1>0, <2>1
<1>10. CASE UNCHANGED vars
  BY <1>0, <1>10 DEF vars
<1>11. CASE Failing
  <2>1. /\ Lives /\ pc \in {"record", "undo"} /\ pc' = "undo" /\ logs' = logs
        /\ seq' = (IF pc = "record" THEN seq + 1 ELSE seq) /\ UNCHANGED <<versions, runs>>
    BY <1>11, Fails
  <2>2. seq' \in 0 .. runs /\ seq <= seq'
    BY <1>0, <2>1
  <2>3. \A x \in logs : x.seq < seq'
    BY <1>0, <2>1, <2>2
  <2> QED BY <1>0, <2>1, <2>2, <2>3
<1> QED BY <1>1, <1>2, <1>4, <1>5, <1>6, <1>7, <1>8, <1>9, <1>10, <1>11, StepCases

(* Every step keeps track of what is in flight: no entry but the last is   *)
(* of the run it belongs to.                                               *)
LEMMA StepFlying == ASSUME FilesIInv, [Next]_vars PROVE Flying'
<1> USE DEF disk, ledger, tool, unwind, history, Flying, Recovers, Running
<1>0. /\ Flying /\ Handlers /\ runs \in Nat /\ flight.bytes \in Nat /\ flight.op \in {"none", "write", "rename", "tool"}
      /\ \A i \in DOMAIN entries : entries[i].run \in Nat \ {0}
      /\ \A i \in DOMAIN todo : todo[i].run \in Nat \ {0}
      /\ Nothing.bytes = 0 /\ DOMAIN <<>> = {}
  <2>1. \A x \in Entries : x.run \in Nat \ {0}
    BY Bounds
  <2>2. entries \in Seq(Entries) /\ todo \in Seq(Entries)
    BY DEF FilesIInv, TypeOK
  <2>3. \A i \in DOMAIN entries : entries[i] \in Entries
    BY <2>2
  <2>4. \A i \in DOMAIN todo : todo[i] \in Entries
    BY <2>2
  <2> QED BY <2>1, <2>3, <2>4 DEF FilesIInv, TypeOK, Nothing
<1>1. CASE Read
  <2>1. /\ pc = "idle" /\ runs' = runs + 1 /\ ok' = FALSE /\ pc' \in {"write", "record"}
        /\ UNCHANGED <<entries, todo, flight, job>>
    BY <1>1 DEF Read, Ready
  <2>2. flight.bytes <= runs
    BY <1>0 DEF Nothing
  <2>3. /\ flight.bytes < runs' /\ flight.bytes # runs'
        /\ flight = Nothing \/ flight \in [op : {"write", "rename", "tool"}, bytes : 1 .. runs']
    BY <1>0, <2>1, <2>2
  <2>4. \A i \in DOMAIN entries : entries[i].run < runs' /\ entries[i].run <= runs'
    BY <1>0, <2>1
  <2> QED BY <1>0, <2>1, <2>3, <2>4
<1>2. CASE Write \/ Rename
  <2>1. /\ pc \in {"write", "rename"} /\ pc' \in {"rename", "record"}
        /\ UNCHANGED <<entries, todo, flight, job, runs, prior>>
    BY <1>2 DEF Write, WriteTmp, Rename, RenameTmp
  <2>2. flight.bytes # runs
    BY <1>0, <2>1
  <2> QED BY <1>0, <2>1, <2>2
<1>3. CASE Timeout
  <2>1. /\ pc \in {"write", "rename"} /\ pc' = "record" /\ prior # <<>> /\ ~ok /\ runs \in Nat \ {0}
        /\ flight' = [op |-> pc, bytes |-> runs]
        /\ UNCHANGED <<entries, todo, job, runs, prior, ok>>
    BY <1>0, <1>3 DEF Timeout, Handlers, FilesIInv, Numbered
  <2>2. flight'.bytes = runs /\ flight' \in [op : {"write", "rename", "tool"}, bytes : 1 .. runs']
    BY <2>1
  <2>3. \A i \in DOMAIN entries : entries[i].run # runs
    BY <1>0, <2>1
  <2>4. todo = <<>>
    BY <1>0, <2>1 DEF Handlers
  <2> QED BY <1>0, <2>1, <2>2, <2>3, <2>4
<1>4. CASE Late
  <2>1. /\ flight' = Nothing \/ flight' = [op |-> "rename", bytes |-> flight.bytes]
        /\ UNCHANGED <<entries, todo, job, runs, prior, ok, pc>>
        /\ flight.bytes \in 1 .. runs /\ flight # Nothing
    BY <1>4, Lates DEF Late
  <2>2. pc \in {"write", "rename", "record"} => 0 < runs
    BY <1>0 DEF FilesIInv, Numbered
  <2>3. CASE flight' = Nothing
    BY <1>0, <2>1, <2>2, <2>3
  <2>4. CASE flight' = [op |-> "rename", bytes |-> flight.bytes]
    <3>1. flight'.bytes = flight.bytes /\ flight' \in [op : {"write", "rename", "tool"}, bytes : 1 .. runs']
      BY <2>1, <2>4
    <3> QED BY <1>0, <2>1, <3>1
  <2> QED BY <2>1, <2>3, <2>4
<1>5. CASE Succeeds
  <2>1. /\ pc = "record" /\ prior # <<>> /\ ok /\ pc' = "idle" /\ entries' = Ledger
        /\ UNCHANGED <<job, todo, flight, runs>>
    BY <1>5, Counts
  <2>2. /\ DOMAIN Ledger = 1 .. Len(Ledger) /\ Len(Ledger) = Len(versions) /\ Len(entries) = Len(versions) - 1
        /\ Len(versions) \in Nat \ {0}
        /\ \A i \in 1 .. Len(entries) : i \in DOMAIN entries /\ Ledger[i] = entries[i]
        /\ Ledger[Len(versions)] = Registered[1]
    BY <2>1, Ledgers
  <2>3. Registered[1].run = runs
    <3>1. Registered[1] = [step |-> Len(versions), seq |-> seq, run |-> runs, prior |-> prior[1]]
      BY <2>1, Registers
    <3> QED BY <3>1
  <2>4. flight.bytes # runs
    BY <1>0, <2>1
  <2>5. ASSUME NEW i \in DOMAIN Ledger PROVE Ledger[i].run # flight.bytes /\ Ledger[i].run <= runs
    <3>1. CASE i = Len(versions)
      BY <1>0, <2>2, <2>3, <2>4, <3>1
    <3>2. CASE i # Len(versions)
      BY <1>0, <2>2, <3>2
    <3> QED BY <3>1, <3>2
  <2> QED BY <1>0, <2>1, <2>5
<1>6. CASE Turning
  <2>1. /\ pc = "idle" \/ pc = "record"
        /\ pc' = "undo" /\ (job.why \in {"rewind", "abort", "request"})'
        /\ first' \in 1 .. Len(versions) /\ first' <= Len(Ledger) + 1 /\ Len(Ledger) \in Nat
        /\ Len(entries') = first' - 1 /\ DOMAIN entries' = 1 .. first' - 1
        /\ \A i \in 1 .. first' - 1 : entries'[i] = Ledger[i]
        /\ DOMAIN todo' = 1 .. Len(Ledger) + 1 - first' /\ Len(todo') = Len(Ledger) + 1 - first'
        /\ \A i \in 1 .. Len(Ledger) + 1 - first' : todo'[i] = Ledger[first' - 1 + i]
        /\ UNCHANGED <<flight, history>>
    BY <1>6, Turns
  <2>2. /\ \A i \in 1 .. Len(entries) : i \in DOMAIN entries /\ Ledger[i] = entries[i]
        /\ Len(entries) = Len(versions) - 1 /\ Len(versions) \in Nat \ {0}
        /\ Len(Ledger) \in {Len(versions) - 1, Len(versions)}
    BY <2>1, Ledgers
  <2>3. ASSUME NEW i \in DOMAIN entries' PROVE entries'[i].run # flight.bytes /\ entries'[i].run <= runs
    <3>1. i \in 1 .. first' - 1 /\ entries'[i] = Ledger[i]
      BY <2>1
    <3>2. first' - 1 \in 0 .. Len(entries)
      <4>1. \A n \in 1 .. Len(versions) : n - 1 \in 0 .. Len(entries)
        BY <2>2
      <4> QED BY <2>1, <4>1
    <3>3. i \in 1 .. Len(entries)
      BY <2>2, <3>1, <3>2
    <3> QED BY <1>0, <2>2, <3>1, <3>3
  <2>4. ASSUME NEW i \in DOMAIN todo', todo'[i].run = flight.bytes PROVE i = Len(todo')
    <3> DEFINE n == first' - 1 + i
    <3>1. i \in Nat /\ n \in 1 .. Len(Ledger) /\ todo'[i] = Ledger[n]
      BY <2>1
    <3>2. n \notin 1 .. Len(entries)
      <4> SUFFICES ASSUME n \in 1 .. Len(entries) PROVE FALSE
        OBVIOUS
      <4>1. Ledger[n] = entries[n] /\ n \in DOMAIN entries
        BY <2>2
      <4> QED BY <1>0, <2>4, <3>1, <4>1
    <3>3. n = Len(Ledger)
      BY <2>2, <3>1, <3>2
    <3> QED BY <2>1, <3>1, <3>3
  <2> QED BY <1>0, <2>1, <2>3, <2>4
<1>7. CASE Undoing
  <2>1. /\ pc \in {"undo", "undoRename"} /\ pc' \in {"undo", "undoRename"}
        /\ Len(todo) \in Nat /\ DOMAIN todo' = 1 .. Len(todo')
        /\ Len(todo') \in {Len(todo), Len(todo) - 1}
        /\ \A i \in DOMAIN todo' : i \in DOMAIN todo /\ todo'[i] = todo[i]
        /\ job'.why = job.why
        /\ UNCHANGED <<entries, flight, runs>>
    BY <1>7, UndoingFacts
  <2>2. ASSUME NEW i \in DOMAIN todo', todo'[i].run = flight.bytes PROVE i = Len(todo')
    <3>1. i = Len(todo) /\ i \in 1 .. Len(todo')
      BY <1>0, <2>1, <2>2
    <3> QED BY <2>1, <3>1
  <2> QED BY <1>0, <2>1, <2>2
<1>8. CASE Unwound
  <2>1. pc = "undo" /\ pc' \in {"idle", "gone"} /\ UNCHANGED <<entries, todo, flight, runs>>
    BY <1>8 DEF Unwound
  <2> QED BY <1>0, <2>1
<1>9. CASE Commit
  <2>1. entries' = <<>> /\ pc' = "gone" /\ UNCHANGED <<todo, flight, runs>>
    BY <1>9 DEF Commit
  <2> QED BY <1>0, <2>1
<1>10. CASE Halting
  <2>1. entries' = <<>> /\ todo' = <<>> /\ pc' \in {"down", "stuck"} /\ runs' = runs
    BY <1>10, Halts
  <2>2. /\ pc' = "down" => flight' = Nothing
        /\ flight' = Nothing \/ flight' \in [op : {"write", "rename", "tool"}, bytes : 1 .. runs']
    <3>1. \/ flight' = Nothing
          \/ pc' = "stuck" /\ flight' = flight
          \/ pc' = "stuck" /\ runs \in Nat \ {0} /\ flight' \in [op : {"rename", "tool"}, bytes : {runs}]
      BY <1>10, Halts
    <3> QED BY <1>0, <2>1, <3>1
  <2> QED BY <1>0, <2>1, <2>2
<1>11. CASE Restart
  <2>1. /\ pc = "down" /\ pc' \in {"undo", "gone"} /\ flight = Nothing /\ (todo' = todo \/ todo' = Sorted(logs))
        /\ UNCHANGED <<entries, flight, runs>>
    BY <1>0, <1>11 DEF Restart
  <2>2. \A i \in DOMAIN Sorted(logs) : Sorted(logs)[i].run # 0
    <3>1. Sorted(logs) \in Seq(Entries)
      BY Recovery DEF FilesIInv, TypeOK, Numbered
    <3>2. \A i \in DOMAIN Sorted(logs) : Sorted(logs)[i] \in Entries
      BY <3>1
    <3> QED BY <3>2, Bounds
  <2>3. \A i \in DOMAIN todo' : todo'[i].run # 0
    BY <1>0, <2>1, <2>2
  <2> QED BY <1>0, <2>1, <2>3
<1>12. CASE UNCHANGED vars
  BY <1>0, <1>12 DEF vars
<1>13. CASE Failing
  <2>1. /\ pc' = "undo" /\ (job.why \in {"rewind", "hard"})' /\ first' \in Nat
        /\ DOMAIN entries' = 1 .. first' - 1
        /\ \A i \in 1 .. first' - 1 : i \in DOMAIN entries /\ entries'[i] = entries[i]
        /\ \A i \in DOMAIN todo' : first' - 1 + i \in DOMAIN entries /\ todo'[i] = entries[first' - 1 + i]
        /\ UNCHANGED <<flight, runs>>
    BY <1>13, Fails
  <2>2. \A i \in DOMAIN entries' : entries'[i].run # flight.bytes /\ entries'[i].run <= runs
    BY <1>0, <2>1
  <2>3. \A i \in DOMAIN todo' : todo'[i].run # flight.bytes
    BY <1>0, <2>1
  <2> QED BY <1>0, <2>1, <2>2, <2>3
<1> QED BY <1>1, <1>2, <1>3, <1>4, <1>5, <1>6, <1>7, <1>8, <1>9, <1>10, <1>11, <1>12, <1>13, StepCases

(* What is once noted stays noted. *)
LEMMA Noted == ASSUME FilesIInv, [Next]_vars PROVE (spoiled => spoiled') /\ (skipped => skipped')
<1> USE DEF history
<1>1. CASE Read \/ Rename \/ Timeout \/ Succeeds \/ Unwound \/ Commit \/ Restart \/ UNCHANGED vars
  BY <1>1, Counts DEF Read, Rename, Timeout, Unwound, Commit, Restart, vars
<1>2. CASE Write \/ Late \/ Halting
  <2>1. CASE Write
    <3>1. spoiled' = spoiled \/ spoiled' = TRUE
      BY <2>1 DEF Write, WriteTmp
    <3>2. skipped' = skipped
      BY <2>1 DEF Write
    <3> QED BY <3>1, <3>2
  <2>2. CASE Late
    BY <2>2, Lates
  <2>3. CASE Halting
    BY <2>3, Halts
  <2> QED BY <1>2, <2>1, <2>2, <2>3
<1>3. CASE Turning \/ Failing
  BY <1>3, Turns, Fails
<1>4. CASE Undoing
  <2>1. skipped => skipped'
    BY <1>4, UndoingFacts
  <2>2. spoiled => spoiled'
    BY <1>4, Undoes, Zenon DEF Undoing
  <2> QED BY <2>1, <2>2
<1> QED BY <1>1, <1>2, <1>3, <1>4, StepCases

(* Every step keeps torn bytes away from the path: they stay in the        *)
(* temporary file, which is written anew before anyone renames it, unless  *)
(* the rename comes late.                                                  *)
LEMMA StepUntorn == ASSUME FilesIInv, [Next]_vars PROVE Untorn'
<1> USE DEF disk, ledger, tool, unwind, history, Running
<1> SUFFICES ASSUME ~spoiled'
             PROVE  /\ file' # Torn
                    /\ (pc \in {"rename", "undoRename"} \/ (flight.op = "rename" /\ BeforeUndo) => tmp # Torn)'
                    /\ \A x \in logs' : x.prior # Torn
                    /\ \A i \in DOMAIN entries' : entries'[i].prior # Torn
                    /\ \A i \in DOMAIN todo' : todo'[i].prior # Torn
                    /\ \A i \in DOMAIN prior' : prior'[i] # Torn
  BY DEF Untorn
<1>0. /\ ~spoiled /\ file # Torn
      /\ pc \in {"rename", "undoRename"} \/ (flight.op = "rename" /\ BeforeUndo) => tmp # Torn
      /\ \A x \in logs : x.prior # Torn
      /\ \A i \in DOMAIN entries : entries[i].prior # Torn
      /\ \A i \in DOMAIN todo : todo[i].prior # Torn
      /\ \A i \in DOMAIN prior : prior[i] # Torn
      /\ Torn # Absent /\ DOMAIN <<>> = {} /\ Nothing.op = "none"
  <2>1. ~spoiled
    BY Noted
  <2>2. Untorn /\ Torn # Absent
    BY Bounds DEF FilesIInv
  <2>3. Nothing.op = "none" /\ DOMAIN <<>> = {}
    BY DEF Nothing
  <2> QED BY <2>1, <2>2, <2>3, Zenon DEF Untorn
<1>a. Flying /\ Handlers /\ (Running => Len(versions) <= runs /\ runs \in 1 .. MaxRuns)
  BY Bounds DEF FilesIInv, Numbered, TypeOK
<1>1. CASE Read
  <2>1. /\ pc = "idle" /\ runs' = runs + 1 /\ runs \in Nat
        /\ (pc' = "write" /\ prior' = <<file>>) \/ (pc' = "record" /\ prior' = <<>>)
        /\ UNCHANGED <<file, tmp, logs, entries, todo, flight>>
    BY <1>1 DEF Read, Ready, FilesIInv, TypeOK
  <2>2. flight.bytes <= runs
    BY <1>a, <2>1 DEF Flying, Nothing
  <2>3. ~BeforeUndo'
    <3>1. flight'.bytes # runs' /\ pc' # "undo"
      <4>1. flight.bytes \in Nat
        BY DEF FilesIInv, TypeOK
      <4> QED BY <2>1, <2>2, <4>1
    <3> QED BY <3>1 DEF BeforeUndo
  <2>4. \A i \in DOMAIN prior' : prior'[i] # Torn
    BY <1>0, <2>1
  <2> QED BY <1>0, <2>1, <2>3, <2>4
<1>2. CASE Write
  <2>1. /\ pc = "write" /\ ((pc' = "rename" /\ (tmp' = runs \/ spoiled')) \/ pc' = "record")
        /\ UNCHANGED <<file, logs, entries, todo, flight, prior, runs>>
    BY <1>2 DEF Write, WriteTmp
  <2>2. runs # Torn
    BY <1>a, <2>1, Bounds
  <2>3. ~BeforeUndo'
    BY <1>a, <2>1 DEF BeforeUndo, Flying
  <2> QED BY <1>0, <2>1, <2>2, <2>3
<1>3. CASE Rename
  <2>1. /\ pc = "rename" /\ pc' = "record" /\ (file' = tmp \/ file' = file)
        /\ UNCHANGED <<logs, entries, todo, flight, prior, runs>>
    BY <1>3 DEF Rename, RenameTmp
  <2>3. ~BeforeUndo'
    BY <1>a, <2>1 DEF BeforeUndo, Flying
  <2> QED BY <1>0, <2>1, <2>3
<1>4. CASE Timeout
  <2>1. /\ pc \in {"write", "rename"} /\ pc' = "record" /\ flight' = [op |-> pc, bytes |-> runs]
        /\ UNCHANGED <<file, tmp, logs, entries, todo, prior>>
    BY <1>4 DEF Timeout
  <2>2. flight'.op = "rename" => pc = "rename"
    BY <2>1
  <2> QED BY <1>0, <2>1, <2>2
<1>5. CASE Late
  <2>1. UNCHANGED <<logs, entries, todo, prior, pc, tries, runs>>
    BY <1>5, Lates
  <2>2. CASE file' = file /\ tmp' # Torn
    BY <1>0, <2>1, <2>2
  <2>3. CASE flight' = Nothing /\ UNCHANGED <<file, tmp>>
    BY <1>0, <2>1, <2>3
  <2>4. CASE flight.op = "rename" /\ flight' = Nothing /\ file' = tmp /\ tmp' = Absent /\ BeforeUndo
    BY <1>0, <2>1, <2>4
  <2> QED BY <1>5, <2>2, <2>3, <2>4, Lates
<1>b. \A x \in Added : x.prior # Torn
  <2>1. ASSUME NEW x \in Added PROVE x.prior # Torn
    <3>1. /\ pc = "record" /\ prior # <<>>
          /\ x = [step |-> Len(versions), seq |-> seq, run |-> runs, prior |-> prior[1]]
      BY AddedFacts
    <3>2. x.prior = prior[1] /\ 1 \in DOMAIN prior
      BY <3>1, Registers
    <3> QED BY <1>0, <3>2
  <2> QED BY <2>1
<1>c. pc = "idle" \/ pc = "record" => \A x \in ToSet(Ledger) : x.prior # Torn
  <2>1. \A x \in ToSet(entries) : x.prior # Torn
    BY <1>0 DEF ToSet
  <2> QED BY <1>b, <2>1, Ledgers
<1>6. CASE Succeeds
  <2>1. /\ pc = "record" /\ pc' = "idle" /\ prior' = <<>>
        /\ entries' = Ledger /\ logs' = logs \cup Added
        /\ UNCHANGED <<file, tmp, todo, flight>>
    BY <1>6, Counts
  <2>2. \A i \in DOMAIN entries' : entries'[i].prior # Torn
    BY <1>c, <2>1 DEF ToSet
  <2>3. ~BeforeUndo'
    BY <2>1 DEF BeforeUndo
  <2> QED BY <1>0, <1>b, <2>1, <2>2, <2>3
<1>7. CASE Turning
  <2>1. /\ pc = "idle" \/ pc = "record"
        /\ pc' = "undo" /\ prior' = <<>> /\ logs' = logs \cup Added
        /\ first' \in 1 .. Len(versions) /\ first' <= Len(Ledger) + 1 /\ Len(Ledger) \in Nat
        /\ todo' \in Seq(Entries) /\ Len(todo') = Len(Ledger) + 1 - first'
        /\ \A i \in 1 .. Len(Ledger) + 1 - first' : todo'[i] = Ledger[first' - 1 + i]
        /\ ToSet(entries') \cup ToSet(todo') = ToSet(Ledger)
        /\ UNCHANGED <<file, tmp, flight, runs>>
    BY <1>7, Turns
  <2>2. \A x \in ToSet(entries') \cup ToSet(todo') : x.prior # Torn
    BY <1>c, <2>1
  <2>3. /\ \A i \in DOMAIN entries' : entries'[i].prior # Torn
        /\ \A i \in DOMAIN todo' : todo'[i].prior # Torn
    BY <2>2 DEF ToSet
  <2>4. ASSUME BeforeUndo' PROVE BeforeUndo
    <3>1. todo' # <<>> /\ Last(todo').run = flight.bytes
      BY <2>1, <2>4 DEF BeforeUndo
    <3>2. Last(todo') = todo'[Len(todo')] /\ Len(todo') \in Nat \ {0}
      BY <2>1, <3>1, Fronts
    <3>3. Len(Ledger) # 0 /\ Last(todo') = Ledger[Len(Ledger)]
      <4>1. \A n \in 1 .. Len(versions) : n - 1 + (Len(Ledger) + 1 - n) = Len(Ledger)
        BY <2>1
      <4>2. first' - 1 + Len(todo') = Len(Ledger) /\ Len(todo') \in 1 .. Len(Ledger) + 1 - first'
        <5>1. Len(todo') = Len(Ledger) + 1 - first' /\ first' \in 1 .. Len(versions)
          BY <2>1
        <5>2. first' - 1 + (Len(Ledger) + 1 - first') = Len(Ledger)
          BY <4>1, <5>1
        <5>3. Len(todo') \in 1 .. Len(todo')
          BY <3>2
        <5> QED BY <5>1, <5>2, <5>3
      <4>3. \A n \in 1 .. Len(versions) : Len(Ledger) + 1 - n \in Nat \ {0} => Len(Ledger) # 0
        BY <2>1
      <4> QED BY <2>1, <3>2, <4>2, <4>3
    <3>4. /\ \A i \in 1 .. Len(entries) : i \in DOMAIN entries /\ Ledger[i] = entries[i]
          /\ Len(entries) = Len(versions) - 1 /\ Len(versions) \in Nat \ {0}
          /\ Len(Ledger) = IF pc = "record" /\ prior # <<>> THEN Len(versions) ELSE Len(versions) - 1
          /\ pc = "record" /\ prior # <<>> => Ledger[Len(versions)] = Registered[1]
      BY <2>1, Ledgers
    <3>5. CASE pc = "record" /\ prior # <<>>
      <4>1. Registered[1] = [step |-> Len(versions), seq |-> seq, run |-> runs, prior |-> prior[1]]
        BY <3>5, Registers
      <4>2. runs = flight.bytes
        BY <3>1, <3>3, <3>4, <3>5, <4>1
      <4> QED BY <3>5, <4>2 DEF BeforeUndo
    <3>6. CASE ~(pc = "record" /\ prior # <<>>)
      <4>1. Len(Ledger) \in 1 .. Len(entries)
        BY <2>1, <3>3, <3>4, <3>6
      <4>2. Len(Ledger) \in DOMAIN entries /\ entries[Len(Ledger)].run = flight.bytes
        BY <3>1, <3>3, <3>4, <4>1
      <4> QED BY <1>a, <4>2 DEF Flying
    <3> QED BY <3>5, <3>6
  <2> QED BY <1>0, <1>b, <2>1, <2>3, <2>4
<1>8. CASE Undoing
  <2>1. /\ pc \in {"undo", "undoRename"} /\ pc' \in {"undo", "undoRename"}
        /\ todo # <<>> /\ Len(todo) \in Nat \ {0} /\ DOMAIN todo = 1 .. Len(todo)
        /\ DOMAIN todo' = 1 .. Len(todo')
        /\ \A i \in DOMAIN todo' : i \in DOMAIN todo /\ todo'[i] = todo[i]
        /\ logs' \subseteq logs
        /\ UNCHANGED <<entries, prior, flight, runs>>
    BY <1>8, UndoingFacts
  <2>2. Last(todo) = todo[Len(todo)] /\ Last(todo).prior # Torn
    <3>1. Last(todo) = todo[Len(todo)] /\ Len(todo) \in DOMAIN todo
      BY <2>1 DEF Last
    <3> QED BY <1>0, <3>1
  <2>3. /\ \A x \in logs' : x.prior # Torn
        /\ \A i \in DOMAIN entries' : entries'[i].prior # Torn
        /\ \A i \in DOMAIN todo' : todo'[i].prior # Torn
        /\ \A i \in DOMAIN prior' : prior'[i] # Torn
    BY <1>0, <2>1
  <2>4. CASE pc' = "undoRename" /\ UNCHANGED file
    <3>1. tmp' = Last(todo).prior
      <4>1. \/ tmp' = Last(todo).prior
            \/ spoiled'
            \/ Undone \/ Failed
        BY <1>8, Undoes DEF Undoing
      <4>2. ~(Undone \/ Failed)
        BY <2>4 DEF Undone, Failed
      <4> QED BY <4>1, <4>2
    <3> QED BY <1>0, <2>2, <2>3, <2>4, <3>1
  <2>5. CASE Undone \/ Failed
    <3>1. /\ pc' = "undo" /\ (todo' = Front(todo) \/ (todo' = todo /\ tries' # 0))
      BY <2>1, <2>5, Settles
    <3>2. ~BeforeUndo'
      <4> SUFFICES ASSUME BeforeUndo' PROVE FALSE
        OBVIOUS
      <4>1. todo' = Front(todo) /\ todo' # <<>> /\ Last(todo').run = flight.bytes
        BY <2>1, <3>1 DEF BeforeUndo
      <4>2. todo \in Seq(Entries) /\ Front(todo) \in Seq(Entries) /\ Len(Front(todo)) = Len(todo) - 1
        BY <2>1, Fronts DEF FilesIInv, TypeOK
      <4>3. Last(todo') = todo'[Len(todo')] /\ Len(todo') = Len(todo) - 1 /\ Len(todo') \in Nat \ {0}
        BY <4>1, <4>2, Fronts
      <4>4. Len(todo') \in DOMAIN todo' /\ todo[Len(todo')].run = flight.bytes
        BY <2>1, <4>1, <4>3
      <4>5. Len(todo') = Len(todo)
        BY <1>a, <2>1, <4>4 DEF Flying
      <4> QED BY <2>1, <4>3, <4>5
    <3>3. file' # Torn
      <4>1. file' \in {file, Absent} \/ (pc = "undoRename" /\ file' = tmp)
        BY <1>8, <2>5, Undoes DEF Undoing, Undone, Failed
      <4> QED BY <1>0, <4>1
    <3> QED BY <2>3, <3>1, <3>2, <3>3
  <2> QED BY <1>8, <2>4, <2>5, Undoes DEF Undoing
<1>9. CASE Unwound
  <2>1. /\ pc' \in {"idle", "gone"} /\ logs' \subseteq logs
        /\ UNCHANGED <<file, tmp, entries, todo, prior>>
    BY <1>9 DEF Unwound
  <2>2. ~BeforeUndo'
    BY <2>1 DEF BeforeUndo
  <2> QED BY <1>0, <2>1, <2>2
<1>10. CASE Commit
  <2>1. /\ pc' = "gone" /\ logs' = {} /\ entries' = <<>> /\ UNCHANGED <<file, tmp, todo, prior>>
    BY <1>10 DEF Commit
  <2>2. ~BeforeUndo'
    BY <2>1 DEF BeforeUndo
  <2> QED BY <1>0, <2>1, <2>2
<1>11. CASE Halting
  <2>1. /\ pc' \in {"down", "stuck"} /\ entries' = <<>> /\ todo' = <<>> /\ prior' = <<>>
        /\ logs' = logs \/ logs' = {}
        /\ file' \in {file, Absent} \/ (pc = "undoRename" /\ file' = tmp)
    BY <1>11, Halts
  <2>2. ~BeforeUndo'
    BY <2>1 DEF BeforeUndo
  <2> QED BY <1>0, <2>1, <2>2
<1>12. CASE Restart
  <2>1. /\ pc = "down" /\ pc' \in {"undo", "gone"} /\ (todo' = todo \/ todo' = Sorted(logs))
        /\ UNCHANGED <<file, tmp, logs, entries, prior, flight>>
    BY <1>12 DEF Restart
  <2>2. flight'.op = "none"
    BY <1>0, <1>a, <2>1 DEF Flying
  <2>3. \A i \in DOMAIN Sorted(logs) : Sorted(logs)[i].prior # Torn
    <3>1. ToSet(Sorted(logs)) = logs
      BY Recovery DEF FilesIInv, TypeOK, Numbered
    <3> QED BY <1>0, <3>1 DEF ToSet
  <2>4. \A i \in DOMAIN todo' : todo'[i].prior # Torn
    BY <1>0, <2>1, <2>3
  <2> QED BY <1>0, <2>1, <2>2, <2>4
<1>13. CASE UNCHANGED vars
  BY <1>0, <1>13 DEF vars, BeforeUndo
<1>14. CASE Failing
  <2>1. /\ pc' = "undo" /\ prior' = <<>> /\ logs' = logs
        /\ ToSet(entries') \cup ToSet(todo') = ToSet(entries)
        /\ todo' \in Seq(Entries) /\ UNCHANGED <<file, flight>>
    BY <1>14, Fails
  <2>2. \A x \in ToSet(entries') \cup ToSet(todo') : x.prior # Torn /\ x.run # flight.bytes
    BY <1>0, <1>a, <2>1 DEF ToSet, Flying
  <2>3. /\ \A i \in DOMAIN entries' : entries'[i].prior # Torn
        /\ \A i \in DOMAIN todo' : todo'[i].prior # Torn /\ todo'[i].run # flight.bytes
    BY <2>2 DEF ToSet
  <2>4. ~BeforeUndo'
    <3> SUFFICES ASSUME BeforeUndo' PROVE FALSE
      OBVIOUS
    <3>1. todo' # <<>> /\ Last(todo').run = flight.bytes
      BY <2>1 DEF BeforeUndo
    <3>2. Last(todo') = todo'[Len(todo')] /\ Len(todo') \in Nat \ {0}
      BY <2>1, <3>1, Fronts
    <3>3. Len(todo') \in DOMAIN todo'
      BY <2>1, <3>2
    <3> QED BY <2>3, <3>1, <3>2, <3>3
  <2> QED BY <1>0, <2>1, <2>3, <2>4
<1> QED BY <1>1, <1>2, <1>3, <1>4, <1>5, <1>6, <1>7, <1>8, <1>9, <1>10, <1>11, <1>12, <1>13, <1>14, StepCases

(* The last entry to undo is of the latest step, and is there once. *)
LEMMA LastIsLatest ==
  ASSUME FilesIInv, pc \in {"undo", "undoRename"}, todo # <<>>
  PROVE  /\ \A x \in ToSet(entries) \cup ToSet(Front(todo)) : x.step <= Last(todo).step /\ x # Last(todo)
         /\ Last(todo) \in ToSet(todo) /\ Last(todo).step \in Nat
<1>1. /\ todo \in Seq(Entries) /\ entries \in Seq(Entries) /\ Queues
      /\ \A x \in Entries : x.step \in Nat /\ x.seq \in Nat
  <2>1. \A x \in Entries : x.step \in Nat /\ x.seq \in Nat
    BY Bounds
  <2> QED BY <2>1 DEF FilesIInv, TypeOK
<1>2. /\ Len(todo) \in Nat \ {0} /\ Last(todo) = todo[Len(todo)] /\ Last(todo) \in Entries
      /\ DOMAIN Front(todo) = 1 .. Len(todo) - 1
      /\ \A i \in 1 .. Len(todo) - 1 : Front(todo)[i] = todo[i]
      /\ ToSet(todo) = ToSet(Front(todo)) \cup {Last(todo)}
  BY <1>1, Fronts, Zenon
<1>3. DOMAIN todo = 1 .. Len(todo) /\ \A i \in DOMAIN todo : todo[i] \in Entries
  BY <1>1
<1>4. ASSUME NEW x \in ToSet(Front(todo)) PROVE x.step <= Last(todo).step /\ x # Last(todo)
  <2>1. PICK i \in 1 .. Len(todo) - 1 : x = todo[i]
    BY <1>2 DEF ToSet
  <2>2. i \in DOMAIN todo /\ Len(todo) \in DOMAIN todo /\ i < Len(todo)
    BY <1>2, <1>3
  <2>3. Earlier(x, Last(todo))
    BY <1>1, <1>2, <2>1, <2>2 DEF Queues, InOrder
  <2> QED BY <1>1, <1>2, <1>3, <2>1, <2>2, <2>3 DEF Earlier
<1>5. ASSUME NEW x \in ToSet(entries) PROVE x.step <= Last(todo).step /\ x # Last(todo)
  <2>1. PICK i \in DOMAIN entries : x = entries[i]
    BY <1>5 DEF ToSet
  <2>2. CASE Recovers
    BY <1>1, <2>1, <2>2 DEF Queues, Lives
  <2>3. CASE ~Recovers
    <3>1. /\ Len(entries) = first - 1 /\ Last(todo).step = first - 1 + Len(todo)
          /\ x.step = i
      <4>1. Unwinds /\ Len(todo) \in DOMAIN todo
        BY <1>2, <1>3, <2>3 DEF Unwinds, Recovers
      <4> QED BY <1>1, <1>2, <2>1, <4>1 DEF Queues
    <3>2. i \in 1 .. Len(entries) /\ Len(entries) \in Nat
      BY <1>1
    <3>3. x.step < Last(todo).step
      BY <1>2, <3>1, <3>2
    <3> QED BY <1>1, <1>2, <3>1, <3>2, <3>3
  <2> QED BY <2>2, <2>3
<1> QED BY <1>1, <1>2, <1>4, <1>5

(* With what the step to finish registered, the records still hold what    *)
(* the file was before each step.                                          *)
LEMMA LedgerChained ==
  ASSUME FilesIInv, Clean, pc = "idle" \/ pc = "record"
  PROVE  Chained(logs \cup Added, versions) /\ logs \cup Added = ToSet(Ledger)
<1>1. record = "open" /\ todo = <<>> /\ ~Halted
  BY DEF FilesIInv, Handlers, Running, Halted
<1>2. /\ Chained(logs, versions) /\ logs = ToSet(entries)
      /\ \A i \in DOMAIN prior : prior[i] = Last(versions)
  <2>1. ToSet(<<>>) = {}
    BY DEF ToSet
  <2> QED BY <1>1, <2>1 DEF FilesIInv, Whole, Forward
<1>3. /\ DOMAIN Ledger = 1 .. Len(Ledger) /\ \A i \in DOMAIN Ledger : Ledger[i].step = i
      /\ ToSet(Ledger) = ToSet(entries) \cup Added
      /\ Len(Ledger) \in {Len(versions) - 1, Len(versions)} /\ Len(versions) \in Nat \ {0}
  BY Ledgers
<1>4. logs \cup Added = ToSet(Ledger)
  BY <1>2, <1>3
<1>5. ASSUME NEW x \in ToSet(Ledger)
      PROVE  x.step \in DOMAIN Ledger /\ x = Ledger[x.step] /\ x.step \in 1 .. Len(versions)
  <2>1. PICK i \in DOMAIN Ledger : x = Ledger[i]
    BY DEF ToSet
  <2>2. x.step = i
    BY <1>3, <2>1
  <2>3. i \in 1 .. Len(versions)
    BY <1>3
  <2> QED BY <2>1, <2>2, <2>3
<1>6. ASSUME NEW x \in ToSet(Ledger) PROVE x.prior = versions[x.step]
  <2>1. CASE x \in logs
    BY <1>2, <2>1 DEF Chained
  <2>2. CASE x \in Added
    <3>1. /\ pc = "record" /\ prior # <<>>
          /\ x = [step |-> Len(versions), seq |-> seq, run |-> runs, prior |-> prior[1]]
      BY <2>2, AddedFacts
    <3>2. 1 \in DOMAIN prior
      BY <3>1, Registers
    <3>3. x.prior = Last(versions) /\ x.step = Len(versions)
      BY <1>2, <3>1, <3>2
    <3> QED BY <3>3 DEF Last
  <2> QED BY <1>4, <2>1, <2>2
<1>7. ASSUME NEW x \in ToSet(Ledger), NEW s \in 1 .. x.step - 1
      PROVE  \E y \in ToSet(Ledger) : y.step = s
  <2>1. s \in DOMAIN Ledger
    BY <1>3, <1>5
  <2>2. Ledger[s] \in ToSet(Ledger) /\ Ledger[s].step = s
    BY <1>3, <2>1 DEF ToSet
  <2> QED BY <2>2
<1>8. ASSUME NEW x \in ToSet(Ledger), NEW y \in ToSet(Ledger), x.step = y.step PROVE x = y
  BY <1>5, <1>8
<1> QED BY <1>4, <1>5, <1>6, <1>7, <1>8 DEF Chained

(* A chain of records is one of any versions that agree on its steps. *)
LEMMA ChainKept ==
  ASSUME NEW S, NEW v, NEW w, Chained(S, v),
         \A x \in S : x.step \in 1 .. Len(w) /\ w[x.step] = v[x.step]
  PROVE  Chained(S, w)
BY DEF Chained

(* A step that was noted clean began clean. *)
LEMMA CleanBefore == ASSUME FilesIInv, [Next]_vars, Clean' PROVE Clean
BY Noted DEF Clean

(* Every step keeps the records whole: they go in with their step and out  *)
(* newest first.                                                           *)
LEMMA StepWhole == ASSUME FilesIInv, [Next]_vars PROVE Whole'
<1> USE DEF disk, ledger, tool, unwind, history, Running, Halted
<1> SUFFICES ASSUME Clean'
             PROVE  /\ record' = "open" => /\ Chained(logs', versions')
                                           /\ (~Halted' => logs' = ToSet(entries') \cup ToSet(todo'))
                    /\ pc' = "gone" => record' # "open"
  BY DEF Whole
<1>0. /\ record = "open" => /\ Chained(logs, versions)
                            /\ (~Halted => logs = ToSet(entries) \cup ToSet(todo))
      /\ pc = "gone" => record # "open"
      /\ Clean /\ ~skipped'
  BY CleanBefore DEF FilesIInv, Whole, Clean
<1>1. CASE Read \/ Write \/ Rename \/ Timeout \/ Late
  <2>1. /\ UNCHANGED <<record, logs, entries, todo, versions>>
        /\ (~Halted /\ pc # "gone" /\ ~Halted' /\ pc' # "gone") \/ UNCHANGED pc
    BY <1>1, Lates DEF Read, Ready, Write, WriteTmp, Rename, RenameTmp, Timeout
  <2> QED BY <1>0, <2>1
<1>2. CASE Succeeds
  <2>1. /\ pc = "record" /\ pc' = "idle" /\ logs' = logs \cup Added /\ entries' = Ledger
        /\ Len(versions') = Len(versions) + 1
        /\ \A i \in 1 .. Len(versions) : versions'[i] = versions[i]
        /\ UNCHANGED todo
    BY <1>2, Counts
  <2>2. Chained(logs', versions) /\ logs' = ToSet(Ledger)
    BY <1>0, <2>1, LedgerChained
  <2>3. Len(versions) \in Nat /\ todo = <<>>
    BY <2>1 DEF FilesIInv, TypeOK, Handlers
  <2>4. \A x \in logs' : x.step \in 1 .. Len(versions') /\ versions'[x.step] = versions[x.step]
    <3>1. \A x \in logs' : x.step \in 1 .. Len(versions)
      BY <2>2 DEF Chained
    <3>2. \A i \in 1 .. Len(versions) : i \in 1 .. Len(versions')
      BY <2>1, <2>3
    <3> QED BY <2>1, <3>1, <3>2
  <2>5. Chained(logs', versions')
    BY <2>2, <2>4, ChainKept
  <2>6. ToSet(todo') = {}
    BY <2>1, <2>3 DEF ToSet
  <2> QED BY <2>1, <2>2, <2>5, <2>6
<1>3. CASE Turning
  <2>1. /\ pc = "idle" \/ pc = "record"
        /\ pc' = "undo" /\ logs' = logs \cup Added
        /\ ToSet(entries') \cup ToSet(todo') = ToSet(Ledger) /\ UNCHANGED history
    BY <1>3, Turns
  <2>2. Chained(logs', versions) /\ logs' = ToSet(Ledger)
    BY <1>0, <2>1, LedgerChained
  <2> QED BY <2>1, <2>2
<1>4. CASE Undoing
  <2>1. /\ pc \in {"undo", "undoRename"} /\ pc' \in {"undo", "undoRename"} /\ record = "open"
        /\ todo # <<>> /\ todo \in Seq(Entries) /\ UNCHANGED <<record, entries, versions>>
    BY <1>4, UndoingFacts
  <2>2. Chained(logs, versions) /\ logs = ToSet(entries) \cup ToSet(todo)
    BY <1>0, <2>1
  <2>3. \/ logs' = logs /\ todo' = todo
        \/ logs' = logs \ {Last(todo)} /\ todo' = Front(todo)
    <3>1. CASE Undone \/ Failed
      BY <1>0, <2>1, <3>1, Settles
    <3> QED BY <1>4, <3>1, Undoes DEF Undoing
  <2>4. CASE logs' = logs /\ todo' = todo
    BY <2>1, <2>2, <2>4
  <2>5. CASE logs' = logs \ {Last(todo)} /\ todo' = Front(todo)
    <3>1. /\ \A x \in ToSet(entries) \cup ToSet(Front(todo)) : x.step <= Last(todo).step /\ x # Last(todo)
          /\ Last(todo) \in ToSet(todo) /\ Last(todo).step \in Nat
      BY <2>1, LastIsLatest
    <3>2. ToSet(todo) = ToSet(Front(todo)) \cup {Last(todo)}
      BY <2>1, Fronts
    <3>3. logs' = ToSet(entries) \cup ToSet(Front(todo))
      BY <2>2, <2>5, <3>1, <3>2
    <3>4. ASSUME NEW x \in logs', NEW s \in 1 .. x.step - 1 PROVE \E y \in logs' : y.step = s
      <4>1. PICK y \in logs : y.step = s
        BY <2>2, <2>5, <3>4 DEF Chained
      <4>2. x.step <= Last(todo).step /\ x.step \in Nat
        BY <2>2, <2>5, <3>1, <3>3 DEF Chained
      <4>3. y # Last(todo)
        BY <3>1, <4>1, <4>2
      <4> QED BY <2>5, <4>1, <4>3
    <3>5. Chained(logs', versions)
      BY <2>2, <2>5, <3>4 DEF Chained
    <3> QED BY <2>1, <2>5, <3>3, <3>5
  <2> QED BY <2>3, <2>4, <2>5
<1>5. CASE Unwound
  <2>1. pc = "undo" /\ todo = <<>> /\ record = "open" /\ UNCHANGED <<entries, todo>>
    BY <1>5 DEF Unwound, FilesIInv, Handlers
  <2>2. CASE job.why = "rewind"
    <3>1. /\ pc' = "idle" /\ versions' = SubSeq(versions, 1, job.target) /\ UNCHANGED <<record, logs>>
      BY <1>5, <2>2 DEF Unwound
    <3>2. /\ job.target \in 1 .. Len(versions) /\ versions \in Seq(Contents) /\ Len(versions) \in Nat
          /\ Len(entries) = first - 1 /\ first = job.target
          /\ entries \in Seq(Entries) /\ \A i \in DOMAIN entries : entries[i].step = i
      BY <2>1, <2>2 DEF FilesIInv, TypeOK, Handlers, Queues, Unwinds, first
    <3>3. Len(versions') = job.target /\ \A i \in 1 .. job.target : versions'[i] = versions[i]
      BY <3>1, <3>2
    <3>4. logs = ToSet(entries) \cup ToSet(todo) /\ Chained(logs, versions) /\ ToSet(todo) = {}
      BY <1>0, <2>1 DEF ToSet
    <3>5. \A x \in logs : x.step \in 1 .. job.target
      <4>1. \A i \in DOMAIN entries : i \in 1 .. job.target
        BY <3>2
      <4> QED BY <3>2, <3>4, <4>1 DEF ToSet
    <3>6. \A x \in logs : x.step \in 1 .. Len(versions') /\ versions'[x.step] = versions[x.step]
      BY <3>3, <3>5
    <3>7. Chained(logs, versions')
      BY <3>4, <3>6, ChainKept
    <3> QED BY <2>1, <3>1, <3>4, <3>7
  <2>3. CASE job.why # "rewind"
    <3>1. job.clean
      BY <1>0, <2>1 DEF FilesIInv, Handlers, Clean
    <3>2. record' = "closed"
      BY <1>5, <2>3, <3>1 DEF Unwound
    <3> QED BY <3>2
  <2> QED BY <2>2, <2>3
<1>6. CASE Commit
  BY <1>6 DEF Commit
<1>7. CASE Halting
  <2>1. pc' \in {"down", "stuck"} /\ versions' = versions
    BY <1>7, Halts
  <2>2. UNCHANGED <<record, logs>> \/ record' \in {"closed", "committed"}
    BY <1>7, Halts
  <2> QED BY <1>0, <2>1, <2>2
<1>8. CASE Restart
  <2>1. pc = "down" /\ entries = <<>> /\ UNCHANGED <<record, logs, entries, versions>>
    BY <1>8 DEF Restart, FilesIInv, Queues, Lives
  <2>2. CASE record = "open"
    <3>1. pc' = "undo" /\ todo' = Sorted(logs)
      BY <1>8, <2>2 DEF Restart
    <3>2. ToSet(Sorted(logs)) = logs
      BY Recovery DEF FilesIInv, TypeOK, Numbered
    <3>3. ToSet(entries) = {}
      BY <2>1 DEF ToSet
    <3> QED BY <1>0, <2>1, <2>2, <3>1, <3>2, <3>3
  <2>3. CASE record # "open"
    BY <2>1, <2>3
  <2> QED BY <2>2, <2>3
<1>9. CASE UNCHANGED vars
  BY <1>0, <1>9 DEF vars
<1>10. CASE Failing
  <2>1. /\ pc \in {"record", "undo"} /\ record = "open" /\ todo = <<>> /\ pc' = "undo" /\ logs' = logs
        /\ ToSet(entries') \cup ToSet(todo') = ToSet(entries) /\ versions' = versions
    BY <1>10, Fails
  <2>2. ToSet(todo) = {}
    BY <2>1 DEF ToSet
  <2> QED BY <1>0, <2>1, <2>2
<1> QED BY <1>1, <1>2, <1>3, <1>4, <1>5, <1>6, <1>7, <1>8, <1>9, <1>10, StepCases

(* Every step keeps the file at what the last surviving step wrote, and a  *)
(* write under way at what it is to write.                                 *)
LEMMA StepForward == ASSUME FilesIInv, [Next]_vars PROVE Forward'
<1> USE DEF disk, ledger, tool, unwind, history, Running
<1> SUFFICES ASSUME Clean'
             PROVE  /\ (pc \in {"idle", "write", "rename"} \/ (pc = "record" /\ prior = <<>>)
                          => file = Last(versions))'
                    /\ \A i \in DOMAIN prior' : prior'[i] = Last(versions')
                    /\ pc' = "rename" => tmp' = runs'
                    /\ pc' = "record" /\ ok' => file' = runs'
                    /\ record' = "committed" => file' = Last(versions')
  BY DEF Forward
<1>0. /\ pc \in {"idle", "write", "rename"} \/ (pc = "record" /\ prior = <<>>) => file = Last(versions)
      /\ \A i \in DOMAIN prior : prior[i] = Last(versions)
      /\ pc = "rename" => tmp = runs
      /\ pc = "record" /\ ok => file = runs
      /\ record = "committed" => file = Last(versions)
      /\ Clean /\ ~spoiled' /\ ~skipped'
      /\ DOMAIN <<>> = {}
  <2>1. Clean /\ ~spoiled' /\ ~skipped' /\ DOMAIN <<>> = {}
    BY CleanBefore DEF Clean
  <2> QED BY <2>1 DEF FilesIInv, Forward
<1>a. /\ Handlers /\ Flying
      /\ pc \notin {"gone", "down", "stuck"} => record = "open"
  <2>1. pc \in {"idle", "write", "rename", "record", "undo", "undoRename", "gone", "down", "stuck"}
    BY DEF FilesIInv, TypeOK
  <2> QED BY <2>1 DEF FilesIInv, Handlers
<1>1. CASE Read
  <2>1. /\ pc = "idle" /\ record = "open" /\ runs' = runs + 1 /\ ok' = FALSE
        /\ (pc' = "write" /\ prior' = <<file>>) \/ (pc' = "record" /\ prior' = <<>>)
        /\ UNCHANGED <<file, tmp, record, versions>>
    BY <1>1 DEF Read, Ready
  <2>2. \A i \in DOMAIN prior' : prior'[i] = file
    BY <1>0, <2>1
  <2> QED BY <1>0, <2>1, <2>2
<1>2. CASE Write
  <2>1. /\ pc = "write" /\ record = "open" /\ prior # <<>> /\ ~ok
        /\ (pc' = "rename" /\ (tmp' = runs \/ spoiled')) \/ pc' = "record"
        /\ UNCHANGED <<file, record, ok, prior, runs, versions>>
    BY <1>a, <1>2 DEF Write, WriteTmp, Handlers
  <2> QED BY <1>0, <2>1
<1>3. CASE Rename
  <2>1. /\ pc = "rename" /\ record = "open" /\ prior # <<>> /\ ~ok /\ pc' = "record"
        /\ (file' = tmp /\ ok') \/ (file' = file /\ UNCHANGED ok)
        /\ UNCHANGED <<record, prior, runs, versions>>
    BY <1>a, <1>3 DEF Rename, RenameTmp, Handlers
  <2> QED BY <1>0, <2>1
<1>4. CASE Timeout
  <2>1. /\ pc \in {"write", "rename"} /\ record = "open" /\ prior # <<>> /\ ~ok /\ pc' = "record"
        /\ UNCHANGED <<file, record, ok, prior, runs, versions>>
    BY <1>a, <1>4 DEF Timeout, Handlers
  <2> QED BY <1>0, <2>1
<1>5. CASE Late
  <2>1. UNCHANGED <<record, ok, prior, pc, todo, runs, versions>>
    BY <1>5, Lates
  <2>2. CASE file' = file /\ pc \notin {"rename", "undoRename"}
    BY <1>0, <2>1, <2>2
  <2>3. CASE UNCHANGED <<file, tmp>>
    BY <1>0, <2>1, <2>3
  <2>4. CASE BeforeUndo
    <3>1. pc = "undo" \/ (pc = "record" /\ prior # <<>> /\ ~ok)
      BY <1>a, <2>4 DEF BeforeUndo, Flying
    <3> QED BY <1>0, <1>a, <2>1, <3>1
  <2> QED BY <1>0, <1>5, <2>2, <2>3, <2>4, Lates
<1>6. CASE Succeeds
  <2>1. /\ pc = "record" /\ ok /\ pc' = "idle" /\ prior' = <<>> /\ record = "open"
        /\ Last(versions') = runs /\ UNCHANGED <<file, record>>
    BY <1>6, Counts
  <2> QED BY <1>0, <2>1
<1>7. CASE Turning
  <2>1. pc' = "undo" /\ prior' = <<>> /\ record = "open" /\ record' = record
    BY <1>7, Turns
  <2> QED BY <1>0, <2>1
<1>8. CASE Undoing
  <2>1. /\ pc \in {"undo", "undoRename"} /\ pc' \in {"undo", "undoRename"} /\ record = "open"
        /\ UNCHANGED <<record, prior>>
    BY <1>8, UndoingFacts
  <2>2. prior = <<>>
    BY <1>a, <2>1 DEF Handlers
  <2> QED BY <1>0, <2>1, <2>2
<1>9. CASE Unwound
  <2>1. /\ pc = "undo" /\ todo = <<>> /\ record = "open" /\ prior' = <<>> /\ file' = file
    BY <1>a, <1>9 DEF Unwound, Handlers
  <2>2. CASE job.why = "rewind"
    <3>1. /\ pc' = "idle" /\ versions' = SubSeq(versions, 1, job.target) /\ record' = record
      BY <1>9, <2>2 DEF Unwound
    <3>2. job.target \in 1 .. Len(versions) /\ versions \in Seq(Contents) /\ first = job.target
      BY <2>1, <2>2 DEF FilesIInv, TypeOK, Handlers, first
    <3>3. Len(versions') = job.target /\ versions'[job.target] = versions[job.target]
      BY <3>1, <3>2
    <3>4. file = versions[first]
      BY <1>0, <2>1 DEF FilesIInv, Back
    <3> QED BY <1>0, <2>1, <3>1, <3>2, <3>3, <3>4 DEF Last
  <2>3. CASE job.why # "rewind"
    <3>1. pc' = "gone" /\ (record' = "closed" \/ record' = record)
      BY <1>9, <2>3 DEF Unwound
    <3> QED BY <1>0, <2>1, <3>1
  <2> QED BY <2>2, <2>3
<1>10. CASE Commit
  <2>1. pc = "idle" /\ pc' = "gone" /\ UNCHANGED <<file, prior, versions>>
    BY <1>10 DEF Commit, Ready
  <2> QED BY <1>0, <2>1
<1>11. CASE Halting
  <2>1. /\ pc' \in {"down", "stuck"} /\ prior' = <<>> /\ versions' = versions
        /\ file' = file \/ pc \in {"undo", "undoRename"}
        /\ record' = record \/ record' = "closed" \/ (pc = "idle" /\ file' = file)
    BY <1>11, Halts
  <2> QED BY <1>0, <1>a, <2>1
<1>12. CASE Restart
  <2>1. pc' \in {"undo", "gone"} /\ UNCHANGED <<file, record, prior, versions>>
    BY <1>12 DEF Restart
  <2> QED BY <1>0, <2>1
<1>13. CASE UNCHANGED vars
  BY <1>0, <1>13 DEF vars
<1>14. CASE Failing
  <2>1. pc' = "undo" /\ prior' = <<>> /\ record = "open" /\ record' = record
    BY <1>14, Fails
  <2> QED BY <1>0, <2>1
<1> QED BY <1>1, <1>2, <1>3, <1>4, <1>5, <1>6, <1>7, <1>8, <1>9, <1>10, <1>11, <1>12, <1>13, <1>14, StepCases

(* The last undo action of a compensation is of the step it goes back to.  *)
LEMMA LastUndone ==
  ASSUME FilesIInv, Clean, pc \in {"undo", "undoRename"}, todo # <<>>, Front(todo) = <<>>
  PROVE  Last(todo).prior = versions[first]
<1>1. /\ todo \in Seq(Entries) /\ Queues /\ Handlers /\ record = "open"
      /\ Chained(logs, versions) /\ logs = ToSet(entries) \cup ToSet(todo)
  BY DEF FilesIInv, TypeOK, Handlers, Whole, Halted
<1>2. Len(todo) = 1 /\ Last(todo) = todo[1] /\ 1 \in DOMAIN todo /\ ToSet(todo) = {Last(todo)}
  <2>1. /\ Len(todo) \in Nat \ {0} /\ Len(Front(todo)) = Len(todo) - 1 /\ Last(todo) = todo[Len(todo)]
        /\ ToSet(todo) = ToSet(Front(todo)) \cup {Last(todo)}
    BY <1>1, Fronts
  <2>2. Len(Front(todo)) = 0 /\ ToSet(Front(todo)) = {}
    BY DEF ToSet
  <2>3. Len(todo) = 1
    BY <2>1, <2>2
  <2> QED BY <1>1, <2>1, <2>2, <2>3
<1>3. Last(todo).step \in Nat \ {0} /\ Last(todo).prior = versions[Last(todo).step]
  <2>1. Last(todo) \in logs /\ Last(todo) \in Entries
    BY <1>1, <1>2
  <2>2. Last(todo).step \in Nat \ {0}
    BY <2>1, Bounds
  <2> QED BY <1>1, <2>1, <2>2 DEF Chained
<1>4. CASE Recovers
  <2>1. logs = {Last(todo)} /\ first = 1
    BY <1>1, <1>2, <1>4 DEF Queues, Lives, Handlers, Recovers, first, ToSet
  <2>2. Last(todo).step = 1
    <3> SUFFICES ASSUME Last(todo).step # 1 PROVE FALSE
      OBVIOUS
    <3>1. 1 \in 1 .. Last(todo).step - 1
      BY <1>3
    <3>2. \E y \in logs : y.step = 1
      BY <1>1, <2>1, <3>1 DEF Chained
    <3> QED BY <2>1, <3>2
  <2> QED BY <1>3, <2>1, <2>2
<1>5. CASE ~Recovers
  <2>1. Last(todo).step = first - 1 + 1 /\ first \in Nat
    <3>1. Unwinds
      BY <1>5 DEF Unwinds, Recovers
    <3>2. first \in Nat
      BY DEF first, FilesIInv, TypeOK
    <3> QED BY <1>1, <1>2, <3>1, <3>2 DEF Queues
  <2>2. Last(todo).step = first
    BY <2>1
  <2> QED BY <1>3, <2>2
<1> QED BY <1>4, <1>5

(* An open transaction without records has not changed the file, but for a *)
(* write whose step is yet to finish.                                      *)
LEMMA NothingRecorded ==
  ASSUME FilesIInv, Clean, record = "open", logs = {}, pc = "record" /\ prior # <<>> => file = Last(versions)
  PROVE  file = versions[1]
<1>1. /\ pc \in {"idle", "write", "rename", "record", "undo", "undoRename", "gone", "down", "stuck"}
      /\ entries \in Seq(Entries) /\ todo \in Seq(Entries) /\ Handlers
  BY DEF FilesIInv, TypeOK
<1>2. CASE Halted
  BY <1>2 DEF FilesIInv, Back
<1>3. ASSUME ~Halted
      PROVE  pc # "gone" /\ entries = <<>> /\ todo = <<>> /\ Len(entries) = 0
  <2>1. pc # "gone" /\ ToSet(entries) = {} /\ ToSet(todo) = {}
    BY <1>3 DEF FilesIInv, Whole
  <2>2. DOMAIN entries = {} /\ DOMAIN todo = {}
    BY <2>1 DEF ToSet
  <2> QED BY <1>1, <2>1, <2>2
<1>4. CASE pc \in {"idle", "write", "rename", "record"}
  <2>0. ~Halted
    BY <1>4 DEF Halted
  <2>1. Len(entries) = Len(versions) - 1 /\ Len(versions) \in Nat
    BY <1>1, <1>4 DEF Handlers, Running, FilesIInv, TypeOK
  <2>2. Len(versions) = 1
    BY <1>3, <2>0, <2>1
  <2>3. file = Last(versions)
    BY <1>4 DEF FilesIInv, Forward
  <2> QED BY <2>2, <2>3 DEF Last
<1>5. CASE pc \in {"undo", "undoRename"}
  <2>1. pc = "undo" /\ todo = <<>> /\ entries = <<>> /\ Len(entries) = 0
    BY <1>1, <1>3, <1>5 DEF Handlers, Halted
  <2>2. first = 1
    <3>1. CASE job.why = "rewind"
      <4>1. Len(entries) = first - 1 /\ first \in Nat
        BY <1>5, <3>1 DEF FilesIInv, TypeOK, Queues, Unwinds, first
      <4> QED BY <2>1, <4>1
    <3>2. CASE job.why # "rewind"
      BY <1>1, <1>5, <3>2 DEF Handlers, first
    <3> QED BY <3>1, <3>2
  <2> QED BY <2>1, <2>2 DEF FilesIInv, Back
<1> QED BY <1>1, <1>2, <1>3, <1>4, <1>5 DEF Halted

(* Every step keeps the way back: when all is undone, the file is what it  *)
(* was before the step to return to.                                       *)
LEMMA StepBack == ASSUME FilesIInv, [Next]_vars PROVE Back'
<1> USE DEF disk, ledger, tool, unwind, history, Running, Halted
<1> SUFFICES ASSUME Clean'
             PROVE  /\ (pc = "undo" /\ todo = <<>> => file = versions[first])'
                    /\ (pc = "undoRename" => tmp = Last(todo).prior)'
                    /\ Halted' /\ record' = "open" /\ logs' = {} => file' = versions'[1]
                    /\ record' = "closed" => file' = versions'[1]
  BY DEF Back
<1>0. /\ pc = "undo" /\ todo = <<>> => file = versions[first]
      /\ pc = "undoRename" => tmp = Last(todo).prior
      /\ Halted /\ record = "open" /\ logs = {} => file = versions[1]
      /\ record = "closed" => file = versions[1]
      /\ Clean /\ ~spoiled' /\ ~skipped'
  <2>1. Clean /\ ~spoiled' /\ ~skipped'
    BY CleanBefore DEF Clean
  <2> QED BY <2>1 DEF FilesIInv, Back
<1>a. /\ Handlers /\ Flying
      /\ pc \notin {"gone", "down", "stuck"} => record = "open"
  <2>1. pc \in {"idle", "write", "rename", "record", "undo", "undoRename", "gone", "down", "stuck"}
    BY DEF FilesIInv, TypeOK
  <2> QED BY <2>1 DEF FilesIInv, Handlers
<1>1. CASE Read \/ Write \/ Rename \/ Timeout
  <2>1. /\ pc \in {"idle", "write", "rename"} /\ pc' \in {"write", "rename", "record"} /\ record' = record
    BY <1>1 DEF Read, Ready, Write, WriteTmp, Rename, RenameTmp, Timeout
  <2> QED BY <1>a, <2>1
<1>2. CASE Late
  <2>1. UNCHANGED <<record, logs, job, pc, todo, versions>> /\ first' = first
    BY <1>2, Lates DEF first
  <2>2. CASE file' = file /\ pc \notin {"rename", "undoRename"}
    BY <1>0, <2>1, <2>2
  <2>3. CASE UNCHANGED <<file, tmp>>
    BY <1>0, <2>1, <2>3
  <2>4. CASE BeforeUndo
    <3>1. (pc = "undo" /\ todo # <<>>) \/ pc = "record"
      BY <2>4 DEF BeforeUndo
    <3> QED BY <1>a, <2>1, <3>1
  <2> QED BY <1>0, <1>2, <2>2, <2>3, <2>4, Lates
<1>3. CASE Succeeds
  <2>1. pc' = "idle" /\ record' = "open"
    BY <1>3, Counts
  <2> QED BY <2>1
<1>4. CASE Turning
  <2>1. /\ pc = "idle" \/ pc = "record"
        /\ pc' = "undo" /\ record' = "open"
        /\ first' \in 1 .. Len(versions) /\ first' <= Len(Ledger) + 1
        /\ Len(todo') = Len(Ledger) + 1 - first'
        /\ UNCHANGED <<file, history>>
    BY <1>4, Turns
  <2>2. /\ Len(Ledger) = IF pc = "record" /\ prior # <<>> THEN Len(versions) ELSE Len(versions) - 1
        /\ Len(versions) \in Nat \ {0}
    BY <2>1, Ledgers
  <2>3. ASSUME todo' = <<>> PROVE file = versions[first']
    <3>1. Len(Ledger) + 1 - first' = 0
      BY <2>1, <2>3
    <3>2. \A n \in 1 .. Len(versions) :
            Len(Ledger) + 1 - n = 0 => n = Len(versions) /\ ~(pc = "record" /\ prior # <<>>)
      BY <2>2
    <3>3. first' = Len(versions) /\ ~(pc = "record" /\ prior # <<>>)
      BY <2>1, <3>1, <3>2
    <3>4. file = Last(versions)
      BY <1>0, <2>1, <3>3 DEF FilesIInv, Forward
    <3> QED BY <3>3, <3>4 DEF Last
  <2> QED BY <2>1, <2>3
<1>5. CASE Undoing
  <2>1. /\ pc \in {"undo", "undoRename"} /\ pc' \in {"undo", "undoRename"} /\ record = "open"
        /\ todo # <<>> /\ first' = first /\ UNCHANGED <<record, versions>>
    BY <1>5, UndoingFacts
  <2>2. CASE Undone \/ Failed
    <3>1. pc' = "undo" /\ (Failed => todo' = todo) /\ (todo' = todo \/ todo' = Front(todo))
      BY <1>0, <2>1, <2>2, Settles
    <3>2. ASSUME todo' = <<>> PROVE file' = versions[first]
      <4>1. ~Failed /\ Front(todo) = <<>>
        BY <2>1, <3>1, <3>2
      <4>2. file' = Last(todo).prior
        BY <1>0, <1>5, <3>1, <4>1, Undoes DEF Undoing
      <4>3. Last(todo).prior = versions[first]
        BY <1>0, <2>1, <4>1, LastUndone
      <4> QED BY <4>2, <4>3
    <3> QED BY <2>1, <3>1, <3>2
  <2>3. CASE ~(Undone \/ Failed)
    <3>1. pc' = "undoRename" /\ UNCHANGED todo /\ tmp' = Last(todo).prior
      BY <1>0, <1>5, <2>3, Undoes DEF Undoing
    <3> QED BY <2>1, <3>1
  <2> QED BY <2>2, <2>3
<1>6. CASE Unwound
  <2>1. /\ pc = "undo" /\ todo = <<>> /\ record = "open" /\ file' = file /\ pc' \in {"idle", "gone"}
        /\ (job.why # "rewind" => job.target = 0)
        /\ (record' # record => job.why # "rewind" /\ versions' = versions)
    BY <1>a, <1>6 DEF Unwound, Handlers
  <2>2. job.why # "rewind" => first = 1
    BY <2>1 DEF first
  <2> QED BY <1>0, <2>1, <2>2
<1>7. CASE Commit
  BY <1>7 DEF Commit
<1>8. CASE Halting
  <2>1. pc' \in {"down", "stuck"} /\ versions' = versions
    BY <1>8, Halts
  <2>2. pc = "record" /\ prior # <<>> => file = Last(versions)
    BY <1>0, <1>8, Halts
  <2>3. CASE UNCHANGED <<record, logs>>
    <3>1. ASSUME record = "open", logs = {} PROVE file' = versions[1]
      <4>1. file = versions[1]
        BY <1>0, <2>2, <3>1, NothingRecorded
      <4>2. pc \in {"undo", "undoRename"} => todo = <<>>
        <5>1. pc \in {"undo", "undoRename"} => ToSet(todo) = {}
          BY <1>0, <3>1 DEF FilesIInv, Whole
        <5>2. ToSet(todo) = {} => DOMAIN todo = {}
          BY DEF ToSet
        <5>3. todo \in Seq(Entries)
          BY DEF FilesIInv, TypeOK
        <5> QED BY <5>1, <5>2, <5>3
      <4>3. file' = file
        BY <1>8, <4>2, Halts
      <4> QED BY <4>1, <4>3
    <3>2. record = "closed" => file' = file
      <4>1. file' = file \/ pc \in {"undo", "undoRename"}
        BY <1>8, Halts
      <4> QED BY <1>a, <4>1
    <3> QED BY <1>0, <2>1, <2>3, <3>1, <3>2
  <2>4. CASE ~UNCHANGED <<record, logs>>
    <3>1. /\ UNCHANGED file
          /\ \/ record' = "closed" /\ pc = "undo" /\ todo = <<>> /\ first = 1
             \/ record' = "committed"
      BY <1>8, <2>4, Halts
    <3> QED BY <1>0, <2>1, <3>1
  <2> QED BY <2>3, <2>4
<1>9. CASE Restart
  <2>1. pc = "down" /\ UNCHANGED <<file, record, logs, versions>>
    BY <1>9 DEF Restart
  <2>2. CASE record = "open"
    <3>1. /\ pc' = "undo" /\ todo' = Sorted(logs)
          /\ job' = [why |-> "recover", target |-> 0, clean |-> TRUE]
      BY <1>9, <2>2 DEF Restart
    <3>2. ToSet(Sorted(logs)) = logs
      BY Recovery DEF FilesIInv, TypeOK, Numbered
    <3>3. todo' = <<>> => logs = {}
      BY <3>1, <3>2 DEF ToSet
    <3>4. first' = 1
      BY <3>1 DEF first
    <3> QED BY <1>0, <2>1, <2>2, <3>1, <3>3, <3>4
  <2>3. CASE record # "open"
    <3>1. pc' = "gone"
      BY <1>9, <2>3 DEF Restart
    <3> QED BY <1>0, <2>1, <3>1
  <2> QED BY <2>2, <2>3
<1>10. CASE UNCHANGED vars
  BY <1>0, <1>10 DEF vars, first
<1>11. CASE Failing
  <2>1. /\ pc' = "undo" /\ record = "open" /\ UNCHANGED <<file, record, versions>>
        /\ todo' = <<>> => file = versions[first']
    BY <1>0, <1>11, Fails
  <2> QED BY <2>1
<1> QED BY <1>1, <1>2, <1>3, <1>4, <1>5, <1>6, <1>7, <1>8, <1>9, <1>10, <1>11, StepCases
-----------------------------------------------------------------------------
(* It all holds when the transaction begins. *)
LEMMA InitFiles == Init => FilesIInv
<1> SUFFICES ASSUME Init PROVE FilesIInv
  OBVIOUS
<1>1. /\ MaxRuns \in Nat /\ MaxAttempts \in Nat \ {0} /\ MaxCrashes \in Nat /\ Torn \notin Bases
      /\ Bases \subseteq Contents /\ Absent \in Contents /\ DOMAIN <<>> = {} /\ ToSet(<<>>) = {}
      /\ IsFiniteSet({})
  BY Bounds, FS_EmptySet DEF Contents, ToSet
<1>2. /\ versions = <<file>> /\ Len(versions) = 1 /\ Last(versions) = file /\ versions \in Seq(Contents)
  BY <1>1 DEF Init, Last
<1>3. TypeOK
  <2>1. /\ {file, tmp} \subseteq Contents /\ logs = {} /\ entries = <<>> /\ todo = <<>> /\ prior = <<>>
        /\ record = "open" /\ pc = "idle" /\ ok = FALSE /\ tries = 0 /\ seq = 0 /\ runs = 0 /\ crashes = 0
        /\ spoiled = FALSE /\ skipped = FALSE /\ job.target = 0 /\ job.clean = TRUE
        /\ flight.op = "none" /\ flight.bytes = 0
    BY <1>1 DEF Init, Nothing
  <2>2. 0 \in 0 .. MaxRuns /\ 0 \in 0 .. MaxCrashes /\ 0 \in 0 .. MaxAttempts - 1 /\ <<>> \in Seq(Entries)
    BY <1>1
  <2> QED BY <1>2, <2>1, <2>2 DEF TypeOK
<1>4. Handlers /\ Queues /\ Numbered /\ Flying
  BY <1>1, <1>2 DEF Init, Handlers, Queues, InOrder, Numbered, Flying, Running, Halted, Lives, Unwinds, Recovers
<1>5. Untorn /\ Whole /\ Forward /\ Back
  BY <1>1, <1>2 DEF Init, Untorn, Whole, Chained, Forward, Back, BeforeUndo, Nothing
<1> QED BY <1>3, <1>4, <1>5 DEF FilesIInv

(* And each part after each step. *)
LEMMA AlwaysFiles == Spec => []FilesIInv
<1>1. FilesIInv /\ [Next]_vars => FilesIInv'
  BY StepTyped, StepHandlers, StepQueues, StepNumbered, StepFlying, StepUntorn, StepWhole, StepForward,
     StepBack DEF FilesIInv
<1> QED BY InitFiles, <1>1, PTL DEF Spec

(* FsWrite and FileRestoreUndo through write_atomically: whatever fails,   *)
(* stops half way or is tried again, whoever reads the path sees whole     *)
(* contents, unless two writes of the temporary file overlap.              *)
THEOREM FilesNeverTorn == Spec => []NeverTorn
<1>1. FilesIInv => NeverTorn
  BY DEF FilesIInv, TypeOK, Untorn, NeverTorn
<1> QED BY AlwaysFiles, <1>1, PTL

(* fs.write under the saga ledger: between two calls and after a commit    *)
(* the file holds what the last surviving step wrote, after an abort or a  *)
(* recovery what it held before the transaction, and at every moment the   *)
(* oldest record on disk has those bytes, also where a rewind, an abort or *)
(* a start fails for want of storage or a client goes away; unless an undo *)
(* action was lost before it was on disk (crash, dropped handler, failing  *)
(* saga.record), an operation outlived its timeout or its client, or a     *)
(* record stayed that should have gone.                                    *)
THEOREM FilesCoherent == Spec => []FilesInv
<1>1. ASSUME FilesIInv PROVE FileMatchesSteps
  BY <1>1 DEF FilesIInv, Forward, Back, Clean, FileMatchesSteps, Ready
<1>2. ASSUME FilesIInv PROVE LeadsBack
  <2> SUFFICES ASSUME record = "open", ~spoiled, ~skipped
               PROVE  /\ \A x \in logs : (\A y \in logs \ {x} : Earlier(x, y)) => x.prior = versions[1]
                      /\ logs = {} /\ pc # "record" => file = versions[1]
    BY DEF LeadsBack
  <2>1. Chained(logs, versions) /\ Clean
    BY <1>2 DEF FilesIInv, Whole, Clean
  <2>2. ASSUME NEW x \in logs, \A y \in logs \ {x} : Earlier(x, y) PROVE x.prior = versions[1]
    <3>1. /\ x.step \in Nat \ {0} /\ x.prior = versions[x.step]
          /\ \A y \in logs : y.step \in Nat
      BY <1>2, <2>1, Bounds DEF Chained, FilesIInv, TypeOK
    <3>2. x.step = 1
      <4> SUFFICES ASSUME x.step # 1 PROVE FALSE
        OBVIOUS
      <4>1. 1 \in 1 .. x.step - 1
        BY <3>1
      <4>2. PICK y \in logs : y.step = 1
        BY <2>1, <4>1 DEF Chained
      <4>3. y # x /\ Earlier(x, y)
        BY <2>2, <4>2
      <4> QED BY <3>1, <4>2, <4>3 DEF Earlier
    <3> QED BY <3>1, <3>2
  <2>3. logs = {} /\ pc # "record" => file = versions[1]
    BY <1>2, <2>1, NothingRecorded
  <2> QED BY <2>2, <2>3
<1>3. FilesIInv => FilesInv
  BY <1>1, <1>2 DEF FilesInv, FilesIInv
<1> QED BY AlwaysFiles, <1>3, PTL
-----------------------------------------------------------------------------
(* Recovery.  A rename of undo is only of bytes that were there; and a     *)
(* record is skipped only where a delete or the disk fails, or where an    *)
(* overlapping write took the temporary file away.                         *)
Restores  == pc = "undoRename" => Last(todo).prior # Absent
NoneSkips == ~spoiled => ~skipped

(* Only an undo with bytes to write back goes on to the rename. *)
LEMMA StepRestores == ASSUME FilesIInv, Restores, [Next]_vars PROVE Restores'
<1> USE DEF disk, ledger, tool, unwind, history, Restores
<1>1. CASE Read \/ Write \/ Rename \/ Timeout \/ Unwound \/ Commit \/ Halting \/ Restart
  <2>1. pc' # "undoRename"
    BY <1>1, Halts DEF Read, Write, WriteTmp, Rename, Timeout, Unwound, Commit, Restart, FilesIInv, TypeOK
  <2> QED BY <2>1
<1>2. CASE Late \/ UNCHANGED vars
  <2>1. UNCHANGED <<pc, todo>>
    BY <1>2, Lates DEF vars
  <2> QED BY <2>1
<1>3. CASE Succeeds \/ Turning \/ Failing
  <2>1. pc' # "undoRename"
    BY <1>3, Counts, Turns, Fails
  <2> QED BY <2>1
<1>4. CASE Undoing
  <2>1. CASE Undo
    <3>1. CASE Last(todo).prior = Absent
      BY <2>1, <3>1 DEF Undo, Undone, Failed
    <3>2. CASE Last(todo).prior # Absent
      <4>1. pc' = "undo" \/ UNCHANGED todo
        BY <2>1, <3>2 DEF Undo, WriteTmp, Failed
      <4> QED BY <3>2, <4>1
    <3> QED BY <3>1, <3>2
  <2>2. CASE UndoRename
    BY <2>2 DEF UndoRename, Undone, Failed
  <2> QED BY <1>4, <2>1, <2>2 DEF Undoing
<1> QED BY <1>1, <1>2, <1>3, <1>4, StepCases

(* While files and record deletions do as told, no record is skipped.      *)
LEMMA StepNoneSkips ==
  ASSUME FilesIInv, Restores, NoneSkips, [Next]_vars, "io" \notin Faults, "delete" \notin Faults
  PROVE  NoneSkips'
<1> USE DEF disk, ledger, tool, unwind, history
<1>1. SUFFICES ASSUME ~spoiled', skipped' PROVE FALSE
  BY DEF NoneSkips
<1>2. ~spoiled /\ ~skipped /\ skipped' # skipped
  BY <1>1, Noted DEF NoneSkips
<1>3. CASE Read \/ Write \/ Rename \/ Timeout \/ Late \/ Unwound \/ Commit \/ Halting \/ Restart
  BY <1>2, <1>3, Lates, Halts DEF Read, Write, Rename, Timeout, Unwound, Commit, Restart
<1>4. CASE Succeeds \/ Turning \/ Failing \/ UNCHANGED vars
  BY <1>2, <1>4, Counts, Turns, Fails DEF vars
<1>5. CASE Undo
  BY <1>2, <1>5 DEF Undo, Undone, IoError
<1>6. CASE UndoRename
  <2>1. tmp = Last(todo).prior /\ tmp # Absent
    BY <1>2, <1>6 DEF UndoRename, FilesIInv, Back, Clean, Restores
  <2> QED BY <1>2, <1>6, <2>1 DEF UndoRename, Undone, IoError
<1> QED BY <1>3, <1>4, <1>5, <1>6, StepCases DEF Undoing

(* SagaLedger::recover: a recovery that went through without a failure has *)
(* brought back what the file held before the transaction, unless a record *)
(* stayed while older ones were to go, or the file was left to a write     *)
(* that no record undoes (an undo action lost before it was on disk, or an *)
(* operation that came late).                                              *)
THEOREM FilesRecovered == Spec => [](~skipped => CleanRecoveryRestores)
<1>1. FilesIInv => (~skipped => CleanRecoveryRestores)
  BY DEF FilesIInv, Handlers, Back, Clean, first, CleanRecoveryRestores
<1> QED BY AlwaysFiles, <1>1, PTL

(* The documented promise of FileRestoreUndo, kept by every transaction    *)
(* whose file operations and record deletions do not fail, whatever times  *)
(* out, crashes, is dropped or fails of the rest of the storage; but for   *)
(* the writes no record undoes, which the property exempts.                *)
THEOREM FilesRestored ==
  ASSUME "io" \notin Faults, "delete" \notin Faults
  PROVE  Spec => []CleanRecoveryRestores
<1>1. Init => Restores /\ NoneSkips
  BY DEF Init, Restores, NoneSkips
<1>2. FilesIInv /\ Restores /\ NoneSkips /\ [Next]_vars => Restores' /\ NoneSkips'
  BY StepRestores, StepNoneSkips
<1>3. NoneSkips /\ (~skipped => CleanRecoveryRestores) => CleanRecoveryRestores
  BY DEF NoneSkips, CleanRecoveryRestores
<1> QED BY <1>1, <1>2, <1>3, AlwaysFiles, FilesRecovered, PTL DEF Spec
=============================================================================
