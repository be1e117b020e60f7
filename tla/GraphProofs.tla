----------------------------- MODULE GraphProofs -----------------------------
(***************************************************************************)
(* The dependency graph describes the steps that are there, for any keys,  *)
(* values, documents and number of steps, driven by itself or by the       *)
(* failures that the error cleaner reads.                                  *)
(***************************************************************************)
EXTENDS Diagnosis, WellFoundedInduction, TLAPS

Document == SUBSET (Key \X Val)
Node     == [inputs : Document, outputs : Document]
Edge     == [from : 1 .. MaxStep, to : 1 .. MaxStep, source : Key, target : Key,
             kind : {"explicit", "implicit"}]

(* What the steps, and rewinds, keep of the graph itself. *)
GraphTyped == /\ nodes \in Seq(Node) /\ Last <= MaxStep /\ edges \subseteq Edge
              /\ pc \in {"idle", "runs", "fails", "search"} /\ (pc # "idle" => Last > 0)
Structure  == GraphTyped /\ EdgesDescribe

(* A non-empty set of naturals has a smallest element. *)
LEMMA LeastExists ==
  ASSUME NEW S \in SUBSET Nat, S # {}
  PROVE  \E n \in S : \A m \in S : n <= m
<1>1. PICK n \in S : \A m \in S : ~ (<<m, n>> \in OpToRel(<, Nat))
  BY NatLessThanWellFounded, WFMin, Zenon
<1>2. \A m \in S : ~ (m < n)
  BY <1>1, Zenon DEF OpToRel
<1> QED BY <1>2

(* Latest picks the largest element of a non-empty set of steps. *)
LEMMA LatestIsGreatest ==
  ASSUME NEW b \in Nat, NEW S \in SUBSET (1 .. b), S # {}
  PROVE  Latest(S) \in S /\ \A m \in S : m <= Latest(S)
<1> DEFINE Above == {n \in Nat : \A m \in S : m <= n}
<1>1. PICK n \in Above : \A m \in Above : n <= m
  <2>1. Above \in SUBSET Nat /\ b \in Above
    OBVIOUS
  <2> HIDE DEF Above
  <2> QED BY <2>1, LeastExists
<1>2. n \in S
  <2> SUFFICES ASSUME n \notin S PROVE FALSE
    OBVIOUS
  <2>1. n > 0
    BY <1>1, \E m \in S : m <= n /\ m # n
  <2> QED BY <2>1, <1>1, n - 1 \in Above
<1> QED BY <1>1, <1>2 DEF Latest

(* Earliest picks the smallest element of a non-empty set of steps. *)
LEMMA EarliestIsLeast ==
  ASSUME NEW S \in SUBSET (1 .. MaxStep), S # {}
  PROVE  Earliest(S) \in S /\ \A m \in S : Earliest(S) <= m
<1>1. S \in SUBSET Nat
  BY GraphAssumption
<1> QED BY <1>1, LeastExists DEF Earliest

(* It may be computed from part of the set and the smallest of the rest. *)
LEMMA EarliestJoins ==
  ASSUME NEW A \in SUBSET (1 .. MaxStep), NEW B \in SUBSET (1 .. MaxStep), A # {}, B # {}
  PROVE  Earliest(B \cup {Earliest(A)}) = Earliest(A \cup B)
<1> DEFINE a == Earliest(A)
           b == Earliest(B \cup {a})
           c == Earliest(A \cup B)
<1>1. a \in A /\ \A m \in A : a <= m
  BY EarliestIsLeast
<1>2. b \in B \cup {a} /\ \A m \in B \cup {a} : b <= m
  BY <1>1, EarliestIsLeast
<1>3. c \in A \cup B /\ \A m \in A \cup B : c <= m
  BY EarliestIsLeast
<1> HIDE DEF a, b, c
<1>4. MaxStep \in Nat
  BY GraphAssumption
<1>5. b <= c /\ c <= b /\ b \in Nat /\ c \in Nat
  BY <1>1, <1>2, <1>3, <1>4
<1>6. b = c
  BY <1>5
<1> QED BY <1>6 DEF a, b, c

(* An edge stays true while the data between its ends does. *)
LEMMA FlowKept ==
  ASSUME NEW e, Flows(e), e.from \in Nat, e.to \in Nat, e.from < e.to,
         nodes'[e.to].inputs = nodes[e.to].inputs,
         \A p \in e.from .. (e.to - 1) : nodes'[p].outputs = nodes[p].outputs
  PROVE  Flows(e)'
<1>1. PICK v \in Linkable :
        /\ <<e.target, v>> \in nodes[e.to].inputs
        /\ e.source \in Offers(e.from, <<e.target, v>>)
        /\ \A p \in (e.from + 1) .. (e.to - 1) : Offers(p, <<e.target, v>>) = {}
  BY DEF Flows
<1>2. \A p \in e.from .. (e.to - 1) : Offers(p, <<e.target, v>>)' = Offers(p, <<e.target, v>>)
  BY DEF Offers
<1> QED BY <1>1, <1>2 DEF Flows
-----------------------------------------------------------------------------
(* A new step: every edge leads to it from the latest step that offers the *)
(* value of the leaf.                                                      *)
LEMMA AddStepKeeps ==
  ASSUME Structure, NEW inputs \in Documents, NEW refs \in SUBSET References, AddStep(inputs, refs),
         pc' \in {"runs", "fails"}
  PROVE  Structure'
<1> USE DEF Structure, GraphTyped
<1>0. /\ Last \in Nat /\ Last < MaxStep /\ MaxStep \in Nat /\ inputs \in Document
      /\ DOMAIN nodes = 1 .. Last
  BY GraphAssumption DEF AddStep, Last, Document
<1>1. /\ Last' = Last + 1 /\ nodes' \in Seq(Node)
      /\ nodes'[Last + 1].inputs = inputs
      /\ \A p \in 1 .. Last : nodes'[p] = nodes[p]
  <2>1. [inputs |-> inputs, outputs |-> {}] \in Node
    BY <1>0 DEF Node, Document
  <2> QED BY <1>0, <2>1 DEF AddStep, Last
<1>2. PICK source \in [Linked(inputs, refs) -> Key] :
       /\ \A l \in DOMAIN source : source[l] \in Offers(Latest(Producers(l)), l)
       /\ edges' = edges
            \cup {[from |-> d.from, to |-> Last + 1, source |-> d.source,
                   target |-> d.target, kind |-> "explicit"] : d \in refs}
            \cup {[from |-> Latest(Producers(l)), to |-> Last + 1, source |-> source[l],
                   target |-> l[1], kind |-> "implicit"] : l \in DOMAIN source}
  BY DEF AddStep
<1>3. \A l \in Linked(inputs, refs) :
        /\ l \in inputs /\ l = <<l[1], l[2]>> /\ l[1] \in Key /\ l[2] \in Linkable
        /\ Latest(Producers(l)) \in 1 .. Last
        /\ \A p \in (Latest(Producers(l)) + 1) .. Last : Offers(p, l) = {}
  <2> TAKE l \in Linked(inputs, refs)
  <2>1. l \in inputs /\ l \in Key \X Val /\ l[2] \in Linkable /\ Producers(l) # {}
    BY <1>0 DEF Linked, Document
  <2>2. Producers(l) \in SUBSET (1 .. Last)
    BY DEF Producers
  <2>3. Latest(Producers(l)) \in Producers(l) /\ \A m \in Producers(l) : m <= Latest(Producers(l))
    BY <1>0, <2>1, <2>2, LatestIsGreatest
  <2>4. \A p \in (Latest(Producers(l)) + 1) .. Last : p \notin Producers(l) /\ p \in 1 .. Last
    BY <1>0, <2>2, <2>3
  <2>5. \A p \in (Latest(Producers(l)) + 1) .. Last : Offers(p, l) = {}
    BY <2>4 DEF Producers
  <2> QED BY <2>1, <2>2, <2>3, <2>5
<1>4. \A e \in edges : e \in Edge /\ e.from < e.to /\ e.to <= Last
                       /\ (e.kind = "implicit" => Flows(e)')
  <2> TAKE e \in edges
  <2>1. e \in Edge /\ e.from < e.to /\ e.to <= Last /\ e.from \in 1 .. Last /\ e.to \in 1 .. Last
    BY <1>0 DEF EdgesDescribe, Edge
  <2>2. ASSUME e.kind = "implicit" PROVE Flows(e)'
    <3>1. Flows(e)
      BY <2>2 DEF EdgesDescribe
    <3>2. /\ e.from \in Nat /\ e.to \in Nat /\ nodes'[e.to].inputs = nodes[e.to].inputs
          /\ \A p \in e.from .. (e.to - 1) : nodes'[p].outputs = nodes[p].outputs
      BY <1>0, <1>1, <2>1
    <3> QED BY <2>1, <3>1, <3>2, FlowKept
  <2> QED BY <2>1, <2>2
<1>5. \A e \in edges' \ edges : e \in Edge /\ e.from < e.to /\ e.to = Last + 1
                                /\ (e.kind = "implicit" => Flows(e)')
  <2> TAKE e \in edges' \ edges
  <2>1. CASE e \in {[from |-> d.from, to |-> Last + 1, source |-> d.source,
                     target |-> d.target, kind |-> "explicit"] : d \in refs}
    BY <1>0, <2>1 DEF References, Edge
  <2>2. CASE e \in {[from |-> Latest(Producers(l)), to |-> Last + 1, source |-> source[l],
                     target |-> l[1], kind |-> "implicit"] : l \in DOMAIN source}
    <3>1. PICK l \in Linked(inputs, refs) :
             e = [from |-> Latest(Producers(l)), to |-> Last + 1, source |-> source[l],
                  target |-> l[1], kind |-> "implicit"]
      BY <1>2, <2>2
    <3>2. e \in Edge /\ e.from < e.to /\ e.to = Last + 1 /\ e.from \in 1 .. Last
      BY <1>0, <1>2, <1>3, <3>1 DEF Edge
    <3>3. /\ e.source \in Offers(e.from, l) /\ <<e.target, l[2]>> = l
          /\ \A p \in (e.from + 1) .. (e.to - 1) : Offers(p, l) = {}
      <4>1. e.source = source[l] /\ e.from = Latest(Producers(l)) /\ e.target = l[1]
        BY <3>1
      <4>2. e.to - 1 = Last
        BY <1>0, <3>2
      <4> QED BY <1>2, <1>3, <4>1, <4>2
    <3>4. \A p \in 1 .. Last : Offers(p, l)' = Offers(p, l)
      BY <1>1 DEF Offers
    <3>5. <<e.target, l[2]>> \in nodes'[e.to].inputs
      BY <1>1, <1>3, <3>2, <3>3
    <3>6. /\ e.source \in Offers(e.from, <<e.target, l[2]>>)'
          /\ \A p \in (e.from + 1) .. (e.to - 1) : Offers(p, <<e.target, l[2]>>)' = {}
      BY <1>0, <3>2, <3>3, <3>4
    <3> QED BY <1>3, <3>2, <3>5, <3>6 DEF Flows
  <2> QED BY <1>2, <2>1, <2>2
<1>6. \A e \in edges' : e \in Edge /\ e.from < e.to /\ e.to <= Last + 1
                       /\ (e.kind = "implicit" => Flows(e)')
  <2> TAKE e \in edges'
  <2>1. CASE e \in edges
    BY <1>0, <1>4, <2>1 DEF Edge
  <2>2. CASE e \notin edges
    BY <1>0, <1>5, <2>2
  <2> QED BY <2>1, <2>2
<1>7. GraphTyped'
  BY <1>0, <1>1, <1>6
<1>8. EdgesDescribe'
  BY <1>1, <1>6 DEF EdgesDescribe
<1> QED BY <1>7, <1>8

(* An output is the last step's, which no edge starts from.                *)
LEMMA SucceedsKeeps ==
  ASSUME Structure, NEW outputs \in Documents, Succeeds(outputs)
  PROVE  Structure'
<1> USE DEF Structure, GraphTyped
<1>0. /\ Last \in Nat \ {0} /\ DOMAIN nodes = 1 .. Last /\ outputs \in Document
      /\ edges' = edges /\ pc' = "idle"
  BY GraphAssumption DEF Succeeds, Last, Document
<1>1. /\ nodes' \in Seq(Node) /\ Last' = Last
      /\ \A p \in 1 .. Last : nodes'[p].inputs = nodes[p].inputs
      /\ \A p \in 1 .. (Last - 1) : nodes'[p] = nodes[p]
  <2>1. nodes' = [nodes EXCEPT ![Last] = [nodes[Last] EXCEPT !.outputs = outputs]]
    BY DEF Succeeds
  <2>2. nodes[Last] \in Node
    BY <1>0
  <2>3. /\ [nodes[Last] EXCEPT !.outputs = outputs] \in Node
        /\ [nodes[Last] EXCEPT !.outputs = outputs].inputs = nodes[Last].inputs
    BY <1>0, <2>2 DEF Node
  <2> QED BY <1>0, <2>1, <2>2, <2>3 DEF Last
<1>2. \A e \in edges : e.kind = "implicit" => Flows(e)'
  <2> TAKE e \in edges
  <2>1. e.from < e.to /\ e.to <= Last /\ e.from \in 1 .. Last /\ e.to \in 1 .. Last
    BY <1>0 DEF EdgesDescribe, Edge
  <2> QED BY <1>0, <1>1, <2>1, FlowKept DEF EdgesDescribe
<1> QED BY <1>0, <1>1, <1>2 DEF EdgesDescribe

(* truncate_from: what is left of the steps and edges is as it was.        *)
LEMMA RewindKeeps ==
  ASSUME Structure, NEW s \in 1 .. MaxStep, Rewind(s)
  PROVE  Structure'
<1> USE DEF Structure, GraphTyped
<1>0. /\ Last \in Nat /\ DOMAIN nodes = 1 .. Last /\ MaxStep \in Nat /\ s \in 1 .. Last
      /\ edges' = {e \in edges : e.from < s /\ e.to < s} /\ pc' = "idle"
  BY GraphAssumption DEF Rewind, Last
<1>1. /\ nodes' \in Seq(Node) /\ Last' = s - 1
      /\ \A p \in 1 .. (s - 1) : nodes'[p] = nodes[p]
  BY <1>0 DEF Rewind, Last
<1>2. \A e \in edges' : e.kind = "implicit" => Flows(e)'
  <2> TAKE e \in edges'
  <2>1. e \in edges /\ e.from < e.to /\ e.to <= s - 1 /\ e.from \in 1 .. (s - 1) /\ e.to \in 1 .. (s - 1)
    BY <1>0 DEF EdgesDescribe, Edge
  <2> QED BY <1>0, <1>1, <2>1, FlowKept DEF EdgesDescribe
<1>3. \A e \in edges' : e.from < e.to /\ e.to <= s - 1
  BY <1>0 DEF EdgesDescribe, Edge
<1> QED BY <1>0, <1>1, <1>2, <1>3 DEF EdgesDescribe

(* A step that runs, or cannot, has references to earlier steps.           *)
LEMMA RunsKeeps ==
  ASSUME Structure, NEW doc \in Documents, Runs(doc) \/ \E d \in References : CannotRun(doc, d)
  PROVE  Structure'
BY AddStepKeeps DEF Runs, CannotRun

(* What leaves the graph alone, as the search does.                        *)
LEMMA OthersKeep ==
  ASSUME Structure, UNCHANGED graph, pc' \in {pc, "search"}, pc' = pc \/ pc # "idle"
  PROVE  Structure'
<1>1. nodes' = nodes /\ edges' = edges /\ Last' = Last
  BY DEF graph, Last
<1>2. \A e : Flows(e)' <=> Flows(e)
  BY <1>1 DEF Flows, Offers
<1>3. EdgesDescribe'
  BY <1>1, <1>2, Zenon DEF Structure, EdgesDescribe
<1> QED BY <1>1, <1>3 DEF Structure, GraphTyped

(* Every step of the graph. *)
LEMMA StepStructure == ASSUME Structure, [Next]_vars PROVE Structure'
<1>1. ASSUME (\E k \in Key : Fails(k)) \/ Visit \/ UNCHANGED vars
      PROVE  UNCHANGED graph /\ pc' \in {pc, "search"} /\ (pc' = pc \/ pc # "idle")
  BY <1>1 DEF Fails, Visit, vars
<1> QED BY <1>1, RunsKeeps, SucceedsKeeps, RewindKeeps, OthersKeep DEF Next

(* A new transaction has an empty graph. *)
LEMMA InitStructure == Init => Structure
BY GraphAssumption DEF Init, Structure, GraphTyped, EdgesDescribe, Last
-----------------------------------------------------------------------------
(* The search stays within the steps and keys there are. *)
Searching == /\ {origin, frontier, visited} \subseteq SUBSET ((1 .. MaxStep) \X Key)
             /\ root \in 0 .. MaxStep

(* A search only ever holds cells of steps that are there. *)
LEMMA StepSearching == ASSUME Structure, Searching, [Next]_vars PROVE Searching'
<1> USE DEF Searching
<1>0. MaxStep \in Nat /\ Last \in Nat /\ Last <= MaxStep
  BY GraphAssumption DEF Structure, GraphTyped, Last
<1>1. ASSUME NEW k \in Key, Fails(k) PROVE Searching'
  <2>1. Last \in 1 .. MaxStep
    BY <1>0, <1>1 DEF Fails, Structure, GraphTyped
  <2> QED BY <1>1, <2>1 DEF Fails
<1>2. CASE Visit
  <2>1. PICK x \in frontier :
          LET fresh == Feeding(x) \ visited
          IN  /\ frontier' = (frontier \ {x}) \cup fresh
              /\ visited' = visited \cup fresh
              /\ root' = IF fresh = {} THEN root
                         ELSE Earliest({n[1] : n \in fresh} \cup ({root} \ {0}))
              /\ origin' = origin
    BY <1>2 DEF Visit, search
  <2> DEFINE fresh == Feeding(x) \ visited
             steps == {n[1] : n \in fresh} \cup ({root} \ {0})
  <2>2. Feeding(x) \subseteq (1 .. MaxStep) \X Key
    BY DEF Feeding, Structure, GraphTyped, Edge
  <2>3. steps \in SUBSET (1 .. MaxStep)
    BY <1>0, <2>2
  <2>4. fresh # {} => Earliest(steps) \in 1 .. MaxStep
    <3>1. fresh # {} => steps # {}
      OBVIOUS
    <3> HIDE DEF fresh, steps
    <3> QED BY <2>3, <3>1, EarliestIsLeast
  <2> QED BY <1>0, <2>1, <2>2, <2>4
<1>3. ASSUME NEW s \in 1 .. MaxStep, Rewind(s) PROVE Searching'
  BY <1>0, <1>3 DEF Rewind
<1>4. ASSUME NEW doc \in Documents, Runs(doc) \/ Succeeds(doc) \/ \E d \in References : CannotRun(doc, d)
      PROVE  Searching'
  BY <1>4 DEF Runs, Succeeds, CannotRun, AddStep, search
<1>5. CASE UNCHANGED vars
  BY <1>5 DEF vars, search
<1> QED BY <1>1, <1>2, <1>3, <1>4, <1>5 DEF Next

(* find_root_cause, while it runs: what it has visited feeds the failed     *)
(* key, it has followed what is not in the frontier, and root is the        *)
(* earliest step so far.                                                    *)
Tracing ==
  /\ pc # "search" => origin = {} /\ frontier = {} /\ visited = {} /\ root = 0
  /\ frontier \subseteq visited \cup origin
  /\ \A x \in (visited \cup origin) \ frontier : Feeding(x) \subseteq visited
  /\ \A S \in SUBSET Cells : ClosedFor(S) => visited \subseteq S
  /\ root = IF visited = {} THEN 0 ELSE Earliest({y[1] : y \in visited})

(* One round of the search. *)
LEMMA VisitTraces ==
  ASSUME Structure, Tracing, visited \subseteq Cells, Visit
  PROVE  Tracing' /\ visited' \subseteq Cells
<1> USE DEF Tracing
<1>1. PICK x \in frontier :
        LET fresh == Feeding(x) \ visited
        IN  /\ frontier' = (frontier \ {x}) \cup fresh
            /\ visited' = visited \cup fresh
            /\ root' = IF fresh = {} THEN root
                       ELSE Earliest({n[1] : n \in fresh} \cup ({root} \ {0}))
            /\ UNCHANGED <<graph, pc, origin>>
  BY DEF Visit
<1> DEFINE fresh == Feeding(x) \ visited
<1>2. Feeding(x) \subseteq Cells
  BY DEF Feeding, Structure, GraphTyped, Edge, Cells
<1>3. /\ nodes' = nodes /\ edges' = edges /\ Last' = Last /\ \A y : Feeding(y)' = Feeding(y)
      /\ \A S : ClosedFor(S)' <=> ClosedFor(S)
  <2>1. nodes' = nodes /\ edges' = edges /\ origin' = origin
    BY <1>1 DEF graph
  <2>2. Last' = Last
    BY <2>1 DEF Last
  <2>3. \A y : Feeding(y)' = Feeding(y)
    BY <2>1 DEF Feeding, Carried
  <2>4. \A S : ClosedFor(S)' <=> ClosedFor(S)
    BY <2>1, <2>2, <2>3 DEF ClosedFor
  <2> QED BY <2>1, <2>2, <2>3, <2>4
<1>4. pc = "search"
  BY <1>1
<1>5. frontier' \subseteq visited' \cup origin'
  BY <1>1
<1>6. \A y \in (visited' \cup origin') \ frontier' : Feeding(y) \subseteq visited'
  BY <1>1
<1>7. ASSUME NEW S \in SUBSET Cells, ClosedFor(S) PROVE visited' \subseteq S
  <2>1. visited \subseteq S /\ x \in S \cup origin
    BY <1>1, <1>7
  <2>2. ASSUME NEW y \in Feeding(x) PROVE x[1] <= Last
    BY <2>2 DEF Feeding, Structure, EdgesDescribe
  <2>3. Feeding(x) \subseteq S
    BY <1>7, <2>1, <2>2 DEF ClosedFor
  <2> QED BY <1>1, <2>1, <2>3
<1>8. root' = IF visited' = {} THEN 0 ELSE Earliest({y[1] : y \in visited'})
  <2>1. CASE fresh = {}
    BY <1>1, <2>1
  <2>2. CASE fresh # {}
    <3> DEFINE old == {y[1] : y \in visited}
               new == {y[1] : y \in fresh}
               all == {y[1] : y \in visited'}
               seen == new \cup ({root} \ {0})
    <3>1. /\ old \in SUBSET (1 .. MaxStep) /\ new \in SUBSET (1 .. MaxStep)
          /\ all = old \cup new /\ new # {} /\ (visited # {} => old # {}) /\ visited' # {}
      BY <1>1, <1>2, <2>2 DEF Cells
    <3>2. root' = Earliest(seen)
      BY <1>1, <2>2
    <3>3. root = IF visited = {} THEN 0 ELSE Earliest(old)
      OBVIOUS
    <3>4. MaxStep \in Nat
      BY GraphAssumption
    <3>5. visited = {} => old = {}
      OBVIOUS
    <3> HIDE DEF old, new, all, seen
    <3>6. visited # {} => root \in old
      <4>1. old # {} => Earliest(old) \in old
        BY <3>1, EarliestIsLeast
      <4> QED BY <3>1, <3>3, <4>1
    <3>7. Earliest(seen) = Earliest(all)
      <4>1. CASE visited = {}
        BY <3>1, <3>3, <3>5, <4>1 DEF seen
      <4>2. CASE visited # {}
        <5>1. root \in 1 .. MaxStep /\ root = Earliest(old) /\ old # {}
          BY <3>1, <3>3, <3>6, <4>2
        <5>2. seen = new \cup {Earliest(old)}
          <6>1. root # 0
            BY <3>4, <5>1
          <6> QED BY <5>1, <6>1, Zenon DEF seen
        <5> QED BY <3>1, <5>1, <5>2, EarliestJoins
      <4> QED BY <4>1, <4>2
    <3> QED BY <3>1, <3>2, <3>7 DEF all
  <2> QED BY <2>1, <2>2
<1>9. visited' \subseteq Cells
  BY <1>1, <1>2
<1>10. \A S \in SUBSET Cells : ClosedFor(S)' => visited' \subseteq S
  BY <1>3, <1>7
<1>11. Tracing'
  BY <1>1, <1>3, <1>4, <1>5, <1>6, <1>8, <1>10
<1> QED BY <1>9, <1>11

(* A failed step without a key starts no search, and one with a key starts *)
(* at that key.                                                            *)
LEMMA FailsTraces ==
  ASSUME Tracing, \/ \E k : Fails(k)
                  \/ pc \in {"runs", "fails"} /\ pc' = "search" /\ UNCHANGED <<graph, search>>
  PROVE  Tracing' /\ visited' = {}
<1> USE DEF Tracing
<1>1. pc \in {"runs", "fails"} /\ pc' = "search" /\ UNCHANGED <<graph, visited, root>>
      /\ frontier' = origin'
  BY DEF Fails, search
<1>2. visited' = {} /\ root' = 0
  BY <1>1
<1> QED BY <1>1, <1>2

(* Outside a search nothing of it is left. *)
LEMMA OthersTrace ==
  ASSUME Tracing,
         \/ \E doc \in Documents : Runs(doc) \/ Succeeds(doc) \/ \E d \in References : CannotRun(doc, d)
         \/ \E s \in 1 .. MaxStep : Rewind(s)
  PROVE  Tracing' /\ visited' = {}
<1>1. pc' # "search" /\ origin' = {} /\ frontier' = {} /\ visited' = {} /\ root' = 0
  BY DEF Tracing, Runs, Succeeds, CannotRun, AddStep, Rewind, search
<1> QED BY <1>1 DEF Tracing

(* Stuttering does not disturb a search. *)
LEMMA UnchangedTraces == ASSUME Tracing, UNCHANGED vars PROVE Tracing'
<1>1. /\ UNCHANGED <<pc, origin, frontier, visited, root>> /\ \A y : Feeding(y)' = Feeding(y)
      /\ \A S : ClosedFor(S)' <=> ClosedFor(S)
  BY DEF vars, graph, search, Last, Feeding, Carried, ClosedFor
<1> QED BY <1>1 DEF Tracing

(* Once nothing is left to follow, what is visited is closed, and so the    *)
(* least of the closed sets.                                                *)
LEMMA TracingEnds == ASSUME Tracing, visited \subseteq Cells PROVE RootCauseExact
<1> SUFFICES ASSUME frontier = {}
             PROVE  root = IF Reached = {} THEN 0 ELSE Earliest({y[1] : y \in Reached})
  BY DEF RootCauseExact
<1>1. visited \in SUBSET Cells /\ ClosedFor(visited)
  BY DEF Tracing, ClosedFor
<1>2. Reached = visited
  BY <1>1 DEF Reached, Tracing
<1> QED BY <1>2 DEF Tracing

(* No search is under way at first. *)
LEMMA InitTraces == Init => Searching /\ Tracing
BY GraphAssumption DEF Init, Searching, Tracing, ClosedFor

(* The dependency graph always describes the steps that are there: an edge  *)
(* leads to a later step, and an implicit one stands for a value that the   *)
(* producer still has and no step in between offers.                        *)
THEOREM GraphSafe == Spec => []GraphInv
<1>1. Structure /\ Searching => GraphInv
  BY DEF Structure, GraphTyped, Searching, GraphInv, TypeOK, Cells, Document, Node, Edge
<1> QED BY <1>1, InitTraces, InitStructure, StepStructure, StepSearching, PTL DEF Spec

(* The search for the root cause ends at the earliest step that feeds the  *)
(* failed key, directly or through others: no more, however the search     *)
(* orders its frontier, and no less.                                       *)
THEOREM RootCauseFound == Spec => []RootCauseExact
<1>1. ASSUME Structure, Searching, Tracing, [Next]_vars PROVE Tracing'
  <2>1. visited \subseteq Cells
    BY <1>1 DEF Searching, Cells
  <2> QED BY <1>1, <2>1, VisitTraces, FailsTraces, OthersTrace, UnchangedTraces DEF Next
<1>2. Searching /\ Tracing => RootCauseExact
  BY TracingEnds DEF Searching, Cells
<1> QED BY <1>1, <1>2, InitTraces, InitStructure, StepStructure, StepSearching, PTL DEF Spec

-----------------------------------------------------------------------------
(* Every step of the graph under the failures of tools. *)
LEMMA StepDiagnosed == ASSUME Structure, [DiagnosisNext]_diagnosis PROVE Structure'
<1>1. ASSUME NEW doc \in Documents, StepRuns(doc) \/ ReferenceFails(doc) \/ StepSucceeds(doc)
      PROVE  Structure'
  BY <1>1, RunsKeeps, SucceedsKeeps DEF StepRuns, ReferenceFails, StepSucceeds
<1>2. ASSUME StepFails \/ ReferenceTraced \/ Traces \/ UNCHANGED diagnosis PROVE Structure'
  <2>1. UNCHANGED graph /\ pc' \in {pc, "search"} /\ (pc' = pc \/ pc # "idle")
    BY <1>2 DEF StepFails, ReferenceTraced, Traces, Fails, Visit, diagnosis, vars
  <2> QED BY <2>1, OthersKeep
<1>3. ASSUME NEW s \in 1 .. MaxStep, Undoes(s) PROVE Structure'
  BY <1>3, RewindKeeps DEF Undoes
<1> QED BY <1>1, <1>2, <1>3 DEF DiagnosisNext

(* So it does with the search. *)
Traced == Tracing /\ visited \subseteq Cells
(* A search stays exact under the failures the cleaner reads. *)
LEMMA StepTraced == ASSUME Structure, Traced, [DiagnosisNext]_diagnosis PROVE Traced'
<1> USE DEF Traced
<1>1. CASE \E doc \in Documents : StepRuns(doc) \/ ReferenceFails(doc) \/ StepSucceeds(doc)
  <2>1. (Tracing /\ visited = {})'
    BY <1>1, OthersTrace DEF StepRuns, ReferenceFails, StepSucceeds
  <2> QED BY <2>1
<1>2. CASE StepFails \/ ReferenceTraced
  <2>1. \/ \E k : Fails(k)
        \/ pc \in {"runs", "fails"} /\ pc' = "search" /\ UNCHANGED <<graph, search>>
    BY <1>2 DEF StepFails, ReferenceTraced
  <2>2. (Tracing /\ visited = {})'
    BY <2>1, FailsTraces
  <2> QED BY <2>2
<1>3. CASE Traces
  BY <1>3, VisitTraces DEF Traces
<1>4. CASE \E s \in 1 .. MaxStep : Undoes(s)
  <2>1. (Tracing /\ visited = {})'
    BY <1>4, OthersTrace DEF Undoes
  <2> QED BY <2>1
<1>5. CASE UNCHANGED diagnosis
  BY <1>5, UnchangedTraces DEF diagnosis, vars, search
<1> QED BY <1>1, <1>2, <1>3, <1>4, <1>5 DEF DiagnosisNext

(* So both hold in every behaviour. *)
LEMMA AlwaysTraced == DiagnosisSpec => [](Structure /\ Traced)
<1>1. DiagnosisInit => Structure /\ Traced
  BY InitStructure, InitTraces DEF DiagnosisInit, Searching, Traced, Cells
<1> QED BY <1>1, StepDiagnosed, StepTraced, PTL DEF DiagnosisSpec

(* The graph describes the steps that are there under the failures of       *)
(* tools, whatever key, or none, the cleaner finds in their errors.         *)
THEOREM DiagnosedGraphSafe == DiagnosisSpec => []EdgesDescribe
<1>1. Structure => EdgesDescribe
  BY DEF Structure
<1> QED BY <1>1, AlwaysTraced, PTL

(* And the search that such a failure starts is as exact. *)
THEOREM DiagnosedRootCauseFound == DiagnosisSpec => []RootCauseExact
<1>1. Traced => RootCauseExact
  BY TracingEnds DEF Traced
<1> QED BY <1>1, AlwaysTraced, PTL
-----------------------------------------------------------------------------
(* The table of rules: a list, and the specific rules in it.              *)
Listed(q)     == {q[i] : i \in DOMAIN q}
SpecificRules == Listed(ProtocolRules) \cup Listed(SqlRules)
                   \cup Listed(PayloadRules) \cup Listed(FileRules)

(* A list written out is one of its own rules. *)
LEMMA ListOfItsRules ==
  ASSUME NEW q, NEW n \in Nat, q = [i \in 1 .. n |-> q[i]]
  PROVE  q \in Seq(Listed(q)) /\ DOMAIN q = 1 .. n
<1> DEFINE S == Listed(q)
<1>1. DOMAIN q = 1 .. n /\ \A i \in 1 .. n : q[i] \in S
  BY DEF Listed
<1> HIDE DEF S
<1>2. q \in [1 .. n -> S]
  BY <1>1
<1>3. q \in Seq(S)
  BY <1>2
<1> QED BY <1>1, <1>3 DEF S

(* The five parts of the table. *)
LEMMA PartsOfTable ==
  /\ ProtocolRules \in Seq(Listed(ProtocolRules)) /\ DOMAIN ProtocolRules = 1 .. 3
  /\ SqlRules \in Seq(Listed(SqlRules)) /\ DOMAIN SqlRules = 1 .. 10
  /\ PayloadRules \in Seq(Listed(PayloadRules)) /\ DOMAIN PayloadRules = 1 .. 7
  /\ FileRules \in Seq(Listed(FileRules)) /\ DOMAIN FileRules = 1 .. 3
  /\ NetworkRules \in Seq(Listed(NetworkRules)) /\ DOMAIN NetworkRules = 1 .. 9
<1>1. ProtocolRules = [i \in 1 .. 3 |-> ProtocolRules[i]]
  BY DEF ProtocolRules
<1>2. SqlRules = [i \in 1 .. 10 |-> SqlRules[i]]
  BY DEF SqlRules
<1>3. PayloadRules = [i \in 1 .. 7 |-> PayloadRules[i]]
  BY DEF PayloadRules
<1>4. FileRules = [i \in 1 .. 3 |-> FileRules[i]]
  BY DEF FileRules
<1>5. NetworkRules = [i \in 1 .. 9 |-> NetworkRules[i]]
  BY DEF NetworkRules
<1> QED BY <1>1, <1>2, <1>3, <1>4, <1>5, ListOfItsRules

(* The specific ones are put together of four lists, the first one first.  *)
LEMMA SpecificListed ==
  Specific \in Seq(SpecificRules) /\ Specific # <<>> /\ Specific[1] = ProtocolRules[1]
<1> DEFINE S == SpecificRules
<1>1. /\ ProtocolRules \in Seq(S) /\ SqlRules \in Seq(S)
      /\ PayloadRules \in Seq(S) /\ FileRules \in Seq(S)
  BY PartsOfTable DEF SpecificRules
<1> HIDE DEF S
<1>2. ASSUME NEW p \in Seq(S), NEW q \in Seq(S), p # <<>>
      PROVE  p \o q \in Seq(S) /\ p \o q # <<>> /\ (p \o q)[1] = p[1]
  <2>1. Len(p) \in Nat \ {0} /\ Len(q) \in Nat
    BY <1>2
  <2>2. p \o q \in Seq(S) /\ Len(p \o q) = Len(p) + Len(q) /\ (p \o q)[1] = p[1]
    BY <2>1
  <2> QED BY <2>1, <2>2
<1>3. ProtocolRules # <<>>
  BY DEF ProtocolRules
<1> DEFINE a == ProtocolRules \o SqlRules
           b == a \o PayloadRules
<1>4. a \in Seq(S) /\ a # <<>> /\ a[1] = ProtocolRules[1]
  BY <1>1, <1>2, <1>3, Zenon
<1>5. b \in Seq(S) /\ b # <<>> /\ b[1] = ProtocolRules[1]
  <2> HIDE DEF a
  <2> QED BY <1>1, <1>2, <1>4, Zenon
<1>6. Specific = b \o FileRules
  BY Zenon DEF Specific
<1> HIDE DEF b
<1> QED BY <1>1, <1>2, <1>5, <1>6, Zenon DEF S

(* They come before the generic ones.                                      *)
LEMMA SpecificFirst ==
  /\ DOMAIN RULES \subseteq Nat \ {0} /\ DOMAIN Specific \subseteq DOMAIN RULES
  /\ \A i \in DOMAIN Specific : RULES[i] = Specific[i] /\ Specific[i] \in SpecificRules
  /\ \A i \in DOMAIN RULES \ DOMAIN Specific :
       RULES[i] \in Listed(NetworkRules) /\ \A j \in DOMAIN Specific : j < i
<1>1. RULES = Specific \o NetworkRules
  BY Zenon DEF RULES, Specific
<1> DEFINE A == SpecificRules
           B == Listed(NetworkRules)
<1>2. Specific \in Seq(A) /\ NetworkRules \in Seq(B)
  BY SpecificListed, PartsOfTable
<1> HIDE DEF A, B
<1>3. ASSUME NEW p \in Seq(A), NEW q \in Seq(B)
      PROVE  /\ DOMAIN (p \o q) = 1 .. Len(p) + Len(q) /\ DOMAIN p = 1 .. Len(p)
             /\ \A i \in DOMAIN (p \o q) : IF i <= Len(p) THEN (p \o q)[i] = p[i] /\ p[i] \in A
                                                          ELSE (p \o q)[i] \in B
  OBVIOUS
<1> QED BY <1>1, <1>2, <1>3 DEF A, B

(* What holds of every line of the table. *)
LEMMA ListedOnes ==
  /\ \A r \in SpecificRules :
       \/ \E i \in 1 .. 3 : r = ProtocolRules[i]
       \/ \E i \in 1 .. 10 : r = SqlRules[i]
       \/ \E i \in 1 .. 7 : r = PayloadRules[i]
       \/ \E i \in 1 .. 3 : r = FileRules[i]
  /\ \A r \in Listed(NetworkRules) : \E i \in 1 .. 9 : r = NetworkRules[i]
BY PartsOfTable DEF Listed, SpecificRules

(* Specific rules look at no status, nor for an elision; one is anchored. *)
LEMMA SpecificRule ==
  ASSUME NEW r \in SpecificRules
  PROVE  /\ r.statuses = {0} /\ "..." \notin r.says
         /\ r.name \in Closing <=> "invalid_type" \in r.says
         /\ r.name \in Closing => r.says = {"invalid_type"}
<1> DEFINE Good(x) == /\ x.statuses = {0} /\ "..." \notin x.says
                      /\ x.name \in {"type_mismatch"} <=> "invalid_type" \in x.says
                      /\ x.name \in {"type_mismatch"} => x.says = {"invalid_type"}
<1>1. \A i \in 1 .. 3 : Good(ProtocolRules[i])
  BY DEF ProtocolRules, Named, Unnamed, Rule
<1>2. \A i \in 1 .. 10 : Good(SqlRules[i])
  BY DEF SqlRules, Named, Unnamed, Rule
<1>3. \A i \in 1 .. 7 : Good(PayloadRules[i])
  BY DEF PayloadRules, Named, Unnamed, Rule
<1>4. \A i \in 1 .. 3 : Good(FileRules[i])
  BY DEF FileRules, Named, Unnamed, Rule
<1> HIDE DEF Good
<1>5. Good(r)
  BY <1>1, <1>2, <1>3, <1>4, ListedOnes
<1> QED BY <1>5 DEF Good, Closing

(* Generic rules capture no key and do not match stack frames. *)
LEMMA GenericRule ==
  ASSUME NEW r \in Listed(NetworkRules)
  PROVE  ~r.keyed /\ "at" \notin r.says /\ "..." \notin r.says
<1>1. \A i \in 1 .. 9 : /\ ~NetworkRules[i].keyed
                        /\ "at" \notin NetworkRules[i].says /\ "..." \notin NetworkRules[i].says
  BY DEF NetworkRules, Unnamed, Rule
<1> QED BY <1>1, ListedOnes

(* No two specific rules look for the same words. *)
LEMMA Unambiguous ==
  ASSUME NEW r \in SpecificRules, NEW q \in SpecificRules, NEW s, s \in r.says, s \in q.says
  PROVE  r = q
<1> DEFINE In(a) == s \in a.says
<1> USE DEF Named, Unnamed, Rule
<1>1. \A i, j \in 1 .. 3 : In(ProtocolRules[i]) /\ In(ProtocolRules[j]) => i = j
  BY SMTT(60) DEF ProtocolRules
<1>2. \A i, j \in 1 .. 10 : In(SqlRules[i]) /\ In(SqlRules[j]) => i = j
  BY SMTT(60) DEF SqlRules
<1>3. \A i, j \in 1 .. 7 : In(PayloadRules[i]) /\ In(PayloadRules[j]) => i = j
  BY SMTT(60) DEF PayloadRules
<1>4. \A i, j \in 1 .. 3 : In(FileRules[i]) /\ In(FileRules[j]) => i = j
  BY SMTT(60) DEF FileRules
<1>5. \A i \in 1 .. 3, j \in 1 .. 10 : ~(In(ProtocolRules[i]) /\ In(SqlRules[j]))
  BY SMTT(60) DEF ProtocolRules, SqlRules
<1>6. \A i \in 1 .. 3, j \in 1 .. 7 : ~(In(ProtocolRules[i]) /\ In(PayloadRules[j]))
  BY SMTT(60) DEF ProtocolRules, PayloadRules
<1>7. \A i \in 1 .. 3, j \in 1 .. 3 : ~(In(ProtocolRules[i]) /\ In(FileRules[j]))
  BY SMTT(60) DEF ProtocolRules, FileRules
<1>8. \A i \in 1 .. 10, j \in 1 .. 7 : ~(In(SqlRules[i]) /\ In(PayloadRules[j]))
  BY SMTT(60) DEF SqlRules, PayloadRules
<1>9. \A i \in 1 .. 10, j \in 1 .. 3 : ~(In(SqlRules[i]) /\ In(FileRules[j]))
  BY SMTT(60) DEF SqlRules, FileRules
<1>10. \A i \in 1 .. 7, j \in 1 .. 3 : ~(In(PayloadRules[i]) /\ In(FileRules[j]))
  BY SMTT(60) DEF PayloadRules, FileRules
<1>11. In(r) /\ In(q)
  OBVIOUS
<1> HIDE DEF In
<1>12. CASE \E i \in 1 .. 3 : r = ProtocolRules[i]
  <2>1. PICK i \in 1 .. 3 : r = ProtocolRules[i] /\ In(ProtocolRules[i])
    BY <1>11, <1>12
  <2>2. CASE \E j \in 1 .. 3 : q = ProtocolRules[j]
    BY <1>1, <1>11, <2>1, <2>2
  <2>3. ~\E j \in 1 .. 10 : q = SqlRules[j]
    BY <1>5, <1>11, <2>1
  <2>4. ~\E j \in 1 .. 7 : q = PayloadRules[j]
    BY <1>6, <1>11, <2>1
  <2>5. ~\E j \in 1 .. 3 : q = FileRules[j]
    BY <1>7, <1>11, <2>1
  <2> QED BY <2>2, <2>3, <2>4, <2>5, ListedOnes
<1>13. CASE \E i \in 1 .. 10 : r = SqlRules[i]
  <2>1. PICK i \in 1 .. 10 : r = SqlRules[i] /\ In(SqlRules[i])
    BY <1>11, <1>13
  <2>2. ~\E j \in 1 .. 3 : q = ProtocolRules[j]
    BY <1>5, <1>11, <2>1
  <2>3. CASE \E j \in 1 .. 10 : q = SqlRules[j]
    BY <1>2, <1>11, <2>1, <2>3
  <2>4. ~\E j \in 1 .. 7 : q = PayloadRules[j]
    BY <1>8, <1>11, <2>1
  <2>5. ~\E j \in 1 .. 3 : q = FileRules[j]
    BY <1>9, <1>11, <2>1
  <2> QED BY <2>2, <2>3, <2>4, <2>5, ListedOnes
<1>14. CASE \E i \in 1 .. 7 : r = PayloadRules[i]
  <2>1. PICK i \in 1 .. 7 : r = PayloadRules[i] /\ In(PayloadRules[i])
    BY <1>11, <1>14
  <2>2. ~\E j \in 1 .. 3 : q = ProtocolRules[j]
    BY <1>6, <1>11, <2>1
  <2>3. ~\E j \in 1 .. 10 : q = SqlRules[j]
    BY <1>8, <1>11, <2>1
  <2>4. CASE \E j \in 1 .. 7 : q = PayloadRules[j]
    BY <1>3, <1>11, <2>1, <2>4
  <2>5. ~\E j \in 1 .. 3 : q = FileRules[j]
    BY <1>10, <1>11, <2>1
  <2> QED BY <2>2, <2>3, <2>4, <2>5, ListedOnes
<1>15. CASE \E i \in 1 .. 3 : r = FileRules[i]
  <2>1. PICK i \in 1 .. 3 : r = FileRules[i] /\ In(FileRules[i])
    BY <1>11, <1>15
  <2>2. ~\E j \in 1 .. 3 : q = ProtocolRules[j]
    BY <1>7, <1>11, <2>1
  <2>3. ~\E j \in 1 .. 10 : q = SqlRules[j]
    BY <1>9, <1>11, <2>1
  <2>4. ~\E j \in 1 .. 7 : q = PayloadRules[j]
    BY <1>10, <1>11, <2>1
  <2>5. CASE \E j \in 1 .. 3 : q = FileRules[j]
    BY <1>4, <1>11, <2>1, <2>5
  <2> QED BY <2>2, <2>3, <2>4, <2>5, ListedOnes
<1> QED BY <1>12, <1>13, <1>14, <1>15, ListedOnes

-----------------------------------------------------------------------------
(* Three pieces put together. *)
LEMMA ThreePieces ==
  ASSUME NEW S, NEW p \in Seq(S), NEW x \in S, NEW q \in Seq(S),
         NEW t, t = p \o <<x>> \o q
  PROVE  /\ t \in Seq(S) /\ Len(t) = Len(p) + 1 + Len(q)
         /\ \A i \in 1 .. Len(p) : t[i] = p[i]
         /\ t[Len(p) + 1] = x
         /\ \A i \in 1 .. Len(q) : t[Len(p) + 1 + i] = q[i]
<1> DEFINE h == p \o <<x>>
<1>1. /\ h \in Seq(S) /\ Len(h) = Len(p) + 1 /\ h[Len(p) + 1] = x
      /\ \A i \in 1 .. Len(p) : h[i] = p[i]
  OBVIOUS
<1> HIDE DEF h
<1>2. /\ t \in Seq(S) /\ Len(t) = Len(h) + Len(q)
      /\ \A i \in 1 .. Len(h) : t[i] = h[i]
      /\ \A i \in 1 .. Len(q) : t[Len(h) + i] = q[i]
  <2>1. t = h \o q
    BY DEF h
  <2> QED BY <1>1, <2>1
<1>3. Len(p) \in Nat
  OBVIOUS
<1> QED BY <1>1, <1>2, <1>3

(* A raw error. *)
LEMMA RawLines ==
  ASSUME NEW e \in Errors
  PROVE  /\ Len(e.before) \in Nat /\ Len(e.after) \in Nat
         /\ Raw(e) \in Seq(Noise \cup {e.message}) /\ Len(Raw(e)) = Length(e)
         /\ \A i \in 1 .. Len(e.before) : Raw(e)[i] \in Noise
         /\ Raw(e)[Len(e.before) + 1] = e.message
         /\ \A i \in Len(e.before) + 2 .. Length(e) : Raw(e)[i] \in Noise
         /\ e.after = <<>> <=> Len(e.after) = 0
<1>1. e.before \in Seq(Noise) /\ e.after \in Seq(Noise)
  <2>1. \A a \in Around : a \in Seq(Noise)
    BY DiagnosisAssumption DEF Around
  <2> QED BY <2>1 DEF Errors
<1> DEFINE S == Noise \cup {e.message}
<1>2. e.before \in Seq(S) /\ e.after \in Seq(S) /\ e.message \in S
  BY <1>1
<1>3. \A i \in 1 .. Len(e.before) : e.before[i] \in Noise
  BY <1>1
<1>4. \A i \in 1 .. Len(e.after) : e.after[i] \in Noise
  BY <1>1
<1>5. Len(e.before) \in Nat /\ Len(e.after) \in Nat /\ (e.after = <<>> <=> Len(e.after) = 0)
  BY <1>1
<1>6. \A i \in Len(e.before) + 2 .. Length(e) :
        i - Len(e.before) - 1 \in 1 .. Len(e.after) /\ i = Len(e.before) + 1 + (i - Len(e.before) - 1)
  <2>1. \A a, b \in Nat : \A i \in a + 2 .. a + 1 + b : i - a - 1 \in 1 .. b /\ i = a + 1 + (i - a - 1)
    OBVIOUS
  <2> QED BY <1>5, <2>1, Zenon DEF Length
<1> HIDE DEF S
<1>7. /\ Raw(e) \in Seq(S) /\ Len(Raw(e)) = Length(e)
      /\ \A i \in 1 .. Len(e.before) : Raw(e)[i] = e.before[i]
      /\ Raw(e)[Len(e.before) + 1] = e.message
      /\ \A i \in 1 .. Len(e.after) : Raw(e)[Len(e.before) + 1 + i] = e.after[i]
  <2> DEFINE p == e.before
             q == e.after
             x == e.message
  <2>1. Raw(e) = p \o <<x>> \o q /\ Length(e) = Len(p) + 1 + Len(q)
    BY DEF Raw, Length
  <2>2. p \in Seq(S) /\ q \in Seq(S) /\ x \in S
    BY <1>2
  <2> HIDE DEF p, q, x
  <2>3. /\ Raw(e) \in Seq(S) /\ Len(Raw(e)) = Length(e)
        /\ \A i \in 1 .. Len(p) : Raw(e)[i] = p[i]
        /\ Raw(e)[Len(p) + 1] = x
        /\ \A i \in 1 .. Len(q) : Raw(e)[Len(p) + 1 + i] = q[i]
    BY <2>1, <2>2, ThreePieces
  <2> QED BY <2>3 DEF p, q, x
<1>8. \A i \in Len(e.before) + 2 .. Length(e) : Raw(e)[i] \in Noise
  <2> TAKE i \in Len(e.before) + 2 .. Length(e)
  <2> QED BY <1>4, <1>6, <1>7
<1> QED BY <1>3, <1>5, <1>7, <1>8 DEF S

(* What is left of a long one: the lines from "bounded". *)
Quarter == MaxLines \div 4
(* Its first quarter, the mark of what was left out, and the rest. *)
LEMMA BoundedLines ==
  ASSUME NEW T, NEW raw \in Seq(T), Elision \in T, Len(raw) > MaxLines
  PROVE  /\ Quarter \in Nat \ {0} /\ MaxLines = 4 * Quarter
         /\ Bounded(raw) \in Seq(T) /\ Len(Bounded(raw)) = MaxLines + 1
         /\ \A i \in 1 .. Quarter : Bounded(raw)[i] = raw[i]
         /\ Bounded(raw)[Quarter + 1] = Elision
         /\ \A i \in 1 .. 3 * Quarter : Bounded(raw)[Quarter + 1 + i] = raw[Len(raw) - 3 * Quarter + i]
<1> DEFINE q    == Quarter
           text == Bounded(raw)
           head == SubSeq(raw, 1, q)
           tail == SubSeq(raw, Len(raw) - 3 * q + 1, Len(raw))
<1>1. q \in Nat \ {0} /\ MaxLines = 4 * q /\ Len(raw) \in Nat
  BY CleanerAssumption DEF Quarter
<1> HIDE DEF q
<1>3. head \in Seq(T) /\ Len(head) = q /\ \A i \in 1 .. q : head[i] = raw[i]
  BY <1>1
<1>4. /\ tail \in Seq(T) /\ Len(tail) = 3 * q
      /\ \A i \in 1 .. 3 * q : tail[i] = raw[Len(raw) - 3 * q + i]
  BY <1>1
<1>5. text = head \o <<Elision>> \o tail
  <2>1. ~(Len(raw) <= MaxLines)
    BY <1>1, CleanerAssumption
  <2> QED BY <2>1, Zenon DEF Bounded, q, Quarter
<1> HIDE DEF head, tail, text
<1>6. /\ text \in Seq(T) /\ Len(text) = Len(head) + 1 + Len(tail)
      /\ \A i \in 1 .. Len(head) : text[i] = head[i]
      /\ text[Len(head) + 1] = Elision
      /\ \A i \in 1 .. Len(tail) : text[Len(head) + 1 + i] = tail[i]
  <2>1. head \in Seq(T) /\ tail \in Seq(T) /\ Elision \in T
    BY <1>3, <1>4
  <2>2. \A x \in T : text = head \o <<x>> \o tail =>
          /\ text \in Seq(T) /\ Len(text) = Len(head) + 1 + Len(tail)
          /\ \A i \in 1 .. Len(head) : text[i] = head[i]
          /\ text[Len(head) + 1] = x
          /\ \A i \in 1 .. Len(tail) : text[Len(head) + 1 + i] = tail[i]
    BY ONLY <2>1, ThreePieces
  <2> QED BY ONLY <1>5, <2>1, <2>2, Zenon
<1>7. q + 1 + 3 * q = MaxLines + 1
  BY <1>1
<1> QED BY ONLY <1>1, <1>3, <1>4, <1>6, <1>7, Zenon DEF q, text

(* What is looked at of an error. *)
LEMMA TextLines ==
  ASSUME NEW e \in Errors, NEW text, text = Bounded(Raw(e))
  PROVE  /\ Len(text) \in Nat \ {0} /\ DOMAIN text = 1 .. Len(text)
         /\ \A i \in DOMAIN text : text[i] \in Noise \cup {Elision, e.message}
         /\ \A i \in DOMAIN text : text[i] # Elision => \E j \in DOMAIN Raw(e) : text[i] = Raw(e)[j]
         /\ Seen(e) => \E i \in DOMAIN text : text[i] = e.message
         /\ ~Seen(e) => \A i \in DOMAIN text : text[i] \in Noise \cup {Elision}
         /\ IF e.after = <<>> THEN text[Len(text)] = e.message ELSE text[Len(text)] \in Noise
<1> DEFINE raw == Raw(e)
           a   == Len(e.before)
           b   == Len(e.after)
<1>1. /\ a \in Nat /\ b \in Nat /\ raw \in Seq(Noise \cup {e.message}) /\ Len(raw) = a + 1 + b
      /\ \A i \in 1 .. a : raw[i] \in Noise
      /\ raw[a + 1] = e.message
      /\ \A i \in a + 2 .. a + 1 + b : raw[i] \in Noise
      /\ e.after = <<>> <=> b = 0
  BY RawLines DEF Length
<1>2. Seen(e) <=> \/ Len(raw) <= MaxLines
                  \/ a < MaxLines \div 4 \/ b < 3 * (MaxLines \div 4)
  BY <1>1 DEF Seen, Length
<1> HIDE DEF raw, a, b
<1>3. CASE Len(raw) <= MaxLines
  <2>1. text = raw
    BY <1>3 DEF Bounded, raw
  <2> QED BY <1>1, <1>2, <1>3, <2>1 DEF raw
<1>4. CASE ~(Len(raw) <= MaxLines)
  <2>0. MaxLines \in Nat /\ Len(raw) > MaxLines
    BY <1>1, <1>4, CleanerAssumption
  <2> DEFINE q == Quarter
             T == Noise \cup {Elision, e.message}
  <2>1. /\ q \in Nat \ {0} /\ q = MaxLines \div 4 /\ MaxLines = 4 * q
        /\ text \in Seq(T) /\ Len(text) = MaxLines + 1
        /\ \A i \in 1 .. q : text[i] = raw[i]
        /\ text[q + 1] = Elision
        /\ \A i \in 1 .. 3 * q : text[q + 1 + i] = raw[Len(raw) - 3 * q + i]
    <3>1. text = Bounded(raw) /\ q = MaxLines \div 4
      BY DEF raw, Quarter
    <3>2. raw \in Seq(T) /\ Elision \in T
      BY <1>1
    <3> HIDE DEF T
    <3> QED BY ONLY <2>0, <3>1, <3>2, BoundedLines
  <2> HIDE DEF q
  <2>2. DOMAIN text = 1 .. Len(text) /\ Len(text) = 4 * q + 1
        /\ DOMAIN raw = 1 .. Len(raw)
    BY <1>1, <2>1
  <2>3. \A i \in DOMAIN text : \/ i \in 1 .. q \/ i = q + 1
                               \/ i - q - 1 \in 1 .. 3 * q /\ i = q + 1 + (i - q - 1)
    BY <2>1, <2>2
  <2>4. \A i \in DOMAIN text :
          \/ i \in 1 .. q /\ i \in DOMAIN raw /\ text[i] = raw[i]
          \/ i = q + 1 /\ text[i] = Elision
          \/ /\ i - q - 1 \in 1 .. 3 * q /\ Len(raw) - 3 * q + (i - q - 1) \in DOMAIN raw
             /\ text[i] = raw[Len(raw) - 3 * q + (i - q - 1)]
    <3> TAKE i \in DOMAIN text
    <3>1. CASE i \in 1 .. q
      BY <3>1, <2>0, <2>1, <2>2, <1>1
    <3>2. CASE i = q + 1
      BY <3>2, <2>1
    <3>3. CASE i - q - 1 \in 1 .. 3 * q /\ i = q + 1 + (i - q - 1)
      <4>1. text[i] = raw[Len(raw) - 3 * q + (i - q - 1)]
        BY <3>3, <2>1
      <4>2. Len(raw) - 3 * q + (i - q - 1) \in 1 .. Len(raw)
        BY <3>3, <2>0, <2>1, <1>1
      <4> QED BY <3>3, <4>1, <4>2, <2>2
    <3> QED BY <2>3, <3>1, <3>2, <3>3
  <2>5. Len(text) \in Nat \ {0} /\ \A i \in DOMAIN text : text[i] \in Noise \cup {Elision, e.message}
    BY <2>1, <2>2
  <2>6. \A i \in DOMAIN text : text[i] # Elision => \E j \in DOMAIN raw : text[i] = raw[j]
    BY <2>4
  <2>7. ASSUME Seen(e) PROVE \E i \in DOMAIN text : text[i] = e.message
    <3>1. CASE a < q
      <4>1. a + 1 \in 1 .. q /\ a + 1 \in DOMAIN text
        BY <3>1, <1>1, <2>1, <2>2
      <4> QED BY <4>1, <2>1, <1>1
    <3>2. CASE b < 3 * q
      <4> DEFINE k == 3 * q - b
      <4>1. k \in 1 .. 3 * q /\ q + 1 + k \in DOMAIN text /\ Len(raw) - 3 * q + k = a + 1
        BY <3>2, <1>1, <2>1, <2>2
      <4>2. text[q + 1 + k] = raw[Len(raw) - 3 * q + k]
        BY <4>1, <2>1
      <4> QED BY <4>1, <4>2, <1>1
    <3> QED BY <2>7, <1>2, <1>4, <2>1, <3>1, <3>2
  <2>8. ASSUME ~Seen(e) PROVE \A i \in DOMAIN text : text[i] \in Noise \cup {Elision}
    <3> TAKE i \in DOMAIN text
    <3>1. a >= q /\ b >= 3 * q
      BY <2>8, <1>1, <1>2, <2>1
    <3>2. CASE i \in 1 .. q /\ text[i] = raw[i]
      BY <3>1, <3>2, <1>1, <2>1
    <3>3. CASE i - q - 1 \in 1 .. 3 * q /\ text[i] = raw[Len(raw) - 3 * q + (i - q - 1)]
      <4>1. Len(raw) - 3 * q + (i - q - 1) \in a + 2 .. a + 1 + b
        BY <3>1, <3>3, <1>1, <2>1
      <4> QED BY <3>3, <4>1, <1>1
    <3> QED BY <2>4, <3>2, <3>3
  <2>9. IF e.after = <<>> THEN text[Len(text)] = e.message ELSE text[Len(text)] \in Noise
    <3>1. text[q + 1 + 3 * q] = raw[Len(raw) - 3 * q + 3 * q]
      BY <2>1
    <3>2. text[Len(text)] = raw[a + 1 + b]
      BY <3>1, <1>1, <2>1, <2>2
    <3>3. b # 0 => a + 1 + b \in a + 2 .. a + 1 + b
      BY <1>1
    <3> QED BY <3>2, <3>3, <1>1
  <2> QED BY <2>2, <2>5, <2>6, <2>7, <2>8, <2>9 DEF raw
<1> QED BY <1>3, <1>4
-----------------------------------------------------------------------------
(* The line the fallback quotes is no stack frame. *)
LEMMA SalientIsNoFrame ==
  ASSUME NEW text, NEW n \in Nat, Len(text) = n
  PROVE  \/ SalientLine(text) = 0
         \/ SalientLine(text) \in 1 .. n /\ text[SalientLine(text)].says \notin Frames
<1> DEFINE caused     == {i \in 1 .. n : text[i].says = "Caused_by"}
           exceptions == {i \in 1 .. n : text[i].says = "exception"}
           others     == {i \in 1 .. n : text[i].says \notin Frames}
<1>1. \A ns \in SUBSET (1 .. n) : ns # {} => Seqs!Max(ns) \in ns /\ Seqs!Min(ns) \in ns
  <2> SUFFICES ASSUME NEW ns \in SUBSET (1 .. n), ns # {}
               PROVE  Seqs!Max(ns) \in ns /\ Seqs!Min(ns) \in ns
    OBVIOUS
  <2>1. \E k \in ns : \A m \in ns : k >= m
    <3>1. Latest(ns) \in ns /\ \A m \in ns : m <= Latest(ns)
      BY LatestIsGreatest
    <3> QED BY <3>1
  <2>2. \E k \in ns : \A m \in ns : k <= m
    BY LeastExists
  <2> QED BY <2>1, <2>2 DEF Seqs!Max, Seqs!Min
<1>2. /\ caused \in SUBSET (1 .. n) /\ exceptions \in SUBSET (1 .. n) /\ others \in SUBSET (1 .. n)
      /\ 0 \notin 1 .. n
  OBVIOUS
<1>3. Seqs!SelectLastInSeq(text, LAMBDA l : l.says = "Caused_by") = IF caused # {} THEN Seqs!Max(caused) ELSE 0
  BY DEF Seqs!SelectLastInSeq
<1>4. Seqs!SelectLastInSeq(text, LAMBDA l : l.says = "exception") = IF exceptions # {} THEN Seqs!Max(exceptions) ELSE 0
  BY DEF Seqs!SelectLastInSeq
<1>5. Seqs!SelectInSeq(text, LAMBDA l : l.says \notin Frames) = IF others # {} THEN Seqs!Min(others) ELSE 0
  BY DEF Seqs!SelectInSeq
<1>6. \A i \in caused \cup exceptions \cup others : i \in 1 .. n /\ text[i].says \notin Frames
  BY DEF Frames
<1> HIDE DEF caused, exceptions, others
<1>7. SalientLine(text) \in caused \cup exceptions \cup others \cup {0}
  BY <1>1, <1>2, <1>3, <1>4, <1>5 DEF SalientLine
<1> QED BY <1>6, <1>7

(* The rule that wins is the first that matches; its line, the first it matches. *)
LEMMA WinnerMatches ==
  ASSUME NEW text, NEW n \in Nat, DOMAIN text = 1 .. n
  PROVE  /\ Winner(text) = 0 => Firing(text) = {}
         /\ Winner(text) # 0 =>
              /\ Winner(text) \in DOMAIN RULES /\ \A i \in Firing(text) : Winner(text) <= i
              /\ First(Matched(RULES[Winner(text)], text)) \in Matched(RULES[Winner(text)], text)
<1>1. \A ns \in SUBSET Nat : ns # {} => First(ns) \in ns /\ \A m \in ns : First(ns) <= m
  BY LeastExists DEF First
<1>2. Firing(text) \in SUBSET Nat /\ 0 \notin Firing(text)
  BY SpecificFirst DEF Firing
<1>3. \A i \in Firing(text) : i \in DOMAIN RULES /\ Matched(RULES[i], text) # {}
  BY DEF Firing
<1>4. \A r : Matched(r, text) \in SUBSET Nat
  BY DEF Matched
<1> QED BY <1>1, <1>2, <1>3, <1>4 DEF Winner

(* What a message says, one specific rule looks for. *)
LEMMA MessageRule ==
  ASSUME NEW e \in Errors
  PROVE  \E i \in DOMAIN Specific :
           /\ e.message.says \in Specific[i].says /\ e.message.status = 0
           /\ e.message.key = IF Specific[i].keyed THEN e.message.key ELSE NoKey
<1>1. e.message \in Messages
  BY DEF Errors
<1>2. PICK i \in DOMAIN Specific :
        e.message \in {Line(says, 0, key) : says \in Specific[i].says,
                                            key \in IF Specific[i].keyed THEN Key ELSE {NoKey}}
  BY <1>1 DEF Messages
<1>3. PICK says \in Specific[i].says, key \in IF Specific[i].keyed THEN Key ELSE {NoKey} :
        e.message = Line(says, 0, key)
  BY <1>2
<1>4. e.message.says = says /\ e.message.status = 0 /\ e.message.key = key
  BY <1>3 DEF Line
<1> QED BY <1>3, <1>4

(* A specific rule that matches matches the message. *)
LEMMA SpecificMatches ==
  ASSUME NEW e \in Errors, NEW text, text = Bounded(Raw(e)),
         NEW k \in DOMAIN Specific, NEW r, r = Specific[k], NEW i \in Matched(r, text)
  PROVE  text[i] = e.message /\ e.message.says \in r.says /\ Legible(e)
<1>0. r \in SpecificRules
  BY SpecificFirst
<1>1. i \in DOMAIN text /\ text[i].says \in r.says /\ (r.name \in Closing => i = Len(text))
  BY DEF Matched, Says
<1>2. text[i] # Elision
  BY <1>0, <1>1, SpecificRule DEF Elision, Plain, Line
<1>3. \A l \in Noise : l.says \notin r.says
  BY DiagnosisAssumption
<1>4. text[i] = e.message /\ Seen(e)
  BY <1>1, <1>2, <1>3, TextLines
<1>5. ASSUME e.message.says = "invalid_type" PROVE e.after = <<>>
  <2>1. i = Len(text)
    BY <1>0, <1>1, <1>4, <1>5, SpecificRule
  <2> QED BY <1>1, <1>3, <2>1, TextLines
<1> QED BY <1>1, <1>4, <1>5 DEF Legible

(* And the rule of a legible message does match it. *)
LEMMA LegibleMatches ==
  ASSUME NEW e \in Errors, NEW text, text = Bounded(Raw(e)), Legible(e),
         NEW r \in SpecificRules, e.message.says \in r.says, e.message.status = 0
  PROVE  Matched(r, text) # {}
<1>1. r.statuses = {0}
  BY SpecificRule
<1>2. CASE r.name \in Closing
  <2>1. e.message.says = "invalid_type"
    BY <1>2, SpecificRule
  <2>2. text[Len(text)] = e.message /\ Len(text) \in DOMAIN text
    BY <2>1, TextLines DEF Legible
  <2>3. Len(text) \in Matched(r, text)
    BY <1>1, <2>2 DEF Matched, Says
  <2> QED BY <2>3
<1>3. CASE r.name \notin Closing
  <2>1. PICK i \in DOMAIN text : text[i] = e.message
    BY TextLines DEF Legible
  <2>2. i \in Matched(r, text)
    BY <1>1, <1>3, <2>1 DEF Matched, Says
  <2> QED BY <2>2
<1> QED BY <1>2, <1>3

(* The hint for a failing tool's error is about its message, or has no key. *)
LEMMA HintIsExact == ASSUME NEW e \in Errors PROVE Exact(e, Clean(Raw(e)))
<1> DEFINE text == Bounded(Raw(e))
           win  == Winner(text)
           r    == RULES[win]
           at   == First(Matched(r, text))
           line == SalientLine(text)
           hint == Clean(Raw(e))
<1>1. /\ Len(text) \in Nat \ {0} /\ DOMAIN text = 1 .. Len(text)
      /\ \A i \in DOMAIN text : text[i] # Elision => \E j \in DOMAIN Raw(e) : text[i] = Raw(e)[j]
  BY TextLines
<1>2. win = 0 => hint.key = NoKey /\ hint.line = IF line = 0 THEN Unknown ELSE text[line]
  BY DEF Clean
<1>3. win # 0 => hint.line = text[at] /\ hint.key = IF r.keyed THEN text[at].key ELSE NoKey
  BY DEF Clean
<1>4. /\ win = 0 => Firing(text) = {}
      /\ win # 0 => /\ win \in DOMAIN RULES /\ \A i \in Firing(text) : win <= i
                    /\ at \in Matched(r, text)
  BY <1>1, WinnerMatches
<1>5. line = 0 \/ (line \in DOMAIN text /\ text[line].says \notin Frames)
  BY <1>1, SalientIsNoFrame
<1>6. PICK m \in DOMAIN Specific :
        /\ e.message.says \in Specific[m].says /\ e.message.status = 0
        /\ e.message.key = IF Specific[m].keyed THEN e.message.key ELSE NoKey
  BY MessageRule
<1>7. Specific[m] \in SpecificRules /\ RULES[m] = Specific[m] /\ m \in DOMAIN RULES
  BY SpecificFirst
<1> HIDE DEF text, win, r, at, line, hint
<1>8. ASSUME win # 0, win \in DOMAIN Specific
      PROVE  text[at] = e.message /\ Legible(e) /\ r = Specific[m]
  <2>1. text[at] = e.message /\ e.message.says \in r.says /\ Legible(e)
    BY <1>4, <1>8, SpecificFirst, SpecificMatches DEF text, r
  <2> QED BY <1>6, <1>7, <1>8, <2>1, SpecificFirst, Unambiguous DEF r
<1>9. CASE Legible(e)
  <2>1. m \in Firing(text)
    <3>1. Matched(Specific[m], text) # {}
      BY <1>6, <1>7, <1>9, LegibleMatches DEF text
    <3> QED BY <1>7, <3>1 DEF Firing
  <2>2. win # 0 /\ win <= m /\ win \in DOMAIN RULES
    BY <1>4, <2>1
  <2>3. win \in DOMAIN Specific
    BY <2>2, SpecificFirst
  <2>4. hint.line = e.message /\ hint.key = IF Specific[m].keyed THEN e.message.key ELSE NoKey
    BY <1>3, <1>8, <2>2, <2>3
  <2> QED BY <1>6, <1>9, <2>4 DEF Exact, hint
<1>10. CASE ~Legible(e)
  <2>1. CASE win = 0
    <3>1. line # 0 => text[line] # Elision
      BY <1>5 DEF Elision, Plain, Line, Frames
    <3> QED BY <1>1, <1>2, <1>5, <1>10, <2>1, <3>1 DEF Exact, hint
  <2>2. CASE win # 0
    <3>1. r \in Listed(NetworkRules)
      BY <1>4, <1>8, <1>10, <2>2, SpecificFirst DEF r
    <3>2. at \in DOMAIN text /\ text[at].says \in r.says
      BY <1>4, <2>2 DEF Matched, Says
    <3>3. hint.key = NoKey /\ hint.line = text[at] /\ text[at].says \notin Frames
      BY <1>3, <2>2, <3>1, <3>2, GenericRule DEF Frames
    <3>4. text[at] # Elision
      BY <3>3 DEF Elision, Plain, Line, Frames
    <3> QED BY <1>1, <1>10, <3>2, <3>3, <3>4 DEF Exact, hint
  <2> QED BY <2>1, <2>2
<1> QED BY <1>9, <1>10

(* The rule for unresolved references is the first of all.                 *)
LEMMA FirstRule ==
  /\ 1 \in DOMAIN RULES /\ DOMAIN RULES \subseteq Nat \ {0}
  /\ RULES[1] = Named("unresolved_reference", {"unresolved"})
<1>1. 1 \in DOMAIN Specific
  BY SpecificListed
<1>2. ProtocolRules[1] = Named("unresolved_reference", {"unresolved"})
  BY DEF ProtocolRules
<1> QED BY <1>1, <1>2, SpecificListed, SpecificFirst, Zenon

(* The hint for an unresolved reference has its key: its rule is the first *)
(* of all, and matches the only line there is.                             *)
LEMMA UnresolvableExact == ASSUME NEW key PROVE Unresolvable(key) = key
<1> DEFINE line == Line("unresolved", 0, key)
           text == <<line>>
<1>1. Len(text) = 1 /\ text[1] = line /\ DOMAIN text = {1}
  OBVIOUS
<1>2. line.says = "unresolved" /\ line.status = 0 /\ line.key = key
  BY DEF Line
<1> HIDE DEF text, line
<1>3. Bounded(text) = text
  BY <1>1, CleanerAssumption DEF Bounded
<1> DEFINE rule == RULES[1]
<1>4. /\ rule.name = "unresolved_reference" /\ rule.says = {"unresolved"}
      /\ rule.statuses = {0} /\ rule.keyed
  <2>1. rule = [name |-> "unresolved_reference", says |-> {"unresolved"},
                statuses |-> {0}, keyed |-> TRUE]
    BY FirstRule, Zenon DEF Named, Rule
  <2> HIDE DEF rule
  <2> QED BY <2>1
<1>5. rule.name \notin Closing
  BY <1>4 DEF Closing
<1>6. Matched(rule, text) = {1}
  BY <1>1, <1>2, <1>4, <1>5 DEF Matched, Says
<1>7. 1 \in Firing(text) /\ \A i \in Firing(text) : i \in Nat /\ 1 <= i
  <2>1. Matched(rule, text) # {}
    BY <1>6
  <2>2. 1 \in Firing(text)
    BY <2>1, FirstRule, Zenon DEF Firing
  <2>3. Firing(text) \subseteq Nat \ {0}
    BY FirstRule, Zenon DEF Firing
  <2> QED BY <2>2, <2>3
<1>8. Winner(text) = 1
  BY <1>7 DEF Winner, First
<1>9. First({1}) = 1
  BY DEF First
<1>10. Clean(text).key = key
  <2>1. First(Matched(rule, text)) = 1
    BY <1>6, <1>9
  <2> HIDE DEF rule
  <2>2. Clean(text).key = text[1].key
    <3> DEFINE name == RULES[1].name
               k    == IF RULES[1].keyed THEN text[1].key ELSE NoKey
    <3>1. Clean(text) = [rule |-> name, line |-> text[1], key |-> k]
      BY <1>3, <1>8, <2>1, 1 # 0, Zenon DEF Clean, rule
    <3>2. k = text[1].key
      BY <1>4, Zenon DEF rule
    <3> HIDE DEF k, name
    <3> QED BY <3>1, <3>2
  <2> QED BY <1>1, <1>2, <2>2
<1> QED BY <1>10 DEF Unresolvable, text, line

(* What the search starts from is the key of the tool's message. *)
Blames ==
  /\ pc = "fails" => rejected \in Key
  /\ pc = "search" => rejected = NoKey \/ origin = {<<Last, rejected>>}

(* Whatever step is next, the search starts from the key of the message. *)
LEMMA StepBlames ==
  ASSUME Structure, Traced, Blames, [DiagnosisNext]_diagnosis
  PROVE  Blames'
<1> USE DEF Blames
<1>1. ASSUME NEW doc \in Documents, StepRuns(doc) \/ ReferenceFails(doc) \/ StepSucceeds(doc)
      PROVE  Blames'
  BY <1>1 DEF StepRuns, ReferenceFails, StepSucceeds, Runs, CannotRun, Succeeds, References, Unresolved
<1>2. CASE StepFails
  <2>1. PICK o \in Outcomes :
          /\ pc = "runs" /\ rejected' = o[1]
          /\ IF o[2] = NoKey
             THEN pc' = "search" /\ UNCHANGED <<graph, search>>
             ELSE Fails(o[2])
    BY <1>2 DEF StepFails
  <2>2. PICK e \in Errors : o = <<IF Legible(e) THEN e.message.key ELSE NoKey, Clean(Raw(e)).key>>
    BY DEF Outcomes
  <2>3. Exact(e, Clean(Raw(e)))
    BY HintIsExact
  <2>4. o[1] = o[2]
    BY <2>2, <2>3 DEF Exact
  <2> QED BY <2>1, <2>4 DEF Fails, graph, Last
<1>3. CASE ReferenceTraced
  BY <1>3, UnresolvableExact DEF ReferenceTraced, Fails, graph, Last
<1>4. CASE Traces
  BY <1>4 DEF Traces, Visit, graph, Last
<1>5. ASSUME NEW s \in 1 .. MaxStep, Undoes(s) PROVE Blames'
  BY <1>5 DEF Undoes, Rewind
<1>6. CASE UNCHANGED diagnosis
  BY <1>6 DEF diagnosis, vars, graph, search, Last
<1> QED BY <1>1, <1>2, <1>3, <1>4, <1>5, <1>6 DEF DiagnosisNext

(* And a search from that key reaches the step that fed the argument. *)
LEMMA BlamesTraces == ASSUME Structure, Traced, Blames PROVE RejectedTraced
<1> SUFFICES ASSUME pc = "search", frontier = {}, NEW d \in edges, d.to = Last, d.target = rejected
             PROVE  root # 0 /\ root <= d.from
  BY DEF RejectedTraced
<1>1. d \in Edge /\ MaxStep \in Nat
  BY GraphAssumption DEF Structure, GraphTyped
<1>2. origin = {<<Last, rejected>>}
  BY <1>1, DiagnosisAssumption DEF Blames, Edge
<1>3. <<d.from, d.source>> \in Feeding(<<Last, rejected>>)
  BY DEF Feeding, Carried
<1>4. <<d.from, d.source>> \in visited
  BY <1>2, <1>3 DEF Traced, Tracing
<1> DEFINE steps == {y[1] : y \in visited}
<1>5. d.from \in steps
  BY <1>4
<1>6. steps \in SUBSET (1 .. MaxStep) /\ root = Earliest(steps)
  BY <1>4 DEF Traced, Tracing, Cells
<1> HIDE DEF steps
<1>7. root \in steps /\ root <= d.from
  BY <1>5, <1>6, EarliestIsLeast
<1> QED BY <1>1, <1>6, <1>7

(* Specific rules come before generic ones: whatever generic failures and   *)
(* stack frames stand around a tool's message, in errors of any length, the *)
(* hint is about the message and has its key, or has none when the message  *)
(* is not in what is looked at.                                             *)
THEOREM DiagnosedHintsExact == DiagnosisSpec => []HintsExact
<1>1. HintsExact
  BY HintIsExact DEF HintsExact, Misread
<1> QED BY <1>1, PTL

(* So the rollback reaches the step that fed the argument the tool rejected, *)
(* whatever the errors look like and whatever came before.                   *)
THEOREM DiagnosedRejectedTraced == DiagnosisSpec => []RejectedTraced
<1>1. DiagnosisInit => Blames
  BY DEF DiagnosisInit, Init, Blames
<1> QED BY <1>1, StepBlames, BlamesTraces, AlwaysTraced, PTL DEF DiagnosisSpec
=============================================================================
