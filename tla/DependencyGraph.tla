--------------------------- MODULE DependencyGraph ---------------------------
(***************************************************************************)
(* The data-flow graph of one transaction (ledger/dependency_graph.rs) as  *)
(* the engine drives it: a step is added with its inputs and references,   *)
(* its output is recorded when it succeeds, the search for the root cause  *)
(* runs when it fails, and a rewind truncates.                             *)
(*                                                                         *)
(* The scalar leaves of a JSON document are a set of key-value pairs: the  *)
(* same key may occur with several values.  Keys are equal up to case.     *)
(***************************************************************************)
EXTENDS Integers, Sequences

CONSTANTS Key, Val,
          Linkable,     \* values other than booleans, nulls and empty strings
          Links,        \* keys_link, as pairs of an input key and an output key
          Documents,    \* bound: the inputs and outputs steps may have
          MaxStep       \* bound: steps

ASSUME GraphAssumption == /\ Linkable \subseteq Val
                          /\ Links \subseteq Key \X Key
                          /\ \A k \in Key : <<k, k>> \in Links
                          /\ Documents \subseteq SUBSET (Key \X Val)
                          /\ MaxStep \in Nat

VARIABLES nodes,       \* the inputs and outputs of steps 1, 2, ...
          edges,       \* the labelled edges
          pc,          \* what the last step is doing
          origin, frontier, visited, root   \* find_root_cause: where it starts, its
                                            \* locals; root 0 is None

graph  == <<nodes, edges>>
search == <<origin, frontier, visited, root>>
vars   == <<graph, pc, search>>

Keys(doc) == {l[1] : l \in doc}
Last      == Len(nodes)
Earliest(ns) == CHOOSE n \in ns : \A m \in ns : n <= m
Latest(ns)   == CHOOSE n \in ns : \A m \in ns : m <= n

Init == /\ nodes = <<>> /\ edges = {} /\ pc = "idle"
        /\ origin = {} /\ frontier = {} /\ visited = {} /\ root = 0
-----------------------------------------------------------------------------
(* resolve_references: a reference takes an earlier step's output, or the  *)
(* part of it a path names, to an argument, and its edge has the keys of    *)
(* both, which need not be keys of leaves; one whose path does not exist is *)
(* recorded under the missing key, and the step fails.  A step has at most  *)
(* one reference here.                                                     *)
References == [from : 1 .. Last, source : Key, target : Key]
Unresolved == {d \in References : d.source = d.target}

(* add_step: an input leaf that is no reference is linked to the most      *)
(* recent step with an output leaf of equal value and a fitting key.       *)
Offers(p, leaf)  == {s \in Key : <<s, leaf[2]>> \in nodes[p].outputs /\ <<leaf[1], s>> \in Links}
Producers(leaf)  == {p \in 1 .. Last : Offers(p, leaf) # {}}
Linked(inputs, refs) ==
  {l \in inputs : l[1] \notin {d.target : d \in refs} /\ l[2] \in Linkable /\ Producers(l) # {}}

AddStep(inputs, refs) ==
  /\ pc = "idle" /\ Last < MaxStep
  /\ nodes' = Append(nodes, [inputs |-> inputs, outputs |-> {}])
  /\ \E source \in [Linked(inputs, refs) -> Key] :
       /\ \A l \in DOMAIN source : source[l] \in Offers(Latest(Producers(l)), l)
       /\ edges' = edges
            \cup {[from |-> d.from, to |-> Last + 1, source |-> d.source,
                   target |-> d.target, kind |-> "explicit"] : d \in refs}
            \cup {[from |-> Latest(Producers(l)), to |-> Last + 1, source |-> source[l],
                   target |-> l[1], kind |-> "implicit"] : l \in DOMAIN source}
  /\ UNCHANGED search

Runs(inputs) == /\ \E refs \in {{}} \cup {{d} : d \in References} : AddStep(inputs, refs)
                /\ pc' = "runs"
CannotRun(inputs, d) == /\ d \in Unresolved /\ AddStep(inputs, {d})
                        /\ pc' = "fails"

(* record_output. *)
Succeeds(outputs) ==
  /\ pc = "runs"
  /\ nodes' = [nodes EXCEPT ![Last].outputs = outputs]
  /\ pc' = "idle"
  /\ UNCHANGED <<edges, search>>

(* find_root_cause(last step, key): the start, and one round of its loop.  *)
Carried(n, k) == {k} \cup {l[1] : l \in {m \in nodes[n].inputs :
                                          m[2] \in Linkable /\ <<k, m[2]>> \in nodes[n].outputs}}
Feeding(x) == {<<e.from, e.source>> :
                 e \in {d \in edges : d.to = x[1] /\ d.target \in Carried(x[1], x[2])}}

Fails(key) ==
  /\ pc \in {"runs", "fails"}
  /\ pc' = "search"
  /\ origin' = {<<Last, key>>} /\ frontier' = origin'
  /\ UNCHANGED <<graph, visited, root>>

VisitLatest ==
  \E x \in frontier :
    LET fresh == Feeding(x) \ visited
    IN  /\ frontier' = (frontier \ {x}) \cup fresh
        /\ visited' = visited \cup fresh
        /\ root' = IF fresh = {} THEN root ELSE Latest({n[1] : n \in fresh} \cup {root})
        /\ UNCHANGED <<graph, pc, origin>>
Visit ==
  \E x \in frontier :
    LET fresh == Feeding(x) \ visited
    IN  /\ frontier' = (frontier \ {x}) \cup fresh
        /\ visited' = visited \cup fresh
        /\ root' = IF fresh = {} THEN root
                   ELSE Earliest({n[1] : n \in fresh} \cup ({root} \ {0}))
        /\ UNCHANGED <<graph, pc, origin>>

(* A rewind to just before step s, and truncate_from(s) with it: by the    *)
(* controller once it has the root cause, for a failure that names no key, *)
(* after an infrastructure error, or on request.                           *)
RewindKeepsEdges(s) ==
  /\ s \in 1 .. Last /\ frontier = {}
  /\ nodes' = SubSeq(nodes, 1, s - 1)
  /\ edges' = {e \in edges : e.from < s}
  /\ pc' = "idle" /\ origin' = {} /\ visited' = {} /\ root' = 0
  /\ UNCHANGED frontier
Rewind(s) ==
  /\ s \in 1 .. Last /\ frontier = {}
  /\ nodes' = SubSeq(nodes, 1, s - 1)
  /\ edges' = {e \in edges : e.from < s /\ e.to < s}
  /\ pc' = "idle" /\ origin' = {} /\ visited' = {} /\ root' = 0
  /\ UNCHANGED frontier

Next == \/ \E doc \in Documents : Runs(doc) \/ Succeeds(doc) \/ \E d \in References : CannotRun(doc, d)
        \/ \E k \in Key : Fails(k)
        \/ Visit
        \/ \E s \in 1 .. MaxStep : Rewind(s)

Spec == Init /\ [][Next]_vars
-----------------------------------------------------------------------------
Cells == (1 .. MaxStep) \X Key
TypeOK ==
  /\ nodes \in Seq([inputs : SUBSET (Key \X Val), outputs : SUBSET (Key \X Val)])
  /\ Last <= MaxStep
  /\ edges \subseteq [from : 1 .. MaxStep, to : 1 .. MaxStep, source : Key, target : Key,
                      kind : {"explicit", "implicit"}]
  /\ pc \in {"idle", "runs", "fails", "search"}
  /\ origin \subseteq Cells /\ frontier \subseteq Cells /\ visited \subseteq Cells /\ root \in 0 .. MaxStep

(* The graph describes the steps that are there, whatever was rewound and   *)
(* run again with other data: edges lead from a step to a later one, and an *)
(* implicit edge stands for a value the producer still has under its key,   *)
(* and no step in between offers.                                           *)
Flows(e) ==
  \E v \in Linkable :
    /\ <<e.target, v>> \in nodes[e.to].inputs
    /\ e.source \in Offers(e.from, <<e.target, v>>)
    /\ \A p \in (e.from + 1) .. (e.to - 1) : Offers(p, <<e.target, v>>) = {}
EdgesDescribe ==
  /\ \A e \in edges : e.from < e.to /\ e.to <= Last
  /\ \A e \in edges : e.kind = "implicit" => Flows(e)
GraphInv == TypeOK /\ EdgesDescribe

(* "Return the earliest producer reached": when the search ends, its result *)
(* is the earliest step in the least set of (step, key) pairs that contains *)
(* whatever feeds the failed step's key and whatever feeds its members.     *)
ClosedFor(S) == \A x \in S \cup origin : x[1] <= Last => Feeding(x) \subseteq S
Reached == {y \in Cells : \A S \in SUBSET Cells : ClosedFor(S) => y \in S}
RootCauseExact ==
  pc = "search" /\ frontier = {} =>
    root = IF Reached = {} THEN 0 ELSE Earliest({y[1] : y \in Reached})
=============================================================================
