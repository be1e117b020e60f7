----------------------------- MODULE Diagnosis -----------------------------
(***************************************************************************)
(* From a tool's raw error to the step a failure is traced to: run_step    *)
(* and handle_failure (engine/mod.rs) give the error to the cleaner, and   *)
(* the key of its hint to the search in the dependency graph.              *)
(*                                                                         *)
(* The error is the tool's own message, about one of its arguments or      *)
(* about none, somewhere between lines that libraries and runtimes added.  *)
(***************************************************************************)
EXTENDS DependencyGraph, ErrorCleaner

CONSTANTS Noise,         \* what the lines around the message may be
          MaxAround      \* bound: lines before it, and after it

VARIABLE rejected        \* the key the message of the failed step is about, NoKey if there is
                         \* none or it is not in the part of the error that is looked at

diagnosis == <<vars, rejected>>

Specific == ProtocolRules \o SqlRules \o PayloadRules \o FileRules
Messages == UNION {{Line(says, 0, key) : says \in Specific[i].says,
                                         key \in IF Specific[i].keyed THEN Key ELSE {NoKey}}
                   : i \in DOMAIN Specific}

(* The lines around a message are generic: no specific rule looks for them. *)
ASSUME DiagnosisAssumption ==
  /\ NoKey \notin Key /\ MaxAround \in Nat
  /\ \A l \in Noise, i \in DOMAIN Specific : l.says \notin Specific[i].says

Around   == {[i \in 1 .. n |-> l] : n \in 0 .. MaxAround, l \in Noise}
Errors   == [before : Around, message : Messages, after : Around]
Raw(e)   == e.before \o <<e.message>> \o e.after

(* What is looked at: all, or the first quarter and the last three.        *)
Length(e)  == Len(e.before) + 1 + Len(e.after)
Seen(e)    == \/ Length(e) <= MaxLines
              \/ Len(e.before) < MaxLines \div 4 \/ Len(e.after) < 3 * (MaxLines \div 4)

(* A pattern of the rules matches the message where it stands: the one of  *)
(* type_mismatch only on the last line.                                    *)
Legible(e) == Seen(e) /\ (e.message.says = "invalid_type" => e.after = <<>>)

(* The errors a failing tool returns, by the key of the message and that   *)
(* of the hint.                                                            *)
Outcomes   == {<<IF Legible(e) THEN e.message.key ELSE NoKey, Clean(Raw(e)).key>> : e \in Errors}
Unresolvable(key) == Clean(<<Line("unresolved", 0, key)>>).key

DiagnosisInit == Init /\ rejected = NoKey

StepRuns(doc)     == Runs(doc) /\ UNCHANGED rejected
StepSucceeds(doc) == Succeeds(doc) /\ UNCHANGED rejected

(* A reference that cannot be resolved fails the step before its tool runs. *)
ReferenceFails(doc) == \E d \in References : CannotRun(doc, d) /\ rejected' = d.target

(* handle_failure: no search for a hint without a key. *)
StepFails ==
  \E o \in Outcomes :
    /\ pc = "runs" /\ rejected' = o[1]
    /\ IF o[2] = NoKey
       THEN pc' = "search" /\ UNCHANGED <<graph, search>>
       ELSE Fails(o[2])
ReferenceTraced == /\ pc = "fails" /\ Fails(Unresolvable(rejected))
                   /\ UNCHANGED rejected
Traces == Visit /\ UNCHANGED rejected
Undoes(s) == Rewind(s) /\ rejected' = NoKey

DiagnosisNext == \/ \E doc \in Documents : StepRuns(doc) \/ ReferenceFails(doc) \/ StepSucceeds(doc)
                 \/ StepFails \/ ReferenceTraced \/ Traces
                 \/ \E s \in 1 .. MaxStep : Undoes(s)

DiagnosisSpec == DiagnosisInit /\ [][DiagnosisNext]_diagnosis
-----------------------------------------------------------------------------
(* "Specific rules come before generic ones": the hint for a step that may *)
(* fail is about the tool's own message and has its key, whatever generic  *)
(* failures and stack frames stand around it in the part of the error that *)
(* is kept; without it, the hint has no key and is about a line of the     *)
(* error.                                                                  *)
Exact(e, hint) ==
  IF Legible(e) THEN hint.line = e.message /\ hint.key = e.message.key
  ELSE /\ hint.key = NoKey
       /\ \/ \E i \in DOMAIN Raw(e) : hint.line = Raw(e)[i] /\ hint.line.says \notin Frames
          \/ hint.line = Unknown
Misread    == {e \in Errors : ~Exact(e, Clean(Raw(e)))}
HintsExact == pc = "runs" => Misread = {}

(* A step that fed the rejected argument is undone with what came after:   *)
(* the search ends at such a step or at an earlier one.                     *)
RejectedTraced ==
  pc = "search" /\ frontier = {} =>
    \A d \in edges : d.to = Last /\ d.target = rejected => root # 0 /\ root <= d.from
=============================================================================
