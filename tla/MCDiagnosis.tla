----------------------------- MODULE MCDiagnosis -----------------------------
EXTENDS Diagnosis
CONSTANTS id, user, v, flag

(* "user_id" takes a value from "user_id" and from "id". *)
MCLinks == {<<id, id>>, <<user, user>>, <<user, id>>}

(* A value under each key, one value under both, and a key with a value     *)
(* that does not link.                                                      *)
MCDocuments == {{<<id, v>>}, {<<user, v>>}, {<<id, v>>, <<user, v>>}, {<<id, v>>, <<user, flag>>}}

MCNoise == {Plain("at"), Plain("Caused_by"), Plain("exception"), Plain("timed_out"),
            Line("HTTP", 503, NoKey), Line("returned", 404, NoKey)}
=============================================================================
