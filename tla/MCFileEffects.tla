--------------------------- MODULE MCFileEffects ---------------------------
(* Instance: a path that may or may not exist at first. *)
EXTENDS FileEffects
=============================================================================
