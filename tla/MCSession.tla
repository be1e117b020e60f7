------------------------------ MODULE MCSession ------------------------------
EXTENDS Session

(* The budget for a factor small enough for long failure sequences to      *)
(* exceed it.                                                              *)
MCBudget == [n \in 0 .. MaxStep |-> ReplayBudget(1, n)]
=============================================================================
