---------------------------- MODULE MCRecordTools ----------------------------
EXTENDS RecordTools, TLC
CONSTANTS user, order
MCReferences == [k \in Rows |-> IF k = order THEN {user} ELSE {}]
TxSymmetry   == Permutations(Tx \ Rewinders)
=============================================================================
