------------------------------ MODULE MCEngine ------------------------------
EXTENDS Engine
MCAllFaults == {"crash", "store", "undo", "dispatch", "cancel", "linger"}
=============================================================================
