--------------------------- MODULE MCUndoJournal ---------------------------
EXTENDS UndoJournal
MCSteps == 0 .. 2
=============================================================================
