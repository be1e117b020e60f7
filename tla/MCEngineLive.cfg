SPECIFICATION FairSpec
CONSTANTS
  Faults = {"crash", "undo"}
  MaxStep = 2
  MaxRuns = 3
  MaxEffects = 2
  MaxCrashes = 2
  MaxLoose = 1
PROPERTY Closes
CHECK_DEADLOCK FALSE
