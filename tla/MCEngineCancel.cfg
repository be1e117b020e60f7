SPECIFICATION FairSpec
CONSTANTS
  Faults = {"cancel"}
  MaxStep = 2
  MaxRuns = 2
  MaxEffects = 1
  MaxCrashes = 0
  MaxLoose = 1
PROPERTY Closes
CHECK_DEADLOCK FALSE
