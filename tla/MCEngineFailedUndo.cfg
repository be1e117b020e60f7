SPECIFICATION Spec
CONSTANTS
  Faults = {"undo"}
  MaxStep = 2
  MaxRuns = 2
  MaxEffects = 2
  MaxCrashes = 0
  MaxLoose = 1
INVARIANT FailedKeepsRecord
CHECK_DEADLOCK FALSE
