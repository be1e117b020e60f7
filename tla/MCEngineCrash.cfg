SPECIFICATION Spec
CONSTANTS
  Faults = {"crash"}
  MaxStep = 2
  MaxRuns = 2
  MaxEffects = 2
  MaxCrashes = 1
  MaxLoose = 1
INVARIANT RecoveryCompensates
CHECK_DEADLOCK FALSE
