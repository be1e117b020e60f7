SPECIFICATION Spec
CONSTANTS
  Absent = Absent
  Torn = Torn
  Bases = {Absent, Old}
  Faults = {"io", "crash"}
  MaxAttempts = 2
  MaxRuns = 2
  MaxCrashes = 1
INVARIANT CleanRecoveryRestores
CHECK_DEADLOCK FALSE
