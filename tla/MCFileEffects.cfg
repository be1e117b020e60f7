SPECIFICATION Spec
CONSTANTS
  Absent = Absent
  Torn = Torn
  Bases = {Absent, Old}
  Faults = {"io", "store", "delete", "timeout", "cancel", "crash"}
  MaxAttempts = 2
  MaxRuns = 3
  MaxCrashes = 2
INVARIANT FilesInv
INVARIANT NeverTorn
CHECK_DEADLOCK FALSE
