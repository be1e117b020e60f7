SPECIFICATION Spec
CONSTANTS
  Key = {k1, k2}
  Val = {v1, v2}
  Absent = Absent
  Steps <- MCSteps
  MaxSeq = 4
  ReopenAfterGap = FALSE
INVARIANT JournalInv
PROPERTY RewindsExactly
