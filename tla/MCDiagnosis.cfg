SPECIFICATION DiagnosisSpec
CONSTANTS
  id = id
  user = user
  v = v
  flag = flag
  Key = {id, user}
  NoKey = NoKey
  Val = {v, flag}
  Linkable = {v}
  Links <- MCLinks
  MaxStep = 3
  Documents <- MCDocuments
  MaxLines = 4
  MaxAround = 3
  Noise <- MCNoise
INVARIANT GraphInv
INVARIANT RootCauseExact
INVARIANT HintsExact
INVARIANT RejectedTraced
CHECK_DEADLOCK FALSE
