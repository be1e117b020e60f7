SPECIFICATION FairSession
CONSTANTS
  MaxLocalDepth = 2
  MaxGlobalResets = 1
  MaxStep = 3
  MaxFree = 2
  MaxFaults = 1
  Budget <- MCBudget
INVARIANT ControllerInv
INVARIANT SessionInv
PROPERTY StrategiesBounded
PROPERTY RunsOnPlan
PROPERTY CommitsWhole
 
CHECK_DEADLOCK FALSE
