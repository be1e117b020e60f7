SPECIFICATION Spec
CONSTANTS
  Faults <- MCAllFaults
  MaxStep = 2
  MaxRuns = 3
  MaxEffects = 2
  MaxCrashes = 2
  MaxLoose = 1
INVARIANT EngineInv
INVARIANT EffectsMatchState
INVARIANT Recoverable
INVARIANT OutboxSound
INVARIANT PublishedWhole
INVARIANT FailedOnRecord
PROPERTY NewestFirst
PROPERTY CommitFinal
PROPERTY FollowsStatus
CHECK_DEADLOCK FALSE
