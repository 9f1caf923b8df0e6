CONSTANTS
  idle = idle
  press = press
  Inputs <- MCInputs
  Neutral <- idle
  Feeds <- MCFeeds
  MaxPrediction = 1
  ChecksumEvery = 2
  HoldOnStall = TRUE
  SavesFail = FALSE
  MaxFrame = 5
  MaxInFlight = 2
SPECIFICATION FairSpec
INVARIANTS
  TypeOK
  RollbackPossible
  RingOnTimeline
  InputsOnTimeline
  Convergence
  NoFalseDesync
  RollbackBudget
PROPERTIES
  ImplementsLockstep
  Progress
CHECK_DEADLOCK FALSE
