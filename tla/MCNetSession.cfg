CONSTANTS
  idle = idle
  press = press
  Inputs <- MCInputs
  Neutral <- idle
  Feeds <- MCFeeds
  Delay = 3
  ChecksumEvery = 2
  HoldOnWait = TRUE
  MaxWaits = 1
  MaxFrame = 8
SPECIFICATION FairSpec
INVARIANTS
  NoInputLost
  
  BoundedLead
PROPERTIES
  ImplementsLockstep
  Progress
CHECK_DEADLOCK FALSE
