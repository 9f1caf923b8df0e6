CONSTANTS
  idle = idle
  press = press
  Inputs <- MCInputs
  Neutral <- idle
  Feeds <- MCFeeds
  MaxPrediction = 1
  ChecksumEvery = 2
  HoldOnStall = FALSE
  SavesFail = FALSE
  MaxFrame = 5
  MaxInFlight = 2
SPECIFICATION Spec
INVARIANT Convergence
CHECK_DEADLOCK FALSE
