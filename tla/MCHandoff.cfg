CONSTANTS
  SlotCount = 3
  HonoursConsume = TRUE
  LastFrame = 6
  MaxFailures = 1
SPECIFICATION FairSpec
INVARIANTS
  NewFrameIntact
  SignalsIncrease
PROPERTIES
  LastFrameShown
