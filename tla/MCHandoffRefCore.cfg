CONSTANTS
  SlotCount = 3
  HonoursConsume = FALSE
  LastFrame = 8
  MaxFailures = 1
SPECIFICATION Spec
INVARIANTS
  NewFrameIntact
