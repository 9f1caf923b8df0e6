CONSTANTS
  SlotCount = 2
  SwapImages = 2
  Sizes = {"small", "large"}
  MaxFailures = 2
SPECIFICATION Spec
CHECK_DEADLOCK FALSE
INVARIANTS
  OwnedOnce
  UploadFits
