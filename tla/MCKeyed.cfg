CONSTANTS
  SlotCount = 3
  MaxGeneration = 3
SPECIFICATION FairHandoff
INVARIANTS
  CoreOnCurrentSet
  ReadsNewFrame
PROPERTIES
  DisplayGoesOn
