CONSTANTS
  Keys = {"region"}
  Values = {"a", "b"}
  Default = "a"
  MaxFrames = 3
  MaxLoads = 3
SPECIFICATION Spec
CHECK_DEADLOCK FALSE
INVARIANTS
  CoreOnOwnContext
  TexturesOwned
  NoStaleOption
  ShowsLatest
