CONSTANTS
  Cores <- MCCores
  Presenting <- MCPresenting
  TakesContent <- MCTakesContent
  Serializes <- MCSerializes
  Contents = {"a"}
  Nothing = "nothing"
  Limits = {0}
  DefaultLimit = 2
  MaxTime = 3
SPECIFICATION Spec
INVARIANTS
  LifecycleConsistent
  NoDangling
  FrozenFrameCurrent
  RewindHistory
