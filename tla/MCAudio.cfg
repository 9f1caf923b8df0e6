CONSTANTS
  PoolSize = 3
  Target = 5
  Chunk = 2
  MaxStarvations = 1
SPECIFICATION FairSpec
INVARIANTS
  BacklogExact
  VoiceBuffersIntact
  NoSubmitAfterClose
  PullFits
PROPERTIES
  PlaysOn
