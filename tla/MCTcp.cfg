CONSTANTS
  Delays = {0, 2}
  DefaultPrediction = 8
  MaxInputs = 1
SPECIFICATION FairSpec
INVARIANTS
  WsaBalanced
  StartAgrees
  FramesIntact
PROPERTIES
  PartnerLossNoticed
