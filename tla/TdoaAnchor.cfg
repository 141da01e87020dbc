CONSTANTS
  AnchorCount = 2
  ActiveSlots = 2
  MissThreshold = 3
  Disturbed = {0}
  PidMod = 4
SPECIFICATION RFairSpec
INVARIANT DistanceHasReception
PROPERTIES AllPairsRanged
