CONSTANTS
  AnchorCount = 3
  ActiveSlots = 3
  MissThreshold = 3
  Disturbed = {0, 2}
SPECIFICATION FairSpec
INVARIANTS TypeOK InStep NoCollision
PROPERTIES LockIsStable Converges
