CONSTANTS
  N = 3
  SeqMod = 2
  BucketMax = 1
  RemoteValidity = 5
  TofValidity = 9
  MaxSlot = 24
  MaxFaults = 3
SPECIFICATION Spec
INVARIANTS SamePacket RemoteIsRecent Recovers
PROPERTY ClockIsHeld
CHECK_DEADLOCK FALSE
