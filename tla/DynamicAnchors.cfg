CONSTANTS
  AvgSamples = 2
  Stale = 2
  Interval = 2
  Lockable = {"x", "upper"}
  MaxEpoch = 1
  MaxCommands = 2
  MaxFaults = 2
SPECIFICATION Spec
INVARIANTS LockHolds LiveIsRecent Follows
