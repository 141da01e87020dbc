SPECIFICATION Spec
CONSTANTS
    MaxCommands = 2
    MaxUploads = 1
    MaxFaults = 1
    MaxBoots = 0
INVARIANTS
    SuspendedIsIdle
    OffForAReason
PROPERTIES
    EnabledIsServed
    DisabledIsSuspended
CHECK_DEADLOCK FALSE
