SPECIFICATION FairSpec
CONSTANTS
    Consoles = {console}
    ServiceConfigs = {c1, c2}
    BootConfig = c1
    MaxRequests = 2
PROPERTIES DeleteOnlyOutside ModeApplied
CHECK_DEADLOCK FALSE
