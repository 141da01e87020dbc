SPECIFICATION SSpec
CONSTANTS
    Order <- MCOrder
    Values <- MCValues
    Default = 0
    Names = {n1, n2, n3}
    Missing = Missing
    NoLine = NoLine
    None = None
    MaxConfigs = 2
    MaxCommands = 5
    MaxFaults = 2
    MaxCrashes = 1
SYMMETRY MCSymmetry
INVARIANTS ActiveIsListed LoadedIsInForce FailedLoadIsUndone
PROPERTY NeverAMixture
CHECK_DEADLOCK FALSE
