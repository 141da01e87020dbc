SPECIFICATION Spec
CONSTANTS
    first = first
    other = other
    Counts = {1, 2}
    Pairs <- MCPairs
    ActivePairs <- MCActivePairs
    MinSamples = 1
    MaxSamples = 2
    HealthWindow = 2
    HealthQuorum = 1
    MaxVersion = 2
    MaxWrites = 1
    MaxBoots = 1
INVARIANTS
    LockedIsWhole
    PersistedIsStored
    WrongDomainIsCaught
PROPERTY LockSurvives
