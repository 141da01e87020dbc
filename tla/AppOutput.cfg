SPECIFICATION OSpec
CONSTANTS
    HealthyMin = 1
    HbInterval = 1
    HbTimeout = 2
    OriginAfter = 2
    Retry = 1
    Resend = 2
    RfStale = 1
    Dropout = 1
    MaxChanges = 1
INVARIANTS
    OriginIsTimely
    HeightKeepsComing
PROPERTY OriginAfterHealthySpell
