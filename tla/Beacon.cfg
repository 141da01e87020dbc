SPECIFICATION FairSpec
CONSTANTS
    Configs = {c1, c2}
    None = None
    SeqMod = 6
    Capacity = 2
    MaxAnswers = 1
    MaxChanges = 2
INVARIANT TdoaUnderItsConfig
PROPERTIES KeepsPromise Configured
