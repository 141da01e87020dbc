CONSTANTS
  Anchors <- MCAnchors
  Configs <- MCConfigs
  MinMeasurements = 2
  MinUnique = 3
  MaxSpan = 1
  StaleAge = 2
  NotifyAt = 2
SPECIFICATION Spec
INVARIANTS TypeOK CountMatchesSlots BatchIsSolvable NothingOutdatedIsTaken
