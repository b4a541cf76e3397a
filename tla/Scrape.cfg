SPECIFICATION PlainThirdSpec
CONSTANTS
  Ids <- TwoAndOne
  SourceList <- TwoSources
  SourceOf <- MCSourceOf
  Pairs <- CrossPairs
  AlwaysOpen <- FirstOpen
  NewCap = 1
  RefreshCap = 1
  MinAge = 0
  StaleWindow = 0
  OldWindow = 0
  MaxTime = 1
  MaxRuns = 3
INVARIANTS
  HistoryTold
  DuplicatesExact
PROPERTIES
  RemovedWithCause
CHECK_DEADLOCK FALSE
