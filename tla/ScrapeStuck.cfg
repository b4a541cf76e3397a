SPECIFICATION Spec
CONSTANTS
  Ids <- TwoOfOne
  SourceList <- OneSource
  SourceOf <- MCSourceOf
  Pairs <- NoPairs
  AlwaysOpen <- NoIds
  NewCap = 2
  RefreshCap = 1
  MinAge = 0
  StaleWindow = 9
  OldWindow = 9
  MaxTime = 2
  MaxRuns = 3
INVARIANTS DocumentedRotation
CHECK_DEADLOCK FALSE
