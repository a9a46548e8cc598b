SPECIFICATION FairSpec
CONSTANTS
  MaxTime = 4
  PageSize = 2
  Batch = 2
  IncrementalPages = 1
  BackfillPages = 1
  FullPages = 2
  OVERLAP = 1
  MonthStart = 3
  LocalTime <- MCLocalTime
  LocalEnabled = FALSE
  MaxTrouble = 1
INVARIANTS
  NothingSkipped
PROPERTIES
  Imported
