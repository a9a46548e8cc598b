SPECIFICATION FairSpec
CONSTANTS
  TimeOf <- MCTimeOf
  Owned <- MCOwned
  PageSize = 1
  MaxPages = 2
  MaxEvents = 6
  MaxCrashes = 1
  MaxClears = 2
INVARIANTS
  TypeOK
  WatermarkCovered
PROPERTY Imported
