SPECIFICATION FairSpec
CONSTANTS
  f1 = f1
  f2 = f2
  k1 = k1
  k2 = k2
  k3 = k3
  claude = claude
  Files = {f1, f2}
  Sources = {claude}
  SourceOf <- MCSourceOf
  Keys = {k1, k2, k3}
  MinGen <- MCMinGen
  Invalid = {k3}
  NoFile = NoFile
  BatchSize = 2
  Attempts = 1
  AllowRollback = FALSE
  Logs <- MCLogs
  MaxGen = 2
  MaxCrashes = 1
  MaxLate = 1
INVARIANTS
  TypeOK
  OffsetsCovered
  NothingHidden
PROPERTIES
  RefinesLedger
  Delivered
