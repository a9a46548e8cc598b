SPECIFICATION FairSpec
CONSTANTS
  MIRRORED_ASSETS <- MCAssets
  REQUIRED_ASSETS = {"arm64"}
  MaxTag = 2
  MaxChanges = 2
  MaxFaults = 1
  MaxRestarts = 1
INVARIANTS
  CopiesTrue
PROPERTIES
  ManifestLast
  ManifestCatchesUp
