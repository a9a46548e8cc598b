SPECIFICATION FairSpec
CONSTANTS
  Builds = {b1, b2, b3}
  Broken = {b2}
  Unbootable = {b3}
  None = none
  Torn = torn
  Endpoints = {home, away}
  HomeEndpoint = home
  DOWNLOAD_ATTEMPTS = 2
  FUSE_RESPAWNS = 2
  Tamper = FALSE
  MaxReleases = 2
  MaxMishaps = 1
INVARIANTS
  TypeOK
  AlwaysRunnable
PROPERTIES
  Converges
  Migrates
