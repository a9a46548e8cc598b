SPECIFICATION FairSpec
CONSTANTS
    p1 = p1
    p2 = p2
    Pids = {p1, p2}
    NoPid = NoPid
    StaleRuns = 3
    GraceRuns = 4
    MarkerIgnore = 4
    FuseRespawns = 1
    FuseWindow = 1
    UnlatchFresh = 0
    Slop = 0
    KickstartRuns = 1
    TickRuns = 1
    UpdateRuns = 2
    Legacy = TRUE
    Sleeps = {1, 4}
    JournalAge = 1
    MaxFaults = 1
INVARIANTS
    TypeOK
    WarnedFirst
PROPERTIES
    HealthySpared
    OutageEnds
