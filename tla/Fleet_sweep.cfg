SPECIFICATION FairSpec
CONSTANTS
    s1 = s1
    s2 = s2
    Sweeps = {s1}
    HasWatchdog = TRUE
    Capable = TRUE
    Interval = 2
    Missed = 2
    DAEMON_LATE = 1
    DAEMON_WEDGE = 1
    WATCHDOG_FRESH = 1
    DUAL_DARK = 2
    PRE_WATCHDOG_DARK = 4
    BORN_DARK_SLOP = 0
    CRASH_LOOP_THRESHOLD = 1
    ALERT_STATE_MIN_AGE = 1
    ALERT_DEDUP = 2
    Never = Never
    MaxPost = 1
    MaxUpsets = 2
INVARIANTS
    TypeOK
    OnePage
PROPERTIES
    WorkingNotRestarted
    SickIsPaged
