SPECIFICATION Spec
CONSTANTS
    mac = mac
    laptop = laptop
    restart = restart
    sample = sample
    upload_logs = upload_logs
    AnyDevice = AnyDevice
    Restart = restart
    WatchdogOnly = {sample}
    TTL = 2
    RecentMs = 1
    Devices = {mac, laptop}
    Verbs = {restart, sample}
    MaxDirectives = 1
    MaxBatches = 1
    MaxWire = 1
    MaxTime = 5
SYMMETRY Machines
INVARIANTS
    TypeOK
    HandedOnce
    AckedWasRun
