SPECIFICATION FairSpec
CONSTANTS
    Files = {f1}
    Procs = {p1, p2}
    Ofds = {d1, d2}
    MaxOffset = 1
    MaxRecords = 4
    Fds = {0}
    FdFlags <- CloseOnExecAndFork
    LockKinds = {"Process", "Flock"}
    MaxInFlight = 0
    MaxFailedOpens = 0
    MaxParked = 2
CHECK_DEADLOCK FALSE
INVARIANTS
    UpgradesProceed
PROPERTIES
    NoStarvedWaiter
