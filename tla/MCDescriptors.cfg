SPECIFICATION Spec
CONSTANTS
    Files = {f1}
    Procs = {p1, p2}
    Ofds = {d1, d2}
    MaxOffset = 1
    MaxRecords = 1
    Fds = {0, 1}
    FdFlags <- NoFlags
    LockKinds = {"Process", "Ofd"}
    MaxInFlight = 1
    MaxFailedOpens = 1
    MaxParked = 0
SYMMETRY Sym
CHECK_DEADLOCK FALSE
INVARIANTS
    TablesSound
    HandleAccounting
    LocksHaveOwner
PROPERTIES
    SharedLockSurvives
