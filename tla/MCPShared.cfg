SPECIFICATION Spec
CONSTANTS
    Procs = {p1, p2, p3}
    Threads = {p1, p2, p3}
    ProcOf <- OneEach
    NoPid = NoPid
    MTypes = {"normal", "recursive"}
    Counts = {2}
    Careless = FALSE
    MaxIds = 3
    MaxDepth = 2
    MaxArrivals = 3
SYMMETRY Sym
CHECK_DEADLOCK FALSE
INVARIANTS
    MutualExclusion
    HoldersAgree
    QueuesSound
