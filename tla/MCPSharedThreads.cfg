SPECIFICATION Spec
CONSTANTS
    Procs = {p1, p2}
    Threads = {p1, p2, t3}
    ProcOf <- TwoFirst
    NoPid = NoPid
    MTypes = {"normal", "errorcheck"}
    Counts = {2}
    Careless = TRUE
    MaxIds = 2
    MaxDepth = 1
    MaxArrivals = 5
CHECK_DEADLOCK FALSE
INVARIANTS
    QueuesInOrder
    GoneLeavesNothing
