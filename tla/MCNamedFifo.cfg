SPECIFICATION FairSpec
CONSTANTS
    Threads = {t1, t2, t3, t4}
    Capacity = 2
    MaxNames = 2
CHECK_DEADLOCK FALSE
INVARIANTS
    EndsCounted
    Rendezvous
    FreedWhenUnused
    HangupRight
PROPERTIES
    OpenReturns
