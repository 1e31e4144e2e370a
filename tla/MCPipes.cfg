SPECIFICATION Spec
CONSTANTS
    Pipes = {1}
    Threads = {1, 2, 3}
    ProcOf <- Family
    First = "parent"
    Capacity = 2
    PIPE_BUF = 2
    MAX_EVENTS = 1
    Kinds = {"pipe", "socket"}
    Timed = {"read"}
    Uses <- Roles
    ReadSizes = {1}
    WriteSizes = {2}
CHECK_DEADLOCK FALSE
INVARIANTS
    RingSound
    NoMissedWake
    RunOnlyUnanswered
PROPERTIES
    OrphansReturn
