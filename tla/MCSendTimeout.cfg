SPECIFICATION Spec
CONSTANTS
    Pipes = {1}
    Threads = {1, 2, 3}
    ProcOf <- Family
    First = "parent"
    Capacity = 2
    PIPE_BUF = 2
    MAX_EVENTS = 2
    Kinds = {"pipe", "socket"}
    Timed = {"read", "write"}
    Uses <- Roles
    ReadSizes = {1}
    WriteSizes = {2}
INVARIANT RunOnlyUnanswered
CHECK_DEADLOCK FALSE
