SPECIFICATION Spec
CONSTANTS
    Procs = {p1, p2}
    Uid <- OwnUid
    Gid <- OneGid
    Keys = {1}
    IPC_PRIVATE = 0
    Modes <- Shared
    NSems = {2}
    SopArrays <- Arrays
    SetVals = {1}
    MTypes = {1, 2}
    Sizes = {1, 2}
    Receives <- Asked
    MSGMNB = 2
    MaxIds = 2
    MaxSends = 2
    MaxSupply = 1
    MaxParked = 1
CHECK_DEADLOCK FALSE
INVARIANTS
    TokensConserved
    QueuesSound
    SameObject
PROPERTIES
    FirstOfItsType
    AnsweredCallsReturn
