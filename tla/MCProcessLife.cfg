CONSTANTS
    MaxPid = 3
    Programs <- AllPrograms
SPECIFICATION Spec
CHECK_DEADLOCK FALSE
INVARIANTS
    NoLostWait
    WorkersRetired
    StatusSound
    DeathTold
PROPERTIES
    TermKept
