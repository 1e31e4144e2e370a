SPECIFICATION Spec
CONSTANTS
    Procs = {p1, p2, p3}
    First = p1
    NoProc = NoProc
    Cells = {c1, c2}
    Values = {0, 1}
    Kinds = {"anonymous", "sysv"}
SYMMETRY Sym
CHECK_DEADLOCK FALSE
INVARIANTS
    Coherent
    SeenMeansSeen
    AttachmentsExact
