SPECIFICATION Spec
CONSTANTS
    Files = {f1}
    Procs = {p1}
    Ofds = {d1, d2}
    MaxOffset = 2
    MaxRecords = 3
SYMMETRY Sym
INVARIANTS
    TableSound
    MutualExclusion
PROPERTIES
    UnblockAnnounced
    ImplementsMap
