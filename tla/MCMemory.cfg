SPECIFICATION Spec
CONSTANTS
    Page = 2
    Space = 16
    Layouts <- Both
    SlotLen = 2
    Hints = {0, 2, 3, 6, 8}
    Lens = {1, 3, 15}
    Limits = {2}
    MaxRegions = 3
CHECK_DEADLOCK FALSE
INVARIANTS
    SpaceApart
    FirstFit
    NothingLeaks
