SPECIFICATION Spec
CONSTANTS
    Orders = {o1, o2}
    Slots = {s1, s2}
    Settings <- AllSettings
    MaxBatch = 2
    MaxLosses = 1
SYMMETRY Symmetry
INVARIANTS
    TypeOK
    StatusTrue
    CancelledIsDead
    ActsOnce
    ExecutedIsRecorded
CHECK_DEADLOCK FALSE
