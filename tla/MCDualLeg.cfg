SPECIFICATION Spec
CONSTANTS
    Slots = {t1, t2}
    Settings <- AllSettings
    MaxRequests = 4
SYMMETRY SlotSymmetry
INVARIANTS
    TypeOK
    SinglePosition
    HeldIsTracked
    
    MaxTradesOvershoot
PROPERTY
    ConfirmedCloseIsFlat
CHECK_DEADLOCK FALSE
