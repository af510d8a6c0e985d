SPECIFICATION Spec
CONSTANTS
    Slots = {t1}
    Settings <- OneTrade
    MaxRequests = 3
SYMMETRY SlotSymmetry
PROPERTY
    StopOnlyCloses
CHECK_DEADLOCK FALSE
