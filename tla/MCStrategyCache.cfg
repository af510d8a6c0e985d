SPECIFICATION Spec
CONSTANTS
    Strategies = {a, b}
    Names = {n}
    Editors = {e1, e2}
    Hooks = {h1, h2}
    NoList = NoList
    Ttl = 1
    MaxFill = 1
    Env = {"redis"}
    MaxEdits = 3
    MaxHooks = 2
SYMMETRY Symmetry
INVARIANTS
    TypeOK
    StaleHasReason
PROPERTIES
    Implements
CHECK_DEADLOCK FALSE
