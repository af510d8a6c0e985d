SPECIFICATION Spec
CONSTANTS
    Codes = {k, bad}
    BadCodes = {bad}
    Entries = {m1, m2}
    Fallback = Fallback
    NoCode = NoCode
    Clients = {c1, c2}
    Deployments = {d1, d2}
    MaxRequests = 3
    MaxJobs = 2
SYMMETRY Symmetry
INVARIANTS
    TypeOK
    HistoryIsComplete
    RunsPinnedCode
PROPERTY Implements
CHECK_DEADLOCK FALSE
