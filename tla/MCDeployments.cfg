SPECIFICATION Spec
CONSTANTS
    Deps = {d1, d2}
    Calls = {c1, c2}
    Limit <- OneOfEach
    Env = {"redis", "hang", "session"}
    MaxRequests = 4
    MaxCrashes = 1
SYMMETRY Symmetry
INVARIANTS TypeOK LateTickOnce
CHECK_DEADLOCK FALSE
