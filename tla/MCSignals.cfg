SPECIFICATION Spec
CONSTANTS
    live = live
    paper = paper
    Strategies = {live, paper}
    Mode <- LiveAndPaper
    Hooks = {h1, h2}
    MaxOpen <- OnlyPaper
    MaxSignals <- OnlyLive
    Env = {"redis", "rules", "timeout", "database", "crash", "midnight"}
    MaxRequests = 3
SYMMETRY HookSymmetry
INVARIANTS
    TypeOK
    PositionsFloor
    OpenPositionsLimit
    DailyLimit
    EveryFillLogged
CHECK_DEADLOCK FALSE
