SPECIFICATION FairSpec
CONSTANTS
    Conns = {c1}
    Tasks = {t1, t2, t3}
    AuthErrors = {"raised", "rejected"}
    Verifies = TRUE
    Env = {"fail", "rotate", "delete", "shutdown"}
    MaxKey = 2
    MaxRequests = 4
INVARIANTS TypeOK InFlightOpen RetryIsFresh
PROPERTIES Implements EveryOrderAnswered
CHECK_DEADLOCK FALSE
