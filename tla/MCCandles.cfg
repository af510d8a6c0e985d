SPECIFICATION FairSpec
CONSTANTS
    Clients = {c1, c2}
    LastCandle = 4
    Ranges <- SomeRanges
    Page = 2
    Limit = 2
    Env = {"http"}
    MaxRequests = 2
INVARIANTS
    TypeOK
    DownloadIsComplete
    TicksSeeClosed
PROPERTIES
    RequestEnds
CHECK_DEADLOCK FALSE
