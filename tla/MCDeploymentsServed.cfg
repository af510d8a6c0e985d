SPECIFICATION FairSpec
CONSTANTS
    Deps = {d1, d2}
    Calls = {c1}
    Limit <- OneOfEach
    Env = {"hang"}
    MaxRequests = 4
    MaxCrashes = 1
INVARIANTS ScheduleAgrees RestartCatchesUp
PROPERTY StoppedIsUnscheduled
CHECK_DEADLOCK FALSE
