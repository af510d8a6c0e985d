SPECIFICATION Spec
CONSTANTS
    Deps = {d1}
    Calls = {c1}
    Limit <- OneOfEach
    Env = {}
    MaxRequests = 3
    MaxCrashes = 0
PROPERTY StoppedIsTerminal
CHECK_DEADLOCK FALSE
