\* Three nodes, two of them writers, and a push that fails less often than it is tried.
SPECIFICATION FairSpec
CONSTANTS
    Nodes = {1, 2, 3}
    Writers = {1, 3}
    Keys = {k}
    Contents = {x}
    Stored = None
    Factor = 3
    MaxAttempts = 2
    Ops = {"put", "delete"}
    Faults = {"push"}
    Ids = {1, 2}
    MaxTime = 2
    MaxFaults = 1
    MaxCrashes = 0
    None = None
PROPERTIES EventsSettle EventuallyAgree
CHECK_DEADLOCK FALSE
