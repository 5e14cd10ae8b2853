\* Every operation and every failure, objects from before versions included.
SPECIFICATION Spec
CONSTANTS
    Nodes = {1, 2}
    Writers = {2}
    Keys = {k}
    Contents = {x}
    Stored = x
    Factor = 2
    MaxAttempts = 1
    Ops = {"put", "delete", "heal", "backfill", "replay", "prune"}
    Faults = {"push", "apply", "record"}
    Ids = {1, 2}
    MaxTime = 2
    MaxFaults = 1
    MaxCrashes = 1
    None = None
INVARIANTS DeliveredIsDurable ReplInv
CHECK_DEADLOCK FALSE
