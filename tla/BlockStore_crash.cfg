CONSTANTS
    None = None
    Reqs = {r1}
    Keys = {k1, k2}
    Chunks = {"a", "b"}
    HashOf <- Colliding
    Bodies <- OneBody
    Ops = {"put", "delete", "orphan"}
    Faults = {"crashdrop"}
    MaxOps = 4
    MaxFaults = 0
    MaxCrashes = 1
SPECIFICATION Spec
INVARIANTS BlocksReadable
CHECK_DEADLOCK FALSE
