CONSTANTS
    None = None
    Reqs = {r1, r2}
    Keys = {k1, k2}
    Chunks = {"a", "b"}
    HashOf <- Colliding
    Bodies <- TwoBodies
    Ops = {"put", "copy", "delete", "orphan", "recompress"}
    Faults = {"store", "count", "commit", "release", "gc", "drop"}
    MaxOps = 3
    MaxFaults = 1
    MaxCrashes = 1
SPECIFICATION FairSpec
INVARIANTS NeverUndercounted BlocksReadable
PROPERTIES ReleasedReclaimed
CHECK_DEADLOCK FALSE
