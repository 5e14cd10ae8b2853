CONSTANTS
    None = None
    Procs = {p1, p2}
    Keys = {1}
    Etags = {e1, e2}
    SwapIds = {i1, i2, i3}
    Stripe <- TwoStripes
    LegacyKeys = {1}
    Ops = {"put", "delete", "get", "purge", "orphan", "stale"}
    Conds <- AllConds
    SoftDelete = TRUE
    DropBlob = FALSE
    Faults = {"rename", "upsert", "unlink", "release"}
    MaxFaults = 1
    MaxCrashes = 0
SPECIFICATION Spec
INVARIANTS TypeOK
PROPERTY Linearizable
SYMMETRY Symmetric
