CONSTANTS
    None = None
    Procs = {p1, p2}
    Keys = {1, 2}
    Etags = {e1}
    SwapIds = {i1, i2, i3}
    Stripe <- TwoStripes
    LegacyKeys = {}
    Ops = {"put"}
    Conds <- NoConds
    SoftDelete = FALSE
    DropBlob = FALSE
    Faults = {"upsert", "restore", "reread"}
    MaxFaults = 2
    MaxCrashes = 1
SPECIFICATION FairSpec
PROPERTY RecoveryEnds
