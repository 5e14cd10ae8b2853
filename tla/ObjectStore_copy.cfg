CONSTANTS
    None = None
    Procs = {p1, p2}
    Keys = {1, 2}
    Etags = {e1, e2}
    SwapIds = {i1, i2}
    Stripe <- TwoStripes
    LegacyKeys = {}
    Ops = {"put", "copy", "get"}
    Conds <- NoConds
    SoftDelete = FALSE
    DropBlob = FALSE
    Faults = {"upsert"}
    MaxFaults = 1
    MaxCrashes = 0
SPECIFICATION FairSpec
PROPERTIES Linearizable RequestsEnd
