CONSTANTS
    None = None
    Procs = {p1, p2}
    Keys = {1}
    Etags = {e1, e2}
    SwapIds = {i1, i2, i3}
    Stripe <- TwoStripes
    LegacyKeys = {}
    Ops = {"put", "delete", "get"}
    Conds <- AllConds
    SoftDelete = FALSE
    DropBlob = FALSE
    Faults = {"backup", "intent", "rename", "upsert", "unlink", "release"}
    MaxFaults = 1
    MaxCrashes = 2
SPECIFICATION Spec
INVARIANTS BytesMatchMetadata ReadsOneVersion RecoveryRestores IInv
PROPERTY Linearizable
SYMMETRY Symmetric
