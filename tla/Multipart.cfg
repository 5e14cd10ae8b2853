CONSTANTS
    None = None
    Any = Any
    Procs = {p1, p2}
    Parts = {1, 2}
    Contents = {a, b}
    MaxOps = 4
    MaxCrashes = 1
SPECIFICATION FairSpec
 
PROPERTIES AssembledAsListed 
CHECK_DEADLOCK FALSE
