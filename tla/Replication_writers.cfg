\* Two nodes write one key and restore it from each other; pushes are lost or late, writes fail.
SPECIFICATION Spec
CONSTANTS
    Nodes = {1, 2}
    Writers = {1, 2}
    Keys = {k}
    Contents = {x, y}
    Stored = None
    Factor = 2
    MaxAttempts = 2
    Ops = {"put", "delete", "heal"}
    Faults = {"push", "apply"}
    Ids = {1, 2}
    MaxTime = 3
    MaxFaults = 2
    MaxCrashes = 0
    None = None
SYMMETRY ContentSymmetry
INVARIANTS NeverGoesBack VersionDescribesObject Convergence DescribedInv
CHECK_DEADLOCK FALSE
