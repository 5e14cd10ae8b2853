SPECIFICATION Spec
CONSTANTS
    Keys = {1, 2, 3, 4, 5}
    Folder <- MCFolder
    Walks <- MCWalks
    ScanCap = 4
    MaxWrites = 0
INVARIANT KeysListed
CHECK_DEADLOCK FALSE
