SPECIFICATION FairSpec
CONSTANTS
    Nodes = {"n1", "n2"}
    Writers = {"c1"}
    Deleters = {"c2"}
    NumKeys = 2
    DotKeys = {2}
    NoClass = "noclass"
    NoNode = "nonode"
    DefaultClass = "hot"
    ClassesOf <- MCClassesOf
    Rules <- MCRules
    Contexts <- MCContexts
    Forwarders = {"n1", "n2"}
    BatchLimit = 2
    Stock <- MCStock
    MaxUploads = 1
    MaxDeletes = 1
    PlainOps = {"put", "copy"}
    DeleteOps = {"delete", "prefix", "batch"}
    PlainWrites = 2
    MultipartOps = {"put", "init", "part", "complete", "abort"}
    MultipartWrites = 3
    Stored <- MCStored
    Limit = 1
    SampleDenom = 2
    HashOf <- MCHashOf
    Compressible <- MCCompressible
    Modes = {{"scrub"}, {"recompress"}, {"migrate"}}
    MaxOps = 1
    MaxDicts = 1
    ListKeys = {1, 2, 3, 4, 5}
    Folder <- MCFolder
    ListWalks <- MCWalks
    ScanCap = 2
    KeyWrites = 2
    Uploads <- MCUploads
    Cap = 3
    MaxInFlight = 4
    Unit = 2
    UploadDeletes = 1
    RateClients = {1, 2, 3}
    Rate = 1
    Burst = 2
    MaxTracked = 2
    IdleAfter = 2
    MaxTime = 4
    Conns = {"c1", "c2", "c3"}
    MaxConnections = 2
    MaxRequests = 1
    MaxHung = 1
    MaxFailures = 1
    EnvConfig <- MCEnvConfig
    Snapshots <- MCSnapshots
    LogWrites = 1
    Contents <- MCContents
    BlockSize = 2
    BufferSize = 2
    CacheEntries = 2
    CacheBytes = 3
    ReadAhead = 1
    ChunksPerStep = 2
    Renames = 1
    SharedReaders = {"r1", "r2"}
    SharedKept <- MCSharedKept
    SharedSpecs <- MCSharedSpecs
    FormatReaders = {"r1"}
    FormatKept <- MCFormatKept
    FormatSpecs <- MCFormatSpecs
    MaxRestarts = 1
INVARIANTS
    PlacedAsResolved
    
    
    
    SwapKeepsObject
    KeysListed
    WithinLimits
    
    DrainKeepsRequests
    ReloadSettles
    
    CacheAccounted
PROPERTIES
    WalksComplete
    WaitsEnd
    LogDrained
    ThreadsReturned
CHECK_DEADLOCK FALSE
