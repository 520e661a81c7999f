CONSTANTS
    Kinds = {"low", "mid"}
    SocketCap = 1
    MaxTicks = 1
    MaxServerCrashes = 0
    MaxLinkBreaks = 1
    MaxSessions = 2
    MaxRetries = 1
    MdCap = 1
    MaxPhantoms = 1
    PartialReads = FALSE
    SigCap = 1
    MaxCrashes = 1
SPECIFICATION Spec
INVARIANTS
    TypeOK
    SignalAccounting
    RunningMeansAllThreads
    RolesOverlapOnlyAtJoin
PROPERTIES
    ShutdownIsBounded
CHECK_DEADLOCK FALSE
