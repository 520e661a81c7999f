CONSTANTS
    Kinds = {"low"}
    SocketCap = 2
    MaxTicks = 2
    MaxServerCrashes = 0
    MaxLinkBreaks = 0
    MaxSessions = 2
    MaxRetries = 2
    MdCap = 2
    MaxPhantoms = 1
    PartialReads = FALSE
    SigCap = 1
    MaxCrashes = 0
SPECIFICATION Spec
INVARIANTS
    SingleProducer
CHECK_DEADLOCK FALSE
