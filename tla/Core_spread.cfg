CONSTANTS
    Kinds = {"low", "wide"}
    SocketCap = 2
    MaxTicks = 2
    MaxServerCrashes = 1
    MaxLinkBreaks = 1
    MaxSessions = 1
    MaxRetries = 2
    MdCap = 2
    MaxPhantoms = 1
    PartialReads = FALSE
    SigCap = 1
    MaxCrashes = 0
SPECIFICATION Spec
INVARIANTS
    OnlyTightQuotesTrade
CHECK_DEADLOCK FALSE
