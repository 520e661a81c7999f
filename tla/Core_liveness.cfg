\* Refinement and liveness of a client that is started once.
CONSTANTS
    Kinds = {"low"}
    SocketCap = 1
    MaxTicks = 2
    MaxServerCrashes = 1
    MaxLinkBreaks = 0
    MaxSessions = 1
    MaxRetries = 1
    MdCap = 1
    MaxPhantoms = 1
    PartialReads = FALSE
    SigCap = 1
    MaxCrashes = 1
SPECIFICATION Spec
INVARIANTS
    TicksInOrder
PROPERTIES
    ImplementsPipeline
    StopEndsWorkers
    LostLinkIsResolved
    QueuedTicksAreHandled
CHECK_DEADLOCK FALSE
