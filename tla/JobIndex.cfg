SPECIFICATION Spec
CONSTANTS
    i1 = i1
    i2 = i2
    Instance <- TwoInstances
    Idle = Idle
    RequestId <- NoRequests
    NoRequest = NoRequest
    RequestOf <- WithoutRequest
    MaxJobs = 3
    Legacy = 2
    KeepRecent <- KeepNoneOrOne
    Window = 1
    MaxWalk = 2
    MaxListed = 2
    BatchSize = 2
    MaxCalls = 2
    Breaks = TRUE
SYMMETRY Instances
INVARIANTS
    TypeOK
    DoneMeansIndexed
    ListingIsComplete
    PurgeKeepsNewest
\* With every job deleted and every bound reached there is nothing left to do.
CHECK_DEADLOCK FALSE
