SPECIFICATION Spec
CONSTANTS
    j1 = j1
    tacc1 = tacc1
    vo1 = vo1
    rel1 = rel1
    rec1 = rec1
    Job <- OneJob
    Missing = Missing
    Idle = Idle
    TaccThread = tacc1
    VoThreads <- OneVoThread
    Releasers <- OneReleaser
    RecoveryThread = rec1
    Requests <- AnyRequests
    ApiStates <- EndingStates
    MaxCalls = 2
    MaxPending = 2
    MaxRestarts = 1
    MaxFaults = 1
INVARIANTS
    TypeOK
    MetadataKept
    VersionNamesContent
    DeletedStaysDeleted
    DeferredIsHeld
PROPERTIES
    VersionNeverFalls
    QueuedIsTakenUp
    SimulatedRunEnds
\* With the calls used up every job may be at rest.
CHECK_DEADLOCK FALSE
