SPECIFICATION Spec
CONSTANTS
    j1 = j1
    tacc1 = tacc1
    vo1 = vo1
    rel1 = rel1
    rec1 = rec1
    Job <- OneJob
    Missing = Missing
    Idle = Idle
    TaccThread = tacc1
    VoThreads <- NoThreads
    Releasers <- NoThreads
    RecoveryThread = rec1
    Requests <- TaccRequests
    ApiStates <- EndingStates
    MaxCalls = 1
    MaxPending = 1
    MaxRestarts = 0
    MaxFaults = 0
INVARIANT
    NothingDiscarded
\* With the calls used up every job may be at rest.
CHECK_DEADLOCK FALSE
