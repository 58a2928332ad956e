SPECIFICATION Spec
CONSTANTS
    s1 = s1
    s2 = s2
    s3 = s3
    Slot <- TwoSlots
    Idle = Idle
    Torn = Torn
    JobKinds <- AllKinds
    MaxJobs = 1
    MaxRetries = 1
    MaxCrashes = 1
    MaxConcurrency = 2
    MaxFaults = 1
INVARIANTS
    TypeOK
    CompletedHasItsImage
    WhatWasToldIsOnDisk
PROPERTIES
    QueuedIsClaimed
    RunningEnds
\* With everything finished and the pump idle the system is at rest.
CHECK_DEADLOCK FALSE
