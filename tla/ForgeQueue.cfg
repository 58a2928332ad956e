SPECIFICATION Spec
CONSTANTS
    s1 = s1
    s2 = s2
    s3 = s3
    Slot <- ThreeSlots
    Idle = Idle
    Torn = Torn
    JobKinds <- AllKinds
    MaxJobs = 2
    MaxRetries = 2
    MaxCrashes = 0
    MaxConcurrency = 1
    MaxFaults = 1
SYMMETRY SlotSymmetry
INVARIANTS
    OneImagePerClaim
    BoundedConcurrency
PROPERTIES
    CancelledIsNotCompleted
\* With everything finished and the pump idle the system is at rest.
CHECK_DEADLOCK FALSE
