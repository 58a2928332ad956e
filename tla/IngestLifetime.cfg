SPECIFICATION Spec
CONSTANTS
    k1 = k1
    p1 = p1
    r1 = r1
    o1 = o1
    i1 = i1
    Message <- Messages
    From <- Sources
    IdOf <- Request
    NoId = NoId
    Fates <- OneFails
    NoMessage = NoMessage
    MaxFaults = 0
    MaxJobs = 7
INVARIANTS
    JobsHaveALifetime
\* When every message has ended the system is at rest.
CHECK_DEADLOCK FALSE
