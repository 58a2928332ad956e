SPECIFICATION Spec
CONSTANTS
    c1 = c1
    c2 = c2
    c3 = c3
    Call <- AllCalls
    WithAccess <- AllCalls
    NoRecord = NoRecord
    Nobody = Nobody
    HasRedis = TRUE
    MaxAttempts = 2
    MaxFaults = 0
INVARIANTS
    TypeOK
    NoLostUpdate
PROPERTIES
    ImplementsAtomicRecord
\* When every call has returned there is nothing left to do.
CHECK_DEADLOCK FALSE
