SPECIFICATION Spec
CONSTANTS
    e1 = e1
    e2 = e2
    r1 = r1
    n1 = n1
    Named <- NamedEvents
    Nameless <- NamelessRecords
    Raw <- RawEvents
    Batches <- Pairs
    Nothing = Nothing
    Attempts = 2
    CacheSize = 1
    MemorySize = 1
    Window = 2
    MaxFaults = 2
INVARIANTS
    TypeOK
    NothingIsLost
    ProjectedOnce
    ShowsTheBuffer
PROPERTIES
    EveryMessageEnds
\* When every message has ended the system is at rest.
CHECK_DEADLOCK FALSE
