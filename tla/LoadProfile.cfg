SPECIFICATION Spec
CONSTANTS
    c1 = c1
    c2 = c2
    c3 = c3
    Call <- TwoCalls
    Shutdown = Shutdown
    Nobody = Nobody
    Pcts <- SomePcts
    MaxWorkers = 2
    Settings <- FiveSettings
    MaxFailures = 2
INVARIANTS
    TypeOK
    OrphansNeedARace
    TelemetryLagsOnlyReverts
PROPERTIES
    RevertsToBaseline
\* When every request is answered and set back nothing is left to do.
CHECK_DEADLOCK FALSE
