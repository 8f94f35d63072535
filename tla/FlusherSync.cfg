CONSTANTS
    Resources = {"a", "b"}
    TicksPerSecond = 2
    Events <- Updates
    Async = FALSE
    Permits = 1
SPECIFICATION FairSpec
INVARIANTS
    TypeOK
    NoSilentLoss
    FailedIsRetried
PROPERTY
    EventuallyStored
\* The process may be interrupted, and then it stops.
CHECK_DEADLOCK FALSE
