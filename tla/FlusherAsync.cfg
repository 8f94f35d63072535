CONSTANTS
    Resources = {"a", "b"}
    TicksPerSecond = 2
    Events <- Updates
    Async = TRUE
    Permits = 1
SPECIFICATION ScheduledSpec
INVARIANT
    NoSilentLoss
PROPERTY
    FlushCycleEnds
\* The process may be interrupted, and then it stops.
CHECK_DEADLOCK FALSE
