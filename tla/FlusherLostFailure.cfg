CONSTANTS
    Resources = {"a", "b"}
    TicksPerSecond = 2
    Events <- MCFewEvents
    Async = TRUE
    Permits = 1
SPECIFICATION Spec
INVARIANT
    FailedIsRetried
\* The process may be interrupted, and then it stops.
CHECK_DEADLOCK FALSE
