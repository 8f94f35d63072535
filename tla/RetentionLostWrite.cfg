CONSTANTS
    Resources = {"a"}
    TicksPerSecond = 2
    Events <- Changed
    EnableCache = TRUE
    Bulk = FALSE
    Faults = {"close"}
    Ruled = {"a"}
    PurgeOlderThan = 0
    MaxNow = 1
SPECIFICATION FairSpec
PROPERTY
    PurgeKeepsOne
