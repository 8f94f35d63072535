CONSTANTS
    Resources = {"a"}
    TicksPerSecond = 2
    Events <- ChangedAndDeleted
    EnableCache = FALSE
    Bulk = FALSE
    Faults = {"close"}
    Ruled = {"a"}
    PurgeOlderThan = 0
    MaxNow = 2
SPECIFICATION Spec
PROPERTY
    PurgeKeepsOne
