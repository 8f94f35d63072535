CONSTANTS
    Resources = {"a"}
    TicksPerSecond = 2
    Events <- Vanished
    EnableCache = TRUE
    Bulk = TRUE
    Faults = {"write"}
    Ruled = {"a"}
    PurgeOlderThan = 0
    MaxNow = 1
SPECIFICATION Spec
INVARIANTS
    TypeOK
    PurgePlanJustified
