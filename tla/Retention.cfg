CONSTANTS
    Resources = {"a"}
    TicksPerSecond = 2
    Events <- Changed
    EnableCache = TRUE
    Bulk = FALSE
    Faults = {"create"}
    Ruled = {"a"}
    PurgeOlderThan = 0
    MaxNow = 1
SPECIFICATION FairSpec
INVARIANTS
    NewestSurvives
PROPERTY
    ArchiveSpec ExpiredIsPurged
