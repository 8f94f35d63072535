CONSTANTS
    Resources = {"a", "b"}
    TicksPerSecond = 1
    Workers = {w1, w2}
    Contents <- MCContents
    Selected <- MCSelected
    DeleteUntracked = TRUE
    FinalRV = {"fresh", "last"}
    MaxRV = 3
    MaxCrashes = 1
    Setups <- MCSetups
    Lazy = Lazy
    None = None
SPECIFICATION FairSpec
INVARIANTS TypeOK ChangesCaptured DeletionsCaptured LivingAreNotBuried ReaderNamesBlobs
PROPERTIES EventuallyCaptured EventuallyUp
\* The cluster may come to rest, and then nothing is left to do.
CHECK_DEADLOCK FALSE
