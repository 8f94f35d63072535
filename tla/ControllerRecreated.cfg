CONSTANTS
    Resources = {"a"}
    TicksPerSecond = 1
    Workers = {w1}
    Contents = {"x"}
    Selected = {"x"}
    DeleteUntracked = FALSE
    FinalRV = {"fresh"}
    MaxRV = 4
    MaxCrashes = 0
    Setups <- MCWatched
    Lazy = Lazy
    None = None
SPECIFICATION Spec
INVARIANT ObjectsCaptured
\* The cluster may come to rest, and then nothing is left to do.
CHECK_DEADLOCK FALSE
