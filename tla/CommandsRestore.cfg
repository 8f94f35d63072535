CONSTANTS
    Resources = {"a", "b", "c", "t", "n", "j", "k"}
    TicksPerSecond = 2
    Meta <- MCMeta
    Longer <- MCLonger
    Standing <- MCStanding
    Discoveries <- MCOneDiscovery
    Fields = {"f", "g"}
    Values = {0, 1}
    Queries = {}
    Named <- MCNamed
    ChunkSize = 2
    FirstRV = 8
    MaxRV = 11
    MaxNow = 0
    MaxUnsaved = 1
    None = None
SPECIFICATION Spec
INVARIANT ApplyRestores
