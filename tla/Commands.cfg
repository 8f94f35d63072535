CONSTANTS
    Resources = {"a", "b", "c", "t", "n", "j", "k"}
    TicksPerSecond = 2
    Meta <- MCMeta
    Longer <- MCLonger
    Standing <- MCStanding
    Discoveries <- MCDiscoveries
    Fields = {"f", "g"}
    Values = {0, 1}
    Queries <- MCQueries
    Named <- MCNamed
    ChunkSize = 1
    FirstRV = 8
    MaxRV = 10
    MaxNow = 3
    MaxUnsaved = 2
    None = None
SPECIFICATION Spec
INVARIANTS
    TypeOK AnswersWhatWasAsked PrintsWhatWasAsked StateIsLatest NewestIsExported
    DeleteIsComplete ApplyNewestRestores
PROPERTY DeleteIsExact
