SPECIFICATION LiveSpec
CONSTANTS
    None = None
    Ids = {1, 2, 3, 4}
    InitialIds = {1, 2}
    FeedOf <- OddAndEven
    Page = 2
    MaxOffset = 2
    LateIds = FALSE
    MaxInserts = 2
    MaxFails = 1
INVARIANTS
    TypeOK
PROPERTIES
    SparesLive
    RecordedMeansClean
    GhostsLeave
