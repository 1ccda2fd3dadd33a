SPECIFICATION Spec
CONSTANTS
    None = None
    Ids = {1, 2, 3, 4, 5}
    InitialIds = {1, 3, 4, 5}
    FeedOf <- OddAndEven
    Page = 2
    MaxOffset = 4
    LateIds = TRUE
    MaxInserts = 1
    MaxFails = 1
PROPERTIES
    SparesLive
CHECK_DEADLOCK FALSE
