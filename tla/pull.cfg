SPECIFICATION LiveSpec
CONSTANTS
    None = None
    Entries = {1, 2, 3}
    Unusable = {2}
    PageSize = 1
    MaxPages = 3
    Skew = 3
    Lag = 1
    DateMissing = TRUE
    MaxTime = 4
    MaxChanges = 1
    MaxFails = 1
INVARIANTS
    TypeOK
    NoGap
PROPERTIES
    CatchesUp
