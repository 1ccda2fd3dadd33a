SPECIFICATION Spec
CONSTANTS
    e1 = e1
    e2 = e2
    read = read
    unread = unread
    None = None
    Entries = {e1, e2}
    Fields = {"status"}
    Values = {read, unread}
    Read = read
    MaxBatch = 2
    Lingers = TRUE
    MaxAttempts = 0
    MaxGestures = 2
    MaxOthers = 1
    MaxKills = 1
SYMMETRY Symmetry
INVARIANTS
    TypeOK
    SettledIsServed
    MirrorShowsIntent
    MirrorAgrees
    NoWriteBelowFloor
PROPERTIES
    ImplementsDesiredState
