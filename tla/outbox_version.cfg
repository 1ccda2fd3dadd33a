SPECIFICATION Spec
CONSTANTS
    e1 = e1
    e2 = e2
    read = read
    unread = unread
    None = None
    Entries = {e1}
    Fields = {"status", "starred"}
    Values = {read, unread}
    Read = read
    MaxBatch = 1
    Lingers = FALSE
    MaxAttempts = 0
    MaxGestures = 1
    MaxOthers = 0
    MaxKills = 0
PROPERTIES
    UnsentIsNeverDropped
CHECK_DEADLOCK FALSE
