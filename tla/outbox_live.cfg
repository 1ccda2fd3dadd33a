SPECIFICATION LiveSpec
CONSTANTS
    e1 = e1
    e2 = e2
    read = read
    unread = unread
    None = None
    Entries = {e1}
    Fields = {"status", "starred"}
    Values = {read, unread}
    Read = read
    MaxBatch = 1
    Lingers = FALSE
    MaxAttempts = 0
    MaxGestures = 2
    MaxOthers = 0
    MaxKills = 1
PROPERTIES
    Delivered
