SPECIFICATION LiveSpec
CONSTANTS
    a1 = a1
    a2 = a2
    Articles = {a1, a2}
    Undated = {a1}
    Hideable = {a2}
    MaxEvents = 5
INVARIANTS
    TypeOK
    HomeAgrees
    
    BannerIsNews
    NewOnce
PROPERTIES
    AcknowledgedBySight
    AnnouncedInTheEnd
