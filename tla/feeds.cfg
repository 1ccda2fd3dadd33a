CONSTANTS
    oldTitle = oldTitle
    newTitle = newTitle
    home = home
    news = news
    goodIcon = goodIcon
    badIcon = badIcon
    None = None
    MaxFeed = 2
    Titles = {oldTitle, newTitle}
    Categories = {home, news}
    Icons = {goodIcon, badIcon}
    BadIcons = {badIcon}
    PerPass = 1
    GiveUp = 2
    MaxEvents = 3
SPECIFICATION LiveSpec
INVARIANTS TypeOK NoOrphanFeed DroppedIsGone MirrorNeverAhead
PROPERTIES Converges IconsSettle ImplementsSubscriptions
