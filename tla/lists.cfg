SPECIFICATION LiveSpec
CONSTANTS
    unreadTab = unreadTab
    browsed = browsed
    None = None
    Lists = {unreadTab, browsed}
    Tapped = {unreadTab}
    Browse = {browsed}
    Newest = 2
    PageSize = 1
    MaxEvents = 3
INVARIANTS
    TypeOK
    NothingUntold
    CaughtUpIsCurrent
PROPERTIES
    RowsStay
    EveryListHears
