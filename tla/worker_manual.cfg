SPECIFICATION LiveSpec
CONSTANTS
    None = None
    Debounce = 2
    AfterStart = 1
    Soon = 1
    Interval = 3
    Manual = TRUE
    Unusable = FALSE
    MaxGestures = 1
    MaxLaunches = 0
PROPERTIES
    GoesOnNextWifi
CHECK_DEADLOCK FALSE
