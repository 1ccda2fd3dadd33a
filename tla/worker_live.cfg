SPECIFICATION LiveSpec
CONSTANTS
    None = None
    Debounce = 2
    AfterStart = 1
    Soon = 1
    Interval = 3
    Manual = FALSE
    Unusable = FALSE
    MaxGestures = 2
    MaxLaunches = 0
PROPERTIES
    GoesOnNextWifi
    SpinnerEnds
