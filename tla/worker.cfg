SPECIFICATION Spec
CONSTANTS
    None = None
    Debounce = 2
    AfterStart = 1
    Soon = 1
    Interval = 3
    Manual = TRUE
    Unusable = TRUE
    MaxGestures = 2
    MaxLaunches = 1
INVARIANTS
    TypeOK
    PromptFlush
    GoesByTheFile
PROPERTIES
    WifiOnlyKept
    SpinnerHandedOn
