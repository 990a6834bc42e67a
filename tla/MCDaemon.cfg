\* SIGHUPs at any moment, reloads that fail and succeed, passes that hang, SIGTERM.
SPECIFICATION FairSpec
CONSTANTS
    broken = broken
    Interval = 2
    Jitter = 1
    Files <- LongerTimeout
    Broken = broken
    StaticAuth <- Static
    ReloadTime = 1
    MaxHups = 3
    MaxAge = 22
    MayHang = TRUE
CHECK_DEADLOCK FALSE
INVARIANTS
    TypeOK
    AgeBounded
    ActiveIsKept
PROPERTIES
    WedgeDetected
    KeepsTicking
    StopsOnTerm
    HupServed
    ReplacedKeepersEnd
