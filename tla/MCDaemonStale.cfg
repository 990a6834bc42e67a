\* A red /healthz and a wedged loop, as the comment in daemon_cmd.go puts it.
SPECIFICATION Spec
CONSTANTS
    broken = broken
    Interval = 2
    Jitter = 1
    Files <- ShorterTimeout
    Broken = broken
    StaticAuth = {}
    ReloadTime = 1
    MaxHups = 2
    MaxAge = 22
    MayHang = TRUE
CHECK_DEADLOCK FALSE
INVARIANT
    UnhealthyMeansWedged
