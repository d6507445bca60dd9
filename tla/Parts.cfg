SPECIFICATION Spec
CONSTANTS
    WRAP = 16
    MaxLag = 2
    RECONNECT_BASE = 2
    RECONNECT_MAX = 7
    maxConnectionAttempts = 3
    MaxFailures = 3
    RESTART_DELAY = 3
    MaxRequests = 2
    Lists = {empty, some, other}
    NoList = nolist
    SCAN_MAX_AGE = 3
    Builds = {v1, v2}
    MaxCrashes = 3
    Faults = {"erase", "power", "alloc"}
CHECK_DEADLOCK FALSE
INVARIANTS RetriedInTime FailuresForgotten RestartedInTime ServedIsCurrent ReportsOnce
PROPERTIES RestartLeavesDelay
