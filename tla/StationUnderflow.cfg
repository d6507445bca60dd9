SPECIFICATION Spec
CONSTANTS
    WRAP = 16
    RECONNECT_BASE = 2
    RECONNECT_MAX = 7
    maxConnectionAttempts = 3
    MaxLag = 2
    MaxFailures = 3
PROPERTY RetryBacksOff
