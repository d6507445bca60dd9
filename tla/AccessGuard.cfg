SPECIFICATION Spec
CONSTANTS
    Passwords = {p1, p2}
    BadPassword = bad
    NoPassword = none
    Absent = absent
    AppOps = {"set", "check", "clear"}
    Faults = {}
    FREE_ATTEMPTS = 2
    LOCKOUT = 2
    MaxSecret = 4
    MaxTime = 0
    MaxBoots = 2
INVARIANTS TypeOK ClearedStaysCleared SignedOutStaysOut
PROPERTIES ImplementsDurableCredential
