SPECIFICATION Spec
CONSTANTS
    Passwords = {p1, p2}
    BadPassword = bad
    NoPassword = none
    Absent = absent
    AppOps = {}
    Faults = {}
    FREE_ATTEMPTS = 2
    LOCKOUT = 2
    MaxSecret = 4
    MaxTime = 0
    MaxBoots = 1
INVARIANT StoredPasswordMatches
