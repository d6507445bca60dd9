SPECIFICATION FairSpec
CONSTANTS
    Passwords = {p1}
    BadPassword = bad
    NoPassword = none
    Absent = absent
    AppOps = {"clear"}
    Faults = {"flash", "hash"}
    FREE_ATTEMPTS = 2
    LOCKOUT = 2
    MaxSecret = 3
    MaxTime = 3
    MaxBoots = 1
INVARIANTS SettledSurvivesReboot
PROPERTIES LockoutSpacing CallsReturn
