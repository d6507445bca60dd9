SPECIFICATION Spec
CONSTANTS
    Hosts = {h1, h2}
    NoHost = none
    CAs = {ca1, ca2}
    Nobody = nobody
    MaxKeys = 2
    MaxOpenSockets = {5}
    Events = {"rename", "revert", "reset", "app", "overlap"}
    Faults = {"power", "flash", "tls"}
INVARIANTS ServedFits TrustAnchorSigned InstalledStays
SYMMETRY Symmetry
CHECK_DEADLOCK FALSE
