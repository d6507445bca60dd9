SPECIFICATION Spec
CONSTANTS
    Ssids = {s1, s2}
    Passphrases = {p1}
    Blank = blank
    Absent = absent
    Resetters = {"httpd", "app"}
    Faults = {"flash", "power"}
INVARIANTS ConfiguredIsGuarded AnswersAreTrue KeptPasswordBelongs
