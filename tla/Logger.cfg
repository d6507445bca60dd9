SPECIFICATION FairSpec
CONSTANTS
    Tasks = {app, net}
    DefaultEntries = 4
    Sizes = {0, 1, 3}
    Begins = 2
    Batch = 2
    Windows = {0, 2}
    Clears = TRUE
    Faults = {"alloc", "socket"}
    MaxLines = 5
    Endless = {TRUE, FALSE}
CHECK_DEADLOCK FALSE
INVARIANTS ResponseFaithful EveryLineAccounted
PROPERTIES StreamEnds
