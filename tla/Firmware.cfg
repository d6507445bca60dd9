SPECIFICATION FairSpec
CONSTANTS
    ImageSlots = {"X"}
    AutoReboot = TRUE
    FsUploads = TRUE
    Faults = {"open", "write", "end", "setboot", "erase", "mark"}
    PartitionSize = 1
    FRAMING = 1
    MAX_RECV_TIMEOUTS = 2
    REBOOT_DELAY = 1
    ROLLBACK = 2
    MaxTime = 3
INVARIANTS UploadsEnd ReportedUpdateBoots AlwaysBootable
PROPERTIES DeadImageLeaves UploadTerminates RebootLeavesDelay
