\* One device; its file takes one, two or three packets.  Every failure.
SPECIFICATION LiveSpec
CONSTANTS
    Devices = {d1}
    Class <- SameClass
    FileLen = 3
    MailboxUnits = 3
    BlockSizes = {0, 1, 2, 4}
    Width = 16
    MaxRuns = 2
    Slow = TRUE
    Failures = {"reset", "file", "status"}
INVARIANTS
    RunsOwnFirmware
    IdentErrorTells
PROPERTIES
    BringUpEnds
CHECK_DEADLOCK FALSE
