SPECIFICATION LiveSpec
CONSTANTS
    MaxFiles = 2
    FileSize = 4
    DmaSize = 2
    MaxFill = 2
    MaxStarts = 2
    Failures = {"selfStop", "refuse", "noThread", "noControl", "noMemory"}
    Tidy = TRUE
INVARIANTS
    HeaderDescribesFile
    WritesOpenFile
    CallbackInOrder
PROPERTIES
    StopDeliversAll
    CallsReturn
\* the handle is freed at the end
CHECK_DEADLOCK FALSE
