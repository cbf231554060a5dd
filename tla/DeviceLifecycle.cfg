SPECIFICATION LiveSpec
CONSTANTS
    MaxCalls = 6
    MaxInd = 2
    Failures = {"thread", "create", "download", "irq", "sysfs"}
INVARIANTS
    NoPiecesLeft
    HandlerHasDevice
    LifeInv
PROPERTIES
    StatusAcknowledged
    CallsProceed
\* nobody calls once the calls are used up
CHECK_DEADLOCK FALSE
