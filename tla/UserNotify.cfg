SPECIFICATION LiveSpec
CONSTANTS
    NumBuffers = 2
    MaxFill = 2
    MaxCalls = 2
    MaxOpens = 2
INVARIANTS
    ReadIsHeld
    ReadsAdvance
PROPERTIES
    ImplementsHandover
    CloseLetsDsrGo
    CallsEnd
\* the last close leaves nothing to do when the opens are used up
CHECK_DEADLOCK FALSE
