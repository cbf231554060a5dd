\* What must eventually happen, with a firmware that answers.
SPECIFICATION LiveSpec
CONSTANTS
    NumBuffers = 2
    MaxFill = 2
    MaxCalls = 3
    Timeouts = FALSE
    SelfStop = FALSE
    Oversize = {}
PROPERTIES
    EveryBufferFreed
    CallReturns
