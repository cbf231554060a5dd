\* A firmware that may stop answering at any point and report a size that does
\* not fit (three times: the third finds the event of the first one latched):
\* the calls and the DSR still end, on their time limits.
SPECIFICATION DriverOnlySpec
CONSTANTS
    NumBuffers = 1
    MaxFill = 3
    MaxCalls = 2
    Timeouts = TRUE
    SelfStop = TRUE
    Oversize = {1, 2, 3}
ACTION_CONSTRAINT
    FewSteps
PROPERTIES
    CallReturns
    UnmaskedAgain
