SPECIFICATION LiveSpec
CONSTANTS
    MaxCalls = 2
    MaxInd = 1
    Failures = {}
PROPERTIES
    DsrThreadStops
\* nobody calls once the calls are used up
CHECK_DEADLOCK FALSE
