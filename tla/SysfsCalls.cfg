\* Two threads of a process, one device with one port and two GPIOs.
CONSTANTS
    Threads = {main, worker}
    Leader = main
    PortCnt = 1
    GpioCnt = 2
    Objects = {0, 1, 2}
    Tags = {1, 2}
    Calls <- MCCalls
    Serial = TRUE
    ShortInfo = FALSE
    MaxTries = 2
    MaxCalls = 3
    main = main
    worker = worker
SPECIFICATION Spec
INVARIANTS ErrorIsOwn ParametersAreOwn FilterIsAsAsked
CHECK_DEADLOCK FALSE
