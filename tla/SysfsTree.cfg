\* Devices without GPIOs or ports, and with few of them; a real one has four.
CONSTANTS
    GpioCnts = {0, 1, 2, 4}
    PortCnts = {0, 1, 2}
    DmaCnt = 3
SPECIFICATION Spec
INVARIANTS NothingElseLeft GivenBackOnce
CHECK_DEADLOCK FALSE
