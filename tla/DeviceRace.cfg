\* Two callers set the mode of two GPIOs at once: see AtMostOnePwm.
SPECIFICATION Spec
CONSTANTS
    Threads = {t1, t2}
    Commands = {"MDIO"}
    Gpios = {g1, g2}
    Ports = {p1}
    Class = "NANL"
    HighVoltage = {g1}
    Slow = FALSE
    Serial = FALSE
    MaxCalls = 2
    MaxPackets = 0
INVARIANTS
    AtMostOnePwm
CHECK_DEADLOCK FALSE
