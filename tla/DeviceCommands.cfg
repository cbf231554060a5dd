\* Two callers that keep out of each other's command but share the mailboxes
\* and the configuration.  Three calls: two that race and one after them.
SPECIFICATION LiveSpec
CONSTANTS
    Threads = {t1, t2}
    Commands = {"MDIO", "RESYNC"}
    Gpios = {g1, g2}
    Ports = {p1}
    Class = "NANL"
    HighVoltage = {g1}
    Slow = TRUE
    Serial = TRUE
    MaxCalls = 3
    MaxPackets = 2
INVARIANTS
    AnswerIsOwn
    PacketsOnce
    TwoPwmByRace
PROPERTIES
    CallsEnd
ACTION_CONSTRAINT
    OneResource
CHECK_DEADLOCK FALSE
