\* The capture path as it is meant to be used: nothing times out, the
\* firmware stops only when told to and reports sizes that fit.
SPECIFICATION Spec
CONSTANTS
    NumBuffers = 2
    MaxFill = 4
    MaxCalls = 5
    Timeouts = FALSE
    SelfStop = FALSE
    Oversize = {}
INVARIANTS
    TypeOK
    RingWindow
    InOrder
    ReturnMeansState
    CallbackValid
    NoLostIndication
    NeverMaskedForGood
    RingInv
PROPERTIES
    ImplementsFifo
