SPECIFICATION Spec
CONSTANTS
    Tasks = 2
    Leaving <- TaskOne
    Faulting <- TaskOne
    OtherLines <- LineFive
    FirmwareMask <- TimerAndKeyboard
    SelfTestResets = FALSE
    PS2_SCANCODE_QUEUE_SIZE = 2
    MaxKeys = 1
    MaxNest = 2
    Nesting <- TaskOne
INVARIANTS
    InServiceHeld
    QueueHoldsLatest
    KeysAccounted
PROPERTIES
    KeysRead
    InitCompletes
    PanicStops
