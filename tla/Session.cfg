CONSTANTS
    Setups <- MCSetups
    HoldMax = 7
    FragSize = 2
    Delay = 1
    CopyBuf = 2
    TlsBuf = 1
    PeekMax = 7
    ReadMax = 3
    DirectCap = 1
SPECIFICATION Spec
INVARIANTS StreamsIntact OneOutcome IdleIsIdle HelloGoesWhole
PROPERTIES RightDestination SessionEnds
CHECK_DEADLOCK FALSE
