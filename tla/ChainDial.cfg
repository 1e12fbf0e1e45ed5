CONSTANTS
    Upstream <- MCUpstream
    Dial <- MCDial
    Protocol <- MCProtocol
    WithAuth <- MCWithAuth
    Misnamed <- MCMisnamed
    Setups <- MCSetups
    Sick <- MCSick
    Cap = 2
    MaxUsize = 99
    MaxFaults = 1
SPECIFICATION DialSpec
INVARIANTS HopCapKept BlameIsDeserved StageIsWhereItStopped
PROPERTY DialsEnd
CHECK_DEADLOCK FALSE
