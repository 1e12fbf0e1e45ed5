SPECIFICATION FairSpec
CONSTANTS
    c1 = c1
    c2 = c2
    Callers = {c1, c2}
    MaxPerUpstream = 2
    MaxForgets = 1
    Scenes <- MCScenes
INVARIANTS WithinCap NoLostWakeup PermitsConserved
PROPERTIES ForgottenDrains
CHECK_DEADLOCK FALSE
