SPECIFICATION Spec
CONSTANTS
    Node <- Nodes
    Setups <- AllSetups
    MaxOthers = 2
INVARIANTS ErrIsExhaustive
PROPERTIES LinksTheWinner
CHECK_DEADLOCK FALSE
