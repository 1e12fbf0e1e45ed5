CONSTANTS
    Arrivals <- MCArrivals
    MaxHeader = 8
    Chunk = 3
SPECIFICATION InboundSpec
INVARIANTS AcceptedIsAuthorised HeadIsChunkIndependent PayloadIntact
PROPERTY AcceptReturns
CHECK_DEADLOCK FALSE
