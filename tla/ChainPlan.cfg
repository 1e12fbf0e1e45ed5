SPECIFICATION FairSpec
CONSTANTS
    Node <- Nodes
    Layouts <- PlanLayouts
    Cached <- CachedChains
    MaxExcluded = 1
PROPERTIES NextReturns ImplementsSupply
