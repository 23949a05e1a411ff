CONSTANTS
    n1 = n1
    G = G
    A = A
    B = B
    C = C
    Nodes <- MCNodes
    Frontiers <- MCFrontiers
    Samples <- MCSamples
    Blocks <- MCBlocks
    Parent <- MCParent
    Height <- MCHeight
    Genesis = G
    Self = Self
    None = None
    ConcurrentRepolls = 2
    OptimalProcessing = 2
    MaxRequests = 4
    MaxFailures = 1
    MaxBuilds = 1
SPECIFICATION Spec
INVARIANTS RequestsAreExact  CallsEndReady
CHECK_DEADLOCK FALSE
