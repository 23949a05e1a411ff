SPECIFICATION FairSpec
CONSTANTS
    n = n f = f b = b
    Nodes <- MCNodes
    RequestIds <- MCRequestIds
    Fetches = {f}
    Broadcasts = {b}
    QueueCapacity = 1
    InitialTimeout = 1
    MinimumTimeout = 1
    MaximumTimeout = 1
    MaxTime = 2
    MaxLag = 1
    MaxCalls = 3
INVARIANTS NeverOversleeps 
PROPERTY EveryRequestEnds
CHECK_DEADLOCK FALSE
