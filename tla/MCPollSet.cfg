CONSTANTS
    n1 = n1
    n2 = n2
    a = a
    b = b
    Nodes <- MCNodes
    Ids <- MCIds
    Waiting = Waiting
    Dropped = Dropped
    K = 3
    AlphaPreference = 2
    AlphaConfidence = 3
    IdSpace = 3
    MaxRequests = 2
SPECIFICATION FairPollSpec
INVARIANTS DrainedInOrder
PROPERTIES  EveryPollDrains
CHECK_DEADLOCK FALSE
