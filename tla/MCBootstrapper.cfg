SPECIFICATION FairSpec
CONSTANTS
    n1 = n1 n2 = n2 G = G A = A B = B C = C X = X
    BeaconOrder <- MCBeaconOrder
    Weight <- MCWeight
    Good = {n1}
    Genesis = G
    LocalTip = G
    Blocks <- MCBlocks
    Parent <- MCParent
    Height <- MCHeight
    Main = {G, A, B, C}
    Reported = {A, B, C, X}
    MaxHeight = 3
    MaxBad = 2
    MaxUnparsable = 1
    MaxErrors = 1
   
PROPERTIES ImplementsHeightSet 
CHECK_DEADLOCK FALSE
