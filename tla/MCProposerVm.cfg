SPECIFICATION Spec
CONSTANTS
    R = R P1 = P1 C2 = C2 A2 = A2 S3 = S3 S4 = S4 P3 = P3 A4 = A4
    O1 = O1 O2 = O2 O3 = O3
    sa = sa sg = sg sb = sb sd = sd n0 = n0 n1 = n1 k0 = k0 k1 = k1 k2 = k2
    None = None
    Genesis = R
    Blocks <- MCBlocks
    Parent <- MCParent
    Height <- MCHeight
    Kind <- MCKind
    Time <- MCTime
    Tx <- MCTx
    Stakers <- MCStakers
    Delegators = {sd}
    Nodes = {n0, n1}
    Node <- MCNode
    Weight <- MCWeight
    Ends <- MCEnds
    Reward <- MCReward
    Key <- MCKey
    Rank <- MCRank
    RootStakers = {sa, sg}
    RootSupply = 10
    PostFork = {S3, S4}
    CacheCapacity = 1
    WindowSize = 2
    MaxCrashes = 1
INVARIANTS HistoricalSetsExact LedgerIsExact OuterCoversInner 

