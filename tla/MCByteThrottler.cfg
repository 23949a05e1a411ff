SPECIFICATION FairSpec
CONSTANTS
    n1 = n1 n2 = n2 n3 = n3 c1 = c1 d1 = d1 c2 = c2 c3 = c3
    Nodes = {n1, n2, n3}
    Conns = {c1, d1, c2, c3}
    Owner <- MCOwner
    Sizes = {1, 2}
    AtLarge = 3
    NodeMax = 2
    Vdr = 1
    Allowance <- MCAllowance
    None = None
INVARIANTS BytesAreAccounted NoIdleBytes
PROPERTY EveryAcquireEnds
