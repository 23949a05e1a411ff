CONSTANTS
    K = 2
    AlphaPreference = 2
    AlphaConfidence = 2
    Beta = 2
    NumBits = 2
    G = G
    A = A
    B = B
    C = C
    D = D
    E = E
    Blocks <- MCBlocks
    Genesis <- G
    Parent <- MCParent
    Height <- MCHeight
    NoTree = NoTree
    NoId = NoId
    SbNew <- MCSbNew
    SbAdd <- MCSbAdd
    SbRecordPoll <- MCSbRecordPoll
    SbRecordUnsuccessful <- MCSbRecordUnsuccessful
    SbPreference <- MCSbPreference
    SbFinalized <- MCSbFinalized
    MaxPolls = 4
    MaxFailures = 1
SPECIFICATION PollsSpec
INVARIANTS TreeIsUndecided
    PreferredBranch KahnIsVoteStack
PROPERTIES NoBlockForgotten AcceptedAfterBetaPolls ImplementsSnowman
CHECK_DEADLOCK FALSE
