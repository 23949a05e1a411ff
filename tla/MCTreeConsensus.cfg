CONSTANTS
    K = 3
    AlphaPreference = 2
    AlphaConfidence = 3
    Beta = 2
    NumBits = 3
    MaxPolls = 4
    Ids <- MCIds
    Bit <- MCBit
SPECIFICATION Spec
INVARIANTS BetaFinalizes
PROPERTIES FinalizedAfterBeta
CHECK_DEADLOCK FALSE
