SPECIFICATION FairSpec
CONSTANTS
    Times = {0, 2, 4}
    Gas = {1, 3}
    Tau = 2
    Capacity = 1
    MaxHeight = 4
    MaxCrashes = 1
INVARIANTS SettlementIsDeterministic ResultsAreReplayable
  
CHECK_DEADLOCK FALSE
