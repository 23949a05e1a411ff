SPECIFICATION HandlerFairSpec
CONSTANTS
    TransitionCapacity = 1
    ChannelCapacity = 2
    LocalHeight = 1
    MaxHeight = 2
    MaxPushes = 4
INVARIANTS NeverBlocked HandOffIsPending
PROPERTIES HaltStops 
CHECK_DEADLOCK FALSE
