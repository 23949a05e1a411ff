SPECIFICATION HandlerSpec
CONSTANTS
    TransitionCapacity = 1
    ChannelCapacity = 2
    LocalHeight = 1
    MaxHeight = 2
    MaxPushes = 4
INVARIANT ConsensusContinues
CHECK_DEADLOCK FALSE
