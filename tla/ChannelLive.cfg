SPECIFICATION FairChannelSpec
CONSTANTS
    Sizes = {1, 3}
    Capacity = 2
    SENDABLE_MAX = 2
    MaxMessages = 2
    SendCanFail = FALSE
    Reliability = {TRUE}
    RecvBufferSize = 10
    CanDuplicate = FALSE
    CanClose = FALSE
    MaxRunners = 6
    MaxVolume = 6
CHECK_DEADLOCK FALSE
PROPERTIES
    ReliableDelivered
