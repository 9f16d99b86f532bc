SPECIFICATION ChannelSpec
CONSTANTS
    Sizes = {1, 3}
    Capacity = 2
    SENDABLE_MAX = 2
    MaxMessages = 2
    SendCanFail = FALSE
    Reliability = {TRUE, FALSE}
    RecvBufferSize = 3
    CanDuplicate = TRUE
    CanClose = TRUE
    MaxRunners = 2
    MaxVolume = 4
CHECK_DEADLOCK FALSE
INVARIANTS
    DeliveredWhole
    ForgottenOnlyIfReceived
    AckDescribesBuffer
    FragmentationExact
PROPERTIES
    ImplementsMessageStream
