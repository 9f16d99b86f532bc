SPECIFICATION ReceptionLive
CONSTANTS
    UInt8Range = 4
    Sizes = {1, 2, 3, 5}
    Messages = 3
    MaxFragments = 5
    windowDuration = 1
    relayMargin = 0
    MaxTime = 0
    MaxRequests = 1
CHECK_DEADLOCK FALSE
PROPERTIES
    ReadingGoesOn
