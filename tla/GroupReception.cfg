SPECIFICATION ReceptionSpec
CONSTANTS
    UInt8Range = 4
    Sizes = {1, 2, 3, 5}
    Messages = 3
    MaxFragments = 6
    windowDuration = 1
    relayMargin = 0
    MaxTime = 3
    MaxRequests = 2
CHECK_DEADLOCK FALSE
INVARIANTS
    ReceptionTypeOK
    MessagesMerged
    GaplessBetweenResets
    NothingReadyWaits
    ReferencesStored
    RemovalFindsBuffer
