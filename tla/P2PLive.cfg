SPECIFICATION FairP2PSpec
CONSTANTS
    Peers = {1, 2}
    NoId = NoId
    MaxSessions = 1
    MaxCookies = 2
    MaxAttempts = 2
    CanFail = FALSE
CHECK_DEADLOCK FALSE
PROPERTIES
    BothConnect
