SPECIFICATION P2PSpec
CONSTANTS
    Peers = {1, 2}
    NoId = NoId
    MaxSessions = 2
    MaxCookies = 2
    MaxAttempts = 1
    CanFail = TRUE
CHECK_DEADLOCK FALSE
INVARIANTS
    NoDanglingSession
    ConnectingHasHandshake
    MutualKeys
PROPERTIES
    SessionMovesForward
