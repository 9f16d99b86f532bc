SPECIFICATION NetGroupSpec
CONSTANTS
    Peers = {p1, p2, p3}
    Tags = {tag}
    ClosestPeers = 1
    NETGROUP_MIN_PEERS_TIMEOUT = 2
    NETGROUP_RATE_MIN = 3
    MinTries = 2
    MaxTries = 5
SYMMETRY PeerSymmetry
CHECK_DEADLOCK FALSE
INVARIANTS
    NetGroupTypeOK
    PeersAreHeard
    AttemptsCounted
    NoAttemptLeftBehind
