SPECIFICATION GroupMediaSpec
CONSTANTS
    NbNeighbours = 2
    MaxFragments = 4
    References = {2, 4}
    Masks = 1
    MinReferences = 1
    availabilitySendToAll = FALSE
CHECK_DEADLOCK FALSE
INVARIANTS
    GroupMediaTypeOK
    PusherWasAsked
    HolesAccounted
PROPERTIES
    MaskKeepsPusher
