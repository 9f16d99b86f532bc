SPECIFICATION InvokerSpec
CONSTANTS
    Callers = {c1, c2}
    MaxOpened = 2
    MaxConnections = 3
    MaxCalls = 2
    MaxPackets = 2
CHECK_DEADLOCK FALSE
INVARIANTS
    BuffersOfConnections
    FallbackHasItsEntry
    SwitchEndsFallback
PROPERTIES
    CallsReturn
