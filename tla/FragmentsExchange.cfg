SPECIFICATION ExchangeSpec
CONSTANTS
    ByteBits = 2
    MaxFragments = 6
    InitialSize = 1
CHECK_DEADLOCK FALSE
INVARIANTS
    BeliefExact
