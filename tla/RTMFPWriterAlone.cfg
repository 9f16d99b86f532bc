SPECIFICATION AloneSpec
CONSTANTS
    Sizes = {1, 3}
    Capacity = 2
    SENDABLE_MAX = 2
    MaxMessages = 2
    SendCanFail = TRUE
    Acks = {0, 1, 2, 3}
    Losses = {0, 1}
    MaxRunners = 2
CHECK_DEADLOCK FALSE
INVARIANTS
    WriterTypeOK
    EveryStageHeldOnce
    UnsentKeepsTimer
    AbandonSparesReliable
    StageIsStable
