SPECIFICATION FairThreadQueueSpec
CONSTANTS
    Producers = {p1, p2}
    Stoppers = {s1, s2}
    Free = Free
    MaxSubmitted = 3
    MaxStops = 2
CHECK_DEADLOCK FALSE
INVARIANTS
    NoLostWakeUp
    JoinDrains
PROPERTIES
    ImplementsRunnerQueue
    StopReturns
