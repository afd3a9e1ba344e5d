SPECIFICATION FairSpec
CONSTANTS
    t1 = t1
    t2 = t2
    t3 = t3
    Threads <- ThreeThreads
    InitCount = 1
    MaxCount = 1
    Fifo = TRUE
    Priorities = {0}
    NeedCounts = {1}
    SignalCounts <- MCWildSignals
    CancelCounts = {0}
    IntMax = 1
INVARIANTS
    TokenConservation
PROPERTIES
    WaitEnds
    DeleteEnds
CHECK_DEADLOCK FALSE
