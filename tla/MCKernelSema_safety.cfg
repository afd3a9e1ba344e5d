SPECIFICATION Spec
CONSTANTS
    t1 = t1
    t2 = t2
    t3 = t3
    Threads <- ThreeThreads
    InitCount = 1
    MaxCount = 2
    Fifo = FALSE
    Priorities = {0, 1}
    NeedCounts <- MCNeedCounts
    SignalCounts = {1, 2}
    CancelCounts <- MCCancelCounts
    IntMax = 15
SYMMETRY ThreadSymmetry
INVARIANTS
    QueueIsCallers
    NoCallerOutlivesSema
    NoMissedGrant
    TokenConservation
    CancelAccounting
PROPERTIES
    NoPriorityInversion
CHECK_DEADLOCK FALSE
