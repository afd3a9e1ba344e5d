SPECIFICATION FairSpec
CONSTANTS
    t1 = t1
    t2 = t2
    t3 = t3
    Threads <- ThreeThreads
    Bits = {0, 1}
    InitBits = {}
    Requests <- MCRequests
    Patterns <- MCPatterns
INVARIANTS
    NoLostSet
    CancelReachesVictims
    WaitersLeaveBeforeFree
PROPERTIES
    CallsEnd
CHECK_DEADLOCK FALSE
