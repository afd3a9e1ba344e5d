SPECIFICATION FairSpec
CONSTANTS
    t1 = t1
    t2 = t2
    t3 = t3
    Threads = {t1, t2, t3}
    Words = {0, 1}
    WakeCounts = {1, 3}
    Entries = {1, 2, 3, 4}
    NoEntry = 0
INVARIANTS
    WaitersReachable
    NoEntryLeaks
PROPERTIES
    ImplementsAddressWait
    WaitEnds
CHECK_DEADLOCK FALSE
