SPECIFICATION Spec
CONSTANTS
    t1 = t1
    t2 = t2
    Threads = {t1, t2}
    Highs = {0}
    Lows = {0, 1}
    WakeCounts = {0, 1, 2}
INVARIANTS
    WokenSucceeds
CHECK_DEADLOCK FALSE
