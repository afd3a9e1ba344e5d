SPECIFICATION FairSpec
CONSTANTS
    t1 = t1
    t2 = t2
    t3 = t3
    user = user
    queued = queued
    timer = timer
    Threads = {t1, t2, t3}
    Keys = {user, queued, timer}
    Uses <- GuestUses
    Udata = {1}
    Nums = {1, 2}
    MaxIssued = 2
INVARIANTS
    QueuedInOrder
    SignalPerTrigger
PROPERTIES
    WaitEnds
CHECK_DEADLOCK FALSE
