SPECIFICATION Spec
CONSTANTS
    t1 = t1
    t2 = t2
    t3 = t3
    t4 = t4
    o1 = o1
    o2 = o2
    CondThreads <- ThreeThreads
    NoThread = NoThread
    MutexTypes = {1, 2}
    MaxDepth = 2
    MaxCalls = 7
    RwThreads <- ThreeThreads
    NoWriter = NoWriter
    MaxReads = 2
    OnceThreads <- ThreeThreads
    Onces = {o1, o2}
    SemThreads <- FourThreads
    ValueMax = 3
    InitValues = {0, 3}
INVARIANTS
    CondWakeExact
    CondMutexDepth
    RwExclusion
    RwWritersCounted
    OnceExactlyOnce
    GuestMirror
    NoLostPost
PROPERTIES
    CondWaitEnds
    RwWriterGetsIn
    SemWaitEnds
CHECK_DEADLOCK FALSE
