SPECIFICATION Spec
CONSTANTS
    MaxTick = 5
    MaxOps = 3
    GrowStep = 2
    FlipQueueCapacity = 2
    Indices = {0}
    FlipRates = {1}
    MaxFlips = 3
    MaxGeneration = 3
    FlipBudget = 4
    OperationTicks = 4
INVARIANTS
    NothingBeforeTheGpu
    OperationsExact
    SchedulerSettles
    FramesExact
    PortCounts
    FlipsSettle
CHECK_DEADLOCK FALSE
