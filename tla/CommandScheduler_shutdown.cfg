SPECIFICATION SchedulerSpec
CONSTANTS
    MaxTick = 2
    MaxOps = 1
    GrowStep = 1
PROPERTIES
    ShutdownFinishes
CHECK_DEADLOCK FALSE
