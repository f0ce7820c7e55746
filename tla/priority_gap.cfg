\* Three tasks use one mutex.
CONSTANTS
    low = low
    middle = middle
    high = high
    First <- ThreeTasks
    Idle = idle
    MaxPriorities = 4
    MaxDelay = 2
    Objects = {"toSend", "toReceive"}
    MaxPended = 1
    BlockTimes = {1}
    Increments = {}
    MaxValue = 0
    Items = {x, y}
    Token = x
    QueueShapes <- OnlyMutex
    QueueBlockTimes = {0, 1, 2}
    Masked = TRUE
    MaxLocked = 1
    Nobody = nobody
SPECIFICATION MCSpec
INVARIANTS HighestPriorityRuns
