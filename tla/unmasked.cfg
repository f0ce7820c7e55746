\* An interrupt above the kernel's mask, as the firmware leaves its interrupts.
CONSTANTS
    low = low
    middle = middle
    high = high
    First <- TwoTasks
    Idle = idle
    MaxPriorities = 3
    MaxDelay = 2
    Objects = {"toSend", "toReceive"}
    MaxPended = 1
    BlockTimes = {1}
    Increments = {}
    MaxValue = 0
    Items = {x, y}
    Token = x
    QueueShapes <- OnlySemaphore
    QueueBlockTimes = {0, 1, 2}
    Masked = FALSE
    MaxLocked = 1
    Nobody = nobody
SPECIFICATION MCSpec
PROPERTIES FirstInFirstOut
