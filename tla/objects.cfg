\* Two tasks of different priorities and interrupts use a queue, a semaphore or a
\* mutex.
CONSTANTS
    low = low
    middle = middle
    high = high
    First <- TwoTasks
    Idle = idle
    MaxPriorities = 3
    MaxDelay = 2
    Objects = {"toSend", "toReceive"}
    MaxPended = 1
    BlockTimes = {1}
    Increments = {}
    MaxValue = 0
    Items = {x, y}
    Token = x
    QueueShapes <- AllShapes
    QueueBlockTimes = {0, 1, 2}
    Masked = TRUE
    MaxLocked = 1
    Nobody = nobody
SPECIFICATION MCSpec
INVARIANTS KernelQueueTypeOK OneListEach NothingPending
    NoWakeUpLost PriorityIsInherited
PROPERTIES FirstInFirstOut
