\* Two tasks of the same priority, two timers, a heap of 16 units.
CONSTANTS
    first = first
    second = second
    First <- SamePriority
    Idle = idle
    MaxPriorities = 2
    MaxDelay = 3
    Objects = {}
    MaxPended = 1
    BlockTimes = {0, 2, 3}
    Increments = {2}
    MaxValue = 1
    Timers = {t1, t2}
    AutoReload = {t1}
    Periods = {1, 2}
    TimerQueueLength = 3
    MaxAsked = 1
    MaxLate = 1
    HeapStart = 1
    HeapSize = 35
    Alignment = 2
    StructSize = 2
    Sizes = {0, 1, 3, 6, 9}
SPECIFICATION MCSpec
INVARIANTS TaskServicesTypeOK TimersTypeOK HeapTypeOK
    OneListEach NothingPending HighestPriorityRuns TopIsHighest DelaysInOrder NotifiedTaskRuns
    BlocksApart FreeBlocksMerge NothingLeaks
PROPERTIES SleepsOnTime CallsBackInTime NoneCallsBackEarly
