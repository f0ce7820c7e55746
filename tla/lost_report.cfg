\* The HC-SR04s alone: a report can be left in the queue for ever.
CONSTANTS
    QueueLength = 3
    SemaphoreMaxCount = 2
    Packets = {}
    BmeInitResults = {FALSE}
    MaxPeople = 1
    EchoAttached = TRUE
SPECIFICATION FairSpec
PROPERTIES LogLinesWritten
