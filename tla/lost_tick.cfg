\* Commands for the BME280 race its samples: a request can be lost.
CONSTANTS
    QueueLength = 2
    SemaphoreMaxCount = 2
    Packets = {"bme"}
    BmeInitResults = {TRUE}
    MaxPeople = 0
    EchoAttached = FALSE
SPECIFICATION Spec
PROPERTIES RequestsAreSampled
CHECK_DEADLOCK FALSE
