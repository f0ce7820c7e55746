\* Commands for every sensor, the HC-SR04s alone, the BME280 alone.
CONSTANTS
    QueueLength = 2
    SemaphoreMaxCount = 2
    Packets = {"bme", "hcsr"}
    BmeInitResults = {TRUE, FALSE}
    MaxPeople = 1
    EchoAttached = TRUE
    Scenarios <- Service
SPECIFICATION ServiceSpec
PROPERTIES HcsrCommandsHandled AttachedCyclesRun SampledLogLinesWritten
