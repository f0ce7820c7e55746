\* Telemetry of both sensors, and commands that race the samples of the BME280.
CONSTANTS
    QueueLength = 2
    SemaphoreMaxCount = 2
    Packets = {"bme", "hcsr", "other"}
    BmeInitResults = {TRUE, FALSE}
    MaxPeople = 1
    EchoAttached = TRUE
    Scenarios <- Safety
SPECIFICATION MCSpec
INVARIANTS TypeOK CommNoticesSend BmeNoticesSend EchoAnswersPulse HcsrNoticesCommands
