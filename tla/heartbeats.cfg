\* The program left alone, and with a logger that starts late.
CONSTANTS
    HeartbeatSize = 1
    LoggerSize = 4
    MaxPosts = 2
    SocketSize = 1
    UartOpens = {TRUE, FALSE}
    Reads = {"logger", "ui", "other"}
    Commands = {"local"}
    Prompt = FALSE
    Sigint = FALSE
    Scenarios = {"left_alone", "late_logger"}
SPECIFICATION MCFairSpec
INVARIANTS NoCircularWait
PROPERTIES UartFailureReported LoggerComesToWork
