\* Threads that come to rest within a period of the timer.
CONSTANTS
    HeartbeatSize = 1
    LoggerSize = 3
    MaxPosts = 1
    SocketSize = 1
    UartOpens = {TRUE, FALSE}
    Reads = {"logger", "ui", "other"}
    Commands = {"exit", "local", "request"}
    Prompt = TRUE
    Sigint = TRUE
    Scenarios = {"in_use", "closing"}
SPECIFICATION MCSpec
INVARIANTS TypeOK AnsweringTasksStayAlive AbsentTasksAreSilent ThreadsJoined
PROPERTIES AliveMeansAnswered
