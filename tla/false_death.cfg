\* Threads that come to rest within a period, no traffic, no user.
CONSTANTS
    HeartbeatSize = 10
    LoggerSize = 10
    MaxPosts = 2
    SocketSize = 1
    UartOpens = {TRUE}
    Reads = {}
    Commands = {}
    Prompt = TRUE
    Sigint = FALSE
SPECIFICATION Spec
INVARIANTS AllAnsweringTasksStayAlive
