\* A user who types exit, without the UART; sizes of the program.
CONSTANTS
    HeartbeatSize = 10
    LoggerSize = 10
    MaxPosts = 1
    SocketSize = 1
    UartOpens = {FALSE}
    Reads = {}
    Commands = {"exit"}
    Prompt = TRUE
    Sigint = FALSE
SPECIFICATION FairSpec
PROPERTIES ProgramEnds
CHECK_DEADLOCK FALSE
