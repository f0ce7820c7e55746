----------------------------- MODULE Companion -----------------------------
(***************************************************************************)
(* The BeagleBone program: main(), the timer and the threads of its three  *)
(* tasks, from the moment main() has created them.                         *)
(***************************************************************************)
EXTENDS LoggerTask, SockCommTask, UiTask

CONSTANTS
    Prompt,  \* whether the threads come to rest between two expirations
    Sigint   \* whether the user may interrupt the program

ASSUME CompanionAssumption == Prompt \in BOOLEAN /\ Sigint \in BOOLEAN

vars == <<heartbeatVars, socketVars, logger_pc, sockVars, ui_pc>>

TypeOK ==
    /\ HeartbeatTypeOK /\ LoggerTypeOK /\ SocketTypeOK /\ SockTypeOK /\ UiTypeOK

Init ==
    /\ HeartbeatInit /\ LoggerInit /\ SocketInit /\ SockInit /\ UiInit

-----------------------------------------------------------------------------
Running == process = "running"

\* The threads have started and no heartbeat is asked for or under way.
Settled ==
    /\ logger_pc \notin {"startup", "create"} /\ sock_pc \notin {"init", "uart"} /\ ui_pc /= "start"
    /\ main_pc = "join" \/ (main_pc = "receive" /\ mq_heartbeat = <<>>)
    /\ \A i \in Tasks : \/ notifier_pc[i] \in {"absent", "exitLog", "exited"}
                        \/ notifier_pc[i] = "wait" /\ sem[i] = 0

\* What main() waits for at its end.
TasksEnded == logger_pc = "exited" /\ sock_pc = "exited" /\ ui_pc = "exited"

Main(step) == Running /\ step /\ UNCHANGED <<socketVars, logger_pc, sockVars, ui_pc>>

TimerExpires == Main((Prompt => Settled) /\ timer_expiry_handler)
HandlerStep  == Main(HandlerNext)
MainStep     == Main(MainStarts \/ MainReceives \/ MainLogs \/ MainJoins(TasksEnded))
Interrupted  == Main(Sigint /\ ~ close_app /\ signal_handler)
NotifierStep(i) == Main(NotifierNext(i))
LoggerStep   == Running /\ LoggerNext /\ UNCHANGED <<socketVars, sockVars, ui_pc>>
SockStep     == Running /\ SockNext /\ UNCHANGED <<logger_pc, ui_pc>>
UartDelivers == Running /\ SockReads /\ UNCHANGED <<logger_pc, ui_pc>>
UiHandlerStep == Running /\ UiHandlerNext /\ UNCHANGED <<logger_pc, ui_pc>>
UiStep       == Running /\ UiNext /\ UNCHANGED <<logger_pc, sockVars>>
UserTypes    == Running /\ UiReadsCommand /\ UNCHANGED <<logger_pc, sockVars>>

Next ==
    \/ MainStep \/ TimerExpires \/ HandlerStep \/ Interrupted
    \/ \E i \in Tasks : NotifierStep(i)
    \/ LoggerStep \/ SockStep \/ UartDelivers \/ UiHandlerStep \/ UiStep \/ UserTypes

(***************************************************************************)
(* Every thread is scheduled, and the kernel serves the senders that wait  *)
(* for a full queue in turn, so that a thread whose call can succeed again *)
(* and again gets through.  The timer reloads itself.  Nothing makes the   *)
(* user type, the node send or anybody interrupt the program.              *)
(***************************************************************************)
Fairness ==
    /\ SF_vars(MainStep) /\ WF_vars(TimerExpires) /\ SF_vars(HandlerStep)
    /\ \A i \in Tasks : SF_vars(NotifierStep(i))
    /\ WF_vars(LoggerStep) /\ SF_vars(SockStep) /\ SF_vars(UiHandlerStep) /\ SF_vars(UiStep)

Spec     == Init /\ [][Next]_vars
FairSpec == Spec /\ Fairness

-----------------------------------------------------------------------------
\* A task has a thread that answers its requests.
Answers(i) == notifier_pc[i] /= "absent"

\* The tasks that are asked for a heartbeat at least one expiration before the
\* handler looks at it.
TasksWithTime == {LOGGER_TASK_ID, SOCK_COMM_TASK_ID}

\* If the threads come to rest within one period of the timer, the logger and the
\* communication task are not given up while they answer (main.c:161-211).
AnsweringTasksStayAlive ==
    Prompt /\ ~ close_app =>
        \A i \in TasksWithTime : Answers(i) => task_alive[i]

\* "User Interface Task is dead.  Failed to provide its heartbeat." (main.c:207):
\* a task that answers is not given up, the user interface included.
AllAnsweringTasksStayAlive ==
    Prompt /\ ~ close_app => \A i \in Tasks : Answers(i) => task_alive[i]

\* The handler reports task i as alive.
ReportsAlive(i) ==
    handler_pc = "logAlive" /\ handler_pc' /= "logAlive" /\ handler_task = i

\* If the threads come to rest within one period, a task with time is reported as
\* alive only if it answered the request of this round, although the handler
\* reads a flag that is never reset (main.c:190-200, logger_task.c:77-88).
AliveMeansAnswered ==
    [][\A i \in TasksWithTime :
         ReportsAlive(i) /\ Prompt /\ ~ close_app => ~ send_heartbeat[i]]_vars

\* The logger has announced itself with a heartbeat of its own and not yet
\* created its notifier.
Announced(i) == i = LOGGER_TASK_ID /\ logger_pc = "create"

\* No task is counted as answering for another: main() has no heartbeat of a task
\* whose notifier does not exist, above all of a communication task that gave up
\* before it created one (sock_comm_task.c:61-76, main.c:130-132); only the logger
\* sends one before it creates its own (logger_task.c:19-26).
AbsentTasksAreSilent ==
    \A i \in Tasks : ~ Answers(i) /\ ~ Announced(i) =>
        /\ ~ task_heartbeat[i]
        /\ \A k \in DOMAIN mq_heartbeat : mq_heartbeat[k] /= i

\* main() waits for room in the logger's queue.
MainBlocked == main_pc \in {"created", "log"} /\ mq_logger = LoggerSize

\* The logger, which makes that room, waits for room in mq_heartbeat, which main()
\* makes.
LoggerBlocked == logger_pc = "startup" /\ Len(mq_heartbeat) = HeartbeatSize

\* mq_heartbeat is not much the smaller of the two queues (both hold ten).
QueuesFit == LoggerSize <= HeartbeatSize + 3

\* main() and the logger never wait for each other over their two bounded queues,
\* however late the logger starts: until it takes messages, no task is asked for a
\* second heartbeat without a message in its queue (main.c:126-138, 188-200,
\* 218-232, logger_task.c:19-30).
NoCircularWait == QueuesFit => ~ (MainBlocked /\ LoggerBlocked)

\* When main() destroys the semaphores and the queues, no thread of the logger or
\* of the communication task is left to use them, whatever they waited for when
\* the program was closed (main.c:142-154, logger_task.c:49, sock_comm_task.c:158).
ThreadsJoined ==
    process = "exited" =>
        /\ \A i \in TasksWithTime : notifier_pc[i] \in {"absent", "exited"}
        /\ logger_pc = "exited" /\ sock_pc = "exited"
        /\ ui_handler_pc \in {"absent", "exited"}

-----------------------------------------------------------------------------
\* A communication task that could not open its UART is given up, unless the
\* program is closed before (sock_comm_task.c:65-70, main.c:182-211).
UartFailureReported ==
    (sock_pc = "exited" /\ ~ Answers(SOCK_COMM_TASK_ID))
        ~> (~ task_alive[SOCK_COMM_TASK_ID] \/ close_app)

\* Whatever the speeds of the threads, the logger gets its first heartbeat off and
\* comes to take messages; it is the only thread that main() waits for and that can
\* wait for main() (main.c:126-138, logger_task.c:19-30).
LoggerComesToWork ==
    QueuesFit => <>(logger_pc \notin {"startup", "create"} \/ close_app)

\* "Process exited successfully." (main.c:156): once the user has asked for it,
\* the program ends.
ProgramEnds == close_app ~> ~ Running
=============================================================================
