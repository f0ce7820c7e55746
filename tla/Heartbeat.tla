----------------------------- MODULE Heartbeat -----------------------------
(***************************************************************************)
(* The watchdog of the BeagleBone program (beaglebone_green/main.c): what  *)
(* main() shares with its threads, main() itself, the timer's handler and  *)
(* the heartbeat notifier that each task runs in a thread of its own.      *)
(*                                                                         *)
(* On every third expiration the handler looks at the heartbeats main()    *)
(* has collected: it reports the tasks that have one as alive and asks     *)
(* them for another, and gives up the others for good.                     *)
(*                                                                         *)
(* A call on a POSIX queue or semaphore is one step, disabled while it     *)
(* blocks.  Of mq_logger only the number of messages is kept.              *)
(***************************************************************************)
EXTENDS Naturals, Sequences

CONSTANTS
    HeartbeatSize,  \* messages mq_heartbeat can hold (10 in setup_mq)
    LoggerSize,     \* messages mq_logger can hold (10)
    MaxPosts        \* bound on the count of a semaphore

\* main() logs three lines before it creates the threads that read them.
ASSUME HeartbeatAssumption ==
    /\ HeartbeatSize \in Nat \ {0}
    /\ LoggerSize \in Nat /\ LoggerSize >= 3
    /\ MaxPosts \in Nat \ {0}

LOGGER_TASK_ID    == 0
SOCK_COMM_TASK_ID == 1
UI_TASK_ID        == 2
Tasks == {LOGGER_TASK_ID, SOCK_COMM_TASK_ID, UI_TASK_ID}

VARIABLES
    task_alive,      \* not given up
    task_heartbeat,  \* a heartbeat of the task was collected; never reset
    send_heartbeat,  \* the task is asked for a heartbeat
    sem,             \* sem_logger, sem_sock_comm, sem_ui
    mq_heartbeat,    \* senders of the heartbeats under way
    mq_logger,       \* number of messages in the logger's queue
    close_app,
    count,           \* `count' of timer_expiry_handler
    handler_pc,
    handler_task,    \* the task the handler looks at
    main_pc,
    notifier_pc,
    process          \* "running", "exited" by main(), or "aborted"

taskVars     == <<task_alive, task_heartbeat, send_heartbeat>>
handlerVars  == <<count, handler_pc, handler_task>>
threadVars   == <<main_pc, notifier_pc, process>>
heartbeatVars == <<taskVars, sem, mq_heartbeat, mq_logger, close_app, handlerVars, threadVars>>

HeartbeatTypeOK ==
    /\ task_alive \in [Tasks -> BOOLEAN]
    /\ task_heartbeat \in [Tasks -> BOOLEAN]
    /\ send_heartbeat \in [Tasks -> BOOLEAN]
    /\ sem \in [Tasks -> 0..MaxPosts]
    /\ mq_heartbeat \in Seq(Tasks) /\ Len(mq_heartbeat) <= HeartbeatSize
    /\ mq_logger \in 0..LoggerSize
    /\ close_app \in BOOLEAN
    /\ count \in 0..2
    /\ handler_pc \in {"idle", "test", "logAlive", "logDead"}
    /\ handler_task \in Tasks
    /\ main_pc \in {"created", "receive", "log", "join"}
    /\ notifier_pc \in [Tasks -> {"absent", "loop", "wait", "send", "clear", "exitLog", "exited"}]
    /\ process \in {"running", "exited", "aborted"}

\* main() has created the three threads and not yet logged that it did.
HeartbeatInit ==
    /\ task_alive = [i \in Tasks |-> TRUE]
    /\ task_heartbeat = [i \in Tasks |-> FALSE]
    /\ send_heartbeat = [i \in Tasks |-> TRUE]
    /\ sem = [i \in Tasks |-> 0]
    /\ mq_heartbeat = <<>>
    /\ mq_logger = 3
    /\ close_app = FALSE
    /\ count = 0
    /\ handler_pc = "idle"
    /\ handler_task = LOGGER_TASK_ID
    /\ main_pc = "created"
    /\ notifier_pc = [i \in Tasks |-> "absent"]
    /\ process = "running"

-----------------------------------------------------------------------------
(* Calls the threads make.                                                 *)

\* LOG: a blocking send to the logger's queue.
LOG == mq_logger < LoggerSize /\ mq_logger' = mq_logger + 1

SendHeartbeat(i) ==
    /\ Len(mq_heartbeat) < HeartbeatSize
    /\ mq_heartbeat' = Append(mq_heartbeat, i)

\* pthread_create of the notifier of task i.
CreateNotifier(i) == notifier_pc' = [notifier_pc EXCEPT ![i] = "loop"]

\* `while(!close_app)'.
Loop(body, after) == IF close_app THEN after ELSE body

-----------------------------------------------------------------------------
(* main().                                                                 *)

\* The last line of the set-up is logged and the timer started.
MainStarts ==
    /\ main_pc = "created" /\ LOG
    /\ main_pc' = Loop("receive", "join")
    /\ UNCHANGED <<taskVars, sem, mq_heartbeat, close_app, handlerVars, notifier_pc, process>>

MainReceives ==
    /\ main_pc = "receive" /\ mq_heartbeat /= <<>>
    /\ task_heartbeat' = [task_heartbeat EXCEPT ![Head(mq_heartbeat)] = TRUE]
    /\ mq_heartbeat' = Tail(mq_heartbeat)
    /\ main_pc' = "log"
    /\ UNCHANGED <<task_alive, send_heartbeat, sem, mq_logger, close_app, handlerVars,
                   notifier_pc, process>>

MainLogs ==
    /\ main_pc = "log" /\ LOG
    /\ main_pc' = Loop("receive", "join")
    /\ UNCHANGED <<taskVars, sem, mq_heartbeat, close_app, handlerVars, notifier_pc, process>>

\* The joins return when the three threads have ended.
MainJoins(ended) ==
    /\ main_pc = "join" /\ ended
    /\ process' = "exited"
    /\ UNCHANGED <<taskVars, sem, mq_heartbeat, mq_logger, close_app, handlerVars,
                   main_pc, notifier_pc>>

\* signal_handler; the interrupted calls are restarted.
signal_handler ==
    /\ close_app' = TRUE
    /\ UNCHANGED <<taskVars, sem, mq_heartbeat, mq_logger, handlerVars, threadVars>>

-----------------------------------------------------------------------------
(* timer_expiry_handler.                                                   *)

\* Mutant: the count is not reset.
timer_expiry_handler_no_reset ==
    /\ main_pc /= "created" /\ handler_pc = "idle"
    /\ sem' = [sem EXCEPT ![count] = IF @ < MaxPosts THEN @ + 1 ELSE @]
    /\ count' = count + 1
    /\ handler_pc' = IF count = 2 THEN "test" ELSE "idle"
    /\ handler_task' = LOGGER_TASK_ID
    /\ UNCHANGED <<taskVars, mq_heartbeat, mq_logger, close_app, threadVars>>

\* Mutant: the heartbeats are looked at one expiration early.
timer_expiry_handler_early ==
    /\ main_pc /= "created" /\ handler_pc = "idle"
    /\ sem' = [sem EXCEPT ![count] = IF @ < MaxPosts THEN @ + 1 ELSE @]
    /\ count' = (count + 1) % 3
    /\ handler_pc' = IF count = 1 THEN "test" ELSE "idle"
    /\ handler_task' = LOGGER_TASK_ID
    /\ UNCHANGED <<taskVars, mq_heartbeat, mq_logger, close_app, threadVars>>

\* An expiration posts the semaphore of one task; the third goes on to look at
\* the heartbeats.  A handler is over before the next expiration.
timer_expiry_handler ==
    /\ main_pc /= "created" /\ handler_pc = "idle"
    /\ sem' = [sem EXCEPT ![count] = IF @ < MaxPosts THEN @ + 1 ELSE @]
    /\ count' = (count + 1) % 3
    /\ handler_pc' = IF count = 2 THEN "test" ELSE "idle"
    /\ handler_task' = LOGGER_TASK_ID
    /\ UNCHANGED <<taskVars, mq_heartbeat, mq_logger, close_app, threadVars>>

NextTask ==
    IF handler_task = UI_TASK_ID
      THEN handler_pc' = "idle" /\ UNCHANGED handler_task
      ELSE handler_pc' = "test" /\ handler_task' = handler_task + 1

HandlerTests ==
    /\ handler_pc = "test"
    /\ \/ /\ ~ task_alive[handler_task]
          /\ NextTask /\ UNCHANGED task_alive
       \/ /\ task_alive[handler_task] /\ task_heartbeat[handler_task]
          /\ handler_pc' = "logAlive" /\ UNCHANGED <<handler_task, task_alive>>
       \/ /\ task_alive[handler_task] /\ ~ task_heartbeat[handler_task]
          /\ task_alive' = [task_alive EXCEPT ![handler_task] = FALSE]
          /\ handler_pc' = "logDead" /\ UNCHANGED handler_task
    /\ UNCHANGED <<task_heartbeat, send_heartbeat, sem, mq_heartbeat, mq_logger, close_app,
                   count, threadVars>>

HandlerLogsAlive ==
    /\ handler_pc = "logAlive" /\ LOG
    /\ send_heartbeat' = [send_heartbeat EXCEPT ![handler_task] = TRUE]
    /\ task_alive' = [task_alive EXCEPT ![handler_task] = TRUE]
    /\ NextTask
    /\ UNCHANGED <<task_heartbeat, sem, mq_heartbeat, close_app, count, threadVars>>

HandlerLogsDead ==
    /\ handler_pc = "logDead" /\ LOG
    /\ NextTask
    /\ UNCHANGED <<taskVars, sem, mq_heartbeat, close_app, count, threadVars>>

HandlerNext == HandlerTests \/ HandlerLogsAlive \/ HandlerLogsDead

-----------------------------------------------------------------------------
(* The notifiers.                                                          *)

\* The logger's notifier logs that it ends.
NotifierEnds(i) == IF i = LOGGER_TASK_ID THEN "exitLog" ELSE "exited"

Notifier(i, from, to) ==
    /\ notifier_pc[i] = from
    /\ notifier_pc' = [notifier_pc EXCEPT ![i] = to]
    /\ UNCHANGED <<task_alive, task_heartbeat, close_app, handlerVars, main_pc, process>>

NotifierLoops(i) ==
    /\ Notifier(i, "loop", Loop("wait", NotifierEnds(i)))
    /\ UNCHANGED <<send_heartbeat, sem, mq_heartbeat, mq_logger>>

NotifierWaits(i) ==
    /\ sem[i] > 0 /\ sem' = [sem EXCEPT ![i] = @ - 1]
    /\ Notifier(i, "wait", IF send_heartbeat[i] THEN "send" ELSE "loop")
    /\ UNCHANGED <<send_heartbeat, mq_heartbeat, mq_logger>>

\* Mutant: the sender of another notifier, from which the code was copied.
NotifierSendsAsSock(i) ==
    /\ SendHeartbeat(IF i = UI_TASK_ID THEN SOCK_COMM_TASK_ID ELSE i)
    /\ Notifier(i, "send", "clear")
    /\ UNCHANGED <<send_heartbeat, sem, mq_logger>>

NotifierSends(i) ==
    /\ SendHeartbeat(i)
    /\ Notifier(i, "send", "clear")
    /\ UNCHANGED <<send_heartbeat, sem, mq_logger>>

\* Mutant: the request is not cleared.
NotifierClearsNot(i) ==
    /\ Notifier(i, "clear", "loop")
    /\ UNCHANGED <<send_heartbeat, sem, mq_heartbeat, mq_logger>>

NotifierClears(i) ==
    /\ send_heartbeat' = [send_heartbeat EXCEPT ![i] = FALSE]
    /\ Notifier(i, "clear", "loop")
    /\ UNCHANGED <<sem, mq_heartbeat, mq_logger>>

NotifierLogsExit(i) ==
    /\ LOG
    /\ Notifier(i, "exitLog", "exited")
    /\ UNCHANGED <<send_heartbeat, sem, mq_heartbeat>>

NotifierNext(i) ==
    \/ NotifierLoops(i) \/ NotifierWaits(i) \/ NotifierSends(i)
    \/ NotifierClears(i) \/ NotifierLogsExit(i)
=============================================================================
