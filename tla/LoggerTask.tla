----------------------------- MODULE LoggerTask -----------------------------
(***************************************************************************)
(* logger_task_thread (beaglebone_green/source/logger_task.c): it sends    *)
(* the first heartbeat of its task itself, creates its notifier and writes *)
(* the messages of mq_logger to the log file.                              *)
(***************************************************************************)
EXTENDS Heartbeat

VARIABLE logger_pc

LoggerTypeOK == logger_pc \in {"startup", "create", "loop", "receive", "close", "join", "exited"}

LoggerInit == logger_pc = "startup"

LoggerKeeps ==
    UNCHANGED <<taskVars, sem, close_app, handlerVars, main_pc>>

\* The startup heartbeat, which main() may collect before the notifier exists.
LoggerStarts ==
    /\ logger_pc = "startup"
    /\ SendHeartbeat(LOGGER_TASK_ID)
    /\ logger_pc' = "create"
    /\ LoggerKeeps /\ UNCHANGED <<mq_logger, notifier_pc, process>>

LoggerCreatesNotifier ==
    /\ logger_pc = "create"
    /\ CreateNotifier(LOGGER_TASK_ID)
    /\ logger_pc' = "loop"
    /\ LoggerKeeps /\ UNCHANGED <<mq_heartbeat, mq_logger, process>>

LoggerLoops ==
    /\ logger_pc = "loop"
    /\ logger_pc' = Loop("receive", "close")
    /\ LoggerKeeps /\ UNCHANGED <<mq_heartbeat, mq_logger, notifier_pc, process>>

\* A message is written to the file, which is opened and closed for it.
LoggerReceives ==
    /\ logger_pc = "receive" /\ mq_logger > 0
    /\ mq_logger' = mq_logger - 1
    /\ logger_pc' = "loop"
    /\ LoggerKeeps /\ UNCHANGED <<mq_heartbeat, notifier_pc, process>>

\* The file is closed a second time and written to, which is undefined: the
\* thread goes on or the program is aborted.
LoggerClosesAgain ==
    /\ logger_pc = "close"
    /\ process' \in {"running", "aborted"}
    /\ logger_pc' = "join"
    /\ LoggerKeeps /\ UNCHANGED <<mq_heartbeat, mq_logger, notifier_pc>>

LoggerJoins ==
    /\ logger_pc = "join" /\ notifier_pc[LOGGER_TASK_ID] = "exited"
    /\ logger_pc' = "exited"
    /\ LoggerKeeps /\ UNCHANGED <<mq_heartbeat, mq_logger, notifier_pc, process>>

LoggerNext ==
    \/ LoggerStarts \/ LoggerCreatesNotifier \/ LoggerLoops \/ LoggerReceives
    \/ LoggerClosesAgain \/ LoggerJoins
=============================================================================
