------------------------------- MODULE UiTask -------------------------------
(***************************************************************************)
(* ui_task_thread (beaglebone_green/source/ui_task.c): it reads a command, *)
(* sends the request to the communication task and waits for the response, *)
(* without a timeout.                                                      *)
(***************************************************************************)
EXTENDS Heartbeat, UserSockets

CONSTANT Commands  \* what the user may type

\* "local" commands are answered without a request: help, an unknown command, a
\* threshold out of range.
CommandClasses == {"exit", "local", "request"}

ASSUME UiAssumption == Commands \subseteq CommandClasses

VARIABLE ui_pc

UiTypeOK == ui_pc \in {"start", "loop", "prompt", "send", "logError", "await", "exited"}

UiInit == ui_pc = "start"

UiMoves(from, to) ==
    /\ ui_pc = from /\ ui_pc' = to
    /\ UNCHANGED <<taskVars, sem, mq_heartbeat, handlerVars, main_pc, process>>

UiStarts ==
    /\ UiMoves("start", "loop")
    /\ Bind("ui") /\ CreateNotifier(UI_TASK_ID)
    /\ UNCHANGED <<mq_logger, close_app>>

UiLoops ==
    /\ UiMoves("loop", Loop("prompt", "exited"))
    /\ UNCHANGED <<mq_logger, close_app, notifier_pc, socketVars>>

\* The command is the user's.
UiReadsCommand ==
    /\ \/ "exit" \in Commands /\ UiMoves("prompt", "exited") /\ close_app' = TRUE
       \/ "local" \in Commands /\ UiMoves("prompt", "loop") /\ UNCHANGED close_app
       \/ "request" \in Commands /\ UiMoves("prompt", "send") /\ UNCHANGED close_app
    /\ UNCHANGED <<mq_logger, notifier_pc, socketVars>>

\* A request that cannot be sent is logged and its response awaited all the same.
UiSends ==
    /\ \/ SendTo("comm") /\ UiMoves("send", "await")
       \/ SendToFails("comm") /\ UiMoves("send", "logError")
    /\ UNCHANGED <<mq_logger, close_app, notifier_pc>>

UiLogsError ==
    /\ LOG /\ UiMoves("logError", "await")
    /\ UNCHANGED <<close_app, notifier_pc, socketVars>>

UiReceives ==
    /\ ReceiveFrom("ui") /\ UiMoves("await", "loop")
    /\ UNCHANGED <<mq_logger, close_app, notifier_pc>>

UiNext == UiStarts \/ UiLoops \/ UiSends \/ UiLogsError \/ UiReceives
=============================================================================
