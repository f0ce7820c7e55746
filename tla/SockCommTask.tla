---------------------------- MODULE SockCommTask ----------------------------
(***************************************************************************)
(* sock_comm_task_thread and sock_comm_ui_handler_task_thread              *)
(* (beaglebone_green/source/sock_comm_task.c): the first routes what the   *)
(* UART delivers to the logger or to the user interface, the second writes *)
(* the requests of the user interface to the UART.                         *)
(***************************************************************************)
EXTENDS Heartbeat, UserSockets

CONSTANTS
    UartOpens,  \* the outcomes of UART4_Init
    Reads       \* what UART4Recv may return

\* What a read gives by its route_id: a packet for the logger, for the user
\* interface or for nobody.  An error is logged as well.
ReadResults == {"logger", "ui", "other"}

ASSUME SockCommAssumption ==
    /\ UartOpens \subseteq BOOLEAN /\ UartOpens /= {}
    /\ Reads \subseteq ReadResults

VARIABLES
    sock_pc,
    ui_handler_pc

sockVars == <<sock_pc, ui_handler_pc>>

SockTypeOK ==
    /\ sock_pc \in {"init", "uart", "loop", "read", "log", "forward", "logError", "close",
                    "join", "exited"}
    /\ ui_handler_pc \in {"absent", "loop", "receive", "log", "write", "logError", "exited"}

SockInit == sock_pc = "init" /\ ui_handler_pc = "absent"

SockKeeps ==
    UNCHANGED <<taskVars, sem, mq_heartbeat, close_app, handlerVars, main_pc>>

-----------------------------------------------------------------------------
\* Mutant: a UART that could be opened is not logged (the line says that it could
\* not).
SockStartsQuietly ==
    \/ /\ sock_pc = "init"
       /\ Bind("comm")
       /\ sock_pc' = "uart"
       /\ SockKeeps /\ UNCHANGED <<mq_logger, notifier_pc, process, ui_handler_pc>>
    \/ /\ sock_pc = "uart"
       /\ \/ /\ TRUE \in UartOpens
             /\ CreateNotifier(SOCK_COMM_TASK_ID)
             /\ sock_pc' = "loop" /\ ui_handler_pc' = "loop" /\ UNCHANGED mq_logger
          \/ /\ FALSE \in UartOpens /\ LOG
             /\ sock_pc' = "exited" /\ UNCHANGED <<notifier_pc, ui_handler_pc>>
       /\ SockKeeps /\ UNCHANGED <<process, socketVars>>

\* The thread gives up if the UART cannot be opened, before it creates its
\* notifier; it logs a line in both cases.
SockStarts ==
    \/ /\ sock_pc = "init"
       /\ Bind("comm")
       /\ sock_pc' = "uart"
       /\ SockKeeps /\ UNCHANGED <<mq_logger, notifier_pc, process, ui_handler_pc>>
    \/ /\ sock_pc = "uart" /\ LOG
       /\ \/ /\ TRUE \in UartOpens
             /\ CreateNotifier(SOCK_COMM_TASK_ID)
             /\ sock_pc' = "loop" /\ ui_handler_pc' = "loop"
          \/ /\ FALSE \in UartOpens
             /\ sock_pc' = "exited" /\ UNCHANGED <<notifier_pc, ui_handler_pc>>
       /\ SockKeeps /\ UNCHANGED <<process, socketVars>>

\* The step of a thread that only moves on.
SockMoves(from, to) ==
    /\ sock_pc = from /\ sock_pc' = to
    /\ SockKeeps /\ UNCHANGED <<notifier_pc, ui_handler_pc>>

SockLoops ==
    /\ SockMoves("loop", Loop("read", "close"))
    /\ UNCHANGED <<mq_logger, process, socketVars>>

\* The read is the environment's.
SockReads ==
    /\ \/ "logger" \in Reads /\ SockMoves("read", "log")
       \/ "ui" \in Reads /\ SockMoves("read", "forward")
       \/ "other" \in Reads /\ SockMoves("read", "loop")
    /\ UNCHANGED <<mq_logger, process, socketVars>>

SockLogs ==
    /\ \/ SockMoves("log", "loop")
       \/ SockMoves("logError", "loop")
    /\ LOG /\ UNCHANGED <<process, socketVars>>

SockForwards ==
    /\ \/ SendTo("ui") /\ SockMoves("forward", "loop")
       \/ SendToFails("ui") /\ SockMoves("forward", "logError")
    /\ UNCHANGED <<mq_logger, process>>

\* The thread writes to a file the logger may have closed, which is undefined.
SockWritesClosed ==
    /\ SockMoves("close", "join")
    /\ process' \in {"running", "aborted"}
    /\ UNCHANGED <<mq_logger, socketVars>>

\* Mutant: the thread of the user interface's requests is not joined.
SockJoinsNotifier ==
    /\ SockMoves("join", "exited")
    /\ notifier_pc[SOCK_COMM_TASK_ID] = "exited"
    /\ UNCHANGED <<mq_logger, process, socketVars>>

SockJoins ==
    /\ SockMoves("join", "exited")
    /\ notifier_pc[SOCK_COMM_TASK_ID] = "exited" /\ ui_handler_pc = "exited"
    /\ UNCHANGED <<mq_logger, process, socketVars>>

SockNext ==
    SockStarts \/ SockLoops \/ SockLogs \/ SockForwards \/ SockWritesClosed \/ SockJoins

-----------------------------------------------------------------------------
UiHandlerMoves(from, to) ==
    /\ ui_handler_pc = from /\ ui_handler_pc' \in to
    /\ SockKeeps /\ UNCHANGED <<notifier_pc, process, sock_pc>>

UiHandlerLoops ==
    /\ UiHandlerMoves("loop", {Loop("receive", "exited")})
    /\ UNCHANGED <<mq_logger, socketVars>>

UiHandlerReceives ==
    /\ UiHandlerMoves("receive", {"log"})
    /\ ReceiveFrom("comm") /\ UNCHANGED mq_logger

UiHandlerLogs ==
    /\ \/ UiHandlerMoves("log", {"write"})
       \/ UiHandlerMoves("logError", {"loop"})
    /\ LOG /\ UNCHANGED socketVars

\* The write to the UART succeeds or fails.
UiHandlerWrites ==
    /\ UiHandlerMoves("write", {"loop", "logError"})
    /\ UNCHANGED <<mq_logger, socketVars>>

UiHandlerNext ==
    UiHandlerLoops \/ UiHandlerReceives \/ UiHandlerLogs \/ UiHandlerWrites
=============================================================================
