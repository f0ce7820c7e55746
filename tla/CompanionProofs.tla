-------------------------- MODULE CompanionProofs --------------------------
(***************************************************************************)
(* Proofs about Companion for every size of the queues and the sockets,    *)
(* every outcome of opening the UART, and any user and node.               *)
(***************************************************************************)
EXTENDS Companion, TLAPS

\* A heartbeat of task i is in mq_heartbeat.
InFlight(i) == \E k \in 1..Len(mq_heartbeat) : mq_heartbeat[k] = i

-----------------------------------------------------------------------------
(* The calls.                                                              *)

\* A heartbeat sent is in flight, behind those that were (mq_send).
LEMMA SendLemma ==
    ASSUME HeartbeatTypeOK, NEW j \in Tasks, SendHeartbeat(j)
    PROVE  /\ mq_heartbeat' \in Seq(Tasks) /\ Len(mq_heartbeat') <= HeartbeatSize
           /\ \A i \in Tasks : InFlight(i)' <=> InFlight(i) \/ i = j
  <1>1. /\ mq_heartbeat \in Seq(Tasks) /\ Len(mq_heartbeat) < HeartbeatSize
        /\ mq_heartbeat' = Append(mq_heartbeat, j)
    BY DEF HeartbeatTypeOK, SendHeartbeat
  <1>2. /\ mq_heartbeat' \in Seq(Tasks)
        /\ Len(mq_heartbeat') = Len(mq_heartbeat) + 1
        /\ mq_heartbeat'[Len(mq_heartbeat) + 1] = j
        /\ \A k \in 1..Len(mq_heartbeat) : mq_heartbeat'[k] = mq_heartbeat[k]
    BY <1>1
  <1>3. \A i \in Tasks : InFlight(i)' <=> InFlight(i) \/ i = j
    BY <1>1, <1>2 DEF InFlight
  <1>. QED  BY <1>1, <1>2, <1>3, HeartbeatAssumption

\* The receiver takes the oldest heartbeat and leaves the others in flight
\* (mq_receive).
LEMMA ReceiveLemma ==
    ASSUME HeartbeatTypeOK, mq_heartbeat /= <<>>, mq_heartbeat' = Tail(mq_heartbeat)
    PROVE  /\ Head(mq_heartbeat) \in Tasks /\ InFlight(Head(mq_heartbeat))
           /\ mq_heartbeat' \in Seq(Tasks) /\ Len(mq_heartbeat') <= HeartbeatSize
           /\ \A i \in Tasks : InFlight(i)' => InFlight(i)
           /\ \A i \in Tasks : InFlight(i) => InFlight(i)' \/ i = Head(mq_heartbeat)
  <1>1. mq_heartbeat \in Seq(Tasks) /\ Len(mq_heartbeat) <= HeartbeatSize
    BY DEF HeartbeatTypeOK
  <1>2. Len(mq_heartbeat) > 0 /\ Head(mq_heartbeat) = mq_heartbeat[1]
    BY <1>1
  <1>3. /\ mq_heartbeat' \in Seq(Tasks) /\ Len(mq_heartbeat') = Len(mq_heartbeat) - 1
        /\ \A k \in 1..Len(mq_heartbeat') : mq_heartbeat'[k] = mq_heartbeat[k + 1]
    BY <1>1, <1>2
  <1>4. \A i \in Tasks : InFlight(i)' => InFlight(i)
    BY <1>1, <1>3 DEF InFlight
  <1>5. ASSUME NEW i \in Tasks, InFlight(i), i /= Head(mq_heartbeat) PROVE InFlight(i)'
    <2>1. PICK k \in 1..Len(mq_heartbeat) : mq_heartbeat[k] = i
      BY <1>5 DEF InFlight
    <2>2. k /= 1
      BY <2>1, <1>2, <1>5
    <2>3. k - 1 \in 1..Len(mq_heartbeat') /\ mq_heartbeat'[k - 1] = i
      BY <2>1, <2>2, <1>1, <1>3
    <2>. QED  BY <2>3 DEF InFlight
  <1>6. mq_heartbeat[1] \in Tasks /\ InFlight(mq_heartbeat[1])
    BY <1>1, <1>2 DEF InFlight
  <1>. QED  BY <1>1, <1>2, <1>3, <1>4, <1>5, <1>6, HeartbeatAssumption

\* LOG keeps the logger's queue within its size.
LEMMA LogLemma ==
    ASSUME HeartbeatTypeOK, LOG
    PROVE  mq_logger' \in 0..LoggerSize
  BY HeartbeatAssumption DEF HeartbeatTypeOK, LOG

-----------------------------------------------------------------------------
(* Types, one lemma per thread.                                            *)

\* main(), the interrupt and the first part of the timer's handler.
LEMMA MainTypes ==
    ASSUME TypeOK, MainStep \/ Interrupted \/ TimerExpires
    PROVE  TypeOK'
  <1>. HeartbeatTypeOK
    BY DEF TypeOK
  <1>. USE DEF TypeOK, Main, heartbeatVars, taskVars, handlerVars, threadVars, socketVars,
               sockVars
  <1>0. UNCHANGED <<socketVars, logger_pc, sockVars, ui_pc>>
    BY DEF MainStep, Interrupted, TimerExpires
  <1>00. LoggerTypeOK' /\ SocketTypeOK' /\ SockTypeOK' /\ UiTypeOK'
    BY <1>0 DEF LoggerTypeOK, SocketTypeOK, SockTypeOK, UiTypeOK
  <1>1. CASE MainStep /\ (MainStarts \/ MainLogs)
    BY <1>1, <1>00, LogLemma DEF MainStarts, MainLogs, Loop, HeartbeatTypeOK
  <1>2. CASE MainStep /\ MainReceives
    BY <1>2, <1>00, ReceiveLemma DEF MainReceives, HeartbeatTypeOK
  <1>3. CASE MainStep /\ MainJoins(TasksEnded)
    BY <1>3, <1>00 DEF MainJoins, HeartbeatTypeOK
  <1>4. CASE Interrupted
    BY <1>4, <1>00 DEF Interrupted, signal_handler, HeartbeatTypeOK
  <1>5. CASE TimerExpires
    <2>1. /\ sem' = [sem EXCEPT ![count] = IF @ < MaxPosts THEN @ + 1 ELSE @]
          /\ count' = (count + 1) % 3
      BY <1>5 DEF TimerExpires, timer_expiry_handler
    <2>2. sem' \in [Tasks -> 0..MaxPosts]
      <3>1. sem \in [Tasks -> 0..MaxPosts] /\ MaxPosts \in Nat
        BY HeartbeatAssumption DEF HeartbeatTypeOK
      <3>2. (IF sem[count] < MaxPosts THEN sem[count] + 1 ELSE sem[count]) \in 0..MaxPosts
        BY <3>1, count \in Tasks DEF HeartbeatTypeOK, Tasks, LOGGER_TASK_ID, SOCK_COMM_TASK_ID, UI_TASK_ID
      <3>. QED  BY <2>1, <3>1, <3>2
    <2>3. count' \in 0..2
      BY <2>1 DEF HeartbeatTypeOK
    <2>. QED  BY <1>5, <2>2, <2>3, <1>00
              DEF TimerExpires, timer_expiry_handler, HeartbeatTypeOK, Tasks, LOGGER_TASK_ID
  <1>. QED  BY <1>1, <1>2, <1>3, <1>4, <1>5 DEF MainStep

\* The rest of the handler.
LEMMA HandlerTypes == ASSUME TypeOK, HandlerStep PROVE TypeOK'
  <1>. HeartbeatTypeOK
    BY DEF TypeOK
  <1>. USE DEF TypeOK, Main, heartbeatVars, taskVars, handlerVars, threadVars, socketVars,
               sockVars
  <1>0. HandlerNext /\ UNCHANGED <<socketVars, logger_pc, sockVars, ui_pc>>
    BY DEF HandlerStep
  <1>00. LoggerTypeOK' /\ SocketTypeOK' /\ SockTypeOK' /\ UiTypeOK'
    BY <1>0 DEF LoggerTypeOK, SocketTypeOK, SockTypeOK, UiTypeOK
  <1>1. NextTask => handler_task' \in Tasks /\ handler_pc' \in {"idle", "test"}
    BY DEF NextTask, HeartbeatTypeOK, Tasks, LOGGER_TASK_ID, SOCK_COMM_TASK_ID, UI_TASK_ID
  <1>2. CASE HandlerTests
    BY <1>2, <1>1, <1>00 DEF HandlerTests, HeartbeatTypeOK
  <1>3. CASE HandlerLogsAlive
    BY <1>3, <1>1, <1>00, LogLemma DEF HandlerLogsAlive, HeartbeatTypeOK
  <1>4. CASE HandlerLogsDead
    BY <1>4, <1>1, <1>00, LogLemma DEF HandlerLogsDead, HeartbeatTypeOK
  <1>. QED  BY <1>0, <1>2, <1>3, <1>4 DEF HandlerNext

\* The notifiers.
LEMMA NotifierTypes == ASSUME TypeOK, NEW i \in Tasks, NotifierStep(i) PROVE TypeOK'
  <1>. HeartbeatTypeOK
    BY DEF TypeOK
  <1>. USE DEF TypeOK, Main, heartbeatVars, taskVars, handlerVars, threadVars, socketVars,
               sockVars
  <1>0. NotifierNext(i) /\ UNCHANGED <<socketVars, logger_pc, sockVars, ui_pc>>
    BY DEF NotifierStep
  <1>00. LoggerTypeOK' /\ SocketTypeOK' /\ SockTypeOK' /\ UiTypeOK'
    BY <1>0 DEF LoggerTypeOK, SocketTypeOK, SockTypeOK, UiTypeOK
  <1>1. CASE NotifierLoops(i)
    BY <1>1, <1>00 DEF NotifierLoops, Notifier, Loop, NotifierEnds, HeartbeatTypeOK
  <1>2. CASE NotifierWaits(i)
    <2>1. sem' \in [Tasks -> 0..MaxPosts]
      BY <1>2, HeartbeatAssumption DEF NotifierWaits, HeartbeatTypeOK
    <2>. QED  BY <1>2, <2>1, <1>00 DEF NotifierWaits, Notifier, HeartbeatTypeOK
  <1>3. CASE NotifierSends(i)
    BY <1>3, <1>00, SendLemma DEF NotifierSends, Notifier, HeartbeatTypeOK
  <1>4. CASE NotifierClears(i)
    BY <1>4, <1>00 DEF NotifierClears, Notifier, HeartbeatTypeOK
  <1>5. CASE NotifierLogsExit(i)
    BY <1>5, <1>00, LogLemma DEF NotifierLogsExit, Notifier, HeartbeatTypeOK
  <1>. QED  BY <1>0, <1>1, <1>2, <1>3, <1>4, <1>5 DEF NotifierNext

\* The logger.
LEMMA LoggerTypes == ASSUME TypeOK, LoggerStep PROVE TypeOK'
  <1>. HeartbeatTypeOK
    BY DEF TypeOK
  <1>. USE DEF TypeOK, LoggerKeeps, taskVars, handlerVars, threadVars, socketVars, sockVars
  <1>0. LoggerNext /\ UNCHANGED <<socketVars, sockVars, ui_pc>>
    BY DEF LoggerStep
  <1>00. SocketTypeOK' /\ SockTypeOK' /\ UiTypeOK'
    BY <1>0 DEF SocketTypeOK, SockTypeOK, UiTypeOK
  <1>1. CASE LoggerStarts
    BY <1>1, <1>00, SendLemma
       DEF LoggerStarts, HeartbeatTypeOK, LoggerTypeOK, Tasks, LOGGER_TASK_ID
  <1>5. CASE LoggerCreatesNotifier
    BY <1>5, <1>00 DEF LoggerCreatesNotifier, CreateNotifier, HeartbeatTypeOK, LoggerTypeOK
  <1>2. CASE LoggerLoops
    BY <1>2, <1>00 DEF LoggerLoops, Loop, HeartbeatTypeOK, LoggerTypeOK
  <1>3. CASE LoggerReceives
    BY <1>3, <1>00, HeartbeatAssumption DEF LoggerReceives, HeartbeatTypeOK, LoggerTypeOK
  <1>4. CASE LoggerClosesAgain \/ LoggerJoins
    BY <1>4, <1>00 DEF LoggerClosesAgain, LoggerJoins, HeartbeatTypeOK, LoggerTypeOK
  <1>. QED  BY <1>0, <1>1, <1>2, <1>3, <1>4, <1>5 DEF LoggerNext

\* A datagram sent or received keeps the counts in range (sendto, recvfrom).
LEMMA SocketLemma ==
    ASSUME SocketTypeOK, NEW s \in Sockets, Bind(s) \/ SendTo(s) \/ SendToFails(s) \/ ReceiveFrom(s)
    PROVE  SocketTypeOK'
  <1>. USE UserSocketsAssumption DEF SocketTypeOK
  <1>1. CASE Bind(s)
    BY <1>1 DEF Bind
  <1>2. CASE SendTo(s)
    <2>1. inbox[s] + 1 \in 0..SocketSize
      BY <1>2 DEF SendTo
    <2>. QED  BY <1>2, <2>1 DEF SendTo
  <1>3. CASE SendToFails(s)
    BY <1>3 DEF SendToFails, socketVars
  <1>4. CASE ReceiveFrom(s)
    <2>1. inbox[s] - 1 \in 0..SocketSize
      BY <1>4 DEF ReceiveFrom
    <2>. QED  BY <1>4, <2>1 DEF ReceiveFrom
  <1>. QED  BY <1>1, <1>2, <1>3, <1>4

\* The communication task's two threads.
LEMMA SockTypes ==
    ASSUME TypeOK, SockStep \/ UartDelivers \/ UiHandlerStep
    PROVE  TypeOK'
  <1>. HeartbeatTypeOK /\ SocketTypeOK /\ "comm" \in Sockets /\ "ui" \in Sockets
    BY DEF TypeOK, Sockets
  <1>. USE DEF TypeOK, SockKeeps, SockMoves, UiHandlerMoves, taskVars, handlerVars, threadVars, socketVars
  <1>1. LoggerTypeOK' /\ UiTypeOK'
    BY DEF SockStep, UartDelivers, UiHandlerStep, LoggerTypeOK, UiTypeOK
  <1>2. CASE SockStep /\ SockStarts
    <2>1. CASE sock_pc = "init"
      BY <1>1, <1>2, <2>1, SocketLemma DEF SockStarts, HeartbeatTypeOK, SockTypeOK
    <2>2. CASE sock_pc = "uart"
      <3>1. /\ notifier_pc' \in [Tasks -> {"absent", "loop", "wait", "send", "clear", "exitLog", "exited"}]
            /\ sock_pc' \in {"loop", "exited"} /\ ui_handler_pc' \in {ui_handler_pc, "loop"}
            /\ LOG /\ UNCHANGED socketVars
        BY <1>2, <2>2 DEF SockStarts, CreateNotifier, HeartbeatTypeOK
      <3>2. mq_logger' \in 0..LoggerSize
        BY <3>1, LogLemma
      <3>3. UNCHANGED <<taskVars, sem, mq_heartbeat, close_app, handlerVars, main_pc, process>>
        BY <1>2, <2>2 DEF SockStarts
      <3>. QED  BY <1>1, <3>1, <3>2, <3>3 DEF HeartbeatTypeOK, SockTypeOK, SocketTypeOK
    <2>. QED  BY <1>2, <2>1, <2>2 DEF SockStarts
  <1>3. CASE SockStep /\ SockLogs
    BY <1>1, <1>3, LogLemma DEF SockLogs, HeartbeatTypeOK, SockTypeOK, SocketTypeOK
  <1>4. CASE SockStep /\ SockForwards
    BY <1>1, <1>4, SocketLemma DEF SockForwards, HeartbeatTypeOK, SockTypeOK
  <1>5. CASE SockStep /\ (SockLoops \/ SockWritesClosed \/ SockJoins)
    BY <1>1, <1>5 DEF SockLoops, Loop, SockWritesClosed, SockJoins, HeartbeatTypeOK, SockTypeOK,
                      SocketTypeOK
  <1>6. CASE UartDelivers
    BY <1>1, <1>6 DEF UartDelivers, SockReads, HeartbeatTypeOK, SockTypeOK, SocketTypeOK
  <1>7. CASE UiHandlerStep /\ UiHandlerLogs
    BY <1>1, <1>7, LogLemma DEF UiHandlerLogs, HeartbeatTypeOK, SockTypeOK, SocketTypeOK
  <1>8. CASE UiHandlerStep /\ UiHandlerReceives
    BY <1>1, <1>8, SocketLemma DEF UiHandlerReceives, HeartbeatTypeOK, SockTypeOK
  <1>9. CASE UiHandlerStep /\ (UiHandlerLoops \/ UiHandlerWrites)
    BY <1>1, <1>9 DEF UiHandlerLoops, UiHandlerWrites, Loop, HeartbeatTypeOK, SockTypeOK, SocketTypeOK
  <1>. QED  BY <1>2, <1>3, <1>4, <1>5, <1>6, <1>7, <1>8, <1>9
            DEF SockStep, SockNext, UiHandlerStep, UiHandlerNext

\* The user interface.
LEMMA UiTypes == ASSUME TypeOK, UiStep \/ UserTypes PROVE TypeOK'
  <1>. HeartbeatTypeOK /\ SocketTypeOK /\ "comm" \in Sockets /\ "ui" \in Sockets
    BY DEF TypeOK, Sockets
  <1>. USE DEF TypeOK, UiMoves, taskVars, handlerVars, threadVars, socketVars, sockVars
  <1>1. LoggerTypeOK' /\ SockTypeOK'
    BY DEF UiStep, UserTypes, LoggerTypeOK, SockTypeOK
  <1>2. CASE UiStep /\ UiStarts
    BY <1>1, <1>2, SocketLemma DEF UiStarts, CreateNotifier, HeartbeatTypeOK, UiTypeOK, Tasks, UI_TASK_ID
  <1>3. CASE UiStep /\ (UiSends \/ UiReceives)
    BY <1>1, <1>3, SocketLemma DEF UiSends, UiReceives, HeartbeatTypeOK, UiTypeOK
  <1>4. CASE UiStep /\ UiLogsError
    BY <1>1, <1>4, LogLemma DEF UiLogsError, HeartbeatTypeOK, UiTypeOK, SocketTypeOK
  <1>5. CASE UiStep /\ UiLoops
    BY <1>1, <1>5 DEF UiLoops, Loop, HeartbeatTypeOK, UiTypeOK, SocketTypeOK
  <1>6. CASE UserTypes
    BY <1>1, <1>6 DEF UserTypes, UiReadsCommand, HeartbeatTypeOK, UiTypeOK, SocketTypeOK
  <1>. QED  BY <1>2, <1>3, <1>4, <1>5, <1>6 DEF UiStep, UiNext

\* Every queue, semaphore and socket stays within its size and every thread at
\* one of its places.
THEOREM TypeCorrect == Spec => []TypeOK
  <1>1. Init => TypeOK
    <2>. SUFFICES ASSUME Init PROVE TypeOK
      OBVIOUS
    <2>1. HeartbeatTypeOK
      <3>1. mq_heartbeat \in Seq(Tasks) /\ Len(mq_heartbeat) <= HeartbeatSize
        BY HeartbeatAssumption DEF Init, HeartbeatInit
      <3>2. mq_logger \in 0..LoggerSize /\ sem \in [Tasks -> 0..MaxPosts]
        BY HeartbeatAssumption DEF Init, HeartbeatInit
      <3>3. handler_task \in Tasks /\ count \in 0..2
        BY DEF Init, HeartbeatInit, Tasks, LOGGER_TASK_ID
      <3>. QED  BY <3>1, <3>2, <3>3 DEF Init, HeartbeatInit, HeartbeatTypeOK
    <2>2. SocketTypeOK
      BY UserSocketsAssumption DEF Init, SocketInit, SocketTypeOK
    <2>. QED  BY <2>1, <2>2
              DEF Init, LoggerInit, SockInit, UiInit, TypeOK, LoggerTypeOK, SockTypeOK, UiTypeOK
  <1>2. TypeOK /\ [Next]_vars => TypeOK'
    <2>. SUFFICES ASSUME TypeOK, [Next]_vars PROVE TypeOK'
      OBVIOUS
    <2>1. CASE UNCHANGED vars
      BY <2>1 DEF vars, heartbeatVars, taskVars, handlerVars, threadVars, socketVars, sockVars,
                  TypeOK, HeartbeatTypeOK, LoggerTypeOK, SocketTypeOK, SockTypeOK, UiTypeOK
    <2>. QED  BY <2>1, MainTypes, HandlerTypes, NotifierTypes, LoggerTypes, SockTypes, UiTypes DEF Next
  <1>. QED  BY <1>1, <1>2, PTL DEF Spec

-----------------------------------------------------------------------------
(* A task answers for itself only.                                         *)

\* The steps that touch mq_heartbeat, the collected heartbeats or the set of
\* notifiers are those of main(), of the notifiers and of the starting tasks.
LEMMA SilentSteps ==
    ASSUME [Next]_vars
    PROVE  \/ MainStep /\ MainReceives
           \/ \E i \in Tasks : NotifierStep(i)
           \/ LoggerStep /\ (LoggerStarts \/ LoggerCreatesNotifier)
           \/ SockStep /\ SockStarts
           \/ UiStep /\ UiStarts
           \/ /\ UNCHANGED <<task_heartbeat, mq_heartbeat, notifier_pc>>
              /\ logger_pc = "create" => logger_pc' = "create"
  <1>. USE DEF Main, taskVars, threadVars
  <1>1. CASE MainStep /\ ~ MainReceives
    BY <1>1 DEF MainStep, MainStarts, MainLogs, MainJoins
  <1>2. CASE Interrupted \/ TimerExpires
    BY <1>2 DEF Interrupted, signal_handler, TimerExpires, timer_expiry_handler
  <1>3. CASE HandlerStep
    BY <1>3 DEF HandlerStep, HandlerNext, HandlerTests, HandlerLogsAlive, HandlerLogsDead
  <1>4. CASE LoggerStep /\ ~ (LoggerStarts \/ LoggerCreatesNotifier)
    BY <1>4 DEF LoggerStep, LoggerNext, LoggerKeeps, LoggerLoops, LoggerReceives,
                LoggerClosesAgain, LoggerJoins
  <1>5. CASE (SockStep /\ ~ SockStarts) \/ UartDelivers
    BY <1>5 DEF SockStep, SockNext, SockKeeps, SockMoves, SockLoops, SockLogs, SockForwards,
                SockWritesClosed, SockJoins, UartDelivers, SockReads
  <1>6. CASE UiHandlerStep
    BY <1>6 DEF UiHandlerStep, UiHandlerNext, UiHandlerMoves, SockKeeps, UiHandlerLoops,
                UiHandlerReceives, UiHandlerLogs, UiHandlerWrites
  <1>7. CASE (UiStep /\ ~ UiStarts) \/ UserTypes
    BY <1>7 DEF UiStep, UiNext, UiMoves, UiLoops, UiSends, UiLogsError, UiReceives, UserTypes,
                UiReadsCommand
  <1>8. CASE UNCHANGED vars
    BY <1>8 DEF vars, heartbeatVars
  <1>. QED  BY <1>1, <1>2, <1>3, <1>4, <1>5, <1>6, <1>7, <1>8 DEF Next

\* A task without a notifier has no heartbeat collected or in flight, unless it is
\* the logger that has announced itself.
Silent(i) ==
    notifier_pc[i] = "absent" /\ ~ Announced(i) => ~ task_heartbeat[i] /\ ~ InFlight(i)

\* The property says that every task is silent until it has a notifier.
LEMMA SilentTasks ==
    ASSUME TypeOK
    PROVE  AbsentTasksAreSilent <=> \A i \in Tasks : Silent(i)
  <1>1. DOMAIN mq_heartbeat = 1..Len(mq_heartbeat)
    BY DEF TypeOK, HeartbeatTypeOK
  <1>2. ASSUME NEW i \in Tasks
        PROVE  InFlight(i) <=> \E k \in DOMAIN mq_heartbeat : mq_heartbeat[k] = i
    BY <1>1, Zenon DEF InFlight
  <1>. QED  BY <1>2, Zenon DEF AbsentTasksAreSilent, Answers, Silent

\* Every step keeps the tasks without a notifier silent.
LEMMA SilentStep ==
    ASSUME TypeOK, [Next]_vars, NEW i \in Tasks, \A j \in Tasks : Silent(j)
    PROVE  Silent(i)'
  <1>. HeartbeatTypeOK /\ Silent(i)
    BY DEF TypeOK
  <1>. SUFFICES ASSUME notifier_pc'[i] = "absent", ~ Announced(i)'
                PROVE  ~ task_heartbeat'[i] /\ ~ InFlight(i)'
    BY DEF Silent
  <1>1. CASE MainStep /\ MainReceives
    <2>1. /\ mq_heartbeat /= <<>> /\ mq_heartbeat' = Tail(mq_heartbeat)
          /\ notifier_pc' = notifier_pc
          /\ task_heartbeat' = [task_heartbeat EXCEPT ![Head(mq_heartbeat)] = TRUE]
          /\ logger_pc' = logger_pc
      BY <1>1 DEF MainReceives, MainStep, Main
    <2>2. Head(mq_heartbeat) /= i /\ ~ InFlight(i)'
      BY <2>1, ReceiveLemma DEF Silent, Announced
    <2>. QED  BY <2>1, <2>2 DEF HeartbeatTypeOK, Silent, Announced
  <1>2. ASSUME NEW j \in Tasks, NotifierStep(j)
        PROVE  ~ task_heartbeat'[i] /\ ~ InFlight(i)'
    <2>1. /\ task_heartbeat' = task_heartbeat
          /\ notifier_pc[i] = "absent" /\ i /= j /\ logger_pc' = logger_pc
      BY <1>2 DEF NotifierStep, Main, NotifierNext, NotifierLoops, NotifierWaits, NotifierSends,
                  NotifierClears, NotifierLogsExit, Notifier, HeartbeatTypeOK, Loop, NotifierEnds
    <2>2. mq_heartbeat' = mq_heartbeat \/ SendHeartbeat(j)
      BY <1>2 DEF NotifierStep, Main, NotifierNext, NotifierLoops, NotifierWaits, NotifierSends,
                  NotifierClears, NotifierLogsExit
    <2>3. InFlight(i)' <=> InFlight(i)
      BY <2>1, <2>2, SendLemma DEF InFlight
    <2>. QED  BY <2>1, <2>3 DEF Silent, Announced
  <1>3. CASE LoggerStep /\ (LoggerStarts \/ LoggerCreatesNotifier)
    <2>1. /\ task_heartbeat' = task_heartbeat
          /\ \/ /\ SendHeartbeat(LOGGER_TASK_ID) /\ logger_pc' = "create"
                /\ notifier_pc' = notifier_pc
             \/ /\ mq_heartbeat' = mq_heartbeat
                /\ notifier_pc' = [notifier_pc EXCEPT ![LOGGER_TASK_ID] = "loop"]
      BY <1>3 DEF LoggerStarts, LoggerCreatesNotifier, LoggerKeeps, taskVars, CreateNotifier
    <2>2. LOGGER_TASK_ID \in Tasks /\ i /= LOGGER_TASK_ID
      BY <2>1 DEF Tasks, HeartbeatTypeOK, Announced
    <2>3. notifier_pc[i] = "absent" /\ ~ Announced(i)
      BY <2>1, <2>2 DEF HeartbeatTypeOK, Announced
    <2>4. InFlight(i)' <=> InFlight(i)
      BY <2>1, <2>2, SendLemma DEF InFlight
    <2>. QED  BY <2>1, <2>3, <2>4 DEF Silent
  <1>4. CASE SockStep /\ SockStarts
    <2>1. /\ UNCHANGED <<task_heartbeat, mq_heartbeat>>
          /\ notifier_pc' \in {notifier_pc, [notifier_pc EXCEPT ![SOCK_COMM_TASK_ID] = "loop"]}
          /\ logger_pc' = logger_pc
      BY <1>4 DEF SockStep, SockStarts, SockKeeps, taskVars, CreateNotifier
    <2>. QED  BY <2>1 DEF HeartbeatTypeOK, InFlight, Silent, Announced
  <1>5. CASE UiStep /\ UiStarts
    <2>1. /\ UNCHANGED <<task_heartbeat, mq_heartbeat>>
          /\ notifier_pc' = [notifier_pc EXCEPT ![UI_TASK_ID] = "loop"]
          /\ logger_pc' = logger_pc
      BY <1>5 DEF UiStep, UiStarts, UiMoves, taskVars, CreateNotifier
    <2>. QED  BY <2>1 DEF HeartbeatTypeOK, InFlight, Silent, Announced
  <1>6. CASE /\ UNCHANGED <<task_heartbeat, mq_heartbeat, notifier_pc>>
             /\ logger_pc = "create" => logger_pc' = "create"
    BY <1>6 DEF InFlight, Silent, Announced
  <1>. QED  BY <1>1, <1>2, <1>3, <1>4, <1>5, <1>6, SilentSteps

\* main() never has a heartbeat of a task whose notifier does not exist, but the
\* one with which the logger announces itself.
THEOREM AbsentSilent == Spec => []AbsentTasksAreSilent
  <1>1. Init => \A i \in Tasks : Silent(i)
    BY DEF Init, HeartbeatInit, Silent, InFlight
  <1>2. TypeOK /\ (\A i \in Tasks : Silent(i)) /\ [Next]_vars => (\A i \in Tasks : Silent(i))'
    BY SilentStep
  <1>3. TypeOK /\ (\A i \in Tasks : Silent(i)) => AbsentTasksAreSilent
    BY SilentTasks
  <1>. QED  BY <1>1, <1>2, <1>3, TypeCorrect, PTL DEF Spec

-----------------------------------------------------------------------------
(* The rounds of the watchdog, when the threads come to rest in a period.  *)

\* The task is about to create its notifier, or to give up.
Starting(i) ==
    IF i = LOGGER_TASK_ID THEN logger_pc \in {"startup", "create"} ELSE sock_pc \in {"init", "uart"}

\* Its semaphore has a post that its notifier has not seen.
Posted(i) == sem[i] > 0 /\ notifier_pc[i] \in {"loop", "wait"}

\* Until the tasks have started the timer has not expired.
NotAsked(i) ==
    Starting(i) =>
        /\ notifier_pc[i] = "absent" /\ task_alive[i] /\ send_heartbeat[i]
        /\ count = 0 /\ handler_pc = "idle"

\* A task that was asked in this round has answered or is about to; when the
\* handler looks at it, it has, and its request is cleared.
Asked(i) ==
    notifier_pc[i] /= "absent" =>
        /\ notifier_pc[i] \notin {"exitLog", "exited"}
        /\ task_alive[i]
        /\ send_heartbeat[i] \/ InFlight(i) \/ task_heartbeat[i]
        /\ notifier_pc[i] = "clear" => InFlight(i) \/ task_heartbeat[i]
        /\ count > i => \/ task_heartbeat[i] \/ InFlight(i) \/ notifier_pc[i] = "send"
                        \/ (Posted(i) /\ send_heartbeat[i])
        /\ count > i => \/ ~ send_heartbeat[i] \/ notifier_pc[i] \in {"send", "clear"}
                        \/ Posted(i)
        /\ handler_pc /= "idle" => task_heartbeat[i]
        /\ handler_pc /= "idle" /\ handler_task <= i =>
              ~ send_heartbeat[i] /\ notifier_pc[i] = "wait" /\ sem[i] = 0

\* What holds of a round while the program is open.
RoundParts ==
    /\ main_pc /= "join"
    /\ handler_pc /= "idle" => count = 0
    /\ handler_pc = "logAlive" => task_heartbeat[handler_task]
    /\ \A i \in TasksWithTime : NotAsked(i) /\ Asked(i)

\* The inductive invariant behind the two properties about tasks with time.
RoundInv == Prompt /\ ~ close_app => RoundParts

\* What the conditions of a round speak of.
roundVars == <<taskVars, sem, mq_heartbeat, handlerVars, main_pc, notifier_pc>>

\* The steps that a round is made of; the others change nothing it speaks of.
LEMMA RoundSteps ==
    ASSUME [Next]_vars
    PROVE  \/ MainStep
           \/ TimerExpires
           \/ HandlerStep
           \/ \E i \in Tasks : NotifierStep(i)
           \/ LoggerStep /\ (LoggerStarts \/ LoggerCreatesNotifier)
           \/ SockStep /\ SockStarts
           \/ UiStep /\ UiStarts
           \/ /\ UNCHANGED roundVars
              /\ \A i \in TasksWithTime : Starting(i)' => Starting(i)
  <1>. USE DEF roundVars, Starting, taskVars, handlerVars
  <1>1. CASE Interrupted
    BY <1>1 DEF Interrupted, Main, signal_handler, threadVars, sockVars
  <1>2. CASE LoggerStep /\ ~ (LoggerStarts \/ LoggerCreatesNotifier)
    BY <1>2 DEF LoggerStep, LoggerNext, LoggerKeeps, LoggerLoops, LoggerReceives, Loop,
                LoggerClosesAgain, LoggerJoins, sockVars
  <1>3. CASE (SockStep /\ ~ SockStarts) \/ UartDelivers
    BY <1>3 DEF SockStep, SockNext, SockKeeps, SockMoves, SockLoops, SockLogs, SockForwards, Loop,
                SockWritesClosed, SockJoins, UartDelivers, SockReads
  <1>4. CASE UiHandlerStep
    BY <1>4 DEF UiHandlerStep, UiHandlerNext, UiHandlerMoves, SockKeeps, UiHandlerLoops,
                UiHandlerReceives, UiHandlerLogs, UiHandlerWrites
  <1>5. CASE (UiStep /\ ~ UiStarts) \/ UserTypes
    BY <1>5 DEF UiStep, UiNext, UiMoves, UiLoops, UiSends, UiLogsError, UiReceives, UserTypes,
                UiReadsCommand, sockVars
  <1>6. CASE UNCHANGED vars
    BY <1>6 DEF vars, heartbeatVars, threadVars, sockVars
  <1>. QED  BY <1>1, <1>2, <1>3, <1>4, <1>5, <1>6 DEF Next

\* A program that was asked to close stays so.
LEMMA CloseStays == ASSUME [Next]_vars, close_app PROVE close_app'
  <1>. USE DEF Main
  <1>1. CASE MainStep \/ Interrupted \/ TimerExpires \/ HandlerStep
    BY <1>1 DEF MainStep, MainStarts, MainReceives, MainLogs, MainJoins, Interrupted,
                TimerExpires, timer_expiry_handler, HandlerStep, HandlerNext, HandlerTests,
                HandlerLogsAlive, HandlerLogsDead
  <1>2. ASSUME NEW i \in Tasks, NotifierStep(i) PROVE close_app'
    BY <1>2 DEF NotifierStep, NotifierNext, NotifierLoops, NotifierWaits, NotifierSends,
                NotifierClears, NotifierLogsExit, Notifier
  <1>3. CASE LoggerStep
    BY <1>3 DEF LoggerStep, LoggerNext, LoggerKeeps, LoggerStarts, LoggerCreatesNotifier, LoggerLoops,
                LoggerReceives, LoggerClosesAgain, LoggerJoins
  <1>4. CASE SockStep \/ UartDelivers \/ UiHandlerStep
    BY <1>4 DEF SockStep, SockNext, SockKeeps, SockMoves, SockStarts, SockLoops, SockLogs,
                SockForwards, SockWritesClosed, SockJoins, UartDelivers, SockReads,
                UiHandlerStep, UiHandlerNext, UiHandlerMoves, UiHandlerLoops,
                UiHandlerReceives, UiHandlerLogs, UiHandlerWrites
  <1>5. CASE UiStep \/ UserTypes
    BY <1>5 DEF UiStep, UiNext, UiStarts, UiLoops, UiSends, UiLogsError, UiReceives, UserTypes,
                UiReadsCommand
  <1>6. CASE UNCHANGED vars
    BY <1>6 DEF vars, heartbeatVars
  <1>. QED  BY <1>1, <1>2, <1>3, <1>4, <1>5, <1>6 DEF Next

\* What the handler and the semaphores mean for a task does not change when its
\* own variables do not and heartbeats only move on.
LEMMA RoundKept ==
    ASSUME NEW i \in TasksWithTime, NotAsked(i), Asked(i),
           UNCHANGED <<task_alive, send_heartbeat, sem, handlerVars>>,
           notifier_pc'[i] = notifier_pc[i],
           Starting(i)' => Starting(i),
           task_heartbeat[i] => task_heartbeat'[i],
           InFlight(i) => InFlight(i)' \/ task_heartbeat'[i]
    PROVE  NotAsked(i)' /\ Asked(i)'
  BY DEF NotAsked, Asked, Posted, handlerVars

\* main() collects a heartbeat: it is no longer in flight, but marked.
LEMMA MainRound ==
    ASSUME TypeOK, RoundParts, ~ close_app, MainStep
    PROVE  RoundParts'
  <1>. HeartbeatTypeOK
    BY DEF TypeOK
  <1>. USE DEF MainStep, Main, RoundParts
  <1>0. \A i \in TasksWithTime : Starting(i)' => Starting(i)
    BY DEF Starting, sockVars
  <1>1. CASE MainStarts \/ MainLogs
    <2>1. /\ UNCHANGED <<taskVars, sem, mq_heartbeat, handlerVars, notifier_pc>>
          /\ main_pc' = "receive"
      BY <1>1 DEF MainStarts, MainLogs, Loop
    <2>2. \A i \in TasksWithTime : InFlight(i)' <=> InFlight(i)
      BY <2>1 DEF InFlight
    <2>. QED  BY <1>0, <2>1, <2>2, RoundKept DEF taskVars, handlerVars
  <1>2. CASE MainReceives
    <2>1. /\ UNCHANGED <<task_alive, send_heartbeat, sem, handlerVars, notifier_pc>>
          /\ task_heartbeat' = [task_heartbeat EXCEPT ![Head(mq_heartbeat)] = TRUE]
          /\ mq_heartbeat /= <<>> /\ mq_heartbeat' = Tail(mq_heartbeat)
          /\ main_pc' = "log"
      BY <1>2 DEF MainReceives
    <2>2. \A i \in Tasks : task_heartbeat[i] => task_heartbeat'[i]
      BY <2>1 DEF HeartbeatTypeOK
    <2>3. \A i \in Tasks : InFlight(i) => InFlight(i)' \/ task_heartbeat'[i]
      BY <2>1, ReceiveLemma DEF HeartbeatTypeOK
    <2>4. TasksWithTime \subseteq Tasks /\ handler_task \in Tasks
      BY DEF HeartbeatTypeOK, TasksWithTime, Tasks
    <2>. QED  BY <1>0, <2>1, <2>2, <2>3, <2>4, RoundKept DEF handlerVars
  <1>3. CASE MainJoins(TasksEnded)
    BY <1>3 DEF MainJoins
  <1>. QED  BY <1>1, <1>2, <1>3

\* An expiration that finds the threads at rest asks one task, and in the third
\* finds the two others with their answers collected.
LEMMA TimerRound ==
    ASSUME TypeOK, RoundParts, Prompt, ~ close_app, TimerExpires
    PROVE  RoundParts'
  <1>. HeartbeatTypeOK
    BY DEF TypeOK
  <1>1. /\ Settled /\ handler_pc = "idle"
        /\ sem' = [sem EXCEPT ![count] = IF @ < MaxPosts THEN @ + 1 ELSE @]
        /\ count' = (count + 1) % 3
        /\ handler_pc' = IF count = 2 THEN "test" ELSE "idle"
        /\ handler_task' = LOGGER_TASK_ID
        /\ UNCHANGED <<task_alive, task_heartbeat, send_heartbeat, mq_heartbeat, close_app,
                       main_pc, notifier_pc, logger_pc, sock_pc>>
    BY DEF TimerExpires, Main, timer_expiry_handler, taskVars, threadVars, sockVars
  <1>2. mq_heartbeat = <<>>
    BY <1>1 DEF Settled, RoundParts
  <1>3. \A i \in Tasks : ~ InFlight(i) /\ ~ InFlight(i)'
    BY <1>1, <1>2 DEF InFlight
  <1>4. ASSUME NEW i \in TasksWithTime
        PROVE  NotAsked(i)' /\ Asked(i)'
    <2>1. i \in Tasks /\ i \in {0, 1} /\ ~ Starting(i)
      BY <1>1 DEF TasksWithTime, Tasks, LOGGER_TASK_ID, SOCK_COMM_TASK_ID, Starting, Settled
    <2>2. ~ Starting(i)'
      BY <1>1, <2>1 DEF Starting
    <2>3. Asked(i)
      BY DEF RoundParts
    <2>4. CASE notifier_pc[i] = "absent"
      BY <2>2, <2>4, <1>1 DEF NotAsked, Asked
    <2>5. CASE notifier_pc[i] /= "absent"
      <3>1. notifier_pc[i] = "wait" /\ sem[i] = 0
        BY <1>1, <2>1, <2>3, <2>5 DEF Settled, Asked
      <3>2. /\ task_alive[i] /\ (send_heartbeat[i] \/ task_heartbeat[i])
            /\ count > i => task_heartbeat[i] /\ ~ send_heartbeat[i]
        BY <3>1, <2>1, <2>3, <2>5, <1>3 DEF Asked, Posted
      <3>3. count \in 0..2 /\ sem \in [Tasks -> 0..MaxPosts]
        BY DEF HeartbeatTypeOK
      <3>4. CASE count = i
        <4>1. sem'[i] > 0 /\ count' = i + 1 /\ handler_pc' = "idle"
          BY <3>1, <3>3, <3>4, <2>1, <1>1, HeartbeatAssumption
        <4>. QED  BY <4>1, <3>1, <3>2, <2>2, <1>1 DEF NotAsked, Asked, Posted
      <3>5. CASE count < i
        <4>1. sem'[i] = sem[i] /\ count' = i /\ handler_pc' = "idle"
          BY <3>3, <3>5, <2>1, <1>1
        <4>. QED  BY <4>1, <3>1, <3>2, <2>1, <2>2, <1>1 DEF NotAsked, Asked, Posted
      <3>6. CASE count > i
        <4>1. sem'[i] = 0
          BY <3>1, <3>3, <3>6, <2>1, <1>1
        <4>. QED  BY <4>1, <3>1, <3>2, <3>6, <2>2, <1>1 DEF NotAsked, Asked, Posted
      <3>. QED  BY <3>3, <3>4, <3>5, <3>6, <2>1
    <2>. QED  BY <2>4, <2>5
  <1>5. handler_pc' /= "idle" => count' = 0
    BY <1>1 DEF HeartbeatTypeOK
  <1>. QED  BY <1>1, <1>4, <1>5 DEF RoundParts

\* The handler finds the heartbeat of every task with time, and asks it again
\* only after it has reported it.
LEMMA HandlerRound ==
    ASSUME TypeOK, RoundParts, HandlerStep
    PROVE  RoundParts'
  <1>. HeartbeatTypeOK
    BY DEF TypeOK
  <1>. USE DEF HandlerStep, Main
  <1>1. /\ UNCHANGED <<task_heartbeat, sem, mq_heartbeat, count, main_pc, notifier_pc, logger_pc,
                       sock_pc>>
        /\ handler_pc /= "idle" /\ count = 0
        /\ handler_task \in {0, 1, 2}
    BY DEF HandlerNext, HandlerTests, HandlerLogsAlive, HandlerLogsDead, threadVars, taskVars,
           sockVars, RoundParts, HeartbeatTypeOK, Tasks, LOGGER_TASK_ID, SOCK_COMM_TASK_ID, UI_TASK_ID
  <1>2. \A i \in TasksWithTime : InFlight(i)' <=> InFlight(i)
    BY <1>1 DEF InFlight
  <1>3. \/ handler_task' = handler_task
        \/ handler_task' = handler_task + 1
    BY DEF HandlerNext, HandlerTests, HandlerLogsAlive, HandlerLogsDead, NextTask
  <1>4. handler_pc' = "logAlive" => task_heartbeat'[handler_task']
    BY <1>1 DEF HandlerNext, HandlerTests, HandlerLogsAlive, HandlerLogsDead, NextTask
  <1>5. ASSUME NEW i \in TasksWithTime
        PROVE  NotAsked(i)' /\ Asked(i)'
    <2>1. NotAsked(i) /\ Asked(i) /\ i \in {0, 1} /\ i \in Tasks
      BY DEF RoundParts, TasksWithTime, Tasks, LOGGER_TASK_ID, SOCK_COMM_TASK_ID
    <2>2. ~ Starting(i) /\ ~ Starting(i)'
      BY <1>1, <2>1 DEF NotAsked, Starting
    <2>3. CASE notifier_pc[i] = "absent"
      BY <2>2, <2>3, <1>1 DEF NotAsked, Asked
    <2>4. CASE notifier_pc[i] /= "absent"
      <3>1. task_alive[i] /\ task_heartbeat[i]
        BY <2>1, <2>4, <1>1 DEF Asked
      <3>2. task_alive'[i]
        BY <3>1, <2>1, <1>1
           DEF HandlerNext, HandlerTests, HandlerLogsAlive, HandlerLogsDead, taskVars, HeartbeatTypeOK
      <3>3. CASE handler_pc' /= "idle" /\ handler_task' <= i
        <4>1. handler_task <= i
          BY <1>1, <1>3, <2>1, <3>3
        <4>2. ~ send_heartbeat[i] /\ notifier_pc[i] = "wait" /\ sem[i] = 0
          BY <4>1, <2>1, <2>4, <1>1 DEF Asked
        <4>3. send_heartbeat' = send_heartbeat \/ (HandlerLogsAlive /\ handler_task < i)
          BY <1>1, <2>1, <3>3
             DEF HandlerNext, HandlerTests, HandlerLogsAlive, HandlerLogsDead, taskVars, NextTask,
                 UI_TASK_ID
        <4>4. ~ send_heartbeat'[i]
          BY <4>2, <4>3, <2>1 DEF HandlerLogsAlive, HeartbeatTypeOK
        <4>. QED  BY <4>2, <4>4, <3>1, <3>2, <2>1, <2>2, <1>1 DEF NotAsked, Asked
      <3>4. CASE ~ (handler_pc' /= "idle" /\ handler_task' <= i)
        <4>1. count' = 0 /\ ~ (count' > i)
          BY <1>1, <2>1
        <4>2. notifier_pc'[i] \notin {"exitLog", "exited"} /\ task_heartbeat'[i]
          BY <2>1, <2>4, <3>1, <1>1 DEF Asked
        <4>. QED  BY <4>1, <4>2, <3>2, <3>4, <2>2 DEF NotAsked, Asked
      <3>. QED  BY <3>3, <3>4
    <2>. QED  BY <2>3, <2>4
  <1>. QED  BY <1>1, <1>4, <1>5 DEF RoundParts

\* A notifier that was asked answers before it clears the request.
LEMMA NotifierRound ==
    ASSUME TypeOK, RoundParts, ~ close_app, NEW j \in Tasks, NotifierStep(j)
    PROVE  RoundParts'
  <1>. HeartbeatTypeOK
    BY DEF TypeOK
  <1>. USE DEF NotifierStep, Main
  <1>1. /\ UNCHANGED <<task_alive, task_heartbeat, handlerVars, main_pc, logger_pc, sock_pc>>
        /\ \A i \in Tasks : i /= j =>
              /\ notifier_pc'[i] = notifier_pc[i] /\ sem'[i] = sem[i]
              /\ send_heartbeat'[i] = send_heartbeat[i]
        /\ notifier_pc[j] /= "absent" /\ notifier_pc'[j] /= "absent"
    BY DEF NotifierNext, NotifierLoops, NotifierWaits, NotifierSends, NotifierClears,
           NotifierLogsExit, Notifier, sockVars, HeartbeatTypeOK, Loop, NotifierEnds
  <1>2. \A i \in Tasks : InFlight(i) => InFlight(i)'
    <2>1. mq_heartbeat' = mq_heartbeat \/ SendHeartbeat(j)
      BY DEF NotifierNext, NotifierLoops, NotifierWaits, NotifierSends, NotifierClears,
             NotifierLogsExit
    <2>. QED  BY <2>1, SendLemma DEF InFlight
  <1>3. ASSUME NEW i \in TasksWithTime
        PROVE  NotAsked(i)' /\ Asked(i)'
    <2>1. NotAsked(i) /\ Asked(i) /\ i \in Tasks /\ (Starting(i)' => Starting(i))
      BY <1>1 DEF RoundParts, TasksWithTime, Tasks, Starting
    <2>2. CASE i /= j
      BY <1>1, <1>2, <2>1, <2>2 DEF NotAsked, Asked, Posted, handlerVars
    <2>3. CASE i = j
      <3>1. NotAsked(i)' /\ notifier_pc[i] /= "absent" /\ notifier_pc[i] \notin {"exitLog", "exited"}
        BY <1>1, <2>1, <2>3 DEF NotAsked, Asked
      <3>2. UNCHANGED <<task_alive, task_heartbeat, count, handler_pc, handler_task>>
        BY <1>1 DEF handlerVars
      <3>3. sem[i] \in Nat
        BY <2>1 DEF HeartbeatTypeOK
      <3>4. CASE NotifierLoops(i)
        BY <3>1, <3>2, <3>4, <1>2, <2>1
           DEF NotifierLoops, Notifier, Loop, HeartbeatTypeOK, Asked, Posted
      <3>5. CASE NotifierWaits(i)
        <4>1. /\ notifier_pc[i] = "wait" /\ sem[i] > 0 /\ send_heartbeat' = send_heartbeat
              /\ notifier_pc'[i] = IF send_heartbeat[i] THEN "send" ELSE "loop"
          BY <3>5, <2>1 DEF NotifierWaits, Notifier, HeartbeatTypeOK
        <4>2. ~ (handler_pc /= "idle" /\ handler_task <= i)
          BY <4>1, <3>1, <3>3, <2>1 DEF Asked
        <4>. QED  BY <4>1, <4>2, <3>1, <3>2, <1>2, <2>1 DEF Asked, Posted
      <3>6. CASE NotifierSends(i)
        <4>1. /\ notifier_pc[i] = "send" /\ notifier_pc'[i] = "clear" /\ SendHeartbeat(i)
              /\ UNCHANGED <<send_heartbeat, sem>>
          BY <3>6, <2>1 DEF NotifierSends, Notifier, HeartbeatTypeOK
        <4>2. InFlight(i)'
          BY <4>1, <2>1, SendLemma
        <4>. QED  BY <4>1, <4>2, <3>1, <3>2, <2>1 DEF Asked
      <3>7. CASE NotifierClears(i)
        <4>1. /\ notifier_pc[i] = "clear" /\ notifier_pc'[i] = "loop" /\ ~ send_heartbeat'[i]
          BY <3>7, <2>1 DEF NotifierClears, Notifier, HeartbeatTypeOK
        <4>2. InFlight(i)' \/ task_heartbeat'[i]
          BY <4>1, <3>1, <3>2, <1>2, <2>1 DEF Asked
        <4>. QED  BY <4>1, <4>2, <3>1, <3>2, <2>1 DEF Asked
      <3>8. ~ NotifierLogsExit(i)
        BY <3>1 DEF NotifierLogsExit, Notifier
      <3>. QED  BY <2>3, <3>1, <3>4, <3>5, <3>6, <3>7, <3>8 DEF NotifierNext
    <2>. QED  BY <2>2, <2>3
  <1>. QED  BY <1>1, <1>3 DEF RoundParts, handlerVars

\* A task that creates its notifier has not been asked in this round.
LEMMA StartRound ==
    ASSUME TypeOK, RoundParts, ~ close_app,
           \/ LoggerStep /\ (LoggerStarts \/ LoggerCreatesNotifier)
           \/ SockStep /\ SockStarts
           \/ UiStep /\ UiStarts
    PROVE  RoundParts'
  <1>. HeartbeatTypeOK
    BY DEF TypeOK
  <1>. DEFINE Creates(j) == notifier_pc' = [notifier_pc EXCEPT ![j] = "loop"]
  <1>. DEFINE Start(j) ==
          /\ UNCHANGED <<taskVars, sem, handlerVars, main_pc>>
          /\ UNCHANGED mq_heartbeat \/ SendHeartbeat(LOGGER_TASK_ID)
          /\ \/ UNCHANGED notifier_pc
             \/ Creates(j) /\ (j \in TasksWithTime => Starting(j) /\ ~ Starting(j)')
          /\ \A i \in TasksWithTime : Starting(i)' => Starting(i)
  <1>1. PICK j \in Tasks : Start(j)
    <2>. USE DEF TasksWithTime, LOGGER_TASK_ID, SOCK_COMM_TASK_ID, UI_TASK_ID
    <2>1. CASE LoggerStep /\ (LoggerStarts \/ LoggerCreatesNotifier)
      <3>1. Start(LOGGER_TASK_ID)
        BY <2>1 DEF LoggerStep, LoggerStarts, LoggerCreatesNotifier, LoggerKeeps, CreateNotifier,
                    Starting, sockVars
      <3>. QED  BY <3>1 DEF Tasks
    <2>2. CASE SockStep /\ SockStarts
      <3>1. Start(SOCK_COMM_TASK_ID)
        <4>1. UNCHANGED <<taskVars, sem, mq_heartbeat, handlerVars, main_pc, logger_pc>>
          BY <2>2 DEF SockStep, SockStarts, SockKeeps
        <4>2. \/ UNCHANGED notifier_pc /\ sock_pc' \in {"uart", "exited"} /\ sock_pc \in {"init", "uart"}
              \/ /\ Creates(SOCK_COMM_TASK_ID)
                 /\ sock_pc = "uart" /\ sock_pc' = "loop"
          BY <2>2 DEF SockStarts, CreateNotifier
        <4>. QED  BY <4>1, <4>2 DEF Starting
      <3>. QED  BY <3>1 DEF Tasks
    <2>3. CASE UiStep /\ UiStarts
      <3>1. Start(UI_TASK_ID)
        BY <2>3 DEF UiStep, UiStarts, UiMoves, CreateNotifier, Starting, sockVars
      <3>. QED  BY <3>1 DEF Tasks
    <2>. QED  BY <2>1, <2>2, <2>3
  <1>2. LOGGER_TASK_ID \in Tasks /\ TasksWithTime \subseteq Tasks
    BY DEF Tasks, TasksWithTime
  <1>3. \A i \in Tasks : InFlight(i) => InFlight(i)'
    BY <1>1, <1>2, SendLemma DEF InFlight
  <1>4. ASSUME NEW i \in TasksWithTime
        PROVE  NotAsked(i)' /\ Asked(i)'
    <2>1. NotAsked(i) /\ Asked(i) /\ i \in Tasks
      BY <1>2 DEF RoundParts
    <2>2. CASE notifier_pc'[i] = notifier_pc[i]
      BY <1>1, <1>3, <2>1, <2>2, RoundKept DEF taskVars
    <2>3. CASE notifier_pc'[i] /= notifier_pc[i]
      <3>1. i = j /\ notifier_pc'[i] = "loop" /\ Starting(i) /\ ~ Starting(i)'
        BY <1>1, <2>1, <2>3 DEF HeartbeatTypeOK
      <3>. QED  BY <1>1, <2>1, <3>1 DEF NotAsked, Asked, taskVars, handlerVars,
                    TasksWithTime, LOGGER_TASK_ID, SOCK_COMM_TASK_ID
    <2>. QED  BY <2>2, <2>3
  <1>. QED  BY <1>1, <1>4 DEF RoundParts, taskVars, handlerVars

\* Every step keeps the round's invariant.
LEMMA RoundStep ==
    ASSUME TypeOK, RoundInv, [Next]_vars
    PROVE  RoundInv'
  <1>. SUFFICES ASSUME Prompt, ~ close_app'
                PROVE  RoundParts'
    BY DEF RoundInv
  <1>1. ~ close_app /\ RoundParts
    BY CloseStays DEF RoundInv
  <1>2. CASE MainStep
    BY <1>1, <1>2, MainRound
  <1>3. CASE TimerExpires
    BY <1>1, <1>3, TimerRound
  <1>4. CASE HandlerStep
    BY <1>1, <1>4, HandlerRound
  <1>5. CASE \E i \in Tasks : NotifierStep(i)
    BY <1>1, <1>5, NotifierRound
  <1>6. CASE \/ LoggerStep /\ (LoggerStarts \/ LoggerCreatesNotifier)
             \/ SockStep /\ SockStarts
             \/ UiStep /\ UiStarts
    BY <1>1, <1>6, StartRound
  <1>7. CASE UNCHANGED roundVars /\ \A i \in TasksWithTime : Starting(i)' => Starting(i)
    <2>1. \A i \in TasksWithTime : InFlight(i) => InFlight(i)'
      BY <1>7 DEF roundVars, InFlight
    <2>2. \A i \in TasksWithTime : NotAsked(i)' /\ Asked(i)'
      BY <1>1, <1>7, <2>1, RoundKept DEF RoundParts, roundVars, taskVars
    <2>. QED  BY <1>1, <1>7, <2>2 DEF RoundParts, roundVars, taskVars, handlerVars
  <1>. QED  BY <1>2, <1>3, <1>4, <1>5, <1>6, <1>7, RoundSteps

\* Before the first expiration nobody has been asked.
LEMMA RoundInit == Init => RoundInv
  BY DEF Init, HeartbeatInit, LoggerInit, SockInit, RoundInv, RoundParts, NotAsked, Asked, Starting,
         TasksWithTime, Tasks, LOGGER_TASK_ID, SOCK_COMM_TASK_ID, UI_TASK_ID

\* The rounds go as described, whatever the threads do between expirations.
THEOREM Rounds == Spec => []RoundInv
  BY RoundInit, RoundStep, TypeCorrect, PTL DEF Spec

\* The logger and the communication task are not given up while they answer.
THEOREM AnsweringAlive == Spec => []AnsweringTasksStayAlive
  <1>1. RoundInv => AnsweringTasksStayAlive
    BY DEF RoundInv, RoundParts, Asked, AnsweringTasksStayAlive, Answers
  <1>. QED  BY <1>1, Rounds, PTL

\* What the handler reports as alive has answered in this round.
THEOREM AliveAnswered == Spec => AliveMeansAnswered
  <1>. DEFINE A == \A i \in TasksWithTime :
                     ReportsAlive(i) /\ Prompt /\ ~ close_app => ~ send_heartbeat[i]
  <1>1. ASSUME TypeOK, RoundInv, AbsentTasksAreSilent PROVE A
    <2>. SUFFICES ASSUME NEW i \in TasksWithTime, ReportsAlive(i), Prompt, ~ close_app
                  PROVE  ~ send_heartbeat[i]
      OBVIOUS
    <2>1. /\ handler_pc = "logAlive" /\ handler_task = i /\ i \in Tasks /\ i \in Nat
          /\ task_heartbeat[i] /\ Asked(i) /\ NotAsked(i)
      BY <1>1 DEF ReportsAlive, RoundInv, RoundParts, TasksWithTime, Tasks, LOGGER_TASK_ID,
                  SOCK_COMM_TASK_ID
    <2>2. notifier_pc[i] /= "absent"
      BY <1>1, <2>1 DEF AbsentTasksAreSilent, Answers, Announced, NotAsked, Starting
    <2>. QED  BY <2>1, <2>2 DEF Asked
  <1>2. TypeOK /\ RoundInv /\ AbsentTasksAreSilent => [A]_vars
    BY <1>1
  <1>. QED  BY <1>2, TypeCorrect, Rounds, AbsentSilent, PTL DEF AliveMeansAnswered

-----------------------------------------------------------------------------
(* The joins.                                                              *)

\* Each thread that has ended has joined what it created, and the process ends
\* after both tasks.
JoinInv ==
    /\ sock_pc \in {"init", "uart"} =>
          notifier_pc[SOCK_COMM_TASK_ID] = "absent" /\ ui_handler_pc = "absent"
    /\ logger_pc = "exited" => notifier_pc[LOGGER_TASK_ID] = "exited"
    /\ sock_pc = "exited" =>
          /\ notifier_pc[SOCK_COMM_TASK_ID] \in {"absent", "exited"}
          /\ ui_handler_pc \in {"absent", "exited"}
    /\ process = "exited" => logger_pc = "exited" /\ sock_pc = "exited"

\* Every step keeps it.
LEMMA JoinStep ==
    ASSUME TypeOK, JoinInv, [Next]_vars
    PROVE  JoinInv'
  <1>. HeartbeatTypeOK /\ LoggerTypeOK /\ SockTypeOK
    BY DEF TypeOK
  <1>. USE DEF Main, JoinInv, HeartbeatTypeOK, LOGGER_TASK_ID, SOCK_COMM_TASK_ID, UI_TASK_ID,
               Tasks, threadVars, sockVars
  <1>1. CASE MainStep
    BY <1>1 DEF MainStep, MainStarts, MainReceives, MainLogs, MainJoins, TasksEnded, Running
  <1>2. CASE Interrupted \/ TimerExpires \/ HandlerStep
    BY <1>2 DEF Interrupted, signal_handler, TimerExpires, timer_expiry_handler, HandlerStep,
                HandlerNext, HandlerTests, HandlerLogsAlive, HandlerLogsDead
  <1>3. ASSUME NEW i \in Tasks, NotifierStep(i) PROVE JoinInv'
    <2>1. /\ UNCHANGED <<process, logger_pc, sock_pc, ui_handler_pc>>
          /\ \A j \in Tasks : j /= i => notifier_pc'[j] = notifier_pc[j]
          /\ notifier_pc[i] \notin {"absent", "exited"}
      BY <1>3 DEF NotifierStep, NotifierNext, NotifierLoops, NotifierWaits, NotifierSends,
                  NotifierClears, NotifierLogsExit, Notifier
    <2>. QED  BY <2>1
  <1>4. CASE LoggerStep
    <2>1. UNCHANGED <<sock_pc, ui_handler_pc>> /\ process = "running"
      BY <1>4 DEF LoggerStep, Running
    <2>. QED  BY <1>4, <2>1
              DEF LoggerStep, LoggerNext, LoggerStarts, LoggerCreatesNotifier, LoggerLoops,
                  LoggerReceives, Loop, LoggerClosesAgain, LoggerJoins, CreateNotifier
  <1>5. CASE SockStep \/ UartDelivers
    <2>1. UNCHANGED logger_pc /\ process = "running"
      BY <1>5 DEF SockStep, UartDelivers, Running
    <2>2. CASE SockStep /\ SockStarts
      BY <2>1, <2>2 DEF SockStarts, CreateNotifier
    <2>3. CASE (SockStep /\ ~ SockStarts) \/ UartDelivers
      BY <2>1, <2>3
         DEF SockStep, SockNext, SockMoves, SockLoops, SockLogs, SockForwards, Loop,
             SockWritesClosed, SockJoins, UartDelivers, SockReads
    <2>. QED  BY <1>5, <2>2, <2>3
  <1>6. CASE UiHandlerStep
    BY <1>6 DEF UiHandlerStep, UiHandlerNext, UiHandlerMoves, UiHandlerLoops,
                UiHandlerReceives, UiHandlerLogs, UiHandlerWrites
  <1>7. CASE UiStep \/ UserTypes
    BY <1>7 DEF UiStep, UiNext, UiMoves, UiStarts, UiLoops, UiSends, UiLogsError, UiReceives,
                UserTypes, UiReadsCommand, CreateNotifier
  <1>8. CASE UNCHANGED vars
    BY <1>8 DEF vars, heartbeatVars
  <1>. QED  BY <1>1, <1>2, <1>3, <1>4, <1>5, <1>6, <1>7, <1>8 DEF Next

\* main() destroys nothing that a thread of the logger or of the communication
\* task may still use.
THEOREM Joined == Spec => []ThreadsJoined
  <1>1. Init => JoinInv
    BY DEF Init, HeartbeatInit, LoggerInit, SockInit, JoinInv, Tasks
  <1>2. JoinInv => ThreadsJoined
    BY DEF JoinInv, ThreadsJoined, TasksWithTime
  <1>. QED  BY <1>1, <1>2, JoinStep, TypeCorrect, PTL DEF Spec

-----------------------------------------------------------------------------
(* The two queues that main() and the logger wait on.                      *)

\* Task i may send a heartbeat without being asked for it again.  Nothing but its
\* own start keeps the user interface from it.
Owed(i) ==
    IF send_heartbeat[i] /\ notifier_pc[i] /= "clear" /\ (notifier_pc[i] = "absent" => i = UI_TASK_ID)
      THEN 1 ELSE 0

\* The messages that main() has logged or has to log, once it has started.
MainOwes == IF main_pc = "created" THEN 0 ELSE IF main_pc = "log" THEN 2 ELSE 1

\* Before main() has started the timer nobody answers.
NotTimed ==
    /\ mq_heartbeat = <<>> /\ handler_pc = "idle"
    /\ \A i \in Tasks : sem[i] = 0 /\ notifier_pc[i] \notin {"send", "clear"}

\* Until the logger has started, every heartbeat sent or owed, and the one that
\* main() has in hand, has its message in the logger's queue, two of those that
\* main() left there before it created the threads set aside.
LateParts ==
    /\ notifier_pc[LOGGER_TASK_ID] = "absent"
    /\ ui_pc = "start" => notifier_pc[UI_TASK_ID] = "absent"
    /\ main_pc = "created" => NotTimed
    /\ \A i \in Tasks : notifier_pc[i] = "send" => send_heartbeat[i]
    /\ Len(mq_heartbeat) + Owed(SOCK_COMM_TASK_ID) + Owed(UI_TASK_ID) + MainOwes + 2 <= mq_logger

\* The inductive invariant behind NoCircularWait.
LateInv == logger_pc = "startup" => LateParts

\* Steps that log at most and touch neither the heartbeats nor the notifiers keep it.
LEMMA LateKept ==
    ASSUME TypeOK, LateParts,
           UNCHANGED <<mq_heartbeat, notifier_pc, send_heartbeat, main_pc, sem, handler_pc>>,
           mq_logger' \in {mq_logger, mq_logger + 1}, ui_pc' = "start" => ui_pc = "start"
    PROVE  LateParts'
  <1>. mq_logger \in Nat /\ Len(mq_heartbeat) \in Nat
    BY HeartbeatAssumption DEF TypeOK, HeartbeatTypeOK
  <1>1. /\ Owed(SOCK_COMM_TASK_ID)' = Owed(SOCK_COMM_TASK_ID)
        /\ Owed(UI_TASK_ID)' = Owed(UI_TASK_ID) /\ MainOwes' = MainOwes /\ (NotTimed' <=> NotTimed)
    BY DEF Owed, MainOwes, NotTimed
  <1>2. \A i \in Tasks : Owed(i) \in Nat
    BY DEF Owed
  <1>. QED  BY <1>1, <1>2 DEF LateParts, MainOwes, Tasks

\* main() logs what it collects; the message it starts with lets it start the timer.
LEMMA MainLate == ASSUME TypeOK, LateParts, MainStep PROVE LateParts'
  <1>. HeartbeatTypeOK /\ mq_logger \in Nat /\ Len(mq_heartbeat) \in Nat
    BY HeartbeatAssumption DEF TypeOK, HeartbeatTypeOK
  <1>. USE DEF MainStep, Main, LateParts
  <1>1. UNCHANGED <<send_heartbeat, notifier_pc>>
    BY DEF MainStarts, MainReceives, MainLogs, MainJoins, taskVars
  <1>2. /\ Owed(SOCK_COMM_TASK_ID)' = Owed(SOCK_COMM_TASK_ID)
        /\ Owed(UI_TASK_ID)' = Owed(UI_TASK_ID)
        /\ Owed(SOCK_COMM_TASK_ID) \in Nat /\ Owed(UI_TASK_ID) \in Nat
    BY <1>1 DEF Owed
  <1>3. CASE MainStarts
    BY <1>1, <1>2, <1>3 DEF MainStarts, MainOwes, LOG, Loop
  <1>4. CASE MainReceives
    <2>1. Len(mq_heartbeat') = Len(mq_heartbeat) - 1 /\ mq_logger' = mq_logger
      BY <1>4 DEF MainReceives, HeartbeatTypeOK
    <2>. QED  BY <1>1, <1>2, <1>4, <2>1 DEF MainReceives, MainOwes
  <1>5. CASE MainLogs
    BY <1>1, <1>2, <1>5 DEF MainLogs, MainOwes, LOG, Loop
  <1>6. CASE MainJoins(TasksEnded)
    BY <1>1, <1>2, <1>6 DEF MainJoins, MainOwes
  <1>. QED  BY <1>3, <1>4, <1>5, <1>6

\* The handler logs a task as alive before it asks it again.
LEMMA HandlerLate == ASSUME TypeOK, LateParts, HandlerStep PROVE LateParts'
  <1>. HeartbeatTypeOK /\ mq_logger \in Nat /\ Len(mq_heartbeat) \in Nat
    BY HeartbeatAssumption DEF TypeOK, HeartbeatTypeOK
  <1>. USE DEF HandlerStep, Main, LateParts
  <1>0. handler_pc /= "idle" /\ main_pc /= "created"
    BY DEF HandlerNext, HandlerTests, HandlerLogsAlive, HandlerLogsDead, NotTimed
  <1>1. /\ UNCHANGED <<mq_heartbeat, notifier_pc, main_pc>>
    BY DEF HandlerNext, HandlerTests, HandlerLogsAlive, HandlerLogsDead, threadVars
  <1>2. MainOwes' = MainOwes /\ MainOwes \in Nat
    BY <1>1 DEF MainOwes
  <1>3. \A i \in Tasks : Owed(i) \in {0, 1} /\ Owed(i)' \in {0, 1}
    BY DEF Owed
  <1>4. SOCK_COMM_TASK_ID \in Tasks /\ UI_TASK_ID \in Tasks /\ SOCK_COMM_TASK_ID /= UI_TASK_ID
    BY DEF Tasks, SOCK_COMM_TASK_ID, UI_TASK_ID
  <1>5. CASE HandlerLogsAlive
    <2>1. /\ send_heartbeat' = [send_heartbeat EXCEPT ![handler_task] = TRUE]
          /\ mq_logger' = mq_logger + 1
      BY <1>5 DEF HandlerLogsAlive, LOG
    <2>2. \A i \in Tasks : i /= handler_task => Owed(i)' = Owed(i)
      BY <1>1, <2>1 DEF Owed, HeartbeatTypeOK
    <2>3. \A i \in Tasks : notifier_pc[i] = "send" => send_heartbeat'[i]
      BY <2>1 DEF HeartbeatTypeOK
    <2>4. Owed(SOCK_COMM_TASK_ID)' + Owed(UI_TASK_ID)'
             <= Owed(SOCK_COMM_TASK_ID) + Owed(UI_TASK_ID) + 1
      BY <1>3, <1>4, <2>2
    <2>. QED  BY <1>0, <1>1, <1>2, <1>3, <1>4, <2>1, <2>3, <2>4
  <1>6. CASE HandlerTests \/ HandlerLogsDead
    <2>1. send_heartbeat' = send_heartbeat /\ mq_logger' \in {mq_logger, mq_logger + 1}
      BY <1>6 DEF HandlerTests, HandlerLogsDead, LOG, taskVars
    <2>2. \A i \in Tasks : Owed(i)' = Owed(i)
      BY <1>1, <2>1 DEF Owed
    <2>. QED  BY <1>0, <1>1, <1>2, <1>3, <1>4, <2>1, <2>2
  <1>. QED  BY <1>5, <1>6 DEF HandlerNext

\* A notifier sends what it owed and owes no more than before.
LEMMA NotifierLate ==
    ASSUME TypeOK, LateParts, NEW j \in Tasks, NotifierStep(j)
    PROVE  LateParts'
  <1>. HeartbeatTypeOK /\ mq_logger \in Nat /\ Len(mq_heartbeat) \in Nat
    BY HeartbeatAssumption DEF TypeOK, HeartbeatTypeOK
  <1>. USE DEF NotifierStep, Main, LateParts
  <1>1. /\ UNCHANGED <<main_pc, handler_pc>> /\ notifier_pc[j] /= "absent"
        /\ \A i \in Tasks : i /= j =>
              notifier_pc'[i] = notifier_pc[i] /\ send_heartbeat'[i] = send_heartbeat[i]
    BY DEF NotifierNext, NotifierLoops, NotifierWaits, NotifierSends, NotifierClears,
           NotifierLogsExit, Notifier, handlerVars, HeartbeatTypeOK
  <1>2. MainOwes' = MainOwes /\ MainOwes \in Nat
    BY <1>1 DEF MainOwes
  <1>3. \A i \in Tasks : Owed(i) \in {0, 1} /\ Owed(i)' \in {0, 1}
    BY DEF Owed
  <1>4. \A i \in Tasks : i /= j => Owed(i)' = Owed(i)
    BY <1>1 DEF Owed
  <1>5. /\ SOCK_COMM_TASK_ID \in Tasks /\ UI_TASK_ID \in Tasks /\ LOGGER_TASK_ID \in Tasks
        /\ SOCK_COMM_TASK_ID /= UI_TASK_ID
        /\ j \in {SOCK_COMM_TASK_ID, UI_TASK_ID} /\ j /= LOGGER_TASK_ID
    BY <1>1 DEF Tasks, LOGGER_TASK_ID, SOCK_COMM_TASK_ID, UI_TASK_ID
  <1>6. /\ notifier_pc'[j] = "send" => send_heartbeat'[j]
        /\ Len(mq_heartbeat') + Owed(j)' <= Len(mq_heartbeat) + Owed(j)
        /\ mq_logger' \in {mq_logger, mq_logger + 1}
        /\ main_pc = "created" => NotTimed'
    <2>1. CASE NotifierLoops(j)
      BY <1>1, <2>1 DEF NotifierLoops, Notifier, Loop, NotifierEnds, HeartbeatTypeOK, Owed, NotTimed
    <2>2. CASE NotifierWaits(j)
      <3>1. main_pc /= "created"
        BY <2>2 DEF NotifierWaits, NotTimed
      <3>. QED  BY <3>1, <2>2 DEF NotifierWaits, Notifier, HeartbeatTypeOK, Owed
    <2>3. CASE NotifierSends(j)
      <3>1. /\ notifier_pc[j] = "send" /\ notifier_pc'[j] = "clear"
            /\ send_heartbeat[j] /\ mq_logger' = mq_logger /\ main_pc /= "created"
        BY <2>3 DEF NotifierSends, Notifier, HeartbeatTypeOK, NotTimed
      <3>2. Len(mq_heartbeat') = Len(mq_heartbeat) + 1
        BY <2>3 DEF NotifierSends, SendHeartbeat, HeartbeatTypeOK
      <3>. QED  BY <3>1, <3>2 DEF Owed
    <2>4. CASE NotifierClears(j)
      <3>1. /\ notifier_pc'[j] = "loop" /\ ~ send_heartbeat'[j] /\ main_pc /= "created"
            /\ UNCHANGED <<mq_heartbeat, mq_logger>>
        BY <2>4 DEF NotifierClears, Notifier, HeartbeatTypeOK, NotTimed
      <3>. QED  BY <3>1, <1>3 DEF Owed
    <2>5. CASE NotifierLogsExit(j)
      BY <1>1, <2>5 DEF NotifierLogsExit, Notifier, LOG, HeartbeatTypeOK, Owed, NotTimed
    <2>. QED  BY <2>1, <2>2, <2>3, <2>4, <2>5 DEF NotifierNext
  <1>7. Len(mq_heartbeat') \in Nat
    BY SendLemma DEF NotifierNext, NotifierLoops, NotifierWaits, NotifierSends, NotifierClears,
                     NotifierLogsExit
  <1>8. ui_pc' = "start" => notifier_pc'[UI_TASK_ID] = "absent"
    <2>1. ui_pc' = ui_pc
      OBVIOUS
    <2>. QED  BY <1>1, <1>5, <2>1
  <1>9. notifier_pc'[LOGGER_TASK_ID] = "absent"
    BY <1>1, <1>5
  <1>10. \A i \in Tasks : notifier_pc'[i] = "send" => send_heartbeat'[i]
    BY <1>1, <1>6
  <1>11. Len(mq_heartbeat') + Owed(SOCK_COMM_TASK_ID)' + Owed(UI_TASK_ID)'
            <= Len(mq_heartbeat) + Owed(SOCK_COMM_TASK_ID) + Owed(UI_TASK_ID)
    BY <1>3, <1>4, <1>5, <1>6, <1>7
  <1>12. Len(mq_heartbeat') + Owed(SOCK_COMM_TASK_ID)' + Owed(UI_TASK_ID)' + MainOwes' + 2 <= mq_logger'
    <2>1. mq_logger' \in Nat /\ mq_logger <= mq_logger'
      BY <1>6
    <2>2. /\ Owed(SOCK_COMM_TASK_ID) \in Nat /\ Owed(UI_TASK_ID) \in Nat
          /\ Owed(SOCK_COMM_TASK_ID)' \in Nat /\ Owed(UI_TASK_ID)' \in Nat
      BY <1>3, <1>5
    <2>3. Len(mq_heartbeat) + Owed(SOCK_COMM_TASK_ID) + Owed(UI_TASK_ID) + MainOwes + 2 <= mq_logger
      OBVIOUS
    <2>. HIDE DEF LateParts, NotifierStep, Main
    <2>. QED  BY <1>2, <1>7, <1>11, <2>1, <2>2, <2>3
  <1>. QED  BY <1>1, <1>6, <1>8, <1>9, <1>10, <1>12

\* The communication task logs a message before it creates its notifier, and what
\* the user interface owes is counted before it does.
LEMMA StartLate ==
    ASSUME TypeOK, LateParts, (SockStep /\ SockStarts) \/ (UiStep /\ UiStarts)
    PROVE  LateParts'
  <1>. HeartbeatTypeOK /\ mq_logger \in Nat /\ Len(mq_heartbeat) \in Nat
    BY HeartbeatAssumption DEF TypeOK, HeartbeatTypeOK
  <1>. USE DEF LateParts
  <1>1. UNCHANGED <<mq_heartbeat, send_heartbeat, main_pc, sem, handler_pc>>
    BY DEF SockStarts, SockKeeps, UiStarts, UiMoves, taskVars, handlerVars
  <1>2. MainOwes' = MainOwes /\ MainOwes \in Nat
    BY <1>1 DEF MainOwes
  <1>3. \A i \in Tasks : Owed(i) \in {0, 1} /\ Owed(i)' \in {0, 1}
    BY DEF Owed
  <1>4. /\ SOCK_COMM_TASK_ID \in Tasks /\ UI_TASK_ID \in Tasks /\ LOGGER_TASK_ID \in Tasks
        /\ SOCK_COMM_TASK_ID /= UI_TASK_ID /\ SOCK_COMM_TASK_ID /= LOGGER_TASK_ID
        /\ UI_TASK_ID /= LOGGER_TASK_ID
    BY DEF Tasks, LOGGER_TASK_ID, SOCK_COMM_TASK_ID, UI_TASK_ID
  <1>5. CASE UNCHANGED <<notifier_pc, ui_pc>> /\ mq_logger' \in {mq_logger, mq_logger + 1}
    BY <1>1, <1>5, LateKept
  <1>6. ASSUME NEW j \in {SOCK_COMM_TASK_ID, UI_TASK_ID},
               ui_pc' = "start" => ui_pc = "start" /\ j /= UI_TASK_ID,
               notifier_pc' = [notifier_pc EXCEPT ![j] = "loop"],
               Owed(SOCK_COMM_TASK_ID)' + Owed(UI_TASK_ID)' + mq_logger
                  <= Owed(SOCK_COMM_TASK_ID) + Owed(UI_TASK_ID) + mq_logger',
               mq_logger' \in Nat
        PROVE  LateParts'
    <2>1. \A i \in Tasks : notifier_pc'[i] \in {notifier_pc[i], "loop"}
      BY <1>6 DEF HeartbeatTypeOK
    <2>2. notifier_pc'[LOGGER_TASK_ID] = "absent"
      BY <1>4, <1>6 DEF HeartbeatTypeOK
    <2>3. main_pc = "created" => NotTimed'
      BY <1>1, <2>1 DEF NotTimed
    <2>4. \A i \in Tasks : notifier_pc'[i] = "send" => send_heartbeat'[i]
      BY <1>1, <2>1
    <2>5. Len(mq_heartbeat)' + Owed(SOCK_COMM_TASK_ID)' + Owed(UI_TASK_ID)' + MainOwes' + 2 <= mq_logger'
      BY <1>1, <1>2, <1>3, <1>4, <1>6
    <2>6. ui_pc' = "start" => notifier_pc'[UI_TASK_ID] = "absent"
      BY <1>4, <1>6 DEF HeartbeatTypeOK, SockStep, UiStep, UiStarts, UiMoves
    <2>. QED  BY <1>1, <2>2, <2>3, <2>4, <2>5, <2>6
  <1>7. CASE SockStep /\ SockStarts
    <2>3. UNCHANGED ui_pc
      BY <1>7 DEF SockStep
    <2>1. \/ UNCHANGED notifier_pc /\ mq_logger' \in {mq_logger, mq_logger + 1}
          \/ /\ notifier_pc' = [notifier_pc EXCEPT ![SOCK_COMM_TASK_ID] = "loop"]
             /\ mq_logger' = mq_logger + 1
      BY <1>7 DEF SockStarts, CreateNotifier, LOG
    <2>2. notifier_pc' = [notifier_pc EXCEPT ![SOCK_COMM_TASK_ID] = "loop"]
             => Owed(UI_TASK_ID)' = Owed(UI_TASK_ID)
      BY <1>1, <1>4 DEF Owed, HeartbeatTypeOK
    <2>. QED  BY <1>3, <1>4, <1>5, <1>6, <2>1, <2>2, <2>3
  <1>8. CASE UiStep /\ UiStarts
    <2>1. /\ notifier_pc' = [notifier_pc EXCEPT ![UI_TASK_ID] = "loop"]
          /\ mq_logger' = mq_logger /\ ui_pc = "start" /\ ui_pc' = "loop"
      BY <1>8 DEF UiStarts, UiMoves, CreateNotifier
    <2>2. Owed(SOCK_COMM_TASK_ID)' = Owed(SOCK_COMM_TASK_ID)
      BY <1>1, <1>4, <2>1 DEF Owed, HeartbeatTypeOK
    <2>3. Owed(UI_TASK_ID)' = Owed(UI_TASK_ID)
      BY <1>1, <1>4, <2>1 DEF Owed, HeartbeatTypeOK
    <2>. QED  BY <1>3, <1>4, <1>6, <2>1, <2>2, <2>3
  <1>. QED  BY <1>7, <1>8

\* Every step keeps it.
LEMMA LateStep ==
    ASSUME TypeOK, LateInv, [Next]_vars
    PROVE  LateInv'
  <1>. SUFFICES ASSUME logger_pc' = "startup" PROVE LateParts'
    BY DEF LateInv
  <1>. DEFINE Kept ==
          /\ UNCHANGED <<mq_heartbeat, notifier_pc, send_heartbeat, main_pc, sem, handler_pc>>
          /\ mq_logger' \in {mq_logger, mq_logger + 1}
          /\ ui_pc' = "start" => ui_pc = "start"
  <1>1. CASE ~ LoggerStep
    <2>1. LateParts
      <3>1. logger_pc' = logger_pc
        BY <1>1 DEF Next, MainStep, TimerExpires, HandlerStep, Interrupted, NotifierStep, Main,
                    SockStep, UartDelivers, UiHandlerStep, UiStep, UserTypes, vars
      <3>. QED  BY <3>1 DEF LateInv
    <2>2. CASE MainStep
      BY <2>1, <2>2, MainLate
    <2>3. CASE TimerExpires
      <3>1. /\ UNCHANGED <<mq_heartbeat, mq_logger, notifier_pc, send_heartbeat, main_pc, ui_pc>>
            /\ main_pc /= "created"
        BY <2>3 DEF TimerExpires, Main, timer_expiry_handler, taskVars, threadVars
      <3>2. /\ Owed(SOCK_COMM_TASK_ID)' = Owed(SOCK_COMM_TASK_ID)
            /\ Owed(UI_TASK_ID)' = Owed(UI_TASK_ID) /\ MainOwes' = MainOwes
        BY <3>1 DEF Owed, MainOwes
      <3>. QED  BY <2>1, <3>1, <3>2 DEF LateParts
    <2>4. CASE HandlerStep
      BY <2>1, <2>4, HandlerLate
    <2>5. CASE \E i \in Tasks : NotifierStep(i)
      BY <2>1, <2>5, NotifierLate
    <2>6. CASE (SockStep /\ SockStarts) \/ (UiStep /\ UiStarts)
      BY <2>1, <2>6, StartLate
    <2>7. CASE Interrupted
      <3>1. Kept
        BY <2>7 DEF Interrupted, Main, signal_handler, taskVars, threadVars, handlerVars
      <3>. QED  BY <2>1, <3>1, LateKept
    <2>8. CASE (SockStep /\ ~ SockStarts) \/ UartDelivers
      <3>1. Kept
        BY <2>8 DEF SockStep, SockNext, SockKeeps, SockMoves, SockLoops, SockLogs, SockForwards, LOG,
                    SockWritesClosed, SockJoins, UartDelivers, SockReads, taskVars, handlerVars
      <3>. QED  BY <2>1, <3>1, LateKept
    <2>9. CASE UiHandlerStep
      <3>1. Kept
        BY <2>9 DEF UiHandlerStep, UiHandlerNext, UiHandlerMoves, SockKeeps, UiHandlerLoops, LOG,
                    UiHandlerReceives, UiHandlerLogs, UiHandlerWrites, taskVars, handlerVars
      <3>. QED  BY <2>1, <3>1, LateKept
    <2>10. CASE (UiStep /\ ~ UiStarts) \/ UserTypes
      <3>1. Kept
        BY <2>10 DEF UiStep, UiNext, UiMoves, UiLoops, UiSends, UiLogsError, UiReceives, UserTypes,
                     UiReadsCommand, LOG, Loop, taskVars, handlerVars
      <3>. QED  BY <2>1, <3>1, LateKept
    <2>11. CASE UNCHANGED vars
      <3>1. Kept
        BY <2>11 DEF vars, heartbeatVars, taskVars, threadVars, handlerVars
      <3>. QED  BY <2>1, <3>1, LateKept
    <2>. QED  BY <1>1, <2>2, <2>3, <2>4, <2>5, <2>6, <2>7, <2>8, <2>9, <2>10, <2>11 DEF Next
  <1>2. ~ LoggerStep
    BY DEF LoggerStep, LoggerNext, LoggerStarts, LoggerCreatesNotifier, LoggerLoops,
           LoggerReceives, LoggerClosesAgain, LoggerJoins, Loop
  <1>. QED  BY <1>1, <1>2

\* Three messages were logged before the threads were created.
LEMMA LateInit == Init => LateInv
  <1>. SUFFICES ASSUME Init PROVE LateParts
    BY DEF LateInv
  <1>. USE DEF Init, HeartbeatInit
  <1>1. \A i \in Tasks : notifier_pc[i] = "absent" /\ sem[i] = 0
    OBVIOUS
  <1>2. LOGGER_TASK_ID \in Tasks /\ SOCK_COMM_TASK_ID \in Tasks /\ UI_TASK_ID \in Tasks
        /\ SOCK_COMM_TASK_ID /= UI_TASK_ID
    BY DEF Tasks, LOGGER_TASK_ID, SOCK_COMM_TASK_ID, UI_TASK_ID
  <1>3. Owed(SOCK_COMM_TASK_ID) = 0 /\ Owed(UI_TASK_ID) \in {0, 1}
    BY <1>1, <1>2 DEF Owed
  <1>4. NotTimed
    BY <1>1 DEF NotTimed
  <1>5. MainOwes = 0 /\ Len(mq_heartbeat) = 0 /\ mq_logger = 3
    BY DEF MainOwes
  <1>. QED  BY <1>1, <1>2, <1>3, <1>4, <1>5 DEF LateParts

\* main() and the logger never wait for each other, for all sizes of the two queues
\* of which mq_heartbeat is not smaller than the other by more than three.
THEOREM NoCircle == Spec => []NoCircularWait
  <1>1. TypeOK /\ LateInv => NoCircularWait
    <2>. SUFFICES ASSUME TypeOK, LateInv, LoggerSize <= HeartbeatSize + 3, MainBlocked, LoggerBlocked
                  PROVE  FALSE
      BY DEF NoCircularWait, QueuesFit
    <2>1. /\ LateParts /\ Len(mq_heartbeat) = HeartbeatSize /\ mq_logger = LoggerSize
          /\ HeartbeatSize \in Nat \ {0} /\ LoggerSize \in Nat
      BY HeartbeatAssumption DEF LateInv, LoggerBlocked, MainBlocked
    <2>2. CASE main_pc = "created"
      BY <2>1, <2>2 DEF LateParts, NotTimed
    <2>3. CASE main_pc = "log"
      <3>1. MainOwes = 2 /\ Owed(SOCK_COMM_TASK_ID) \in Nat /\ Owed(UI_TASK_ID) \in Nat
        BY <2>3 DEF MainOwes, Owed
      <3>. QED  BY <2>1, <3>1 DEF LateParts
    <2>. QED  BY <2>2, <2>3 DEF MainBlocked
  <1>. QED  BY <1>1, LateInit, LateStep, TypeCorrect, PTL DEF Spec
=============================================================================
