--------------------------- MODULE TivaNodeProofs ---------------------------
(***************************************************************************)
(* Proofs about TivaNode for every length of the queues, every maximum of  *)
(* the semaphores and every set of packets.                                *)
(***************************************************************************)
EXTENDS TivaNode, TLAPS

Items == LogMessages \cup PacketClasses

-----------------------------------------------------------------------------
(* The kernel calls.                                                       *)

\* A give keeps the counts in range and loses no token; the semaphore it gives
\* has one afterwards (xSemaphoreGive).
LEMMA GivenLemma ==
    ASSUME KernelTypeOK, NEW s \in Semaphores
    PROVE  /\ Given(s) \in [Semaphores -> 0..SemaphoreMaxCount]
           /\ \A t \in Semaphores : Given(s)[t] >= sem[t]
           /\ \A t \in Semaphores : t /= s => Given(s)[t] = sem[t]
           /\ Given(s)[s] > 0
           /\ sem[s] = 0 => Given(s)[s] = 1
  BY KernelAssumption DEF KernelTypeOK, Given

\* A take removes one token of its semaphore and leaves the others alone
\* (xSemaphoreTake).
LEMMA TakenLemma ==
    ASSUME KernelTypeOK, NEW s \in Semaphores, Available(s)
    PROVE  /\ Taken(s) \in [Semaphores -> 0..SemaphoreMaxCount]
           /\ \A t \in Semaphores : t /= s => Taken(s)[t] = sem[t]
           /\ Taken(s)[s] = sem[s] - 1
  BY KernelAssumption DEF KernelTypeOK, Taken, Available

\* A send to a queue that is not full keeps every queue within its length and
\* changes no other queue (xQueueSend).
LEMMA SentLemma ==
    ASSUME KernelTypeOK, NEW q \in Queues, NEW item \in ItemsOf(q), ~ Full(q)
    PROVE  /\ Sent(q, item) \in [Queues -> Seq(Items)]
           /\ \A r \in Queues : /\ Sent(q, item)[r] \in Seq(ItemsOf(r))
                                /\ Len(Sent(q, item)[r]) <= QueueLength
           /\ \A r \in Queues : r /= q => Sent(q, item)[r] = queue[r]
  <1>1. queue[q] \in Seq(ItemsOf(q)) /\ queue[q] \in Seq(Items) /\ Len(queue[q]) < QueueLength
    BY KernelAssumption DEF KernelTypeOK, Full, Items
  <1>2. item \in Items
    BY DEF Items, ItemsOf
  <1>3. /\ Append(queue[q], item) \in Seq(ItemsOf(q))
        /\ Append(queue[q], item) \in Seq(Items)
        /\ Len(Append(queue[q], item)) = Len(queue[q]) + 1
    BY <1>1, <1>2
  <1>4. Sent(q, item) = [r \in Queues |-> IF r = q THEN Append(queue[q], item) ELSE queue[r]]
    BY DEF KernelTypeOK, Sent
  <1>. QED  BY <1>1, <1>3, <1>4, KernelAssumption DEF KernelTypeOK, Items

\* A receive from a queue that holds an item does too (xQueueReceive).
LEMMA ReceivedLemma ==
    ASSUME KernelTypeOK, NEW q \in Queues, MessagesWaiting(q)
    PROVE  /\ Received(q) \in [Queues -> Seq(Items)]
           /\ \A r \in Queues : /\ Received(q)[r] \in Seq(ItemsOf(r))
                                /\ Len(Received(q)[r]) <= QueueLength
           /\ \A r \in Queues : r /= q => Received(q)[r] = queue[r]
  <1>1. /\ queue[q] \in Seq(ItemsOf(q)) /\ queue[q] \in Seq(Items)
        /\ Len(queue[q]) <= QueueLength /\ queue[q] /= << >>
    BY DEF KernelTypeOK, MessagesWaiting, Items
  <1>2. /\ Tail(queue[q]) \in Seq(ItemsOf(q)) /\ Tail(queue[q]) \in Seq(Items)
        /\ Len(Tail(queue[q])) = Len(queue[q]) - 1
    BY <1>1
  <1>3. Received(q) = [r \in Queues |-> IF r = q THEN Tail(queue[q]) ELSE queue[r]]
    BY DEF KernelTypeOK, Received
  <1>. QED  BY <1>1, <1>2, <1>3, KernelAssumption DEF KernelTypeOK, Items

\* A call that moves one item or one token, a store of flags, and a step without
\* a call keep the shared objects well typed.
LEMMA CallsKeepTypes ==
    ASSUME KernelTypeOK,
           \/ \E s \in Semaphores : Take(s) \/ Give(s)
           \/ \E q \in Queues : Receive(q) \/ \E item \in ItemsOf(q) : Send(q, item)
           \/ \E word \in SUBSET Events : StoreComm(word) \/ StoreBme(word)
           \/ UNCHANGED kernelVars
    PROVE  KernelTypeOK'
  <1>1. ASSUME NEW s \in Semaphores, Take(s)  PROVE KernelTypeOK'
    BY <1>1, TakenLemma DEF Take, KernelTypeOK
  <1>2. ASSUME NEW s \in Semaphores, Give(s)  PROVE KernelTypeOK'
    BY <1>2, GivenLemma DEF Give, KernelTypeOK
  <1>3. ASSUME NEW q \in Queues, Receive(q)  PROVE KernelTypeOK'
    BY <1>3, ReceivedLemma DEF Receive, KernelTypeOK, Items
  <1>4. ASSUME NEW q \in Queues, NEW item \in ItemsOf(q), Send(q, item)  PROVE KernelTypeOK'
    BY <1>4, SentLemma DEF Send, KernelTypeOK, Items
  <1>5. ASSUME NEW word \in SUBSET Events, StoreComm(word) \/ StoreBme(word)  PROVE KernelTypeOK'
    BY <1>5 DEF StoreComm, StoreBme, KernelTypeOK
  <1>6. CASE UNCHANGED kernelVars
    BY <1>6 DEF kernelVars, KernelTypeOK
  <1>. QED  BY <1>1, <1>2, <1>3, <1>4, <1>5, <1>6

-----------------------------------------------------------------------------
(* Type correctness.                                                       *)

USE DEF Semaphores, Queues, SendQueues, ReceiveQueues

\* A step of vCommTask keeps the shared objects and its own data well typed.
LEMMA CommTypes ==
    ASSUME KernelTypeOK, CommTypeOK, CommNext
    PROVE  KernelTypeOK' /\ CommTypeOK'
  <1>1. CASE CommGreet \/ CommWait \/ CommTransmit \/ CommSendQueueEmpty \/ CommTestReceive
             \/ CommTakeReceive \/ CommTestBme \/ CommGiveBme \/ CommGiveCmd
             \/ CommReceiveQueueEmpty
    <2>1. KernelTypeOK'
      BY <1>1, CallsKeepTypes
         DEF CommGreet, CommWait, CommTransmit, CommSendQueueEmpty, CommTestReceive,
             CommTakeReceive, CommTestBme, CommGiveBme, CommGiveCmd, CommReceiveQueueEmpty
    <2>2. CommTypeOK'
      BY <1>1
         DEF CommGreet, CommWait, CommTransmit, CommSendQueueEmpty, CommTestReceive,
             CommTakeReceive, CommTestBme, CommGiveBme, CommGiveCmd, CommReceiveQueueEmpty,
             Comm, Keep, CommTypeOK, CommPCs
    <2>. QED  BY <2>1, <2>2
  <1>2. CASE CommLoadSend \/ CommLoadBme \/ CommLoadReceive
    BY <1>2 DEF CommLoadSend, CommLoadBme, CommLoadReceive, Comm, Load, kernelVars,
                KernelTypeOK, CommTypeOK, CommPCs
  <1>3. CASE CommStoreSend \/ CommStoreBme \/ CommStoreReceive
    <2>1. /\ ClearSend(comm_reg) \in SUBSET Events
          /\ ClearReceive(comm_reg) \in SUBSET Events
          /\ Raise(comm_reg, "RECEIVE") \in SUBSET Events
      BY DEF ClearSend, ClearReceive, Raise, Events, CommTypeOK
    <2>2. KernelTypeOK'
      BY <1>3, <2>1, CallsKeepTypes DEF CommStoreSend, CommStoreBme, CommStoreReceive
    <2>3. CommTypeOK'
      BY <1>3 DEF CommStoreSend, CommStoreBme, CommStoreReceive, Comm, Stored, CommTypeOK, CommPCs
    <2>. QED  BY <2>2, <2>3
  <1>4. CASE CommReceivePacket
    <2>1. KernelTypeOK'
      BY <1>4, CallsKeepTypes DEF CommReceivePacket
    <2>2. queue["comm_receive_queue"] \in Seq(PacketClasses) /\ queue["comm_receive_queue"] /= << >>
      BY <1>4 DEF CommReceivePacket, Receive, MessagesWaiting, KernelTypeOK, ItemsOf
    <2>3. Head(queue["comm_receive_queue"]) \in PacketClasses
      BY <2>2
    <2>4. CommTypeOK'
      BY <1>4, <2>3 DEF CommReceivePacket, Comm, CommTypeOK, CommPCs
    <2>. QED  BY <2>1, <2>4
  <1>5. CASE CommDispatch
    <2>1. receive_buffer \in ItemsOf("bme280_queue") \cup {"none"}
          /\ receive_buffer \in ItemsOf("hcsr04_queue") \cup {"none"}
      BY DEF CommTypeOK, ItemsOf
    <2>2. KernelTypeOK'
      BY <1>5, <2>1, CallsKeepTypes DEF CommDispatch
    <2>3. CommTypeOK'
      BY <1>5 DEF CommDispatch, Comm, CommTypeOK, CommPCs
    <2>. QED  BY <2>2, <2>3
  <1>. QED  BY <1>1, <1>2, <1>3, <1>4, <1>5 DEF CommNext

\* So does a step of Task_BME280,
LEMMA BmeTypes ==
    ASSUME KernelTypeOK, BmeTypeOK, BmeNext
    PROVE  KernelTypeOK' /\ BmeTypeOK'
  <1>1. CASE BME280_Init \/ BmeWait \/ BmeTakeSend \/ BmeSendSample \/ BmeTestComm \/ BmeGiveComm
             \/ BmeTestReceive \/ BmeTakeReceive \/ BmeReceiveCommand \/ BmeQueueEmpty
    <2>1. "log" \in ItemsOf("comm_send_queue")
      BY DEF ItemsOf, LogMessages
    <2>2. KernelTypeOK'
      BY <1>1, <2>1, CallsKeepTypes
         DEF BME280_Init, BmeWait, BmeTakeSend, BmeSendSample, BmeTestComm, BmeGiveComm,
             BmeTestReceive, BmeTakeReceive, BmeReceiveCommand, BmeQueueEmpty
    <2>3. BmeTypeOK'
      BY <1>1
         DEF BME280_Init, BmeWait, BmeTakeSend, BmeSendSample, BmeTestComm, BmeGiveComm,
             BmeTestReceive, BmeTakeReceive, BmeReceiveCommand, BmeQueueEmpty,
             Bme, BmeGo, BmeTypeOK, BmePCs
    <2>. QED  BY <2>2, <2>3
  <1>2. CASE BmeLoadComm \/ BmeLoadSend \/ BmeLoadReceive
    BY <1>2 DEF BmeLoadComm, BmeLoadSend, BmeLoadReceive, BmeGo, BmeLoad, kernelVars,
                KernelTypeOK, BmeTypeOK, BmePCs
  <1>3. CASE BmeStoreComm \/ BmeStoreSend \/ BmeStoreReceive
    <2>1. /\ ClearSend(bme_reg) \in SUBSET Events
          /\ ClearReceive(bme_reg) \in SUBSET Events
          /\ Raise(bme_reg, "SEND") \in SUBSET Events
      BY DEF ClearSend, ClearReceive, Raise, Events, BmeTypeOK
    <2>2. KernelTypeOK'
      BY <1>3, <2>1, CallsKeepTypes DEF BmeStoreComm, BmeStoreSend, BmeStoreReceive
    <2>3. BmeTypeOK'
      BY <1>3 DEF BmeStoreComm, BmeStoreSend, BmeStoreReceive, BmeGo, BmeTypeOK, BmePCs
    <2>. QED  BY <2>2, <2>3
  <1>. QED  BY <1>1, <1>2, <1>3 DEF BmeNext

\* a step of Task_HCSR04, which also takes a report in hand exactly while it
\* reports,
LEMMA HcsrTypes ==
    ASSUME KernelTypeOK, HcsrTypeOK, HcsrNext, UNCHANGED cmdVars
    PROVE  KernelTypeOK' /\ HcsrTypeOK'
  <1>. cmd_pc' = cmd_pc
    BY DEF cmdVars
  <1>1. CASE HcsrTakeAcq \/ HcsrTakeUpdate1 \/ HcsrTakeUpdate2
    <2>1. KernelTypeOK'
      BY <1>1, CallsKeepTypes DEF HcsrTakeAcq, HcsrTakeUpdate1, HcsrTakeUpdate2
    <2>2. HcsrTypeOK'
      BY <1>1 DEF HcsrTakeAcq, HcsrTakeUpdate1, HcsrTakeUpdate2, Hcsr, Pulse, HcsrTypeOK,
                  HcsrPCs, Sensors
    <2>. QED  BY <2>1, <2>2
  <1>2. CASE HcsrSendReport
    <2>1. "log" \in ItemsOf("comm_send_queue")
      BY DEF ItemsOf, LogMessages
    <2>2. KernelTypeOK'
      BY <1>2, <2>1, CallsKeepTypes DEF HcsrSendReport
    <2>3. HcsrTypeOK'
      BY <1>2 DEF HcsrSendReport, PeopleAfter, Hcsr, HcsrTypeOK, HcsrPCs
    <2>. QED  BY <2>2, <2>3
  <1>3. CASE HcsrTestComm \/ HcsrGiveComm
    <2>1. KernelTypeOK'
      BY <1>3, CallsKeepTypes DEF HcsrTestComm, HcsrGiveComm
    <2>2. HcsrTypeOK'
      BY <1>3 DEF HcsrTestComm, HcsrGiveComm, HcsrReported, Report, Hcsr, KeepReadings,
                  HcsrTypeOK, HcsrPCs, Sensors
    <2>. QED  BY <2>1, <2>2
  <1>4. CASE HcsrLoadComm
    BY <1>4 DEF HcsrLoadComm, Hcsr, KeepReadings, kernelVars, KernelTypeOK, HcsrTypeOK, HcsrPCs
  <1>5. CASE HcsrStoreComm
    <2>1. Raise(hcsr_reg, "SEND") \in SUBSET Events
      BY DEF Raise, Events, HcsrTypeOK
    <2>2. KernelTypeOK'
      BY <1>5, <2>1, CallsKeepTypes DEF HcsrStoreComm
    <2>3. HcsrTypeOK'
      BY <1>5 DEF HcsrStoreComm, Hcsr, KeepReadings, HcsrTypeOK, HcsrPCs
    <2>. QED  BY <2>2, <2>3
  <1>. QED  BY <1>1, <1>2, <1>3, <1>4, <1>5 DEF HcsrNext

\* a step of the command task of the HC-SR04,
LEMMA CmdTypes ==
    ASSUME KernelTypeOK, HcsrTypeOK, CmdNext, UNCHANGED hcsrVars
    PROVE  KernelTypeOK' /\ HcsrTypeOK'
  <1>1. KernelTypeOK'
    BY CallsKeepTypes DEF CmdNext, CmdTake, CmdReceive, CmdQueueEmpty
  <1>2. HcsrTypeOK'
    BY DEF CmdNext, CmdTake, CmdReceive, CmdQueueEmpty, hcsrVars, HcsrTypeOK
  <1>. QED  BY <1>1, <1>2

\* the interrupt of an echo,
LEMMA EchoTypes ==
    ASSUME KernelTypeOK, HcsrTypeOK, UNCHANGED cmdVars,
           NEW i \in Sensors, NEW near \in BOOLEAN, EchoFalls(i, near)
    PROVE  KernelTypeOK' /\ HcsrTypeOK'
  <1>1. KernelTypeOK'
    BY CallsKeepTypes DEF EchoFalls
  <1>2. HcsrTypeOK'
    BY DEF EchoFalls, cmdVars, HcsrTypeOK
  <1>. QED  BY <1>1, <1>2

\* the callback of the timer,
LEMMA TimerTypes ==
    ASSUME KernelTypeOK, timer_count \in 0..2, timer_callback
    PROVE  KernelTypeOK' /\ timer_count' \in 0..2
  <1>1. CASE timer_count = 2
    <2>1. Given("sem_bme280_acq") \in [Semaphores -> 0..SemaphoreMaxCount]
      BY GivenLemma
    <2>2. Raise(BME280_task_events, "SEND") \subseteq Events
      BY DEF Raise, Events, KernelTypeOK
    <2>. QED  BY <1>1, <2>1, <2>2 DEF timer_callback, KernelTypeOK
  <1>2. CASE timer_count /= 2
    <2>1. KernelTypeOK'
      BY <1>2, CallsKeepTypes DEF timer_callback
    <2>. QED  BY <1>2, <2>1 DEF timer_callback
  <1>. QED  BY <1>1, <1>2

\* and the UART interrupt.
LEMMA PacketTypes ==
    ASSUME KernelTypeOK, uart_isr \in {"ready", "spinning"},
           NEW packet \in Packets, UARTStdioIntHandler(packet)
    PROVE  KernelTypeOK' /\ uart_isr' \in {"ready", "spinning"}
  <1>1. CASE Full("comm_receive_queue")
    BY <1>1 DEF UARTStdioIntHandler, kernelVars, KernelTypeOK
  <1>2. CASE ~ Full("comm_receive_queue")
    <2>1. packet \in ItemsOf("comm_receive_queue")
      BY KernelAssumption DEF ItemsOf
    <2>2. Sent("comm_receive_queue", packet) \in [Queues -> Seq(Items)]
          /\ \A r \in Queues : /\ Sent("comm_receive_queue", packet)[r] \in Seq(ItemsOf(r))
                               /\ Len(Sent("comm_receive_queue", packet)[r]) <= QueueLength
      BY <1>2, <2>1, SentLemma
    <2>3. Given("comm_task_sem") \in [Semaphores -> 0..SemaphoreMaxCount]
      BY GivenLemma
    <2>. QED  BY <1>2, <2>2, <2>3 DEF UARTStdioIntHandler, KernelTypeOK, Raise, Events, Items
  <1>. QED  BY <1>1, <1>2

\* TypeOK is inductive.
LEMMA StepKeepsTypes ==
    ASSUME TypeOK, [Next]_vars
    PROVE  TypeOK'
  <1>. USE DEF TypeOK
  <1>1. CASE CommStep
    BY <1>1, CommTypes DEF CommStep, bmeVars, hcsrVars, cmdVars, BmeTypeOK, HcsrTypeOK
  <1>2. CASE BmeStep
    BY <1>2, BmeTypes DEF BmeStep, commVars, hcsrVars, cmdVars, CommTypeOK, HcsrTypeOK
  <1>3. CASE HcsrStep
    BY <1>3, HcsrTypes DEF HcsrStep, commVars, bmeVars, CommTypeOK, BmeTypeOK
  <1>4. CASE CmdStep
    BY <1>4, CmdTypes DEF CmdStep, commVars, bmeVars, CommTypeOK, BmeTypeOK
  <1>5. CASE TimerExpires
    BY <1>5, TimerTypes DEF TimerExpires, commVars, bmeVars, hcsrVars, cmdVars,
                            CommTypeOK, BmeTypeOK, HcsrTypeOK
  <1>6. CASE PacketArrives
    BY <1>6, PacketTypes DEF PacketArrives, commVars, bmeVars, hcsrVars, cmdVars,
                             CommTypeOK, BmeTypeOK, HcsrTypeOK
  <1>7. ASSUME NEW i \in Sensors, Echo(i) PROVE TypeOK'
    BY <1>7, EchoTypes DEF Echo, commVars, bmeVars, CommTypeOK, BmeTypeOK
  <1>8. CASE UNCHANGED vars
    BY <1>8 DEF vars, kernelVars, commVars, bmeVars, hcsrVars, cmdVars,
                KernelTypeOK, CommTypeOK, BmeTypeOK, HcsrTypeOK
  <1>. QED  BY <1>1, <1>2, <1>3, <1>4, <1>5, <1>6, <1>7, <1>8 DEF Next

\* Before and after a step the counts are numbers that compare.
LEMMA StepCounts ==
    ASSUME TypeOK, [Next]_vars
    PROVE  \A s \in Semaphores : sem[s] \in Nat /\ sem'[s] \in Nat
  <1>1. sem \in [Semaphores -> 0..SemaphoreMaxCount]
    BY DEF TypeOK, KernelTypeOK
  <1>2. sem' \in [Semaphores -> 0..SemaphoreMaxCount]
    BY StepKeepsTypes DEF TypeOK, KernelTypeOK
  <1>. QED  BY <1>1, <1>2

\* Every variable keeps its type, no queue exceeds its length and no semaphore its
\* maximum, and the HC-SR04 task has a report in hand exactly while it reports.
THEOREM TypeCorrect == Spec => []TypeOK
  <1>1. Init => TypeOK
    <2>1. KernelInit => KernelTypeOK
      <3>1. (\A S : << >> \in Seq(S)) /\ Len(<< >>) = 0
        OBVIOUS
      <3>2. KernelInit => \A q \in Queues : queue[q] = << >>
        BY DEF KernelInit
      <3>3. KernelInit => queue \in [Queues -> Seq(Items)]
        BY <3>1 DEF KernelInit
      <3>4. KernelInit => sem \in [Semaphores -> 0..SemaphoreMaxCount]
        BY KernelAssumption DEF KernelInit
      <3>5. ASSUME KernelInit, NEW q \in Queues
            PROVE  queue[q] \in Seq(ItemsOf(q)) /\ Len(queue[q]) <= QueueLength
        <4>1. queue[q] = << >> /\ << >> \in Seq(ItemsOf(q))
          BY <3>1, <3>2, <3>5
        <4>. QED  BY <3>1, <4>1, KernelAssumption
      <3>. QED  BY <3>3, <3>4, <3>5 DEF KernelInit, KernelTypeOK, Items
    <2>2. CommInit /\ BmeInit => CommTypeOK /\ BmeTypeOK
      BY DEF CommInit, BmeInit, CommTypeOK, BmeTypeOK, CommPCs, BmePCs
    <2>3. HcsrInit => pwm_near \in [Sensors -> BOOLEAN] /\ near_1 \in BOOLEAN
      BY Zenon DEF HcsrInit
    <2>4. HcsrInit => HcsrTypeOK
      BY <2>3 DEF HcsrInit, HcsrTypeOK, HcsrPCs
    <2>. QED  BY <2>1, <2>2, <2>4 DEF Init, TypeOK
  <1>. QED  BY <1>1, StepKeepsTypes, PTL DEF Spec

-----------------------------------------------------------------------------
(* The wake-up invariants.  Each is inductive together with TypeOK: a flag  *)
(* is only found raised where its task waits, and whoever raises it gives   *)
(* the token first or still owes it; only the task itself takes tokens, and *)
(* it leaves the places the invariant speaks of when it does.               *)

\* A give leaves a token in comm_task_sem, also when it was full.
LEMMA GiveCommFills ==
    ASSUME KernelTypeOK, Give("comm_task_sem")
    PROVE  sem'["comm_task_sem"] > 0
  BY GivenLemma DEF Give

\* A step of another task that takes a token takes it from its own semaphore.
LEMMA TakeLeavesOthers ==
    ASSUME KernelTypeOK, NEW s \in Semaphores, NEW t \in Semaphores, t /= s, Take(s)
    PROVE  sem'[t] = sem[t]
  BY TakenLemma DEF Take

\* A give takes no token from any semaphore.
LEMMA GiveLosesNothing ==
    ASSUME KernelTypeOK, NEW s \in Semaphores, NEW t \in Semaphores, Give(s)
    PROVE  sem'[t] >= sem[t]
  BY GivenLemma DEF Give

\* vCommTask takes its last token only to enter a branch, and leaves the SEND branch
\* with the flag clear.
LEMMA CommKeepsNoticing ==
    ASSUME TypeOK, CommNoticesSend, CommStep
    PROVE  CommNoticesSend'
  <1>. ProducerOwesToken' = ProducerOwesToken
    BY DEF CommStep, ProducerOwesToken, bmeVars, hcsrVars
  <1>1. CASE CommGreet \/ CommTestReceive
    BY <1>1 DEF CommGreet, CommTestReceive, Comm, kernelVars, CommNoticesSend, Available
  <1>2. CASE CommWait
    BY <1>2 DEF CommWait, Comm, kernelVars, Take, CommNoticesSend, Available
  <1>3. CASE CommStoreSend \/ CommStoreReceive
    <2>1. "SEND" \notin comm_task_events'
      BY <1>3 DEF CommStoreSend, CommStoreReceive, StoreComm, ClearSend, ClearReceive
    <2>. QED  BY <2>1 DEF CommNoticesSend
  <1>4. CASE \/ CommTransmit \/ CommSendQueueEmpty \/ CommLoadSend \/ CommTakeReceive
             \/ CommReceivePacket \/ CommDispatch \/ CommTestBme \/ CommLoadBme \/ CommStoreBme
             \/ CommGiveBme \/ CommGiveCmd \/ CommReceiveQueueEmpty \/ CommLoadReceive
    <2>1. comm_pc' \notin {"greeting", "wait", "testReceive", "takeReceive"}
      BY <1>4 DEF CommTransmit, CommSendQueueEmpty, CommLoadSend, CommTakeReceive,
                  CommReceivePacket, CommDispatch, CommTestBme, CommLoadBme, CommStoreBme,
                  CommGiveBme, CommGiveCmd, CommReceiveQueueEmpty, CommLoadReceive, Comm
    <2>. QED  BY <2>1 DEF CommNoticesSend
  <1>. QED  BY <1>1, <1>2, <1>3, <1>4 DEF CommStep, CommNext

\* Task_BME280 owes a token from the store of the flag until its give.
LEMMA BmeKeepsCommNoticing ==
    ASSUME TypeOK, CommNoticesSend, BmeStep
    PROVE  CommNoticesSend'
  <1>. comm_pc' = comm_pc /\ hcsr_pc' = hcsr_pc /\ KernelTypeOK
    BY DEF BmeStep, commVars, hcsrVars, TypeOK
  <1>1. CASE BmeStoreComm
    <2>1. bme_pc' = "giveComm"
      BY <1>1 DEF BmeStoreComm, BmeGo
    <2>. QED  BY <2>1 DEF CommNoticesSend, ProducerOwesToken
  <1>2. CASE BmeGiveComm
    BY <1>2, GiveCommFills DEF BmeGiveComm, CommNoticesSend, Available
  <1>3. CASE BmeTakeSend \/ BmeTakeReceive
    <2>1. sem'["comm_task_sem"] = sem["comm_task_sem"]
      BY <1>3, TakeLeavesOthers DEF BmeTakeSend, BmeTakeReceive
    <2>2. bme_pc /= "giveComm" /\ comm_task_events' = comm_task_events
      BY <1>3 DEF BmeTakeSend, BmeTakeReceive, Bme, BmeGo, Take
    <2>. QED  BY <2>1, <2>2 DEF CommNoticesSend, ProducerOwesToken, Available
  <1>4. CASE \/ BME280_Init \/ BmeWait \/ BmeSendSample \/ BmeTestComm \/ BmeLoadComm
             \/ BmeLoadSend \/ BmeStoreSend \/ BmeTestReceive \/ BmeReceiveCommand
             \/ BmeQueueEmpty \/ BmeLoadReceive \/ BmeStoreReceive
    <2>1. /\ bme_pc /= "giveComm"
          /\ sem' = sem /\ comm_task_events' = comm_task_events
      BY <1>4 DEF BME280_Init, BmeWait, BmeSendSample, BmeTestComm, BmeLoadComm, BmeLoadSend,
                  BmeStoreSend, BmeTestReceive, BmeReceiveCommand, BmeQueueEmpty,
                  BmeLoadReceive, BmeStoreReceive, Bme, BmeGo, BmeLoad, kernelVars,
                  Send, Receive, StoreBme
    <2>. QED  BY <2>1 DEF CommNoticesSend, ProducerOwesToken, Available
  <1>. QED  BY <1>1, <1>2, <1>3, <1>4 DEF BmeStep, BmeNext

\* So does Task_HCSR04.
LEMMA HcsrKeepsCommNoticing ==
    ASSUME TypeOK, CommNoticesSend, HcsrStep
    PROVE  CommNoticesSend'
  <1>. comm_pc' = comm_pc /\ bme_pc' = bme_pc /\ KernelTypeOK
    BY DEF HcsrStep, commVars, bmeVars, TypeOK
  <1>1. CASE HcsrStoreComm
    <2>1. hcsr_pc' = "giveComm"
      BY <1>1 DEF HcsrStoreComm, Hcsr
    <2>. QED  BY <2>1 DEF CommNoticesSend, ProducerOwesToken
  <1>2. CASE HcsrGiveComm
    BY <1>2, GiveCommFills DEF HcsrGiveComm, CommNoticesSend, Available
  <1>3. CASE HcsrTakeAcq \/ HcsrTakeUpdate1 \/ HcsrTakeUpdate2
    <2>1. sem'["comm_task_sem"] = sem["comm_task_sem"]
      BY <1>3, TakeLeavesOthers DEF HcsrTakeAcq, HcsrTakeUpdate1, HcsrTakeUpdate2
    <2>2. hcsr_pc /= "giveComm" /\ comm_task_events' = comm_task_events
      BY <1>3 DEF HcsrTakeAcq, HcsrTakeUpdate1, HcsrTakeUpdate2, Hcsr, Take
    <2>. QED  BY <2>1, <2>2 DEF CommNoticesSend, ProducerOwesToken, Available
  <1>4. CASE HcsrSendReport \/ HcsrTestComm \/ HcsrLoadComm
    <2>1. /\ hcsr_pc /= "giveComm"
          /\ sem' = sem /\ comm_task_events' = comm_task_events
      BY <1>4 DEF HcsrSendReport, HcsrTestComm, HcsrLoadComm, HcsrReported, Hcsr, kernelVars, Send
    <2>. QED  BY <2>1 DEF CommNoticesSend, ProducerOwesToken, Available
  <1>. QED  BY <1>1, <1>2, <1>3, <1>4 DEF HcsrStep, HcsrNext

\* vCommTask never waits with SEND set and no wake-up on the way.
THEOREM CommNoticed == Spec => []CommNoticesSend
  <1>1. Init => CommNoticesSend
    BY DEF Init, KernelInit, CommNoticesSend
  <1>2. TypeOK /\ CommNoticesSend /\ [Next]_vars => CommNoticesSend'
    <2>. SUFFICES ASSUME TypeOK, CommNoticesSend, [Next]_vars PROVE CommNoticesSend'
      OBVIOUS
    <2>1. ASSUME /\ UNCHANGED <<comm_pc, bme_pc, hcsr_pc, comm_task_events>>
                 /\ sem'["comm_task_sem"] >= sem["comm_task_sem"]
          PROVE  CommNoticesSend'
      BY <2>1, StepCounts DEF CommNoticesSend, ProducerOwesToken, Available
    <2>2. CASE CmdStep
      <3>1. sem' = sem \/ Take("sem_hcsr04_cmd")
        BY <2>2 DEF CmdStep, CmdNext, CmdTake, CmdReceive, CmdQueueEmpty, Receive, kernelVars
      <3>2. sem'["comm_task_sem"] = sem["comm_task_sem"]
        BY <3>1, TakeLeavesOthers DEF TypeOK
      <3>3. UNCHANGED <<comm_pc, bme_pc, hcsr_pc, comm_task_events>>
        BY <2>2 DEF CmdStep, CmdNext, CmdTake, CmdReceive, CmdQueueEmpty, Take, Receive,
                    kernelVars, commVars, bmeVars, hcsrVars
      <3>. QED  BY <2>1, <3>2, <3>3, StepCounts
    <2>3. CASE TimerExpires
      <3>1. sem' = Given("sem_bme280_acq") \/ sem' = Given("sem_hcsr04_acq")
        BY <2>3 DEF TimerExpires, timer_callback, Give
      <3>2. sem'["comm_task_sem"] >= sem["comm_task_sem"]
        BY <3>1, GivenLemma DEF TypeOK
      <3>3. UNCHANGED <<comm_pc, bme_pc, hcsr_pc, comm_task_events>>
        BY <2>3 DEF TimerExpires, timer_callback, Give, commVars, bmeVars, hcsrVars
      <3>. QED  BY <2>1, <3>2, <3>3
    <2>4. ASSUME NEW i \in Sensors, Echo(i) PROVE CommNoticesSend'
      <3>1. Give("sem_hcsr04_update") /\ UNCHANGED <<comm_pc, bme_pc, hcsr_pc>>
        BY <2>4 DEF Echo, EchoFalls, commVars, bmeVars
      <3>2. sem'["comm_task_sem"] >= sem["comm_task_sem"]
        BY <3>1, GiveLosesNothing DEF TypeOK
      <3>. QED  BY <2>1, <3>1, <3>2 DEF Give
    <2>5. CASE PacketArrives
      <3>1. \/ UNCHANGED kernelVars
            \/ sem' = sem /\ comm_task_events' = comm_task_events
            \/ sem' = Given("comm_task_sem")
        BY <2>5 DEF PacketArrives, UARTStdioIntHandler
      <3>2. UNCHANGED <<comm_pc, bme_pc, hcsr_pc>>
        BY <2>5 DEF PacketArrives, commVars, bmeVars, hcsrVars
      <3>3. CASE sem' = Given("comm_task_sem")
        BY <3>3, GivenLemma DEF CommNoticesSend, Available, TypeOK
      <3>4. CASE sem' = sem /\ comm_task_events' = comm_task_events
        BY <3>2, <3>4 DEF CommNoticesSend, ProducerOwesToken, Available
      <3>. QED  BY <3>1, <3>3, <3>4 DEF kernelVars
    <2>6. CASE UNCHANGED vars
      BY <2>6 DEF vars, kernelVars, commVars, bmeVars, hcsrVars, CommNoticesSend,
                  ProducerOwesToken, Available
    <2>. QED  BY <2>2, <2>3, <2>4, <2>5, <2>6, CommKeepsNoticing, BmeKeepsCommNoticing,
                 HcsrKeepsCommNoticing DEF Next
  <1>. QED  BY <1>1, <1>2, TypeCorrect, PTL DEF Spec

-----------------------------------------------------------------------------
(* What the calls of each process leave alone, for the invariants of the    *)
(* other semaphores.                                                        *)

\* vCommTask takes no token of another task and receives from its own queues only.
LEMMA CommCalls ==
    ASSUME KernelTypeOK, CommNext
    PROVE  /\ sem'["sem_hcsr04_update"] = sem["sem_hcsr04_update"]
           /\ sem'["sem_bme280_acq"] >= sem["sem_bme280_acq"]
           /\ sem'["sem_hcsr04_cmd"] >= sem["sem_hcsr04_cmd"]
           /\ BME280_task_events' = BME280_task_events \/ CommStoreBme
           /\ queue'["hcsr04_queue"] = queue["hcsr04_queue"] \/ comm_pc' = "giveCmd"
  <1>1. CASE CommWait \/ CommTakeReceive
    <2>1. Take("comm_task_sem") \/ UNCHANGED kernelVars
      BY <1>1 DEF CommWait, CommTakeReceive
    <2>2. sem'["sem_hcsr04_update"] = sem["sem_hcsr04_update"]
          /\ sem'["sem_bme280_acq"] = sem["sem_bme280_acq"]
          /\ sem'["sem_hcsr04_cmd"] = sem["sem_hcsr04_cmd"]
      BY <2>1, TakeLeavesOthers DEF kernelVars
    <2>. QED  BY <2>1, <2>2 DEF Take, kernelVars, KernelTypeOK
  <1>2. CASE CommGiveBme \/ CommGiveCmd
    <2>1. \E s \in {"sem_bme280_acq", "sem_hcsr04_cmd"} : Give(s)
      BY <1>2 DEF CommGiveBme, CommGiveCmd
    <2>. QED  BY <2>1, GivenLemma DEF Give
  <1>3. CASE CommTransmit \/ CommReceivePacket
    <2>1. \E q \in {"comm_send_queue", "comm_receive_queue"} : Receive(q)
      BY <1>3 DEF CommTransmit, CommReceivePacket
    <2>. QED  BY <2>1, ReceivedLemma DEF Receive, KernelTypeOK
  <1>4. CASE CommDispatch
    <2>1. CASE comm_pc' = "giveCmd"
      BY <1>4, <2>1 DEF CommDispatch, Send, kernelVars, KernelTypeOK
    <2>2. CASE comm_pc' /= "giveCmd"
      <3>1. \/ receive_buffer = "bme" /\ Send("bme280_queue", receive_buffer)
            \/ UNCHANGED kernelVars
        BY <1>4, <2>2 DEF CommDispatch, Comm
      <3>2. "bme" \in ItemsOf("bme280_queue")
        BY DEF ItemsOf, PacketClasses
      <3>. QED  BY <3>1, <3>2, SentLemma DEF Send, kernelVars, KernelTypeOK
    <2>. QED  BY <2>1, <2>2
  <1>5. CASE \/ CommGreet \/ CommSendQueueEmpty \/ CommLoadSend \/ CommStoreSend \/ CommTestReceive
             \/ CommTestBme \/ CommLoadBme \/ CommStoreBme \/ CommReceiveQueueEmpty
             \/ CommLoadReceive \/ CommStoreReceive
    BY <1>5 DEF CommGreet, CommSendQueueEmpty, CommLoadSend, CommStoreSend, CommTestReceive,
                CommTestBme, CommLoadBme, CommStoreBme, CommReceiveQueueEmpty, CommLoadReceive,
                CommStoreReceive, Load, StoreComm, StoreBme, kernelVars, KernelTypeOK
  <1>. QED  BY <1>1, <1>2, <1>3, <1>4, <1>5 DEF CommNext

\* Task_BME280 leaves the semaphores and the queue of the HC-SR04 tasks alone,
LEMMA BmeCalls ==
    ASSUME KernelTypeOK, BmeNext
    PROVE  /\ sem'["sem_hcsr04_update"] = sem["sem_hcsr04_update"]
           /\ sem'["sem_hcsr04_cmd"] = sem["sem_hcsr04_cmd"]
           /\ queue'["hcsr04_queue"] = queue["hcsr04_queue"]
  <1>1. CASE BmeTakeSend \/ BmeTakeReceive
    BY <1>1, TakenLemma DEF BmeTakeSend, BmeTakeReceive, Take
  <1>2. CASE BmeGiveComm
    BY <1>2, GivenLemma DEF BmeGiveComm, Give
  <1>3. CASE BmeSendSample
    <2>1. "log" \in ItemsOf("comm_send_queue")
      BY DEF ItemsOf, LogMessages
    <2>. QED  BY <1>3, <2>1, SentLemma DEF BmeSendSample, Send
  <1>4. CASE BmeReceiveCommand
    BY <1>4, ReceivedLemma DEF BmeReceiveCommand, Receive
  <1>5. CASE \/ BME280_Init \/ BmeWait \/ BmeTestComm \/ BmeLoadComm \/ BmeStoreComm
             \/ BmeLoadSend \/ BmeStoreSend \/ BmeTestReceive \/ BmeQueueEmpty
             \/ BmeLoadReceive \/ BmeStoreReceive
    BY <1>5 DEF BME280_Init, BmeWait, BmeTestComm, BmeLoadComm, BmeStoreComm, BmeLoadSend,
                BmeStoreSend, BmeTestReceive, BmeQueueEmpty, BmeLoadReceive, BmeStoreReceive,
                BmeLoad, StoreComm, StoreBme, kernelVars
  <1>. QED  BY <1>1, <1>2, <1>3, <1>4, <1>5 DEF BmeNext

\* Task_HCSR04 those of Task_BME280 and of the command task,
LEMMA HcsrCalls ==
    ASSUME KernelTypeOK, HcsrNext
    PROVE  /\ sem'["sem_bme280_acq"] = sem["sem_bme280_acq"]
           /\ sem'["sem_hcsr04_cmd"] = sem["sem_hcsr04_cmd"]
           /\ BME280_task_events' = BME280_task_events
           /\ queue'["hcsr04_queue"] = queue["hcsr04_queue"]
  <1>1. CASE HcsrTakeAcq \/ HcsrTakeUpdate1 \/ HcsrTakeUpdate2
    BY <1>1, TakenLemma DEF HcsrTakeAcq, HcsrTakeUpdate1, HcsrTakeUpdate2, Take
  <1>2. CASE HcsrSendReport
    <2>1. "log" \in ItemsOf("comm_send_queue")
      BY DEF ItemsOf, LogMessages
    <2>. QED  BY <1>2, <2>1, SentLemma DEF HcsrSendReport, Send
  <1>3. CASE HcsrGiveComm
    BY <1>3, GivenLemma DEF HcsrGiveComm, Give
  <1>4. CASE HcsrTestComm \/ HcsrLoadComm \/ HcsrStoreComm
    BY <1>4 DEF HcsrTestComm, HcsrLoadComm, HcsrStoreComm, StoreComm, kernelVars
  <1>. QED  BY <1>1, <1>2, <1>3, <1>4 DEF HcsrNext

\* the command task those of the two sensor tasks,
LEMMA CmdCalls ==
    ASSUME KernelTypeOK, CmdNext
    PROVE  /\ sem'["sem_hcsr04_update"] = sem["sem_hcsr04_update"]
           /\ sem'["sem_bme280_acq"] = sem["sem_bme280_acq"]
           /\ BME280_task_events' = BME280_task_events
  BY TakenLemma DEF CmdNext, CmdTake, CmdReceive, CmdQueueEmpty, Take, Receive, kernelVars

\* the callback of the timer all but the acquisition semaphores, and when it asks for
\* a sample it leaves a token,
LEMMA TimerCalls ==
    ASSUME KernelTypeOK, timer_callback
    PROVE  /\ sem'["sem_hcsr04_update"] = sem["sem_hcsr04_update"]
           /\ sem'["sem_hcsr04_cmd"] = sem["sem_hcsr04_cmd"]
           /\ \/ sem'["sem_bme280_acq"] > 0
              \/ UNCHANGED <<sem["sem_bme280_acq"], BME280_task_events>>
           /\ queue' = queue
  BY GivenLemma DEF timer_callback, Give

\* and the UART interrupt all but the objects of vCommTask.
LEMMA PacketCalls ==
    ASSUME KernelTypeOK, NEW packet \in Packets, UARTStdioIntHandler(packet)
    PROVE  /\ \A s \in Semaphores \ {"comm_task_sem"} : sem'[s] = sem[s]
           /\ BME280_task_events' = BME280_task_events
           /\ queue'["hcsr04_queue"] = queue["hcsr04_queue"]
  <1>1. packet \in ItemsOf("comm_receive_queue")
    BY KernelAssumption DEF ItemsOf
  <1>. QED  BY <1>1, GivenLemma, SentLemma DEF UARTStdioIntHandler, kernelVars

-----------------------------------------------------------------------------
\* Task_BME280 never waits with a request for a sample and no wake-up on the way.
THEOREM BmeNoticed == Spec => []BmeNoticesSend
  <1>1. Init => BmeNoticesSend
    BY DEF Init, KernelInit, BmeNoticesSend
  <1>2. TypeOK /\ BmeNoticesSend /\ [Next]_vars => BmeNoticesSend'
    <2>. SUFFICES ASSUME TypeOK, BmeNoticesSend, [Next]_vars PROVE BmeNoticesSend'
      OBVIOUS
    <2>. KernelTypeOK
      BY DEF TypeOK
    <2>0. \A s \in Semaphores : sem[s] \in Nat /\ sem'[s] \in Nat
      BY StepCounts
    <2>1. ASSUME /\ UNCHANGED <<bme_pc, BME280_task_events>>
                 /\ comm_pc /= "giveBme" \/ UNCHANGED comm_pc
                 /\ sem'["sem_bme280_acq"] >= sem["sem_bme280_acq"]
          PROVE  BmeNoticesSend'
      BY <2>0, <2>1 DEF BmeNoticesSend, Available
    <2>2. CASE CommStep
      <3>1. bme_pc' = bme_pc
        BY <2>2 DEF CommStep, bmeVars
      <3>2. CASE CommStoreBme
        BY <3>2 DEF CommStoreBme, Comm, BmeNoticesSend
      <3>3. CASE CommGiveBme
        BY <3>3, GivenLemma DEF CommGiveBme, Give, BmeNoticesSend, Available
      <3>4. CASE ~ CommStoreBme /\ ~ CommGiveBme
        <4>1. comm_pc /= "giveBme"
          BY <2>2, <3>4
             DEF CommStep, CommNext, Comm, CommGreet, CommWait, CommTransmit, CommSendQueueEmpty,
                 CommLoadSend, CommStoreSend, CommTestReceive, CommTakeReceive, CommReceivePacket,
                 CommDispatch, CommTestBme, CommLoadBme, CommGiveCmd, CommReceiveQueueEmpty,
                 CommLoadReceive, CommStoreReceive
        <4>. QED  BY <2>1, <2>2, <3>1, <3>4, <4>1, CommCalls DEF CommStep
      <3>. QED  BY <3>2, <3>3, <3>4
    <2>3. CASE BmeStep
      <3>1. CASE BmeStoreSend \/ BmeStoreReceive
        BY <3>1 DEF BmeStoreSend, BmeStoreReceive, StoreBme, ClearSend, ClearReceive, BmeNoticesSend
      <3>2. CASE BmeWait
        BY <3>2 DEF BmeWait, Bme, BmeGo, kernelVars, BmeNoticesSend, Available
      <3>3. CASE BME280_Init \/ BmeTestReceive
        <4>1. comm_pc' = comm_pc
          BY <2>3 DEF BmeStep, commVars
        <4>. QED  BY <3>3, <4>1 DEF BME280_Init, BmeTestReceive, Bme, BmeGo, kernelVars,
                                    BmeNoticesSend, Available
      <3>4. CASE \/ BmeTakeSend \/ BmeSendSample \/ BmeTestComm \/ BmeLoadComm \/ BmeStoreComm
                 \/ BmeGiveComm \/ BmeLoadSend \/ BmeTakeReceive \/ BmeReceiveCommand
                 \/ BmeQueueEmpty \/ BmeLoadReceive
        BY <3>4 DEF BmeTakeSend, BmeSendSample, BmeTestComm, BmeLoadComm, BmeStoreComm, BmeGiveComm,
                    BmeLoadSend, BmeTakeReceive, BmeReceiveCommand, BmeQueueEmpty, BmeLoadReceive,
                    Bme, BmeGo, BmeNoticesSend
      <3>. QED  BY <2>3, <3>1, <3>2, <3>3, <3>4 DEF BmeStep, BmeNext
    <2>4. CASE HcsrStep
      BY <2>0, <2>1, <2>4, HcsrCalls DEF HcsrStep, commVars, bmeVars
    <2>5. CASE CmdStep
      BY <2>0, <2>1, <2>5, CmdCalls DEF CmdStep, commVars, bmeVars
    <2>6. CASE TimerExpires
      <3>1. UNCHANGED <<bme_pc, comm_pc>>
        BY <2>6 DEF TimerExpires, commVars, bmeVars
      <3>2. CASE sem'["sem_bme280_acq"] > 0
        BY <3>2 DEF BmeNoticesSend, Available
      <3>3. CASE UNCHANGED <<sem["sem_bme280_acq"], BME280_task_events>>
        BY <2>0, <2>1, <3>1, <3>3
      <3>. QED  BY <2>6, <3>2, <3>3, TimerCalls DEF TimerExpires
    <2>7. CASE PacketArrives
      <3>1. UNCHANGED <<bme_pc, comm_pc>>
        BY <2>7 DEF PacketArrives, commVars, bmeVars
      <3>2. /\ sem'["sem_bme280_acq"] = sem["sem_bme280_acq"]
            /\ BME280_task_events' = BME280_task_events
        BY <2>7, PacketCalls DEF PacketArrives
      <3>. QED  BY <2>0, <2>1, <3>1, <3>2
    <2>8. ASSUME NEW i \in Sensors, Echo(i) PROVE BmeNoticesSend'
      BY <2>0, <2>1, <2>8, GivenLemma DEF Echo, EchoFalls, Give, commVars, bmeVars
    <2>9. CASE UNCHANGED vars
      BY <2>0, <2>1, <2>9 DEF vars, kernelVars, commVars, bmeVars
    <2>. QED  BY <2>2, <2>3, <2>4, <2>5, <2>6, <2>7, <2>8, <2>9 DEF Next
  <1>. QED  BY <1>1, <1>2, TypeCorrect, PTL DEF Spec

\* No command for the HC-SR04 is left in its queue with no wake-up on the way.
THEOREM CommandsNoticed == Spec => []HcsrNoticesCommands
  <1>1. Init => HcsrNoticesCommands
    BY DEF Init, KernelInit, HcsrNoticesCommands, MessagesWaiting
  <1>2. TypeOK /\ HcsrNoticesCommands /\ [Next]_vars => HcsrNoticesCommands'
    <2>. SUFFICES ASSUME TypeOK, HcsrNoticesCommands, [Next]_vars PROVE HcsrNoticesCommands'
      OBVIOUS
    <2>. KernelTypeOK
      BY DEF TypeOK
    <2>0. \A s \in Semaphores : sem[s] \in Nat /\ sem'[s] \in Nat
      BY StepCounts
    <2>1. ASSUME /\ UNCHANGED <<cmd_pc, queue["hcsr04_queue"]>>
                 /\ comm_pc /= "giveCmd" \/ UNCHANGED comm_pc
                 /\ sem'["sem_hcsr04_cmd"] >= sem["sem_hcsr04_cmd"]
          PROVE  HcsrNoticesCommands'
      BY <2>0, <2>1 DEF HcsrNoticesCommands, MessagesWaiting, Available
    <2>2. CASE CommStep
      <3>1. cmd_pc' = cmd_pc
        BY <2>2 DEF CommStep, cmdVars
      <3>2. CASE CommGiveCmd
        BY <3>2, GivenLemma DEF CommGiveCmd, Give, HcsrNoticesCommands, Available
      <3>3. CASE comm_pc' = "giveCmd"
        BY <3>3 DEF HcsrNoticesCommands
      <3>4. CASE ~ CommGiveCmd /\ comm_pc' /= "giveCmd"
        <4>1. comm_pc /= "giveCmd"
          BY <2>2, <3>4
             DEF CommStep, CommNext, Comm, CommGreet, CommWait, CommTransmit, CommSendQueueEmpty,
                 CommLoadSend, CommStoreSend, CommTestReceive, CommTakeReceive, CommReceivePacket,
                 CommDispatch, CommTestBme, CommLoadBme, CommStoreBme, CommGiveBme,
                 CommReceiveQueueEmpty, CommLoadReceive, CommStoreReceive
        <4>. QED  BY <2>1, <2>2, <3>1, <3>4, <4>1, CommCalls DEF CommStep
      <3>. QED  BY <3>2, <3>3, <3>4
    <2>3. CASE BmeStep
      <3>1. UNCHANGED <<cmd_pc, comm_pc>>
        BY <2>3 DEF BmeStep, commVars, cmdVars
      <3>2. /\ sem'["sem_hcsr04_cmd"] = sem["sem_hcsr04_cmd"]
            /\ queue'["hcsr04_queue"] = queue["hcsr04_queue"]
        BY <2>3, BmeCalls DEF BmeStep
      <3>3. sem["sem_hcsr04_cmd"] \in Nat
        BY DEF KernelTypeOK
      <3>. QED  BY <2>1, <3>1, <3>2, <3>3
    <2>4. CASE HcsrStep
      BY <2>0, <2>1, <2>4, HcsrCalls DEF HcsrStep, commVars, cmdVars
    <2>5. CASE CmdStep
      <3>1. CASE CmdTake \/ CmdReceive
        BY <3>1 DEF CmdTake, CmdReceive, HcsrNoticesCommands
      <3>2. CASE CmdQueueEmpty
        BY <3>2 DEF CmdQueueEmpty, kernelVars, HcsrNoticesCommands, MessagesWaiting
      <3>. QED  BY <2>5, <3>1, <3>2 DEF CmdStep, CmdNext
    <2>6. CASE TimerExpires
      BY <2>0, <2>1, <2>6, TimerCalls DEF TimerExpires, commVars, cmdVars
    <2>7. CASE PacketArrives
      BY <2>0, <2>1, <2>7, PacketCalls DEF PacketArrives, commVars, cmdVars
    <2>8. ASSUME NEW i \in Sensors, Echo(i) PROVE HcsrNoticesCommands'
      BY <2>0, <2>1, <2>8, GivenLemma DEF Echo, EchoFalls, Give, commVars, cmdVars
    <2>9. CASE UNCHANGED vars
      BY <2>0, <2>1, <2>9 DEF vars, kernelVars, commVars, cmdVars
    <2>. QED  BY <2>2, <2>3, <2>4, <2>5, <2>6, <2>7, <2>8, <2>9 DEF Next
  <1>. QED  BY <1>1, <1>2, TypeCorrect, PTL DEF Spec

\* The task reads the width of the pulse it has just sent, never an older one.
THEOREM EchoesPaired == Spec => []EchoAnswersPulse
  <1>1. Init => EchoAnswersPulse
    BY DEF Init, KernelInit, HcsrInit, EchoAnswersPulse, WaitFor, Sensors
  <1>2. TypeOK /\ EchoAnswersPulse /\ [Next]_vars => EchoAnswersPulse'
    <2>. SUFFICES ASSUME TypeOK, EchoAnswersPulse, [Next]_vars PROVE EchoAnswersPulse'
      OBVIOUS
    <2>. KernelTypeOK
      BY DEF TypeOK
    <2>. USE DEF Sensors, WaitFor
    <2>1. ASSUME UNCHANGED <<hcsr_pc, pulsed, sem["sem_hcsr04_update"]>>
          PROVE  EchoAnswersPulse'
      BY <2>1 DEF EchoAnswersPulse
    <2>2. CASE CommStep
      BY <2>1, <2>2, CommCalls DEF CommStep, hcsrVars
    <2>3. CASE BmeStep
      BY <2>1, <2>3, BmeCalls DEF BmeStep, hcsrVars
    <2>4. CASE HcsrStep
      <3>1. CASE HcsrTakeAcq
        <4>1. sem'["sem_hcsr04_update"] = 0
          BY <3>1, TakeLeavesOthers DEF HcsrTakeAcq, Hcsr, EchoAnswersPulse
        <4>. QED  BY <3>1, <4>1 DEF HcsrTakeAcq, Hcsr, Pulse, EchoAnswersPulse
      <3>2. CASE HcsrTakeUpdate1 \/ HcsrTakeUpdate2
        <4>1. sem["sem_hcsr04_update"] = 1 /\ pulsed = {}
          BY <3>2 DEF HcsrTakeUpdate1, HcsrTakeUpdate2, Hcsr, Take, Available, EchoAnswersPulse
        <4>2. sem'["sem_hcsr04_update"] = 0
          BY <3>2, <4>1, TakenLemma DEF HcsrTakeUpdate1, HcsrTakeUpdate2, Take
        <4>. QED  BY <3>2, <4>1, <4>2 DEF HcsrTakeUpdate1, HcsrTakeUpdate2, Hcsr, Pulse,
                                          EchoAnswersPulse
      <3>3. CASE HcsrSendReport \/ HcsrTestComm \/ HcsrLoadComm \/ HcsrStoreComm \/ HcsrGiveComm
        <4>1. sem'["sem_hcsr04_update"] = sem["sem_hcsr04_update"] /\ pulsed' = pulsed
          BY <3>3, GivenLemma
             DEF HcsrSendReport, HcsrTestComm, HcsrLoadComm, HcsrStoreComm, HcsrGiveComm,
                 KeepReadings, Send, Give, StoreComm, kernelVars
        <4>2. /\ hcsr_pc \notin {"update1", "update2"}
              /\ hcsr_pc' \notin {"update1", "update2"}
          BY <3>3 DEF HcsrSendReport, HcsrTestComm, HcsrLoadComm, HcsrStoreComm, HcsrGiveComm,
                      HcsrReported, Hcsr
        <4>. QED  BY <4>1, <4>2 DEF EchoAnswersPulse
      <3>. QED  BY <2>4, <3>1, <3>2, <3>3 DEF HcsrStep, HcsrNext
    <2>5. CASE CmdStep
      BY <2>1, <2>5, CmdCalls DEF CmdStep, hcsrVars
    <2>6. CASE TimerExpires
      BY <2>1, <2>6, TimerCalls DEF TimerExpires, hcsrVars
    <2>7. CASE PacketArrives
      BY <2>1, <2>7, PacketCalls DEF PacketArrives, hcsrVars
    <2>8. ASSUME NEW i \in Sensors, Echo(i) PROVE EchoAnswersPulse'
      <3>1. i \in pulsed /\ pulsed' = pulsed \ {i} /\ hcsr_pc' = hcsr_pc
        BY <2>8 DEF Echo, EchoFalls
      <3>2. hcsr_pc = WaitFor(i) /\ sem["sem_hcsr04_update"] = 0 /\ pulsed = {i}
        BY <3>1 DEF EchoAnswersPulse
      <3>3. sem'["sem_hcsr04_update"] = 1
        BY <2>8, <3>2, GivenLemma DEF Echo, EchoFalls, Give
      <3>. QED  BY <3>1, <3>2, <3>3 DEF EchoAnswersPulse
    <2>9. CASE UNCHANGED vars
      BY <2>1, <2>9 DEF vars, kernelVars, hcsrVars
    <2>. QED  BY <2>2, <2>3, <2>4, <2>5, <2>6, <2>7, <2>8, <2>9 DEF Next
  <1>. QED  BY <1>1, <1>2, TypeCorrect, PTL DEF Spec
=============================================================================
