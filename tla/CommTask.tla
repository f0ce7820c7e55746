------------------------------ MODULE CommTask ------------------------------
(***************************************************************************)
(* vCommTask (src/comm_task.c): writes the messages of comm_send_queue to  *)
(* the UART and hands the commands of comm_receive_queue to the sensor     *)
(* tasks.                                                                  *)
(*                                                                         *)
(* comm_pc is where the task is: before the greeting, at the wait of line  *)
(* 38, in the SEND branch (drainSend .. storeSend), or in the RECEIVE       *)
(* branch (testReceive .. storeReceive) with its dispatch of one command   *)
(* (dispatch .. giveCmd).                                                  *)
(***************************************************************************)
EXTENDS TivaKernel

VARIABLES
    comm_pc,
    comm_reg,        \* the event word the task has loaded and not stored back
    receive_buffer   \* the packet in hand

commVars == <<comm_pc, comm_reg, receive_buffer>>

CommPCs == {"greeting", "wait",
            "drainSend", "loadSend", "storeSend",
            "testReceive", "takeReceive", "drainReceive", "dispatch",
            "testBme", "loadBme", "storeBme", "giveBme", "giveCmd",
            "loadReceive", "storeReceive"}

CommTypeOK ==
    /\ comm_pc \in CommPCs
    /\ comm_reg \subseteq Events
    /\ receive_buffer \in PacketClasses \cup {"none"}

CommInit ==
    /\ comm_pc = "greeting"
    /\ comm_reg = {}
    /\ receive_buffer = "none"

Comm(from, to) == comm_pc = from /\ comm_pc' = to

\* A step that changes none of the task's data, and one that only loads or
\* stores an event word.
Keep       == UNCHANGED <<comm_reg, receive_buffer>>
Load(word) == comm_reg' = word /\ UNCHANGED <<kernelVars, receive_buffer>>
Stored     == comm_reg' = {} /\ UNCHANGED receive_buffer

\* COMM_SEND of the greeting
CommGreet == Comm("greeting", "wait") /\ UNCHANGED kernelVars /\ Keep

\* Only this task takes comm_task_sem, and a flag SEND that it finds set stays
\* set until it clears it, so lines 38 to 42 are one step.
CommWait ==
    /\ Available("comm_task_sem")
    /\ \/ /\ "SEND" \in comm_task_events
          /\ Comm("wait", "drainSend")
          /\ Take("comm_task_sem")
       \/ /\ "SEND" \notin comm_task_events
          /\ Comm("wait", "testReceive")
          /\ UNCHANGED kernelVars
    /\ Keep

\* Takes a message and writes it to the UART.
CommTransmit == Comm("drainSend", "drainSend") /\ Receive("comm_send_queue") /\ Keep

CommSendQueueEmpty ==
    /\ Comm("drainSend", "loadSend")
    /\ ~ MessagesWaiting("comm_send_queue")
    /\ UNCHANGED kernelVars /\ Keep

\* comm_task_events &= ~COMM_TASK_SEND_EVENT
CommLoadSend == Comm("loadSend", "storeSend") /\ Load(comm_task_events)

CommStoreSend == Comm("storeSend", "testReceive") /\ StoreComm(ClearSend(comm_reg)) /\ Stored

CommTestReceive ==
    /\ Comm("testReceive", IF "RECEIVE" \in comm_task_events THEN "takeReceive" ELSE "wait")
    /\ UNCHANGED kernelVars /\ Keep

CommTakeReceive == Comm("takeReceive", "drainReceive") /\ Take("comm_task_sem") /\ Keep

CommReceivePacket ==
    /\ Comm("drainReceive", "dispatch")
    /\ Receive("comm_receive_queue")
    /\ receive_buffer' = Head(queue["comm_receive_queue"])
    /\ UNCHANGED comm_reg

\* The packet in hand goes to the queue of its task, or nowhere.
CommDispatch ==
    /\ \/ /\ receive_buffer = "bme"
          /\ Comm("dispatch", "testBme")
          /\ Send("bme280_queue", receive_buffer)
       \/ /\ receive_buffer = "hcsr"
          /\ Comm("dispatch", "giveCmd")
          /\ Send("hcsr04_queue", receive_buffer)
       \/ /\ receive_buffer = "other"
          /\ Comm("dispatch", "drainReceive")
          /\ UNCHANGED kernelVars
    /\ receive_buffer' = "none"
    /\ UNCHANGED comm_reg

CommTestBme ==
    /\ Comm("testBme", IF "RECEIVE" \in BME280_task_events THEN "drainReceive" ELSE "loadBme")
    /\ UNCHANGED kernelVars /\ Keep

\* BME280_task_events |= BME280_TASK_RECEIVE_EVENT
CommLoadBme == Comm("loadBme", "storeBme") /\ Load(BME280_task_events)

CommStoreBme == Comm("storeBme", "giveBme") /\ StoreBme(Raise(comm_reg, "RECEIVE")) /\ Stored

CommGiveBme == Comm("giveBme", "drainReceive") /\ Give("sem_bme280_acq") /\ Keep

\* Mutants: the give goes to the acquisition semaphore, or is forgotten.
CommGiveCmdToAcq == Comm("giveCmd", "drainReceive") /\ Give("sem_hcsr04_acq") /\ Keep
CommGiveCmdNone  == Comm("giveCmd", "drainReceive") /\ UNCHANGED kernelVars /\ Keep
CommGiveCmd == Comm("giveCmd", "drainReceive") /\ Give("sem_hcsr04_cmd") /\ Keep

CommReceiveQueueEmpty ==
    /\ Comm("drainReceive", "loadReceive")
    /\ ~ MessagesWaiting("comm_receive_queue")
    /\ UNCHANGED kernelVars /\ Keep

\* comm_task_events &= ~COMM_TASK_RECEIVE_EVENT
CommLoadReceive == Comm("loadReceive", "storeReceive") /\ Load(comm_task_events)

CommStoreReceive == Comm("storeReceive", "wait") /\ StoreComm(ClearReceive(comm_reg)) /\ Stored

CommNext ==
    \/ CommGreet \/ CommWait
    \/ CommTransmit \/ CommSendQueueEmpty \/ CommLoadSend \/ CommStoreSend
    \/ CommTestReceive \/ CommTakeReceive \/ CommReceivePacket \/ CommDispatch
    \/ CommTestBme \/ CommLoadBme \/ CommStoreBme \/ CommGiveBme \/ CommGiveCmd
    \/ CommReceiveQueueEmpty \/ CommLoadReceive \/ CommStoreReceive
=============================================================================
