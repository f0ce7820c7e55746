----------------------------- MODULE Bme280Task -----------------------------
(***************************************************************************)
(* Task_BME280 (src/bme280.c): queues a sample for every tick that asks    *)
(* for one (SEND), and discards the commands vCommTask hands it (RECEIVE). *)
(* The SEND branch contains the hand-over of the sample to vCommTask       *)
(* (sendSample .. giveComm).                                               *)
(***************************************************************************)
EXTENDS TivaKernel

CONSTANT
    BmeInitResults  \* what BME280_Init may return: TRUE when the chip answers
                    \*   with the right id

ASSUME Bme280Assumption == BmeInitResults \subseteq BOOLEAN

VARIABLES
    bme_pc,
    bme_reg   \* the event word the task has loaded and not stored back

bmeVars == <<bme_pc, bme_reg>>

BmePCs == {"init", "deleted", "wait",
           "takeSend", "sendSample",
           "testComm", "loadComm", "storeComm", "giveComm", "loadSend", "storeSend",
           "testReceive", "takeReceive", "drainReceive", "loadReceive", "storeReceive"}

BmeTypeOK ==
    /\ bme_pc \in BmePCs
    /\ bme_reg \subseteq Events

BmeInit ==
    /\ bme_pc = "init"
    /\ bme_reg = {}

\* Control moves, with or without the register; a load and a store of a word.
BmeGo(from, to)   == bme_pc = from /\ bme_pc' = to
Bme(from, to)     == BmeGo(from, to) /\ UNCHANGED bme_reg
BmeLoad(word)     == bme_reg' = word /\ UNCHANGED kernelVars

\* The task deletes itself when the sensor does not answer.
BME280_Init ==
    /\ \E answers \in BmeInitResults : Bme("init", IF answers THEN "wait" ELSE "deleted")
    /\ UNCHANGED kernelVars

\* Only this task takes sem_bme280_acq, so lines 205 to 207 are one step.
BmeWait ==
    /\ Available("sem_bme280_acq")
    /\ Bme("wait", IF "SEND" \in BME280_task_events THEN "takeSend" ELSE "testReceive")
    /\ UNCHANGED kernelVars

BmeTakeSend == Bme("takeSend", "sendSample") /\ Take("sem_bme280_acq")

BmeSendSample == Bme("sendSample", "testComm") /\ Send("comm_send_queue", "log")

BmeTestComm ==
    /\ Bme("testComm", IF "SEND" \in comm_task_events THEN "loadSend" ELSE "loadComm")
    /\ UNCHANGED kernelVars

\* comm_task_events |= COMM_TASK_SEND_EVENT
BmeLoadComm  == BmeGo("loadComm", "storeComm") /\ BmeLoad(comm_task_events)
BmeStoreComm ==
    BmeGo("storeComm", "giveComm") /\ StoreComm(Raise(bme_reg, "SEND")) /\ bme_reg' = {}

\* Mutant: the flag is raised and the give forgotten.
BmeGiveCommNone == Bme("giveComm", "loadSend") /\ UNCHANGED kernelVars
BmeGiveComm == Bme("giveComm", "loadSend") /\ Give("comm_task_sem")

\* BME280_task_events &= ~BME280_TASK_SEND_EVENT
BmeLoadSend  == BmeGo("loadSend", "storeSend") /\ BmeLoad(BME280_task_events)
BmeStoreSend ==
    BmeGo("storeSend", "testReceive") /\ StoreBme(ClearSend(bme_reg)) /\ bme_reg' = {}

BmeTestReceive ==
    /\ Bme("testReceive", IF "RECEIVE" \in BME280_task_events THEN "takeReceive" ELSE "wait")
    /\ UNCHANGED kernelVars

BmeTakeReceive == Bme("takeReceive", "drainReceive") /\ Take("sem_bme280_acq")

BmeReceiveCommand == Bme("drainReceive", "drainReceive") /\ Receive("bme280_queue")

BmeQueueEmpty ==
    /\ Bme("drainReceive", "loadReceive")
    /\ ~ MessagesWaiting("bme280_queue")
    /\ UNCHANGED kernelVars

\* BME280_task_events &= ~BME280_TASK_RECEIVE_EVENT
BmeLoadReceive  == BmeGo("loadReceive", "storeReceive") /\ BmeLoad(BME280_task_events)
BmeStoreReceive ==
    BmeGo("storeReceive", "wait") /\ StoreBme(ClearReceive(bme_reg)) /\ bme_reg' = {}

BmeNext ==
    \/ BME280_Init \/ BmeWait
    \/ BmeTakeSend \/ BmeSendSample
    \/ BmeTestComm \/ BmeLoadComm \/ BmeStoreComm \/ BmeGiveComm
    \/ BmeLoadSend \/ BmeStoreSend
    \/ BmeTestReceive \/ BmeTakeReceive \/ BmeReceiveCommand \/ BmeQueueEmpty
    \/ BmeLoadReceive \/ BmeStoreReceive
=============================================================================
