----------------------------- MODULE TivaKernel -----------------------------
(***************************************************************************)
(* The objects the tasks of the Tiva node share: the counting semaphores,  *)
(* the queues and the two event words that main() and the task headers     *)
(* declare, with the kernel calls the tasks make on them.                  *)
(*                                                                         *)
(* A kernel call is one step.  A call that blocks (portMAX_DELAY) is       *)
(* disabled until it can return.  The event words are plain volatile       *)
(* integers: `w |= f' and `w &= ~f' are a load and a store, which are      *)
(* separate steps of the task that executes them.                          *)
(***************************************************************************)
EXTENDS Naturals, Sequences

CONSTANTS
    QueueLength,        \* items in each queue (100 in main.c)
    SemaphoreMaxCount,  \* SEMAPHORE_MAX_COUNT (100 in main.h)
    Packets             \* the classes of packets that arrive over the UART

VARIABLES
    sem,                \* counts of the semaphores
    queue,              \* contents of the queues
    comm_task_events,   \* flags raised for vCommTask
    BME280_task_events  \* flags raised for Task_BME280

kernelVars == <<sem, queue, comm_task_events, BME280_task_events>>

Semaphores == {"comm_task_sem", "sem_bme280_acq", "sem_hcsr04_acq",
               "sem_hcsr04_update", "sem_hcsr04_cmd"}

SendQueues    == {"comm_send_queue"}
ReceiveQueues == {"comm_receive_queue", "bme280_queue", "hcsr04_queue"}
Queues        == SendQueues \cup ReceiveQueues

(***************************************************************************)
(* What a received packet is to its readers: a command for the BME280 task *)
(* (this node's tiva_id, command_id 0..60), one for the HC-SR04 task       *)
(* (61..120), or anything else (another node, or a command above 120).     *)
(***************************************************************************)
PacketClasses == {"bme", "hcsr", "other"}

\* Every message of comm_send_queue is a log line; no property depends on what
\* it says.
LogMessages == {"log"}

ItemsOf(q) == IF q \in SendQueues THEN LogMessages ELSE PacketClasses

(***************************************************************************)
(* The bits of an event word.  The macros are 1<<0 and 1<<1 without        *)
(* parentheses, so `~RECEIVE' expands to ~1<<1, a mask with bits 0 and 1   *)
(* both clear: `w &= ~RECEIVE' clears SEND as well.                        *)
(***************************************************************************)
Events == {"SEND", "RECEIVE"}
\* Mutant: the wrong flag is cleared.
ClearSendOther(word) == word \ {"RECEIVE"}
ClearSend(word)    == word \ {"SEND"}
ClearReceive(word) == word \ {"SEND", "RECEIVE"}
Raise(word, flag)  == word \cup {flag}

ASSUME KernelAssumption ==
    /\ QueueLength \in Nat \ {0}
    /\ SemaphoreMaxCount \in Nat \ {0}
    /\ Packets \subseteq PacketClasses

KernelTypeOK ==
    /\ sem \in [Semaphores -> 0..SemaphoreMaxCount]
    /\ queue \in [Queues -> Seq(LogMessages \cup PacketClasses)]
    /\ \A q \in Queues : queue[q] \in Seq(ItemsOf(q)) /\ Len(queue[q]) <= QueueLength
    /\ comm_task_events \subseteq Events
    /\ BME280_task_events \subseteq Events

KernelInit ==
    /\ sem = [s \in Semaphores |-> 0]
    /\ queue = [q \in Queues |-> << >>]
    /\ comm_task_events = {}
    /\ BME280_task_events = {}

-----------------------------------------------------------------------------
(* Semaphores: xSemaphoreTake, xSemaphoreGive and xSemaphoreGiveFromISR.   *)
(* A give to a full semaphore fails, and every caller ignores the result.  *)

Available(s) == sem[s] > 0

Taken(s) == [sem EXCEPT ![s] = @ - 1]
\* Mutant: the maximum count is not checked.
GivenUncapped(s) == [sem EXCEPT ![s] = @ + 1]
Given(s) == [sem EXCEPT ![s] = IF @ < SemaphoreMaxCount THEN @ + 1 ELSE @]

Take(s) ==
    /\ Available(s)
    /\ sem' = Taken(s)
    /\ UNCHANGED <<queue, comm_task_events, BME280_task_events>>

Give(s) ==
    /\ sem' = Given(s)
    /\ UNCHANGED <<queue, comm_task_events, BME280_task_events>>

(* Queues: xQueueSend to the back, xQueueReceive from the front,           *)
(* uxQueueMessagesWaiting.                                                 *)

MessagesWaiting(q) == queue[q] /= << >>
Full(q) == Len(queue[q]) = QueueLength

Sent(q, item) == [queue EXCEPT ![q] = Append(@, item)]
Received(q)   == [queue EXCEPT ![q] = Tail(@)]

Send(q, item) ==
    /\ ~ Full(q)
    /\ queue' = Sent(q, item)
    /\ UNCHANGED <<sem, comm_task_events, BME280_task_events>>

Receive(q) ==
    /\ MessagesWaiting(q)
    /\ queue' = Received(q)
    /\ UNCHANGED <<sem, comm_task_events, BME280_task_events>>

(* Stores to the event words. *)

StoreComm(word) ==
    /\ comm_task_events' = word
    /\ UNCHANGED <<sem, queue, BME280_task_events>>

StoreBme(word) ==
    /\ BME280_task_events' = word
    /\ UNCHANGED <<sem, queue, comm_task_events>>
=============================================================================
