----------------------------- MODULE Hcsr04Task -----------------------------
(***************************************************************************)
(* Task_HCSR04 and Task_HCSR04_Cmd_Handling (src/hcsr04.c).  The first     *)
(* pulses the two ultrasonic sensors in turn, waits for each echo on the   *)
(* one semaphore that both interrupt handlers give, and reports a person   *)
(* entering when sensor 1 saw somebody near and leaving when sensor 2 did. *)
(* The second discards the commands of hcsr04_queue.                       *)
(*                                                                         *)
(* A width is kept as what the task makes of it: near or not (below        *)
(* DOOR_LENGTH cm).                                                        *)
(***************************************************************************)
EXTENDS TivaKernel, Integers

CONSTANTS
    MaxPeople,     \* bound on number_of_people
    EchoAttached   \* whether the HC-SR04s are attached and answer a pulse

ASSUME Hcsr04Assumption == MaxPeople \in Nat /\ EchoAttached \in BOOLEAN

Sensors == {1, 2}

\* Where the task waits for the echo of sensor i.
WaitFor(i) == IF i = 1 THEN "update1" ELSE "update2"

VARIABLES
    hcsr_pc,
    hcsr_reg,          \* the event word the task has loaded and not stored back
    near_1,            \* what the task read of sensor 1 in this cycle
    reports,           \* the sensors the cycle still has to report on
    number_of_people,
    pulsed,            \* the sensors with a measurement under way
    pwm_near,          \* whether pwm_width_1 and pwm_width_2 are near
    cmd_pc

hcsrVars == <<hcsr_pc, hcsr_reg, near_1, reports, number_of_people, pulsed, pwm_near>>
cmdVars  == <<cmd_pc>>

HcsrPCs == {"acq", "update1", "update2", "send", "testComm", "loadComm", "storeComm", "giveComm"}

HcsrTypeOK ==
    /\ hcsr_pc \in HcsrPCs
    /\ hcsr_reg \subseteq Events
    /\ near_1 \in BOOLEAN
    /\ reports \subseteq Sensors
    /\ reports = {} <=> hcsr_pc \in {"acq", "update1", "update2"}
    /\ number_of_people \in Int /\ number_of_people >= -1
    /\ pulsed \subseteq Sensors
    /\ pwm_near \in [Sensors -> BOOLEAN]
    /\ cmd_pc \in {"wait", "drain"}

\* The widths are zero at power-up, which reads as near.
HcsrInit ==
    /\ hcsr_pc = "acq"
    /\ hcsr_reg = {}
    /\ near_1 = FALSE
    /\ reports = {}
    /\ number_of_people = 0
    /\ pulsed = {}
    /\ pwm_near = [i \in Sensors |-> TRUE]
    /\ cmd_pc = "wait"

Hcsr(from, to) == hcsr_pc = from /\ hcsr_pc' = to
KeepReadings == UNCHANGED <<near_1, number_of_people, pulsed, pwm_near>>

\* The trigger pulse on a sensor's output pin.
Pulse(i) == pulsed' = pulsed \cup {i}

\* The report in hand: sensor 1, somebody entered, before sensor 2, somebody left.
\* The number of people changes before the message that quotes it is queued.
Report == IF 1 \in reports THEN 1 ELSE 2

PeopleAfter(report) ==
    IF report = 1 THEN number_of_people + 1
    ELSE IF number_of_people >= 0 THEN number_of_people - 1 ELSE number_of_people

\* Mutant: both sensors are triggered at the start of the cycle.
HcsrTakeAcqBoth ==
    /\ Hcsr("acq", "update1")
    /\ Take("sem_hcsr04_acq")
    /\ pulsed' = Sensors
    /\ UNCHANGED <<hcsr_reg, near_1, reports, number_of_people, pwm_near>>

HcsrTakeAcq ==
    /\ Hcsr("acq", "update1")
    /\ Take("sem_hcsr04_acq")
    /\ Pulse(1)
    /\ UNCHANGED <<hcsr_reg, near_1, reports, number_of_people, pwm_near>>

\* Mutant: sensor 2 is not triggered.
HcsrTakeUpdate1NoPulse ==
    /\ Hcsr("update1", "update2")
    /\ Take("sem_hcsr04_update")
    /\ near_1' = pwm_near[1]
    /\ UNCHANGED <<hcsr_reg, reports, number_of_people, pulsed, pwm_near>>

HcsrTakeUpdate1 ==
    /\ Hcsr("update1", "update2")
    /\ Take("sem_hcsr04_update")
    /\ near_1' = pwm_near[1]
    /\ Pulse(2)
    /\ UNCHANGED <<hcsr_reg, reports, number_of_people, pwm_near>>

HcsrTakeUpdate2 ==
    /\ reports' = {i \in Sensors : IF i = 1 THEN near_1 ELSE pwm_near[2]}
    /\ Hcsr("update2", IF reports' = {} THEN "acq" ELSE "send")
    /\ Take("sem_hcsr04_update")
    /\ near_1' = FALSE
    /\ UNCHANGED <<hcsr_reg, number_of_people, pulsed, pwm_near>>

HcsrSendReport ==
    /\ Hcsr("send", "testComm")
    /\ Send("comm_send_queue", "log")
    /\ number_of_people' = PeopleAfter(Report)
    /\ UNCHANGED <<hcsr_reg, near_1, reports, pulsed, pwm_near>>

\* Where a report leaves the task: the cycle's other report, or the next cycle.
HcsrReported(from) ==
    /\ reports' = reports \ {Report}
    /\ Hcsr(from, IF reports' = {} THEN "acq" ELSE "send")

HcsrTestComm ==
    /\ \/ "SEND" \in comm_task_events /\ HcsrReported("testComm")
       \/ "SEND" \notin comm_task_events /\ Hcsr("testComm", "loadComm") /\ UNCHANGED reports
    /\ UNCHANGED <<kernelVars, hcsr_reg>> /\ KeepReadings

\* comm_task_events |= COMM_TASK_SEND_EVENT
HcsrLoadComm ==
    /\ Hcsr("loadComm", "storeComm")
    /\ hcsr_reg' = comm_task_events
    /\ UNCHANGED <<kernelVars, reports>> /\ KeepReadings

HcsrStoreComm ==
    /\ Hcsr("storeComm", "giveComm")
    /\ StoreComm(Raise(hcsr_reg, "SEND"))
    /\ hcsr_reg' = {}
    /\ UNCHANGED reports /\ KeepReadings

HcsrGiveComm ==
    /\ HcsrReported("giveComm")
    /\ Give("comm_task_sem")
    /\ UNCHANGED hcsr_reg /\ KeepReadings

HcsrNext ==
    \/ HcsrTakeAcq \/ HcsrTakeUpdate1 \/ HcsrTakeUpdate2
    \/ HcsrSendReport \/ HcsrTestComm \/ HcsrLoadComm \/ HcsrStoreComm \/ HcsrGiveComm

-----------------------------------------------------------------------------
(***************************************************************************)
(* The falling edge of sensor i's echo: PortLIntHandler (1) or             *)
(* PortHIntHandler (2) stores the width and gives the semaphore.  A sensor *)
(* answers each pulse once.  Nobody enters beyond MaxPeople.               *)
(***************************************************************************)
EchoFalls(i, near) ==
    /\ EchoAttached
    /\ i \in pulsed
    /\ (i = 1 /\ near) => number_of_people < MaxPeople
    /\ pulsed' = pulsed \ {i}
    /\ pwm_near' = [pwm_near EXCEPT ![i] = near]
    /\ Give("sem_hcsr04_update")
    /\ UNCHANGED <<hcsr_pc, hcsr_reg, near_1, reports, number_of_people>>

-----------------------------------------------------------------------------
CmdTake ==
    /\ cmd_pc = "wait" /\ cmd_pc' = "drain"
    /\ Take("sem_hcsr04_cmd")

CmdReceive ==
    /\ cmd_pc = "drain" /\ UNCHANGED cmd_pc
    /\ Receive("hcsr04_queue")

CmdQueueEmpty ==
    /\ cmd_pc = "drain" /\ cmd_pc' = "wait"
    /\ ~ MessagesWaiting("hcsr04_queue")
    /\ UNCHANGED kernelVars

CmdNext == CmdTake \/ CmdReceive \/ CmdQueueEmpty
=============================================================================
