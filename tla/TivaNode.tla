------------------------------ MODULE TivaNode ------------------------------
(***************************************************************************)
(* The sensor node of src/tiva_tm4c: the three tasks main() creates and    *)
(* the command task the HC-SR04 task creates, with what preempts them: the *)
(* software timer's callback (the timer daemon has the highest priority),  *)
(* the UART interrupt and the echo interrupts.  The tasks have the same    *)
(* priority and are time-sliced, so their steps interleave freely; the     *)
(* callback and the handlers are one step each.                            *)
(*                                                                         *)
(* The initial state is the one in which main() starts the scheduler.      *)
(***************************************************************************)
EXTENDS CommTask, Bme280Task, Hcsr04Task

VARIABLES
    timer_count,  \* `count' of timer_callback
    uart_isr      \* "ready", or "spinning" in an xQueueSend to a full queue

vars == <<kernelVars, commVars, bmeVars, hcsrVars, cmdVars, timer_count, uart_isr>>

TypeOK ==
    /\ KernelTypeOK /\ CommTypeOK /\ BmeTypeOK /\ HcsrTypeOK
    /\ timer_count \in 0..2
    /\ uart_isr \in {"ready", "spinning"}

Init ==
    /\ KernelInit /\ CommInit /\ BmeInit /\ HcsrInit
    /\ timer_count = 0
    /\ uart_isr = "ready"

-----------------------------------------------------------------------------
\* Mutant: the request is raised without the give.
timer_callback_flag_only ==
    /\ IF timer_count = 2
         THEN /\ BME280_task_events' = Raise(BME280_task_events, "SEND")
              /\ UNCHANGED <<sem, queue, comm_task_events>>
         ELSE Give("sem_hcsr04_acq")
    /\ timer_count' = (timer_count + 1) % 3

\* Of three expirations of the timer, two start an HC-SR04 cycle and one asks
\* for a BME280 sample.
timer_callback ==
    /\ IF timer_count = 2
         THEN /\ BME280_task_events' = Raise(BME280_task_events, "SEND")
              /\ sem' = Given("sem_bme280_acq")
              /\ UNCHANGED <<queue, comm_task_events>>
         ELSE Give("sem_hcsr04_acq")
    /\ timer_count' = (timer_count + 1) % 3

(***************************************************************************)
(* UARTStdioIntHandler when the last byte of a packet arrives.  It calls   *)
(* the blocking xQueueSend: on a full queue the handler cannot block and   *)
(* never returns, and no task runs again.  The token goes out before the   *)
(* flag is raised.                                                         *)
(***************************************************************************)
UARTStdioIntHandler(packet) ==
    IF Full("comm_receive_queue")
      THEN uart_isr' = "spinning" /\ UNCHANGED kernelVars
      ELSE /\ queue' = Sent("comm_receive_queue", packet)
           /\ IF "RECEIVE" \in comm_task_events
                THEN UNCHANGED <<sem, comm_task_events>>
                ELSE /\ sem' = Given("comm_task_sem")
                     /\ comm_task_events' = Raise(comm_task_events, "RECEIVE")
           /\ UNCHANGED <<BME280_task_events, uart_isr>>

-----------------------------------------------------------------------------
Running == uart_isr = "ready"

CommStep == /\ Running /\ CommNext
            /\ UNCHANGED <<bmeVars, hcsrVars, cmdVars, timer_count, uart_isr>>
BmeStep  == /\ Running /\ BmeNext
            /\ UNCHANGED <<commVars, hcsrVars, cmdVars, timer_count, uart_isr>>
HcsrStep == /\ Running /\ HcsrNext
            /\ UNCHANGED <<commVars, bmeVars, cmdVars, timer_count, uart_isr>>
CmdStep  == /\ Running /\ CmdNext
            /\ UNCHANGED <<commVars, bmeVars, hcsrVars, timer_count, uart_isr>>
TimerExpires == /\ Running /\ timer_callback
                /\ UNCHANGED <<commVars, bmeVars, hcsrVars, cmdVars, uart_isr>>
Echo(i) == /\ Running /\ \E near \in BOOLEAN : EchoFalls(i, near)
           /\ UNCHANGED <<commVars, bmeVars, cmdVars, timer_count, uart_isr>>
PacketArrives == /\ Running /\ \E packet \in Packets : UARTStdioIntHandler(packet)
                 /\ UNCHANGED <<commVars, bmeVars, hcsrVars, cmdVars, timer_count>>

Next ==
    \/ CommStep \/ BmeStep \/ HcsrStep \/ CmdStep
    \/ TimerExpires \/ PacketArrives \/ (\E i \in Sensors : Echo(i))

(***************************************************************************)
(* The kernel time-slices the tasks, which all have priority 1, the timer  *)
(* reloads itself, and an attached sensor ends every echo.  Nothing makes  *)
(* packets arrive.                                                         *)
(***************************************************************************)
Fairness ==
    /\ WF_vars(CommStep) /\ WF_vars(BmeStep) /\ WF_vars(HcsrStep) /\ WF_vars(CmdStep)
    /\ WF_vars(TimerExpires)
    /\ \A i \in Sensors : WF_vars(Echo(i))

Spec     == Init /\ [][Next]_vars
FairSpec == Spec /\ Fairness

-----------------------------------------------------------------------------
\* A producer that has raised SEND in comm_task_events and not given yet.
ProducerOwesToken == bme_pc = "giveComm" \/ hcsr_pc = "giveComm"

\* The flag SEND of vCommTask is never set without a way to be noticed: when the
\* task is outside its branches, or about to enter one, either its semaphore has
\* a token or a producer that stored the flag still has to give it one.  The
\* stores of the producers and of the task race, and the RECEIVE branch takes
\* tokens of the same semaphore (comm_task.c:38-56, bme280.c:222-226,
\* hcsr04.c:196-200).
CommNoticesSend ==
    ("SEND" \in comm_task_events
       /\ comm_pc \in {"greeting", "wait", "testReceive", "takeReceive"})
    => (Available("comm_task_sem") \/ ProducerOwesToken)

\* The same for the request of a sample: when Task_BME280 is outside its branches
\* and SEND is set, its semaphore has a token or vCommTask, which may have stored
\* the flag back, still has to give one (main.c:19-24, bme280.c:205-231,
\* comm_task.c:68-72).
BmeNoticesSend ==
    ("SEND" \in BME280_task_events
       /\ bme_pc \in {"init", "wait", "takeSend", "testReceive", "takeReceive"})
    => (Available("sem_bme280_acq") \/ comm_pc = "giveBme")

\* No command for the HC-SR04 waits without its task being woken: whenever
\* hcsr04_queue holds one, the task drains it, or its semaphore has a token, or
\* vCommTask is about to give one (comm_task.c:76-77, hcsr04.c:136-148).
HcsrNoticesCommands ==
    MessagesWaiting("hcsr04_queue")
    => (cmd_pc = "drain" \/ Available("sem_hcsr04_cmd") \/ comm_pc = "giveCmd")

\* The semaphore that the two sensors share never lets the task read the width of
\* an earlier pulse: while it waits for a sensor, the semaphore has one token if
\* that sensor has answered and none before, and the other sensor is silent; no
\* token is left over when it waits for neither (hcsr04.c:61-64, 84-87, 166-182).
EchoAnswersPulse ==
    /\ \A i \in Sensors : hcsr_pc = WaitFor(i) =>
          /\ pulsed \subseteq {i}
          /\ sem["sem_hcsr04_update"] = IF i \in pulsed THEN 0 ELSE 1
    /\ (\A i \in Sensors : hcsr_pc /= WaitFor(i)) =>
          pulsed = {} /\ sem["sem_hcsr04_update"] = 0

-----------------------------------------------------------------------------
\* A command for the HC-SR04 is taken from its queue, unless the node hangs in
\* the UART interrupt: the command task comes to drain the queue, and drains it to
\* the end (hcsr04.c:136-148).
HcsrCommandsHandled ==
    MessagesWaiting("hcsr04_queue") ~> (cmd_pc = "drain" \/ uart_isr = "spinning")

\* The queue fills up after vCommTask has found it empty and before it has cleared
\* the flag SEND: it then waits for a token that the blocked producer cannot give.
QueueFillsUnnoticed == Full("comm_send_queue") /\ comm_pc \in {"loadSend", "storeSend"}

\* Every tick of the timer for the HC-SR04s starts a cycle and every cycle ends,
\* as long as comm_send_queue does not fill up unnoticed: the task never waits for
\* an echo that has already been counted (hcsr04.c:164-223, comm_task.c:43-52).
HcsrCyclesRun ==
    []~ QueueFillsUnnoticed =>
        /\ Available("sem_hcsr04_acq") ~> (hcsr_pc = "update1")
        /\ hcsr_pc = "update1" ~> (hcsr_pc = "acq")

\* A log line in comm_send_queue is written to the UART: vCommTask comes to drain
\* the queue, unless the node hangs, as long as the queue does not fill up
\* unnoticed (comm_task.c:40-53).  It holds while the BME280 keeps asking for the
\* task, and not without it.
LogLinesWritten ==
    []~ QueueFillsUnnoticed =>
        (MessagesWaiting("comm_send_queue") ~> (comm_pc = "drainSend" \/ uart_isr = "spinning"))

\* "For every two times, give the semaphore to 2hz task" (main.c:18): Task_BME280
\* clears the request for a sample only after it has taken one (bme280.c:227, 243).
RequestsAreSampled ==
    [][(bme_pc' /= bme_pc /\ "SEND" \in BME280_task_events /\ "SEND" \notin BME280_task_events')
       => bme_pc = "storeSend"]_vars
=============================================================================
