----------------------------- MODULE MCService -----------------------------
(***************************************************************************)
(* What the tasks of TivaNode must eventually do, for TLC.                 *)
(***************************************************************************)
EXTENDS MCTivaNode

\* Commands for both kinds of sensors, none of which answers.
Commands == [packets |-> {"bme", "hcsr"}, bme |-> FALSE, echoes |-> FALSE]
\* The HC-SR04s alone, and the BME280 alone.
Cycles == [packets |-> {}, bme |-> FALSE, echoes |-> TRUE]
Samples == [packets |-> {}, bme |-> TRUE, echoes |-> FALSE]

Service == {Commands, Cycles, Samples}

\* The fairness of TivaNode.
ServiceSpec ==
    /\ MCSpec
    /\ WF_mcVars(MCComm) /\ WF_mcVars(MCBme) /\ WF_mcVars(MCHcsr) /\ WF_mcVars(MCCmd)
    /\ WF_mcVars(MCTimer) /\ \A i \in Sensors : WF_mcVars(MCEcho(i))

\* HcsrCyclesRun where the HC-SR04s are attached, so that echoes come back
\* (hcsr04.c:164-223).
AttachedCyclesRun == scenario.echoes => HcsrCyclesRun

\* LogLinesWritten where the BME280 keeps asking for the task (comm_task.c:40-53,
\* bme280.c:222-226).
SampledLogLinesWritten == scenario.bme => LogLinesWritten
=============================================================================
