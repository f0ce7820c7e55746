----------------------------- MODULE MCTivaNode -----------------------------
(***************************************************************************)
(* Instances of TivaNode for TLC, each in several scenarios: which packets *)
(* arrive, whether the BME280 answers and whether the HC-SR04s are         *)
(* attached.                                                               *)
(***************************************************************************)
EXTENDS TivaNode

CONSTANT Scenarios  \* some of those defined here

VARIABLE scenario

\* Both producers of log lines, no packets from the UART.
Telemetry == [packets |-> {}, bme |-> TRUE, echoes |-> TRUE]
\* Commands for the BME280 race its samples.
BmeCommands == [packets |-> {"bme"}, bme |-> TRUE, echoes |-> FALSE]
\* Every class of packet, with no sensor answering.
AllPackets == [packets |-> {"bme", "hcsr", "other"}, bme |-> FALSE, echoes |-> FALSE]

Safety == {Telemetry, BmeCommands, AllPackets}

mcVars == <<vars, scenario>>

MCInit == Init /\ scenario \in Scenarios

In(step) == step /\ UNCHANGED scenario

MCComm == In(CommStep)
MCBme  == In(BmeStep /\ (bme_pc = "init" => scenario.bme = (bme_pc' = "wait")))
MCHcsr == In(HcsrStep)
MCCmd  == In(CmdStep)
MCTimer == In(TimerExpires)
MCEcho(i) == In(scenario.echoes /\ Echo(i))
MCPacket ==
    In(/\ scenario.packets /= {}
       /\ PacketArrives
       /\ \A k \in DOMAIN queue'["comm_receive_queue"] :
             queue'["comm_receive_queue"][k] \in scenario.packets)

\* The node really stops when the UART interrupt spins, which is no deadlock here.
MCSpins == uart_isr = "spinning" /\ UNCHANGED mcVars

MCNext ==
    \/ MCComm \/ MCBme \/ MCHcsr \/ MCCmd \/ MCTimer \/ MCPacket
    \/ (\E i \in Sensors : MCEcho(i)) \/ MCSpins

MCSpec == MCInit /\ [][MCNext]_mcVars
=============================================================================
