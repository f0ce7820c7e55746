---------------------------- MODULE MCCompanion ----------------------------
(***************************************************************************)
(* Instances of Companion for TLC, in scenarios: the program in use, with  *)
(* packets of every kind and requests of the user; the program being       *)
(* closed by a command or by an interrupt; the program left alone, with    *)
(* prompt threads; and the program until its logger has come to work,      *)
(* where threads may have any speed.                                       *)
(***************************************************************************)
EXTENDS Companion

CONSTANT Scenarios  \* some of "in_use", "closing", "left_alone", "late_logger"

VARIABLE scenario

mcVars == <<vars, scenario>>

MCInit == Init /\ scenario \in Scenarios

In(step) ==
    /\ scenario = "late_logger" => logger_pc \in {"startup", "create"}
    /\ step /\ UNCHANGED scenario
Closing == scenario = "closing"
Alone   == scenario = "left_alone"

\* Threads that are left alone come to rest within a period.
MCTimer == In(TimerExpires /\ (Alone => Settled))

MCThreads ==
    \/ In(MainStep) \/ MCTimer \/ In(HandlerStep) \/ In(\E i \in Tasks : NotifierStep(i))
    \/ In(LoggerStep) \/ In(SockStep) \/ In(UiHandlerStep) \/ In(UiStep)

\* While the program is being closed only packets arrive that are dropped.
MCUart == In(~ Alone /\ UartDelivers /\ (Closing => sock_pc' = "loop"))
MCUser == In(~ Alone /\ UserTypes /\ (Closing <=> close_app'))
MCInterrupt == In(Closing /\ Interrupted)

\* A program that is closed may stop for ever, which is no deadlock here; a
\* scenario may end.
MCStops ==
    /\ close_app \/ (scenario = "late_logger" /\ logger_pc = "loop")
    /\ UNCHANGED mcVars

MCNext == MCThreads \/ MCUart \/ MCUser \/ MCInterrupt \/ MCStops

MCSpec == MCInit /\ [][MCNext]_mcVars

\* The fairness of Companion.  A behaviour that stops where its scenario ends is not
\* fair, so that nothing is asked of it.
Thread(step) == step /\ UNCHANGED scenario

MCFairSpec ==
    /\ MCSpec
    /\ SF_mcVars(Thread(MainStep)) /\ WF_mcVars(MCTimer)
    /\ SF_mcVars(Thread(HandlerStep)) /\ \A i \in Tasks : SF_mcVars(Thread(NotifierStep(i)))
    /\ WF_mcVars(Thread(LoggerStep)) /\ SF_mcVars(Thread(SockStep))
    /\ SF_mcVars(Thread(UiHandlerStep)) /\ SF_mcVars(Thread(UiStep))
=============================================================================
