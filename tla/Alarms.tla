------------------------------- MODULE Alarms -------------------------------
(***************************************************************************)
(* What the software timers promise: one that is started does not call     *)
(* back before its period is over, and one that reloads does not call back *)
(* again before a further period is over, which begins when the last was   *)
(* over and not when the callback ran.  Unless a task commands it, only    *)
(* the ticks and its callbacks change when it is due.  How late it may be  *)
(* called back is not said.                                                *)
(***************************************************************************)
EXTENDS TickCount

CONSTANTS
    Timers,
    AutoReload, \* the timers that reload
    MaxAge      \* the ticks between the call that starts a timer and its start

VARIABLES
    tick,      \* the tick count
    due,       \* <<n>>, n ticks before each timer is due, or <<>> if it does not run
    period,    \* the period of each
    commanded  \* the timers a task has commanded, while the commands are under way

vars == <<tick, due, period, commanded>>

Init == due = [t \in Timers |-> <<>>] /\ commanded = {}

\* A tick: all that run are due one tick sooner, or later overdue.
Passes ==
    /\ tick' = Later(tick, 1)
    /\ due' = [t \in Timers |-> IF due[t] = <<>> THEN <<>> ELSE <<due[t][1] - 1>>]
    /\ UNCHANGED <<period, commanded>>

\* A callback.  A timer that reloads is due a period after it was due, unless there is
\* no room for the command that restarts it: then it stops.
CallsBack(t) ==
    /\ due[t] /= <<>> /\ due[t][1] <= 0
    /\ \/ t \in AutoReload /\ due' = [due EXCEPT ![t] = <<@[1] + period[t]>>]
       \/ due' = [due EXCEPT ![t] = <<>>]
    /\ commanded' \subseteq commanded
    /\ UNCHANGED <<tick, period>>

Commands(t) == commanded' = commanded \cup {t} /\ UNCHANGED <<tick, due, period>>

\* Starts, or starts anew, as of so many ticks ago, perhaps with another period.
Starts(t) ==
    /\ t \in commanded /\ commanded' \subseteq commanded
    /\ \E age \in 0..MaxAge : due' = [due EXCEPT ![t] = <<period'[t] - age>>]
    /\ period' = [period EXCEPT ![t] = period'[t]]
    /\ UNCHANGED tick

Stops(t) ==
    /\ t \in commanded /\ commanded' \subseteq commanded
    /\ due' = [due EXCEPT ![t] = <<>>]
    /\ UNCHANGED <<tick, period>>

\* The commands for some have been executed.
Settles == commanded' \subseteq commanded /\ UNCHANGED <<tick, due, period>>

Next ==
    \/ Passes \/ Settles
    \/ \E t \in Timers : CallsBack(t) \/ Commands(t) \/ Starts(t) \/ Stops(t)

Spec == Init /\ [][Next]_vars
=============================================================================
