------------------------------ MODULE Sleepers ------------------------------
(***************************************************************************)
(* What the delays of the kernel promise: a task that sleeps for n ticks   *)
(* is awake after n ticks, not sooner unless it is woken and not later,    *)
(* whatever the other tasks do and however the tick count wraps.           *)
(***************************************************************************)
EXTENDS Integers

CONSTANTS
    Sleeper,  \* the tasks
    MaxSleep  \* the ticks a task sleeps at most

VARIABLE left  \* the ticks each still sleeps, 0 for a task awake

Init == left = [t \in Sleeper |-> 0]

\* Some are woken: by a notification, an item, another task.
Woken == left' \in [Sleeper -> 0..MaxSleep] /\ \A t \in Sleeper : left'[t] \in {0, left[t]}

Tick == left' = [t \in Sleeper |-> IF left[t] = 0 THEN 0 ELSE left[t] - 1]

Sleeps ==
    \E t \in Sleeper, n \in 1..MaxSleep : left[t] = 0 /\ left' = [left EXCEPT ![t] = n]

Next == Woken \/ Tick \/ Sleeps

Spec == Init /\ [][Next]_left
=============================================================================
