----------------------------- MODULE MCObjects -----------------------------
(***************************************************************************)
(* Instances of KernelQueue for TLC, each with several objects.            *)
(***************************************************************************)
EXTENDS KernelQueue

CONSTANTS low, middle, high  \* tasks, named for their priorities

VARIABLE scenario  \* the kind of the object

Queues == [kind : {"queue"}, length : {1, 2}]
Semaphore == [kind |-> "semaphore", length |-> 1]
Mutex == [kind |-> "mutex", length |-> 1]

AllShapes == Queues \cup {Semaphore, Mutex}
OnlySemaphore == {[Semaphore EXCEPT !.length = 2]}
OnlyMutex == {Mutex}

TwoTasks == 0 :> <<Idle>> @@ 1 :> <<low>> @@ 2 :> <<middle>>
ThreeTasks == TwoTasks @@ 3 :> <<high>>

mcVars == <<kernelQueueVars, scenario>>

MCInit == KernelQueueInit /\ scenario = buffer.kind

\* What a queue adds to a semaphore is its storage: there its tasks wait for ever
\* and no tick comes.
ForEver == \A t \in Users : call'[t].op = "none" \/ call'[t].wait = MaxDelay

MCCalls ==
    /\ CallSteps
    /\ scenario = "queue" => ForEver
    /\ UNCHANGED previous_wake

MCDelays == scenario = "mutex" /\ vTaskDelay /\ UNCHANGED queueVars

MCScheduler ==
    /\ \/ PendSV \/ TickLoops
       \/ scenario /= "queue" /\ SysTick
    /\ UNCHANGED <<previous_wake, queueVars>>

MCNext == (MCCalls \/ MCDelays \/ MCScheduler) /\ UNCHANGED scenario

MCSpec == MCInit /\ [][MCNext]_mcVars
=============================================================================
