---------------------------- MODULE TaskServices ----------------------------
(***************************************************************************)
(* The services of tasks.c that a task asks for: to delay itself, to       *)
(* suspend and resume a task, to change its priority, to delete and create *)
(* one and to notify one, with the variants for interrupts.                *)
(***************************************************************************)
EXTENDS Scheduler

CONSTANTS
    BlockTimes,  \* the block times asked for
    Increments,  \* the periods of vTaskDelayUntil
    MaxValue     \* bound: the notifications counted

ASSUME TaskServicesAssumption ==
    BlockTimes \subseteq Ticks /\ Increments \subseteq Ticks \ {0} /\ MaxValue \in Nat

VARIABLE previous_wake  \* the PreviousWakeTime of each task

taskServicesVars == <<schedulerVars, previous_wake>>

TaskServicesTypeOK == KernelTypeOK /\ previous_wake \in [Tasks -> Ticks]

TaskServicesInit == SchedulerInit /\ previous_wake = [t \in Tasks |-> 0]

Current == kernel.current

\* The tasks that a handle may be used of.
Alive == {t \in Users : pc[t] \notin {"deleted", "delete_yield"}}

-----------------------------------------------------------------------------
\* vTaskDelay
vTaskDelay ==
    /\ UNCHANGED previous_wake
    /\ \/ Step("run", SuspendAll(kernel), "delay")
       \/ \E ticks \in BlockTimes \ {0} :
             Step("delay", AddCurrentTaskToDelayedList(kernel, ticks, FALSE), "delay_resume")
       \/ 0 \in BlockTimes /\ Step("run", Yielding(kernel), "run")
       \/ ResumeAllAndYield("delay_resume", "delay_yield", "run")

\* Whether a period that began at previous is still to end now.
DelayUntilWaits(previous, increment, now) ==
    LET wake == Later(previous, increment)
    IN  IF now < previous THEN wake < previous /\ wake > now
        ELSE wake < previous \/ wake > now

\* vTaskDelayUntil
vTaskDelayUntil ==
    \/ /\ Step("run", SuspendAll(kernel), "delay_until") /\ Increments /= {}
       /\ UNCHANGED previous_wake
    \/ \E increment \in Increments :
          LET wake == Later(previous_wake[Current], increment)
          IN  /\ previous_wake' = [previous_wake EXCEPT ![Current] = wake]
              /\ Step("delay_until",
                      IF DelayUntilWaits(previous_wake[Current], increment, kernel.tick)
                      THEN AddCurrentTaskToDelayedList(kernel, Elapsed(kernel.tick, wake), FALSE)
                      ELSE kernel,
                      "delay_resume")

-----------------------------------------------------------------------------
\* vTaskSuspend: the first critical section ...
Suspended(k, t) ==
    [EventDetached(Detached(k, t), t) EXCEPT
        !.suspended = @ \cup {t},
        !.notify[t] = IF @ = "waiting" THEN "not_waiting" ELSE @]

\* ... and what follows it.
vTaskSuspend ==
    /\ UNCHANGED previous_wake
    /\ \/ \E t \in Alive :
             Step("run", Suspended(kernel, t), IF t = Current THEN "suspend_self" ELSE "suspend")
       \/ Step("suspend", ResetNextTaskUnblockTime(kernel), "run")
       \/ Step("suspend_self", ResetNextTaskUnblockTime(kernel), "suspend_yield")
       \/ Step("suspend_yield", Yielding(kernel), "run")

\* prvTaskIsTaskSuspended
IsSuspended(t) == t \in kernel.suspended /\ EventPlaces(t) = {}

\* The caller knows the task it resumes to be suspended: the kernel takes a task
\* that waits for a notification without a timeout for a suspended one.
MayResume(t) == t \in Alive /\ kernel.notify[t] /= "waiting"

\* vTaskResume
vTaskResume ==
    \E t \in Users \ {Current} :
        /\ IsSuspended(t) /\ MayResume(t)
        /\ Step("run",
                YieldingIf(AddTaskToReadyList(Detached(kernel, t), t),
                           kernel.priority[t] >= kernel.priority[Current]),
                "run")
        /\ UNCHANGED previous_wake

\* xTaskResumeFromISR, whose caller yields if it is asked to.
xTaskResumeFromISR ==
    \E t \in Users :
        /\ Interruptible /\ IsSuspended(t) /\ MayResume(t)
        /\ kernel' = IF kernel.locked = 0
                     THEN YieldingIf(AddTaskToReadyList(Detached(kernel, t), t),
                                     kernel.priority[t] >= kernel.priority[Current])
                     ELSE [kernel EXCEPT !.pending = Append(@, t)]
        /\ UNCHANGED <<pc, masked, previous_wake>>

-----------------------------------------------------------------------------
\* Mutant: the highest ready priority is not recorded.
ReprioritisedOnly(k, t, new) ==
    LET old == k.priority[t]
        set == [k EXCEPT !.priority[t] = IF k.base[t] = old THEN new ELSE @,
                         !.base[t] = new,
                         !.order[t] = MaxPriorities - new]
    IN  IF t \in Members(k.ready[old])
        THEN [AddTaskToReadyList([set EXCEPT !.ready[old] = RemoveItem(@, t)], t) EXCEPT
                 !.top = k.top]
        ELSE set

\* The part of vTaskPrioritySet that moves the task.
Reprioritised(k, t, new) ==
    LET old == k.priority[t]
        set == [k EXCEPT !.priority[t] = IF k.base[t] = old THEN new ELSE @,
                         !.base[t] = new,
                         !.order[t] = MaxPriorities - new]
    IN  IF t \in Members(k.ready[old])
        THEN AddTaskToReadyList([set EXCEPT !.ready[old] = RemoveItem(@, t)], t)
        ELSE set

\* vTaskPrioritySet
vTaskPrioritySet ==
    \E t \in Alive, new \in Priorities :
        /\ new /= kernel.base[t]
        /\ Step("run",
                YieldingIf(Reprioritised(kernel, t, new),
                           IF new > kernel.base[t]
                           THEN t /= Current /\ new >= kernel.priority[Current]
                           ELSE t = Current),
                "run")
        /\ UNCHANGED previous_wake

\* vTaskDelete: a task that deletes itself stays for the idle task to free.
vTaskDelete ==
    /\ UNCHANGED <<masked, previous_wake>>
    /\ \/ /\ At("run") /\ Current \in Users
          /\ Goes([EventDetached(Detached(kernel, Current), Current) EXCEPT
                      !.terminating = @ \cup {Current}], "delete_yield")
       \/ At("delete_yield") /\ Goes(Yielding(kernel), "delete_yield")
       \/ \E t \in Alive \ {Current} :
             /\ At("run")
             /\ kernel' = ResetNextTaskUnblockTime(EventDetached(Detached(kernel, t), t))
             /\ pc' = [pc EXCEPT ![t] = "deleted"]

\* prvAddNewTaskToReadyList, for a task in the memory of a deleted one.  The
\* comparison of the priorities, behind the critical section, is taken with it.
AddNewTaskToReadyList ==
    \E t \in Users, p \in Priorities :
        /\ At("run") /\ pc[t] = "deleted"
        /\ kernel' = YieldingIf(
              AddTaskToReadyList([kernel EXCEPT !.priority[t] = p, !.base[t] = p,
                                                !.order[t] = MaxPriorities - p,
                                                !.notify[t] = "not_waiting", !.value[t] = 0], t),
              kernel.priority[Current] < p)
        /\ pc' = [pc EXCEPT ![t] = "run"]
        /\ previous_wake' = [previous_wake EXCEPT ![t] = kernel.tick]
        /\ UNCHANGED masked

-----------------------------------------------------------------------------
\* ulTaskNotifyTake: the first critical section ...
Takes(k, ticks) ==
    LET waits == [k EXCEPT !.notify[k.current] = "waiting"]
    IN  CASE k.value[k.current] > 0 -> k
          [] k.value[k.current] = 0 /\ ticks = 0 -> waits
          [] OTHER -> Yielding(AddCurrentTaskToDelayedList(waits, ticks, TRUE))

\* ... and the second, after the task has been woken if it had to wait.
ulTaskNotifyTake ==
    /\ UNCHANGED previous_wake
    /\ \/ \E ticks \in BlockTimes : Step("run", Takes(kernel, ticks), "take")
       \/ \E rest \in {0, kernel.value[Current] - 1} :
             Step("take", [kernel EXCEPT !.value[Current] = IF @ = 0 THEN 0 ELSE rest,
                                         !.notify[Current] = "not_waiting"], "run")

\* xTaskNotifyWait: the first critical section ...
Waits(k, ticks) ==
    LET waits == [k EXCEPT !.notify[k.current] = "waiting"]
    IN  CASE k.notify[k.current] = "received" -> k
          [] k.notify[k.current] /= "received" /\ ticks = 0 -> waits
          [] OTHER -> Yielding(AddCurrentTaskToDelayedList(waits, ticks, TRUE))

\* ... and the second.  The bits that the caller clears are left out.
xTaskNotifyWait ==
    /\ UNCHANGED previous_wake
    /\ \/ \E ticks \in BlockTimes : Step("run", Waits(kernel, ticks), "wait")
       \/ Step("wait", [kernel EXCEPT !.notify[Current] = "not_waiting"], "run")

\* The value that an action of eNotifyAction leaves: eIncrement or eNoAction.
NotifiedValues(t) == {kernel.value[t], kernel.value[t] + 1} \cap 0..MaxValue

\* Mutant: the state is looked at after it has been set.
xTaskGenericNotifyLate ==
    \E t \in Alive : \E value \in NotifiedValues(t) :
        /\ Step("run", [kernel EXCEPT !.notify[t] = "received", !.value[t] = value], "run")
        /\ UNCHANGED previous_wake

\* xTaskGenericNotify
xTaskGenericNotify ==
    \E t \in Alive : \E value \in NotifiedValues(t) :
        LET k == [kernel EXCEPT !.notify[t] = "received", !.value[t] = value]
        IN  /\ Step("run",
                    IF kernel.notify[t] = "waiting"
                    THEN YieldingIf(AddTaskToReadyList(Detached(k, t), t),
                                    k.priority[t] > k.priority[Current])
                    ELSE k,
                    "run")
            /\ UNCHANGED previous_wake

\* What an interrupt changes to wake a task that waits for a notification.
WokenFromISR(k, t) ==
    IF k.locked = 0 THEN AddTaskToReadyList(Detached(k, t), t)
    ELSE [k EXCEPT !.pending = Append(@, t)]

\* xTaskGenericNotifyFromISR: with pxHigherPriorityTaskWoken the interrupt yields
\* itself, without it the yield is left pending.
NotifiedFromISR(t, value) ==
    LET k == [kernel EXCEPT !.notify[t] = "received", !.value[t] = value]
        higher == kernel.notify[t] = "waiting" /\ k.priority[t] > k.priority[k.current]
        woken == IF kernel.notify[t] = "waiting" THEN WokenFromISR(k, t) ELSE k
    IN  \/ kernel' = YieldingIf(woken, higher)
        \/ kernel' = [woken EXCEPT !.missed = @ \/ higher]

xTaskGenericNotifyFromISR ==
    \E t \in Alive : \E value \in NotifiedValues(t) :
        Interruptible /\ NotifiedFromISR(t, value) /\ UNCHANGED <<pc, masked, previous_wake>>

\* vTaskNotifyGiveFromISR
vTaskNotifyGiveFromISR ==
    \E t \in Alive :
        /\ Interruptible /\ kernel.value[t] < MaxValue
        /\ NotifiedFromISR(t, kernel.value[t] + 1) /\ UNCHANGED <<pc, masked, previous_wake>>

\* xTaskNotifyStateClear
xTaskNotifyStateClear ==
    \E t \in Alive :
        /\ kernel.notify[t] = "received"
        /\ Step("run", [kernel EXCEPT !.notify[t] = "not_waiting"], "run")
        /\ UNCHANGED previous_wake

-----------------------------------------------------------------------------
TaskServicesNext ==
    \/ vTaskDelay \/ vTaskDelayUntil \/ vTaskSuspend \/ vTaskResume \/ xTaskResumeFromISR
    \/ vTaskPrioritySet \/ vTaskDelete \/ AddNewTaskToReadyList
    \/ ulTaskNotifyTake \/ xTaskNotifyWait \/ xTaskGenericNotify
    \/ xTaskGenericNotifyFromISR \/ vTaskNotifyGiveFromISR \/ xTaskNotifyStateClear
    \/ SchedulerNext /\ UNCHANGED previous_wake

TaskServicesSpec == TaskServicesInit /\ [][TaskServicesNext]_taskServicesVars

-----------------------------------------------------------------------------
\* A notification is not lost between the check of a task and its going to wait,
\* nor while the scheduler is suspended: a task whose notification has arrived
\* does not sleep on until its timeout (tasks.c:4415-4556, 4563-4874).
NotifiedTaskRuns ==
    \A t \in Alive : kernel.notify[t] = "received" /\ pc[t] \in {"take", "wait"} =>
        (t \notin Range(kernel.delayed \o kernel.overflow) \/ Contains(kernel.pending, t))

\* The ticks a task still sleeps, unless it is woken already.
SleepLeft(t) ==
    IF t \in Range(kernel.delayed \o kernel.overflow) \ Range(kernel.pending)
    THEN Elapsed(kernel.tick, kernel.wake[t])
    ELSE 0

\* The delays do what Sleepers promises.
Delays ==
    INSTANCE Sleepers WITH
        Sleeper <- Tasks, MaxSleep <- MaxDelay, left <- [t \in Tasks |-> SleepLeft(t)]
SleepsOnTime == Delays!Spec
=============================================================================
