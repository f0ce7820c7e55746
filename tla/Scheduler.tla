----------------------------- MODULE Scheduler -----------------------------
(***************************************************************************)
(* The scheduler of the kernel (tiva_tm4c/FreeRTOS/tasks.c, with the       *)
(* configuration of FreeRTOSConfig.h: preemption, time slicing, suspension *)
(* and deletion of tasks, no tickless idle, no hooks).                     *)
(*                                                                         *)
(* The state of the kernel is one record, so that the functions the        *)
(* services are built from can be operators on it.  A step of a task is a  *)
(* critical section, or code that runs with the scheduler suspended;       *)
(* between two of them interrupts and, unless the scheduler is suspended,  *)
(* other tasks run.                                                        *)
(***************************************************************************)
EXTENDS TickCount, Lists, FiniteSetsExt

CONSTANTS
    First,          \* the ready lists when the scheduler starts: for each priority
                    \* the tasks main() created, in their order, and the idle task
    Idle,           \* the idle task
    MaxPriorities,  \* configMAX_PRIORITIES
    Objects,        \* the objects with an event list
    MaxPended       \* bound: ticks while the scheduler is suspended

Priorities == 0..(MaxPriorities - 1)

Tasks == UNION {Range(First[p]) : p \in Priorities}
Users == Tasks \ {Idle}

ASSUME SchedulerAssumption ==
    /\ MaxPriorities \in Nat \ {0} /\ MaxPended \in Nat
    /\ \A p \in Priorities : First[p] \in Seq(Tasks) /\ IsInjective(First[p])
    /\ \A p, q \in Priorities : p /= q => Range(First[p]) \cap Range(First[q]) = {}
    /\ Idle \in Range(First[0])

VARIABLES
    kernel,  \* the data of tasks.c
    pc,      \* where each task is
    masked   \* whether the current task is in the critical section of xTaskResumeAll

schedulerVars == <<kernel, pc, masked>>

(***************************************************************************)
(* current      pxCurrentTCB                                               *)
(* ready        pxReadyTasksLists                                          *)
(* delayed      pxDelayedTaskList, and overflow pxOverflowDelayedTaskList  *)
(* suspended    xSuspendedTaskList: suspended, or blocked for ever         *)
(* pending      xPendingReadyList                                          *)
(* terminating  xTasksWaitingTermination                                   *)
(* waiting      the event list of each object                              *)
(* priority     uxPriority, and base uxBasePriority                        *)
(* wake         the value of xStateListItem, 0 outside the delayed lists,  *)
(*              and order that of xEventListItem                           *)
(* notify       ucNotifyState, and value ulNotifiedValue                   *)
(* tick         xTickCount, unblock xNextTaskUnblockTime, pended           *)
(*              uxPendedTicks, locked uxSchedulerSuspended, missed         *)
(*              xYieldPending, top uxTopReadyPriority                      *)
(* entered      the TimeOut_t of the call each task is in: xTimeOnEntering *)
(*              and, as wrapped, whether xNumOfOverflows has changed since *)
(* pendsv       whether PendSV is pending, which switches the context      *)
(* ticking      whether xTaskIncrementTick is in its loop                  *)
(***************************************************************************)
Kernels ==
    [current : Tasks,
     ready : [Priorities -> [items : Seq(Tasks), index : Nat]],
     delayed : Seq(Tasks), overflow : Seq(Tasks), pending : Seq(Tasks),
     suspended : SUBSET Tasks, terminating : SUBSET Tasks,
     waiting : [Objects -> Seq(Tasks)],
     priority : [Tasks -> Priorities], base : [Tasks -> Priorities],
     wake : [Tasks -> Ticks], order : [Tasks -> Nat],
     notify : [Tasks -> {"not_waiting", "waiting", "received"}], value : [Tasks -> Nat],
     tick : Ticks, unblock : Ticks, pended : Nat, locked : Nat, missed : BOOLEAN,
     top : Priorities,
     entered : [Tasks -> Ticks], wrapped : [Tasks -> BOOLEAN],
     pendsv : BOOLEAN, ticking : BOOLEAN]

KernelTypeOK == kernel \in Kernels /\ masked \in BOOLEAN

-----------------------------------------------------------------------------
\* prvAddTaskToReadyList
AddTaskToReadyList(k, t) ==
    [k EXCEPT !.ready[k.priority[t]] = InsertEnd(@, t),
              !.top = IF @ < k.priority[t] THEN k.priority[t] ELSE @]

\* Mutant: the overflow list is left out.
DetachedButOverflow(k, t) ==
    [k EXCEPT !.ready = [p \in Priorities |-> RemoveItem(@[p], t)],
              !.delayed = Without(@, t),
              !.wake[t] = 0,
              !.suspended = @ \ {t},
              !.terminating = @ \ {t}]

\* uxListRemove of the state list item of t.
Detached(k, t) ==
    [k EXCEPT !.ready = [p \in Priorities |-> RemoveItem(@[p], t)],
              !.delayed = Without(@, t),
              !.overflow = Without(@, t),
              !.wake[t] = 0,
              !.suspended = @ \ {t},
              !.terminating = @ \ {t}]

\* uxListRemove of its event list item, if it is on a list.
EventDetached(k, t) ==
    [k EXCEPT !.waiting = [o \in Objects |-> Without(@[o], t)],
              !.pending = Without(@, t)]

\* taskSELECT_HIGHEST_PRIORITY_TASK
SelectHighestPriorityTask(k) ==
    LET top == Max({p \in 0..k.top : k.ready[p].items /= <<>>})
    IN  [k EXCEPT !.current = NextEntry(k.ready[top]),
                  !.ready[top] = Advanced(@),
                  !.top = top]

\* vTaskSwitchContext
SwitchContext(k) ==
    IF k.locked > 0 THEN [k EXCEPT !.missed = TRUE]
    ELSE SelectHighestPriorityTask([k EXCEPT !.missed = FALSE])

\* A request for PendSV.
Yielding(k) == [k EXCEPT !.pendsv = TRUE]
YieldingIf(k, condition) == [k EXCEPT !.pendsv = @ \/ condition]

\* prvResetNextTaskUnblockTime
ResetNextTaskUnblockTime(k) ==
    [k EXCEPT !.unblock = IF k.delayed = <<>> THEN MaxDelay ELSE k.wake[Head(k.delayed)]]

\* Mutant: xNextTaskUnblockTime is not brought forward.
AddCurrentTaskToDelayedListOnly(k, ticks, can_block_indefinitely) ==
    LET t    == k.current
        wake == Later(k.tick, ticks)
        d    == [Detached(k, t) EXCEPT !.wake[t] = wake]
    IN  CASE ticks = MaxDelay /\ can_block_indefinitely ->
               [Detached(k, t) EXCEPT !.suspended = @ \cup {t}]
          [] ~ (ticks = MaxDelay /\ can_block_indefinitely) /\ wake < k.tick ->
               [d EXCEPT !.overflow = Insert(@, t, d.wake)]
          [] OTHER -> [d EXCEPT !.delayed = Insert(@, t, d.wake)]

\* prvAddCurrentTaskToDelayedList
AddCurrentTaskToDelayedList(k, ticks, can_block_indefinitely) ==
    LET t    == k.current
        wake == Later(k.tick, ticks)
        d    == [Detached(k, t) EXCEPT !.wake[t] = wake]
    IN  CASE ticks = MaxDelay /\ can_block_indefinitely ->
               [Detached(k, t) EXCEPT !.suspended = @ \cup {t}]
          [] ~ (ticks = MaxDelay /\ can_block_indefinitely) /\ wake < k.tick ->
               [d EXCEPT !.overflow = Insert(@, t, d.wake)]
          [] OTHER ->
               [d EXCEPT !.delayed = Insert(@, t, d.wake),
                         !.unblock = IF wake < @ THEN wake ELSE @]

-----------------------------------------------------------------------------
\* taskSWITCH_DELAYED_LISTS
SwitchDelayedLists(k) ==
    ResetNextTaskUnblockTime(
        [k EXCEPT !.delayed = k.overflow, !.overflow = k.delayed,
                  !.wrapped = [t \in Tasks |-> TRUE]])

\* Mutant: a task is due the tick after its time.
DueAfter(k) == k.delayed /= <<>> /\ k.wake[Head(k.delayed)] < k.tick

\* The time of the first task of the delayed list has come.
Due(k) == k.delayed /= <<>> /\ k.wake[Head(k.delayed)] <= k.tick

\* What a tick asks for: the interrupt yields, xTaskResumeAll remembers it.
AsksToSwitch(k, condition) ==
    IF masked THEN [k EXCEPT !.missed = @ \/ condition] ELSE YieldingIf(k, condition)

\* The time slice is over when another task of the same priority is ready.
Slices(k) ==
    AsksToSwitch(k, k.missed \/ ListLength(k.ready[k.priority[k.current]]) > 1)

Advance(k) ==
    LET next == [k EXCEPT !.tick = Later(@, 1)]
    IN  IF next.tick = 0 THEN SwitchDelayedLists(next) ELSE next

\* xTaskIncrementTick, up to its loop
IncrementTick(k) ==
    CASE k.locked > 0 -> AsksToSwitch([k EXCEPT !.pended = @ + 1], k.missed)
      [] k.locked = 0 /\ Advance(k).tick >= Advance(k).unblock ->
            [Advance(k) EXCEPT !.ticking = TRUE]
      [] OTHER -> Slices(Advance(k))

\* Mutants: the task stays on the list of its event; no switch is asked for.
UnblockFirstOnly(k) ==
    LET t == Head(k.delayed)
    IN  AsksToSwitch(AddTaskToReadyList(Detached(k, t), t),
                     k.priority[t] >= k.priority[k.current])

UnblockFirstQuietly(k) ==
    LET t == Head(k.delayed)
    IN  AddTaskToReadyList(EventDetached(Detached(k, t), t), t)

\* One round of the loop: a task that is due is ready.
UnblockFirst(k) ==
    LET t == Head(k.delayed)
    IN  AsksToSwitch(AddTaskToReadyList(EventDetached(Detached(k, t), t), t),
                     k.priority[t] >= k.priority[k.current])

\* Its end
EndTick(k) == Slices(ResetNextTaskUnblockTime([k EXCEPT !.ticking = FALSE]))

-----------------------------------------------------------------------------
\* vTaskPlaceOnEventList
PlaceOnEventList(k, object, ticks) ==
    AddCurrentTaskToDelayedList(
        [k EXCEPT !.waiting[object] = Insert(@, k.current, k.order)], ticks, TRUE)

\* xTaskRemoveFromEventList, for a list that is not empty.
RemoveFromEventList(k, object) ==
    LET t == Head(k.waiting[object])
        d == [EventDetached(k, t) EXCEPT !.missed = @ \/ k.priority[t] > k.priority[k.current]]
    IN  IF k.locked = 0
        THEN AddTaskToReadyList(Detached(d, t), t)
        ELSE [d EXCEPT !.pending = Append(@, t)]

\* Its result: the task removed has a higher priority than the current one.
WakesHigher(k, object) ==
    k.priority[Head(k.waiting[object])] > k.priority[k.current]

\* vTaskInternalSetTimeOutState
SetTimeOutState(k) ==
    [k EXCEPT !.entered[k.current] = k.tick, !.wrapped[k.current] = FALSE]

\* Whether the tick count has come all the way round since the call's time-out
\* state was set, and the result of xTaskCheckForTimeOut for a block time.
WentRound(k) == k.wrapped[k.current] /\ k.tick >= k.entered[k.current]

TimedOut(k, wait) ==
    wait /= MaxDelay /\ (WentRound(k) \/ Elapsed(k.entered[k.current], k.tick) >= wait)

\* The block time it leaves.
Remaining(k, wait) ==
    IF wait = MaxDelay THEN wait ELSE wait - Elapsed(k.entered[k.current], k.tick)

\* vTaskSuspendAll
SuspendAll(k) == [k EXCEPT !.locked = @ + 1]

\* One round of the first loop of xTaskResumeAll: a task that an interrupt has
\* readied meanwhile.
DrainPendingReadyList(k) ==
    LET t == Head(k.pending)
    IN  ResetNextTaskUnblockTime(AddTaskToReadyList(
            [EventDetached(Detached(k, t), t) EXCEPT
                !.missed = @ \/ k.priority[t] >= k.priority[k.current]], t))

\* One round of the second: a tick that occurred meanwhile.
ReplayTick(k) == IncrementTick([k EXCEPT !.pended = @ - 1])

-----------------------------------------------------------------------------
\* prvInitialiseTaskLists, prvAddNewTaskToReadyList and vTaskStartScheduler: of the
\* tasks of the highest priority, the one created last runs first.
FirstPriority == [t \in Tasks |-> CHOOSE p \in Priorities : t \in Range(First[p])]
FirstTop == Max({p \in Priorities : First[p] /= <<>>})

SchedulerInit ==
    /\ kernel = [current |-> Last(First[FirstTop]),
                 ready |-> [p \in Priorities |-> [items |-> First[p], index |-> 0]],
                 delayed |-> <<>>, overflow |-> <<>>, pending |-> <<>>,
                 suspended |-> {}, terminating |-> {},
                 waiting |-> [o \in Objects |-> <<>>],
                 priority |-> FirstPriority, base |-> FirstPriority,
                 wake |-> [t \in Tasks |-> 0],
                 order |-> [t \in Tasks |-> MaxPriorities - FirstPriority[t]],
                 notify |-> [t \in Tasks |-> "not_waiting"],
                 value |-> [t \in Tasks |-> 0],
                 tick |-> 0, unblock |-> MaxDelay, pended |-> 0, locked |-> 0,
                 missed |-> FALSE, top |-> FirstTop,
                 entered |-> [t \in Tasks |-> 0], wrapped |-> [t \in Tasks |-> TRUE],
                 pendsv |-> FALSE, ticking |-> FALSE]
    /\ pc = [t \in Tasks |-> IF t = Idle THEN "idle" ELSE "run"]
    /\ masked = FALSE

-----------------------------------------------------------------------------
\* Interrupts are not held off.
Interruptible == ~ masked /\ ~ kernel.ticking

\* The current task executes a step of its program at the label; PendSV, when it
\* is pending, comes first.
Is(label) == kernel.current \in Tasks /\ pc[kernel.current] = label
At(label) == Is(label) /\ Interruptible /\ ~ kernel.pendsv

\* It goes on at another label, with new data of the kernel.
Goes(k, label) == kernel' = k /\ pc' = [pc EXCEPT ![kernel.current] = label]

Step(from, k, to) == At(from) /\ Goes(k, to) /\ UNCHANGED masked

\* Mutants: without the ticks that were missed, and without the tasks readied.
ResumeAllNoTicks(from, to) ==
    /\ Is(from) /\ ~ kernel.pendsv /\ ~ kernel.ticking
    /\ \/ /\ ~ masked /\ masked' = TRUE
          /\ kernel' = [kernel EXCEPT !.locked = @ - 1] /\ UNCHANGED pc
       \/ /\ masked /\ kernel.pending /= <<>>
          /\ kernel' = DrainPendingReadyList(kernel) /\ UNCHANGED <<pc, masked>>
       \/ /\ masked /\ kernel.pending = <<>> /\ masked' = FALSE
          /\ Goes(YieldingIf(kernel, kernel.missed), to)

ResumeAllNoTasks(from, to) ==
    /\ Is(from) /\ ~ kernel.pendsv /\ ~ kernel.ticking
    /\ \/ /\ ~ masked /\ masked' = TRUE
          /\ kernel' = [kernel EXCEPT !.locked = @ - 1] /\ UNCHANGED pc
       \/ /\ masked /\ kernel.pended > 0
          /\ kernel' = ReplayTick(kernel) /\ UNCHANGED <<pc, masked>>
       \/ /\ masked /\ kernel.pended = 0 /\ masked' = FALSE
          /\ Goes(YieldingIf(kernel, kernel.missed), to)

\* xTaskResumeAll, with the interrupts masked, and the yield of its caller if it
\* has not yielded itself.
ResumeAll(from, to) ==
    /\ Is(from) /\ ~ kernel.pendsv /\ ~ kernel.ticking
    /\ \/ /\ ~ masked /\ masked' = TRUE
          /\ kernel' = [kernel EXCEPT !.locked = @ - 1] /\ UNCHANGED pc
       \/ /\ masked /\ kernel.pending /= <<>>
          /\ kernel' = DrainPendingReadyList(kernel) /\ UNCHANGED <<pc, masked>>
       \/ /\ masked /\ kernel.pending = <<>> /\ kernel.pended > 0
          /\ kernel' = ReplayTick(kernel) /\ UNCHANGED <<pc, masked>>
       \/ /\ masked /\ kernel.pending = <<>> /\ kernel.pended = 0 /\ masked' = FALSE
          /\ Goes(YieldingIf(kernel, kernel.missed), to)

\* The same with a yield of the caller, if it has not yielded itself.
ResumeAllAndYield(from, yield, to) ==
    \/ ResumeAll(from, IF kernel.missed THEN to ELSE yield)
    \/ Step(yield, Yielding(kernel), to)

\* prvIdleTask: it frees a task that has deleted itself and gives way to another
\* task of its priority.
IdleFrees ==
    /\ At("idle") /\ kernel.terminating /= {}
    /\ \E t \in kernel.terminating :
          kernel' = Detached(kernel, t) /\ pc' = [pc EXCEPT ![t] = "deleted"]
    /\ UNCHANGED masked

IdleYields ==
    /\ At("idle") /\ kernel.terminating = {} /\ ListLength(kernel.ready[0]) > 1
    /\ kernel' = Yielding(kernel)
    /\ UNCHANGED <<pc, masked>>

\* xPortSysTickHandler
SysTick ==
    /\ Interruptible /\ ~ kernel.pendsv /\ kernel.pended < MaxPended
    /\ kernel' = IncrementTick(kernel)
    /\ UNCHANGED <<pc, masked>>

\* The loop of xTaskIncrementTick, with the interrupts held off.
TickLoops ==
    /\ kernel.ticking
    /\ kernel' = IF Due(kernel) THEN UnblockFirst(kernel) ELSE EndTick(kernel)
    /\ UNCHANGED <<pc, masked>>

\* The handler of PendSV, of the lowest priority.
PendSV ==
    /\ kernel.pendsv /\ Interruptible
    /\ kernel' = [SwitchContext(kernel) EXCEPT !.pendsv = FALSE]
    /\ UNCHANGED <<pc, masked>>

SchedulerNext == IdleFrees \/ IdleYields \/ SysTick \/ TickLoops \/ PendSV

-----------------------------------------------------------------------------
Live == {t \in Tasks : pc[t] /= "deleted"}

\* Where the state list item of a task may be.
Places(t) ==
    {<<"ready", p>> : p \in {q \in Priorities : t \in Members(kernel.ready[q])}}
        \cup {<<l, 0>> : l \in {m \in {"delayed", "overflow"} : Contains(kernel[m], t)}}
        \cup {<<l, 0>> : l \in {m \in {"suspended", "terminating"} : t \in kernel[m]}}

EventPlaces(t) ==
    {o \in Objects : Contains(kernel.waiting[o], t)}
        \cup {l \in {"pending"} : Contains(kernel.pending, t)}

\* Every task is in one list, in the ready list of its priority if it is ready,
\* its event in at most one, and no list holds a task twice: services and
\* interrupts that move the same task, some through xPendingReadyList, never
\* leave an item linked into two rings (tasks.c:330-352).
OneListEach ==
    /\ \A t \in Live :
          /\ Cardinality(Places(t)) = 1
          /\ \A p \in Priorities : <<"ready", p>> \in Places(t) => p = kernel.priority[t]
          /\ Cardinality(EventPlaces(t)) <= 1
    /\ \A p \in Priorities : IsInjective(kernel.ready[p].items)
    /\ IsInjective(kernel.delayed) /\ IsInjective(kernel.overflow)
    /\ IsInjective(kernel.pending)
    /\ \A o \in Objects : IsInjective(kernel.waiting[o])

\* Nothing is left for the scheduler's resumption when it is not suspended: no
\* task stays in xPendingReadyList, and no tick uncounted (tasks.c:2105-2212).
NothingPending ==
    kernel.locked = 0 /\ ~ masked => kernel.pending = <<>> /\ kernel.pended = 0

\* The task that executes is of the highest priority ready, unless a switch is
\* pending or the scheduler suspended; a switch that an interrupt has only
\* recorded (xYieldPending) is pending until the next tick (tasks.c:2851-2907).
HighestPriorityRuns ==
    kernel.locked = 0 /\ Interruptible /\ ~ kernel.pendsv /\ ~ kernel.missed =>
        \A p \in Priorities :
            kernel.ready[p].items /= <<>> => p <= kernel.priority[kernel.current]

\* uxTopReadyPriority is never below the priority of a ready task, where
\* taskSELECT_HIGHEST_PRIORITY_TASK starts to look (tasks.c:142-166).
TopIsHighest ==
    \A p \in Priorities : kernel.ready[p].items /= <<>> => p <= kernel.top

\* A delayed task is found when its tick comes: the delayed list is sorted, what
\* is in it is still to come before the tick count wraps, what is in the overflow
\* list after it, and xNextTaskUnblockTime is not later than the first of them
\* (tasks.c:215-227, 2589-2757, 4912-5020).
DelaysInOrder ==
    /\ \A i, j \in DOMAIN kernel.delayed :
          i < j => kernel.wake[kernel.delayed[i]] <= kernel.wake[kernel.delayed[j]]
    /\ ~ kernel.ticking =>
          \A t \in Range(kernel.delayed) :
              kernel.tick < kernel.wake[t] /\ kernel.unblock <= kernel.wake[t]
    /\ \A t \in Range(kernel.overflow) : kernel.wake[t] < kernel.tick
=============================================================================
