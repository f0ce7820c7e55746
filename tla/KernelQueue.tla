---------------------------- MODULE KernelQueue ----------------------------
(***************************************************************************)
(* A queue, a counting semaphore or a mutex of the kernel                  *)
(* (tiva_tm4c/FreeRTOS/queue.c), used by tasks and by interrupts, on the   *)
(* scheduler it blocks and wakes the tasks with.  A call of a task is a    *)
(* sequence of steps, each a critical section or code that the suspended   *)
(* scheduler and the locked queue protect.                                 *)
(***************************************************************************)
EXTENDS TaskServices, QueueBuffer

CONSTANTS
    QueueShapes,     \* the kind and the length of the object
    QueueBlockTimes, \* the block times asked for
    Masked,          \* whether critical sections hold the interrupts off
    MaxLocked,       \* bound: the interrupts that find the queue locked
    Nobody           \* no holder of the mutex

ASSUME KernelQueueAssumption ==
    /\ QueueShapes \subseteq Shapes /\ QueueBlockTimes \subseteq Ticks
    /\ Masked \in BOOLEAN /\ MaxLocked \in Nat /\ Nobody \notin Tasks
    /\ {"toSend", "toReceive"} \subseteq Objects

VARIABLES
    buffer,  \* the storage
    rx_lock, \* cRxLock: what interrupts received since the queue was locked, or
             \* Unlocked
    tx_lock, \* cTxLock: what they sent
    holder,  \* pxMutexHolder
    call     \* the call each task is in

queueVars == <<buffer, rx_lock, tx_lock, holder, call>>
kernelQueueVars == <<taskServicesVars, queueVars>>

Unlocked == -1

\* What a call still waits, whether it has a time-out state (xEntryTimeSet), what
\* ends its turn with the queue locked, and the messages it has counted.
CallOf(op, item, wait) ==
    [op |-> op, item |-> item, wait |-> wait, timed |-> FALSE,
     outcome |-> "none", loaded |-> 0, inherited |-> FALSE]

NoCall == CallOf("none", Token, 0)

Senders == {"back", "front", "over"}
Receivers == {"receive", "peek"}

KernelQueueTypeOK ==
    /\ TaskServicesTypeOK
    /\ IsBuffer(buffer)
    /\ rx_lock \in {Unlocked} \cup Nat /\ tx_lock \in {Unlocked} \cup Nat
    /\ holder \in Tasks \cup {Nobody}
    /\ call \in [Tasks -> [op : {"none"} \cup Senders \cup Receivers, item : Items,
                           wait : Ticks, timed : BOOLEAN,
                           outcome : {"none", "placed", "again", "expired"},
                           loaded : 0..buffer.length, inherited : BOOLEAN]]

\* prvInitialiseNewQueue, and prvInitialiseMutex, which gives the mutex.
KernelQueueInit ==
    /\ TaskServicesInit
    /\ \E shape \in QueueShapes :
          buffer = IF shape.kind = "mutex" THEN CopyToBack(Empty(shape), Token) ELSE Empty(shape)
    /\ rx_lock = Unlocked /\ tx_lock = Unlocked /\ holder = Nobody
    /\ call = [t \in Tasks |-> NoCall]

Mine == call[kernel.current]
MyCall(c) == call' = [call EXCEPT ![kernel.current] = c]

\* The end of a call: its time-out state and the rest of it are no more.
Returns(k) ==
    /\ Goes([k EXCEPT !.entered[k.current] = 0, !.wrapped[k.current] = TRUE], "run")
    /\ MyCall(NoCall)

IsMutex == buffer.kind = "mutex"
IsFull == buffer.messages = buffer.length
IsEmpty == buffer.messages = 0

-----------------------------------------------------------------------------
\* The task that waits first on the list goes on; a task yields to it if it is of
\* a higher priority, an interrupt only if it is told to look.
Wake(k, list) == IF k.waiting[list] = <<>> THEN k ELSE RemoveFromEventList(k, list)
WakeHigher(k, list) == k.waiting[list] /= <<>> /\ WakesHigher(k, list)
WakeAndYield(k, list) == YieldingIf(Wake(k, list), WakeHigher(k, list))

\* The mutex holder's priority becomes p: a holder that is ready moves to the ready
\* list of p, one that waits keeps its place on its event list.
WithPriority(k, t, p) ==
    LET ready == t \in Members(k.ready[k.priority[t]])
        set == [k EXCEPT !.priority[t] = p, !.order[t] = MaxPriorities - p]
    IN  IF ready
        THEN AddTaskToReadyList([set EXCEPT !.ready[k.priority[t]] = RemoveItem(@, t)], t)
        ELSE set

\* xTaskPriorityInherit, and its result
PriorityInherit(k) ==
    IF holder /= Nobody /\ k.priority[holder] < k.priority[k.current]
    THEN WithPriority(k, holder, k.priority[k.current])
    ELSE k
Inherits(k) == holder /= Nobody /\ k.base[holder] < k.priority[k.current]

\* xTaskPriorityDisinherit, of the current task; a task holds no other mutex.
PriorityDisinherit(k) ==
    IF k.priority[k.current] /= k.base[k.current]
    THEN WithPriority(k, k.current, k.base[k.current])
    ELSE k

\* Mutant: the holder keeps the priority.
DisinheritAfterTimeoutNot(k) == k

\* prvGetDisinheritPriorityAfterTimeout and vTaskPriorityDisinheritAfterTimeout
DisinheritAfterTimeout(k) ==
    LET waiting == k.waiting["toReceive"]
        highest == IF waiting = <<>> THEN 0 ELSE MaxPriorities - k.order[Head(waiting)]
        p == Max({highest, k.base[holder]})
    IN  IF holder /= Nobody /\ k.priority[holder] /= p THEN WithPriority(k, holder, p) ELSE k

-----------------------------------------------------------------------------
\* A task calls.  xSemaphoreGive does not wait, and only its holder gives a mutex,
\* and does not take it again.
Calls ==
    /\ At("run") /\ kernel.current \in Users
    /\ \E wait \in QueueBlockTimes, op \in Senders \cup Receivers, item \in Items :
          /\ buffer.kind /= "queue" \/ op \in Receivers => item = Token
          /\ buffer.kind /= "queue" => op \in {"back", "receive"}
          /\ op = "over" => buffer.length = 1
          /\ buffer.kind /= "queue" /\ op = "back" => wait = 0
          /\ IsMutex => (op = "back" <=> holder = kernel.current)
          /\ MyCall(CallOf(op, item, wait))
    /\ Goes(kernel, "try")
    /\ UNCHANGED <<masked, buffer, rx_lock, tx_lock, holder>>

Copied(b, c) ==
    CASE c.op = "back" -> CopyToBack(b, c.item)
      [] c.op = "front" -> CopyToFront(b, c.item)
      [] c.op = "over" -> CopyOver(b, c.item)

\* xQueueGenericSend: the critical section that finds room.  One that gives a
\* mutex falls back to its own priority.
Sends ==
    /\ At("try") /\ Mine.op \in Senders
    /\ ~ IsFull \/ Mine.op = "over"
    /\ buffer' = Copied(buffer, Mine)
    /\ LET k == IF IsMutex THEN PriorityDisinherit(kernel) ELSE kernel
       IN  Returns(IF k.waiting["toReceive"] = <<>> THEN YieldingIf(k, k /= kernel)
                   ELSE WakeAndYield(k, "toReceive"))
    /\ holder' = IF IsMutex THEN Nobody ELSE holder
    /\ UNCHANGED <<masked, rx_lock, tx_lock>>

\* xQueueReceive, xQueueSemaphoreTake and xQueuePeek: the critical section that
\* finds a message, from its reading of the count ...
Counts ==
    /\ At("try") /\ Mine.op \in Receivers /\ ~ IsEmpty
    /\ masked' = TRUE
    /\ MyCall([Mine EXCEPT !.loaded = buffer.messages])
    /\ Goes(kernel, "found")
    /\ UNCHANGED <<buffer, rx_lock, tx_lock, holder>>

\* ... to its end: a message received makes room for a sender, one only peeked at
\* is left for another receiver.
Receives ==
    /\ Is("found") /\ Mine.op = "receive"
    /\ buffer' = CopyFrom(buffer, Mine.loaded - 1)
    /\ holder' = IF IsMutex THEN kernel.current ELSE holder
    /\ masked' = FALSE
    /\ Returns(WakeAndYield(kernel, "toSend"))
    /\ UNCHANGED <<rx_lock, tx_lock>>

Peeks ==
    /\ Is("found") /\ Mine.op = "peek"
    /\ masked' = FALSE
    /\ Returns(WakeAndYield(kernel, "toReceive"))
    /\ UNCHANGED <<buffer, rx_lock, tx_lock, holder>>

Obstructed == IF Mine.op \in Senders THEN IsFull /\ Mine.op /= "over" ELSE IsEmpty

\* The critical section that finds neither, for a call that does not wait ...
GivesUp ==
    /\ At("try") /\ Obstructed /\ Mine.wait = 0
    /\ Returns(kernel)
    /\ UNCHANGED <<masked, buffer, rx_lock, tx_lock, holder>>

\* ... and for one that does.
StartsToWait ==
    /\ At("try") /\ Obstructed /\ Mine.wait > 0
    /\ Goes(IF Mine.timed THEN kernel ELSE SetTimeOutState(kernel), "blocking")
    /\ MyCall([Mine EXCEPT !.timed = TRUE])
    /\ UNCHANGED <<masked, buffer, rx_lock, tx_lock, holder>>

\* vTaskSuspendAll
Suspends == Step("blocking", SuspendAll(kernel), "lock") /\ UNCHANGED queueVars

\* The block time that xTaskCheckForTimeOut leaves of one that is over: nothing,
\* but what it was if the tick count has come all the way round.
AfterTimeOut(wait) == IF WentRound(kernel) THEN wait ELSE 0

\* prvLockQueue and xTaskCheckForTimeOut, which no interrupt disturbs: the tick
\* count stands still.
Locks ==
    /\ At("lock")
    /\ rx_lock' = Max({rx_lock, 0}) /\ tx_lock' = Max({tx_lock, 0})
    /\ IF TimedOut(kernel, Mine.wait)
       THEN /\ Goes(kernel, "unlock")
            /\ MyCall([Mine EXCEPT !.outcome = "expired", !.wait = AfterTimeOut(@)])
       ELSE /\ Goes(IF Mine.wait = MaxDelay THEN kernel ELSE SetTimeOutState(kernel), "look")
            /\ MyCall([Mine EXCEPT !.wait = Remaining(kernel, @)])
    /\ UNCHANGED <<masked, buffer, holder>>

\* prvIsQueueFull or prvIsQueueEmpty, and vTaskPlaceOnEventList.  One that waits
\* for a mutex lends its priority to the holder.
Blocked(k) == PlaceOnEventList(k, IF Mine.op \in Senders THEN "toSend" ELSE "toReceive", Mine.wait)

Looks ==
    /\ At("look")
    /\ IF Obstructed
       THEN /\ Goes(Blocked(IF IsMutex THEN PriorityInherit(kernel) ELSE kernel), "unlock")
            /\ MyCall([Mine EXCEPT !.outcome = "placed",
                                   !.inherited = IF IsMutex THEN Inherits(kernel) ELSE @])
       ELSE Goes(kernel, "unlock") /\ MyCall([Mine EXCEPT !.outcome = "again"])
    /\ UNCHANGED <<masked, buffer, rx_lock, tx_lock, holder>>

\* Mutant: one message too few.
WakeSomeButOne(k, list, n) ==
    LET woken == SubSeq(k.waiting[list], 1, Min({n - 1, Len(k.waiting[list])}))
    IN  [k EXCEPT !.waiting[list] = SubSeq(@, Len(woken) + 1, Len(@)),
                  !.pending = @ \o woken,
                  !.missed = @ \/ \E t \in Range(woken) : k.priority[t] > k.priority[k.current]]

\* What one loop of prvUnlockQueue does: it wakes a task for every message that
\* came or went, as long as there is one.
WakeSome(k, list, n) ==
    LET woken == SubSeq(k.waiting[list], 1, Min({n, Len(k.waiting[list])}))
    IN  [k EXCEPT !.waiting[list] = SubSeq(@, Len(woken) + 1, Len(@)),
                  !.pending = @ \o woken,
                  !.missed = @ \/ \E t \in Range(woken) : k.priority[t] > k.priority[k.current]]

\* prvUnlockQueue: its two critical sections.
UnlocksTx ==
    /\ Step("unlock", WakeSome(kernel, "toReceive", tx_lock), "unlock_rx")
    /\ tx_lock' = Unlocked /\ UNCHANGED <<buffer, rx_lock, holder, call>>

UnlocksRx ==
    /\ Step("unlock_rx", WakeSome(kernel, "toSend", rx_lock), "resume")
    /\ rx_lock' = Unlocked /\ UNCHANGED <<buffer, tx_lock, holder, call>>

\* xTaskResumeAll, with the yield of a task that is on an event list.
Resumes ==
    /\ UNCHANGED queueVars
    /\ \/ Mine.outcome = "placed" /\ ResumeAllAndYield("resume", "yield", "try")
       \/ Mine.outcome = "again" /\ ResumeAll("resume", "try")
       \/ Mine.outcome = "expired" /\ ResumeAll("resume", "late")

\* A call that has waited long enough: a receiver looks once more.
Expires ==
    /\ At("late")
    /\ IF Mine.op \in Receivers /\ ~ IsEmpty
       THEN Goes(kernel, "try") /\ UNCHANGED call
       ELSE Returns(IF Mine.inherited THEN DisinheritAfterTimeout(kernel) ELSE kernel)
    /\ UNCHANGED <<masked, buffer, rx_lock, tx_lock, holder>>

\* xQueueGenericReset of a queue in use
Resets ==
    /\ At("run") /\ kernel.current \in Users /\ buffer.kind = "queue"
    /\ buffer' = Empty(buffer)
    /\ rx_lock' = Unlocked /\ tx_lock' = Unlocked
    /\ kernel' = WakeAndYield(kernel, "toSend")
    /\ UNCHANGED <<pc, masked, holder, call>>

-----------------------------------------------------------------------------
\* What an interrupt does for the first task that waits: nothing while the queue
\* is locked.  It yields if it is told to and the handler asks.
FromISR(list, lock, locked) ==
    /\ Masked => Interruptible
    /\ UNCHANGED <<pc, masked, holder, call>>
    /\ IF lock = Unlocked
       THEN /\ kernel' \in {Wake(kernel, list), WakeAndYield(kernel, list)}
            /\ UNCHANGED <<rx_lock, tx_lock>>
       ELSE lock < MaxLocked /\ locked /\ UNCHANGED kernel

\* xQueueGenericSendFromISR
SendFromISR ==
    /\ buffer.kind = "queue"
    /\ \E op \in Senders, item \in Items :
          /\ IF op = "over" THEN buffer.length = 1 ELSE ~ IsFull
          /\ buffer' = Copied(buffer, CallOf(op, item, 0))
    /\ FromISR("toReceive", tx_lock, tx_lock' = tx_lock + 1 /\ UNCHANGED rx_lock)

\* xQueueGiveFromISR
GiveFromISR ==
    /\ buffer.kind = "semaphore" /\ ~ IsFull
    /\ buffer' = CopyToBack(buffer, Token)
    /\ FromISR("toReceive", tx_lock, tx_lock' = tx_lock + 1 /\ UNCHANGED rx_lock)

\* xQueueReceiveFromISR
ReceiveFromISR ==
    /\ ~ IsMutex /\ ~ IsEmpty
    /\ buffer' = CopyFrom(buffer, buffer.messages - 1)
    /\ FromISR("toSend", rx_lock, rx_lock' = rx_lock + 1 /\ UNCHANGED tx_lock)

-----------------------------------------------------------------------------
CallSteps ==
    \/ Calls \/ Sends \/ Counts \/ Receives \/ Peeks \/ GivesUp \/ StartsToWait
    \/ Suspends \/ Locks \/ Looks \/ UnlocksTx \/ UnlocksRx \/ Resumes \/ Expires \/ Resets
    \/ SendFromISR \/ GiveFromISR \/ ReceiveFromISR

\* Beside their calls, the tasks delay themselves.
KernelQueueNext ==
    \/ CallSteps /\ UNCHANGED previous_wake
    \/ vTaskDelay /\ UNCHANGED queueVars
    \/ SchedulerNext /\ UNCHANGED <<previous_wake, queueVars>>

KernelQueueSpec == KernelQueueInit /\ [][KernelQueueNext]_kernelQueueVars

-----------------------------------------------------------------------------
\* Tasks that are in a call of the kind and not blocked in it.
OnTheirWay(ops, list) ==
    {t \in Tasks : call[t].op \in ops /\ ~ Contains(kernel.waiting[list], t)}

QueueUnlocked == rx_lock = Unlocked /\ tx_lock = Unlocked

\* While a task waits for a message that has come, another receiver is on its way
\* (queue.c:1205-1378, 2137-2186).
NoReceiverForgotten ==
    QueueUnlocked /\ kernel.waiting["toReceive"] /= <<>> /\ ~ IsEmpty =>
        OnTheirWay(Receivers, "toReceive") /= {}

\* While a task waits for room that there is, another sender is on its way
\* (queue.c:725-944, 2188-2254).
NoSenderForgotten ==
    QueueUnlocked /\ kernel.waiting["toSend"] /= <<>> /\ ~ IsFull =>
        OnTheirWay(Senders, "toSend") /= {}

\* No wake-up is lost, neither between the check of a queue and the task's getting
\* on its event list, nor while interrupts find the queue locked: when a task
\* waits for what the queue has, another is on its way to it (queue.c:725-1378,
\* 2137-2254).
NoWakeUpLost == NoReceiverForgotten /\ NoSenderForgotten

\* A mutex has a holder or is available; its holder runs at the priority of the
\* highest task that waits for it, and a task that holds none at its own, however
\* waiting tasks time out or take over (queue.c:1524-1580, tasks.c:3801-4063).
PriorityIsInherited ==
    IsMutex =>
        /\ (~ masked => (IsEmpty <=> holder /= Nobody))
        /\ \A t \in Tasks \ {holder} : kernel.priority[t] = kernel.base[t]
        /\ holder /= Nobody =>
              \A t \in Range(kernel.waiting["toReceive"]) :
                  kernel.priority[holder] >= kernel.priority[t]
        /\ holder /= Nobody /\ kernel.priority[holder] /= kernel.base[holder] =>
              \E t \in Tasks : call[t].inherited /\ kernel.base[t] = kernel.priority[holder]

\* The queue does what AtomicQueue promises.
Promised ==
    INSTANCE AtomicQueue WITH
        contents <- Contents(buffer), limit <- buffer.length,
        resettable <- (buffer.kind = "queue")
FirstInFirstOut == Promised!Spec
=============================================================================
