-------------------------- MODULE TaskServicesProofs --------------------------
(***************************************************************************)
(* The services of tasks.c keep the lists of the kernel sound, run the     *)
(* highest priority and wake every delayed task on its tick, whatever the  *)
(* tasks and the interrupts ask for and in whatever order.  The tick count *)
(* agrees with the scheduler and with the timer task, and the timer task   *)
(* calls every software timer back in its time.                            *)
(***************************************************************************)
EXTENDS TaskServices, SoftwareTimers, SchedulerProofs

\* The labels, and those of a task that has suspended the scheduler.
Labels ==
    {"idle", "run", "delay", "delay_until", "delay_resume", "delay_yield", "suspend",
     "suspend_self", "suspend_yield", "delete_yield", "take", "wait", "deleted"}
Locking == {"delay", "delay_until"}
LockLabels == Locking \cup {"delay_resume"}

PcOK ==
    /\ pc \in [Tasks -> Labels] /\ masked \in BOOLEAN /\ previous_wake \in [Tasks -> Ticks]
    /\ \A t \in Tasks : pc[t] = "idle" <=> t = Idle

\* A task is in no list exactly when it is deleted; one to be freed waits for that.
LinkedOK ==
    /\ \A t \in Tasks : Linked(kernel, t) <=> pc[t] /= "deleted"
    /\ \A t \in kernel.terminating : pc[t] = "delete_yield"
    /\ pc[kernel.current] /= "deleted"
    /\ Ready(kernel, Idle)

\* What an interrupt has readied while the scheduler was suspended.
PendingOK ==
    \A t \in Range(kernel.pending) :
        t \in Users /\ kernel.notify[t] /= "waiting" /\ pc[t] /= "deleted"

\* The scheduler is suspended by the current task only.
LockedOK ==
    /\ kernel.locked = IF pc[kernel.current] \in Locking
                             \/ (pc[kernel.current] = "delay_resume" /\ ~ masked)
                       THEN 1 ELSE 0
    /\ \A t \in Tasks : pc[t] \in LockLabels => t = kernel.current
    /\ masked => pc[kernel.current] = "delay_resume"
    /\ kernel.ticking => kernel.locked = 0

\* A task that sleeps until a notification comes can be found waiting.
WaitingOK ==
    \A t \in Tasks :
        pc[t] \in {"take", "wait"} /\ t \in Sleeping(kernel) /\ t \notin Range(kernel.pending) =>
            kernel.notify[t] = "waiting"

\* The current task sleeps only if it is about to give way.
AsleepOK ==
    kernel.current \in Sleeping(kernel) =>
        \/ pc[kernel.current] \in {"delay_resume", "delay_yield"}
        \/ kernel.pendsv /\ kernel.locked = 0

ControlOK == PcOK /\ LinkedOK /\ PendingOK /\ LockedOK /\ NothingPending /\ WaitingOK /\ AsleepOK

\* The inductive invariant.
ServicesInv == Good({}, kernel) /\ Runs(kernel) /\ ControlOK

-----------------------------------------------------------------------------
\* A task in no list waits to be freed.
PutToTerminating(k, t) == [k EXCEPT !.terminating = @ \cup {t}]

LEMMA TerminatedIs ==
    ASSUME NEW k, Good({}, k), NEW t \in Tasks, ~ Linked(k, t)
    PROVE  LET s == PutToTerminating(k, t)
           IN  /\ Good({}, s)
               /\ \A u \in Tasks : Linked(s, u) <=> Linked(k, u) \/ u = t
               /\ Served(k) => Served(s)
               /\ Sleeping(s) = Sleeping(k) /\ s.wake = k.wake
               /\ s.terminating = k.terminating \cup {t}
               /\ Framed(s, k) /\ s.pending = k.pending
               /\ \A u : OthersReady(s, k, u)
<1> DEFINE s == PutToTerminating(k, t)
<1>1. k \in Kernels /\ ListsOK({}, k) /\ Apart(k) /\ Top(k) /\ DelaysOK(k)
  BY DEF Good, Sound
<1>2. /\ s.ready = k.ready /\ s.delayed = k.delayed /\ s.overflow = k.overflow
      /\ s.pending = k.pending /\ s.suspended = k.suspended
      /\ s.terminating = k.terminating \cup {t}
      /\ s.waiting = k.waiting /\ s.priority = k.priority /\ s.wake = k.wake
      /\ s.current = k.current /\ s.top = k.top /\ s.tick = k.tick /\ s.unblock = k.unblock
      /\ s.ticking = k.ticking
  BY <1>1 DEF Kernels, PutToTerminating
<1>3. s \in Kernels
  BY <1>1 DEF Kernels, PutToTerminating
<1> HIDE DEF s
<1>4. ListsOK({}, s) /\ Top(s) /\ DelaysOK(s)
  BY <1>1, <1>2 DEF ListsOK, Top, DelaysOK
<1>5. Apart(s)
  <2>1. /\ \A p \in Priorities : t \notin Range(k.ready[p].items)
        /\ t \notin Range(k.delayed) /\ t \notin Range(k.overflow) /\ t \notin k.suspended
    BY DEF Linked
  <2> QED
    BY <1>1, <1>2, <2>1 DEF Apart
<1>6. \A u \in Tasks : Linked(s, u) <=> Linked(k, u) \/ u = t
  BY <1>2 DEF Linked
<1>7. (Served(k) => Served(s)) /\ Sleeping(s) = Sleeping(k)
  BY <1>2 DEF Served, Sleeping
<1>8. Framed(s, k)
  BY <1>1 DEF Framed, Kernels, PutToTerminating, s
<1>9. \A u : OthersReady(s, k, u)
  BY <1>2 DEF OthersReady, Ready
<1> QED
  BY <1>2, <1>3, <1>4, <1>5, <1>6, <1>7, <1>8, <1>9 DEF Good, Sound, s

\* Whether vTaskPrioritySet asks for a switch.
PriorityYields(k, t, new) ==
    IF new > k.base[t]
    THEN t /= k.current /\ new >= k.priority[k.current]
    ELSE t = k.current

\* vTaskPrioritySet keeps the task in its list, or moves it to the ready list of its
\* new priority, and asks for a switch when it has to.
LEMMA ReprioritisedIs ==
    ASSUME NEW k, Good({}, k), NEW t \in Tasks, NEW new \in Priorities, new /= k.base[t]
    PROVE  LET a == Reprioritised(k, t, new)
           IN  /\ Good({}, a)
               /\ \A u \in Tasks : Linked(a, u) <=> Linked(k, u)
               /\ Served(k) /\ ~ PriorityYields(k, t, new) => Served(a)
               /\ a.current = k.current /\ a.notify = k.notify /\ a.value = k.value
               /\ a.tick = k.tick /\ a.pended = k.pended /\ a.locked = k.locked
               /\ a.missed = k.missed /\ a.pendsv = k.pendsv /\ a.ticking = k.ticking
               /\ a.pending = k.pending
               /\ Sleeping(a) = Sleeping(k) /\ a.wake = k.wake /\ a.terminating = k.terminating
               /\ \A u : OthersReady(a, k, u)
<1> DEFINE old == k.priority[t]
           n == IF k.base[t] = old THEN new ELSE old
           o == MaxPriorities - new
           d == TakeFromReady(k, t)
           s == SetPriority(d, t, n, new, o)
           r == SetPriority(k, t, n, new, o)
<1>1. /\ k \in Kernels /\ ListsOK({}, k) /\ Apart(k)
      /\ k.priority \in [Tasks -> Priorities] /\ k.base \in [Tasks -> Priorities]
      /\ k.current \in Tasks
  BY DEF Good, Sound, Kernels
<1>2. old \in Priorities /\ n \in Priorities /\ o \in Nat
  BY <1>1, SchedulerAssumption DEF Priorities
<1>3. IF t \in Members(k.ready[old]) THEN Reprioritised(k, t, new) = AddTaskToReadyList(s, t)
      ELSE Reprioritised(k, t, new) = r
  <2>1. [[k EXCEPT !.priority[t] = n, !.base[t] = new, !.order[t] = o]
            EXCEPT !.ready[old] = RemoveItem(@, t)] = s
    BY <1>1, <1>2 DEF Kernels, TakeFromReady, SetPriority
  <2>2. [k EXCEPT !.priority[t] = IF k.base[t] = old THEN new ELSE @,
                  !.base[t] = new, !.order[t] = o] = r
    BY <1>1 DEF Kernels, SetPriority
  <2>3. [k EXCEPT !.priority[t] = IF k.base[t] = old THEN new ELSE @,
                  !.base[t] = new, !.order[t] = o]
          = [k EXCEPT !.priority[t] = n, !.base[t] = new, !.order[t] = o]
    BY <1>1 DEF Kernels
  <2> HIDE DEF s, r, n
  <2> QED
    BY <2>1, <2>2, <2>3 DEF Reprioritised
\* What the comparisons of vTaskPrioritySet leave.
<1>4. ASSUME Served(k), ~ PriorityYields(k, t, new)
      PROVE  StaysServed(k, t, n)
  <2>1. old \in Nat /\ new \in Nat /\ k.base[t] \in Nat /\ k.priority[k.current] \in Nat
    BY <1>1, <1>2, PrioritiesAre
  <2>2. t = k.current => new > k.base[t]
    BY <1>4, <2>1 DEF PriorityYields
  <2>3. t /= k.current => ~ (new > k.base[t]) \/ new < k.priority[k.current]
    BY <1>4, <2>1 DEF PriorityYields
  <2>4. Ready(k, t) => old <= k.priority[k.current]
    <3> SUFFICES ASSUME NEW p \in Priorities, t \in Range(k.ready[p].items)
                 PROVE  old <= k.priority[k.current]
      BY DEF Ready
    <3>1. p = old /\ k.ready[p].items /= <<>>
      BY <1>1 DEF Apart, Range
    <3> QED
      BY <1>2, <1>4, <3>1 DEF Served
  <2> QED
    BY <2>1, <2>2, <2>3, <2>4 DEF StaysServed
<1> HIDE DEF s, r, d, n, o
<1>5. Reprioritised(k, t, new) = Moved(k, t, n, new, o)
  BY <1>3 DEF Moved, s, r, d
<1> DEFINE a == Moved(k, t, n, new, o)
<1>6. Good({}, a)
  BY <1>2, MovedIs
<1>7. \A u \in Tasks : Linked(a, u) <=> Linked(k, u)
  BY <1>2, MovedIs
<1>8. Served(k) /\ StaysServed(k, t, n) => Served(a)
  BY <1>2, MovedIs
<1>9. StaysPut(a, k)
  BY <1>2, MovedIs
<1>10. \A u : OthersReady(a, k, u)
  BY <1>2, MovedIs
<1> QED
  BY <1>4, <1>5, <1>6, <1>7, <1>8, <1>9, <1>10 DEF StaysPut

-----------------------------------------------------------------------------
LEMMA InitHolds == TaskServicesInit => ServicesInv
<1> SUFFICES ASSUME TaskServicesInit
             PROVE  ServicesInv
  OBVIOUS
<1>1. SchedulerInit /\ previous_wake = [t \in Tasks |-> 0]
  BY DEF TaskServicesInit
<1>2. /\ pc = [t \in Tasks |-> IF t = Idle THEN "idle" ELSE "run"] /\ masked = FALSE
  BY <1>1 DEF SchedulerInit
<1>3. /\ Good({}, kernel) /\ Served(kernel) /\ \A t \in Tasks : Ready(kernel, t)
      /\ kernel \in Kernels /\ kernel.current \in Tasks
      /\ kernel.pending = <<>> /\ Range(kernel.pending) = {}
      /\ Range(kernel.delayed) = {} /\ Range(kernel.overflow) = {}
      /\ kernel.terminating = {}
      /\ kernel.pended = 0 /\ kernel.locked = 0 /\ ~ kernel.ticking
  BY <1>1, StartIs
<1>4. \A t \in Tasks : pc[t] = IF t = Idle THEN "idle" ELSE "run"
  BY <1>2
<1>5. PcOK
  <2>1. pc \in [Tasks -> Labels]
    BY <1>2 DEF Labels
  <2>2. previous_wake \in [Tasks -> Ticks] /\ masked \in BOOLEAN
    BY <1>1, <1>2, TicksAre
  <2>3. \A t \in Tasks : pc[t] = "idle" <=> t = Idle
    BY <1>4
  <2> QED
    BY <2>1, <2>2, <2>3 DEF PcOK
<1>6. LinkedOK
  BY <1>3, <1>4, FirstIs DEF LinkedOK, Linked, Ready
<1>7. PendingOK /\ LockedOK /\ WaitingOK /\ AsleepOK /\ NothingPending
  BY <1>2, <1>3, <1>4
     DEF PendingOK, LockedOK, WaitingOK, AsleepOK, NothingPending, Sleeping, Locking, LockLabels
<1> QED
  BY <1>3, <1>5, <1>6, <1>7 DEF ServicesInv, ControlOK, Runs

-----------------------------------------------------------------------------
LEMMA InvIs ==
    ASSUME ServicesInv
    PROVE  /\ Good({}, kernel) /\ Runs(kernel) /\ kernel \in Kernels
           /\ PcOK /\ LinkedOK /\ PendingOK /\ LockedOK /\ NothingPending /\ WaitingOK /\ AsleepOK
           /\ kernel.current \in Tasks /\ Idle \in Tasks /\ masked \in BOOLEAN
BY FirstIs DEF ServicesInv, ControlOK, Good, Sound, Kernels, PcOK

\* A task that has not suspended the scheduler finds nothing pending.
LEMMA AtIs ==
    ASSUME ServicesInv, NEW from \in Labels \ LockLabels, At(from)
    PROVE  /\ pc[kernel.current] = from /\ ~ masked /\ ~ kernel.ticking /\ ~ kernel.pendsv
           /\ kernel.locked = 0 /\ kernel.pended = 0
           /\ kernel.pending = <<>> /\ Range(kernel.pending) = {}
           /\ from /= "delay_yield" => kernel.current \notin Sleeping(kernel)
<1>1. pc[kernel.current] = from /\ ~ masked /\ ~ kernel.ticking /\ ~ kernel.pendsv
  BY DEF At, Is, Interruptible
<1>2. kernel.locked = 0
  BY <1>1, InvIs DEF LockedOK, LockLabels
<1>3. kernel.pending = <<>> /\ kernel.pended = 0
  BY <1>1, <1>2, InvIs DEF NothingPending
<1>4. from /= "delay_yield" => kernel.current \notin Sleeping(kernel)
  BY <1>1, InvIs DEF AsleepOK, LockLabels
<1> QED
  BY <1>1, <1>2, <1>3, <1>4 DEF Range

\* A step of a task that has not suspended the scheduler.
LEMMA TaskStep ==
    ASSUME ServicesInv, UNCHANGED previous_wake,
           NEW from \in Labels \ (LockLabels \cup {"idle"}),
           NEW to \in Labels \ (LockLabels \cup {"idle", "deleted"}),
           NEW k, Step(from, k, to), Good({}, k), Runs(k),
           k.current = kernel.current, k.pended = kernel.pended, k.locked = kernel.locked,
           ~ k.ticking, k.pending = <<>>,
           \A u \in Tasks : Linked(k, u) <=> Linked(kernel, u),
           Ready(k, Idle),
           k.terminating \subseteq kernel.terminating \cup {kernel.current},
           kernel.current \in k.terminating => to = "delete_yield",
           kernel.current \in Sleeping(k) => k.pendsv \/ to = "delay_yield",
           Sleeping(k) \subseteq Sleeping(kernel) \cup {kernel.current},
           \A u \in Sleeping(k) \ {kernel.current} :
               pc[u] \in {"take", "wait"} /\ kernel.notify[u] = "waiting" => k.notify[u] = "waiting",
           to \in {"take", "wait"} /\ kernel.current \in Sleeping(k) =>
               k.notify[kernel.current] = "waiting"
    PROVE  ServicesInv'
<1> DEFINE c == kernel.current
<1>1. /\ pc[c] = from /\ ~ masked /\ kernel.locked = 0 /\ kernel.pended = 0
      /\ Range(kernel.pending) = {} /\ c \in Tasks
  BY AtIs, InvIs DEF Step
<1>2. kernel' = k /\ pc' = [pc EXCEPT ![c] = to] /\ masked' = masked
  BY DEF Step, Goes
<1>3. pc \in [Tasks -> Labels]
  BY InvIs DEF PcOK
<1>4. pc'[c] = to /\ \A u \in Tasks : u /= c => pc'[u] = pc[u]
  BY <1>1, <1>2, <1>3
<1>5. Range(k.pending) = {}
  BY DEF Range
<1>6. PcOK'
  <2>1. pc' \in [Tasks -> Labels]
    BY <1>2, <1>3
  <2>2. \A t \in Tasks : pc[t] = "idle" <=> t = Idle
    BY InvIs DEF PcOK
  <2> QED
    BY <1>1, <1>2, <1>4, <2>1, <2>2, InvIs DEF PcOK
<1> HIDE DEF c
<1>7. LinkedOK'
  <2>1. /\ \A t \in Tasks : Linked(kernel, t) <=> pc[t] /= "deleted"
        /\ \A t \in kernel.terminating : pc[t] = "delete_yield"
        /\ pc[c] /= "deleted"
    BY InvIs DEF LinkedOK, c
  <2>2. \A t \in Tasks : Linked(k, t) <=> pc'[t] /= "deleted"
    BY <1>1, <1>4, <2>1
  <2>3. \A t \in k.terminating : pc'[t] = "delete_yield"
    <3> TAKE t \in k.terminating
    <3>1. CASE t = c
      BY <1>4, <3>1 DEF c
    <3>2. CASE t /= c
      <4>1. t \in kernel.terminating /\ kernel.terminating \subseteq Tasks
        BY <3>2, InvIs DEF c, Kernels
      <4> QED
        BY <1>4, <2>1, <3>2, <4>1
    <3> QED
      BY <3>1, <3>2
  <2>4. pc'[c] /= "deleted"
    BY <1>4
  <2> QED
    BY <1>2, <2>2, <2>3, <2>4 DEF LinkedOK, c
<1>8. PendingOK' /\ NothingPending'
  BY <1>1, <1>2, <1>5 DEF PendingOK, NothingPending
<1>9. LockedOK'
  <2>1. \A t \in Tasks : pc[t] \in LockLabels => t = c
    BY InvIs DEF LockedOK, c
  <2>2. \A t \in Tasks : pc'[t] \notin LockLabels
    BY <1>1, <1>4, <2>1
  <2>3. k.current = c /\ k.locked = 0
    BY <1>1 DEF c
  <2> QED
    BY <1>1, <1>2, <2>2, <2>3 DEF LockedOK, LockLabels
<1>10. WaitingOK'
  <2> SUFFICES ASSUME NEW t \in Tasks, pc'[t] \in {"take", "wait"}, t \in Sleeping(k)
               PROVE  k.notify[t] = "waiting"
    BY <1>2 DEF WaitingOK
  <2>1. CASE t = c
    BY <1>4, <2>1 DEF c
  <2>2. CASE t /= c
    <3>1. pc[t] \in {"take", "wait"} /\ t \in Sleeping(kernel)
      BY <1>4, <2>2 DEF c
    <3>2. kernel.notify[t] = "waiting"
      BY <1>1, <3>1, InvIs DEF WaitingOK
    <3> QED
      BY <2>2, <3>1, <3>2 DEF c
  <2> QED
    BY <2>1, <2>2
<1>11. AsleepOK'
  BY <1>1, <1>2, <1>4 DEF AsleepOK, c
<1> QED
  BY <1>2, <1>6, <1>7, <1>8, <1>9, <1>10, <1>11 DEF ServicesInv, ControlOK

\* An interrupt, or a step with the interrupts held off: the tasks stay where they are.
LEMMA KernelStep ==
    ASSUME ServicesInv, UNCHANGED <<pc, masked, previous_wake>>,
           NEW k, kernel' = k, Good({}, k), Runs(k),
           k.current = kernel.current, k.locked = kernel.locked,
           k.ticking => k.locked = 0,
           k.locked = 0 /\ ~ masked => k.pending = <<>> /\ k.pended = 0,
           \A u \in Tasks : Linked(k, u) <=> Linked(kernel, u),
           Ready(k, Idle),
           k.terminating \subseteq kernel.terminating,
           \A u \in Range(k.pending) :
               u \in Users /\ k.notify[u] /= "waiting" /\ pc[u] /= "deleted",
           Sleeping(k) \subseteq Sleeping(kernel),
           kernel.pendsv => k.pendsv,
           \A u \in Sleeping(k) \ Range(k.pending) :
               pc[u] \in {"take", "wait"} =>
                   /\ u \notin Range(kernel.pending)
                   /\ kernel.notify[u] = "waiting" => k.notify[u] = "waiting"
    PROVE  ServicesInv'
<1>1. PcOK' /\ PendingOK' /\ NothingPending'
  BY InvIs DEF PcOK, PendingOK, NothingPending
<1>2. LinkedOK'
  BY InvIs DEF LinkedOK
<1>3. LockedOK'
  BY InvIs DEF LockedOK
<1>4. WaitingOK'
  BY InvIs DEF WaitingOK
<1>5. AsleepOK'
  BY InvIs DEF AsleepOK
<1> QED
  BY <1>1, <1>2, <1>3, <1>4, <1>5 DEF ServicesInv, ControlOK

-----------------------------------------------------------------------------
\* A notification, or a task that goes to wait for one, moves no task.
NotifyStates == {"not_waiting", "waiting", "received"}
SetState(k, t, state) == [k EXCEPT !.notify[t] = state]
SetNotify(k, t, state, value) == [k EXCEPT !.notify[t] = state, !.value[t] = value]

Unmoved(s, k) ==
    /\ Good({}, s)
    /\ \A u \in Tasks : Linked(s, u) <=> Linked(k, u)
    /\ Served(s) <=> Served(k)
    /\ \A u : OthersReady(s, k, u)
    /\ s.current = k.current /\ s.priority = k.priority
    /\ s.tick = k.tick /\ s.pended = k.pended /\ s.locked = k.locked
    /\ s.missed = k.missed /\ s.pendsv = k.pendsv /\ s.ticking = k.ticking
    /\ s.pending = k.pending
    /\ Sleeping(s) = Sleeping(k) /\ s.wake = k.wake /\ s.terminating = k.terminating

LEMMA UnmovedIs ==
    ASSUME NEW k, Good({}, k), NEW s, SameLists(s, k),
           s.pended = k.pended, s.locked = k.locked, s.missed = k.missed, s.pendsv = k.pendsv
    PROVE  Unmoved(s, k)
<1>1. /\ Good({}, s)
      /\ \A u \in Tasks : Linked(s, u) <=> Linked(k, u)
      /\ Served(s) <=> Served(k)
      /\ \A u : OthersReady(s, k, u)
  BY SameIs
<1> QED
  BY <1>1 DEF SameLists, Sleeping, Unmoved

LEMMA StateIs ==
    ASSUME NEW k, Good({}, k), NEW t \in Tasks, NEW n \in NotifyStates
    PROVE  /\ Unmoved(SetState(k, t, n), k)
           /\ SetState(k, t, n).notify = [k.notify EXCEPT ![t] = n]
<1> DEFINE s == SetState(k, t, n)
<1>1. k \in Kernels
  BY DEF Good, Sound
<1>2. SameLists(s, k)
  BY <1>1 DEF SameLists, SetState, Kernels, NotifyStates
<1>3. s.pended = k.pended /\ s.locked = k.locked /\ s.missed = k.missed /\ s.pendsv = k.pendsv
      /\ s.notify = [k.notify EXCEPT ![t] = n]
  BY <1>1 DEF SetState, Kernels
<1> QED
  BY <1>2, <1>3, UnmovedIs

LEMMA NotifyIs ==
    ASSUME NEW k, Good({}, k), NEW t \in Tasks,
           NEW n \in NotifyStates, NEW v \in Nat
    PROVE  /\ Unmoved(SetNotify(k, t, n, v), k)
           /\ SetNotify(k, t, n, v).notify = [k.notify EXCEPT ![t] = n]
<1> DEFINE s == SetNotify(k, t, n, v)
<1>1. k \in Kernels
  BY DEF Good, Sound
<1>2. SameLists(s, k)
  BY <1>1 DEF SameLists, SetNotify, Kernels, NotifyStates
<1>3. s.pended = k.pended /\ s.locked = k.locked /\ s.missed = k.missed /\ s.pendsv = k.pendsv
      /\ s.notify = [k.notify EXCEPT ![t] = n]
  BY <1>1 DEF SetNotify, Kernels
<1> QED
  BY <1>2, <1>3, UnmovedIs

\* The critical section of vTaskSuspend.
SuspendedTo(a, k, t) ==
    /\ Good({}, a)
    /\ \A u \in Tasks : Linked(a, u) <=> Linked(k, u)
    /\ Served(k) => Served(a)
    /\ OthersReady(a, k, t)
    /\ \A u \in Tasks : u /= t => a.notify[u] = k.notify[u]
    /\ a.current = k.current
    /\ a.tick = k.tick /\ a.pended = k.pended /\ a.locked = k.locked
    /\ a.missed = k.missed /\ a.pendsv = k.pendsv /\ a.ticking = k.ticking
    /\ Range(a.pending) = Range(k.pending) \ {t} /\ a.pending \in Seq(Tasks)
    /\ Sleeping(a) = Sleeping(k) \ {t} /\ a.terminating = k.terminating \ {t}
    /\ \A u \in Tasks : u /= t => a.wake[u] = k.wake[u]

LEMMA SuspendsIs ==
    ASSUME NEW k, Good({}, k), NEW t \in Tasks, Linked(k, t)
    PROVE  SuspendedTo(Suspended(k, t), k, t)
<1> DEFINE d == Detached(k, t)
           e == EventDetached(d, t)
           s == PutToSuspended(e, t)
           n == IF s.notify[t] = "waiting" THEN "not_waiting" ELSE s.notify[t]
           a == SetState(s, t, n)
<1>1. /\ Good({}, d)
      /\ \A u \in Tasks : Linked(d, u) <=> Linked(k, u) /\ u /= t
      /\ Served(k) => Served(d)
      /\ Range(d.delayed) = Range(k.delayed) \ {t}
      /\ Range(d.overflow) = Range(k.overflow) \ {t}
      /\ \A u \in Tasks : u /= t => d.wake[u] = k.wake[u]
      /\ Framed(d, k) /\ d.pending = k.pending /\ OthersReady(d, k, t)
      /\ d.terminating = k.terminating \ {t}
  BY DetachedIs
<1> HIDE DEF d
<1>2. /\ Good({}, e)
      /\ \A u \in Tasks : Linked(e, u) <=> Linked(d, u)
      /\ Served(d) => Served(e)
      /\ Range(e.pending) = Range(d.pending) \ {t}
      /\ Framed(e, d)
      /\ \A u : OthersReady(e, d, u)
      /\ Sleeping(e) = Sleeping(d) /\ e.wake = d.wake /\ e.terminating = d.terminating
  BY <1>1, EventDetachedIs
<1> HIDE DEF e
<1>3. ~ Linked(e, t)
  BY <1>1, <1>2
<1>4. /\ Good({}, s)
      /\ \A u \in Tasks : Linked(s, u) <=> Linked(e, u) \/ u = t
      /\ Served(e) => Served(s)
      /\ Sleeping(s) = Sleeping(e) /\ s.wake = e.wake /\ s.terminating = e.terminating
      /\ Framed(s, e) /\ s.pending = e.pending
      /\ \A u : OthersReady(s, e, u)
  BY <1>2, <1>3, SuspendedIs
<1>5. Suspended(k, t) = a
  <2>1. e \in Kernels
    BY <1>2 DEF Good, Sound
  <2>2. Suspended(k, t) =
            [e EXCEPT !.suspended = @ \cup {t},
                      !.notify[t] = IF @ = "waiting" THEN "not_waiting" ELSE @]
    BY DEF Suspended, d, e
  <2>3. n = IF e.notify[t] = "waiting" THEN "not_waiting" ELSE e.notify[t]
    BY <1>4 DEF Framed
  <2> HIDE DEF n
  <2>4. a = [e EXCEPT !.suspended = @ \cup {t}, !.notify[t] = n]
    BY <2>1 DEF Kernels, SetState, PutToSuspended
  <2> QED
    BY <2>1, <2>2, <2>3, <2>4 DEF Kernels
<1> HIDE DEF s
<1>6. n \in NotifyStates /\ s.notify \in [Tasks -> NotifyStates]
  BY <1>4 DEF Good, Sound, Kernels, NotifyStates
<1> HIDE DEF n
<1>7. Unmoved(a, s) /\ a.notify = [s.notify EXCEPT ![t] = n]
  BY <1>4, <1>6, StateIs
<1> HIDE DEF a
<1>8. /\ \A u \in Tasks : u /= t => a.notify[u] = k.notify[u]
      /\ a.current = k.current
      /\ a.tick = k.tick /\ a.pended = k.pended /\ a.locked = k.locked
      /\ a.missed = k.missed /\ a.pendsv = k.pendsv /\ a.ticking = k.ticking
  BY <1>1, <1>2, <1>4, <1>6, <1>7 DEF Framed, Unmoved
<1>9. OthersReady(a, k, t)
  BY <1>1, <1>2, <1>4, <1>7 DEF OthersReady, Unmoved
<1>10. Sleeping(a) = Sleeping(k) \ {t}
  BY <1>1, <1>2, <1>4, <1>7 DEF Sleeping, Unmoved
<1>11. a.pending \in Seq(Tasks)
  BY <1>7 DEF Unmoved, Good, Sound, Kernels
<1>12. Good({}, a) /\ (Served(k) => Served(a)) /\ \A u \in Tasks : Linked(a, u) <=> Linked(k, u)
  BY <1>1, <1>2, <1>4, <1>7 DEF Unmoved
<1>13. Range(a.pending) = Range(k.pending) \ {t} /\ a.terminating = k.terminating \ {t}
  BY <1>1, <1>2, <1>4, <1>7 DEF Unmoved
<1>14. \A u \in Tasks : u /= t => a.wake[u] = k.wake[u]
  BY <1>1, <1>2, <1>4, <1>7 DEF Unmoved
<1> QED
  BY <1>5, <1>8, <1>9, <1>10, <1>11, <1>12, <1>13, <1>14 DEF SuspendedTo

LEMMA NothingIn ==
    ASSUME NEW s \in Seq(Tasks), Range(s) = {}
    PROVE  s = <<>>
BY HeadIsLeast

-----------------------------------------------------------------------------
\* The tasks that sleep on, and what a step does to them: some are woken, a tick
\* passes, or the current task falls asleep.
Asleep(k) == Sleeping(k) \ Range(k.pending)

WokenStep(j, k) ==
    /\ Asleep(j) \subseteq Asleep(k) /\ j.tick = k.tick
    /\ \A u \in Asleep(j) : j.wake[u] = k.wake[u]

TickStep(j, k) ==
    /\ Asleep(j) = Asleep(k) /\ j.tick = Later(k.tick, 1) /\ j.wake = k.wake
    /\ \A u \in Asleep(k) : k.wake[u] /= k.tick

SleepsStep(j, k, n) ==
    /\ k.current \notin Asleep(k) /\ Asleep(j) = Asleep(k) \cup {k.current} /\ j.tick = k.tick
    /\ j.wake[k.current] = Later(k.tick, n)
    /\ \A u \in Asleep(k) : j.wake[u] = k.wake[u]

DelayStep(j, k) ==
    WokenStep(j, k) \/ TickStep(j, k) \/ \E n \in 1..MaxDelay : SleepsStep(j, k, n)

LEMMA AsleepTasks ==
    ASSUME NEW k, Good({}, k)
    PROVE  Asleep(k) \subseteq Tasks /\ Sleeping(k) \subseteq Tasks
<1>1. k.delayed \in Seq(Tasks) /\ k.overflow \in Seq(Tasks)
  BY DEF Good, Sound, Kernels
<1> QED
  BY <1>1 DEF Asleep, Sleeping, Range

-----------------------------------------------------------------------------
\* A step that moves no task, and at most asks for a switch.
Still(j, k) ==
    /\ Good({}, j) /\ (Runs(k) => Runs(j))
    /\ \A u \in Tasks : Linked(j, u) <=> Linked(k, u)
    /\ \A u : OthersReady(j, k, u)
    /\ j.current = k.current /\ j.notify = k.notify
    /\ j.tick = k.tick /\ j.pended = k.pended /\ j.locked = k.locked
    /\ j.ticking = k.ticking /\ j.pending = k.pending
    /\ (k.pendsv => j.pendsv) /\ j.missed = k.missed
    /\ Sleeping(j) = Sleeping(k) /\ j.wake = k.wake /\ j.terminating = k.terminating

LEMMA YieldStill ==
    ASSUME NEW k, Good({}, k), NEW c \in BOOLEAN
    PROVE  Still(YieldingIf(k, c), k) /\ (c => YieldingIf(k, c).pendsv)
<1> DEFINE j == YieldingIf(k, c)
<1>1. Asked(j, k) /\ (c => j.pendsv) /\ j.missed = k.missed
  BY YieldsIs DEF Good, Sound
<1> HIDE DEF j
<1>2. SameLists(j, k)
  BY <1>1 DEF Asked
<1>3. /\ Good({}, j)
      /\ \A u \in Tasks : Linked(j, u) <=> Linked(k, u)
      /\ Served(j) <=> Served(k)
      /\ \A u : OthersReady(j, k, u)
  BY <1>2, SameIs
<1>4. Runs(k) => Runs(j)
  BY <1>1, <1>3 DEF Runs, Asked
<1>5. Still(j, k)
  BY <1>1, <1>2, <1>3, <1>4 DEF Still, Asked, SameLists, Sleeping
<1> QED
  BY <1>1, <1>5 DEF j

LEMMA YieldingStill ==
    ASSUME NEW k, Good({}, k)
    PROVE  Still(Yielding(k), k) /\ Yielding(k).pendsv
<1>1. k \in Kernels
  BY DEF Good, Sound
<1>2. Yielding(k) = YieldingIf(k, TRUE)
  BY <1>1 DEF Yielding, YieldingIf, Kernels
<1> QED
  BY <1>2, YieldStill

LEMMA ResetStill ==
    ASSUME NEW k, Good({}, k), ~ k.ticking
    PROVE  Still(ResetNextTaskUnblockTime(k), k)
<1> DEFINE j == ResetNextTaskUnblockTime(k)
<1>1. /\ Good({}, j)
      /\ \A u \in Tasks : Linked(j, u) <=> Linked(k, u)
      /\ Served(k) => Served(j)
      /\ Framed(j, k) /\ j.pending = k.pending
      /\ \A u : OthersReady(j, k, u)
      /\ Sleeping(j) = Sleeping(k) /\ j.wake = k.wake /\ j.terminating = k.terminating
  BY ResetIs
<1> HIDE DEF j
<1>2. Runs(k) => Runs(j)
  BY <1>1 DEF Runs, Framed
<1> QED
  BY <1>1, <1>2 DEF Still, Framed, j

\* The labels a step may start from and end at that the interrupts do not see.
Plain == Labels \ (LockLabels \cup {"idle", "deleted"})

LEMMA PlainIs == Plain = {"run", "delay_yield", "suspend", "suspend_self", "suspend_yield", "delete_yield", "take", "wait"}
BY DEF Plain, Labels, LockLabels, Locking

LEMMA StillStep ==
    ASSUME ServicesInv, UNCHANGED previous_wake,
           NEW from \in Plain, NEW to \in Plain \ {"take", "wait"},
           NEW k, Step(from, k, to), Still(k, kernel),
           to = "delete_yield" <=> from = "delete_yield",
           from = "delay_yield" => k.pendsv
    PROVE  ServicesInv' /\ DelayStep(kernel', kernel)
<1>1. /\ from \in Labels \ (LockLabels \cup {"idle"}) /\ from \in Labels \ LockLabels
      /\ to \in Labels \ (LockLabels \cup {"idle", "deleted"})
  BY DEF Plain
<1>2. /\ pc[kernel.current] = from /\ ~ kernel.ticking /\ kernel.pending = <<>>
      /\ from /= "delay_yield" => kernel.current \notin Sleeping(kernel)
  BY <1>1, AtIs DEF Step
<1>3. Runs(k) /\ Good({}, k)
  BY InvIs DEF Still
<1>4. Ready(k, Idle)
  BY InvIs, <1>3 DEF Still, OthersReady, LinkedOK
<1>5. kernel.current \in k.terminating => to = "delete_yield"
  BY <1>2, InvIs DEF LinkedOK, Still
<1>6. ServicesInv'
  BY <1>1, <1>2, <1>3, <1>4, <1>5, TaskStep DEF Still
<1>7. kernel' = k
  BY DEF Step, Goes
<1>8. WokenStep(kernel', kernel)
  BY <1>7 DEF WokenStep, Asleep, Still
<1> QED
  BY <1>6, <1>8 DEF DelayStep

LEMMA SuspendKeeps ==
    ASSUME ServicesInv, vTaskSuspend
    PROVE  ServicesInv' /\ DelayStep(kernel', kernel)
<1>1. UNCHANGED previous_wake
  BY DEF vTaskSuspend
<1>2. ASSUME NEW t \in Alive,
             Step("run", Suspended(kernel, t), IF t = Current THEN "suspend_self" ELSE "suspend")
      PROVE  ServicesInv' /\ DelayStep(kernel', kernel)
  <2> DEFINE k == Suspended(kernel, t)
             to == IF t = kernel.current THEN "suspend_self" ELSE "suspend"
  <2>1. t \in Tasks /\ t /= Idle /\ pc[t] \notin {"deleted", "delete_yield"}
    BY DEF Alive, Users
  <2>2. Linked(kernel, t) /\ Good({}, kernel)
    BY <2>1, InvIs DEF LinkedOK
  <2>3. SuspendedTo(k, kernel, t)
    BY <2>1, <2>2, SuspendsIs
  <2> HIDE DEF k
  <2>4. Step("run", k, to)
    BY <1>2 DEF Current, k
  <2>5. /\ "run" \in Labels \ (LockLabels \cup {"idle"}) /\ "run" \in Labels \ LockLabels
        /\ to \in Labels \ (LockLabels \cup {"idle", "deleted"})
    BY DEF Labels, LockLabels, Locking
  <2>6. /\ pc[kernel.current] = "run" /\ ~ kernel.ticking /\ Range(kernel.pending) = {}
        /\ kernel.current \notin Sleeping(kernel) /\ kernel.locked = 0
    BY <2>4, <2>5, AtIs DEF Step
  <2>7. k.pending = <<>>
    BY <2>3, <2>6, NothingIn DEF SuspendedTo
  <2>8. Runs(k)
    BY <2>3, InvIs DEF Runs, SuspendedTo
  <2>9. Ready(k, Idle)
    BY <2>1, <2>3, InvIs DEF OthersReady, LinkedOK, SuspendedTo
  <2>10. kernel.current \notin k.terminating
    BY <2>3, <2>6, InvIs DEF LinkedOK, SuspendedTo
  <2>11. Sleeping(k) \subseteq Tasks
    BY <2>3, AsleepTasks DEF SuspendedTo
  <2>12. ServicesInv'
    BY <1>1, <2>3, <2>4, <2>5, <2>6, <2>7, <2>8, <2>9, <2>10, <2>11, TaskStep DEF SuspendedTo
  <2>13. kernel' = k
    BY <2>4 DEF Step, Goes
  <2>14. WokenStep(kernel', kernel)
    BY <2>3, <2>6, <2>11, <2>13 DEF WokenStep, Asleep, SuspendedTo
  <2> QED
    BY <2>12, <2>14 DEF DelayStep
<1>3. Good({}, kernel) /\ {"run", "suspend", "suspend_self", "suspend_yield"} \subseteq Plain
  BY InvIs, PlainIs
<1>4. ASSUME NEW from \in Plain \ {"delete_yield", "delay_yield"},
             NEW to \in Plain \ {"take", "wait", "delete_yield"},
             Step(from, ResetNextTaskUnblockTime(kernel), to)
      PROVE  ServicesInv' /\ DelayStep(kernel', kernel)
  <2>1. ~ kernel.ticking
    BY <1>4 DEF Step, At, Interruptible
  <2>2. Still(ResetNextTaskUnblockTime(kernel), kernel)
    BY <1>3, <2>1, ResetStill
  <2> QED
    BY <1>1, <1>4, <2>2, StillStep
<1>5. ASSUME Step("suspend_yield", Yielding(kernel), "run")
      PROVE  ServicesInv' /\ DelayStep(kernel', kernel)
  BY <1>1, <1>3, <1>5, YieldingStill, StillStep
<1> QED
  BY <1>1, <1>2, <1>3, <1>4, <1>5 DEF vTaskSuspend

-----------------------------------------------------------------------------
\* A step that concerns the task t: it may be taken from a delayed list.
Effect(j, k, t) ==
    /\ Good({}, j) /\ (Runs(k) => Runs(j))
    /\ \A u \in Tasks : Linked(j, u) <=> Linked(k, u)
    /\ OthersReady(j, k, t)
    /\ j.current = k.current /\ \A u \in Tasks : u /= t => j.notify[u] = k.notify[u]
    /\ j.tick = k.tick /\ j.pended = k.pended /\ j.locked = k.locked
    /\ j.ticking = k.ticking /\ j.pending = k.pending
    /\ (k.pendsv => j.pendsv)
    /\ Sleeping(j) \subseteq Sleeping(k) /\ j.terminating \subseteq k.terminating
    /\ \A u \in Sleeping(j) : j.wake[u] = k.wake[u]

LEMMA EffectStep ==
    ASSUME ServicesInv, UNCHANGED previous_wake,
           NEW from \in Plain \ {"delay_yield", "delete_yield"},
           NEW to \in Plain \ {"take", "wait", "delete_yield"},
           NEW t \in Users, NEW k, Step(from, k, to), Effect(k, kernel, t),
           t \in Sleeping(k) /\ pc[t] \in {"take", "wait"} /\ t /= kernel.current
               => kernel.notify[t] /= "waiting" \/ k.notify[t] = "waiting"
    PROVE  ServicesInv' /\ DelayStep(kernel', kernel)
<1>1. /\ from \in Labels \ (LockLabels \cup {"idle"}) /\ from \in Labels \ LockLabels
      /\ to \in Labels \ (LockLabels \cup {"idle", "deleted"})
  BY DEF Plain
<1>2. /\ pc[kernel.current] = from /\ ~ kernel.ticking /\ kernel.pending = <<>>
      /\ kernel.current \notin Sleeping(kernel)
  BY <1>1, AtIs DEF Step
<1>3. Runs(k) /\ Good({}, k)
  BY InvIs DEF Effect
<1>4. t /= Idle /\ t \in Tasks /\ Sleeping(k) \subseteq Tasks
  BY <1>3, AsleepTasks DEF Users
<1>5. Ready(k, Idle)
  BY <1>4, InvIs DEF Effect, OthersReady, LinkedOK
<1>6. kernel.current \notin k.terminating
  BY <1>2, InvIs DEF LinkedOK, Effect
<1>7. \A u \in Sleeping(k) \ {kernel.current} :
          pc[u] \in {"take", "wait"} /\ kernel.notify[u] = "waiting" => k.notify[u] = "waiting"
  BY <1>4 DEF Effect
<1>8. ServicesInv'
  BY <1>1, <1>2, <1>3, <1>5, <1>6, <1>7, TaskStep DEF Effect
<1>9. kernel' = k
  BY DEF Step, Goes
<1>10. WokenStep(kernel', kernel)
  BY <1>2, <1>9 DEF WokenStep, Asleep, Effect
<1> QED
  BY <1>8, <1>10 DEF DelayStep

\* The same for an interrupt.
LEMMA EffectFromISR ==
    ASSUME ServicesInv, UNCHANGED <<pc, masked, previous_wake>>,
           NEW t \in Users, NEW k, kernel' = k, Effect(k, kernel, t),
           t \in Range(kernel.pending) => k.notify[t] /= "waiting",
           t \in Sleeping(k) /\ pc[t] \in {"take", "wait"}
               => kernel.notify[t] /= "waiting" \/ k.notify[t] = "waiting"
    PROVE  ServicesInv' /\ DelayStep(kernel', kernel)
<1>1. Runs(k) /\ Good({}, k)
  BY InvIs DEF Effect
<1>2. t /= Idle /\ t \in Tasks /\ Sleeping(k) \subseteq Tasks
  BY <1>1, AsleepTasks DEF Users
<1>3. Ready(k, Idle)
  BY <1>2, InvIs DEF Effect, OthersReady, LinkedOK
<1>4. k.ticking => k.locked = 0
  BY InvIs DEF Effect, LockedOK
<1>5. k.locked = 0 /\ ~ masked => k.pending = <<>> /\ k.pended = 0
  BY InvIs DEF Effect, NothingPending
<1>6. \A u \in Range(k.pending) : u \in Users /\ k.notify[u] /= "waiting" /\ pc[u] /= "deleted"
  <2> TAKE u \in Range(k.pending)
  <2>1. u \in Users /\ kernel.notify[u] /= "waiting" /\ pc[u] /= "deleted"
    BY InvIs DEF Effect, PendingOK
  <2> QED
    BY <2>1 DEF Effect, Users
<1>7. \A u \in Sleeping(k) \ Range(k.pending) :
          pc[u] \in {"take", "wait"} =>
              /\ u \notin Range(kernel.pending)
              /\ kernel.notify[u] = "waiting" => k.notify[u] = "waiting"
  BY <1>2 DEF Effect
<1>8. ServicesInv'
  BY <1>1, <1>3, <1>4, <1>5, <1>6, <1>7, KernelStep DEF Effect
<1>9. WokenStep(kernel', kernel)
  BY DEF WokenStep, Asleep, Effect
<1> QED
  BY <1>8, <1>9 DEF DelayStep

\* A task is made ready: a switch is asked for, or recorded, if its priority is
\* higher.
ReadiedTo(a, k, t) ==
    /\ Good({}, a)
    /\ \A u \in Tasks : Linked(a, u) <=> Linked(k, u)
    /\ Served(k) /\ ~ (k.priority[t] > k.priority[k.current]) => Served(a)
    /\ Ready(a, t)
    /\ \A u : OthersReady(a, k, u)
    /\ Framed(a, k) /\ a.pending = k.pending
    /\ Sleeping(a) = Sleeping(k) \ {t}
    /\ \A u \in Tasks : u /= t => a.wake[u] = k.wake[u]
    /\ a.terminating = k.terminating \ {t}

LEMMA ReadiedEffect ==
    ASSUME NEW k, Good({}, k), NEW t \in Tasks, Linked(k, t), NEW c \in BOOLEAN,
           ~ c => ~ (k.priority[t] > k.priority[k.current])
    PROVE  LET a == AddTaskToReadyList(Detached(k, t), t)
           IN  /\ Effect(YieldingIf(a, c), k, t)
               /\ YieldingIf(a, c).notify = k.notify /\ t \notin Sleeping(YieldingIf(a, c))
               /\ Effect(MissedIf(a, c), k, t)
               /\ MissedIf(a, c).notify = k.notify /\ t \notin Sleeping(MissedIf(a, c))
<1> DEFINE a == AddTaskToReadyList(Detached(k, t), t)
           y == YieldingIf(a, c)
           m == MissedIf(a, c)
<1>1. ReadiedTo(a, k, t)
  BY ReadiedIs DEF ReadiedTo
<1> HIDE DEF a
<1>2. Good({}, a)
  BY <1>1 DEF ReadiedTo
<1>3. Still(y, a) /\ (c => y.pendsv)
  BY <1>2, YieldStill
<1>4. /\ Good({}, m)
      /\ \A u \in Tasks : Linked(m, u) <=> Linked(a, u)
      /\ Served(m) <=> Served(a)
      /\ \A u : OthersReady(m, a, u)
      /\ m.current = a.current /\ m.notify = a.notify
      /\ m.tick = a.tick /\ m.pended = a.pended /\ m.locked = a.locked
      /\ m.ticking = a.ticking /\ m.pending = a.pending
      /\ m.pendsv = a.pendsv /\ (c \/ a.missed => m.missed)
      /\ Sleeping(m) = Sleeping(a) /\ m.wake = a.wake /\ m.terminating = a.terminating
  BY <1>2, MissedIs
<1> HIDE DEF y, m
<1>5. Runs(k) => Runs(y) /\ Runs(m)
  <2> HAVE Runs(k)
  <2>1. a.pendsv = k.pendsv /\ a.missed = k.missed
    BY <1>1 DEF ReadiedTo, Framed
  <2>2. CASE k.pendsv \/ k.missed
    BY <1>3, <1>4, <2>1, <2>2 DEF Runs, Still
  <2>3. CASE c
    BY <1>3, <1>4, <2>3 DEF Runs
  <2>4. CASE Served(k) /\ ~ c
    <3>1. Served(a)
      BY <1>1, <2>4 DEF ReadiedTo
    <3> QED
      BY <1>3, <1>4, <3>1 DEF Runs, Still
  <2> QED
    BY <2>2, <2>3, <2>4 DEF Runs
<1>6. OthersReady(y, k, t) /\ OthersReady(m, k, t)
  BY <1>1, <1>3, <1>4 DEF OthersReady, ReadiedTo, Still
<1>7. /\ Sleeping(y) = Sleeping(k) \ {t} /\ Sleeping(m) = Sleeping(k) \ {t}
      /\ Sleeping(k) \subseteq Tasks
  BY <1>1, <1>3, <1>4, AsleepTasks DEF ReadiedTo, Still
<1>8. \A u \in Tasks : u /= t => y.wake[u] = k.wake[u] /\ m.wake[u] = k.wake[u]
  BY <1>1, <1>3, <1>4 DEF ReadiedTo, Still
<1>9. y.notify = k.notify /\ m.notify = k.notify
  BY <1>1, <1>3, <1>4 DEF ReadiedTo, Still, Framed
<1>10. Effect(y, k, t)
  BY <1>1, <1>3, <1>5, <1>6, <1>7, <1>8, <1>9 DEF ReadiedTo, Still, Framed, Effect
<1>11. Effect(m, k, t)
  BY <1>1, <1>4, <1>5, <1>6, <1>7, <1>8, <1>9 DEF ReadiedTo, Framed, Effect
<1> QED
  BY <1>7, <1>9, <1>10, <1>11 DEF y, m, a

\* An interrupt that finds the scheduler suspended leaves the task pending.
LEMMA PendStep ==
    ASSUME ServicesInv, UNCHANGED <<pc, masked, previous_wake>>, kernel.locked /= 0,
           NEW t \in Users, pc[t] /= "deleted", NEW k, kernel' = k,
           Good({}, k), Runs(k),
           \A u \in Tasks : Linked(k, u) <=> Linked(kernel, u),
           \A u : OthersReady(k, kernel, u),
           k.current = kernel.current, k.tick = kernel.tick, k.locked = kernel.locked,
           k.ticking = kernel.ticking, kernel.pendsv => k.pendsv,
           \A u \in Tasks : u /= t => k.notify[u] = kernel.notify[u],
           k.notify[t] /= "waiting",
           Range(k.pending) = Range(kernel.pending) \cup {t},
           Sleeping(k) = Sleeping(kernel), k.wake = kernel.wake,
           k.terminating = kernel.terminating
    PROVE  ServicesInv' /\ DelayStep(kernel', kernel)
<1>1. Sleeping(k) \subseteq Tasks
  BY AsleepTasks
<1>2. Ready(k, Idle)
  BY InvIs DEF OthersReady, LinkedOK
<1>3. k.ticking => k.locked = 0
  BY InvIs DEF LockedOK
<1>4. \A u \in Range(k.pending) : u \in Users /\ k.notify[u] /= "waiting" /\ pc[u] /= "deleted"
  <2> TAKE u \in Range(k.pending)
  <2>1. CASE u = t
    BY <2>1
  <2>2. CASE u /= t
    <3>1. u \in Users /\ kernel.notify[u] /= "waiting" /\ pc[u] /= "deleted"
      BY <2>2, InvIs DEF PendingOK
    <3> QED
      BY <2>2, <3>1 DEF Users
  <2> QED
    BY <2>1, <2>2
<1>5. \A u \in Sleeping(k) \ Range(k.pending) :
          pc[u] \in {"take", "wait"} =>
              /\ u \notin Range(kernel.pending)
              /\ kernel.notify[u] = "waiting" => k.notify[u] = "waiting"
  BY <1>1
<1>6. ServicesInv'
  BY <1>2, <1>3, <1>4, <1>5, KernelStep
<1>7. WokenStep(kernel', kernel)
  BY <1>1 DEF WokenStep, Asleep
<1> QED
  BY <1>6, <1>7 DEF DelayStep

PendedTo(i, k, t) ==
    /\ Good({}, i) /\ (Runs(k) => Runs(i))
    /\ \A u \in Tasks : Linked(i, u) <=> Linked(k, u)
    /\ \A u : OthersReady(i, k, u)
    /\ i.current = k.current /\ i.notify = k.notify /\ i.tick = k.tick
    /\ i.locked = k.locked /\ i.ticking = k.ticking /\ (k.pendsv => i.pendsv)
    /\ Range(i.pending) = Range(k.pending) \cup {t}
    /\ Sleeping(i) = Sleeping(k) /\ i.wake = k.wake
    /\ i.terminating = k.terminating

LEMMA PendedRuns ==
    ASSUME NEW k, Good({}, k), NEW t \in Tasks, t \notin Range(k.pending), NEW c \in BOOLEAN
    PROVE  LET j == PutToPending(k, t)
           IN  PendedTo(j, k, t) /\ PendedTo(YieldingIf(j, c), k, t) /\ PendedTo(MissedIf(j, c), k, t)
<1> DEFINE j == PutToPending(k, t)
           y == YieldingIf(j, c)
           m == MissedIf(j, c)
<1>1. /\ Good({}, j)
      /\ \A u \in Tasks : Linked(j, u) <=> Linked(k, u)
      /\ Served(j) <=> Served(k)
      /\ \A u : OthersReady(j, k, u)
      /\ Range(j.pending) = Range(k.pending) \cup {t}
      /\ Framed(j, k)
      /\ Sleeping(j) = Sleeping(k) /\ j.wake = k.wake /\ j.terminating = k.terminating
  <2>1. \A o \in Objects : t \notin Range(k.waiting[o])
    BY NoEvents DEF Range
  <2> QED
    BY <2>1, PendedIs
<1> HIDE DEF j
<1>2. Still(y, j)
  BY <1>1, YieldStill
<1>3. /\ Good({}, m)
      /\ \A u \in Tasks : Linked(m, u) <=> Linked(j, u)
      /\ Served(m) <=> Served(j)
      /\ \A u : OthersReady(m, j, u)
      /\ m.current = j.current /\ m.notify = j.notify
      /\ m.tick = j.tick /\ m.pended = j.pended /\ m.locked = j.locked
      /\ m.ticking = j.ticking /\ m.pending = j.pending
      /\ m.pendsv = j.pendsv /\ (c \/ j.missed => m.missed)
      /\ Sleeping(m) = Sleeping(j) /\ m.wake = j.wake /\ m.terminating = j.terminating
  BY <1>1, MissedIs
<1> HIDE DEF y, m
<1>4. Runs(k) => Runs(j) /\ Runs(y) /\ Runs(m)
  <2>1. Runs(k) => Runs(j)
    BY <1>1 DEF Runs, Framed
  <2>2. Runs(j) => Runs(m)
    BY <1>3 DEF Runs
  <2> QED
    BY <1>2, <2>1, <2>2 DEF Still
<1>5. \A u : OthersReady(j, k, u) /\ OthersReady(y, k, u) /\ OthersReady(m, k, u)
  BY <1>1, <1>2, <1>3 DEF OthersReady, Still
<1>6. /\ Good({}, j)
      /\ \A u \in Tasks : Linked(j, u) <=> Linked(k, u)
      /\ j.current = k.current /\ j.notify = k.notify /\ j.tick = k.tick
      /\ j.locked = k.locked /\ j.ticking = k.ticking /\ (k.pendsv => j.pendsv)
      /\ Range(j.pending) = Range(k.pending) \cup {t}
      /\ Sleeping(j) = Sleeping(k) /\ j.wake = k.wake
      /\ j.terminating = k.terminating
  BY <1>1 DEF Framed
<1>7. /\ Good({}, y)
      /\ \A u \in Tasks : Linked(y, u) <=> Linked(k, u)
      /\ y.current = k.current /\ y.notify = k.notify /\ y.tick = k.tick
      /\ y.locked = k.locked /\ y.ticking = k.ticking /\ (k.pendsv => y.pendsv)
      /\ Range(y.pending) = Range(k.pending) \cup {t}
      /\ Sleeping(y) = Sleeping(k) /\ y.wake = k.wake
      /\ y.terminating = k.terminating
  BY <1>2, <1>6 DEF Still
<1>8. /\ Good({}, m)
      /\ \A u \in Tasks : Linked(m, u) <=> Linked(k, u)
      /\ m.current = k.current /\ m.notify = k.notify /\ m.tick = k.tick
      /\ m.locked = k.locked /\ m.ticking = k.ticking /\ (k.pendsv => m.pendsv)
      /\ Range(m.pending) = Range(k.pending) \cup {t}
      /\ Sleeping(m) = Sleeping(k) /\ m.wake = k.wake
      /\ m.terminating = k.terminating
  BY <1>3, <1>6
<1>9. PendedTo(j, k, t)
  BY <1>4, <1>5, <1>6 DEF PendedTo
<1>10. PendedTo(y, k, t)
  BY <1>4, <1>5, <1>7 DEF PendedTo
<1>11. PendedTo(m, k, t)
  BY <1>4, <1>5, <1>8 DEF PendedTo
<1> QED
  BY <1>9, <1>10, <1>11 DEF j, y, m

LEMMA ResumeKeeps ==
    ASSUME ServicesInv, vTaskResume
    PROVE  ServicesInv' /\ DelayStep(kernel', kernel)
<1>1. PICK t \in Users \ {Current} :
          /\ IsSuspended(t) /\ MayResume(t)
          /\ Step("run",
                  YieldingIf(AddTaskToReadyList(Detached(kernel, t), t),
                             kernel.priority[t] >= kernel.priority[Current]),
                  "run")
          /\ UNCHANGED previous_wake
  BY DEF vTaskResume
<1> DEFINE c == kernel.priority[t] >= kernel.priority[kernel.current]
           k == YieldingIf(AddTaskToReadyList(Detached(kernel, t), t), c)
<1>2. t \in Tasks /\ Linked(kernel, t) /\ kernel.notify[t] /= "waiting"
  BY <1>1, InvIs DEF MayResume, Alive, Users, LinkedOK
<1>3. c \in BOOLEAN /\ (~ c => ~ (kernel.priority[t] > kernel.priority[kernel.current]))
  <2>1. kernel.priority[t] \in Nat /\ kernel.priority[kernel.current] \in Nat
    BY <1>2, InvIs, PrioritiesAre DEF Kernels
  <2> QED
    BY <2>1
<1>4. Step("run", k, "run")
  BY <1>1 DEF Current
<1> HIDE DEF c
<1>5. Effect(k, kernel, t)
  BY <1>2, <1>3, InvIs, ReadiedEffect
<1> HIDE DEF k
<1>6. "run" \in Plain \ {"delay_yield", "delete_yield"}
      /\ "run" \in Plain \ {"take", "wait", "delete_yield"}
  BY PlainIs
<1> QED
  BY <1>1, <1>2, <1>4, <1>5, <1>6, EffectStep

LEMMA ResumeFromISRKeeps ==
    ASSUME ServicesInv, xTaskResumeFromISR
    PROVE  ServicesInv' /\ DelayStep(kernel', kernel)
<1>1. PICK t \in Users :
        /\ Interruptible /\ IsSuspended(t) /\ MayResume(t)
        /\ kernel' = IF kernel.locked = 0
                     THEN YieldingIf(AddTaskToReadyList(Detached(kernel, t), t),
                                     kernel.priority[t] >= kernel.priority[Current])
                     ELSE [kernel EXCEPT !.pending = Append(@, t)]
        /\ UNCHANGED <<pc, masked, previous_wake>>
  BY DEF xTaskResumeFromISR
<1> DEFINE c == kernel.priority[t] >= kernel.priority[kernel.current]
           k == YieldingIf(AddTaskToReadyList(Detached(kernel, t), t), c)
           j == PutToPending(kernel, t)
<1>2. t \in Tasks /\ Linked(kernel, t) /\ kernel.notify[t] /= "waiting" /\ pc[t] /= "deleted"
  BY <1>1, InvIs DEF MayResume, Alive, Users, LinkedOK
<1>3. c \in BOOLEAN /\ (~ c => ~ (kernel.priority[t] > kernel.priority[kernel.current]))
  <2>1. kernel.priority[t] \in Nat /\ kernel.priority[kernel.current] \in Nat
    BY <1>2, InvIs, PrioritiesAre DEF Kernels
  <2> QED
    BY <2>1
<1>4. IF kernel.locked = 0 THEN kernel' = k ELSE kernel' = j
  BY <1>1 DEF Current, PutToPending
<1> HIDE DEF c
<1>5. CASE kernel.locked = 0
  <2>1. Effect(k, kernel, t)
    BY <1>2, <1>3, InvIs, ReadiedEffect
  <2>2. k.notify = kernel.notify
    BY <1>2, <1>3, InvIs, ReadiedEffect
  <2> HIDE DEF k
  <2> QED
    BY <1>1, <1>2, <1>4, <1>5, <2>1, <2>2, EffectFromISR
<1>6. CASE kernel.locked /= 0
  <2>1. t \notin Range(kernel.pending)
    <3>1. {l \in {"pending"} : Contains(kernel.pending, t)} = {}
      BY <1>1 DEF IsSuspended, EventPlaces
    <3> QED
      BY <3>1 DEF Contains, Range
  <2> HIDE DEF k
  <2>2. PendedTo(j, kernel, t)
    BY <1>2, <1>3, <2>1, InvIs, PendedRuns
  <2> HIDE DEF j
  <2> QED
    BY <1>1, <1>2, <1>4, <1>6, <2>2, InvIs, PendStep DEF PendedTo
<1> QED
  BY <1>5, <1>6

LEMMA PrioritySetKeeps ==
    ASSUME ServicesInv, vTaskPrioritySet
    PROVE  ServicesInv' /\ DelayStep(kernel', kernel)
<1>1. PICK t \in Alive, new \in Priorities :
        /\ new /= kernel.base[t]
        /\ Step("run",
                YieldingIf(Reprioritised(kernel, t, new),
                           IF new > kernel.base[t]
                           THEN t /= Current /\ new >= kernel.priority[Current]
                           ELSE t = Current),
                "run")
        /\ UNCHANGED previous_wake
  BY DEF vTaskPrioritySet
<1> DEFINE a == Reprioritised(kernel, t, new)
           c == PriorityYields(kernel, t, new)
           k == YieldingIf(a, c)
<1>2. t \in Users /\ t \in Tasks
  BY DEF Alive, Users
<1>3. Step("run", k, "run")
  BY <1>1 DEF Current, PriorityYields
<1>4. c \in BOOLEAN
  BY DEF PriorityYields
<1>5. /\ Good({}, a)
      /\ \A u \in Tasks : Linked(a, u) <=> Linked(kernel, u)
      /\ Served(kernel) /\ ~ c => Served(a)
      /\ a.current = kernel.current /\ a.notify = kernel.notify /\ a.value = kernel.value
      /\ a.tick = kernel.tick /\ a.pended = kernel.pended /\ a.locked = kernel.locked
      /\ a.missed = kernel.missed /\ a.pendsv = kernel.pendsv /\ a.ticking = kernel.ticking
      /\ a.pending = kernel.pending
      /\ Sleeping(a) = Sleeping(kernel) /\ a.wake = kernel.wake
      /\ a.terminating = kernel.terminating
      /\ \A u : OthersReady(a, kernel, u)
  BY <1>1, <1>2, InvIs, ReprioritisedIs
<1> HIDE DEF a, c
<1>6. Still(k, a) /\ (c => k.pendsv)
  BY <1>4, <1>5, YieldStill
<1> HIDE DEF k
<1>7. Runs(kernel) => Runs(k)
  BY <1>5, <1>6 DEF Runs, Still
<1>8. OthersReady(k, kernel, t)
  BY <1>5, <1>6 DEF OthersReady, Still
<1>9. Effect(k, kernel, t)
  BY <1>5, <1>6, <1>7, <1>8 DEF Effect, Still
<1>10. k.notify = kernel.notify
  BY <1>5, <1>6 DEF Still
<1>11. "run" \in Plain \ {"delay_yield", "delete_yield"}
       /\ "run" \in Plain \ {"take", "wait", "delete_yield"}
  BY PlainIs
<1> QED
  BY <1>1, <1>2, <1>3, <1>9, <1>10, <1>11, EffectStep

-----------------------------------------------------------------------------
LEMMA UnmovedEffect ==
    ASSUME NEW k, NEW s, Unmoved(s, k), NEW t \in Tasks, NEW n,
           k.notify \in [Tasks -> NotifyStates], s.notify = [k.notify EXCEPT ![t] = n]
    PROVE  Effect(s, k, t) /\ s.notify[t] = n
<1>1. Runs(k) => Runs(s)
  BY DEF Runs, Unmoved
<1> QED
  BY <1>1 DEF Effect, Unmoved

LEMMA NotifyTyped == Good({}, kernel) => kernel.notify \in [Tasks -> NotifyStates] /\ kernel.value \in [Tasks -> Nat]
BY DEF Good, Sound, Kernels, NotifyStates

\* An effect on top of a change of the notification.
LEMMA EffectAfter ==
    ASSUME NEW k, NEW s, NEW j, NEW t \in Tasks, Effect(s, k, t), Effect(j, s, t)
    PROVE  Effect(j, k, t)
BY DEF Effect, OthersReady

LEMMA ValuesAre ==
    ASSUME Good({}, kernel), NEW t \in Tasks, NEW v \in NotifiedValues(t)
    PROVE  v \in Nat
BY NotifyTyped DEF NotifiedValues

\* A task that notifies another.
LEMMA GenericNotifyKeeps ==
    ASSUME ServicesInv, xTaskGenericNotify
    PROVE  ServicesInv' /\ DelayStep(kernel', kernel)
<1>1. PICK t \in Alive : \E v \in NotifiedValues(t) :
        LET k == [kernel EXCEPT !.notify[t] = "received", !.value[t] = v]
        IN  /\ Step("run",
                    IF kernel.notify[t] = "waiting"
                    THEN YieldingIf(AddTaskToReadyList(Detached(k, t), t),
                                    k.priority[t] > k.priority[Current])
                    ELSE k,
                    "run")
            /\ UNCHANGED previous_wake
  BY DEF xTaskGenericNotify
<1>2. PICK v \in NotifiedValues(t) :
        LET k == [kernel EXCEPT !.notify[t] = "received", !.value[t] = v]
        IN  /\ Step("run",
                    IF kernel.notify[t] = "waiting"
                    THEN YieldingIf(AddTaskToReadyList(Detached(k, t), t),
                                    k.priority[t] > k.priority[Current])
                    ELSE k,
                    "run")
            /\ UNCHANGED previous_wake
  BY <1>1
<1> DEFINE s == SetNotify(kernel, t, "received", v)
           c == s.priority[t] > s.priority[kernel.current]
           k == YieldingIf(AddTaskToReadyList(Detached(s, t), t), c)
<1>3. t \in Users /\ t \in Tasks /\ Linked(kernel, t)
  BY InvIs DEF Alive, Users, LinkedOK
<1>4. v \in Nat /\ "received" \in NotifyStates
  BY <1>3, InvIs, ValuesAre DEF NotifyStates
<1>5. Step("run", IF kernel.notify[t] = "waiting" THEN k ELSE s, "run") /\ UNCHANGED previous_wake
  BY <1>2 DEF SetNotify, Current
<1>6. Unmoved(s, kernel) /\ s.notify = [kernel.notify EXCEPT ![t] = "received"]
  BY <1>3, <1>4, InvIs, NotifyIs
<1> HIDE DEF s
<1>7. Effect(s, kernel, t) /\ s.notify[t] = "received"
  BY <1>3, <1>6, InvIs, NotifyTyped, UnmovedEffect
<1>8. "run" \in Plain \ {"delay_yield", "delete_yield"}
      /\ "run" \in Plain \ {"take", "wait", "delete_yield"} /\ "run" \in Labels \ LockLabels
  BY PlainIs DEF Plain
<1>9. CASE kernel.notify[t] = "waiting"
  <2>1. Good({}, s) /\ Linked(s, t) /\ c \in BOOLEAN
        /\ (~ c => ~ (s.priority[t] > s.priority[s.current]))
    BY <1>3, <1>6 DEF Unmoved
  <2> HIDE DEF c
  <2>2. Effect(k, s, t)
    BY <1>3, <2>1, ReadiedEffect
  <2>3. t \notin Sleeping(k)
    BY <1>3, <2>1, ReadiedEffect
  <2> HIDE DEF k
  <2>4. Effect(k, kernel, t)
    BY <1>3, <1>7, <2>2, EffectAfter
  <2> QED
    BY <1>3, <1>5, <1>8, <1>9, <2>3, <2>4, EffectStep
<1>10. CASE kernel.notify[t] /= "waiting"
  <2> HIDE DEF k
  <2> QED
    BY <1>3, <1>5, <1>7, <1>8, <1>10, EffectStep
<1> QED
  BY <1>9, <1>10

\* An interrupt that notifies a task.
LEMMA NotifiedKeeps ==
    ASSUME ServicesInv, UNCHANGED <<pc, masked, previous_wake>>,
           NEW t \in Alive, NEW v \in Nat, NotifiedFromISR(t, v)
    PROVE  ServicesInv' /\ DelayStep(kernel', kernel)
<1> DEFINE s == SetNotify(kernel, t, "received", v)
           c == kernel.notify[t] = "waiting" /\ s.priority[t] > s.priority[s.current]
           r == AddTaskToReadyList(Detached(s, t), t)
           p == PutToPending(s, t)
           w == IF kernel.notify[t] = "waiting" THEN IF s.locked = 0 THEN r ELSE p ELSE s
<1>1. kernel' = YieldingIf(w, c) \/ kernel' = MissedIf(w, c)
  BY DEF NotifiedFromISR, WokenFromISR, SetNotify, PutToPending, MissedIf
<1>2. t \in Users /\ t \in Tasks /\ Linked(kernel, t) /\ pc[t] /= "deleted"
  BY InvIs DEF Alive, Users, LinkedOK
<1>3. "received" \in NotifyStates
  BY DEF NotifyStates
<1>4. Unmoved(s, kernel) /\ s.notify = [kernel.notify EXCEPT ![t] = "received"]
  BY <1>2, <1>3, InvIs, NotifyIs
<1> HIDE DEF s
<1>5. Effect(s, kernel, t) /\ s.notify[t] = "received"
  BY <1>2, <1>4, InvIs, NotifyTyped, UnmovedEffect
<1>6. Good({}, s) /\ Linked(s, t) /\ s.locked = kernel.locked /\ s.pending = kernel.pending
  BY <1>2, <1>4 DEF Unmoved
<1>7. c \in BOOLEAN
  OBVIOUS
<1>8. CASE kernel.notify[t] /= "waiting"
  <2>1. w = s /\ ~ c
    BY <1>8
  <2>2. Still(YieldingIf(s, c), s)
    BY <1>6, <1>7, YieldStill
  <2>3. LET j == MissedIf(s, c)
        IN  /\ Good({}, j)
            /\ \A u \in Tasks : Linked(j, u) <=> Linked(s, u)
            /\ Served(j) <=> Served(s)
            /\ \A u : OthersReady(j, s, u)
            /\ j.current = s.current /\ j.notify = s.notify
            /\ j.tick = s.tick /\ j.pended = s.pended /\ j.locked = s.locked
            /\ j.ticking = s.ticking /\ j.pending = s.pending
            /\ j.pendsv = s.pendsv /\ (c \/ s.missed => j.missed)
            /\ Sleeping(j) = Sleeping(s) /\ j.wake = s.wake /\ j.terminating = s.terminating
    BY <1>6, <1>7, MissedIs
  <2> DEFINE y == YieldingIf(s, c)
             m == MissedIf(s, c)
  <2> HIDE DEF w, c, y, m
  <2>4. kernel' = y \/ kernel' = m
    BY <1>1, <2>1 DEF y, m
  <2>5. Effect(y, s, t)
    BY <2>2 DEF Still, Effect, y
  <2>6. Runs(s) => Runs(m)
    BY <2>3 DEF Runs, m
  <2>7. Effect(m, s, t)
    BY <2>3, <2>6 DEF Effect, m
  <2>8. y.notify = s.notify /\ m.notify = s.notify
    BY <2>2, <2>3 DEF Still, y, m
  <2>9. Effect(kernel', kernel, t)
    BY <1>2, <1>5, <2>4, <2>5, <2>7, EffectAfter
  <2>10. kernel'.notify[t] /= "waiting"
    BY <1>5, <2>4, <2>8
  <2> QED
    BY <1>2, <1>8, <2>9, <2>10, EffectFromISR
<1>9. CASE kernel.notify[t] = "waiting" /\ s.locked = 0
  <2>1. w = r /\ (~ c => ~ (s.priority[t] > s.priority[s.current]))
    BY <1>9
  <2> DEFINE y == YieldingIf(r, c)
             m == MissedIf(r, c)
  <2>2. kernel' = y \/ kernel' = m
    BY <1>1, <2>1
  <2> HIDE DEF c, w
  <2>3. Effect(y, s, t) /\ Effect(m, s, t)
    BY <1>2, <1>6, <1>7, <2>1, ReadiedEffect
  <2>4. t \notin Sleeping(y) /\ t \notin Sleeping(m) /\ y.notify = s.notify /\ m.notify = s.notify
    BY <1>2, <1>6, <1>7, <2>1, ReadiedEffect
  <2> HIDE DEF y, m
  <2>5. Effect(kernel', kernel, t)
    BY <1>2, <1>5, <2>2, <2>3, EffectAfter
  <2>6. t \notin Sleeping(kernel') /\ kernel'.notify[t] /= "waiting"
    BY <1>5, <2>2, <2>4
  <2> QED
    BY <1>2, <1>9, <2>5, <2>6, EffectFromISR
<1>10. CASE kernel.notify[t] = "waiting" /\ s.locked /= 0
  <2>1. w = p
    BY <1>10
  <2>2. t \notin Range(s.pending) /\ kernel.locked /= 0
    BY <1>6, <1>10, InvIs DEF PendingOK
  <2> DEFINE i == kernel'
  <2>3. i \in {p, YieldingIf(p, c), MissedIf(p, c)}
    BY <1>1, <2>1
  <2> HIDE DEF c, w
  <2>4. PendedTo(p, s, t) /\ PendedTo(YieldingIf(p, c), s, t) /\ PendedTo(MissedIf(p, c), s, t)
    BY <1>2, <1>6, <1>7, <2>2, PendedRuns
  <2> HIDE DEF i
  <2>5. PendedTo(i, s, t)
    BY <2>3, <2>4
  <2>6. Runs(i)
    BY <1>5, <2>5, InvIs DEF Effect, PendedTo
  <2>7. \A u : OthersReady(i, kernel, u)
    BY <1>4, <2>5 DEF OthersReady, Unmoved, PendedTo
  <2>8. /\ \A u \in Tasks : u /= t => i.notify[u] = kernel.notify[u]
        /\ i.notify[t] /= "waiting"
    BY <1>5, <2>5 DEF Effect, PendedTo
  <2>9. \A u \in Tasks : Linked(i, u) <=> Linked(kernel, u)
    BY <1>4, <2>5 DEF Unmoved, PendedTo
  <2>10. /\ i.current = kernel.current /\ i.tick = kernel.tick /\ i.locked = kernel.locked
         /\ i.ticking = kernel.ticking /\ (kernel.pendsv => i.pendsv)
         /\ Range(i.pending) = Range(kernel.pending) \cup {t}
         /\ Sleeping(i) = Sleeping(kernel) /\ i.wake = kernel.wake
         /\ i.terminating = kernel.terminating /\ Good({}, i)
    BY <1>4, <1>6, <2>5 DEF Unmoved, PendedTo
  <2>11. kernel' = i
    BY DEF i
  <2> QED
    BY <1>2, <2>2, <2>6, <2>7, <2>8, <2>9, <2>10, <2>11, PendStep
<1> QED
  BY <1>8, <1>9, <1>10

LEMMA NotifyFromISRKeeps ==
    ASSUME ServicesInv, xTaskGenericNotifyFromISR \/ vTaskNotifyGiveFromISR
    PROVE  ServicesInv' /\ DelayStep(kernel', kernel)
<1>1. ASSUME NEW t \in Alive, NEW v \in NotifiedValues(t), NotifiedFromISR(t, v),
             UNCHANGED <<pc, masked, previous_wake>>
      PROVE  ServicesInv' /\ DelayStep(kernel', kernel)
  <2>1. v \in Nat
    BY InvIs, ValuesAre DEF Alive, Users
  <2> QED
    BY <1>1, <2>1, NotifiedKeeps
<1>2. ASSUME NEW t \in Alive, NotifiedFromISR(t, kernel.value[t] + 1),
             UNCHANGED <<pc, masked, previous_wake>>
      PROVE  ServicesInv' /\ DelayStep(kernel', kernel)
  <2> DEFINE v == kernel.value[t] + 1
  <2>1. v \in Nat
    BY InvIs, NotifyTyped DEF Alive, Users
  <2>2. NotifiedFromISR(t, v)
    BY <1>2
  <2> HIDE DEF v
  <2> QED
    BY <1>2, <2>1, <2>2, NotifiedKeeps
<1> QED
  BY <1>1, <1>2 DEF xTaskGenericNotifyFromISR, vTaskNotifyGiveFromISR

LEMMA StateClearKeeps ==
    ASSUME ServicesInv, xTaskNotifyStateClear
    PROVE  ServicesInv' /\ DelayStep(kernel', kernel)
<1>1. PICK t \in Alive :
        /\ kernel.notify[t] = "received"
        /\ Step("run", [kernel EXCEPT !.notify[t] = "not_waiting"], "run")
        /\ UNCHANGED previous_wake
  BY DEF xTaskNotifyStateClear
<1> DEFINE s == SetState(kernel, t, "not_waiting")
<1>2. t \in Users /\ t \in Tasks /\ "not_waiting" \in NotifyStates
  BY DEF Alive, Users, NotifyStates
<1>3. Step("run", s, "run")
  BY <1>1 DEF SetState
<1>4. Unmoved(s, kernel) /\ s.notify = [kernel.notify EXCEPT ![t] = "not_waiting"]
  BY <1>2, InvIs, StateIs
<1> HIDE DEF s
<1>5. Effect(s, kernel, t)
  BY <1>2, <1>4, InvIs, NotifyTyped, UnmovedEffect
<1>6. "run" \in Plain \ {"delay_yield", "delete_yield"}
      /\ "run" \in Plain \ {"take", "wait", "delete_yield"}
  BY PlainIs
<1> QED
  BY <1>1, <1>2, <1>3, <1>5, <1>6, EffectStep

-----------------------------------------------------------------------------
\* prvAddCurrentTaskToDelayedList, as the sleepers see it.
DelayedTo(a, k, ticks) ==
    /\ Good({}, a)
    /\ \A u \in Tasks : Linked(a, u) <=> Linked(k, u) \/ u = k.current
    /\ Served(k) => Served(a)
    /\ \/ Sleeping(a) = Sleeping(k) \ {k.current}
       \/ Sleeping(a) = Sleeping(k) \cup {k.current}
             /\ a.wake[k.current] = Later(k.tick, ticks)
    /\ \A u \in Tasks : u /= k.current => a.wake[u] = k.wake[u]
    /\ Framed(a, k) /\ a.pending = k.pending
    /\ a.terminating = k.terminating \ {k.current}
    /\ OthersReady(a, k, k.current)

LEMMA DelaysTo ==
    ASSUME NEW k, Good({}, k), ~ k.ticking, NEW ticks \in Ticks \ {0}, NEW b \in BOOLEAN
    PROVE  DelayedTo(AddCurrentTaskToDelayedList(k, ticks, b), k, ticks)
BY DelayedIs DEF DelayedTo

\* A task that goes to sleep does what DelayStep says.
LEMMA FallsAsleep ==
    ASSUME NEW k, Good({}, k), k.current \notin Sleeping(k),
           NEW a, Sleeping(a) \subseteq Sleeping(k) \cup {k.current},
           NEW ticks \in Ticks \ {0},
           \/ Sleeping(a) = Sleeping(k) \ {k.current}
           \/ Sleeping(a) = Sleeping(k) \cup {k.current} /\ a.wake[k.current] = Later(k.tick, ticks),
           a.pending = k.pending, a.tick = k.tick,
           \A u \in Tasks : u /= k.current => a.wake[u] = k.wake[u]
    PROVE  DelayStep(a, k)
<1>1. Sleeping(k) \subseteq Tasks /\ ticks \in 1..MaxDelay
  BY AsleepTasks DEF Ticks
<1>2. CASE Sleeping(a) = Sleeping(k) \ {k.current}
  <2>1. WokenStep(a, k)
    BY <1>1, <1>2 DEF WokenStep, Asleep
  <2> QED
    BY <2>1 DEF DelayStep
<1>3. CASE Sleeping(a) = Sleeping(k) \cup {k.current} /\ a.wake[k.current] = Later(k.tick, ticks)
  <2>1. CASE k.current \in Range(k.pending)
    <3>1. WokenStep(a, k)
      BY <1>1, <1>3, <2>1 DEF WokenStep, Asleep
    <3> QED
      BY <3>1 DEF DelayStep
  <2>2. CASE k.current \notin Range(k.pending)
    <3>1. SleepsStep(a, k, ticks)
      BY <1>1, <1>3, <2>2 DEF SleepsStep, Asleep
    <3> QED
      BY <1>1, <3>1 DEF DelayStep
  <2> QED
    BY <2>1, <2>2
<1> QED
  BY <1>2, <1>3

\* The first critical sections of ulTaskNotifyTake and xTaskNotifyWait.
LEMMA WaitStep ==
    ASSUME ServicesInv, UNCHANGED previous_wake, NEW to \in {"take", "wait"},
           NEW ticks \in Ticks, NEW k, Step("run", k, to),
           LET waits == SetState(kernel, kernel.current, "waiting")
           IN  \/ k = kernel \/ k = waits
               \/ ticks /= 0 /\ k = Yielding(AddCurrentTaskToDelayedList(waits, ticks, TRUE))
    PROVE  ServicesInv' /\ DelayStep(kernel', kernel)
<1> DEFINE c == kernel.current
           w == SetState(kernel, c, "waiting")
           a == AddCurrentTaskToDelayedList(w, ticks, TRUE)
<1>1. /\ "run" \in Labels \ (LockLabels \cup {"idle"}) /\ "run" \in Labels \ LockLabels
      /\ to \in Labels \ (LockLabels \cup {"idle", "deleted"})
  BY DEF Labels, LockLabels, Locking
<1>2. /\ pc[c] = "run" /\ ~ kernel.ticking /\ kernel.pending = <<>>
      /\ c \notin Sleeping(kernel) /\ c \in Tasks /\ c /= Idle
  <2>1. \A t \in Tasks : pc[t] = "idle" <=> t = Idle
    BY InvIs DEF PcOK
  <2>2. /\ pc[c] = "run" /\ ~ kernel.ticking /\ kernel.pending = <<>>
        /\ c \notin Sleeping(kernel) /\ c \in Tasks
    BY <1>1, AtIs, InvIs DEF Step
  <2> QED
    BY <2>1, <2>2
<1>3. Unmoved(w, kernel) /\ w.notify = [kernel.notify EXCEPT ![c] = "waiting"]
  BY <1>2, InvIs, StateIs DEF NotifyStates
<1> HIDE DEF w, c
<1>4. kernel' = k
  BY DEF Step, Goes
<1>5. c \notin kernel.terminating /\ Linked(kernel, c)
  BY <1>2, InvIs DEF LinkedOK, c
<1>6. kernel.notify \in [Tasks -> NotifyStates] /\ Sleeping(kernel) \subseteq Tasks
  BY InvIs, NotifyTyped, AsleepTasks
<1>7. CASE k = kernel
  <2>1. ServicesInv'
    BY <1>1, <1>2, <1>5, <1>7, InvIs, TaskStep DEF LinkedOK, c
  <2>2. WokenStep(kernel', kernel)
    BY <1>4, <1>7 DEF WokenStep
  <2> QED
    BY <2>1, <2>2 DEF DelayStep
<1>8. CASE k = w
  <2>1. Runs(w) /\ Ready(w, Idle)
    BY <1>3, InvIs DEF Runs, Unmoved, OthersReady, LinkedOK
  <2>2. \A u \in Sleeping(w) \ {c} : kernel.notify[u] = "waiting" => w.notify[u] = "waiting"
    BY <1>3, <1>6 DEF Unmoved
  <2>3. ServicesInv'
    BY <1>1, <1>2, <1>3, <1>5, <1>8, <2>1, <2>2, TaskStep DEF Unmoved, c
  <2>4. WokenStep(kernel', kernel)
    BY <1>3, <1>4, <1>8 DEF WokenStep, Asleep, Unmoved
  <2> QED
    BY <2>3, <2>4 DEF DelayStep
<1>9. CASE ticks /= 0 /\ k = Yielding(a)
  <2>1. Good({}, w) /\ ~ w.ticking /\ ticks \in Ticks \ {0} /\ TRUE \in BOOLEAN /\ w.current = c
    BY <1>2, <1>3, <1>9 DEF Unmoved, c
  <2>2. DelayedTo(a, w, ticks)
    BY <2>1, DelaysTo
  <2> HIDE DEF a
  <2>3. Good({}, a)
    BY <2>2 DEF DelayedTo
  <2>4. Still(k, a) /\ k.pendsv
    BY <1>9, <2>3, YieldingStill
  <2>5. Runs(k)
    BY <2>4 DEF Runs
  <2>6. OthersReady(k, kernel, c)
    BY <1>3, <2>1, <2>2, <2>4 DEF OthersReady, Unmoved, DelayedTo, Still
  <2>7. Ready(k, Idle)
    BY <1>2, <2>6, InvIs DEF OthersReady, LinkedOK
  <2>8. \A u \in Tasks : Linked(k, u) <=> Linked(kernel, u)
    BY <1>3, <1>5, <2>1, <2>2, <2>4 DEF Unmoved, DelayedTo, Still
  <2>9. /\ k.current = c /\ k.pended = kernel.pended /\ k.locked = kernel.locked
        /\ ~ k.ticking /\ k.pending = <<>> /\ k.tick = kernel.tick
        /\ k.terminating = kernel.terminating \ {c}
        /\ Good({}, k) /\ k.notify = w.notify
    BY <1>2, <1>3, <2>1, <2>2, <2>4 DEF Unmoved, DelayedTo, Still, Framed
  <2>10. /\ \/ Sleeping(k) = Sleeping(kernel) \ {c}
            \/ Sleeping(k) = Sleeping(kernel) \cup {c} /\ k.wake[c] = Later(kernel.tick, ticks)
         /\ \A u \in Tasks : u /= c => k.wake[u] = kernel.wake[u]
    BY <1>3, <2>1, <2>2, <2>4 DEF Unmoved, DelayedTo, Still
  <2>11. /\ \A u \in Sleeping(k) \ {c} : kernel.notify[u] = "waiting" => k.notify[u] = "waiting"
         /\ k.notify[c] = "waiting"
    BY <1>2, <1>3, <1>6, <2>9, <2>10
  <2>12. Sleeping(k) \subseteq Sleeping(kernel) \cup {c}
    BY <2>10
  <2>13. ServicesInv'
    BY <1>1, <2>4, <2>5, <2>7, <2>8, <2>9, <2>11, <2>12, TaskStep DEF c
  <2>14. DelayStep(kernel', kernel)
    BY <1>2, <1>4, <2>1, <2>9, <2>10, <2>12, InvIs, FallsAsleep DEF c
  <2> QED
    BY <2>13, <2>14
<1> QED
  BY <1>7, <1>8, <1>9 DEF w, c, a

LEMMA BlockTimesAre == BlockTimes \subseteq Ticks /\ Increments \subseteq Ticks \ {0}
BY TaskServicesAssumption

LEMMA TakeKeeps ==
    ASSUME ServicesInv, ulTaskNotifyTake
    PROVE  ServicesInv' /\ DelayStep(kernel', kernel)
<1>1. UNCHANGED previous_wake
  BY DEF ulTaskNotifyTake
<1>2. ASSUME NEW ticks \in BlockTimes, Step("run", Takes(kernel, ticks), "take")
      PROVE  ServicesInv' /\ DelayStep(kernel', kernel)
  <2> DEFINE k == Takes(kernel, ticks)
             w == SetState(kernel, kernel.current, "waiting")
  <2>1. kernel.value[kernel.current] \in Nat
    BY InvIs, NotifyTyped
  <2>2. \/ k = kernel \/ k = w
        \/ ticks /= 0 /\ k = Yielding(AddCurrentTaskToDelayedList(w, ticks, TRUE))
    <3>1. CASE kernel.value[kernel.current] > 0
      <4>1. ~ (kernel.value[kernel.current] = 0)
        BY <3>1
      <4> QED
        BY <3>1, <4>1, Zenon DEF Takes
    <3>2. CASE ~ (kernel.value[kernel.current] > 0)
      <4>1. kernel.value[kernel.current] = 0
        BY <2>1, <3>2
      <4> QED
        BY <3>2, <4>1, Zenon DEF Takes, SetState
    <3> QED
      BY <3>1, <3>2
  <2> HIDE DEF k
  <2>3. Step("run", k, "take") /\ ticks \in Ticks
    BY <1>2, BlockTimesAre DEF k
  <2> QED
    BY <1>1, <2>2, <2>3, WaitStep
<1>3. ASSUME NEW rest \in {0, kernel.value[Current] - 1},
             Step("take", [kernel EXCEPT !.value[Current] = IF @ = 0 THEN 0 ELSE rest,
                                         !.notify[Current] = "not_waiting"], "run")
      PROVE  ServicesInv' /\ DelayStep(kernel', kernel)
  <2> DEFINE c == kernel.current
             v == IF kernel.value[c] = 0 THEN 0 ELSE rest
             s == SetNotify(kernel, c, "not_waiting", v)
  <2>1. kernel.value \in [Tasks -> Nat] /\ c \in Tasks
    BY InvIs, NotifyTyped
  <2>2. v \in Nat
    BY <1>3, <2>1 DEF Current
  <2>3. Step("take", s, "run")
    <3>1. [kernel EXCEPT !.value[Current] = IF @ = 0 THEN 0 ELSE rest,
                         !.notify[Current] = "not_waiting"] = s
      BY <2>1, InvIs DEF SetNotify, Kernels, Current
    <3> QED
      BY <1>3, <3>1, Zenon
  <2> HIDE DEF v
  <2>4. Unmoved(s, kernel) /\ s.notify = [kernel.notify EXCEPT ![c] = "not_waiting"]
    <3>1. "not_waiting" \in NotifyStates
      BY DEF NotifyStates
    <3> QED
      BY <2>1, <2>2, <3>1, InvIs, NotifyIs
  <2> HIDE DEF s
  <2>5. Effect(s, kernel, c)
    BY <2>1, <2>4, InvIs, NotifyTyped, UnmovedEffect
  <2>6. c \in Users
    <3>1. pc[c] = "take"
      BY <2>3 DEF Step, At, Is
    <3>2. \A t \in Tasks : pc[t] = "idle" <=> t = Idle
      BY InvIs DEF PcOK
    <3> QED
      BY <2>1, <3>1, <3>2 DEF Users
  <2>7. "take" \in Plain \ {"delay_yield", "delete_yield"}
        /\ "run" \in Plain \ {"take", "wait", "delete_yield"}
    BY PlainIs
  <2> QED
    BY <1>1, <2>3, <2>5, <2>6, <2>7, EffectStep
<1> QED
  BY <1>1, <1>2, <1>3 DEF ulTaskNotifyTake

LEMMA WaitKeeps ==
    ASSUME ServicesInv, xTaskNotifyWait
    PROVE  ServicesInv' /\ DelayStep(kernel', kernel)
<1>1. UNCHANGED previous_wake
  BY DEF xTaskNotifyWait
<1>2. ASSUME NEW ticks \in BlockTimes, Step("run", Waits(kernel, ticks), "wait")
      PROVE  ServicesInv' /\ DelayStep(kernel', kernel)
  <2> DEFINE k == Waits(kernel, ticks)
             w == SetState(kernel, kernel.current, "waiting")
  <2>1. \/ k = kernel \/ k = w
        \/ ticks /= 0 /\ k = Yielding(AddCurrentTaskToDelayedList(w, ticks, TRUE))
    BY DEF Waits, SetState
  <2> HIDE DEF k
  <2>2. Step("run", k, "wait") /\ ticks \in Ticks
    BY <1>2, BlockTimesAre DEF k
  <2> QED
    BY <1>1, <2>1, <2>2, WaitStep
<1>3. ASSUME Step("wait", [kernel EXCEPT !.notify[Current] = "not_waiting"], "run")
      PROVE  ServicesInv' /\ DelayStep(kernel', kernel)
  <2> DEFINE c == kernel.current
             s == SetState(kernel, c, "not_waiting")
  <2>1. c \in Tasks
    BY InvIs
  <2>2. Step("wait", s, "run")
    BY <1>3 DEF SetState, Current
  <2>3. Unmoved(s, kernel) /\ s.notify = [kernel.notify EXCEPT ![c] = "not_waiting"]
    BY <2>1, InvIs, StateIs DEF NotifyStates
  <2> HIDE DEF s
  <2>4. Effect(s, kernel, c)
    BY <2>1, <2>3, InvIs, NotifyTyped, UnmovedEffect
  <2>5. c \in Users
    <3>1. pc[c] = "wait"
      BY <2>2 DEF Step, At, Is
    <3>2. \A t \in Tasks : pc[t] = "idle" <=> t = Idle
      BY InvIs DEF PcOK
    <3> QED
      BY <2>1, <3>1, <3>2 DEF Users
  <2>6. "wait" \in Plain \ {"delay_yield", "delete_yield"}
        /\ "run" \in Plain \ {"take", "wait", "delete_yield"}
    BY PlainIs
  <2> QED
    BY <1>1, <2>2, <2>4, <2>5, <2>6, EffectStep
<1> QED
  BY <1>1, <1>2, <1>3 DEF xTaskNotifyWait

-----------------------------------------------------------------------------
\* A task is out of every list: it is deleted.
LEMMA DeletedStep ==
    ASSUME ServicesInv, UNCHANGED <<masked, previous_wake>>,
           NEW t \in Users, t /= kernel.current, pc' = [pc EXCEPT ![t] = "deleted"],
           NEW k, kernel' = k, Good({}, k), Runs(k), Range(kernel.pending) = {},
           \A u \in Tasks : Linked(k, u) <=> Linked(kernel, u) /\ u /= t,
           OthersReady(k, kernel, t),
           k.current = kernel.current, k.tick = kernel.tick, k.pended = kernel.pended,
           k.locked = kernel.locked, k.ticking = kernel.ticking, k.pending = <<>>,
           kernel.pendsv => k.pendsv, k.notify = kernel.notify,
           k.terminating = kernel.terminating \ {t}, Sleeping(k) = Sleeping(kernel) \ {t},
           \A u \in Tasks : u /= t => k.wake[u] = kernel.wake[u]
    PROVE  ServicesInv' /\ DelayStep(kernel', kernel)
<1>1. /\ t \in Tasks /\ t /= Idle /\ Range(k.pending) = {} /\ pc \in [Tasks -> Labels]
      /\ Sleeping(kernel) \subseteq Tasks
  BY InvIs, AsleepTasks DEF Users, Range, PcOK
<1>2. pc'[t] = "deleted" /\ \A u \in Tasks : u /= t => pc'[u] = pc[u]
  BY <1>1
<1>3. PcOK'
  <2>1. pc' \in [Tasks -> Labels]
    BY <1>1 DEF Labels
  <2>2. \A u \in Tasks : pc[u] = "idle" <=> u = Idle
    BY InvIs DEF PcOK
  <2> QED
    BY <1>1, <1>2, <2>1, <2>2, InvIs DEF PcOK
<1>4. LinkedOK'
  <2>1. /\ \A u \in Tasks : Linked(kernel, u) <=> pc[u] /= "deleted"
        /\ \A u \in kernel.terminating : pc[u] = "delete_yield"
        /\ pc[kernel.current] /= "deleted" /\ Ready(kernel, Idle)
        /\ kernel.terminating \subseteq Tasks /\ kernel.current \in Tasks
    BY InvIs DEF LinkedOK, Kernels
  <2>2. \A u \in Tasks : Linked(k, u) <=> pc'[u] /= "deleted"
    BY <1>2, <2>1
  <2>3. \A u \in k.terminating : pc'[u] = "delete_yield"
    BY <1>2, <2>1
  <2>4. Ready(k, Idle) /\ pc'[k.current] /= "deleted"
    BY <1>1, <1>2, <2>1, InvIs DEF OthersReady
  <2> QED
    BY <2>2, <2>3, <2>4 DEF LinkedOK
<1>5. PendingOK' /\ NothingPending'
  BY <1>1, InvIs DEF PendingOK, NothingPending
<1>6. LockedOK'
  <2>1. pc'[kernel.current] = pc[kernel.current]
    BY <1>2, InvIs
  <2>2. \A u \in Tasks : pc'[u] \in LockLabels => u = kernel.current
    BY <1>2, InvIs DEF LockedOK, LockLabels, Locking
  <2> QED
    BY <2>1, <2>2, InvIs DEF LockedOK
<1>7. WaitingOK'
  BY <1>1, <1>2, InvIs DEF WaitingOK
<1>8. AsleepOK'
  <2>1. pc'[kernel.current] = pc[kernel.current]
    BY <1>2, InvIs
  <2> QED
    BY <2>1, InvIs DEF AsleepOK
<1>9. WokenStep(kernel', kernel)
  BY <1>1 DEF WokenStep, Asleep
<1> QED
  BY <1>3, <1>4, <1>5, <1>6, <1>7, <1>8, <1>9 DEF ServicesInv, ControlOK, DelayStep

\* uxListRemove of both items.
RemovedTo(e, k, t) ==
    /\ Good({}, e) /\ ~ Linked(e, t)
    /\ \A u \in Tasks : Linked(e, u) <=> Linked(k, u) /\ u /= t
    /\ Runs(k) => Runs(e)
    /\ OthersReady(e, k, t)
    /\ Framed(e, k) /\ Range(e.pending) = Range(k.pending) \ {t} /\ e.pending \in Seq(Tasks)
    /\ Sleeping(e) = Sleeping(k) \ {t} /\ e.terminating = k.terminating \ {t}
    /\ \A u \in Tasks : u /= t => e.wake[u] = k.wake[u]

LEMMA RemovesTo ==
    ASSUME NEW k, Good({}, k), NEW t \in Tasks
    PROVE  /\ RemovedTo(EventDetached(Detached(k, t), t), k, t)
           /\ k.pending = <<>> => RemovedTo(Detached(k, t), k, t)
<1> DEFINE d == Detached(k, t)
           e == EventDetached(d, t)
<1>1. /\ Good({}, d)
      /\ \A u \in Tasks : Linked(d, u) <=> Linked(k, u) /\ u /= t
      /\ Served(k) => Served(d)
      /\ Range(d.delayed) = Range(k.delayed) \ {t}
      /\ Range(d.overflow) = Range(k.overflow) \ {t}
      /\ \A u \in Tasks : u /= t => d.wake[u] = k.wake[u]
      /\ Framed(d, k) /\ d.pending = k.pending /\ OthersReady(d, k, t)
      /\ d.terminating = k.terminating \ {t}
  BY DetachedIs
<1> HIDE DEF d
<1>2. /\ Good({}, e)
      /\ \A u \in Tasks : Linked(e, u) <=> Linked(d, u)
      /\ Served(d) => Served(e)
      /\ Range(e.pending) = Range(d.pending) \ {t}
      /\ Framed(e, d)
      /\ \A u : OthersReady(e, d, u)
      /\ Sleeping(e) = Sleeping(d) /\ e.wake = d.wake /\ e.terminating = d.terminating
  BY <1>1, EventDetachedIs
<1> HIDE DEF e
<1>3. Sleeping(d) = Sleeping(k) \ {t}
  BY <1>1 DEF Sleeping
<1>4. d.pending \in Seq(Tasks) /\ e.pending \in Seq(Tasks)
  BY <1>1, <1>2 DEF Good, Sound, Kernels
<1>5. (Runs(k) => Runs(d)) /\ (Runs(d) => Runs(e))
  BY <1>1, <1>2 DEF Runs, Framed
<1>6. OthersReady(e, k, t)
  BY <1>1, <1>2 DEF OthersReady
<1>7. Framed(e, k)
  BY <1>1, <1>2 DEF Framed
<1>8. RemovedTo(e, k, t)
  BY <1>1, <1>2, <1>3, <1>4, <1>5, <1>6, <1>7 DEF RemovedTo
<1>9. ASSUME k.pending = <<>> PROVE RemovedTo(d, k, t)
  <2>1. Range(k.pending) = {}
    BY <1>9 DEF Range
  <2> QED
    BY <1>1, <1>3, <1>4, <1>5, <2>1 DEF RemovedTo
<1> QED
  BY <1>8, <1>9 DEF d, e

LEMMA DeleteKeeps ==
    ASSUME ServicesInv, vTaskDelete
    PROVE  ServicesInv' /\ DelayStep(kernel', kernel)
<1>1. UNCHANGED <<masked, previous_wake>>
  BY DEF vTaskDelete
<1>2. /\ "run" \in Labels \ (LockLabels \cup {"idle"}) /\ "run" \in Labels \ LockLabels
      /\ "delete_yield" \in Labels \ (LockLabels \cup {"idle", "deleted"})
      /\ "delete_yield" \in Plain \ {"take", "wait"} /\ "delete_yield" \in Plain
  BY DEF Plain, Labels, LockLabels, Locking
<1>3. ASSUME At("run"), Current \in Users,
             Goes([EventDetached(Detached(kernel, Current), Current) EXCEPT
                      !.terminating = @ \cup {Current}], "delete_yield")
      PROVE  ServicesInv' /\ DelayStep(kernel', kernel)
  <2> DEFINE c == kernel.current
             e == EventDetached(Detached(kernel, c), c)
             k == PutToTerminating(e, c)
  <2>1. Step("run", k, "delete_yield")
    BY <1>1, <1>3 DEF Step, PutToTerminating, Current
  <2>2. /\ pc[c] = "run" /\ ~ kernel.ticking /\ kernel.pending = <<>> /\ Range(kernel.pending) = {}
        /\ c \notin Sleeping(kernel) /\ c \in Tasks /\ c /= Idle
    BY <1>2, <1>3, AtIs, InvIs DEF Current, Users
  <2>3. RemovedTo(e, kernel, c)
    BY <2>2, InvIs, RemovesTo
  <2> HIDE DEF e
  <2>4. Good({}, e) /\ ~ Linked(e, c)
    BY <2>3 DEF RemovedTo
  <2>5. /\ Good({}, k)
        /\ \A u \in Tasks : Linked(k, u) <=> Linked(e, u) \/ u = c
        /\ Served(e) => Served(k)
        /\ Sleeping(k) = Sleeping(e) /\ k.wake = e.wake
        /\ k.terminating = e.terminating \cup {c}
        /\ Framed(k, e) /\ k.pending = e.pending
        /\ \A u : OthersReady(k, e, u)
    BY <2>2, <2>4, TerminatedIs
  <2> HIDE DEF k
  <2>6. Runs(k)
    <3>1. Runs(e)
      BY <2>3, InvIs DEF RemovedTo
    <3> QED
      BY <2>5, <3>1 DEF Runs, Framed
  <2>7. OthersReady(k, kernel, c)
    BY <2>3, <2>5 DEF OthersReady, RemovedTo
  <2>8. Ready(k, Idle)
    BY <2>2, <2>7, InvIs DEF OthersReady, LinkedOK
  <2>9. Linked(kernel, c)
    BY <2>2, InvIs DEF LinkedOK
  <2>10. \A u \in Tasks : Linked(k, u) <=> Linked(kernel, u)
    BY <2>3, <2>5, <2>9 DEF RemovedTo
  <2>11. k.pending = <<>>
    BY <2>2, <2>3, <2>5, NothingIn DEF RemovedTo
  <2>12. /\ k.current = c /\ k.pended = kernel.pended /\ k.locked = kernel.locked
         /\ ~ k.ticking /\ k.tick = kernel.tick /\ k.notify = kernel.notify
    BY <2>2, <2>3, <2>5 DEF RemovedTo, Framed
  <2>13. /\ k.terminating \subseteq kernel.terminating \cup {c}
         /\ Sleeping(k) = Sleeping(kernel) \ {c}
         /\ \A u \in Tasks : u /= c => k.wake[u] = kernel.wake[u]
    BY <2>3, <2>5 DEF RemovedTo
  <2> HIDE DEF c
  <2>14. ServicesInv'
    BY <1>1, <1>2, <2>1, <2>5, <2>6, <2>8, <2>10, <2>11, <2>12, <2>13, TaskStep DEF c
  <2>15. kernel' = k /\ Sleeping(kernel) \subseteq Tasks
    BY <2>1, InvIs, AsleepTasks DEF Step, Goes
  <2>16. WokenStep(kernel', kernel)
    BY <2>2, <2>11, <2>12, <2>13, <2>15 DEF WokenStep, Asleep
  <2> QED
    BY <2>14, <2>16 DEF DelayStep
<1>4. ASSUME At("delete_yield"), Goes(Yielding(kernel), "delete_yield")
      PROVE  ServicesInv' /\ DelayStep(kernel', kernel)
  <2>1. Step("delete_yield", Yielding(kernel), "delete_yield")
    BY <1>1, <1>4 DEF Step
  <2> QED
    BY <1>1, <1>2, <2>1, InvIs, YieldingStill, StillStep
<1>5. ASSUME NEW t \in Alive \ {Current}, At("run"),
             kernel' = ResetNextTaskUnblockTime(EventDetached(Detached(kernel, t), t)),
             pc' = [pc EXCEPT ![t] = "deleted"]
      PROVE  ServicesInv' /\ DelayStep(kernel', kernel)
  <2> DEFINE e == EventDetached(Detached(kernel, t), t)
             k == ResetNextTaskUnblockTime(e)
  <2>1. /\ ~ kernel.ticking /\ kernel.pending = <<>> /\ Range(kernel.pending) = {}
        /\ t \in Users /\ t \in Tasks /\ t /= kernel.current
    BY <1>2, <1>5, AtIs DEF Current, Users, Alive
  <2>2. RemovedTo(e, kernel, t)
    BY <2>1, InvIs, RemovesTo
  <2>3. kernel' = k
    BY <1>5
  <2> HIDE DEF e
  <2>4. Good({}, e) /\ ~ e.ticking
    BY <2>1, <2>2 DEF RemovedTo, Framed
  <2>5. Still(k, e)
    BY <2>4, ResetStill
  <2> HIDE DEF k
  <2>6. Good({}, k) /\ Runs(k)
    BY <2>2, <2>5, InvIs DEF RemovedTo, Still
  <2>7. OthersReady(k, kernel, t)
    BY <2>2, <2>5 DEF RemovedTo, Still, OthersReady
  <2>8. \A u \in Tasks : Linked(k, u) <=> Linked(kernel, u) /\ u /= t
    BY <2>2, <2>5 DEF RemovedTo, Still
  <2>9. k.pending = <<>>
    BY <2>1, <2>2, <2>5, NothingIn DEF RemovedTo, Still
  <2>10. /\ k.current = kernel.current /\ k.tick = kernel.tick /\ k.pended = kernel.pended
         /\ k.locked = kernel.locked /\ k.ticking = kernel.ticking
         /\ kernel.pendsv => k.pendsv
         /\ k.notify = kernel.notify
    BY <2>2, <2>5 DEF RemovedTo, Still, Framed
  <2>11. /\ k.terminating = kernel.terminating \ {t} /\ Sleeping(k) = Sleeping(kernel) \ {t}
         /\ \A u \in Tasks : u /= t => k.wake[u] = kernel.wake[u]
    BY <2>2, <2>5 DEF RemovedTo, Still
  <2> QED
    BY <1>1, <1>5, <2>1, <2>3, <2>6, <2>7, <2>8, <2>9, <2>10, <2>11, DeletedStep
<1> QED
  BY <1>3, <1>4, <1>5 DEF vTaskDelete

LEMMA AddNewKeeps ==
    ASSUME ServicesInv, AddNewTaskToReadyList
    PROVE  ServicesInv' /\ DelayStep(kernel', kernel)
<1>1. PICK t \in Users, p \in Priorities :
        /\ At("run") /\ pc[t] = "deleted"
        /\ kernel' = YieldingIf(
              AddTaskToReadyList([kernel EXCEPT !.priority[t] = p, !.base[t] = p,
                                                !.order[t] = MaxPriorities - p,
                                                !.notify[t] = "not_waiting", !.value[t] = 0], t),
              kernel.priority[Current] < p)
        /\ pc' = [pc EXCEPT ![t] = "run"]
        /\ previous_wake' = [previous_wake EXCEPT ![t] = kernel.tick]
        /\ UNCHANGED masked
  BY DEF AddNewTaskToReadyList
<1> DEFINE o == MaxPriorities - p
           s == SetPriority(kernel, t, p, p, o)
           n == SetNotify(s, t, "not_waiting", 0)
           a == AddTaskToReadyList(n, t)
           c == kernel.priority[kernel.current] < p
           k == YieldingIf(a, c)
<1>2. /\ t \in Tasks /\ t /= Idle /\ o \in Nat /\ "not_waiting" \in NotifyStates /\ 0 \in Nat
      /\ "run" \in Labels \ LockLabels
  BY SchedulerAssumption DEF Users, NotifyStates, Priorities, Labels, LockLabels, Locking
<1>3. /\ t /= kernel.current /\ ~ Linked(kernel, t) /\ ~ Ready(kernel, t)
      /\ Range(kernel.pending) = {} /\ kernel.pending = <<>> /\ ~ masked /\ ~ kernel.ticking
      /\ kernel.locked = 0
  <2>1. ~ Linked(kernel, t) /\ t /= kernel.current
    BY <1>1, <1>2, InvIs DEF LinkedOK
  <2> QED
    BY <1>1, <1>2, <2>1, AtIs DEF Linked, Ready
<1>4. kernel' = k
  <2>1. [kernel EXCEPT !.priority[t] = p, !.base[t] = p, !.order[t] = o,
                       !.notify[t] = "not_waiting", !.value[t] = 0] = n
    BY InvIs DEF SetPriority, SetNotify, Kernels
  <2> HIDE DEF n
  <2> QED
    BY <1>1, <2>1 DEF Current
<1> HIDE DEF o
<1>5. /\ Good({}, s)
      /\ \A u \in Tasks : Linked(s, u) <=> Linked(kernel, u)
      /\ t /= kernel.current => (Served(s) <=> Served(kernel))
      /\ Reprioritises(s, kernel, t, p, p, o)
      /\ StaysPut(s, kernel) /\ s.ready = kernel.ready
      /\ \A u : OthersReady(s, kernel, u)
  BY <1>2, <1>3, InvIs, PriorityIs
<1> HIDE DEF s
<1>5a. /\ s.priority = [kernel.priority EXCEPT ![t] = p]
       /\ s.current = kernel.current /\ s.notify = kernel.notify /\ s.value = kernel.value
       /\ s.tick = kernel.tick /\ s.pended = kernel.pended /\ s.locked = kernel.locked
       /\ s.missed = kernel.missed /\ s.pendsv = kernel.pendsv /\ s.ticking = kernel.ticking
       /\ s.pending = kernel.pending
       /\ Sleeping(s) = Sleeping(kernel) /\ s.wake = kernel.wake
       /\ s.terminating = kernel.terminating
  BY <1>5 DEF StaysPut, Reprioritises
<1>6. Unmoved(n, s) /\ n.notify = [s.notify EXCEPT ![t] = "not_waiting"]
  BY <1>2, <1>5, <1>5a, NotifyIs
<1> HIDE DEF n
<1>7. Good({}, n) /\ ~ Linked(n, t)
  BY <1>2, <1>3, <1>5, <1>5a, <1>6 DEF Unmoved
<1>8. /\ Good({}, a)
      /\ \A u \in Tasks : Linked(a, u) <=> Linked(n, u) \/ u = t
      /\ Served(n) /\ n.priority[t] <= n.priority[n.current] => Served(a)
      /\ Ready(a, t)
      /\ \A u : OthersReady(a, n, u)
      /\ Framed(a, n) /\ a.pending = n.pending
      /\ Sleeping(a) = Sleeping(n) /\ a.wake = n.wake /\ a.terminating = n.terminating
  BY <1>2, <1>7, AddedIs
<1> HIDE DEF a
<1>9. c \in BOOLEAN /\ (~ c => p <= kernel.priority[kernel.current])
  <2>1. p \in Nat /\ kernel.priority[kernel.current] \in Nat
    BY InvIs, PrioritiesAre DEF Kernels
  <2> QED
    BY <2>1
<1> HIDE DEF c
<1>10. Still(k, a) /\ (c => k.pendsv)
  BY <1>8, <1>9, YieldStill
<1> HIDE DEF k
<1>11. Runs(k)
  <2>1. n.missed = kernel.missed /\ n.pendsv = kernel.pendsv
    BY <1>5, <1>5a, <1>6 DEF Unmoved
  <2>2. CASE kernel.missed \/ kernel.pendsv
    BY <1>8, <1>10, <2>1, <2>2 DEF Runs, Still, Framed
  <2>3. CASE c
    BY <1>10, <2>3 DEF Runs
  <2>4. CASE Served(kernel) /\ ~ c
    <3>1. Served(n)
      BY <1>3, <1>5, <1>5a, <1>6, <2>4 DEF Unmoved
    <3>2. n.priority[t] = p /\ n.priority[n.current] = kernel.priority[kernel.current]
      BY <1>2, <1>3, <1>5, <1>5a, <1>6, InvIs DEF Unmoved, Kernels
    <3>3. Served(a)
      BY <1>8, <1>9, <2>4, <3>1, <3>2
    <3> QED
      BY <1>10, <3>3 DEF Runs, Still
  <2> QED
    BY <2>2, <2>3, <2>4, InvIs DEF Runs
<1>12. /\ Good({}, k)
       /\ \A u \in Tasks : Linked(k, u) <=> Linked(kernel, u) \/ u = t
       /\ k.current = kernel.current /\ k.tick = kernel.tick /\ k.pended = kernel.pended
       /\ k.locked = kernel.locked /\ k.ticking = kernel.ticking /\ k.pending = <<>>
       /\ kernel.pendsv => k.pendsv
       /\ k.terminating = kernel.terminating
       /\ Sleeping(k) = Sleeping(kernel) /\ k.wake = kernel.wake
  BY <1>3, <1>5, <1>5a, <1>6, <1>8, <1>10 DEF Still, Framed, Unmoved
<1>13. Ready(k, Idle)
  <2>1. Ready(n, Idle)
    <3>1. Ready(kernel, Idle) /\ Idle \in Tasks
      BY InvIs DEF LinkedOK
    <3>2. OthersReady(s, kernel, t) /\ OthersReady(n, s, t)
      BY <1>5, <1>5a, <1>6 DEF Unmoved
    <3> QED
      BY <1>2, <3>1, <3>2 DEF OthersReady
  <2>2. Idle \in Tasks /\ OthersReady(a, n, t) /\ OthersReady(k, a, t)
    BY <1>8, <1>10, InvIs DEF Still
  <2> QED
    BY <1>2, <2>1, <2>2 DEF OthersReady
<1>14. \A u \in Tasks : u /= t => k.notify[u] = kernel.notify[u]
  <2>1. n.notify = [kernel.notify EXCEPT ![t] = "not_waiting"] /\ k.notify = n.notify
    BY <1>5, <1>5a, <1>6, <1>8, <1>10 DEF Still, Framed
  <2> QED
    BY <2>1, InvIs, NotifyTyped
<1>15. pc' = [pc EXCEPT ![t] = "run"] /\ pc \in [Tasks -> Labels]
  BY <1>1, InvIs DEF PcOK
<1>16. pc'[t] = "run" /\ \A u \in Tasks : u /= t => pc'[u] = pc[u]
  BY <1>2, <1>15
<1>17. PcOK'
  <2>1. pc' \in [Tasks -> Labels]
    BY <1>15 DEF Labels
  <2>2. previous_wake' \in [Tasks -> Ticks]
    BY <1>1, InvIs DEF PcOK, Kernels
  <2>3. \A u \in Tasks : pc[u] = "idle" <=> u = Idle
    BY InvIs DEF PcOK
  <2>4. masked' \in BOOLEAN
    BY <1>1, InvIs
  <2> QED
    BY <1>2, <1>16, <2>1, <2>2, <2>3, <2>4 DEF PcOK
<1>18. LinkedOK'
  <2>1. /\ \A u \in Tasks : Linked(kernel, u) <=> pc[u] /= "deleted"
        /\ \A u \in kernel.terminating : pc[u] = "delete_yield"
        /\ pc[kernel.current] /= "deleted"
        /\ kernel.terminating \subseteq Tasks /\ kernel.current \in Tasks
    BY InvIs DEF LinkedOK, Kernels
  <2>2. \A u \in Tasks : Linked(k, u) <=> pc'[u] /= "deleted"
    BY <1>12, <1>16, <2>1
  <2>3. \A u \in k.terminating : pc'[u] = "delete_yield"
    BY <1>1, <1>12, <1>16, <2>1
  <2>4. pc'[k.current] /= "deleted"
    BY <1>3, <1>12, <1>16, <2>1
  <2> QED
    BY <1>4, <1>13, <2>2, <2>3, <2>4 DEF LinkedOK
<1>19. PendingOK' /\ NothingPending'
  <2>1. Range(k.pending) = {} /\ kernel.pended = 0
    BY <1>3, <1>12, InvIs DEF Range, NothingPending
  <2> QED
    BY <1>4, <1>12, <2>1 DEF PendingOK, NothingPending
<1>20. LockedOK'
  <2>1. pc'[kernel.current] = pc[kernel.current]
    BY <1>3, <1>16, InvIs
  <2>2. \A u \in Tasks : pc'[u] \in LockLabels => u = kernel.current
    BY <1>16, InvIs DEF LockedOK, LockLabels, Locking
  <2> QED
    BY <1>1, <1>4, <1>12, <2>1, <2>2, InvIs DEF LockedOK
<1>21. WaitingOK'
  <2> SUFFICES ASSUME NEW u \in Tasks, pc'[u] \in {"take", "wait"}, u \in Sleeping(kernel)
               PROVE  k.notify[u] = "waiting"
    BY <1>4, <1>12 DEF WaitingOK
  <2>1. u /= t
    BY <1>16
  <2>2. kernel.notify[u] = "waiting"
    BY <1>3, <1>16, <2>1, InvIs DEF WaitingOK
  <2> QED
    BY <1>14, <2>1, <2>2
<1>22. AsleepOK'
  <2>1. pc'[kernel.current] = pc[kernel.current]
    BY <1>3, <1>16, InvIs
  <2> QED
    BY <1>4, <1>12, <2>1, InvIs DEF AsleepOK
<1>23. WokenStep(kernel', kernel)
  BY <1>3, <1>4, <1>12 DEF WokenStep, Asleep
<1> QED
  BY <1>4, <1>11, <1>12, <1>17, <1>18, <1>19, <1>20, <1>21, <1>22, <1>23
     DEF ServicesInv, ControlOK, DelayStep

-----------------------------------------------------------------------------
\* A step of the task that suspends, uses and resumes the scheduler.
LEMMA LockStep ==
    ASSUME ServicesInv, previous_wake' \in [Tasks -> Ticks],
           NEW to \in Labels \ {"idle", "deleted", "delete_yield", "take", "wait"},
           pc[kernel.current] \notin {"idle", "deleted", "delete_yield"},
           pc' = [pc EXCEPT ![kernel.current] = to],
           masked' \in BOOLEAN, NEW k, kernel' = k, Good({}, k), Runs(k),
           k.current = kernel.current,
           k.locked = IF to \in Locking \/ (to = "delay_resume" /\ ~ masked') THEN 1 ELSE 0,
           masked' => to = "delay_resume",
           k.ticking => k.locked = 0,
           k.locked = 0 /\ ~ masked' => k.pending = <<>> /\ k.pended = 0,
           k.pending = kernel.pending, k.notify = kernel.notify,
           \A u \in Tasks : Linked(k, u) <=> Linked(kernel, u),
           Ready(k, Idle), k.terminating \subseteq kernel.terminating,
           Sleeping(k) \subseteq Sleeping(kernel) \cup {kernel.current},
           kernel.current \in Sleeping(k) =>
               to \in {"delay_resume", "delay_yield"} \/ (k.pendsv /\ k.locked = 0)
    PROVE  ServicesInv'
<1> DEFINE c == kernel.current
<1>1. pc \in [Tasks -> Labels] /\ c \in Tasks /\ c \notin kernel.terminating
  BY InvIs DEF PcOK, LinkedOK
<1>2. pc'[c] = to /\ \A u \in Tasks : u /= c => pc'[u] = pc[u]
  BY <1>1
<1> HIDE DEF c
<1>3. PcOK'
  <2>1. pc' \in [Tasks -> Labels]
    BY <1>1
  <2>2. \A u \in Tasks : pc[u] = "idle" <=> u = Idle
    BY InvIs DEF PcOK
  <2> QED
    BY <1>1, <1>2, <2>1, <2>2 DEF PcOK, c
<1>4. LinkedOK'
  <2>1. /\ \A u \in Tasks : Linked(kernel, u) <=> pc[u] /= "deleted"
        /\ \A u \in kernel.terminating : pc[u] = "delete_yield"
        /\ kernel.terminating \subseteq Tasks
    BY InvIs DEF LinkedOK, Kernels
  <2>2. \A u \in Tasks : Linked(k, u) <=> pc'[u] /= "deleted"
    <3> TAKE u \in Tasks
    <3>1. CASE u = c
      BY <1>1, <1>2, <2>1, <3>1 DEF c
    <3>2. CASE u /= c
      BY <1>2, <2>1, <3>2
    <3> QED
      BY <3>1, <3>2
  <2>3. \A u \in k.terminating : pc'[u] = "delete_yield"
    BY <1>1, <1>2, <2>1
  <2> QED
    BY <1>2, <2>2, <2>3 DEF LinkedOK, c
<1>5. PendingOK'
  <2>1. \A u \in Range(k.pending) : u \in Users /\ k.notify[u] /= "waiting" /\ pc[u] /= "deleted"
    BY InvIs DEF PendingOK
  <2>2. \A u \in Range(k.pending) : pc'[u] /= "deleted"
    BY <1>2, <2>1 DEF Users
  <2> QED
    BY <2>1, <2>2 DEF PendingOK
<1>6. NothingPending'
  BY DEF NothingPending
<1>7. LockedOK'
  <2>1. \A u \in Tasks : pc[u] \in LockLabels => u = c
    BY InvIs DEF LockedOK, c
  <2>2. \A u \in Tasks : pc'[u] \in LockLabels => u = c
    BY <1>2, <2>1
  <2> QED
    BY <1>2, <2>2 DEF LockedOK, c
<1>8. WaitingOK'
  <2> SUFFICES ASSUME NEW u \in Tasks, pc'[u] \in {"take", "wait"}, u \in Sleeping(k),
                      u \notin Range(k.pending)
               PROVE  k.notify[u] = "waiting"
    BY DEF WaitingOK
  <2>1. u /= c
    BY <1>2
  <2> QED
    BY <1>2, <2>1, InvIs DEF WaitingOK, c
<1>9. AsleepOK'
  BY <1>2 DEF AsleepOK, c
<1> QED
  BY <1>3, <1>4, <1>5, <1>6, <1>7, <1>8, <1>9 DEF ServicesInv, ControlOK

\* The count of suspensions changes alone.
SetLocked(k, n) == [k EXCEPT !.locked = n]

LEMMA LockedIs ==
    ASSUME NEW k, Good({}, k), NEW n \in Nat
    PROVE  LET s == SetLocked(k, n)
           IN  /\ Good({}, s) /\ (Runs(k) => Runs(s))
               /\ \A u \in Tasks : Linked(s, u) <=> Linked(k, u)
               /\ \A u : OthersReady(s, k, u)
               /\ s.current = k.current /\ s.notify = k.notify
               /\ s.tick = k.tick /\ s.pended = k.pended /\ s.locked = n
               /\ s.missed = k.missed /\ s.pendsv = k.pendsv /\ s.ticking = k.ticking
               /\ s.pending = k.pending
               /\ Sleeping(s) = Sleeping(k) /\ s.wake = k.wake /\ s.terminating = k.terminating
<1> DEFINE s == SetLocked(k, n)
<1>1. k \in Kernels
  BY DEF Good, Sound
<1>2. SameLists(s, k)
  BY <1>1 DEF SameLists, SetLocked, Kernels
<1>3. s.notify = k.notify /\ s.pended = k.pended /\ s.locked = n
      /\ s.pendsv = k.pendsv /\ s.missed = k.missed
  BY <1>1 DEF SetLocked, Kernels
<1> HIDE DEF s
<1>4. /\ Good({}, s)
      /\ \A u \in Tasks : Linked(s, u) <=> Linked(k, u)
      /\ Served(s) <=> Served(k)
      /\ \A u : OthersReady(s, k, u)
  BY <1>2, SameIs
<1>5. Runs(k) => Runs(s)
  BY <1>3, <1>4 DEF Runs
<1> QED
  BY <1>2, <1>3, <1>4, <1>5 DEF SameLists, Sleeping, s

\* vTaskSuspendAll
LEMMA SuspendAllStep ==
    ASSUME ServicesInv, UNCHANGED previous_wake, NEW to \in Locking,
           Step("run", SuspendAll(kernel), to)
    PROVE  ServicesInv' /\ DelayStep(kernel', kernel)
<1> DEFINE s == SetLocked(kernel, 1)
<1>1. "run" \in Labels \ LockLabels
      /\ to \in Labels \ {"idle", "deleted", "delete_yield", "take", "wait"}
  BY DEF Labels, LockLabels, Locking
<1>2. /\ pc[kernel.current] = "run" /\ ~ masked /\ ~ kernel.ticking /\ kernel.locked = 0
      /\ kernel.current \notin Sleeping(kernel)
  BY <1>1, AtIs DEF Step
<1>3. kernel' = s /\ pc' = [pc EXCEPT ![kernel.current] = to] /\ masked' = masked
  BY <1>2 DEF Step, Goes, SuspendAll, SetLocked
<1>4. /\ Good({}, s) /\ (Runs(kernel) => Runs(s))
      /\ \A u \in Tasks : Linked(s, u) <=> Linked(kernel, u)
      /\ \A u : OthersReady(s, kernel, u)
      /\ s.current = kernel.current /\ s.notify = kernel.notify
      /\ s.tick = kernel.tick /\ s.pended = kernel.pended /\ s.locked = 1
      /\ s.missed = kernel.missed /\ s.pendsv = kernel.pendsv /\ s.ticking = kernel.ticking
      /\ s.pending = kernel.pending
      /\ Sleeping(s) = Sleeping(kernel) /\ s.wake = kernel.wake
      /\ s.terminating = kernel.terminating
  BY InvIs, LockedIs
<1> HIDE DEF s
<1>5. Ready(s, Idle)
  BY <1>4, InvIs DEF OthersReady, LinkedOK
<1>6. /\ s.locked = IF to \in Locking \/ (to = "delay_resume" /\ ~ masked') THEN 1 ELSE 0
      /\ masked' \in BOOLEAN /\ ~ masked' /\ previous_wake' \in [Tasks -> Ticks]
  BY <1>2, <1>3, <1>4, InvIs DEF PcOK
<1>7. ServicesInv'
  <2>1. to \in Labels \ {"idle", "deleted", "delete_yield", "take", "wait"}
    BY <1>1
  <2>2. pc[kernel.current] \notin {"idle", "deleted", "delete_yield"}
    BY <1>2
  <2>3. s.ticking => s.locked = 0
    BY <1>2, <1>4
  <2>4. s.locked = 0 /\ ~ masked' => s.pending = <<>> /\ s.pended = 0
    BY <1>4
  <2>5. masked' => to = "delay_resume"
    BY <1>6
  <2>6. kernel.current \in Sleeping(s) =>
               to \in {"delay_resume", "delay_yield"} \/ (s.pendsv /\ s.locked = 0)
    BY <1>2, <1>4
  <2>7. Runs(s)
    BY <1>4, InvIs
  <2>8. s.terminating \subseteq kernel.terminating /\ Sleeping(s) \subseteq Sleeping(kernel) \cup {kernel.current}
    BY <1>4
  <2> QED
    BY <1>3, <1>4, <1>5, <1>6, <2>1, <2>2, <2>3, <2>4, <2>5, <2>6, <2>7, <2>8, LockStep
<1>8. WokenStep(kernel', kernel)
  BY <1>3, <1>4 DEF WokenStep, Asleep
<1> QED
  BY <1>7, <1>8 DEF DelayStep

\* The delay itself, with the scheduler suspended.
LEMMA SleepStep ==
    ASSUME ServicesInv, previous_wake' \in [Tasks -> Ticks], NEW from \in Locking,
           NEW ticks \in Ticks \ {0}, NEW k, Step(from, k, "delay_resume"),
           k = kernel \/ k = AddCurrentTaskToDelayedList(kernel, ticks, FALSE)
    PROVE  ServicesInv' /\ DelayStep(kernel', kernel)
<1> DEFINE c == kernel.current
           a == AddCurrentTaskToDelayedList(kernel, ticks, FALSE)
           to == "delay_resume"
<1>1. to \in Labels \ {"idle", "deleted", "delete_yield", "take", "wait"}
  BY DEF Labels
<1>2. /\ pc[c] = from /\ ~ masked /\ ~ kernel.ticking /\ ~ kernel.pendsv
  BY DEF Step, At, Is, Interruptible
<1>3. kernel' = k /\ pc' = [pc EXCEPT ![c] = to] /\ masked' \in BOOLEAN /\ ~ masked'
  BY <1>2, InvIs DEF Step, Goes
<1>4. kernel.locked = 1
  BY <1>2, InvIs DEF LockedOK
<1>5. pc[c] \notin {"idle", "deleted", "delete_yield", "delay_resume", "delay_yield"} /\ c \in Tasks
  BY <1>2, InvIs DEF Locking
<1>6. c \notin Sleeping(kernel) /\ Linked(kernel, c) /\ c /= Idle
  <2>1. \A t \in Tasks : pc[t] = "idle" <=> t = Idle
    BY InvIs DEF PcOK
  <2> QED
    BY <1>2, <1>4, <1>5, <2>1, InvIs DEF AsleepOK, LinkedOK
<1> HIDE DEF to
<1>a. /\ pc[kernel.current] \notin {"idle", "deleted", "delete_yield"}
      /\ pc' = [pc EXCEPT ![kernel.current] = to]
      /\ masked' => to = "delay_resume"
  BY <1>3, <1>5 DEF to
<1>b. to \in {"delay_resume", "delay_yield"}
  BY DEF to
<1> HIDE DEF c
<1>7. CASE k = kernel
  <2>1. kernel.locked = IF to \in Locking \/ (to = "delay_resume" /\ ~ masked') THEN 1 ELSE 0
    BY <1>3, <1>4 DEF to
  <2>2. Ready(kernel, Idle)
    BY InvIs DEF LinkedOK
  <2>3. /\ kernel' = kernel /\ Good({}, kernel) /\ Runs(kernel) /\ masked' \in BOOLEAN
        /\ kernel.terminating \subseteq kernel.terminating
        /\ Sleeping(kernel) \subseteq Sleeping(kernel) \cup {kernel.current}
    BY <1>3, <1>7, InvIs
  <2>4. kernel.ticking => kernel.locked = 0
    BY <1>2
  <2>5. kernel.locked = 0 /\ ~ masked' => kernel.pending = <<>> /\ kernel.pended = 0
    BY <1>4
  <2>6. kernel.current \in Sleeping(kernel) =>
            to \in {"delay_resume", "delay_yield"} \/ (kernel.pendsv /\ kernel.locked = 0)
    BY <1>b
  <2>7. ServicesInv'
    BY <1>1, <1>a, <2>1, <2>2, <2>3, <2>4, <2>5, <2>6, LockStep
  <2>8. WokenStep(kernel', kernel)
    BY <1>3, <1>7 DEF WokenStep
  <2> QED
    BY <2>7, <2>8 DEF DelayStep
<1>8. CASE k = a
  <2>1. DelayedTo(a, kernel, ticks)
    BY <1>2, InvIs, DelaysTo
  <2> HIDE DEF a
  <2>2. Runs(a)
    BY <2>1, InvIs DEF DelayedTo, Runs, Framed
  <2>3. Ready(a, Idle)
    BY <1>6, <2>1, InvIs DEF DelayedTo, OthersReady, LinkedOK, c
  <2>4. \A u \in Tasks : Linked(a, u) <=> Linked(kernel, u)
    BY <1>6, <2>1 DEF DelayedTo, c
  <2>5. /\ Good({}, a) /\ a.current = kernel.current /\ a.locked = 1 /\ ~ a.ticking
        /\ a.pending = kernel.pending /\ a.notify = kernel.notify /\ a.tick = kernel.tick
        /\ a.terminating \subseteq kernel.terminating
        /\ Sleeping(a) \subseteq Sleeping(kernel) \cup {kernel.current}
    BY <1>2, <1>4, <2>1 DEF DelayedTo, Framed
  <2>6. a.locked = IF to \in Locking \/ (to = "delay_resume" /\ ~ masked') THEN 1 ELSE 0
    BY <1>3, <2>5 DEF to
  <2>7. kernel' = a /\ masked' \in BOOLEAN
    BY <1>3, <1>8
  <2>8. a.ticking => a.locked = 0
    BY <2>5
  <2>9. a.locked = 0 /\ ~ masked' => a.pending = <<>> /\ a.pended = 0
    BY <2>5
  <2>10. kernel.current \in Sleeping(a) =>
            to \in {"delay_resume", "delay_yield"} \/ (a.pendsv /\ a.locked = 0)
    BY <1>b
  <2>11. ServicesInv'
    BY <1>1, <1>a, <2>2, <2>3, <2>4, <2>5, <2>6, <2>7, <2>8, <2>9, <2>10, LockStep
  <2>12. DelayStep(kernel', kernel)
    <3>1. /\ kernel.current \notin Sleeping(kernel)
          /\ \/ Sleeping(a) = Sleeping(kernel) \ {kernel.current}
             \/ Sleeping(a) = Sleeping(kernel) \cup {kernel.current}
                   /\ a.wake[kernel.current] = Later(kernel.tick, ticks)
          /\ \A u \in Tasks : u /= kernel.current => a.wake[u] = kernel.wake[u]
      BY <1>6, <2>1 DEF DelayedTo, c
    <3> QED
      BY <2>5, <2>7, <3>1, InvIs, FallsAsleep
  <2> QED
    BY <2>11, <2>12
<1> QED
  BY <1>7, <1>8 DEF a


-----------------------------------------------------------------------------
\* xTaskResumeAll: the suspension ends, with the interrupts masked.
LEMMA UnlockStep ==
    ASSUME ServicesInv, UNCHANGED <<pc, previous_wake>>, Is("delay_resume"),
           ~ kernel.pendsv, ~ kernel.ticking, ~ masked, masked' = TRUE,
           kernel' = [kernel EXCEPT !.locked = @ - 1]
    PROVE  ServicesInv' /\ DelayStep(kernel', kernel)
<1> DEFINE s == SetLocked(kernel, 0)
           to == "delay_resume"
<1>1. to \in Labels \ {"idle", "deleted", "delete_yield", "take", "wait"}
  BY DEF Labels
<1>2. pc[kernel.current] = to /\ kernel.locked = 1 /\ kernel \in Kernels
      /\ to \in {"delay_resume", "delay_yield"} /\ to \notin Locking
  BY InvIs DEF Is, LockedOK, Locking
<1>3. kernel' = s
  BY <1>2 DEF SetLocked
<1>4. /\ Good({}, s) /\ (Runs(kernel) => Runs(s))
      /\ \A u \in Tasks : Linked(s, u) <=> Linked(kernel, u)
      /\ \A u : OthersReady(s, kernel, u)
      /\ s.current = kernel.current /\ s.notify = kernel.notify
      /\ s.tick = kernel.tick /\ s.pended = kernel.pended /\ s.locked = 0
      /\ s.missed = kernel.missed /\ s.pendsv = kernel.pendsv /\ s.ticking = kernel.ticking
      /\ s.pending = kernel.pending
      /\ Sleeping(s) = Sleeping(kernel) /\ s.wake = kernel.wake
      /\ s.terminating = kernel.terminating
  BY InvIs, LockedIs
<1>5. masked' => to = "delay_resume"
  OBVIOUS
<1> HIDE DEF s, to
<1>6. Ready(s, Idle)
  BY <1>4, InvIs DEF OthersReady, LinkedOK
<1>7. /\ s.locked = IF to \in Locking \/ (to = "delay_resume" /\ ~ masked') THEN 1 ELSE 0
      /\ masked' \in BOOLEAN /\ previous_wake' \in [Tasks -> Ticks]
  BY <1>2, <1>4, InvIs DEF PcOK
<1>8. pc' = [pc EXCEPT ![kernel.current] = to]
  <2>1. pc \in [Tasks -> Labels]
    BY InvIs DEF PcOK
  <2> QED
    BY <1>2, <2>1, InvIs
<1>9. ServicesInv'
  <2>1. pc[kernel.current] \notin {"idle", "deleted", "delete_yield"}
    BY <1>1, <1>2
  <2>2. s.ticking => s.locked = 0
    BY <1>4
  <2>3. s.locked = 0 /\ ~ masked' => s.pending = <<>> /\ s.pended = 0
    OBVIOUS
  <2>4. kernel.current \in Sleeping(s) =>
            to \in {"delay_resume", "delay_yield"} \/ (s.pendsv /\ s.locked = 0)
    BY <1>2
  <2>5. Runs(s)
    BY <1>4, InvIs
  <2>6. s.terminating \subseteq kernel.terminating
        /\ Sleeping(s) \subseteq Sleeping(kernel) \cup {kernel.current}
    BY <1>4
  <2> QED
    BY <1>1, <1>3, <1>4, <1>5, <1>6, <1>7, <1>8, <2>1, <2>2, <2>3, <2>4, <2>5, <2>6, LockStep
<1>10. WokenStep(kernel', kernel)
  BY <1>3, <1>4 DEF WokenStep, Asleep
<1> QED
  BY <1>9, <1>10 DEF DelayStep

\* One of the tasks readied meanwhile.
LEMMA DrainStep ==
    ASSUME ServicesInv, UNCHANGED <<pc, masked, previous_wake>>, masked,
           ~ kernel.ticking, kernel.pending /= <<>>,
           kernel' = DrainPendingReadyList(kernel)
    PROVE  ServicesInv' /\ DelayStep(kernel', kernel)
<1> DEFINE j == DrainPendingReadyList(kernel)
           t == Head(kernel.pending)
<1>1. t \in Range(kernel.pending)
  <2>1. kernel.pending \in Seq(Tasks)
    BY InvIs DEF Kernels
  <2> QED
    BY <2>1, HeadIsLeast
<1>2. \A u \in Range(kernel.pending) :
          u \in Users /\ kernel.notify[u] /= "waiting" /\ pc[u] /= "deleted"
  BY InvIs DEF PendingOK
<1>3. Linked(kernel, t)
  BY <1>1, <1>2, InvIs DEF LinkedOK, Users
<1>4. /\ t \in Range(kernel.pending) /\ t \in Tasks
      /\ Good({}, j) /\ (Runs(kernel) => Runs(j)) /\ Ticked(j, kernel)
      /\ \A u \in Tasks : Linked(j, u) <=> Linked(kernel, u)
      /\ Range(j.pending) = Range(kernel.pending) \ {t}
      /\ \A u : OthersReady(j, kernel, u)
      /\ j.terminating = kernel.terminating \ {t}
      /\ Sleeping(j) = Sleeping(kernel) \ {t}
      /\ \A u \in Tasks : u /= t => j.wake[u] = kernel.wake[u]
      /\ j.tick = kernel.tick /\ j.pended = kernel.pended /\ ~ j.ticking
      /\ j.pendsv = kernel.pendsv
  BY <1>3, InvIs, DrainIs
<1>5. kernel' = j
  OBVIOUS
<1> HIDE DEF j, t
<1>6. j.current = kernel.current /\ j.notify = kernel.notify /\ j.locked = kernel.locked
  BY <1>4 DEF Ticked
<1>7. Ready(j, Idle)
  BY <1>4, InvIs, IdleStays DEF LinkedOK
<1>8. Runs(j)
  BY <1>4, InvIs
<1>9. j.ticking => j.locked = 0
  BY <1>4
<1>10. j.locked = 0 /\ ~ masked => j.pending = <<>> /\ j.pended = 0
  OBVIOUS
<1>11. j.terminating \subseteq kernel.terminating /\ Sleeping(j) \subseteq Sleeping(kernel)
  BY <1>4
<1>12. \A u \in Range(j.pending) : u \in Users /\ j.notify[u] /= "waiting" /\ pc[u] /= "deleted"
  BY <1>2, <1>4, <1>6
<1>13. kernel.pendsv => j.pendsv
  BY <1>4
<1>14. \A u \in Sleeping(j) \ Range(j.pending) :
           pc[u] \in {"take", "wait"} =>
               /\ u \notin Range(kernel.pending)
               /\ kernel.notify[u] = "waiting" => j.notify[u] = "waiting"
  BY <1>4, <1>6
<1>15. ServicesInv'
  BY <1>4, <1>5, <1>6, <1>7, <1>8, <1>9, <1>10, <1>11, <1>12, <1>13, <1>14, KernelStep
<1>16. WokenStep(kernel', kernel)
  <2>1. Asleep(j) \subseteq Asleep(kernel)
    BY <1>4 DEF Asleep
  <2>2. \A u \in Asleep(j) : u \in Tasks /\ u /= t
    BY <1>4, AsleepTasks DEF Asleep
  <2> QED
    BY <1>4, <1>5, <2>1, <2>2 DEF WokenStep
<1> QED
  BY <1>15, <1>16 DEF DelayStep

\* No task is late when its tick comes.
LEMMA NoneIsLate ==
    ASSUME ServicesInv, ~ kernel.ticking
    PROVE  \A u \in Asleep(kernel) : kernel.wake[u] /= kernel.tick
<1>1. DelaysOK(kernel) /\ kernel.wake \in [Tasks -> Ticks] /\ kernel.tick \in Ticks
  BY InvIs DEF Good, Kernels
<1>2. \A u \in Sleeping(kernel) :
          kernel.tick < kernel.wake[u] \/ kernel.wake[u] < kernel.tick
  BY <1>1 DEF DelaysOK, Sleeping
<1>3. Asleep(kernel) \subseteq Tasks /\ Asleep(kernel) \subseteq Sleeping(kernel)
  BY InvIs, AsleepTasks DEF Asleep
<1> SUFFICES ASSUME NEW u \in Asleep(kernel)
             PROVE  kernel.wake[u] /= kernel.tick
  OBVIOUS
<1>4. kernel.wake[u] \in Nat /\ kernel.tick \in Nat
  BY <1>1, <1>3, TicksAre
<1>5. kernel.tick < kernel.wake[u] \/ kernel.wake[u] < kernel.tick
  BY <1>2, <1>3
<1> QED
  BY <1>4, <1>5

SetPended(k, n) == [k EXCEPT !.pended = n]

\* A tick, of SysTick or replayed.
LEMMA ATick ==
    ASSUME ServicesInv, UNCHANGED <<pc, masked, previous_wake>>, ~ kernel.ticking,
           NEW n \in Nat, kernel' = IncrementTick(SetPended(kernel, n)),
           kernel.locked > 0 => n = kernel.pended,
           kernel.locked = 0 /\ ~ masked => n = 0
    PROVE  ServicesInv' /\ DelayStep(kernel', kernel)
<1> DEFINE i == SetPended(kernel, n)
           j == IncrementTick(i)
<1>1. SameLists(i, kernel) /\ i.notify = kernel.notify /\ i.locked = kernel.locked
      /\ i.missed = kernel.missed /\ i.pendsv = kernel.pendsv /\ i.pended = n
  BY InvIs DEF SameLists, SetPended, Kernels
<1> HIDE DEF i
<1>2. /\ Good({}, i) /\ (Served(i) <=> Served(kernel))
      /\ \A u \in Tasks : Linked(i, u) <=> Linked(kernel, u)
  BY <1>1, InvIs, SameIs
<1>3. Runs(i) /\ ~ i.ticking
  BY <1>1, <1>2, InvIs DEF Runs, SameLists
<1>4. /\ Good({}, j) /\ (Runs(i) => Runs(j)) /\ Ticked(j, i)
      /\ \A u \in Tasks : Linked(j, u) <=> Linked(i, u)
      /\ j.ready = i.ready /\ j.pending = i.pending /\ j.terminating = i.terminating
      /\ Sleeping(j) = Sleeping(i) /\ j.wake = i.wake
      /\ (i.pendsv => j.pendsv)
      /\ IF i.locked > 0
         THEN j.tick = i.tick /\ j.pended = i.pended + 1 /\ ~ j.ticking
         ELSE j.tick = Later(i.tick, 1) /\ j.pended = i.pended
  BY <1>2, <1>3, InvIs, IncrementTickIs
<1>5. kernel' = j
  BY DEF i
<1> HIDE DEF j
<1>6. j.current = kernel.current /\ j.notify = kernel.notify /\ j.locked = kernel.locked
      /\ j.ready = kernel.ready /\ j.pending = kernel.pending
      /\ j.terminating = kernel.terminating /\ Sleeping(j) = Sleeping(kernel)
      /\ j.wake = kernel.wake /\ (kernel.pendsv => j.pendsv)
  BY <1>1, <1>4 DEF Ticked, SameLists, Sleeping
<1>7. Runs(j) /\ \A u \in Tasks : Linked(j, u) <=> Linked(kernel, u)
  BY <1>2, <1>3, <1>4
<1>8. Ready(j, Idle)
  BY <1>6, InvIs DEF LinkedOK, Ready
<1>9. kernel.locked \in Nat
  BY InvIs DEF Kernels
<1>10. j.ticking => j.locked = 0
  BY <1>1, <1>4, <1>6, <1>9
<1>11. j.locked = 0 /\ ~ masked => j.pending = <<>> /\ j.pended = 0
  BY <1>1, <1>4, <1>6, InvIs DEF NothingPending
<1>12. \A u \in Range(j.pending) : u \in Users /\ j.notify[u] /= "waiting" /\ pc[u] /= "deleted"
  BY <1>6, InvIs DEF PendingOK
<1>13. /\ j.terminating \subseteq kernel.terminating /\ Sleeping(j) \subseteq Sleeping(kernel)
       /\ \A u \in Sleeping(j) \ Range(j.pending) :
           pc[u] \in {"take", "wait"} =>
               /\ u \notin Range(kernel.pending)
               /\ kernel.notify[u] = "waiting" => j.notify[u] = "waiting"
  BY <1>6
<1>14. ServicesInv'
  BY <1>4, <1>5, <1>6, <1>7, <1>8, <1>10, <1>11, <1>12, <1>13, KernelStep
<1>15. CASE kernel.locked > 0
  <2>1. WokenStep(kernel', kernel)
    BY <1>1, <1>4, <1>5, <1>6, <1>15 DEF WokenStep, Asleep, SameLists
  <2> QED
    BY <1>14, <2>1 DEF DelayStep
<1>16. CASE ~ (kernel.locked > 0)
  <2>1. j.tick = Later(kernel.tick, 1)
    BY <1>1, <1>4, <1>16 DEF SameLists
  <2>2. TickStep(kernel', kernel)
    BY <1>5, <1>6, <2>1, NoneIsLate DEF TickStep, Asleep
  <2> QED
    BY <1>14, <2>2 DEF DelayStep
<1> QED
  BY <1>15, <1>16

\* The end of xTaskResumeAll, or of the tick it waits for.
LEMMA ResumedStep ==
    ASSUME ServicesInv, UNCHANGED previous_wake, Is("delay_resume"),
           ~ kernel.pendsv, ~ kernel.ticking, masked, masked' = FALSE,
           kernel.pending = <<>>, kernel.pended = 0,
           Goes(YieldingIf(kernel, kernel.missed), IF kernel.missed THEN "run" ELSE "delay_yield")
    PROVE  ServicesInv' /\ DelayStep(kernel', kernel)
<1> DEFINE s == YieldingIf(kernel, kernel.missed)
           to == IF kernel.missed THEN "run" ELSE "delay_yield"
<1>1. to \in Labels \ {"idle", "deleted", "delete_yield", "take", "wait"}
      /\ to \notin Locking /\ to /= "delay_resume"
      /\ (~ kernel.missed => to \in {"delay_resume", "delay_yield"})
  BY DEF Labels, Locking
<1>2. /\ pc[kernel.current] = "delay_resume" /\ kernel.locked = 0
      /\ kernel.missed \in BOOLEAN
  BY InvIs DEF Is, LockedOK, Locking, Kernels
<1>3. kernel' = s /\ pc' = [pc EXCEPT ![kernel.current] = to]
  BY DEF Goes
<1>4. Still(s, kernel) /\ (kernel.missed => s.pendsv)
  BY <1>2, InvIs, YieldStill
<1> HIDE DEF s, to
<1>5. /\ Good({}, s) /\ Runs(s)
      /\ \A u \in Tasks : Linked(s, u) <=> Linked(kernel, u)
      /\ s.current = kernel.current /\ s.notify = kernel.notify
      /\ s.tick = kernel.tick /\ s.pended = kernel.pended /\ s.locked = 0
      /\ s.ticking = kernel.ticking /\ s.pending = kernel.pending
      /\ Sleeping(s) = Sleeping(kernel) /\ s.wake = kernel.wake
      /\ s.terminating = kernel.terminating
  BY <1>2, <1>4, InvIs DEF Still
<1>6. Ready(s, Idle)
  BY <1>4, InvIs DEF Still, OthersReady, LinkedOK
<1>7. /\ s.locked = IF to \in Locking \/ (to = "delay_resume" /\ ~ masked') THEN 1 ELSE 0
      /\ masked' \in BOOLEAN /\ previous_wake' \in [Tasks -> Ticks]
      /\ (masked' => to = "delay_resume")
  BY <1>1, <1>5, InvIs DEF PcOK
<1>9. ServicesInv'
  <2>1. pc[kernel.current] \notin {"idle", "deleted", "delete_yield"}
    BY <1>2
  <2>2. s.ticking => s.locked = 0
    BY <1>5
  <2>3. s.locked = 0 /\ ~ masked' => s.pending = <<>> /\ s.pended = 0
    BY <1>5
  <2>4. kernel.current \in Sleeping(s) =>
            to \in {"delay_resume", "delay_yield"} \/ (s.pendsv /\ s.locked = 0)
    BY <1>1, <1>4, <1>5
  <2>6. s.terminating \subseteq kernel.terminating
        /\ Sleeping(s) \subseteq Sleeping(kernel) \cup {kernel.current}
    BY <1>5
  <2>7. to \in Labels \ {"idle", "deleted", "delete_yield", "take", "wait"}
    BY <1>1
  <2> QED
    BY <1>3, <1>5, <1>6, <1>7, <2>1, <2>2, <2>3, <2>4, <2>6, <2>7, LockStep
<1>10. WokenStep(kernel', kernel)
  BY <1>3, <1>5 DEF WokenStep, Asleep
<1> QED
  BY <1>9, <1>10 DEF DelayStep


LEMMA ResumeAllKeeps ==
    ASSUME ServicesInv, UNCHANGED previous_wake,
           ResumeAllAndYield("delay_resume", "delay_yield", "run")
    PROVE  ServicesInv' /\ DelayStep(kernel', kernel)
<1>1. CASE ResumeAll("delay_resume", IF kernel.missed THEN "run" ELSE "delay_yield")
  <2>1. Is("delay_resume") /\ ~ kernel.pendsv /\ ~ kernel.ticking
    BY <1>1 DEF ResumeAll
  <2>2. CASE /\ ~ masked /\ masked' = TRUE
             /\ kernel' = [kernel EXCEPT !.locked = @ - 1] /\ UNCHANGED pc
    BY <2>1, <2>2, UnlockStep
  <2>3. CASE /\ masked /\ kernel.pending /= <<>>
             /\ kernel' = DrainPendingReadyList(kernel) /\ UNCHANGED <<pc, masked>>
    BY <2>1, <2>3, DrainStep
  <2>4. CASE /\ masked /\ kernel.pending = <<>> /\ kernel.pended > 0
             /\ kernel' = ReplayTick(kernel) /\ UNCHANGED <<pc, masked>>
    <3> DEFINE n == kernel.pended - 1
    <3>0. kernel \in Kernels /\ kernel.pended \in Nat /\ kernel.pended > 0
      BY <2>4, InvIs DEF Kernels
    <3>1. n \in Nat /\ kernel \in Kernels
      BY <3>0
    <3>2. kernel' = IncrementTick(SetPended(kernel, n))
      BY <2>4, <3>1 DEF ReplayTick, SetPended, Kernels
    <3>3. kernel.locked = 0
      BY <2>1, <2>4, InvIs DEF LockedOK, Is, Locking
    <3> HIDE DEF n
    <3>4. kernel.locked > 0 => n = kernel.pended
      BY <3>3
    <3>5. kernel.locked = 0 /\ ~ masked => n = 0
      BY <2>4
    <3> QED
      BY <2>1, <2>4, <3>1, <3>2, <3>4, <3>5, ATick
  <2>5. CASE /\ masked /\ kernel.pending = <<>> /\ kernel.pended = 0 /\ masked' = FALSE
             /\ Goes(YieldingIf(kernel, kernel.missed),
                     IF kernel.missed THEN "run" ELSE "delay_yield")
    BY <2>1, <2>5, ResumedStep
  <2> QED
    BY <1>1, <2>2, <2>3, <2>4, <2>5 DEF ResumeAll
<1>2. CASE Step("delay_yield", Yielding(kernel), "run")
  <2>1. "delay_yield" \in Plain /\ "run" \in Plain \ {"take", "wait"}
    BY PlainIs
  <2>2. Still(Yielding(kernel), kernel) /\ Yielding(kernel).pendsv
    BY InvIs, YieldingStill
  <2> QED
    BY <1>2, <2>1, <2>2, StillStep
<1> QED
  BY <1>1, <1>2 DEF ResumeAllAndYield

LEMMA DelayKeeps ==
    ASSUME ServicesInv, vTaskDelay
    PROVE  ServicesInv' /\ DelayStep(kernel', kernel)
<1>1. UNCHANGED previous_wake /\ previous_wake' \in [Tasks -> Ticks]
  BY InvIs DEF vTaskDelay, PcOK
<1>2. CASE Step("run", SuspendAll(kernel), "delay")
  <2>1. "delay" \in Locking
    BY DEF Locking
  <2> QED
    BY <1>1, <1>2, <2>1, SuspendAllStep
<1>3. ASSUME NEW ticks \in BlockTimes \ {0},
             Step("delay", AddCurrentTaskToDelayedList(kernel, ticks, FALSE), "delay_resume")
      PROVE  ServicesInv' /\ DelayStep(kernel', kernel)
  <2>1. "delay" \in Locking /\ ticks \in Ticks \ {0}
    BY BlockTimesAre DEF Locking
  <2> QED
    BY <1>1, <1>3, <2>1, SleepStep
<1>4. CASE Step("run", Yielding(kernel), "run")
  <2>1. "run" \in Plain /\ "run" \in Plain \ {"take", "wait"}
    BY PlainIs
  <2>2. Still(Yielding(kernel), kernel) /\ Yielding(kernel).pendsv
    BY InvIs, YieldingStill
  <2> QED
    BY <1>1, <1>4, <2>1, <2>2, StillStep
<1>5. CASE ResumeAllAndYield("delay_resume", "delay_yield", "run")
  BY <1>1, <1>5, ResumeAllKeeps
<1> QED
  BY <1>2, <1>3, <1>4, <1>5 DEF vTaskDelay

\* A period that is still to end has ticks to go.
LEMMA WaitsLasts ==
    ASSUME NEW previous \in Ticks, NEW increment \in Ticks \ {0}, NEW now \in Ticks,
           DelayUntilWaits(previous, increment, now)
    PROVE  Elapsed(now, Later(previous, increment)) \in Ticks \ {0}
<1> DEFINE wake == Later(previous, increment)
<1>1. wake \in Ticks
  BY LaterIs
<1>2. wake /= now
  BY <1>1, TicksAre DEF DelayUntilWaits
<1> HIDE DEF wake
<1>3. Elapsed(now, wake) \in Ticks \ {0}
  BY <1>1, <1>2, TickCountAssumption DEF Ticks, Round, Elapsed
<1> QED
  BY <1>3 DEF wake

LEMMA DelayUntilKeeps ==
    ASSUME ServicesInv, vTaskDelayUntil
    PROVE  ServicesInv' /\ DelayStep(kernel', kernel)
<1>1. CASE Step("run", SuspendAll(kernel), "delay_until") /\ UNCHANGED previous_wake
  <2>1. "delay_until" \in Locking
    BY DEF Locking
  <2> QED
    BY <1>1, <2>1, SuspendAllStep
<1>2. ASSUME NEW increment \in Increments,
             LET wake == Later(previous_wake[Current], increment)
             IN  /\ previous_wake' = [previous_wake EXCEPT ![Current] = wake]
                 /\ Step("delay_until",
                         IF DelayUntilWaits(previous_wake[Current], increment, kernel.tick)
                         THEN AddCurrentTaskToDelayedList(kernel, Elapsed(kernel.tick, wake), FALSE)
                         ELSE kernel,
                         "delay_resume")
      PROVE  ServicesInv' /\ DelayStep(kernel', kernel)
  <2> DEFINE previous == previous_wake[kernel.current]
             wake == Later(previous, increment)
             ticks == Elapsed(kernel.tick, wake)
  <2>1. /\ previous_wake \in [Tasks -> Ticks] /\ kernel.current \in Tasks
        /\ increment \in Ticks \ {0} /\ kernel.tick \in Ticks
    BY InvIs, BlockTimesAre DEF PcOK, Kernels
  <2>2. previous \in Ticks /\ wake \in Ticks
    BY <2>1, LaterIs
  <2>3. previous_wake' \in [Tasks -> Ticks]
    BY <1>2, <2>1, <2>2 DEF Current
  <2>4. "delay_until" \in Locking
    BY DEF Locking
  <2>5. CASE DelayUntilWaits(previous, increment, kernel.tick)
    <3>1. ticks \in Ticks \ {0}
      BY <2>1, <2>2, <2>5, WaitsLasts
    <3>2. Step("delay_until", AddCurrentTaskToDelayedList(kernel, ticks, FALSE), "delay_resume")
      BY <1>2, <2>5 DEF Current
    <3> HIDE DEF ticks
    <3> QED
      BY <2>3, <2>4, <3>1, <3>2, SleepStep
  <2>6. CASE ~ DelayUntilWaits(previous, increment, kernel.tick)
    <3>1. Step("delay_until", kernel, "delay_resume")
      BY <1>2, <2>6 DEF Current
    <3> QED
      BY <2>1, <2>3, <2>4, <3>1, SleepStep
  <2> QED
    BY <2>5, <2>6
<1> QED
  BY <1>1, <1>2 DEF vTaskDelayUntil

-----------------------------------------------------------------------------
\* prvIdleTask frees a task.
LEMMA IdleFreesKeeps ==
    ASSUME ServicesInv, IdleFrees, UNCHANGED previous_wake
    PROVE  ServicesInv' /\ DelayStep(kernel', kernel)
<1>1. PICK t \in kernel.terminating :
          kernel' = Detached(kernel, t) /\ pc' = [pc EXCEPT ![t] = "deleted"]
  BY DEF IdleFrees
<1> DEFINE e == Detached(kernel, t)
<1>2. "idle" \in Labels \ LockLabels /\ At("idle")
  BY DEF Labels, LockLabels, Locking, IdleFrees
<1>3. pc[kernel.current] = "idle" /\ kernel.pending = <<>> /\ Range(kernel.pending) = {}
  BY <1>2, AtIs
<1>4. /\ t \in Tasks /\ pc[t] = "delete_yield" /\ t /= kernel.current /\ t \in Users
  BY <1>3, InvIs DEF LinkedOK, PcOK, Kernels, Users
<1>5. RemovedTo(e, kernel, t)
  BY <1>3, <1>4, InvIs, RemovesTo
<1>6. kernel' = e /\ UNCHANGED masked
  BY <1>1 DEF IdleFrees
<1> HIDE DEF e
<1>7. /\ Good({}, e) /\ Runs(e)
      /\ \A u \in Tasks : Linked(e, u) <=> Linked(kernel, u) /\ u /= t
      /\ OthersReady(e, kernel, t)
      /\ e.current = kernel.current /\ e.tick = kernel.tick /\ e.pended = kernel.pended
      /\ e.locked = kernel.locked /\ e.ticking = kernel.ticking
      /\ (kernel.pendsv => e.pendsv) /\ e.notify = kernel.notify
      /\ e.terminating = kernel.terminating \ {t} /\ Sleeping(e) = Sleeping(kernel) \ {t}
      /\ \A u \in Tasks : u /= t => e.wake[u] = kernel.wake[u]
  BY <1>5, InvIs DEF RemovedTo, Framed
<1>8. e.pending = <<>>
  BY <1>3, <1>5, NothingIn DEF RemovedTo
<1> QED
  BY <1>1, <1>3, <1>4, <1>6, <1>7, <1>8, DeletedStep

\* Nothing but the requests of the kernel changes.
LEMMA KernelStill ==
    ASSUME ServicesInv, UNCHANGED <<pc, masked, previous_wake>>,
           NEW k, kernel' = k, Still(k, kernel)
    PROVE  ServicesInv' /\ DelayStep(kernel', kernel)
<1>1. /\ Good({}, k) /\ Runs(k)
      /\ \A u \in Tasks : Linked(k, u) <=> Linked(kernel, u)
      /\ k.current = kernel.current /\ k.notify = kernel.notify
      /\ k.tick = kernel.tick /\ k.pended = kernel.pended /\ k.locked = kernel.locked
      /\ k.ticking = kernel.ticking /\ k.pending = kernel.pending
      /\ (kernel.pendsv => k.pendsv)
      /\ Sleeping(k) = Sleeping(kernel) /\ k.wake = kernel.wake
      /\ k.terminating = kernel.terminating
  BY InvIs DEF Still
<1>2. Ready(k, Idle)
  BY InvIs DEF Still, OthersReady, LinkedOK
<1>3. k.ticking => k.locked = 0
  BY <1>1, InvIs DEF LockedOK
<1>4. k.locked = 0 /\ ~ masked => k.pending = <<>> /\ k.pended = 0
  BY <1>1, InvIs DEF NothingPending
<1>5. \A u \in Range(k.pending) : u \in Users /\ k.notify[u] /= "waiting" /\ pc[u] /= "deleted"
  BY <1>1, InvIs DEF PendingOK
<1>6. /\ k.terminating \subseteq kernel.terminating /\ Sleeping(k) \subseteq Sleeping(kernel)
      /\ \A u \in Sleeping(k) \ Range(k.pending) :
           pc[u] \in {"take", "wait"} =>
               /\ u \notin Range(kernel.pending)
               /\ kernel.notify[u] = "waiting" => k.notify[u] = "waiting"
  BY <1>1
<1>7. ServicesInv'
  BY <1>1, <1>2, <1>3, <1>4, <1>5, <1>6, KernelStep
<1>8. WokenStep(kernel', kernel)
  BY <1>1 DEF WokenStep, Asleep
<1> QED
  BY <1>7, <1>8 DEF DelayStep

LEMMA IdleYieldsKeeps ==
    ASSUME ServicesInv, IdleYields, UNCHANGED previous_wake
    PROVE  ServicesInv' /\ DelayStep(kernel', kernel)
<1>1. kernel' = Yielding(kernel) /\ UNCHANGED <<pc, masked>>
  BY DEF IdleYields
<1>2. Still(Yielding(kernel), kernel)
  BY InvIs, YieldingStill
<1> QED
  BY <1>1, <1>2, KernelStill

LEMMA SysTickKeeps ==
    ASSUME ServicesInv, SysTick, UNCHANGED previous_wake
    PROVE  ServicesInv' /\ DelayStep(kernel', kernel)
<1>1. kernel' = IncrementTick(kernel) /\ UNCHANGED <<pc, masked>> /\ ~ kernel.ticking /\ ~ masked
  BY DEF SysTick, Interruptible
<1>2. kernel.pended \in Nat /\ kernel = SetPended(kernel, kernel.pended)
  BY InvIs DEF Kernels, SetPended
<1>3. kernel' = IncrementTick(SetPended(kernel, kernel.pended))
  BY <1>1, <1>2
<1>4. kernel.locked = 0 /\ ~ masked => kernel.pended = 0
  BY InvIs DEF NothingPending
<1> QED
  BY <1>1, <1>2, <1>3, <1>4, ATick

\* The loop of xTaskIncrementTick
LEMMA TickLoopsKeeps ==
    ASSUME ServicesInv, TickLoops, UNCHANGED previous_wake
    PROVE  ServicesInv' /\ DelayStep(kernel', kernel)
<1>1. kernel.ticking /\ UNCHANGED <<pc, masked>> /\ kernel.locked = 0
  BY InvIs DEF TickLoops, LockedOK
<1>2. CASE Due(kernel)
  <2> DEFINE j == UnblockFirst(kernel)
             t == Head(kernel.delayed)
  <2>1. /\ t \in Tasks /\ kernel.wake[t] = kernel.tick
        /\ Good({}, j) /\ (Runs(kernel) => Runs(j)) /\ Ticked(j, kernel)
        /\ \A u \in Tasks : Linked(j, u) <=> Linked(kernel, u)
        /\ Range(j.pending) = Range(kernel.pending) \ {t}
        /\ j.terminating = kernel.terminating /\ \A u : OthersReady(j, kernel, u)
        /\ Sleeping(j) = Sleeping(kernel) \ {t}
        /\ \A u \in Tasks : u /= t => j.wake[u] = kernel.wake[u]
        /\ (kernel.pendsv => j.pendsv)
        /\ j.tick = kernel.tick /\ j.pended = kernel.pended /\ j.ticking = kernel.ticking
    BY <1>2, InvIs, UnblockFirstIs
  <2>2. kernel' = j
    BY <1>2 DEF TickLoops
  <2> HIDE DEF j, t
  <2>3. j.current = kernel.current /\ j.notify = kernel.notify /\ j.locked = kernel.locked
    BY <2>1 DEF Ticked
  <2>4. Ready(j, Idle) /\ Runs(j)
    BY <2>1, InvIs, IdleStays DEF LinkedOK
  <2>5. j.locked = 0 /\ ~ masked => j.pending = <<>> /\ j.pended = 0
    <3> SUFFICES ASSUME ~ masked
                 PROVE  j.pending = <<>> /\ j.pended = 0
      OBVIOUS
    <3>1. kernel.pending = <<>> /\ kernel.pended = 0
      BY <1>1, InvIs DEF NothingPending
    <3>2. Range(j.pending) = {}
      BY <2>1, <3>1 DEF Range
    <3>3. j.pending \in Seq(Tasks)
      BY <2>1 DEF Good, Sound, Kernels
    <3> QED
      BY <2>1, <3>1, <3>2, <3>3, NothingIn
  <2>6. \A u \in Range(j.pending) : u \in Users /\ j.notify[u] /= "waiting" /\ pc[u] /= "deleted"
    BY <2>1, <2>3, InvIs DEF PendingOK
  <2>7. /\ j.terminating \subseteq kernel.terminating /\ Sleeping(j) \subseteq Sleeping(kernel)
        /\ \A u \in Sleeping(j) \ Range(j.pending) :
             pc[u] \in {"take", "wait"} =>
                 /\ u \notin Range(kernel.pending)
                 /\ kernel.notify[u] = "waiting" => j.notify[u] = "waiting"
    BY <2>1, <2>3
  <2>8. j.ticking => j.locked = 0
    BY <1>1, <2>3
  <2>9. kernel.pendsv => j.pendsv
    BY <2>1
  <2>10. ServicesInv'
    BY <1>1, <2>1, <2>2, <2>3, <2>4, <2>5, <2>6, <2>7, <2>8, <2>9, KernelStep
  <2>11. WokenStep(kernel', kernel)
    <3>1. Asleep(j) \subseteq Asleep(kernel)
      BY <2>1 DEF Asleep
    <3>2. \A u \in Asleep(j) : u \in Tasks /\ u /= t
      BY <2>1, AsleepTasks DEF Asleep
    <3> QED
      BY <2>1, <2>2, <3>1, <3>2 DEF WokenStep
  <2> QED
    BY <2>10, <2>11 DEF DelayStep
<1>3. CASE ~ Due(kernel)
  <2> DEFINE j == EndTick(kernel)
  <2>1. /\ Good({}, j) /\ (Runs(kernel) => Runs(j)) /\ Ticked(j, kernel)
        /\ \A u \in Tasks : Linked(j, u) <=> Linked(kernel, u)
        /\ j.pending = kernel.pending /\ j.terminating = kernel.terminating
        /\ \A u : OthersReady(j, kernel, u)
        /\ Sleeping(j) = Sleeping(kernel) /\ j.wake = kernel.wake
        /\ (kernel.pendsv => j.pendsv)
        /\ j.tick = kernel.tick /\ j.pended = kernel.pended /\ ~ j.ticking
    BY <1>3, InvIs, EndTickIs
  <2>2. kernel' = j
    BY <1>3 DEF TickLoops
  <2> HIDE DEF j
  <2>3. j.current = kernel.current /\ j.notify = kernel.notify /\ j.locked = kernel.locked
    BY <2>1 DEF Ticked
  <2>4. Ready(j, Idle) /\ Runs(j)
    BY <2>1, InvIs, IdleStays DEF LinkedOK
  <2>5. j.locked = 0 /\ ~ masked => j.pending = <<>> /\ j.pended = 0
    BY <2>1, <2>3, InvIs DEF NothingPending
  <2>6. \A u \in Range(j.pending) : u \in Users /\ j.notify[u] /= "waiting" /\ pc[u] /= "deleted"
    BY <2>1, <2>3, InvIs DEF PendingOK
  <2>7. /\ j.terminating \subseteq kernel.terminating /\ Sleeping(j) \subseteq Sleeping(kernel)
        /\ \A u \in Sleeping(j) \ Range(j.pending) :
             pc[u] \in {"take", "wait"} =>
                 /\ u \notin Range(kernel.pending)
                 /\ kernel.notify[u] = "waiting" => j.notify[u] = "waiting"
    BY <2>1, <2>3
  <2>8. j.ticking => j.locked = 0
    BY <2>1
  <2>9. kernel.pendsv => j.pendsv
    BY <2>1
  <2>10. ServicesInv'
    BY <1>1, <2>1, <2>2, <2>3, <2>4, <2>5, <2>6, <2>7, <2>8, <2>9, KernelStep
  <2>11. WokenStep(kernel', kernel)
    BY <2>1, <2>2 DEF WokenStep, Asleep
  <2> QED
    BY <2>10, <2>11 DEF DelayStep
<1> QED
  BY <1>2, <1>3


\* PendSV: another task of the highest priority ready may be the current one.
LEMMA PendSVKeeps ==
    ASSUME ServicesInv, PendSV, UNCHANGED previous_wake
    PROVE  ServicesInv' /\ DelayStep(kernel', kernel)
<1> DEFINE j == Switched(kernel)
<1>1. kernel.pendsv /\ ~ masked /\ ~ kernel.ticking /\ kernel' = j /\ UNCHANGED <<pc, masked>>
  BY DEF PendSV, Interruptible, Switched
<1>2. PICK q \in Priorities : Idle \in Range(kernel.ready[q].items)
  BY InvIs DEF LinkedOK, Ready
<1>3. kernel.ready[q].items /= <<>>
  BY <1>2 DEF Range
<1>4. /\ Good({}, j) /\ Runs(j)
      /\ \A u \in Tasks : Linked(j, u) <=> Linked(kernel, u)
      /\ \A p \in Priorities : j.ready[p].items = kernel.ready[p].items
      /\ j.pending = kernel.pending /\ j.terminating = kernel.terminating
      /\ Sleeping(j) = Sleeping(kernel) /\ j.wake = kernel.wake
      /\ j.priority = kernel.priority /\ j.notify = kernel.notify /\ j.locked = kernel.locked
      /\ j.tick = kernel.tick /\ j.pended = kernel.pended /\ j.ticking = kernel.ticking
      /\ ~ j.pendsv
      /\ IF kernel.locked > 0 THEN j.current = kernel.current
         ELSE \E p \in Priorities : j.current \in Range(kernel.ready[p].items)
  <2>1. IF kernel.locked > 0 THEN j.current = kernel.current
        ELSE \E p \in Priorities : j.current \in Range(kernel.ready[p].items)
    BY <1>3, InvIs, SwitchIs
  <2>2. /\ Good({}, j) /\ Runs(j)
        /\ \A u \in Tasks : Linked(j, u) <=> Linked(kernel, u)
        /\ \A p \in Priorities : j.ready[p].items = kernel.ready[p].items
        /\ j.pending = kernel.pending /\ j.terminating = kernel.terminating
        /\ Sleeping(j) = Sleeping(kernel) /\ j.wake = kernel.wake
        /\ j.priority = kernel.priority /\ j.notify = kernel.notify /\ j.locked = kernel.locked
        /\ j.tick = kernel.tick /\ j.pended = kernel.pended /\ j.ticking = kernel.ticking
        /\ ~ j.pendsv
    BY <1>3, InvIs, SwitchIs
  <2> QED
    BY <2>1, <2>2
<1> HIDE DEF j
<1>5. kernel.locked \in Nat /\ j.current \in Tasks
  BY <1>4, InvIs DEF Good, Sound, Kernels
<1>6. CASE kernel.locked > 0
  <2>1. j.current = kernel.current
    BY <1>4, <1>6
  <2>2. LinkedOK'
    <3>1. \A t \in Tasks : Linked(j, t) <=> pc[t] /= "deleted"
      BY <1>4, InvIs DEF LinkedOK
    <3>2. Ready(j, Idle)
      BY <1>4, InvIs DEF LinkedOK, Ready
    <3> QED
      BY <1>1, <1>4, <2>1, <3>1, <3>2, InvIs DEF LinkedOK
  <2>3. LockedOK'
    BY <1>1, <1>4, <2>1, InvIs DEF LockedOK
  <2>4. AsleepOK'
    BY <1>1, <1>4, <1>6, <2>1, InvIs DEF AsleepOK
  <2>5. PcOK' /\ PendingOK' /\ NothingPending' /\ WaitingOK'
    BY <1>1, <1>4, InvIs DEF PcOK, PendingOK, NothingPending, WaitingOK
  <2> QED
    BY <1>1, <1>4, <2>2, <2>3, <2>4, <2>5
    DEF ServicesInv, ControlOK, DelayStep, WokenStep, Asleep
<1>7. CASE ~ (kernel.locked > 0)
  <2>1. kernel.locked = 0 /\ \E p \in Priorities : j.current \in Range(kernel.ready[p].items)
    BY <1>4, <1>5, <1>7
  <2>2. Linked(kernel, j.current) /\ j.current \notin Sleeping(kernel)
    BY <2>1, InvIs DEF Linked, Good, Sound, Apart, Sleeping
  <2>3. LinkedOK'
    <3>1. \A t \in Tasks : Linked(j, t) <=> pc[t] /= "deleted"
      BY <1>4, InvIs DEF LinkedOK
    <3>2. Ready(j, Idle)
      BY <1>4, InvIs DEF LinkedOK, Ready
    <3>3. pc[j.current] /= "deleted"
      BY <1>5, <2>2, InvIs DEF LinkedOK
    <3> QED
      BY <1>1, <1>4, <3>1, <3>2, <3>3, InvIs DEF LinkedOK
  <2>4. LockedOK'
    <3>1. pc[kernel.current] \notin LockLabels
      BY <1>1, <2>1, InvIs DEF LockedOK, LockLabels
    <3>2. \A t \in Tasks : pc[t] \notin LockLabels
      BY <3>1, InvIs DEF LockedOK
    <3> QED
      BY <1>1, <1>4, <1>5, <2>1, <3>2 DEF LockedOK, LockLabels
  <2>5. AsleepOK'
    BY <1>1, <1>4, <2>2 DEF AsleepOK
  <2>6. PcOK' /\ PendingOK' /\ NothingPending' /\ WaitingOK'
    BY <1>1, <1>4, InvIs DEF PcOK, PendingOK, NothingPending, WaitingOK
  <2> QED
    BY <1>1, <1>4, <2>3, <2>4, <2>5, <2>6
    DEF ServicesInv, ControlOK, DelayStep, WokenStep, Asleep
<1> QED
  BY <1>6, <1>7

LEMMA StepKeeps ==
    ASSUME ServicesInv, TaskServicesNext
    PROVE  ServicesInv' /\ DelayStep(kernel', kernel)
BY DelayKeeps, DelayUntilKeeps, SuspendKeeps, ResumeKeeps, ResumeFromISRKeeps,
   PrioritySetKeeps, DeleteKeeps, AddNewKeeps, TakeKeeps, WaitKeeps, GenericNotifyKeeps,
   NotifyFromISRKeeps, StateClearKeeps, IdleFreesKeeps, IdleYieldsKeeps, SysTickKeeps,
   TickLoopsKeeps, PendSVKeeps
DEF TaskServicesNext, SchedulerNext

LEMMA StutterKeeps ==
    ASSUME ServicesInv, UNCHANGED taskServicesVars
    PROVE  ServicesInv'
BY DEF taskServicesVars, schedulerVars, ServicesInv, ControlOK, PcOK, LinkedOK, PendingOK,
       LockedOK, NothingPending, WaitingOK, AsleepOK

-----------------------------------------------------------------------------
\* Whatever the tasks and the interrupts ask for, the data of tasks.c stay sound:
\* the lists, the order of the delays, the highest priority, and where each task is
\* in its calls agree.
THEOREM ServicesInvariant == TaskServicesSpec => []ServicesInv
<1>1. TaskServicesInit => ServicesInv
  BY InitHolds
<1>2. ServicesInv /\ [TaskServicesNext]_taskServicesVars => ServicesInv'
  BY StepKeeps, StutterKeeps
<1> QED
  BY <1>1, <1>2, PTL DEF TaskServicesSpec


-----------------------------------------------------------------------------
LEMMA RangeConcat ==
    ASSUME NEW S, NEW s \in Seq(S), NEW u \in Seq(S)
    PROVE  Range(s \o u) = Range(s) \cup Range(u)
<1>1. /\ Len(s \o u) = Len(s) + Len(u) /\ s \o u \in Seq(S)
      /\ \A i \in 1..Len(s) : (s \o u)[i] = s[i]
      /\ \A i \in 1..Len(u) : (s \o u)[Len(s) + i] = u[i]
  OBVIOUS
<1>2. Len(s) \in Nat /\ Len(u) \in Nat
  OBVIOUS
<1>3. \A i \in 1..(Len(s) + Len(u)) : i \in 1..Len(s) \/ i - Len(s) \in 1..Len(u)
  BY <1>2
<1>a. /\ DOMAIN s = 1..Len(s) /\ DOMAIN u = 1..Len(u)
      /\ DOMAIN (s \o u) = 1..(Len(s) + Len(u))
  OBVIOUS
<1>4. /\ Range(s) = {s[i] : i \in 1..Len(s)} /\ Range(u) = {u[i] : i \in 1..Len(u)}
      /\ Range(s \o u) = {(s \o u)[i] : i \in 1..(Len(s) + Len(u))}
  BY <1>a DEF Range
<1>5. \A x \in Range(s \o u) : x \in Range(s) \cup Range(u)
  <2> TAKE x \in Range(s \o u)
  <2>1. PICK i \in 1..(Len(s) + Len(u)) : x = (s \o u)[i]
    BY <1>4
  <2>2. CASE i \in 1..Len(s)
    BY <1>1, <1>4, <2>1, <2>2
  <2>3. CASE i - Len(s) \in 1..Len(u)
    <3>1. Len(s) + (i - Len(s)) = i
      BY <1>2
    <3>2. x = u[i - Len(s)]
      BY <1>1, <2>1, <2>3, <3>1
    <3> QED
      BY <1>4, <2>3, <3>2
  <2> QED
    BY <1>3, <2>2, <2>3
<1>6. \A x \in Range(s) : x \in Range(s \o u)
  <2>1. \A i \in 1..Len(s) : i \in 1..(Len(s) + Len(u))
    BY <1>2
  <2> QED
    BY <1>1, <1>4, <2>1
<1>7. \A x \in Range(u) : x \in Range(s \o u)
  <2>1. \A i \in 1..Len(u) : Len(s) + i \in 1..(Len(s) + Len(u))
    BY <1>2
  <2> QED
    BY <1>1, <1>4, <2>1
<1> QED
  BY <1>5, <1>6, <1>7

\* The data of tasks.c have their types: list, tick count and counters in range
\* whatever the services do (tasks.c).
THEOREM ServicesAreTyped == TaskServicesSpec => []TaskServicesTypeOK
<1>1. ServicesInv => TaskServicesTypeOK
  BY InvIs DEF TaskServicesTypeOK, KernelTypeOK, PcOK
<1> QED
  BY <1>1, ServicesInvariant, PTL

\* The task that executes is of the highest priority ready, or a switch is under
\* way: no service that readies a task or changes a priority forgets to ask for it
\* (tasks.c:2851-2907).
THEOREM HighestPriorityAlwaysRuns == TaskServicesSpec => []HighestPriorityRuns
<1>1. ServicesInv => HighestPriorityRuns
  BY InvIs DEF HighestPriorityRuns, Runs, Served
<1> QED
  BY <1>1, ServicesInvariant, PTL

\* The search for the next task starts at or above every ready task
\* (tasks.c:142-166).
THEOREM TopIsAlwaysHighest == TaskServicesSpec => []TopIsHighest
<1>1. ServicesInv => TopIsHighest
  BY InvIs DEF TopIsHighest, Good, Top
<1> QED
  BY <1>1, ServicesInvariant, PTL

\* Nothing is left behind by xTaskResumeAll (tasks.c:2105-2212).
THEOREM NothingStaysPending == TaskServicesSpec => []NothingPending
<1>1. ServicesInv => NothingPending
  BY InvIs
<1> QED
  BY <1>1, ServicesInvariant, PTL

\* The delayed lists are in order, each of its round of the tick count, and no tick
\* passes by a task (tasks.c:215-227, 2589-2757, 4912-5020).
THEOREM DelaysStayInOrder == TaskServicesSpec => []DelaysInOrder
<1>1. ServicesInv => DelaysInOrder
  BY InvIs DEF DelaysInOrder, Good, DelaysOK, Sorted
<1> QED
  BY <1>1, ServicesInvariant, PTL

\* A task whose notification has arrived does not sleep on (tasks.c:4415-4874).
THEOREM NotifiedTasksRun == TaskServicesSpec => []NotifiedTaskRuns
<1>1. ASSUME ServicesInv
      PROVE  NotifiedTaskRuns
  <2> SUFFICES ASSUME NEW t \in Alive, kernel.notify[t] = "received", pc[t] \in {"take", "wait"},
                      t \in Range(kernel.delayed \o kernel.overflow)
               PROVE  Contains(kernel.pending, t)
    BY DEF NotifiedTaskRuns
  <2>1. /\ kernel.delayed \in Seq(Tasks) /\ kernel.overflow \in Seq(Tasks)
        /\ kernel.pending \in Seq(Tasks)
    BY <1>1, InvIs DEF Kernels
  <2>2. t \in Tasks /\ t \in Sleeping(kernel)
    BY <2>1, RangeConcat DEF Alive, Users, Sleeping
  <2>3. t \in Range(kernel.pending)
    BY <1>1, <2>2, InvIs DEF WaitingOK
  <2> QED
    BY <2>1, <2>3, ContainsIs
<1> QED
  BY <1>1, ServicesInvariant, PTL

-----------------------------------------------------------------------------
\* No service and no interrupt, in whatever order, leaves a task in two lists or in
\* none, or in a ready list other than that of its priority (tasks.c:330-352).
THEOREM EachInOneList == TaskServicesSpec => []OneListEach
<1>1. ASSUME ServicesInv
      PROVE  OneListEach
  <2>1. Good({}, kernel) /\ \A t \in Live : Linked(kernel, t)
    BY <1>1, InvIs DEF LinkedOK, Live
  <2> QED
    BY <2>1, OneListIs
<1> QED
  BY <1>1, ServicesInvariant, PTL

-----------------------------------------------------------------------------
\* What a task of the list still sleeps.
LeftOf(k, t) == IF t \in Asleep(k) THEN Elapsed(k.tick, k.wake[t]) ELSE 0

LEMMA LeftIs ==
    ASSUME NEW k, Good({}, k), NEW t \in Tasks
    PROVE  /\ t \in Range(k.delayed \o k.overflow) \ Range(k.pending) <=> t \in Asleep(k)
           /\ LeftOf(k, t) \in 0..MaxDelay
<1>1. /\ k.delayed \in Seq(Tasks) /\ k.overflow \in Seq(Tasks)
      /\ k.wake \in [Tasks -> Ticks] /\ k.tick \in Ticks
  BY DEF Good, Sound, Kernels
<1>2. Elapsed(k.tick, k.wake[t]) \in 0..MaxDelay
  BY <1>1, TickCountAssumption DEF Ticks, Round, Elapsed
<1>3. LeftOf(k, t) \in 0..MaxDelay
  BY <1>2, TicksAre DEF LeftOf, Ticks
<1> QED
  BY <1>1, <1>3, RangeConcat DEF Asleep, Sleeping

LEMMA DelayStepIs ==
    ASSUME NEW k, Good({}, k), NEW j, Good({}, j), DelayStep(j, k)
    PROVE  \/ \A t \in Tasks : LeftOf(j, t) \in {0, LeftOf(k, t)}
           \/ \A t \in Tasks : LeftOf(j, t) = IF LeftOf(k, t) = 0 THEN 0 ELSE LeftOf(k, t) - 1
           \/ \E n \in 1..MaxDelay :
                 /\ LeftOf(k, k.current) = 0 /\ LeftOf(j, k.current) = n
                 /\ \A t \in Tasks : t /= k.current => LeftOf(j, t) = LeftOf(k, t)
<1>1. /\ k.wake \in [Tasks -> Ticks] /\ k.tick \in Ticks /\ k.current \in Tasks
      /\ j.wake \in [Tasks -> Ticks]
  BY DEF Good, Sound, Kernels
<1>2. CASE WokenStep(j, k)
  BY <1>2 DEF WokenStep, LeftOf
<1>3. CASE TickStep(j, k)
  <2>1. \A t \in Tasks : LeftOf(j, t) = IF LeftOf(k, t) = 0 THEN 0 ELSE LeftOf(k, t) - 1
    <3> TAKE t \in Tasks
    <3> DEFINE w == k.wake[t]
               now == k.tick
    <3>1. w \in Ticks /\ now \in Ticks
      BY <1>1
    <3> HIDE DEF w, now
    <3>2. w /= now => Elapsed(now, w) /= 0 /\ Elapsed(Later(now, 1), w) = Elapsed(now, w) - 1
      BY <3>1, TickCountAssumption DEF Ticks, Round, Elapsed, Later
    <3>3. t \in Asleep(k) => w /= now
      BY <1>3 DEF TickStep, w, now
    <3>4. (t \in Asleep(j) <=> t \in Asleep(k)) /\ j.tick = Later(now, 1) /\ j.wake[t] = w
      BY <1>3 DEF TickStep, w, now
    <3>5. CASE t \in Asleep(k)
      BY <3>2, <3>3, <3>4, <3>5 DEF LeftOf, w, now
    <3>6. CASE t \notin Asleep(k)
      BY <3>4, <3>6 DEF LeftOf
    <3> QED
      BY <3>5, <3>6
  <2> QED
    BY <2>1
<1>4. ASSUME NEW n \in 1..MaxDelay, SleepsStep(j, k, n)
      PROVE  /\ LeftOf(k, k.current) = 0 /\ LeftOf(j, k.current) = n
             /\ \A t \in Tasks : t /= k.current => LeftOf(j, t) = LeftOf(k, t)
  <2>1. Elapsed(k.tick, Later(k.tick, n)) = n
    BY <1>1, TickCountAssumption DEF Ticks, Round, Elapsed, Later
  <2>2. LeftOf(k, k.current) = 0 /\ LeftOf(j, k.current) = n
    BY <1>4, <2>1 DEF SleepsStep, LeftOf
  <2>3. ASSUME NEW t \in Tasks, t /= k.current
        PROVE  LeftOf(j, t) = LeftOf(k, t)
    BY <1>4, <2>3 DEF SleepsStep, LeftOf
  <2> QED
    BY <2>2, <2>3
<1> QED
  BY <1>2, <1>3, <1>4 DEF DelayStep

\* The delays of tasks.c keep Sleepers' promise: a delay of n ticks ends with the
\* n-th tick, unless the task is woken before, over every wrap of the tick count,
\* every suspension of the scheduler and every change of its lists
\* (tasks.c:1204-1330, 2105-2212, 2589-2757).
THEOREM DelaysEndOnTime == TaskServicesSpec => SleepsOnTime
<1> DEFINE Left == [t \in Tasks |-> SleepLeft(t)]
<1>1. TaskServicesInit => Delays!Init
  <2> SUFFICES ASSUME TaskServicesInit
               PROVE  Delays!Init
    OBVIOUS
  <2>1. kernel.delayed = <<>> /\ kernel.overflow = <<>>
    BY DEF TaskServicesInit, SchedulerInit
  <2>2. \A t \in Tasks : SleepLeft(t) = 0
    <3>1. <<>> \o <<>> = <<>>
      OBVIOUS
    <3>2. \A t : t \notin Range(<<>>)
      BY DEF Range
    <3> QED
      BY <2>1, <3>1, <3>2 DEF SleepLeft
  <2> QED
    BY <2>2 DEF Delays!Init
<1>2. ASSUME ServicesInv, TaskServicesNext
      PROVE  Delays!Next
  <2>1. ServicesInv' /\ DelayStep(kernel', kernel)
    BY <1>2, StepKeeps
  <2>2. Good({}, kernel) /\ Good({}, kernel') /\ kernel.current \in Tasks
    BY <1>2, <2>1, InvIs DEF ServicesInv
  <2>3. \A t \in Tasks : SleepLeft(t) = LeftOf(kernel, t) /\ LeftOf(kernel, t) \in 0..MaxDelay
    BY <2>2, LeftIs DEF SleepLeft, LeftOf
  <2>4. \A t \in Tasks : SleepLeft(t)' = LeftOf(kernel', t) /\ LeftOf(kernel', t) \in 0..MaxDelay
    BY <2>2, LeftIs DEF SleepLeft, LeftOf
  <2>5. /\ Left \in [Tasks -> 0..MaxDelay] /\ Left' \in [Tasks -> 0..MaxDelay]
        /\ \A t \in Tasks : Left[t] = LeftOf(kernel, t) /\ Left'[t] = LeftOf(kernel', t)
    BY <2>3, <2>4
  <2> HIDE DEF Left
  <2>6. \/ \A t \in Tasks : Left'[t] \in {0, Left[t]}
        \/ \A t \in Tasks : Left'[t] = IF Left[t] = 0 THEN 0 ELSE Left[t] - 1
        \/ \E n \in 1..MaxDelay :
              /\ Left[kernel.current] = 0 /\ Left'[kernel.current] = n
              /\ \A t \in Tasks : t /= kernel.current => Left'[t] = Left[t]
    BY <2>1, <2>2, <2>5, DelayStepIs
  <2>7. CASE \A t \in Tasks : Left'[t] \in {0, Left[t]}
    BY <2>5, <2>7 DEF Delays!Next, Delays!Woken, Left
  <2>8. CASE \A t \in Tasks : Left'[t] = IF Left[t] = 0 THEN 0 ELSE Left[t] - 1
    <3>1. Left' = [t \in Tasks |-> IF Left[t] = 0 THEN 0 ELSE Left[t] - 1]
      BY <2>5, <2>8
    <3> QED
      BY <3>1 DEF Delays!Next, Delays!Tick, Left
  <2>9. ASSUME NEW n \in 1..MaxDelay,
               Left[kernel.current] = 0, Left'[kernel.current] = n,
               \A t \in Tasks : t /= kernel.current => Left'[t] = Left[t]
        PROVE  Delays!Next
    <3>1. Left' = [Left EXCEPT ![kernel.current] = n]
      BY <2>5, <2>9
    <3> QED
      BY <2>2, <2>9, <3>1 DEF Delays!Next, Delays!Sleeps, Left
  <2> QED
    BY <2>6, <2>7, <2>8, <2>9
<1>3. ASSUME UNCHANGED taskServicesVars
      PROVE  UNCHANGED Left
  BY <1>3 DEF taskServicesVars, schedulerVars, SleepLeft
<1>4. ServicesInv /\ [TaskServicesNext]_taskServicesVars => [Delays!Next]_Left
  BY <1>2, <1>3
<1> QED
  BY <1>1, <1>4, ServicesInvariant, PTL DEF TaskServicesSpec, SleepsOnTime, Delays!Spec

-----------------------------------------------------------------------------
(***************************************************************************)
(* The comparisons of tick counts in tasks.c and timers.c are right for    *)
(* every width of the count: each tells how many ticks have passed since   *)
(* one time, however the count has wrapped meanwhile, as long as that is   *)
(* less than a whole round.                                                *)
(***************************************************************************)
\* The sum and the difference of tick counts undo each other.
THEOREM LaterUndoesElapsed ==
    ASSUME NEW from \in Ticks, NEW to \in Ticks, NEW n \in Ticks
    PROVE  /\ Later(from, n) \in Ticks /\ Elapsed(from, to) \in Ticks
           /\ Later(from, Elapsed(from, to)) = to
           /\ Elapsed(from, Later(from, n)) = n
BY TickCountAssumption DEF Ticks, Round, Later, Elapsed

\* vTaskDelayUntil waits exactly when its period is not over, and then for what is
\* left of it, whether or not the tick count or the wake time has wrapped
\* (tasks.c:1204-1281).
THEOREM DelayUntilIsExact ==
    ASSUME NEW previous \in Ticks, NEW increment \in Ticks \ {0}, NEW now \in Ticks
    PROVE  /\ DelayUntilWaits(previous, increment, now) <=> Elapsed(previous, now) < increment
           /\ DelayUntilWaits(previous, increment, now) =>
                 Elapsed(now, Later(previous, increment)) = increment - Elapsed(previous, now)
BY TickCountAssumption DEF Ticks, Round, Later, Elapsed, DelayUntilWaits

\* prvAddCurrentTaskToDelayedList puts a task on the list of this round of the tick
\* count or of the next one, and the ticks until its turn are those asked for
\* (tasks.c:4912-5020).
THEOREM DelayedListIsTheRound ==
    ASSUME NEW now \in Ticks, NEW n \in Ticks
    PROVE  LET wake == Later(now, n)
           IN  /\ wake < now <=> now + n >= Round
               /\ n = IF wake < now THEN wake + Round - now ELSE wake - now
BY TickCountAssumption DEF Ticks, Round, Later

\* A timer has expired when the command that starts it is processed exactly when a
\* period has passed since the command was sent (timers.c:647-685).
THEOREM TimerExpiryIsExact ==
    ASSUME NEW t, period[t] \in Ticks \ {0},
           NEW command_time \in Ticks, NEW now \in Ticks
    PROVE  AlreadyExpired(t, Later(command_time, period[t]), now, command_time)
               <=> period[t] <= Elapsed(command_time, now)
<1> DEFINE p == period[t]
<1>1. p \in Ticks \ {0}
  OBVIOUS
<1> QED
  BY <1>1, TickCountAssumption DEF Ticks, Round, Later, Elapsed, AlreadyExpired

\* One that has not expired goes to the list of the round it expires in
\* (timers.c:647-685).
THEOREM TimerListIsTheRound ==
    ASSUME NEW t, period[t] \in Ticks \ {0},
           NEW command_time \in Ticks, NEW now \in Ticks,
           period[t] > Elapsed(command_time, now)
    PROVE  LET next == Later(command_time, period[t])
           IN  period[t] - Elapsed(command_time, now)
                   = IF next <= now THEN next + Round - now ELSE next - now
<1> DEFINE p == period[t]
<1>1. p \in Ticks \ {0}
  OBVIOUS
<1> QED
  BY <1>1, TickCountAssumption DEF Ticks, Round, Later, Elapsed

\* A call is timed out exactly when its block time has passed, also when the tick
\* count has come all the way round meanwhile, and one that is not has the rest of
\* its block time left (tasks.c:3106-3166).
THEOREM TimeOutIsExact ==
    ASSUME NEW k, NEW passed \in Nat, NEW wait \in Ticks, wait /= MaxDelay,
           k.entered[k.current] \in Ticks,
           k.entered[k.current] + passed < 2 * Round,
           k.wrapped[k.current] <=> k.entered[k.current] + passed >= Round,
           k.tick = IF k.entered[k.current] + passed >= Round
                    THEN k.entered[k.current] + passed - Round
                    ELSE k.entered[k.current] + passed
    PROVE  /\ TimedOut(k, wait) <=> wait <= passed
           /\ ~ TimedOut(k, wait) => Remaining(k, wait) = wait - passed
<1> DEFINE entered == k.entered[k.current]
           now == k.tick
<1>1. entered \in Ticks /\ MaxDelay \in Nat
  BY TickCountAssumption
<1>2. WentRound(k) <=> passed >= Round
  <2>1. now >= entered /\ entered + passed >= Round <=> passed >= Round
    BY <1>1 DEF Ticks, Round
  <2>2. WentRound(k) <=> now >= entered /\ entered + passed >= Round
    BY Zenon DEF WentRound
  <2> QED
    BY <2>1, <2>2, Zenon
<1>3. passed < Round => Elapsed(entered, now) = passed
  BY <1>1 DEF Elapsed, Ticks, Round
<1>4. wait < Round
  BY <1>1 DEF Ticks, Round
<1> HIDE DEF entered, now
<1>5. TimedOut(k, wait) <=> wait <= passed
  BY <1>1, <1>2, <1>3, <1>4 DEF TimedOut, Round, Ticks, entered, now
<1>6. ~ TimedOut(k, wait) => Remaining(k, wait) = wait - passed
  BY <1>1, <1>3, <1>4, <1>5 DEF Remaining, Round, Ticks, entered, now
<1> QED
  BY <1>5, <1>6

-----------------------------------------------------------------------------
(***************************************************************************)
(* The timer task: its two lists stay sorted, with no timer in both or     *)
(* twice in one, and what it does to a timer it does to one it holds.      *)
(***************************************************************************)
\* The lists of the timers: no timer twice, and each in the order of the expiry times.
TimersSound(c, o, e) ==
    /\ Listed(c, Timers) /\ Listed(o, Timers) /\ Range(c) \cap Range(o) = {}
    /\ e \in [Timers -> Ticks] /\ Sorted(c, e) /\ Sorted(o, e)

\* A command, with a period if it is to change the period.
CommandOK(m) == m \in Messages /\ (m.id = "period" => m.value \in Periods)

CommandsSound ==
    /\ asked = NoMessage \/ CommandOK(asked)
    /\ commands \in Seq(Messages) /\ Len(commands) <= TimerQueueLength
    /\ \A n \in DOMAIN commands : CommandOK(commands[n])

\* Where the timer task is: what it has in hand there is in no list, and it has
\* something in hand where it needs it.
DaemonSound ==
    /\ daemon \in [place : DaemonPlaces, message : Messages \cup {NoMessage},
                   expire : Ticks, now : Ticks]
    /\ daemon.message = NoMessage \/ CommandOK(daemon.message)
    /\ daemon.place \in {"next", "expired", "waiting", "commands"} => daemon.message = NoMessage
    /\ daemon.place \in {"execute", "start_now"} => daemon.message /= NoMessage
    /\ daemon.message /= NoMessage =>
           daemon.message.timer \notin Range(current) \cup Range(overflow)
    /\ daemon.place = "start_now" => daemon.message.id \in {"start", "reload"}
    /\ daemon.place = "expired" => Range(current) /= {}
    /\ daemon.place = "waiting" => commands = <<>>

ClockSound ==
    tick \in Ticks /\ last \in Ticks /\ late \in 0..MaxLate /\ period \in [Timers -> Periods]

\* The inductive invariant.
TimersInv ==
    TimersSound(current, overflow, expiry) /\ CommandsSound /\ DaemonSound /\ ClockSound

LEMMA LaterTyped ==
    ASSUME NEW time \in Ticks, NEW n \in Ticks
    PROVE  Later(time, n) \in Ticks /\ Elapsed(time, n) \in Ticks
BY TickCountAssumption DEF Ticks, Round, Later, Elapsed

LEMMA PeriodsAre == Periods \subseteq Ticks /\ 0 \notin Periods /\ 0 \in Ticks /\ 1 \in Ticks
BY SoftwareTimersAssumption, TickCountAssumption DEF Ticks

\* A message is no command, and each command has the parts it was made of.
LEMMA CommandsAre ==
    /\ NoMessage \notin Messages /\ NoMessage.id \notin CommandIds
    /\ \A m \in Messages : m.id \in CommandIds /\ m.timer \in Timers /\ m.value \in Ticks
    /\ \A i \in CommandIds, t \in Timers, v \in Ticks :
          [id |-> i, timer |-> t, value |-> v] \in Messages
<1>1. NoMessage.id \notin CommandIds
  BY DEF NoMessage, CommandIds
<1>2. \A m \in Messages : m.id \in CommandIds /\ m.timer \in Timers /\ m.value \in Ticks
  BY DEF Messages
<1>3. \A i \in CommandIds, t \in Timers, v \in Ticks :
          [id |-> i, timer |-> t, value |-> v] \in Messages
  BY DEF Messages
<1> QED
  BY <1>1, <1>2, <1>3

\* An empty list has no members.
LEMMA NoMembers ==
    ASSUME NEW s \in Seq(Timers)
    PROVE  /\ s = <<>> <=> Range(s) = {}
           /\ \A t : Contains(s, t) <=> t \in Range(s)
           /\ s /= <<>> => Head(s) \in Range(s) /\ Head(s) \in Timers
<1>1. DOMAIN s = 1..Len(s) /\ Len(s) \in Nat /\ (s = <<>> <=> Len(s) = 0)
  BY EmptySeq
<1>2. s /= <<>> => Head(s) \in Range(s)
  BY HeadIsLeast
<1>3. s = <<>> => Range(s) = {}
  BY <1>1 DEF Range
<1>4. \A t : Contains(s, t) <=> t \in Range(s)
  BY <1>1 DEF Contains, Range
<1>5. s /= <<>> => Head(s) \in Timers
  BY <1>1
<1> QED
  BY <1>2, <1>3, <1>4, <1>5

\* uxListRemove takes a timer out of its list, and out of no other.
LEMMA TakeOutIs ==
    ASSUME TimersSound(current, overflow, expiry), NEW t \in Timers, TakeOut(t)
    PROVE  /\ TimersSound(current', overflow', expiry')
           /\ Range(current') = Range(current) \ {t} /\ Range(overflow') = Range(overflow) \ {t}
           /\ \A u \in Timers : u /= t => expiry'[u] = expiry[u]
<1>1. /\ Listed(current', Timers) /\ Range(current') = Range(current) \ {t}
      /\ Listed(overflow', Timers) /\ Range(overflow') = Range(overflow) \ {t}
  BY WithoutLists DEF TimersSound, TakeOut
<1>2. Sorted(current', expiry) /\ Sorted(overflow', expiry)
  BY WithoutKeepsOrder DEF TimersSound, TakeOut
<1>3. expiry' \in [Timers -> Ticks] /\ \A u \in Timers : u /= t => expiry'[u] = expiry[u]
  BY PeriodsAre DEF TimersSound, TakeOut
<1>4. Range(current) \subseteq Timers /\ Range(overflow) \subseteq Timers
  BY DEF TimersSound, Listed, Range
<1>5. /\ \A x \in Range(current') : expiry'[x] = expiry[x]
      /\ \A x \in Range(overflow') : expiry'[x] = expiry[x]
  BY <1>1, <1>3, <1>4
<1>6. Sorted(current', expiry') /\ Sorted(overflow', expiry')
  BY <1>2, <1>5, SortedAgrees
<1> QED
  BY <1>1, <1>3, <1>6 DEF TimersSound

\* vListInsert puts a timer into the list of the round in which it expires.
LEMMA InsertTimerIs ==
    ASSUME TimersSound(current, overflow, expiry), NEW t \in Timers, t \notin Range(overflow),
           NEW next \in Ticks, NEW now \in Ticks, InsertTimer(t, next, now)
    PROVE  /\ TimersSound(current', overflow', expiry')
           /\ expiry'[t] = next /\ \A u \in Timers : u /= t => expiry'[u] = expiry[u]
           /\ next <= now => /\ Range(current') = Range(current) \ {t}
                             /\ Range(overflow') = Range(overflow) \cup {t}
           /\ ~ (next <= now) => /\ Range(current') = Range(current) \cup {t}
                                 /\ Range(overflow') = Range(overflow)
<1> DEFINE rest == Without(current, t)
<1>1. Listed(rest, Timers) /\ Range(rest) = Range(current) \ {t} /\ t \notin Range(rest)
  BY WithoutLists DEF TimersSound
<1>2. Sorted(rest, expiry)
  BY WithoutKeepsOrder DEF TimersSound
<1>3. /\ next <= now => overflow' = Insert(overflow, t, expiry') /\ current' = rest
      /\ ~ (next <= now) => current' = Insert(rest, t, expiry') /\ overflow' = overflow
  BY DEF InsertTimer
<1> HIDE DEF rest
<1>4. /\ expiry' \in [Timers -> Ticks] /\ expiry'[t] = next
      /\ \A u \in Timers : u /= t => expiry'[u] = expiry[u]
  BY DEF TimersSound, InsertTimer
<1>5. Range(rest) \subseteq Timers /\ Range(overflow) \subseteq Timers
  BY <1>1 DEF TimersSound, Listed, Range
<1>6. Sorted(rest, expiry') /\ Sorted(overflow, expiry')
  <2>1. /\ \A x \in Range(rest) : expiry'[x] = expiry[x]
        /\ \A x \in Range(overflow) : expiry'[x] = expiry[x]
    BY <1>1, <1>4, <1>5
  <2> QED
    BY <1>2, <2>1, SortedAgrees DEF TimersSound
<1>7. \A u \in Timers : expiry'[u] \in Nat
  BY <1>4, TickCountAssumption DEF Ticks
<1>8. CASE next <= now
  <2>1. /\ Listed(overflow', Timers) /\ Range(overflow') = Range(overflow) \cup {t}
        /\ Sorted(overflow', expiry')
    BY <1>3, <1>6, <1>7, <1>8, InsertKeepsOrder DEF TimersSound
  <2> QED
    BY <1>1, <1>3, <1>4, <1>6, <1>8, <2>1 DEF TimersSound
<1>9. CASE ~ (next <= now)
  <2>1. /\ Listed(current', Timers) /\ Range(current') = Range(rest) \cup {t}
        /\ Sorted(current', expiry')
    BY <1>1, <1>3, <1>6, <1>7, <1>9, InsertKeepsOrder
  <2> QED
    BY <1>1, <1>3, <1>4, <1>6, <1>9, <2>1 DEF TimersSound
<1> QED
  BY <1>8, <1>9

\* The queue with one command more.
LEMMA AppendedIs ==
    ASSUME CommandsSound, Len(commands) < TimerQueueLength, NEW m, CommandOK(m)
    PROVE  /\ Append(commands, m) \in Seq(Messages) /\ Len(Append(commands, m)) <= TimerQueueLength
           /\ \A n \in DOMAIN Append(commands, m) : CommandOK(Append(commands, m)[n])
<1>1. commands \in Seq(Messages) /\ DOMAIN commands = 1..Len(commands) /\ Len(commands) \in Nat
  BY DEF CommandsSound
<1>2. m \in Messages
  BY DEF CommandOK
<1>3. /\ Append(commands, m) \in Seq(Messages) /\ Len(Append(commands, m)) = Len(commands) + 1
      /\ \A n \in 1..Len(commands) : Append(commands, m)[n] = commands[n]
      /\ Append(commands, m)[Len(commands) + 1] = m
  BY <1>1, <1>2
<1>4. DOMAIN Append(commands, m) = 1..(Len(commands) + 1)
  BY <1>3
<1>5. Len(commands) + 1 <= TimerQueueLength
  BY <1>1, SoftwareTimersAssumption
<1> QED
  BY <1>1, <1>3, <1>4, <1>5 DEF CommandsSound

\* ... and with a restart of a timer, if there is room for it.
LEMMA WithReloadIs ==
    ASSUME CommandsSound, NEW t \in Timers, NEW value \in Ticks
    PROVE  /\ WithReload(t, value) \in Seq(Messages)
           /\ Len(WithReload(t, value)) <= TimerQueueLength
           /\ \A n \in DOMAIN WithReload(t, value) : CommandOK(WithReload(t, value)[n])
<1> DEFINE m == [id |-> "reload", timer |-> t, value |-> value]
<1>1. CommandOK(m)
  BY DEF CommandOK, Messages, CommandIds
<1>2. m = [id |-> "reload", timer |-> t, value |-> value]
  OBVIOUS
<1> HIDE DEF m
<1>3. WithReload(t, value) = IF Len(commands) < TimerQueueLength THEN Append(commands, m)
                             ELSE commands
  BY <1>2 DEF WithReload
<1>4. CASE Len(commands) < TimerQueueLength
  BY <1>1, <1>3, <1>4, AppendedIs
<1>5. CASE ~ (Len(commands) < TimerQueueLength)
  BY <1>3, <1>5 DEF CommandsSound
<1> QED
  BY <1>4, <1>5

\* The timer task at a place with nothing in hand.
LEMMA DaemonAtIs ==
    ASSUME NEW place \in {"next", "waiting", "commands", "switching"}, daemon' = DaemonAt(place),
           place = "waiting" => commands' = <<>>
    PROVE  DaemonSound'
<1>1. daemon' = [place |-> place, message |-> NoMessage, expire |-> 0, now |-> 0]
  BY DEF DaemonAt
<1> QED
  BY <1>1, PeriodsAre DEF DaemonSound, DaemonPlaces

\* Nothing that the timer task has in hand or awaits changes.
LEMMA DaemonStays ==
    ASSUME DaemonSound, UNCHANGED <<daemon, timerLists>>,
           daemon.place = "waiting" => commands' = commands
    PROVE  DaemonSound'
BY DEF DaemonSound, timerLists

LEMMA CommandsStay ==
    ASSUME CommandsSound, UNCHANGED <<asked, commands>>
    PROVE  CommandsSound'
BY DEF CommandsSound

LEMMA ListsStay ==
    ASSUME TimersSound(current, overflow, expiry), UNCHANGED timerLists
    PROVE  TimersSound(current', overflow', expiry')
BY DEF timerLists

\* The head of the current list.
LEMMA HeadOf ==
    ASSUME TimersSound(current, overflow, expiry), current /= <<>>
    PROVE  /\ Head(current) \in Timers /\ Head(current) \in Range(current)
           /\ Head(current) \notin Range(overflow)
           /\ \A t \in Range(current) : expiry[Head(current)] <= expiry[t]
<1>1. Head(current) \in Timers /\ Head(current) \in Range(current)
  BY NoMembers DEF TimersSound, Listed
<1>2. \A t \in Timers : expiry[t] \in Nat
  BY TickCountAssumption DEF TimersSound, Ticks
<1>3. \A t \in Range(current) : expiry[Head(current)] <= expiry[t]
  BY <1>2, HeadIsLeast DEF TimersSound, Listed
<1> QED
  BY <1>1, <1>3 DEF TimersSound

LEMMA NextExpireIs ==
    ASSUME TimersSound(current, overflow, expiry)
    PROVE  NextExpireTime \in Ticks
<1>1. CASE current = <<>>
  BY <1>1, PeriodsAre DEF NextExpireTime
<1>2. CASE current /= <<>>
  <2>1. Head(current) \in Timers
    BY <1>2, HeadOf
  <2> QED
    BY <1>2, <2>1 DEF NextExpireTime, TimersSound
<1> QED
  BY <1>1, <1>2

-----------------------------------------------------------------------------
\* Commands are asked for and sent.
LEMMA AsksKeeps ==
    ASSUME TimersInv, Asks
    PROVE  TimersInv'
<1> USE DEF TimersInv
<1>1. CommandsSound'
  <2>1. PICK t \in Timers :
            asked' \in {[id |-> "start", timer |-> t, value |-> tick],
                        [id |-> "stop", timer |-> t, value |-> 0]}
                       \cup {[id |-> "period", timer |-> t, value |-> n] : n \in Periods}
    BY DEF Asks
  <2>2. tick \in Ticks
    BY DEF ClockSound
  <2>3. CommandOK(asked')
    BY <2>1, <2>2, PeriodsAre DEF CommandOK, Messages, CommandIds
  <2> QED
    BY <2>3 DEF CommandsSound, Asks
<1>2. DaemonSound'
  BY DaemonStays DEF Asks
<1>3. TimersSound(current', overflow', expiry')
  BY ListsStay DEF Asks
<1>4. ClockSound'
  BY DEF ClockSound, Asks
<1> QED
  BY <1>1, <1>2, <1>3, <1>4

LEMMA SendsKeeps ==
    ASSUME TimersInv, Sends
    PROVE  TimersInv'
<1> USE DEF TimersInv
<1>1. CommandsSound'
  <2>1. CommandOK(asked)
    BY DEF CommandsSound, Sends
  <2> QED
    BY <2>1, AppendedIs DEF CommandsSound, Sends
<1>2. DaemonSound'
  <2>1. CASE daemon.place = "waiting"
    BY <2>1, DaemonAtIs DEF Sends, Woken
  <2>2. CASE daemon.place /= "waiting"
    BY <2>2, DaemonStays DEF Sends, Woken
  <2> QED
    BY <2>1, <2>2
<1>3. TimersSound(current', overflow', expiry')
  BY ListsStay DEF Sends
<1>4. ClockSound'
  BY DEF ClockSound, Sends
<1> QED
  BY <1>1, <1>2, <1>3, <1>4

\* A tick.
LEMMA TickKeeps ==
    ASSUME TimersInv, Tick
    PROVE  TimersInv'
<1> USE DEF TimersInv
<1>1. CommandsSound'
  BY CommandsStay DEF Tick
<1>2. DaemonSound'
  <2>1. CASE daemon' = DaemonAt("commands")
    BY <2>1, DaemonAtIs
  <2>2. CASE daemon' = daemon
    BY <2>2, DaemonStays DEF Tick
  <2> QED
    BY <2>1, <2>2 DEF Tick
<1>3. TimersSound(current', overflow', expiry')
  BY ListsStay DEF Tick
<1>4. ClockSound'
  <2>1. tick' \in Ticks
    BY PeriodsAre, LaterTyped DEF ClockSound, Tick
  <2>2. late' \in 0..MaxLate
    BY SoftwareTimersAssumption DEF ClockSound, Tick
  <2> QED
    BY <2>1, <2>2 DEF ClockSound, Tick
<1> QED
  BY <1>1, <1>2, <1>3, <1>4

\* The timer task turns to what is next.
LEMMA ProcessKeeps ==
    ASSUME TimersInv, ProcessSwitches \/ ProcessFindsExpired \/ ProcessWaits \/ NoMoreCommands
    PROVE  TimersInv'
<1> USE DEF TimersInv
<1>1. CommandsSound'
  BY CommandsStay DEF ProcessSwitches, ProcessFindsExpired, ProcessWaits, NoMoreCommands
<1>2. DaemonSound'
  <2>1. CASE ProcessSwitches \/ NoMoreCommands
    BY <2>1, DaemonAtIs DEF ProcessSwitches, NoMoreCommands
  <2>2. CASE ProcessFindsExpired
    <3>1. daemon' = [place |-> "expired", message |-> NoMessage,
                     expire |-> NextExpireTime, now |-> tick]
      BY <2>2 DEF ProcessFindsExpired, DaemonAt
    <3>2. NextExpireTime \in Ticks /\ tick \in Ticks
      BY NextExpireIs DEF ClockSound
    <3>3. Range(current') /= {}
      BY <2>2, NoMembers DEF ProcessFindsExpired, timerLists, TimersSound, Listed
    <3> QED
      BY <3>1, <3>2, <3>3 DEF DaemonSound, DaemonPlaces
  <2>3. CASE ProcessWaits
    <3>1. CASE commands = <<>>
      <4>1. daemon' = [place |-> "waiting", message |-> NoMessage,
                       expire |-> NextExpireTime, now |-> 0]
        BY <2>3, <3>1 DEF ProcessWaits, DaemonAt
      <4>2. NextExpireTime \in Ticks /\ 0 \in Ticks
        BY NextExpireIs, PeriodsAre
      <4>3. commands' = <<>>
        BY <2>3, <3>1 DEF ProcessWaits
      <4> QED
        BY <4>1, <4>2, <4>3 DEF DaemonSound, DaemonPlaces
    <3>2. CASE commands /= <<>>
      BY <2>3, <3>2, DaemonAtIs DEF ProcessWaits
    <3> QED
      BY <3>1, <3>2
  <2> QED
    BY <2>1, <2>2, <2>3
<1>3. TimersSound(current', overflow', expiry')
  BY ListsStay DEF ProcessSwitches, ProcessFindsExpired, ProcessWaits, NoMoreCommands
<1>4. ClockSound'
  BY SoftwareTimersAssumption
     DEF ClockSound, ProcessSwitches, ProcessFindsExpired, ProcessWaits, NoMoreCommands
<1> QED
  BY <1>1, <1>2, <1>3, <1>4

\* The timer at the head of the current list calls back: it is reloaded, or taken out.
LEMMA ExpiresKeeps ==
    ASSUME TimersInv, ProcessExpiredTimer
    PROVE  TimersInv'
<1> USE DEF TimersInv
<1> DEFINE t == Head(current)
           next == Later(daemon.expire, period[t])
<1>1. current /= <<>>
  BY NoMembers DEF DaemonSound, ProcessExpiredTimer, TimersSound, Listed
<1>2. t \in Timers /\ t \notin Range(overflow)
  BY <1>1, HeadOf
<1>3. daemon.expire \in Ticks /\ daemon.now \in Ticks
  BY DEF DaemonSound
<1>4. next \in Ticks
  BY <1>2, <1>3, PeriodsAre, LaterTyped DEF ClockSound
<1>5. \/ TakeOut(t) /\ UNCHANGED commands
      \/ TakeOut(t) /\ commands' = WithReload(t, daemon.expire)
      \/ InsertTimer(t, next, daemon.now) /\ UNCHANGED commands
  BY DEF ProcessExpiredTimer
<1> HIDE DEF t, next
<1>6. TimersSound(current', overflow', expiry')
  BY <1>2, <1>3, <1>4, <1>5, TakeOutIs, InsertTimerIs
<1>7. CommandsSound'
  BY <1>2, <1>3, <1>5, WithReloadIs DEF CommandsSound, ProcessExpiredTimer
<1>8. DaemonSound'
  BY DaemonAtIs DEF ProcessExpiredTimer
<1>9. ClockSound'
  BY DEF ClockSound, ProcessExpiredTimer
<1> QED
  BY <1>6, <1>7, <1>8, <1>9

\* A timer reloads into the list that it is in.
Reinserts(t, next) ==
    /\ expiry' = [expiry EXCEPT ![t] = next]
    /\ current' = Insert(Without(current, t), t, expiry')
    /\ UNCHANGED overflow

LEMMA ReinsertedIs ==
    ASSUME TimersSound(current, overflow, expiry),
           NEW t \in Timers, t \in Range(current), t \notin Range(overflow),
           NEW next \in Ticks, Reinserts(t, next)
    PROVE  /\ TimersSound(current', overflow', expiry')
           /\ Range(current') = Range(current) /\ Range(overflow') = Range(overflow)
           /\ expiry'[t] = next /\ \A u \in Timers : u /= t => expiry'[u] = expiry[u]
<1> DEFINE rest == Without(current, t)
<1>1. Listed(rest, Timers) /\ Range(rest) = Range(current) \ {t} /\ t \notin Range(rest)
  BY WithoutLists DEF TimersSound
<1>2. Sorted(rest, expiry)
  BY WithoutKeepsOrder DEF TimersSound
<1>3. current' = Insert(rest, t, expiry') /\ overflow' = overflow
  BY DEF Reinserts
<1> HIDE DEF rest
<1>4. /\ expiry' \in [Timers -> Ticks] /\ expiry'[t] = next
      /\ \A u \in Timers : u /= t => expiry'[u] = expiry[u]
  BY DEF TimersSound, Reinserts
<1>5. Range(rest) \subseteq Timers /\ Range(overflow) \subseteq Timers
  BY <1>1 DEF TimersSound, Listed, Range
<1>6. Sorted(rest, expiry') /\ Sorted(overflow, expiry')
  <2>1. /\ \A x \in Range(rest) : expiry'[x] = expiry[x]
        /\ \A x \in Range(overflow) : expiry'[x] = expiry[x]
    BY <1>1, <1>4, <1>5
  <2> QED
    BY <1>2, <2>1, SortedAgrees DEF TimersSound
<1>7. \A u \in Timers : expiry'[u] \in Nat
  BY <1>4, TickCountAssumption DEF Ticks
<1>8. /\ Listed(current', Timers) /\ Range(current') = Range(rest) \cup {t}
      /\ Sorted(current', expiry')
  BY <1>1, <1>3, <1>6, <1>7, InsertKeepsOrder
<1> QED
  BY <1>1, <1>3, <1>4, <1>6, <1>8 DEF TimersSound

LEMMA SwitchExpiresKeeps ==
    ASSUME TimersInv, SwitchExpires
    PROVE  TimersInv'
<1> USE DEF TimersInv
<1> DEFINE t == Head(current)
           reload == Later(expiry[t], period[t])
<1>1. /\ t \in Timers /\ t \in Range(current) /\ t \notin Range(overflow)
      /\ expiry[t] \in Ticks
  BY HeadOf DEF SwitchExpires, TimersSound
<1>2. reload \in Ticks
  BY <1>1, PeriodsAre, LaterTyped DEF ClockSound
<1>3. \/ Reinserts(t, reload) /\ UNCHANGED commands
      \/ TakeOut(t) /\ (commands' = commands \/ commands' = WithReload(t, expiry[t]))
  BY DEF SwitchExpires, Reinserts
<1> HIDE DEF t, reload
<1>4. /\ TimersSound(current', overflow', expiry')
      /\ Range(current') \subseteq Range(current) /\ Range(overflow') \subseteq Range(overflow)
  BY <1>1, <1>2, <1>3, ReinsertedIs, TakeOutIs
<1>5. CommandsSound'
  BY <1>1, <1>3, WithReloadIs DEF CommandsSound, SwitchExpires
<1>6. DaemonSound'
  BY <1>4 DEF DaemonSound, SwitchExpires
<1>7. ClockSound'
  BY DEF ClockSound, SwitchExpires
<1> QED
  BY <1>4, <1>5, <1>6, <1>7

\* The lists are exchanged.
LEMMA SwitchKeeps ==
    ASSUME TimersInv, SwitchTimerLists
    PROVE  TimersInv'
<1> USE DEF TimersInv
<1>1. TimersSound(current', overflow', expiry')
  BY DEF TimersSound, SwitchTimerLists
<1>2. Range(current') \cup Range(overflow') = Range(current) \cup Range(overflow)
  BY DEF SwitchTimerLists
<1>3. CommandsSound'
  BY CommandsStay DEF SwitchTimerLists
<1>4. DaemonSound'
  <2>1. CASE daemon.message = NoMessage
    BY <2>1, DaemonAtIs DEF SwitchTimerLists
  <2>2. CASE daemon.message /= NoMessage
    <3>1. daemon' = [daemon EXCEPT !.place = "execute"]
      BY <2>2 DEF SwitchTimerLists
    <3>2. /\ daemon'.place = "execute" /\ daemon'.message = daemon.message
          /\ daemon' \in [place : DaemonPlaces, message : Messages \cup {NoMessage},
                          expire : Ticks, now : Ticks]
      BY <3>1 DEF DaemonSound, DaemonPlaces
    <3> QED
      BY <1>2, <2>2, <3>2 DEF DaemonSound, CommandOK
  <2> QED
    BY <2>1, <2>2
<1>5. ClockSound'
  BY DEF ClockSound, SwitchTimerLists
<1> QED
  BY <1>1, <1>3, <1>4, <1>5

-----------------------------------------------------------------------------
\* A command is received and the timer is taken out of its list.
LEMMA ReceivesKeeps ==
    ASSUME TimersInv, ReceivesCommand
    PROVE  TimersInv'
<1> USE DEF TimersInv
<1> DEFINE m == Head(commands)
<1>1. /\ commands \in Seq(Messages) /\ Len(commands) \in Nat /\ Len(commands) /= 0
      /\ Len(commands) <= TimerQueueLength /\ DOMAIN commands = 1..Len(commands)
  BY EmptySeq DEF CommandsSound, ReceivesCommand
<1>2. CommandOK(m) /\ m \in Messages /\ m.timer \in Timers
  <2>1. m = commands[1] /\ 1 \in DOMAIN commands
    BY <1>1
  <2> QED
    BY <2>1, CommandsAre DEF CommandsSound, CommandOK
<1>3. /\ daemon' = [place |-> IF tick < last THEN "switching" ELSE "execute",
                    message |-> m, expire |-> 0, now |-> tick]
      /\ TakeOut(m.timer)
  BY DEF ReceivesCommand
<1>4. CommandsSound'
  <2>1. commands' = Tail(commands) /\ asked' = asked
    BY DEF ReceivesCommand
  <2>2. /\ Tail(commands) \in Seq(Messages) /\ Len(Tail(commands)) = Len(commands) - 1
        /\ \A n \in 1..(Len(commands) - 1) : Tail(commands)[n] = commands[n + 1]
    BY <1>1
  <2>3. DOMAIN Tail(commands) = 1..(Len(commands) - 1)
    BY <2>2
  <2>4. \A n \in DOMAIN Tail(commands) : CommandOK(Tail(commands)[n])
    BY <1>1, <2>2, <2>3 DEF CommandsSound
  <2>5. Len(Tail(commands)) <= TimerQueueLength
    BY <1>1, <2>2, SoftwareTimersAssumption
  <2> QED
    BY <2>1, <2>2, <2>4, <2>5 DEF CommandsSound
<1> HIDE DEF m
<1>5. /\ TimersSound(current', overflow', expiry')
      /\ m.timer \notin Range(current') \cup Range(overflow')
  BY <1>2, <1>3, TakeOutIs
<1>6. DaemonSound'
  <2>1. /\ daemon'.place \in {"switching", "execute"} /\ daemon'.message = m
        /\ daemon' \in [place : DaemonPlaces, message : Messages \cup {NoMessage},
                        expire : Ticks, now : Ticks]
    BY <1>2, <1>3, PeriodsAre DEF DaemonPlaces, ClockSound
  <2> QED
    BY <1>2, <1>5, <2>1, CommandsAre DEF DaemonSound, CommandOK
<1>7. ClockSound'
  BY DEF ClockSound, ReceivesCommand
<1> QED
  BY <1>4, <1>5, <1>6, <1>7

\* What the timer task has in hand where it executes a command.
LEMMA InHandIs ==
    ASSUME TimersInv, daemon.place \in {"execute", "start_now"}
    PROVE  /\ CommandOK(InHand) /\ InHand \in Messages /\ InHand /= NoMessage
           /\ InHand.timer \in Timers /\ InHand.value \in Ticks /\ InHand.id \in CommandIds
           /\ InHand.timer \notin Range(current) /\ InHand.timer \notin Range(overflow)
           /\ period[InHand.timer] \in Periods /\ period[InHand.timer] \in Ticks
           /\ daemon.now \in Ticks /\ InHand = daemon.message
<1>1. /\ CommandOK(InHand) /\ InHand \in Messages /\ InHand /= NoMessage
      /\ InHand.timer \notin Range(current) /\ InHand.timer \notin Range(overflow)
      /\ daemon.now \in Ticks /\ InHand = daemon.message
  BY DEF TimersInv, DaemonSound, InHand, CommandOK
<1>2. InHand.timer \in Timers /\ InHand.value \in Ticks /\ InHand.id \in CommandIds
  BY <1>1, CommandsAre
<1>3. period[InHand.timer] \in Periods /\ period[InHand.timer] \in Ticks
  BY <1>2, PeriodsAre DEF TimersInv, ClockSound
<1> QED
  BY <1>1, <1>2, <1>3

LEMMA StartKeeps ==
    ASSUME TimersInv, ExecutesStart
    PROVE  TimersInv'
<1> USE DEF TimersInv
<1> DEFINE t == InHand.timer
           next == Later(InHand.value, period[t])
<1>1. /\ CommandOK(InHand) /\ t \in Timers /\ t \notin Range(overflow)
      /\ daemon.now \in Ticks /\ next \in Ticks
  BY InHandIs, LaterTyped DEF ExecutesStart
<1>2. \/ daemon' = [daemon EXCEPT !.place = "start_now"] /\ UNCHANGED timerLists
      \/ daemon' = DaemonAt("commands") /\ InsertTimer(t, next, daemon.now)
  BY DEF ExecutesStart
<1> HIDE DEF t, next
<1>3. TimersSound(current', overflow', expiry')
  BY <1>1, <1>2, InsertTimerIs, ListsStay
<1>4. CommandsSound'
  BY CommandsStay DEF ExecutesStart
<1>5. DaemonSound'
  <2>1. CASE daemon' = DaemonAt("commands")
    BY <2>1, DaemonAtIs
  <2>2. CASE daemon' = [daemon EXCEPT !.place = "start_now"] /\ UNCHANGED timerLists
    <3>1. /\ daemon'.place = "start_now" /\ daemon'.message = daemon.message
          /\ daemon' \in [place : DaemonPlaces, message : Messages \cup {NoMessage},
                          expire : Ticks, now : Ticks]
      BY <2>2 DEF DaemonSound, DaemonPlaces
    <3>2. daemon.message /= NoMessage /\ daemon.message.id \in {"start", "reload"}
      BY InHandIs DEF ExecutesStart, InHand
    <3> QED
      BY <2>2, <3>1, <3>2 DEF DaemonSound, timerLists, CommandOK
  <2> QED
    BY <1>2, <2>1, <2>2
<1>6. ClockSound'
  BY DEF ClockSound, ExecutesStart
<1> QED
  BY <1>3, <1>4, <1>5, <1>6

LEMMA StartsNowKeeps ==
    ASSUME TimersInv, StartsNow
    PROVE  TimersInv'
<1> USE DEF TimersInv
<1>1. InHand.timer \in Timers /\ Later(InHand.value, period[InHand.timer]) \in Ticks
  BY InHandIs, LaterTyped DEF StartsNow
<1>2. \/ commands' = commands
      \/ commands' = WithReload(InHand.timer, Later(InHand.value, period[InHand.timer]))
  BY DEF StartsNow
<1>3. CommandsSound'
  BY <1>1, <1>2, WithReloadIs DEF CommandsSound, StartsNow
<1>4. TimersSound(current', overflow', expiry')
  BY ListsStay DEF StartsNow
<1>5. DaemonSound'
  BY DaemonAtIs DEF StartsNow
<1>6. ClockSound'
  BY DEF ClockSound, StartsNow
<1> QED
  BY <1>3, <1>4, <1>5, <1>6

LEMMA StopKeeps ==
    ASSUME TimersInv, ExecutesStop
    PROVE  TimersInv'
<1> USE DEF TimersInv
<1>1. TimersSound(current', overflow', expiry')
  BY ListsStay DEF ExecutesStop
<1>2. CommandsSound'
  BY CommandsStay DEF ExecutesStop
<1>3. DaemonSound'
  BY DaemonAtIs DEF ExecutesStop
<1>4. ClockSound'
  BY DEF ClockSound, ExecutesStop
<1> QED
  BY <1>1, <1>2, <1>3, <1>4

LEMMA ChangePeriodKeeps ==
    ASSUME TimersInv, ExecutesChangePeriod
    PROVE  TimersInv'
<1> USE DEF TimersInv
<1>1. InHand.value \in Periods /\ InHand.value \in Ticks
  BY InHandIs DEF ExecutesChangePeriod, CommandOK
<1>2. /\ InHand.timer \in Timers /\ InHand.timer \notin Range(overflow)
      /\ daemon.now \in Ticks /\ Later(daemon.now, InHand.value) \in Ticks
  BY <1>1, InHandIs, LaterTyped DEF ExecutesChangePeriod
<1>3. TimersSound(current', overflow', expiry')
  BY <1>2, InsertTimerIs DEF ExecutesChangePeriod
<1>4. CommandsSound'
  BY CommandsStay DEF ExecutesChangePeriod
<1>5. DaemonSound'
  BY DaemonAtIs DEF ExecutesChangePeriod
<1>6. ClockSound'
  BY <1>1, <1>2 DEF ClockSound, ExecutesChangePeriod
<1> QED
  BY <1>3, <1>4, <1>5, <1>6

-----------------------------------------------------------------------------
LEMMA TimersStart == TimersInit => TimersInv
<1> SUFFICES ASSUME TimersInit PROVE TimersInv
  OBVIOUS
<1> USE DEF TimersInit
<1>1. TimersSound(current, overflow, expiry)
  BY PeriodsAre DEF TimersSound, Listed, IsInjective, Sorted, Range
<1>2. CommandsSound
  BY SoftwareTimersAssumption DEF CommandsSound
<1>3. DaemonSound
  BY PeriodsAre DEF DaemonSound, DaemonAt, DaemonPlaces
<1>4. ClockSound
  BY PeriodsAre, SoftwareTimersAssumption DEF ClockSound
<1> QED
  BY <1>1, <1>2, <1>3, <1>4 DEF TimersInv

LEMMA TimersStep == TimersInv /\ [TimersNext]_timersVars => TimersInv'
<1> SUFFICES ASSUME TimersInv, [TimersNext]_timersVars PROVE TimersInv'
  OBVIOUS
<1>1. CASE UNCHANGED timersVars
  BY <1>1 DEF timersVars, TimersInv, TimersSound, CommandsSound, CommandOK, DaemonSound, ClockSound
<1>2. CASE Asks \/ Sends \/ Tick
  BY <1>2, AsksKeeps, SendsKeeps, TickKeeps
<1>3. CASE DaemonNext
  BY <1>3, ProcessKeeps, ExpiresKeeps, SwitchExpiresKeeps, SwitchKeeps, ReceivesKeeps, StartKeeps,
     StartsNowKeeps, StopKeeps, ChangePeriodKeeps DEF DaemonNext
<1> QED
  BY <1>1, <1>2, <1>3 DEF TimersNext

THEOREM TimersInvariant == TimersSpec => []TimersInv
BY TimersStart, TimersStep, PTL DEF TimersSpec

\* What the timers and the timer task hold is of the kind the code declares, in every
\* state (timers.c): a timer the lists or a command name is one that exists, each
\* period is one that a task has asked for and not 0, and every time is a tick count.
THEOREM TimersTypes == TimersSpec => []TimersTypeOK
<1>1. TimersInv => TimersTypeOK
  <2> SUFFICES ASSUME TimersInv PROVE TimersTypeOK
    OBVIOUS
  <2>1. /\ current \in Seq(Timers) /\ overflow \in Seq(Timers) /\ expiry \in [Timers -> Ticks]
    BY DEF TimersInv, TimersSound, Listed
  <2>2. asked \in Messages \cup {NoMessage}
    BY DEF TimersInv, CommandsSound, CommandOK
  <2> QED
    BY <2>1, <2>2 DEF TimersInv, CommandsSound, DaemonSound, ClockSound, TimersTypeOK
<1> QED
  BY <1>1, TimersInvariant, PTL

-----------------------------------------------------------------------------
(***************************************************************************)
(* The times of the timer task.  The tick count wraps, and which of two    *)
(* times is the later cannot be seen from them.  They are told apart by    *)
(* what the timer task knows: no command and no expiry time it has to do   *)
(* with is older than the time it is late, and it samples the count before *)
(* the count, once wrapped, can come up to the time of the last sample.    *)
(***************************************************************************)
\* A timer's period and the time that the timer task can be late are less than a round
\* of the tick count.
Punctual == \A p \in Periods : p + MaxLate <= MaxDelay

\* The commands that start a timer as of the time they were sent, the times since when
\* the timer task, or a task with a command for it, has had something to do, and those
\* no later than its last sample of the time.
IsStart(m) == m.id \in {"start", "reload"}
Fresh(time) == Elapsed(time, tick) <= late
Sampled(time) == Elapsed(daemon.now, tick) <= Elapsed(time, tick)

CommandsFresh ==
    /\ IsStart(asked) => Fresh(asked.value)
    /\ \A n \in DOMAIN commands : IsStart(commands[n]) => Fresh(commands[n].value)

InHandFresh ==
    /\ IsStart(daemon.message) => Fresh(daemon.message.value) /\ Sampled(daemon.message.value)
    /\ daemon.message /= NoMessage \/ daemon.place = "expired" =>
           daemon.now = last /\ Fresh(daemon.now)
    /\ daemon.place = "start_now" =>
           period[daemon.message.timer] <= Elapsed(daemon.message.value, daemon.now)
    /\ daemon.place = "expired" =>
           /\ daemon.expire = expiry[Head(current)] /\ daemon.expire <= daemon.now
           /\ Fresh(daemon.expire) /\ Sampled(daemon.expire)

\* The timer task waits for the next timer in the list, or for the count to wrap.
WaitsOK ==
    daemon.place = "waiting" /\ Range(current) \cup Range(overflow) /= {} =>
        /\ last <= tick
        /\ daemon.expire = IF Range(current) = {} THEN 0 ELSE expiry[Head(current)]
        /\ Range(current) /= {} => tick < daemon.expire

\* A time of the current list is not further back than the timer task is late.
NotBehind(time) == CurrentTime <= time + late

\* Each list is of the round it is taken for, and the next sample shows it.
RoundsOK ==
    Range(current) \cup Range(overflow) /= {} =>
        /\ daemon.place = "switching" => last <= tick
        /\ ListsAreOld => tick <= late
        /\ \A t \in Range(current) : NotBehind(expiry[t])
        /\ daemon.place /= "switching" =>
               \A t \in Range(current) : expiry[t] + MaxLate <= last + MaxDelay
        /\ \A t \in Range(overflow) : expiry[t] + MaxLate <= MaxDelay
        /\ daemon.place /= "switching" /\ Range(overflow) /= {} => MaxLate < last

TimesInv == CommandsFresh /\ InHandFresh /\ WaitsOK /\ RoundsOK

-----------------------------------------------------------------------------
\* What a tick does to the time since another.
LEMMA AgesByOne ==
    ASSUME NEW time \in Ticks, NEW now \in Ticks
    PROVE  /\ Later(now, 1) = IF now = MaxDelay THEN 0 ELSE now + 1
           /\ Elapsed(time, now) \in Ticks /\ Elapsed(time, time) = 0
           /\ Elapsed(time, Later(now, 1)) <= Elapsed(time, now) + 1
           /\ Elapsed(time, now) < MaxDelay =>
                 Elapsed(time, Later(now, 1)) = Elapsed(time, now) + 1
BY TickCountAssumption DEF Ticks, Round, Later, Elapsed

\* A period after a time that is further back than the period.
LEMMA RestartAge ==
    ASSUME NEW time \in Ticks, NEW now \in Ticks, NEW then \in Ticks, NEW p \in Ticks,
           p <= Elapsed(time, then), Elapsed(then, now) <= Elapsed(time, now)
    PROVE  p <= Elapsed(time, now) /\ Elapsed(Later(time, p), now) = Elapsed(time, now) - p
BY TickCountAssumption DEF Ticks, Round, Later, Elapsed

\* The round of a timer that has not expired, and what is left of its period.
LEMMA InsertedDue ==
    ASSUME NEW time \in Ticks, NEW now \in Ticks, NEW then \in Ticks, NEW p \in Ticks,
           Elapsed(time, then) < p, Elapsed(then, now) <= Elapsed(time, now)
    PROVE  /\ Later(time, p) <= then =>
                 Later(time, p) + Round - (IF now < then THEN now + Round ELSE now)
                     = p - Elapsed(time, now)
           /\ ~ (Later(time, p) <= then) =>
                 Later(time, p) - (IF now < then THEN now + Round ELSE now)
                     = p - Elapsed(time, now)
BY TickCountAssumption DEF Ticks, Round, Later, Elapsed

\* Its expiry time, against the sample it was put into its list at.
LEMMA InsertedBounds ==
    ASSUME NEW time \in Ticks, NEW then \in Ticks, NEW p \in Ticks,
           Elapsed(time, then) < p, p + MaxLate <= MaxDelay
    PROVE  /\ Later(time, p) <= then => Later(time, p) + MaxLate <= MaxDelay /\ MaxLate < then
           /\ ~ (Later(time, p) <= then) => Later(time, p) + MaxLate <= then + MaxDelay
BY TickCountAssumption, SoftwareTimersAssumption DEF Ticks, Round, Later, Elapsed

\* The time since one of the round before.
LEMMA OldAge ==
    ASSUME NEW time \in Ticks, NEW now \in Ticks
    PROVE  /\ now < time => Elapsed(time, now) = now - time + Round
           /\ now < time => now < Elapsed(time, now)
           /\ time <= now => Elapsed(time, now) = now - time
BY TickCountAssumption DEF Ticks, Round, Elapsed

LEMMA LateIs ==
    ASSUME ClockSound, Punctual, NEW t \in Timers
    PROVE  /\ MaxLate \in Nat /\ MaxDelay \in Nat /\ MaxLate < MaxDelay
           /\ period[t] \in Periods /\ period[t] \in Ticks /\ 0 < period[t]
           /\ period[t] + MaxLate <= MaxDelay
           /\ tick \in Ticks /\ last \in Ticks /\ late \in Nat /\ late <= MaxLate
<1>1. period[t] \in Periods /\ period[t] + MaxLate <= MaxDelay
  BY DEF ClockSound, Punctual
<1>2. period[t] \in Ticks \ {0}
  BY <1>1, PeriodsAre
<1> QED
  BY <1>1, <1>2, TickCountAssumption, SoftwareTimersAssumption DEF ClockSound, Ticks

-----------------------------------------------------------------------------
\* The commands stay as fresh while no time passes, with one sent that is fresh.
LEMMA AppendFresh ==
    ASSUME CommandsFresh, UNCHANGED <<tick, late>>, CommandsSound,
           asked' = asked \/ asked' = NoMessage,
           NEW m \in Messages, IsStart(m) => Fresh(m.value), commands' = Append(commands, m)
    PROVE  CommandsFresh'
<1>1. /\ commands \in Seq(Messages) /\ DOMAIN commands = 1..Len(commands)
      /\ Len(commands) \in Nat
  BY DEF CommandsSound
<1>2. /\ Append(commands, m) \in Seq(Messages) /\ Len(Append(commands, m)) = Len(commands) + 1
      /\ \A n \in 1..Len(commands) : Append(commands, m)[n] = commands[n]
      /\ Append(commands, m)[Len(commands) + 1] = m
  BY <1>1
<1>3. DOMAIN Append(commands, m) = 1..(Len(commands) + 1)
  BY <1>2
<1>4. /\ \A n \in DOMAIN commands : commands'[n] = commands[n]
      /\ commands'[Len(commands) + 1] = m
      /\ \A n \in DOMAIN commands' : n \in DOMAIN commands \/ n = Len(commands) + 1
  BY <1>1, <1>2, <1>3
<1>5. \A n \in DOMAIN commands' : IsStart(commands'[n]) => Fresh(commands'[n].value)
  BY <1>4 DEF CommandsFresh
<1>6. ~ IsStart(NoMessage)
  BY DEF IsStart, NoMessage
<1>7. IsStart(asked') => Fresh(asked'.value)
  BY <1>6 DEF CommandsFresh
<1> QED
  BY <1>5, <1>7 DEF CommandsFresh, IsStart, Fresh

LEMMA FreshStays ==
    ASSUME CommandsFresh, UNCHANGED <<tick, late, asked>>, CommandsSound,
           NEW t \in Timers, NEW value \in Ticks,
           \/ commands' = commands
           \/ commands' = WithReload(t, value) /\ Fresh(value)
    PROVE  CommandsFresh'
<1> DEFINE m == [id |-> "reload", timer |-> t, value |-> value]
<1>1. CASE commands' = commands
  BY <1>1 DEF CommandsFresh, IsStart, Fresh
<1>2. CASE commands' = Append(commands, m) /\ Fresh(value)
  <2>1. m \in Messages /\ m.value = value
    BY DEF Messages, CommandIds
  <2> HIDE DEF m
  <2> QED
    BY <1>2, <2>1, AppendFresh
<1>3. commands' = commands \/ (commands' = Append(commands, m) /\ Fresh(value))
  BY DEF WithReload
<1> QED
  BY <1>1, <1>2, <1>3

LEMMA FreshAsBefore ==
    ASSUME CommandsFresh, UNCHANGED <<tick, late, asked, commands>>
    PROVE  CommandsFresh'
BY DEF CommandsFresh, IsStart, Fresh

\* Nothing in hand, and no timer found expired.
LEMMA NothingInHand ==
    ASSUME NEW place \in {"next", "waiting", "commands", "switching"},
           daemon'.place = place, daemon'.message = NoMessage
    PROVE  InHandFresh'
BY DEF InHandFresh, IsStart, NoMessage

\* The lists lose timers.
LEMMA FewerTimers ==
    ASSUME RoundsOK, Range(current') \subseteq Range(current), Range(overflow') \subseteq Range(overflow),
           \A t \in Range(current') \cup Range(overflow') : expiry'[t] = expiry[t],
           UNCHANGED <<tick, last, late>>,
           daemon'.place = "switching" <=> daemon.place = "switching"
    PROVE  RoundsOK'
<1>1. ListsAreOld' <=> ListsAreOld
  BY DEF ListsAreOld
<1>2. \A x : NotBehind(x)' <=> NotBehind(x)
  BY <1>1 DEF NotBehind, CurrentTime
<1>3. SUFFICES ASSUME Range(current') \cup Range(overflow') /= {} PROVE RoundsOK'
  BY DEF RoundsOK
<1>4. Range(current) \cup Range(overflow) /= {}
  BY <1>3
<1>5. \A t \in Range(current') : NotBehind(expiry[t])
  BY <1>4 DEF RoundsOK
<1>6. \A t \in Range(current') : NotBehind(expiry[t])'
  <2>1. \A t \in Range(current') : NotBehind(expiry'[t])
    BY <1>5
  <2> QED
    BY <1>1, <2>1 DEF NotBehind, CurrentTime
<1> QED
  BY <1>1, <1>4, <1>6 DEF RoundsOK

\* A timer that has not expired goes to the list of the round it expires in.
LEMMA InsertedInRound ==
    ASSUME TimersInv, Punctual, RoundsOK, NEW t \in Timers, t \notin Range(overflow),
           NEW p \in Periods, NEW time \in Ticks,
           daemon.place /= "switching", daemon'.place /= "switching",
           daemon.now = last, Fresh(last), Fresh(time), Elapsed(last, tick) <= Elapsed(time, tick),
           Elapsed(time, last) < p,
           InsertTimer(t, Later(time, p), last), UNCHANGED <<tick, last, late>>
    PROVE  /\ RoundsOK'
           /\ DueInList(t)' = p - Elapsed(time, tick)
           /\ \A u \in Timers \ {t} : Contains(current', u) <=> Contains(current, u)
           /\ \A u \in Timers \ {t} : Contains(overflow', u) <=> Contains(overflow, u)
           /\ \A u \in Timers \ {t} : expiry'[u] = expiry[u]
           /\ t \in Range(current') \cup Range(overflow')
<1> DEFINE next == Later(time, p)
           age == Elapsed(time, tick)
<1>1. /\ p \in Ticks /\ 0 < p /\ p + MaxLate <= MaxDelay /\ next \in Ticks
      /\ MaxLate \in Nat /\ MaxDelay \in Nat /\ MaxLate < MaxDelay
      /\ tick \in Ticks /\ last \in Ticks /\ late \in Nat /\ late <= MaxLate
  <2>1. p \in Ticks \ {0} /\ p + MaxLate <= MaxDelay
    BY PeriodsAre DEF Punctual
  <2>2. next \in Ticks
    BY <2>1, LaterTyped
  <2>3. 0 < p
    BY <2>1, TickCountAssumption DEF Ticks
  <2> QED
    BY <2>1, <2>2, <2>3, LateIs DEF TimersInv
<1>2. /\ TimersSound(current', overflow', expiry')
      /\ expiry'[t] = next /\ \A u \in Timers : u /= t => expiry'[u] = expiry[u]
      /\ next <= last => /\ Range(current') = Range(current) \ {t}
                         /\ Range(overflow') = Range(overflow) \cup {t}
      /\ ~ (next <= last) => /\ Range(current') = Range(current) \cup {t}
                             /\ Range(overflow') = Range(overflow)
  BY <1>1, InsertTimerIs DEF TimersInv
<1>3. /\ next <= last => next + Round - (IF tick < last THEN tick + Round ELSE tick) = p - age
      /\ ~ (next <= last) => next - (IF tick < last THEN tick + Round ELSE tick) = p - age
  BY <1>1, InsertedDue
<1>4. /\ next <= last => next + MaxLate <= MaxDelay /\ MaxLate < last
      /\ ~ (next <= last) => next + MaxLate <= last + MaxDelay
  BY <1>1, InsertedBounds
<1>5. age \in Ticks /\ age <= late
  BY <1>1, AgesByOne DEF Fresh
<1>6. (ListsAreOld <=> tick < last) /\ (ListsAreOld' <=> tick < last)
  BY DEF ListsAreOld
<1>7. tick < last => tick <= late
  <2>1. tick < last => tick < Elapsed(last, tick) /\ Elapsed(last, tick) \in Ticks
    BY <1>1, OldAge, LaterTyped
  <2> QED
    BY <1>1, <2>1 DEF Fresh, Ticks
<1>8. current' \in Seq(Timers) /\ overflow' \in Seq(Timers)
  BY <1>2 DEF TimersSound, Listed
<1>9. current \in Seq(Timers) /\ overflow \in Seq(Timers)
  BY DEF TimersInv, TimersSound, Listed
<1>10. Range(current') \cap Range(overflow') = {}
  BY <1>2 DEF TimersSound
<1> HIDE DEF next, age
<1>11. DueInList(t)' = p - age
  <2>1. CASE next <= last
    <3>1. ~ Contains(current', t)
      BY <1>2, <1>8, <2>1, NoMembers
    <3>2. DueInList(t)' = next + Round - (IF tick < last THEN tick + Round ELSE tick)
      BY <1>2, <1>6, <3>1 DEF DueInList, CurrentTime
    <3> QED
      BY <1>3, <2>1, <3>2
  <2>2. CASE ~ (next <= last)
    <3>1. Contains(current', t)
      BY <1>2, <1>8, <2>2, NoMembers
    <3>2. DueInList(t)' = next - (IF tick < last THEN tick + Round ELSE tick)
      BY <1>2, <1>6, <3>1 DEF DueInList, CurrentTime
    <3> QED
      BY <1>3, <2>2, <3>2
  <2> QED
    BY <2>1, <2>2
<1>12. RoundsOK'
  <2> DEFINE Behind(x) == (IF tick < last THEN tick + Round ELSE tick) <= x + late
  <2>1. \A x : Behind(x) <=> NotBehind(x)
    BY <1>6 DEF NotBehind, CurrentTime
  <2>a. Range(current') \subseteq Timers /\ Range(overflow') \subseteq Timers
    BY <1>8 DEF Range
  <2>2. \A u \in Range(current') : u = t \/ (u \in Range(current) /\ expiry'[u] = expiry[u])
    BY <1>2, <2>a
  <2>3. \A u \in Range(overflow') : u = t \/ (u \in Range(overflow) /\ expiry'[u] = expiry[u])
    BY <1>2, <2>a
  <2>4. ~ (next <= last) => Behind(next)
    BY <1>1, <1>3, <1>5 DEF Ticks, Round
  <2>5. \A u \in Range(current) : NotBehind(expiry[u])
    BY DEF RoundsOK
  <2>6. t \in Range(current') => ~ (next <= last)
    BY <1>2
  <2>7. t \in Range(overflow') => next <= last
    BY <1>2, <1>10
  <2>8. \A u \in Range(current') : Behind(expiry'[u])
    BY <1>2, <2>1, <2>2, <2>4, <2>5, <2>6
  <2>9. \A u \in Range(current') : NotBehind(expiry[u])'
    BY <1>6, <2>8 DEF NotBehind, CurrentTime
  <2> HIDE DEF Behind
  <2>10. \A u \in Range(current') : expiry'[u] + MaxLate <= last + MaxDelay
    BY <1>2, <1>4, <2>2, <2>6 DEF RoundsOK
  <2>11. \A u \in Range(overflow') : expiry'[u] + MaxLate <= MaxDelay
    BY <1>2, <1>4, <2>3, <2>7 DEF RoundsOK
  <2>12. Range(overflow') /= {} => MaxLate < last
    BY <1>2, <1>4 DEF RoundsOK
  <2> QED
    BY <1>6, <1>7, <2>9, <2>10, <2>11, <2>12 DEF RoundsOK
<1> QED
  BY <1>2, <1>8, <1>9, <1>11, <1>12, NoMembers DEF age

-----------------------------------------------------------------------------
\* What the commands of the tasks do to the times.
LEMMA RoundsStay ==
    ASSUME RoundsOK, UNCHANGED <<tick, last, late, timerLists>>,
           daemon'.place = "switching" <=> daemon.place = "switching"
    PROVE  RoundsOK'
BY FewerTimers DEF timerLists

LEMMA AsksTimes ==
    ASSUME TimersInv, Punctual, TimesInv, Asks
    PROVE  TimesInv'
<1> USE DEF TimesInv
<1>1. RoundsOK'
  BY RoundsStay DEF Asks
<1>2. CommandsFresh'
  <2>1. PICK t \in Timers :
            asked' \in {[id |-> "start", timer |-> t, value |-> tick],
                        [id |-> "stop", timer |-> t, value |-> 0]}
                       \cup {[id |-> "period", timer |-> t, value |-> n] : n \in Periods}
    BY DEF Asks
  <2>2. IsStart(asked') => asked'.value = tick
    BY <2>1 DEF IsStart
  <2>3. Fresh(tick)
    <3>1. tick \in Ticks /\ late \in Nat
      BY DEF TimersInv, ClockSound
    <3> QED
      BY <3>1, AgesByOne DEF Fresh
  <2> QED
    BY <2>2, <2>3 DEF CommandsFresh, Asks, IsStart, Fresh
<1>3. InHandFresh'
  BY DEF InHandFresh, Asks, IsStart, Fresh, Sampled, timerLists
<1>4. WaitsOK'
  BY DEF WaitsOK, Asks, timerLists
<1> QED
  BY <1>1, <1>2, <1>3, <1>4

LEMMA SendsTimes ==
    ASSUME TimersInv, Punctual, TimesInv, Sends
    PROVE  TimesInv'
<1> USE DEF TimesInv
<1>1. daemon' = daemon \/ (daemon' = DaemonAt("commands") /\ daemon.place = "waiting")
  BY DEF Sends, Woken
<1>2. daemon'.place = "switching" <=> daemon.place = "switching"
  BY <1>1 DEF DaemonAt
<1>3. RoundsOK'
  BY <1>2, RoundsStay DEF Sends
<1>4. CommandsFresh'
  <2>1. asked \in Messages
    BY DEF Sends, TimersInv, CommandsSound, CommandOK
  <2> QED
    BY <2>1, AppendFresh DEF Sends, TimersInv, CommandsFresh
<1>5. InHandFresh'
  <2>1. CASE daemon' = daemon
    BY <2>1 DEF InHandFresh, Sends, IsStart, Fresh, Sampled, timerLists
  <2>2. CASE daemon' = DaemonAt("commands")
    BY <2>2, NothingInHand DEF DaemonAt
  <2> QED
    BY <1>1, <2>1, <2>2
<1>6. WaitsOK'
  BY <1>1 DEF WaitsOK, Sends, timerLists, DaemonAt
<1> QED
  BY <1>3, <1>4, <1>5, <1>6

-----------------------------------------------------------------------------
\* The timer task turns to what is next.
LEMMA NotBehindNow ==
    ASSUME TimersInv, Punctual, RoundsOK, ~ ListsAreOld, daemon.place /= "switching",
           last' = tick, tick' = tick, daemon'.place /= "switching", UNCHANGED timerLists,
           late' \in Nat, \A t \in Range(current) : tick <= expiry[t] + late'
    PROVE  RoundsOK'
<1>1. tick \in Ticks /\ last \in Ticks /\ last <= tick
  BY TickCountAssumption DEF TimersInv, ClockSound, ListsAreOld, Ticks
<1>2. ~ ListsAreOld'
  BY <1>1, TickCountAssumption DEF ListsAreOld, Ticks
<1>3. \A t \in Range(current') : NotBehind(expiry[t])'
  BY <1>2 DEF NotBehind, CurrentTime, timerLists
<1>4. Range(current) \subseteq Timers /\ Range(overflow) \subseteq Timers
  BY DEF TimersInv, TimersSound, Listed, Range
<1>5. \A t \in Timers : expiry[t] \in Nat
  BY TickCountAssumption DEF TimersInv, TimersSound, Ticks
<1>6. MaxLate \in Nat /\ MaxDelay \in Nat /\ tick \in Nat /\ last \in Nat
  BY <1>1, TickCountAssumption, SoftwareTimersAssumption DEF Ticks
<1>7. Range(current) \cup Range(overflow) /= {} =>
          /\ \A t \in Range(current) : expiry[t] + MaxLate <= tick + MaxDelay
          /\ \A t \in Range(overflow) : expiry[t] + MaxLate <= MaxDelay
          /\ Range(overflow) /= {} => MaxLate < tick
  BY <1>1, <1>4, <1>5, <1>6 DEF RoundsOK
<1> QED
  BY <1>2, <1>3, <1>7 DEF RoundsOK, timerLists

LEMMA ProcessSwitchesTimes ==
    ASSUME TimersInv, Punctual, TimesInv, ProcessSwitches
    PROVE  TimesInv'
<1> USE DEF TimesInv
<1>1. CommandsFresh'
  BY FreshAsBefore DEF ProcessSwitches
<1>2. /\ daemon'.place = "switching" /\ daemon'.message = NoMessage
      /\ daemon.place = "next" /\ tick < last /\ last' = tick
      /\ UNCHANGED <<tick, timerLists, late>>
  BY DEF ProcessSwitches, DaemonAt
<1>3. InHandFresh'
  BY <1>2, NothingInHand
<1>4. WaitsOK'
  BY <1>2 DEF WaitsOK
<1>5. ListsAreOld /\ ListsAreOld'
  BY <1>2 DEF ListsAreOld
<1>6. \A x : NotBehind(x)' <=> NotBehind(x)
  BY <1>2, <1>5 DEF NotBehind, CurrentTime
<1>7. \A t \in Range(current') : NotBehind(expiry[t])' <=> NotBehind(expiry[t])
  BY <1>2, <1>5 DEF NotBehind, CurrentTime, timerLists
<1>8. tick \in Nat
  BY TickCountAssumption DEF TimersInv, ClockSound, Ticks
<1>9. RoundsOK'
  BY <1>2, <1>5, <1>7, <1>8 DEF RoundsOK, timerLists
<1> QED
  BY <1>1, <1>3, <1>4, <1>9

LEMMA FindsExpiredTimes ==
    ASSUME TimersInv, Punctual, TimesInv, ProcessFindsExpired
    PROVE  TimesInv'
<1> USE DEF TimesInv
<1>1. CommandsFresh'
  BY FreshAsBefore DEF ProcessFindsExpired
<1>2. /\ daemon' = [place |-> "expired", message |-> NoMessage,
                    expire |-> NextExpireTime, now |-> tick]
      /\ daemon.place = "next" /\ ~ (tick < last) /\ last' = tick
      /\ current /= <<>> /\ NextExpireTime = expiry[Head(current)] /\ NextExpireTime <= tick
      /\ UNCHANGED <<tick, timerLists, late>>
  <2>1. tick \in Nat /\ last \in Nat
    BY TickCountAssumption DEF TimersInv, ClockSound, Ticks
  <2>2. tick >= last /\ ~ (tick < last)
    BY <2>1 DEF ProcessFindsExpired
  <2>3. daemon' = [place |-> "expired", message |-> NoMessage,
                   expire |-> NextExpireTime, now |-> tick]
    BY DEF ProcessFindsExpired, DaemonAt
  <2>4. current /= <<>> /\ NextExpireTime = expiry[Head(current)]
    BY DEF ProcessFindsExpired, NextExpireTime
  <2> QED
    BY <2>2, <2>3, <2>4 DEF ProcessFindsExpired
<1>3. ~ ListsAreOld
  BY <1>2 DEF ListsAreOld
<1>4. Head(current) \in Timers /\ Head(current) \in Range(current)
  BY <1>2, HeadOf DEF TimersInv
<1>5. /\ tick \in Ticks /\ late \in Nat /\ NextExpireTime \in Ticks
  BY NextExpireIs DEF TimersInv, ClockSound
<1>6. \A t \in Range(current) : tick <= expiry[t] + late
  BY <1>3, <1>4 DEF RoundsOK, NotBehind, CurrentTime
<1>7. RoundsOK'
  BY <1>2, <1>3, <1>5, <1>6, NotBehindNow
<1>8. WaitsOK'
  BY <1>2 DEF WaitsOK
<1>9. InHandFresh'
  <2>1. Elapsed(tick, tick) = 0 /\ Elapsed(NextExpireTime, tick) = tick - NextExpireTime
    BY <1>2, <1>5, AgesByOne, OldAge
  <2>2. Elapsed(NextExpireTime, tick) <= late /\ 0 <= late /\ 0 <= tick - NextExpireTime
    BY <1>2, <1>4, <1>5, <1>6, <2>1, TickCountAssumption DEF Ticks
  <2>3. /\ daemon'.place = "expired" /\ daemon'.message = NoMessage
        /\ daemon'.expire = NextExpireTime /\ daemon'.now = tick
        /\ expiry'[Head(current')] = NextExpireTime
    BY <1>2 DEF timerLists
  <2>4. ~ IsStart(NoMessage)
    BY DEF IsStart, NoMessage
  <2>5. Fresh(daemon.now)' /\ Fresh(daemon.expire)' /\ Sampled(daemon.expire)'
    BY <1>2, <2>1, <2>2, <2>3 DEF Fresh, Sampled
  <2> QED
    BY <1>2, <2>3, <2>4, <2>5 DEF InHandFresh, IsStart
<1> QED
  BY <1>1, <1>7, <1>8, <1>9

LEMMA ProcessWaitsTimes ==
    ASSUME TimersInv, Punctual, TimesInv, ProcessWaits
    PROVE  TimesInv'
<1> USE DEF TimesInv
<1>1. /\ daemon.place = "next" /\ ~ (tick < last) /\ last' = tick
      /\ UNCHANGED <<tick, timerLists, commands, asked>>
      /\ ~ (current /= <<>> /\ NextExpireTime <= tick)
      /\ late' = IF commands = <<>> /\ asked = NoMessage THEN 0 ELSE late
  <2>1. tick \in Nat /\ last \in Nat
    BY TickCountAssumption DEF TimersInv, ClockSound, Ticks
  <2> QED
    BY <2>1 DEF ProcessWaits
<1>2. /\ daemon'.place \in {"waiting", "commands"} /\ daemon'.message = NoMessage
      /\ daemon'.place = "waiting" => daemon'.expire = NextExpireTime
  BY DEF ProcessWaits, DaemonAt
<1>3. ~ ListsAreOld
  BY <1>1 DEF ListsAreOld
<1>4. /\ tick \in Nat /\ late \in Nat /\ \A t \in Timers : expiry[t] \in Nat
      /\ NextExpireTime \in Nat
  BY NextExpireIs, TickCountAssumption DEF TimersInv, ClockSound, TimersSound, Ticks
<1>5. Range(current) \subseteq Timers
  BY DEF TimersInv, TimersSound, Listed, Range
<1>6. current /= <<>> <=> Range(current) /= {}
  BY NoMembers DEF TimersInv, TimersSound, Listed
<1>7. Range(current) /= {} => /\ NextExpireTime = expiry[Head(current)] /\ tick < NextExpireTime
                              /\ \A t \in Range(current) : NextExpireTime <= expiry[t]
  BY <1>1, <1>4, <1>6, HeadOf DEF NextExpireTime, TimersInv
<1>8. \A t \in Range(current) : tick <= expiry[t] + late'
  BY <1>1, <1>4, <1>5, <1>7
<1>9. RoundsOK'
  BY <1>1, <1>2, <1>3, <1>4, <1>8, NotBehindNow
<1>10. CommandsFresh'
  <2>1. CASE commands = <<>> /\ asked = NoMessage
    BY <1>1, <2>1 DEF CommandsFresh, IsStart, NoMessage
  <2>2. CASE ~ (commands = <<>> /\ asked = NoMessage)
    BY <1>1, <2>2, FreshAsBefore
  <2> QED
    BY <2>1, <2>2
<1>11. InHandFresh'
  BY <1>2, NothingInHand
<1>12. WaitsOK'
  <2>1. Range(current) = {} => NextExpireTime = 0
    BY <1>6 DEF NextExpireTime
  <2> QED
    BY <1>1, <1>2, <1>4, <1>7, <2>1 DEF WaitsOK, timerLists
<1> QED
  BY <1>9, <1>10, <1>11, <1>12

LEMMA NoMoreTimes ==
    ASSUME TimersInv, Punctual, TimesInv, NoMoreCommands
    PROVE  TimesInv'
<1> USE DEF TimesInv
<1>1. /\ daemon.place = "commands" /\ daemon'.place = "next" /\ daemon'.message = NoMessage
      /\ UNCHANGED <<tick, last, timerLists, commands, asked, late>>
  BY DEF NoMoreCommands, DaemonAt
<1>2. CommandsFresh'
  BY <1>1, FreshAsBefore
<1>3. InHandFresh'
  BY <1>1, NothingInHand
<1>4. WaitsOK'
  BY <1>1 DEF WaitsOK
<1>5. RoundsOK'
  BY <1>1, RoundsStay
<1> QED
  BY <1>2, <1>3, <1>4, <1>5

-----------------------------------------------------------------------------
\* The timer found expired: when it was due, and what is done to it.
LEMMA ExpiredIs ==
    ASSUME TimersInv, Punctual, TimesInv, ProcessExpiredTimer, NEW t, t = Head(current)
    PROVE  /\ t \in Timers /\ t \in Range(current) /\ t \notin Range(overflow)
           /\ daemon.expire = expiry[t] /\ daemon.expire \in Ticks
           /\ Fresh(daemon.expire) /\ Fresh(last) /\ daemon.now = last
           /\ Elapsed(last, tick) <= Elapsed(daemon.expire, tick)
           /\ daemon.expire <= last /\ Elapsed(daemon.expire, last) = last - daemon.expire
           /\ \/ t \notin AutoReload /\ TakeOut(t) /\ UNCHANGED commands
              \/ t \in AutoReload /\ TakeOut(t) /\ commands' = WithReload(t, daemon.expire)
              \/ /\ t \in AutoReload /\ UNCHANGED commands
                 /\ Elapsed(daemon.expire, last) < period[t]
                 /\ InsertTimer(t, Later(daemon.expire, period[t]), last)
<1>1. current /= <<>>
  BY NoMembers DEF TimersInv, DaemonSound, ProcessExpiredTimer, TimersSound, Listed
<1>2. t \in Timers /\ t \in Range(current) /\ t \notin Range(overflow)
  BY <1>1, HeadOf DEF TimersInv
<1>3. /\ daemon.expire = expiry[t] /\ daemon.expire \in Ticks
      /\ Fresh(daemon.expire) /\ Fresh(daemon.now) /\ daemon.now = last
      /\ Elapsed(daemon.now, tick) <= Elapsed(daemon.expire, tick)
      /\ daemon.expire <= daemon.now
  BY DEF TimesInv, InHandFresh, ProcessExpiredTimer, Sampled, TimersInv, DaemonSound
<1>4. last \in Ticks /\ period[t] \in Ticks /\ 0 < period[t]
  BY <1>2, LateIs DEF TimersInv
<1>5. Elapsed(daemon.expire, last) = last - daemon.expire
  BY <1>3, <1>4, OldAge
<1>6. AlreadyExpired(t, Later(daemon.expire, period[t]), last, daemon.expire)
          <=> period[t] <= Elapsed(daemon.expire, last)
  <2>1. period[t] \in Ticks \ {0}
    BY <1>4, TickCountAssumption DEF Ticks
  <2> QED
    BY <1>3, <1>4, <2>1, TimerExpiryIsExact
<1>7. Elapsed(daemon.expire, last) \in Nat /\ period[t] \in Nat
  <2>1. Elapsed(daemon.expire, last) \in Ticks
    BY <1>3, <1>4, LaterTyped
  <2> QED
    BY <1>4, <2>1, TickCountAssumption DEF Ticks
<1>8. \/ t \notin AutoReload /\ TakeOut(t) /\ UNCHANGED commands
      \/ t \in AutoReload /\ TakeOut(t) /\ commands' = WithReload(t, daemon.expire)
      \/ /\ t \in AutoReload /\ UNCHANGED commands
         /\ ~ AlreadyExpired(t, Later(daemon.expire, period[t]), last, daemon.expire)
         /\ InsertTimer(t, Later(daemon.expire, period[t]), last)
  BY <1>3 DEF ProcessExpiredTimer
<1>9. ~ AlreadyExpired(t, Later(daemon.expire, period[t]), last, daemon.expire) =>
          Elapsed(daemon.expire, last) < period[t]
  BY <1>6, <1>7
<1> QED
  BY <1>2, <1>3, <1>5, <1>8, <1>9

LEMMA TakesOutInRound ==
    ASSUME TimersInv, RoundsOK, NEW t \in Timers, TakeOut(t), UNCHANGED <<tick, last, late>>,
           daemon'.place = "switching" <=> daemon.place = "switching"
    PROVE  RoundsOK'
<1>1. /\ Range(current') = Range(current) \ {t} /\ Range(overflow') = Range(overflow) \ {t}
      /\ \A u \in Timers : u /= t => expiry'[u] = expiry[u]
      /\ TimersSound(current', overflow', expiry')
  BY TakeOutIs DEF TimersInv
<1>2. Range(current') \subseteq Timers /\ Range(overflow') \subseteq Timers
  BY <1>1 DEF TimersSound, Listed, Range
<1> QED
  BY <1>1, <1>2, FewerTimers

LEMMA ExpiresTimes ==
    ASSUME TimersInv, Punctual, TimesInv, ProcessExpiredTimer
    PROVE  TimesInv'
<1> USE DEF TimesInv
<1> DEFINE t == Head(current)
<1>1. /\ t \in Timers /\ t \in Range(current) /\ t \notin Range(overflow)
      /\ daemon.expire = expiry[t] /\ daemon.expire \in Ticks
      /\ Fresh(daemon.expire) /\ Fresh(last) /\ daemon.now = last
      /\ Elapsed(last, tick) <= Elapsed(daemon.expire, tick)
      /\ \/ t \notin AutoReload /\ TakeOut(t) /\ UNCHANGED commands
         \/ t \in AutoReload /\ TakeOut(t) /\ commands' = WithReload(t, daemon.expire)
         \/ /\ t \in AutoReload /\ UNCHANGED commands
            /\ Elapsed(daemon.expire, last) < period[t]
            /\ InsertTimer(t, Later(daemon.expire, period[t]), last)
  BY ExpiredIs
<1> HIDE DEF t
<1>2. /\ daemon.place = "expired" /\ daemon'.place = "commands" /\ daemon'.message = NoMessage
      /\ UNCHANGED <<tick, last, period, asked, late>>
  BY DEF ProcessExpiredTimer, DaemonAt
<1>3. RoundsOK'
  <2>1. CASE TakeOut(t)
    BY <1>1, <1>2, <2>1, TakesOutInRound
  <2>2. CASE ~ TakeOut(t)
    <3>1. period[t] \in Periods
      BY <1>1, LateIs DEF TimersInv
    <3> QED
      BY <1>1, <1>2, <2>2, <3>1, InsertedInRound
  <2> QED
    BY <2>1, <2>2
<1>4. CommandsFresh'
  BY <1>1, <1>2, FreshStays DEF TimersInv
<1>5. InHandFresh'
  BY <1>2, NothingInHand
<1>6. WaitsOK'
  BY <1>2 DEF WaitsOK
<1> QED
  BY <1>3, <1>4, <1>5, <1>6

\* A timer left in the current list has expired in the round before, less long ago
\* than the timer task is late.
LEMMA LeftIsDue ==
    ASSUME TimersInv, Punctual, TimesInv, SwitchExpires, NEW t, t = Head(current)
    PROVE  /\ t \in Timers /\ t \in Range(current) /\ t \notin Range(overflow)
           /\ expiry[t] \in Ticks /\ tick < expiry[t] /\ Fresh(expiry[t])
           /\ Elapsed(expiry[t], tick) = tick - expiry[t] + Round
           /\ tick + Round <= expiry[t] + late
           /\ daemon.place = "switching" /\ ListsAreOld
<1>1. /\ t \in Timers /\ t \in Range(current) /\ t \notin Range(overflow)
      /\ expiry[t] \in Ticks
  BY HeadOf DEF SwitchExpires, TimersInv, TimersSound
<1>2. ListsAreOld /\ daemon.place = "switching"
  BY DEF ListsAreOld, SwitchExpires
<1>3. tick + Round <= expiry[t] + late
  BY <1>1, <1>2 DEF TimesInv, RoundsOK, NotBehind, CurrentTime
<1>4. /\ MaxLate < MaxDelay /\ late <= MaxLate /\ tick \in Ticks
      /\ MaxLate \in Nat /\ MaxDelay \in Nat /\ late \in Nat
  BY <1>1, LateIs DEF TimersInv
<1>5. tick < expiry[t]
  BY <1>1, <1>3, <1>4 DEF Ticks, Round
<1>6. Elapsed(expiry[t], tick) = tick - expiry[t] + Round
  BY <1>1, <1>4, <1>5, OldAge
<1>7. Fresh(expiry[t])
  BY <1>1, <1>3, <1>4, <1>6 DEF Fresh, Ticks, Round
<1> QED
  BY <1>1, <1>2, <1>3, <1>5, <1>6, <1>7

LEMMA SwitchExpiresTimes ==
    ASSUME TimersInv, Punctual, TimesInv, SwitchExpires
    PROVE  TimesInv'
<1> USE DEF TimesInv
<1> DEFINE t == Head(current)
           reload == Later(expiry[t], period[t])
<1>1. /\ t \in Timers /\ t \in Range(current) /\ t \notin Range(overflow)
      /\ expiry[t] \in Ticks /\ tick < expiry[t] /\ Fresh(expiry[t])
      /\ tick + Round <= expiry[t] + late
  BY LeftIsDue
<1>2. period[t] \in Ticks /\ reload \in Ticks
  BY <1>1, LateIs, LaterTyped DEF TimersInv
<1>3. \/ reload > expiry[t] /\ Reinserts(t, reload) /\ UNCHANGED commands
      \/ TakeOut(t) /\ (commands' = commands \/ commands' = WithReload(t, expiry[t]))
  BY DEF SwitchExpires, Reinserts
<1> HIDE DEF t, reload
<1>4. /\ daemon.place = "switching" /\ UNCHANGED <<tick, last, period, asked, daemon, late>>
  BY DEF SwitchExpires
<1>5. RoundsOK'
  <2>1. CASE TakeOut(t)
    BY <1>1, <1>4, <2>1, TakesOutInRound
  <2>2. CASE ~ TakeOut(t)
    <3>1. /\ Range(current') = Range(current) /\ Range(overflow') = Range(overflow)
          /\ expiry'[t] = reload /\ \A u \in Timers : u /= t => expiry'[u] = expiry[u]
      BY <1>1, <1>2, <1>3, <2>2, ReinsertedIs DEF TimersInv
    <3>2. ListsAreOld /\ ListsAreOld'
      BY <1>4 DEF ListsAreOld
    <3>3. \A u \in Range(current) \cup Range(overflow) : u \in Timers
      BY DEF TimersInv, TimersSound, Listed, Range
    <3>4. tick + Round <= reload + late
      <4>1. reload \in Nat /\ expiry[t] \in Nat /\ tick \in Nat /\ late \in Nat /\ Round \in Nat
        BY <1>1, <1>2, TickCountAssumption DEF Ticks, Round, TimersInv, ClockSound
      <4> QED
        BY <1>1, <1>3, <2>2, <4>1
    <3>5. \A u \in Range(current') : tick + Round <= expiry'[u] + late
      BY <3>1, <3>2, <3>3, <3>4 DEF RoundsOK, NotBehind, CurrentTime
    <3>6. \A u \in Range(current') : NotBehind(expiry[u])'
      BY <1>4, <3>2, <3>5 DEF NotBehind, CurrentTime
    <3>7. \A u \in Range(overflow') : expiry'[u] = expiry[u]
      BY <1>1, <3>1, <3>3
    <3> QED
      BY <1>4, <3>1, <3>2, <3>6, <3>7 DEF RoundsOK
  <2> QED
    BY <2>1, <2>2
<1>6. CommandsFresh'
  BY <1>1, <1>3, <1>4, FreshStays DEF TimersInv
<1>7. InHandFresh'
  BY <1>4 DEF InHandFresh, IsStart, Fresh, Sampled
<1>8. WaitsOK'
  BY <1>4 DEF WaitsOK
<1> QED
  BY <1>5, <1>6, <1>7, <1>8

\* The lists are exchanged: the next one is of the round of the tick count.
LEMMA SwitchTimes ==
    ASSUME TimersInv, Punctual, TimesInv, SwitchTimerLists
    PROVE  TimesInv'
<1> USE DEF TimesInv
<1>1. /\ daemon.place = "switching" /\ current = <<>> /\ current' = overflow /\ overflow' = <<>>
      /\ \/ daemon.message = NoMessage /\ daemon' = DaemonAt("commands")
         \/ daemon.message /= NoMessage /\ daemon' = [daemon EXCEPT !.place = "execute"]
      /\ UNCHANGED <<tick, last, expiry, period, commands, asked, late>>
  BY DEF SwitchTimerLists
<1>2. \/ daemon'.place = "commands" /\ daemon'.message = NoMessage
      \/ /\ daemon.message /= NoMessage /\ daemon'.place = "execute"
         /\ daemon'.message = daemon.message /\ daemon'.now = daemon.now
  BY <1>1 DEF DaemonAt, TimersInv, DaemonSound
<1>3. CommandsFresh'
  BY <1>1, FreshAsBefore
<1>4. InHandFresh'
  <2>1. CASE daemon'.place = "commands"
    BY <1>2, <2>1, NothingInHand
  <2>2. CASE daemon'.place = "execute"
    BY <1>1, <1>2, <2>2 DEF InHandFresh, IsStart, Fresh, Sampled
  <2> QED
    BY <1>2, <2>1, <2>2
<1>5. WaitsOK'
  BY <1>2 DEF WaitsOK
<1>6. RoundsOK'
  <2>1. SUFFICES ASSUME Range(current') \cup Range(overflow') /= {} PROVE RoundsOK'
    BY DEF RoundsOK
  <2>2. Range(current) \cup Range(overflow) /= {} /\ Range(overflow') = {}
    BY <1>1, <2>1 DEF Range
  <2>3. /\ last <= tick /\ tick <= late
        /\ \A t \in Range(overflow) : expiry[t] + MaxLate <= MaxDelay
    BY <1>1, <2>2 DEF RoundsOK, ListsAreOld
  <2>4. /\ tick \in Nat /\ last \in Nat /\ late \in Nat /\ MaxLate \in Nat /\ MaxDelay \in Nat
        /\ \A t \in Range(overflow) : expiry[t] \in Nat
    BY TickCountAssumption, SoftwareTimersAssumption
       DEF TimersInv, ClockSound, TimersSound, Ticks, Listed, Range
  <2>5. ~ ListsAreOld'
    BY <1>1, <1>2, <2>3, <2>4 DEF ListsAreOld
  <2>6. \A t \in Range(current') : NotBehind(expiry[t])'
    BY <1>1, <2>3, <2>4, <2>5 DEF NotBehind, CurrentTime
  <2>7. \A t \in Range(current') : expiry'[t] + MaxLate <= last + MaxDelay
    BY <1>1, <2>3, <2>4
  <2> QED
    BY <1>1, <1>2, <2>2, <2>5, <2>6, <2>7 DEF RoundsOK
<1> QED
  BY <1>3, <1>4, <1>5, <1>6

-----------------------------------------------------------------------------
\* A command is received, and the time is sampled.
LEMMA ReceivesTimes ==
    ASSUME TimersInv, Punctual, TimesInv, ReceivesCommand
    PROVE  TimesInv'
<1> USE DEF TimesInv
<1> DEFINE m == Head(commands)
<1>1. /\ commands \in Seq(Messages) /\ Len(commands) \in Nat /\ Len(commands) /= 0
      /\ DOMAIN commands = 1..Len(commands)
  BY EmptySeq DEF TimersInv, CommandsSound, ReceivesCommand
<1>2. m \in Messages /\ m.timer \in Timers /\ (IsStart(m) => Fresh(m.value))
  <2>1. m = commands[1] /\ 1 \in DOMAIN commands
    BY <1>1
  <2> QED
    BY <1>1, <2>1, CommandsAre DEF CommandsFresh
<1>3. /\ daemon.place = "commands" /\ last' = tick /\ TakeOut(m.timer)
      /\ daemon'.place = (IF tick < last THEN "switching" ELSE "execute")
      /\ daemon'.message = m /\ daemon'.now = tick
      /\ UNCHANGED <<tick, period, asked, late>>
  BY DEF ReceivesCommand
<1>4. CommandsFresh'
  <2>1. commands' = Tail(commands)
    BY DEF ReceivesCommand
  <2>2. /\ DOMAIN Tail(commands) = 1..(Len(commands) - 1)
        /\ \A n \in 1..(Len(commands) - 1) :
              Tail(commands)[n] = commands[n + 1] /\ n + 1 \in DOMAIN commands
    BY <1>1
  <2>3. \A n \in DOMAIN commands' : IsStart(commands'[n]) => Fresh(commands'[n].value)
    BY <2>1, <2>2 DEF CommandsFresh
  <2> QED
    BY <1>3, <2>3 DEF CommandsFresh, IsStart, Fresh
<1> HIDE DEF m
<1>5. tick \in Ticks /\ last \in Ticks /\ late \in Nat /\ tick \in Nat /\ last \in Nat
  BY TickCountAssumption DEF TimersInv, ClockSound, Ticks
<1>6. Elapsed(tick, tick) = 0
  BY <1>5, AgesByOne
<1>7. InHandFresh'
  <2>1. Elapsed(tick, tick) <= late
    BY <1>5, <1>6
  <2>2. IsStart(m) => /\ Elapsed(m.value, tick) <= late
                      /\ Elapsed(tick, tick) <= Elapsed(m.value, tick)
    <3>1. Elapsed(m.value, tick) \in Ticks
      BY <1>2, <1>5, CommandsAre, LaterTyped
    <3>2. 0 <= Elapsed(m.value, tick)
      BY <3>1, TickCountAssumption DEF Ticks
    <3> QED
      BY <1>2, <1>6, <3>2 DEF Fresh
  <2> QED
    BY <1>3, <2>1, <2>2 DEF InHandFresh, IsStart, Fresh, Sampled
<1>8. WaitsOK'
  BY <1>3 DEF WaitsOK
<1>9. RoundsOK'
  <2>1. SUFFICES ASSUME Range(current') \cup Range(overflow') /= {} PROVE RoundsOK'
    BY DEF RoundsOK
  <2>2. /\ Range(current') = Range(current) \ {m.timer}
        /\ Range(overflow') = Range(overflow) \ {m.timer}
        /\ \A u \in Timers : u /= m.timer => expiry'[u] = expiry[u]
    BY <1>2, <1>3, TakeOutIs DEF TimersInv
  <2>3. \A u \in Range(current) \cup Range(overflow) : u \in Timers /\ expiry[u] \in Nat
    BY TickCountAssumption DEF TimersInv, TimersSound, Listed, Range, Ticks
  <2>4. /\ Range(current) \cup Range(overflow) /= {}
        /\ \A u \in Range(current') : u \in Range(current) /\ expiry'[u] = expiry[u]
        /\ \A u \in Range(overflow') : u \in Range(overflow) /\ expiry'[u] = expiry[u]
    BY <2>1, <2>2, <2>3
  <2>5. ListsAreOld' <=> ListsAreOld
    BY <1>3, <1>5 DEF ListsAreOld
  <2>6. \A u \in Range(current') : NotBehind(expiry[u])'
    <3>1. \A u \in Range(current') : NotBehind(expiry[u])
      BY <2>4 DEF RoundsOK
    <3> QED
      BY <1>3, <2>4, <2>5, <3>1 DEF NotBehind, CurrentTime
  <2>7. MaxLate \in Nat /\ MaxDelay \in Nat
    BY TickCountAssumption, SoftwareTimersAssumption
  <2>8. daemon'.place /= "switching" => last <= tick
    BY <1>3, <1>5
  <2>9. daemon'.place /= "switching" =>
            \A u \in Range(current') : expiry'[u] + MaxLate <= tick + MaxDelay
    <3>1. \A u \in Range(current) : expiry[u] + MaxLate <= last + MaxDelay
      BY <1>3, <2>4 DEF RoundsOK
    <3> QED
      BY <1>5, <2>3, <2>4, <2>7, <2>8, <3>1
  <2>10. daemon'.place /= "switching" /\ Range(overflow') /= {} => MaxLate < tick
    <3>1. Range(overflow) /= {} => MaxLate < last
      BY <1>3, <2>4 DEF RoundsOK
    <3> QED
      BY <1>5, <2>4, <2>7, <2>8, <3>1
  <2>11. ListsAreOld' => tick <= late
    BY <2>4, <2>5 DEF RoundsOK
  <2>12. \A u \in Range(overflow') : expiry'[u] + MaxLate <= MaxDelay
    BY <2>4 DEF RoundsOK
  <2> QED
    BY <1>3, <1>5, <2>6, <2>9, <2>10, <2>11, <2>12 DEF RoundsOK
<1> QED
  BY <1>4, <1>7, <1>8, <1>9

\* The start of a timer, and its expiry before it.
LEMMA StartIsTimed ==
    ASSUME TimersInv, Punctual, TimesInv, ExecutesStart, NEW t, t = InHand.timer
    PROVE  /\ t \in Timers /\ t \notin Range(current) /\ t \notin Range(overflow)
           /\ period[t] \in Periods /\ InHand.value \in Ticks /\ InHand = daemon.message
           /\ Fresh(InHand.value) /\ Fresh(last) /\ daemon.now = last
           /\ Elapsed(last, tick) <= Elapsed(InHand.value, tick)
           /\ \/ /\ daemon' = [daemon EXCEPT !.place = "start_now"] /\ UNCHANGED timerLists
                 /\ period[t] <= Elapsed(InHand.value, last)
              \/ /\ daemon' = DaemonAt("commands") /\ Elapsed(InHand.value, last) < period[t]
                 /\ InsertTimer(t, Later(InHand.value, period[t]), last)
<1>1. /\ t \in Timers /\ t \notin Range(current) /\ t \notin Range(overflow)
      /\ period[t] \in Periods /\ InHand.value \in Ticks
      /\ InHand = daemon.message /\ InHand /= NoMessage
  BY InHandIs DEF ExecutesStart
<1>2. /\ Fresh(InHand.value) /\ Fresh(daemon.now) /\ daemon.now = last
      /\ Elapsed(daemon.now, tick) <= Elapsed(InHand.value, tick)
  BY <1>1 DEF TimesInv, InHandFresh, ExecutesStart, IsStart, Sampled
<1>3. last \in Ticks /\ period[t] \in Ticks /\ 0 < period[t]
  BY <1>1, LateIs DEF TimersInv
<1>4. AlreadyExpired(t, Later(InHand.value, period[t]), last, InHand.value)
          <=> period[t] <= Elapsed(InHand.value, last)
  <2>1. period[t] \in Ticks \ {0}
    BY <1>3, TickCountAssumption DEF Ticks
  <2> QED
    BY <1>1, <1>3, <2>1, TimerExpiryIsExact
<1>5. Elapsed(InHand.value, last) \in Nat /\ period[t] \in Nat
  <2>1. Elapsed(InHand.value, last) \in Ticks
    BY <1>1, <1>3, LaterTyped
  <2> QED
    BY <1>3, <2>1, TickCountAssumption DEF Ticks
<1>6. \/ /\ daemon' = [daemon EXCEPT !.place = "start_now"] /\ UNCHANGED timerLists
         /\ AlreadyExpired(t, Later(InHand.value, period[t]), last, InHand.value)
      \/ /\ daemon' = DaemonAt("commands")
         /\ ~ AlreadyExpired(t, Later(InHand.value, period[t]), last, InHand.value)
         /\ InsertTimer(t, Later(InHand.value, period[t]), last)
  BY <1>2 DEF ExecutesStart
<1> QED
  BY <1>1, <1>2, <1>4, <1>5, <1>6

LEMMA StartTimes ==
    ASSUME TimersInv, Punctual, TimesInv, ExecutesStart
    PROVE  TimesInv'
<1> USE DEF TimesInv
<1> DEFINE t == InHand.timer
<1>1. /\ t \in Timers /\ t \notin Range(current) /\ t \notin Range(overflow)
      /\ period[t] \in Periods /\ InHand.value \in Ticks /\ InHand = daemon.message
      /\ Fresh(InHand.value) /\ Fresh(last) /\ daemon.now = last
      /\ Elapsed(last, tick) <= Elapsed(InHand.value, tick)
      /\ \/ /\ daemon' = [daemon EXCEPT !.place = "start_now"] /\ UNCHANGED timerLists
            /\ period[t] <= Elapsed(InHand.value, last)
         \/ /\ daemon' = DaemonAt("commands") /\ Elapsed(InHand.value, last) < period[t]
            /\ InsertTimer(t, Later(InHand.value, period[t]), last)
  BY StartIsTimed
<1>2. t = daemon.message.timer
  BY <1>1
<1> HIDE DEF t
<1>3. daemon.place = "execute" /\ UNCHANGED <<tick, last, period, commands, asked, late>>
  BY DEF ExecutesStart
<1>4. CommandsFresh'
  BY <1>3, FreshAsBefore
<1>5. CASE /\ daemon' = [daemon EXCEPT !.place = "start_now"] /\ UNCHANGED timerLists
           /\ period[t] <= Elapsed(InHand.value, last)
  <2>1. /\ daemon'.place = "start_now" /\ daemon'.message = daemon.message
        /\ daemon'.now = daemon.now
    BY <1>5 DEF TimersInv, DaemonSound
  <2>2. RoundsOK'
    BY <1>3, <1>5, <2>1, RoundsStay
  <2>3. InHandFresh'
    BY <1>1, <1>2, <1>3, <1>5, <2>1 DEF InHandFresh, IsStart, Fresh, Sampled
  <2>4. WaitsOK'
    BY <2>1 DEF WaitsOK
  <2> QED
    BY <1>4, <2>2, <2>3, <2>4
<1>6. CASE /\ daemon' = DaemonAt("commands") /\ Elapsed(InHand.value, last) < period[t]
           /\ InsertTimer(t, Later(InHand.value, period[t]), last)
  <2>1. daemon'.place = "commands" /\ daemon'.message = NoMessage
    BY <1>6 DEF DaemonAt
  <2>2. RoundsOK'
    BY <1>1, <1>3, <1>6, <2>1, InsertedInRound
  <2>3. InHandFresh'
    BY <2>1, NothingInHand
  <2>4. WaitsOK'
    BY <2>1 DEF WaitsOK
  <2> QED
    BY <1>4, <2>2, <2>3, <2>4
<1> QED
  BY <1>1, <1>5, <1>6

LEMMA NowIsTimed ==
    ASSUME TimersInv, Punctual, TimesInv, StartsNow, NEW t, t = InHand.timer,
           NEW next, next = Later(InHand.value, period[t])
    PROVE  /\ t \in Timers /\ t \notin Range(current) /\ t \notin Range(overflow)
           /\ next \in Ticks /\ Fresh(next)
           /\ DueFrom(t, InHand.value) <= 0
           /\ DueFrom(t, next) = DueFrom(t, InHand.value) + period[t]
           /\ t \in AutoReload => commands' = WithReload(t, next)
           /\ t \notin AutoReload => commands' = commands
<1>1. /\ t \in Timers /\ t \notin Range(current) /\ t \notin Range(overflow)
      /\ period[t] \in Ticks /\ InHand.value \in Ticks /\ InHand = daemon.message
      /\ InHand /= NoMessage
  BY InHandIs DEF StartsNow
<1>2. InHand.id \in {"start", "reload"}
  BY <1>1 DEF StartsNow, TimersInv, DaemonSound
<1>3. /\ Fresh(InHand.value) /\ daemon.now = last
      /\ Elapsed(last, tick) <= Elapsed(InHand.value, tick)
      /\ period[t] <= Elapsed(InHand.value, last)
  BY <1>1, <1>2 DEF TimesInv, InHandFresh, StartsNow, IsStart, Sampled
<1>4. last \in Ticks /\ tick \in Ticks /\ late \in Nat
  BY DEF TimersInv, ClockSound
<1>5. next \in Ticks /\ Elapsed(InHand.value, tick) \in Ticks
  BY <1>1, <1>4, LaterTyped
<1>6. /\ period[t] <= Elapsed(InHand.value, tick)
      /\ Elapsed(next, tick) = Elapsed(InHand.value, tick) - period[t]
  BY <1>1, <1>3, <1>4, RestartAge
<1>7. Fresh(next)
  BY <1>1, <1>3, <1>4, <1>5, <1>6, TickCountAssumption DEF Fresh, Ticks
<1>8. /\ DueFrom(t, InHand.value) <= 0
      /\ DueFrom(t, next) = DueFrom(t, InHand.value) + period[t]
  BY <1>1, <1>5, <1>6, TickCountAssumption DEF DueFrom, Ticks
<1> QED
  BY <1>1, <1>5, <1>7, <1>8 DEF StartsNow

LEMMA StartsNowTimes ==
    ASSUME TimersInv, Punctual, TimesInv, StartsNow
    PROVE  TimesInv'
<1> USE DEF TimesInv
<1> DEFINE t == InHand.timer
           next == Later(InHand.value, period[t])
<1>1. /\ t \in Timers /\ next \in Ticks /\ Fresh(next)
      /\ commands' = commands \/ commands' = WithReload(t, next)
  BY NowIsTimed
<1> HIDE DEF t, next
<1>2. /\ daemon.place = "start_now" /\ daemon'.place = "commands" /\ daemon'.message = NoMessage
      /\ UNCHANGED <<tick, last, timerLists, period, asked, late>>
  BY DEF StartsNow, DaemonAt
<1>3. CommandsFresh'
  BY <1>1, <1>2, FreshStays DEF TimersInv
<1>4. InHandFresh'
  BY <1>2, NothingInHand
<1>5. WaitsOK'
  BY <1>2 DEF WaitsOK
<1>6. RoundsOK'
  BY <1>2, RoundsStay
<1> QED
  BY <1>3, <1>4, <1>5, <1>6

LEMMA StopTimes ==
    ASSUME TimersInv, Punctual, TimesInv, ExecutesStop
    PROVE  TimesInv'
<1> USE DEF TimesInv
<1>1. /\ daemon.place = "execute" /\ daemon'.place = "commands" /\ daemon'.message = NoMessage
      /\ UNCHANGED <<tick, last, timerLists, period, commands, asked, late>>
  BY DEF ExecutesStop, DaemonAt
<1>2. CommandsFresh'
  BY <1>1, FreshAsBefore
<1>3. InHandFresh'
  BY <1>1, NothingInHand
<1>4. WaitsOK'
  BY <1>1 DEF WaitsOK
<1>5. RoundsOK'
  BY <1>1, RoundsStay
<1> QED
  BY <1>2, <1>3, <1>4, <1>5

\* A change of the period counts from the sample of the time.
LEMMA PeriodIsTimed ==
    ASSUME TimersInv, Punctual, TimesInv, ExecutesChangePeriod, NEW t, t = InHand.timer
    PROVE  /\ t \in Timers /\ t \notin Range(current) /\ t \notin Range(overflow)
           /\ InHand.value \in Periods /\ Fresh(last) /\ daemon.now = last
           /\ Elapsed(last, last) < InHand.value
           /\ period' = [period EXCEPT ![t] = InHand.value]
           /\ InsertTimer(t, Later(last, InHand.value), last)
<1>1. /\ t \in Timers /\ t \notin Range(current) /\ t \notin Range(overflow)
      /\ InHand.value \in Periods /\ InHand = daemon.message /\ InHand /= NoMessage
  BY InHandIs DEF ExecutesChangePeriod, CommandOK
<1>2. Fresh(last) /\ daemon.now = last
  BY <1>1 DEF TimesInv, InHandFresh
<1>3. Elapsed(last, last) < InHand.value
  <2>1. Elapsed(last, last) = 0
    BY AgesByOne DEF TimersInv, ClockSound
  <2>2. InHand.value \in Ticks \ {0}
    BY <1>1, PeriodsAre
  <2> QED
    BY <2>1, <2>2, TickCountAssumption DEF Ticks
<1> QED
  BY <1>1, <1>2, <1>3 DEF ExecutesChangePeriod

LEMMA ChangePeriodTimes ==
    ASSUME TimersInv, Punctual, TimesInv, ExecutesChangePeriod
    PROVE  TimesInv'
<1> USE DEF TimesInv
<1> DEFINE t == InHand.timer
<1>1. /\ t \in Timers /\ t \notin Range(overflow)
      /\ InHand.value \in Periods /\ Fresh(last) /\ daemon.now = last
      /\ Elapsed(last, last) < InHand.value
      /\ InsertTimer(t, Later(last, InHand.value), last)
  BY PeriodIsTimed
<1> HIDE DEF t
<1>2. /\ daemon.place = "execute" /\ daemon'.place = "commands" /\ daemon'.message = NoMessage
      /\ UNCHANGED <<tick, last, commands, asked, late>>
  BY DEF ExecutesChangePeriod, DaemonAt
<1>3. last \in Ticks /\ Elapsed(last, tick) <= Elapsed(last, tick)
  <2>1. last \in Ticks /\ tick \in Ticks
    BY DEF TimersInv, ClockSound
  <2>2. Elapsed(last, tick) \in Nat
    BY <2>1, LaterTyped, TickCountAssumption DEF Ticks
  <2> QED
    BY <2>1, <2>2
<1>4. RoundsOK'
  BY <1>1, <1>2, <1>3, InsertedInRound
<1>5. CommandsFresh'
  BY <1>2, FreshAsBefore
<1>6. InHandFresh'
  BY <1>2, NothingInHand
<1>7. WaitsOK'
  BY <1>2 DEF WaitsOK
<1> QED
  BY <1>4, <1>5, <1>6, <1>7

-----------------------------------------------------------------------------
\* A tick while the timer task, or a task with a command for it, has something to do.
LEMMA BusyTick ==
    ASSUME TimersInv, Punctual, Tick, Busy, NEW t \in Timers, NEW time \in Ticks, Fresh(time)
    PROVE  /\ Elapsed(time, tick') = Elapsed(time, tick) + 1
           /\ Elapsed(time, tick) \in Nat /\ Elapsed(time, tick') <= late'
<1>1. late < MaxLate /\ late' = late + 1 /\ tick' = Later(tick, 1)
  BY DEF Tick
<1>2. /\ MaxLate < MaxDelay /\ tick \in Ticks /\ late \in Nat /\ MaxLate \in Nat
      /\ MaxDelay \in Nat
  BY LateIs DEF TimersInv
<1>3. Elapsed(time, tick) <= late
  BY DEF Fresh
<1>4. Elapsed(time, tick) \in Nat
  <2>1. Elapsed(time, tick) \in Ticks
    BY <1>2, LaterTyped
  <2> QED
    BY <2>1, TickCountAssumption DEF Ticks
<1>5. Elapsed(time, tick) < MaxDelay
  BY <1>1, <1>2, <1>3, <1>4
<1>6. Elapsed(time, Later(tick, 1)) = Elapsed(time, tick) + 1
  BY <1>2, <1>5, AgesByOne
<1> QED
  BY <1>1, <1>2, <1>3, <1>4, <1>6

\* Whoever has a command keeps the timer task busy.
LEMMA BusyIs ==
    ASSUME TimersInv
    PROVE  /\ IsStart(asked) => Busy /\ asked.timer \in Timers /\ asked.value \in Ticks
           /\ \A n \in DOMAIN commands :
                 Busy /\ commands[n].timer \in Timers /\ commands[n].value \in Ticks
           /\ IsStart(daemon.message) => daemon.message /= NoMessage
           /\ daemon.message /= NoMessage =>
                 /\ Busy /\ daemon.place /= "waiting"
                 /\ daemon.message.timer \in Timers /\ daemon.message.value \in Ticks
<1>1. ~ IsStart(NoMessage)
  BY DEF IsStart, NoMessage
<1>2. IsStart(asked) => Busy /\ asked \in Messages
  BY <1>1 DEF Busy, TimersInv, CommandsSound, CommandOK
<1>3. \A n \in DOMAIN commands : Busy /\ commands[n] \in Messages
  <2> TAKE n \in DOMAIN commands
  <2>1. commands[n] \in Messages
    BY DEF TimersInv, CommandsSound, CommandOK
  <2>2. commands /= <<>>
    OBVIOUS
  <2>3. daemon.place /= "waiting"
    BY <2>2 DEF TimersInv, DaemonSound
  <2> QED
    BY <2>1, <2>3 DEF Busy
<1>4. daemon.message /= NoMessage =>
          Busy /\ daemon.place /= "waiting" /\ daemon.message \in Messages
  BY DEF Busy, TimersInv, DaemonSound, CommandOK
<1> QED
  BY <1>1, <1>2, <1>3, <1>4, CommandsAre

\* The round of the lists goes on by one tick.
LEMMA TickInRound ==
    ASSUME TimersInv, Punctual, TimesInv, Tick, Range(current) \cup Range(overflow) /= {}
    PROVE  /\ CurrentTime' = CurrentTime + 1
           /\ \A t \in Range(current) : NotBehind(expiry[t])'
           /\ ListsAreOld' => tick' <= late'
           /\ daemon.place = "switching" => last <= tick'
           /\ daemon'.place = "waiting" =>
                 /\ last <= tick' /\ daemon' = daemon
                 /\ Range(current) /= {} => tick' < daemon.expire
<1>0. PICK t0 \in Timers : TRUE
  BY DEF TimersInv, TimersSound, Listed, Range
<1>1. /\ MaxLate < MaxDelay /\ tick \in Nat /\ last \in Nat /\ late \in Nat /\ late <= MaxLate
      /\ MaxLate \in Nat /\ MaxDelay \in Nat /\ tick <= MaxDelay /\ last <= MaxDelay
  BY LateIs, TickCountAssumption DEF TimersInv, Ticks
<1>2. tick' = IF tick = MaxDelay THEN 0 ELSE tick + 1
  BY AgesByOne DEF Tick, TimersInv, ClockSound
<1>3. \A t \in Range(current) \cup Range(overflow) : expiry[t] \in Nat /\ t \in Timers
  BY TickCountAssumption DEF TimersInv, TimersSound, Listed, Range, Ticks
<1>4. /\ current \in Seq(Timers) /\ overflow \in Seq(Timers)
      /\ (current = <<>> <=> Range(current) = {}) /\ (overflow = <<>> <=> Range(overflow) = {})
  BY NoMembers DEF TimersInv, TimersSound, Listed
<1>5. ~ NoTimer
  BY <1>4 DEF NoTimer
<1>6. /\ UNCHANGED <<last, timerLists>>
      /\ daemon' = IF daemon.place = "waiting" /\ tick' = daemon.expire
                   THEN DaemonAt("commands") ELSE daemon
  BY <1>5 DEF Tick
<1>7. daemon'.place = "switching" <=> daemon.place = "switching"
  BY <1>6 DEF DaemonAt
<1>8. \A t \in Range(current) : CurrentTime <= expiry[t] + late
  BY DEF TimesInv, RoundsOK, NotBehind
<1>9. CASE daemon.place = "waiting"
  <2>1. /\ last <= tick
        /\ daemon.expire = IF Range(current) = {} THEN 0 ELSE expiry[Head(current)]
        /\ Range(current) /= {} => tick < daemon.expire
    BY <1>9 DEF TimesInv, WaitsOK
  <2>2. ~ ListsAreOld /\ CurrentTime = tick
    BY <1>1, <1>9, <2>1 DEF ListsAreOld, CurrentTime
  <2>3. late' \in Nat
    BY <1>1 DEF Tick
  <2>4. CASE Range(current) /= {}
    <3>1. /\ Head(current) \in Range(current)
          /\ \A t \in Range(current) : expiry[Head(current)] <= expiry[t]
      BY <1>4, <2>4, HeadOf DEF TimersInv
    <3>2. expiry[Head(current)] \in Nat /\ expiry[Head(current)] <= MaxDelay
      BY <1>3, <3>1, TickCountAssumption DEF TimersInv, TimersSound, Ticks
    <3>3. tick' = tick + 1
      BY <1>1, <1>2, <2>1, <2>4, <3>2
    <3>4. ~ ListsAreOld' /\ CurrentTime' = tick + 1
      BY <1>1, <1>6, <1>7, <1>9, <2>1, <3>3 DEF ListsAreOld, CurrentTime
    <3>5. \A t \in Range(current) : tick + 1 <= expiry[t] + late'
      BY <1>1, <1>3, <2>1, <2>3, <2>4, <3>1, <3>2
    <3>6. \A t \in Range(current) : NotBehind(expiry[t])'
      BY <1>6, <3>4, <3>5 DEF NotBehind, timerLists
    <3>7. daemon'.place = "waiting" => daemon' = daemon /\ tick' < daemon.expire
      BY <1>1, <1>6, <2>1, <2>4, <3>2, <3>3 DEF DaemonAt
    <3> QED
      BY <1>1, <1>9, <2>1, <2>2, <3>3, <3>4, <3>6, <3>7
  <2>5. CASE Range(current) = {}
    <3>1. MaxLate < last
      BY <1>9, <2>5 DEF TimesInv, RoundsOK
    <3>2. CASE tick = MaxDelay
      <4>1. tick' = 0 /\ daemon' = DaemonAt("commands")
        BY <1>2, <1>6, <1>9, <2>1, <2>5, <3>2
      <4>2. ListsAreOld' /\ CurrentTime' = Round
        BY <1>1, <1>6, <3>1, <4>1 DEF ListsAreOld, CurrentTime, Round
      <4> QED
        BY <1>1, <1>9, <2>2, <2>3, <2>5, <3>2, <4>1, <4>2 DEF Round, DaemonAt
    <3>3. CASE tick /= MaxDelay
      <4>1. tick' = tick + 1
        BY <1>2, <3>3
      <4>2. ~ ListsAreOld' /\ CurrentTime' = tick + 1
        BY <1>1, <1>6, <1>7, <1>9, <2>1, <4>1 DEF ListsAreOld, CurrentTime
      <4>3. daemon'.place = "waiting" => daemon' = daemon
        BY <1>6 DEF DaemonAt
      <4> QED
        BY <1>1, <1>9, <2>1, <2>2, <2>5, <4>1, <4>2, <4>3
    <3> QED
      BY <3>2, <3>3
  <2> QED
    BY <2>4, <2>5
<1>10. CASE daemon.place /= "waiting"
  <2>1. late < MaxLate /\ late' = late + 1 /\ daemon' = daemon
    BY <1>6, <1>10 DEF Tick, Busy
  <2>2. CurrentTime' = CurrentTime + 1
    <3>1. CASE daemon.place = "switching"
      <4>1. tick <= late
        BY <3>1 DEF TimesInv, RoundsOK, ListsAreOld
      <4>2. tick' = tick + 1
        BY <1>1, <1>2, <4>1
      <4> QED
        BY <1>1, <2>1, <3>1, <4>2 DEF CurrentTime, ListsAreOld, Round
    <3>2. CASE daemon.place /= "switching" /\ tick < last
      <4>1. tick <= late /\ tick' = tick + 1
        BY <1>1, <1>2, <3>2 DEF TimesInv, RoundsOK, ListsAreOld
      <4>2. tick' < last
        <5>1. CASE Range(overflow) /= {}
          <6>1. MaxLate < last
            BY <3>2, <5>1 DEF TimesInv, RoundsOK
          <6> QED
            BY <1>1, <2>1, <4>1, <6>1
        <5>2. CASE Range(current) /= {}
          <6>1. PICK t \in Range(current) : TRUE
            BY <5>2
          <6>2. tick + Round <= expiry[t] + late
            BY <1>8, <3>2, <6>1 DEF CurrentTime, ListsAreOld
          <6>3. expiry[t] + MaxLate <= last + MaxDelay
            BY <3>2, <6>1 DEF TimesInv, RoundsOK
          <6>4. expiry[t] \in Nat
            BY <1>3, <6>1
          <6> QED
            BY <1>1, <2>1, <4>1, <6>2, <6>3, <6>4 DEF Round
        <5> QED
          BY <5>1, <5>2
      <4> QED
        BY <1>1, <1>6, <3>2, <4>1, <4>2 DEF CurrentTime, ListsAreOld, Round
    <3>3. CASE daemon.place /= "switching" /\ ~ (tick < last)
      <4>1. CASE tick = MaxDelay
        <5>1. tick' = 0
          BY <1>2, <4>1
        <5>2. 0 < last
          <6>1. CASE Range(overflow) /= {}
            <7>1. MaxLate < last
              BY <3>3, <6>1 DEF TimesInv, RoundsOK
            <7> QED
              BY <1>1, <7>1
          <6>2. CASE Range(current) /= {}
            <7>1. PICK t \in Range(current) : TRUE
              BY <6>2
            <7>2. tick <= expiry[t] + late
              BY <1>8, <3>3, <7>1 DEF CurrentTime, ListsAreOld
            <7>3. expiry[t] + MaxLate <= last + MaxDelay
              BY <3>3, <7>1 DEF TimesInv, RoundsOK
            <7>4. expiry[t] \in Nat
              BY <1>3, <7>1
            <7> QED
              BY <1>1, <2>1, <4>1, <7>2, <7>3, <7>4
          <6> QED
            BY <6>1, <6>2
        <5> QED
          BY <1>1, <1>6, <2>1, <3>3, <4>1, <5>1, <5>2 DEF CurrentTime, ListsAreOld, Round
      <4>2. CASE tick /= MaxDelay
        <5>1. tick' = tick + 1
          BY <1>2, <4>2
        <5>2. ~ (tick' < last)
          BY <1>1, <3>3, <5>1
        <5> QED
          BY <1>1, <1>6, <2>1, <3>3, <5>1, <5>2 DEF CurrentTime, ListsAreOld
      <4> QED
        BY <4>1, <4>2
    <3> QED
      BY <3>1, <3>2, <3>3
  <2>3. CurrentTime \in Nat
    BY <1>1 DEF CurrentTime, Round
  <2>4. \A t \in Range(current) : CurrentTime + 1 <= expiry[t] + (late + 1)
    BY <1>1, <1>3, <1>8, <2>3
  <2>5. \A t \in Range(current) : NotBehind(expiry[t])'
    BY <1>6, <2>1, <2>2, <2>4 DEF NotBehind, timerLists
  <2>6. ListsAreOld' => tick' <= late'
    <3>1. CASE ListsAreOld
      <4>1. tick <= late
        BY <3>1 DEF TimesInv, RoundsOK
      <4> QED
        BY <1>1, <1>2, <2>1, <4>1
    <3>2. CASE ~ ListsAreOld
      <4>1. last <= tick /\ daemon.place /= "switching"
        BY <1>1, <3>2 DEF ListsAreOld
      <4>2. tick' < last => tick' = 0
        BY <1>1, <1>2, <4>1
      <4> QED
        BY <1>1, <1>6, <1>7, <2>1, <4>1, <4>2 DEF ListsAreOld
    <3> QED
      BY <3>1, <3>2
  <2>7. daemon.place = "switching" => last <= tick'
    <3> HAVE daemon.place = "switching"
    <3>1. last <= tick /\ tick <= late
      BY DEF TimesInv, RoundsOK, ListsAreOld
    <3> QED
      BY <1>1, <1>2, <3>1
  <2> QED
    BY <1>10, <2>1, <2>2, <2>5, <2>6, <2>7
<1> QED
  BY <1>9, <1>10

LEMMA TickTimes ==
    ASSUME TimersInv, Punctual, TimesInv, Tick
    PROVE  TimesInv'
<1>1. /\ UNCHANGED <<last, timerLists, period, commands, asked>>
      /\ \/ daemon' = daemon
         \/ daemon.place = "waiting" /\ daemon' = DaemonAt("commands")
  BY DEF Tick
<1>2. daemon'.place = "switching" <=> daemon.place = "switching"
  BY <1>1 DEF DaemonAt
<1>3. CommandsFresh'
  <2>1. IsStart(asked) => Elapsed(asked.value, tick') <= late'
    BY BusyIs, BusyTick DEF TimesInv, CommandsFresh
  <2>2. \A n \in DOMAIN commands : IsStart(commands[n]) => Elapsed(commands[n].value, tick') <= late'
    BY BusyIs, BusyTick DEF TimesInv, CommandsFresh
  <2> QED
    BY <1>1, <2>1, <2>2 DEF CommandsFresh, IsStart, Fresh
<1>4. InHandFresh'
  <2>1. CASE daemon' /= daemon
    BY <1>1, <2>1, NothingInHand DEF DaemonAt
  <2>2. CASE daemon' = daemon /\ daemon.place = "expired"
    <3>1. /\ daemon.now = last /\ Fresh(daemon.now) /\ daemon.expire = expiry[Head(current)]
          /\ daemon.expire <= daemon.now /\ Fresh(daemon.expire) /\ Sampled(daemon.expire)
          /\ daemon.message = NoMessage /\ Busy
      BY <2>2 DEF TimesInv, InHandFresh, TimersInv, DaemonSound, Busy
    <3>2. daemon.now \in Ticks /\ daemon.expire \in Ticks /\ Head(current) \in Timers
      BY <2>2, NoMembers DEF TimersInv, DaemonSound, TimersSound, Listed
    <3>3. /\ Elapsed(daemon.now, tick') = Elapsed(daemon.now, tick) + 1
          /\ Elapsed(daemon.now, tick') <= late' /\ Elapsed(daemon.now, tick) \in Nat
          /\ Elapsed(daemon.expire, tick') = Elapsed(daemon.expire, tick) + 1
          /\ Elapsed(daemon.expire, tick') <= late' /\ Elapsed(daemon.expire, tick) \in Nat
      BY <3>1, <3>2, BusyTick
    <3>4. Elapsed(daemon.now, tick') <= Elapsed(daemon.expire, tick')
      BY <3>1, <3>3 DEF Sampled
    <3>5. ~ IsStart(NoMessage)
      BY DEF IsStart, NoMessage
    <3> QED
      BY <1>1, <2>2, <3>1, <3>3, <3>4, <3>5
         DEF InHandFresh, Fresh, Sampled, IsStart, timerLists
  <2>3. CASE daemon' = daemon /\ daemon.place /= "expired"
    <3>1. IsStart(daemon.message) =>
              /\ Elapsed(daemon.message.value, tick') <= late'
              /\ Elapsed(daemon.now, tick') <= Elapsed(daemon.message.value, tick')
      <4>1. SUFFICES ASSUME IsStart(daemon.message)
                     PROVE  /\ Elapsed(daemon.message.value, tick') <= late'
                            /\ Elapsed(daemon.now, tick') <= Elapsed(daemon.message.value, tick')
        OBVIOUS
      <4>2. /\ daemon.message /= NoMessage /\ Busy /\ daemon.message.timer \in Timers
            /\ daemon.message.value \in Ticks /\ daemon.now \in Ticks
        BY <4>1, BusyIs DEF TimersInv, DaemonSound
      <4>3. /\ Fresh(daemon.message.value) /\ Fresh(daemon.now)
            /\ Elapsed(daemon.now, tick) <= Elapsed(daemon.message.value, tick)
        BY <4>1, <4>2 DEF TimesInv, InHandFresh, Sampled
      <4>4. /\ Elapsed(daemon.now, tick') = Elapsed(daemon.now, tick) + 1
            /\ Elapsed(daemon.now, tick) \in Nat
            /\ Elapsed(daemon.message.value, tick') = Elapsed(daemon.message.value, tick) + 1
            /\ Elapsed(daemon.message.value, tick') <= late'
            /\ Elapsed(daemon.message.value, tick) \in Nat
        BY <4>2, <4>3, BusyTick
      <4> QED
        BY <4>3, <4>4
    <3>2. daemon.message /= NoMessage => daemon.now = last /\ Elapsed(daemon.now, tick') <= late'
      <4>1. daemon.message /= NoMessage =>
                /\ daemon.now = last /\ Fresh(daemon.now) /\ daemon.now \in Ticks
                /\ Busy /\ daemon.message.timer \in Timers
        BY BusyIs DEF TimesInv, InHandFresh, TimersInv, DaemonSound
      <4> QED
        BY <4>1, BusyTick
    <3>3. daemon.place = "start_now" =>
              period[daemon.message.timer] <= Elapsed(daemon.message.value, daemon.now)
      BY DEF TimesInv, InHandFresh
    <3> QED
      BY <1>1, <2>3, <3>1, <3>2, <3>3 DEF InHandFresh, Fresh, Sampled, IsStart
  <2> QED
    BY <2>1, <2>2, <2>3
<1>5. CASE Range(current) \cup Range(overflow) = {}
  <2>1. RoundsOK' /\ WaitsOK'
    BY <1>1, <1>5 DEF RoundsOK, WaitsOK, timerLists
  <2> QED
    BY <1>3, <1>4, <2>1 DEF TimesInv
<1>6. CASE Range(current) \cup Range(overflow) /= {}
  <2>1. /\ \A t \in Range(current) : NotBehind(expiry[t])'
        /\ ListsAreOld' => tick' <= late'
        /\ daemon.place = "switching" => last <= tick'
        /\ daemon'.place = "waiting" =>
              /\ last <= tick' /\ daemon' = daemon
              /\ Range(current) /= {} => tick' < daemon.expire
    BY <1>6, TickInRound
  <2>2. RoundsOK'
    BY <1>1, <1>2, <1>6, <2>1 DEF TimesInv, RoundsOK, timerLists
  <2>3. WaitsOK'
    BY <1>1, <1>6, <2>1 DEF TimesInv, WaitsOK, timerLists
  <2> QED
    BY <1>3, <1>4, <2>2, <2>3 DEF TimesInv
<1> QED
  BY <1>5, <1>6

LEMMA TimesStart == TimersInit => TimesInv
<1> SUFFICES ASSUME TimersInit PROVE TimesInv
  OBVIOUS
<1>1. CommandsFresh /\ InHandFresh
  BY DEF TimersInit, CommandsFresh, InHandFresh, DaemonAt, IsStart, NoMessage
<1>2. WaitsOK /\ RoundsOK
  BY DEF TimersInit, WaitsOK, RoundsOK, DaemonAt, Range
<1> QED
  BY <1>1, <1>2 DEF TimesInv

LEMMA TimesStep ==
    ASSUME TimersInv, Punctual, TimesInv, [TimersNext]_timersVars
    PROVE  TimesInv'
<1>1. CASE UNCHANGED timersVars
  <2>1. CommandsFresh' /\ InHandFresh'
    BY <1>1 DEF timersVars, TimesInv, CommandsFresh, InHandFresh, IsStart, Fresh, Sampled
  <2>2. WaitsOK' /\ RoundsOK'
    BY <1>1, RoundsStay DEF timersVars, timerLists, TimesInv, WaitsOK
  <2> QED
    BY <2>1, <2>2 DEF TimesInv
<1>2. CASE Asks \/ Sends \/ Tick
  BY <1>2, AsksTimes, SendsTimes, TickTimes
<1>3. CASE DaemonNext
  BY <1>3, ProcessSwitchesTimes, FindsExpiredTimes, ProcessWaitsTimes, NoMoreTimes, ExpiresTimes,
     SwitchExpiresTimes, SwitchTimes, ReceivesTimes, StartTimes, StartsNowTimes, StopTimes,
     ChangePeriodTimes DEF DaemonNext
<1> QED
  BY <1>1, <1>2, <1>3 DEF TimersNext

THEOREM TimesInvariant ==
    ASSUME Punctual
    PROVE  TimersSpec => [](TimersInv /\ TimesInv)
<1>1. TimersInit => TimersInv /\ TimesInv
  BY TimersStart, TimesStart
<1>2. TimersInv /\ TimesInv /\ [TimersNext]_timersVars => (TimersInv /\ TimesInv)'
  BY TimersStep, TimesStep
<1> QED
  BY <1>1, <1>2, PTL DEF TimersSpec
-----------------------------------------------------------------------------
\* A timer found expired has been due as long as its expiry time has passed.
LEMMA ExpiredIsDue ==
    ASSUME TimersInv, Punctual, TimesInv, ProcessExpiredTimer, NEW t, t = Head(current)
    PROVE  DueInList(t) = 0 - Elapsed(daemon.expire, tick) /\ Elapsed(daemon.expire, tick) \in Nat
<1>1. /\ t \in Timers /\ t \in Range(current)
      /\ daemon.expire = expiry[t] /\ daemon.expire \in Ticks
      /\ Elapsed(last, tick) <= Elapsed(daemon.expire, tick) /\ daemon.expire <= last
  BY ExpiredIs
<1>2. Contains(current, t)
  BY <1>1, NoMembers DEF TimersInv, TimersSound, Listed
<1>3. DueInList(t) = daemon.expire - CurrentTime
  BY <1>1, <1>2 DEF DueInList
<1>4. daemon.place /= "switching"
  BY DEF ProcessExpiredTimer
<1>5. tick \in Ticks /\ last \in Ticks /\ Elapsed(daemon.expire, tick) \in Ticks
  BY <1>1, LaterTyped DEF TimersInv, ClockSound
<1>6. /\ tick \in Nat /\ last \in Nat /\ daemon.expire \in Nat /\ MaxDelay \in Nat
      /\ Elapsed(daemon.expire, tick) \in Nat /\ tick <= MaxDelay /\ last <= MaxDelay
  BY <1>1, <1>5, TickCountAssumption DEF Ticks
<1>7. CASE tick < last
  <2>1. CurrentTime = tick + Round
    BY <1>7 DEF CurrentTime, ListsAreOld
  <2>2. Elapsed(last, tick) = tick - last + Round
    BY <1>5, <1>7, OldAge
  <2>3. ~ (daemon.expire <= tick)
    <3>1. ASSUME daemon.expire <= tick PROVE FALSE
      <4>1. Elapsed(daemon.expire, tick) = tick - daemon.expire
        BY <1>1, <1>5, <3>1, OldAge
      <4> QED
        BY <1>1, <1>6, <2>2, <4>1 DEF Round
    <3> QED
      BY <3>1
  <2>4. Elapsed(daemon.expire, tick) = tick - daemon.expire + Round
    BY <1>1, <1>5, <1>6, <2>3, OldAge
  <2> QED
    BY <1>3, <1>6, <2>1, <2>4 DEF Round
<1>8. CASE ~ (tick < last)
  <2>1. CurrentTime = tick
    BY <1>4, <1>8 DEF CurrentTime, ListsAreOld
  <2>2. Elapsed(daemon.expire, tick) = tick - daemon.expire
    BY <1>1, <1>5, <1>6, <1>8, OldAge
  <2> QED
    BY <1>3, <1>6, <2>1, <2>2
<1> QED
  BY <1>7, <1>8

\* So has one left in the current list when the lists are switched.
LEMMA LeftWasDue ==
    ASSUME TimersInv, Punctual, TimesInv, SwitchExpires, NEW t, t = Head(current)
    PROVE  DueInList(t) = 0 - Elapsed(expiry[t], tick) /\ Elapsed(expiry[t], tick) \in Nat
<1>1. /\ t \in Timers /\ t \in Range(current) /\ expiry[t] \in Ticks /\ ListsAreOld
      /\ Elapsed(expiry[t], tick) = tick - expiry[t] + Round
  BY LeftIsDue
<1>2. Contains(current, t)
  BY <1>1, NoMembers DEF TimersInv, TimersSound, Listed
<1>3. DueInList(t) = expiry[t] - (tick + Round)
  BY <1>1, <1>2 DEF DueInList, CurrentTime
<1>4. tick \in Ticks /\ Elapsed(expiry[t], tick) \in Ticks
  BY <1>1, LaterTyped DEF TimersInv, ClockSound
<1>5. /\ tick \in Nat /\ expiry[t] \in Nat /\ MaxDelay \in Nat /\ Elapsed(expiry[t], tick) \in Nat
  BY <1>1, <1>4, TickCountAssumption DEF Ticks
<1> QED
  BY <1>1, <1>3, <1>5 DEF Round

\* The callback of a timer runs when the timer is due, never before: be it found at
\* the head of its list, left there when the lists are switched, or expired by the
\* time its command is executed (timers.c:472-498, 647-690, 800-909).
THEOREM NoTimerCallsBackEarly ==
    ASSUME Punctual
    PROVE  TimersSpec => NoneCallsBackEarly
<1> DEFINE Early == /\ ProcessExpiredTimer \/ SwitchExpires => DueInList(Head(current)) <= 0
                    /\ StartsNow => DueFrom(InHand.timer, InHand.value) <= 0
<1>1. TimersInv /\ TimesInv /\ [TimersNext]_timersVars => [Early]_timersVars
  <2>1. SUFFICES ASSUME TimersInv, TimesInv PROVE Early
    OBVIOUS
  <2>2. ProcessExpiredTimer => DueInList(Head(current)) <= 0
    BY <2>1, ExpiredIsDue
  <2>3. SwitchExpires => DueInList(Head(current)) <= 0
    BY <2>1, LeftWasDue
  <2>4. StartsNow => DueFrom(InHand.timer, InHand.value) <= 0
    BY <2>1, NowIsTimed
  <2> QED
    BY <2>2, <2>3, <2>4
<1>2. TimersSpec => [](TimersInv /\ TimesInv)
  BY TimesInvariant
<1> QED
  BY <1>1, <1>2, PTL DEF TimersSpec, NoneCallsBackEarly

-----------------------------------------------------------------------------
(***************************************************************************)
(* The timers implement the alarms.                                        *)
(***************************************************************************)
\* The restarts of a timer in a queue of commands and the time of the last; whether it
\* has another command there, or two restarts.
RestartsOf(c, t) == {n \in DOMAIN c : c[n].id = "reload" /\ c[n].timer = t}
LastRestart(c, t) == c[Max(RestartsOf(c, t))].value
AskedOf(c, t) == \E n \in DOMAIN c : c[n].id /= "reload" /\ c[n].timer = t
Twice(c, t) == \E m, n \in RestartsOf(c, t) : m /= n

\* The last restart of a timer is one of them, and whatever is a greatest one is it.
LEMMA LastRestartIs ==
    ASSUME NEW c \in Seq(Messages), NEW t, RestartsOf(c, t) /= {}
    PROVE  /\ Max(RestartsOf(c, t)) \in RestartsOf(c, t)
           /\ \A n \in RestartsOf(c, t) : n <= Max(RestartsOf(c, t))
           /\ \A n \in RestartsOf(c, t) :
                 (\A m \in RestartsOf(c, t) : m <= n) => LastRestart(c, t) = c[n].value
<1> DEFINE S == RestartsOf(c, t)
<1>1. DOMAIN c = 1..Len(c) /\ Len(c) \in Nat
  OBVIOUS
<1>2. S \subseteq 0..Len(c)
  BY <1>1 DEF RestartsOf
<1>3. Max(S) \in S /\ \A n \in S : n <= Max(S)
  BY <1>1, <1>2, GreatestMember
<1>4. \A n \in S : n \in Nat
  BY <1>2
<1>5. ASSUME NEW n \in S, \A m \in S : m <= n
      PROVE  n = Max(S)
  BY <1>3, <1>4, <1>5
<1> QED
  BY <1>3, <1>5 DEF LastRestart

LEMMA AppendedRestarts ==
    ASSUME NEW c \in Seq(Messages), NEW m \in Messages, NEW t
    PROVE  /\ m.id = "reload" /\ m.timer = t =>
                 /\ RestartsOf(Append(c, m), t) /= {} /\ LastRestart(Append(c, m), t) = m.value
                 /\ Twice(Append(c, m), t) => RestartsOf(c, t) /= {}
           /\ ~ (m.id = "reload" /\ m.timer = t) =>
                 /\ RestartsOf(Append(c, m), t) = RestartsOf(c, t)
                 /\ RestartsOf(c, t) /= {} => LastRestart(Append(c, m), t) = LastRestart(c, t)
                 /\ Twice(Append(c, m), t) => Twice(c, t)
           /\ AskedOf(Append(c, m), t) => AskedOf(c, t) \/ (m.id /= "reload" /\ m.timer = t)
<1> DEFINE a == Append(c, m)
<1>1. DOMAIN c = 1..Len(c) /\ Len(c) \in Nat
  OBVIOUS
<1>2. /\ a \in Seq(Messages) /\ Len(a) = Len(c) + 1
      /\ \A n \in 1..Len(c) : a[n] = c[n]
      /\ a[Len(c) + 1] = m
  OBVIOUS
<1>3. DOMAIN a = DOMAIN c \cup {Len(c) + 1}
  BY <1>1, <1>2
<1>4. \A n \in DOMAIN c : a[n] = c[n] /\ n <= Len(c) /\ n \in Nat
  BY <1>1, <1>2
<1> HIDE DEF a
<1>5. CASE m.id = "reload" /\ m.timer = t
  <2>1. RestartsOf(a, t) = RestartsOf(c, t) \cup {Len(c) + 1}
    BY <1>2, <1>3, <1>4, <1>5 DEF RestartsOf
  <2>2. \A n \in RestartsOf(a, t) : n <= Len(c) + 1
    BY <1>1, <1>4, <2>1 DEF RestartsOf
  <2>3. LastRestart(a, t) = m.value
    BY <1>2, <2>1, <2>2, LastRestartIs
  <2>4. Twice(a, t) => RestartsOf(c, t) /= {}
    BY <2>1 DEF Twice
  <2>5. AskedOf(a, t) => AskedOf(c, t)
    BY <1>2, <1>3, <1>4, <1>5 DEF AskedOf
  <2> QED
    BY <1>5, <2>1, <2>3, <2>4, <2>5 DEF a
<1>6. CASE ~ (m.id = "reload" /\ m.timer = t)
  <2>1. RestartsOf(a, t) = RestartsOf(c, t)
    BY <1>2, <1>3, <1>4, <1>6 DEF RestartsOf
  <2>2. RestartsOf(c, t) /= {} => LastRestart(a, t) = LastRestart(c, t)
    <3>1. RestartsOf(c, t) /= {} => Max(RestartsOf(c, t)) \in DOMAIN c
      BY LastRestartIs DEF RestartsOf
    <3> QED
      BY <1>4, <2>1, <3>1 DEF LastRestart
  <2>3. Twice(a, t) => Twice(c, t)
    BY <2>1 DEF Twice
  <2>4. AskedOf(a, t) => AskedOf(c, t) \/ (m.id /= "reload" /\ m.timer = t)
    BY <1>2, <1>3, <1>4 DEF AskedOf
  <2> QED
    BY <1>6, <2>1, <2>2, <2>3, <2>4 DEF a
<1> QED
  BY <1>5, <1>6

LEMMA TailRestarts ==
    ASSUME NEW c \in Seq(Messages), c /= <<>>, NEW t
    PROVE  /\ RestartsOf(Tail(c), t) /= {} =>
                 RestartsOf(c, t) /= {} /\ LastRestart(Tail(c), t) = LastRestart(c, t)
           /\ RestartsOf(Tail(c), t) = {} /\ RestartsOf(c, t) /= {} =>
                 Head(c).id = "reload" /\ Head(c).timer = t /\ LastRestart(c, t) = Head(c).value
           /\ RestartsOf(Tail(c), t) /= {} /\ Head(c).id = "reload" /\ Head(c).timer = t => Twice(c, t)
           /\ Head(c).id = "reload" /\ Head(c).timer = t => RestartsOf(c, t) /= {}
           /\ Twice(Tail(c), t) => Twice(c, t)
           /\ AskedOf(Tail(c), t) => AskedOf(c, t)
           /\ Head(c).id /= "reload" /\ Head(c).timer = t => AskedOf(c, t)
<1> DEFINE d == Tail(c)
           h == Head(c)
<1>1. DOMAIN c = 1..Len(c) /\ Len(c) \in Nat /\ Len(c) >= 1
  OBVIOUS
<1>2. /\ d \in Seq(Messages) /\ DOMAIN d = 1..(Len(c) - 1)
      /\ \A n \in 1..(Len(c) - 1) : d[n] = c[n + 1]
      /\ c[1] = h /\ 1 \in DOMAIN c
  BY <1>1
<1> HIDE DEF d, h
<1>3. \A n \in DOMAIN d : n + 1 \in DOMAIN c /\ d[n] = c[n + 1] /\ n \in Nat /\ n + 1 /= 1
  BY <1>1, <1>2
<1>4. \A n \in DOMAIN c : n \in Nat /\ (n = 1 \/ (n - 1 \in DOMAIN d /\ d[n - 1] = c[n]))
  BY <1>1, <1>2
<1>5. \A n \in RestartsOf(d, t) : n + 1 \in RestartsOf(c, t) /\ n \in Nat
  BY <1>3 DEF RestartsOf
<1>6. \A n \in RestartsOf(c, t) : n \in Nat /\ (n = 1 \/ n - 1 \in RestartsOf(d, t))
  BY <1>4 DEF RestartsOf
<1>7. 1 \in RestartsOf(c, t) <=> h.id = "reload" /\ h.timer = t
  BY <1>2 DEF RestartsOf
<1>8. RestartsOf(d, t) /= {} =>
          RestartsOf(c, t) /= {} /\ LastRestart(d, t) = LastRestart(c, t)
  <2>1. SUFFICES ASSUME RestartsOf(d, t) /= {}
                 PROVE  RestartsOf(c, t) /= {} /\ LastRestart(d, t) = LastRestart(c, t)
    OBVIOUS
  <2> DEFINE k == Max(RestartsOf(d, t))
  <2>2. k \in RestartsOf(d, t) /\ \A n \in RestartsOf(d, t) : n <= k
    BY <1>2, <2>1, LastRestartIs
  <2>3. LastRestart(d, t) = d[k].value
    BY DEF LastRestart
  <2> HIDE DEF k
  <2>4. k + 1 \in RestartsOf(c, t) /\ d[k] = c[k + 1] /\ k \in Nat
    BY <1>3, <1>5, <2>2 DEF RestartsOf
  <2>5. \A n \in RestartsOf(c, t) : n <= k + 1
    BY <1>5, <1>6, <2>2, <2>4
  <2> QED
    BY <2>3, <2>4, <2>5, LastRestartIs
<1>9. RestartsOf(d, t) = {} /\ RestartsOf(c, t) /= {} =>
          h.id = "reload" /\ h.timer = t /\ LastRestart(c, t) = h.value
  <2>1. SUFFICES ASSUME RestartsOf(d, t) = {}, RestartsOf(c, t) /= {}
                 PROVE  h.id = "reload" /\ h.timer = t /\ LastRestart(c, t) = h.value
    OBVIOUS
  <2>2. 1 \in RestartsOf(c, t) /\ \A n \in RestartsOf(c, t) : n <= 1
    BY <1>6, <2>1
  <2> QED
    BY <1>2, <1>7, <2>2, LastRestartIs
<1>10. RestartsOf(d, t) /= {} /\ h.id = "reload" /\ h.timer = t => Twice(c, t)
  <2>1. SUFFICES ASSUME RestartsOf(d, t) /= {}, h.id = "reload", h.timer = t PROVE Twice(c, t)
    OBVIOUS
  <2>2. PICK n \in RestartsOf(d, t) : TRUE
    BY <2>1
  <2>3. n + 1 \in RestartsOf(c, t) /\ n + 1 /= 1 /\ 1 \in RestartsOf(c, t)
    BY <1>3, <1>5, <1>7, <2>1, <2>2 DEF RestartsOf
  <2> QED
    BY <2>3 DEF Twice
<1>11. Twice(d, t) => Twice(c, t)
  <2>1. SUFFICES ASSUME NEW m \in RestartsOf(d, t), NEW n \in RestartsOf(d, t), m /= n
                 PROVE  Twice(c, t)
    BY DEF Twice
  <2>2. m + 1 \in RestartsOf(c, t) /\ n + 1 \in RestartsOf(c, t) /\ m + 1 /= n + 1
    BY <1>5, <2>1
  <2> QED
    BY <2>2 DEF Twice
<1>12. AskedOf(d, t) => AskedOf(c, t)
  BY <1>3 DEF AskedOf
<1>13. h.id /= "reload" /\ h.timer = t => AskedOf(c, t)
  BY <1>2 DEF AskedOf
<1> QED
  BY <1>7, <1>8, <1>9, <1>10, <1>11, <1>12, <1>13 DEF d, h

-----------------------------------------------------------------------------
\* No task asks for a restart: the timer task alone does, of itself.
AsksNoRestart == asked.id /= "reload"

LEMMA AsksNoRestartStep ==
    ASSUME AsksNoRestart, [TimersNext]_timersVars
    PROVE  AsksNoRestart'
<1>1. CASE Asks
  <2>1. asked'.id \in {"start", "stop", "period"}
    BY <1>1 DEF Asks
  <2> QED
    BY <2>1 DEF AsksNoRestart
<1>2. CASE Sends
  BY <1>2 DEF Sends, AsksNoRestart, NoMessage
<1>3. CASE UNCHANGED asked
  BY <1>3 DEF AsksNoRestart
<1> QED
  BY <1>1, <1>2, <1>3 DEF TimersNext, DaemonNext, Tick, ProcessSwitches, ProcessFindsExpired,
     ProcessWaits, ProcessExpiredTimer, SwitchExpires, SwitchTimerLists, ReceivesCommand,
     NoMoreCommands, ExecutesStart, StartsNow, ExecutesStop, ExecutesChangePeriod, timersVars

\* The invariant the refinement rests on.
AlarmInv == TimersInv /\ TimesInv /\ AsksNoRestart

\* What is under way for a timer, in the words of the queue.
LEMMA UnderWay ==
    ASSUME NEW t
    PROVE  /\ Restarts(t) = RestartsOf(commands, t) /\ Restarts(t)' = RestartsOf(commands', t)
           /\ Commanded(t) <=>
                 \/ asked /= NoMessage /\ asked.timer = t
                 \/ AskedOf(commands, t)
                 \/ InHand /= NoMessage /\ InHand.id /= "reload" /\ InHand.timer = t
                 \/ RestartsOf(commands, t) /= {} /\ (Restarting(t) \/ InList(t))
                 \/ Twice(commands, t)
           /\ Commanded(t)' <=>
                 \/ asked' /= NoMessage /\ asked'.timer = t
                 \/ AskedOf(commands', t)
                 \/ InHand' /= NoMessage /\ InHand'.id /= "reload" /\ InHand'.timer = t
                 \/ RestartsOf(commands', t) /= {} /\ (Restarting(t)' \/ InList(t)')
                 \/ Twice(commands', t)
  BY DEF Restarts, RestartsOf, Commanded, AskedOf, Twice

\* When a timer is due, by the place it is in.
LEMMA DueIs ==
    ASSUME NEW t
    PROVE  /\ RestartsOf(commands, t) /= {} =>
                 DueIn(t) = <<DueFrom(t, LastRestart(commands, t))>>
           /\ RestartsOf(commands, t) = {} /\ Restarting(t) => DueIn(t) = <<DueFrom(t, InHand.value)>>
           /\ RestartsOf(commands, t) = {} /\ ~ Restarting(t) /\ InList(t) =>
                 DueIn(t) = <<DueInList(t)>>
           /\ RestartsOf(commands, t) = {} /\ ~ Restarting(t) /\ ~ InList(t) => DueIn(t) = <<>>
  BY UnderWay DEF DueIn, LastRestart

LEMMA DueIsThen ==
    ASSUME NEW t
    PROVE  /\ RestartsOf(commands', t) /= {} =>
                 DueIn(t)' = <<DueFrom(t, LastRestart(commands, t))'>>
           /\ RestartsOf(commands', t) = {} /\ Restarting(t)' =>
                 DueIn(t)' = <<DueFrom(t, InHand.value)'>>
           /\ RestartsOf(commands', t) = {} /\ ~ Restarting(t)' /\ InList(t)' =>
                 DueIn(t)' = <<DueInList(t)'>>
           /\ RestartsOf(commands', t) = {} /\ ~ Restarting(t)' /\ ~ InList(t)' => DueIn(t)' = <<>>
  BY UnderWay DEF DueIn, LastRestart

\* Nothing that a timer is due by changes.
LEMMA DueStays ==
    ASSUME NEW t, tick' = tick, period'[t] = period[t],
           RestartsOf(commands', t) /= {} <=> RestartsOf(commands, t) /= {},
           RestartsOf(commands, t) /= {} =>
               LastRestart(commands', t) = LastRestart(commands, t),
           Restarting(t)' <=> Restarting(t), Restarting(t) => InHand'.value = InHand.value,
           InList(t)' <=> InList(t), InList(t) => DueInList(t)' = DueInList(t)
    PROVE  DueIn(t)' = DueIn(t)
<1>1. CASE RestartsOf(commands, t) /= {}
  <2>1. DueFrom(t, LastRestart(commands, t))' = DueFrom(t, LastRestart(commands, t))
    BY <1>1 DEF DueFrom
  <2> QED
    BY <1>1, <2>1, DueIs, DueIsThen
<1>2. CASE RestartsOf(commands, t) = {} /\ Restarting(t)
  <2>1. DueFrom(t, InHand.value)' = DueFrom(t, InHand.value)
    BY <1>2 DEF DueFrom
  <2> QED
    BY <1>2, <2>1, DueIs, DueIsThen
<1>3. CASE RestartsOf(commands, t) = {} /\ ~ Restarting(t)
  BY <1>3, DueIs, DueIsThen
<1> QED
  BY <1>1, <1>2, <1>3

\* As the alarm sees it: nothing happens to a timer, or to any other.
Left(t) == DueIn(t)' = DueIn(t) /\ (Commanded(t)' => Commanded(t))
OthersLeft(t) == \A u \in Timers \ {t} : Left(u)

LEMMA AlarmSettles ==
    ASSUME \A t \in Timers : Left(t), UNCHANGED <<tick, period>>
    PROVE  Alarm!Next
<1>1. [t \in Timers |-> DueIn(t)]' = [t \in Timers |-> DueIn(t)]
  BY DEF Left
<1>2. {t \in Timers : Commanded(t)}' \subseteq {t \in Timers : Commanded(t)}
  BY DEF Left
<1> QED
  BY <1>1, <1>2 DEF Alarm!Next, Alarm!Settles

LEMMA AlarmCommands ==
    ASSUME NEW t \in Timers, \A u \in Timers : DueIn(u)' = DueIn(u), Commanded(t)',
           \A u \in Timers \ {t} : Commanded(u)' <=> Commanded(u), UNCHANGED <<tick, period>>
    PROVE  Alarm!Next
<1>1. [u \in Timers |-> DueIn(u)]' = [u \in Timers |-> DueIn(u)]
  OBVIOUS
<1>2. {u \in Timers : Commanded(u)}' = {u \in Timers : Commanded(u)} \cup {t}
  OBVIOUS
<1>3. Alarm!Commands(t)
  BY <1>1, <1>2 DEF Alarm!Commands
<1> QED
  BY <1>3 DEF Alarm!Next

\* A callback, after which the timer is due a period later or stops.
LEMMA AlarmCalls ==
    ASSUME NEW t \in Timers, OthersLeft(t), Commanded(t)' => Commanded(t),
           UNCHANGED <<tick, period>>,
           NEW d, DueIn(t) = <<d>>, d <= 0,
           (t \in AutoReload /\ DueIn(t)' = <<d + period[t]>>) \/ DueIn(t)' = <<>>
    PROVE  Alarm!Next
<1> DEFINE D == [u \in Timers |-> DueIn(u)]
<1>1. D[t] = <<d>> /\ D[t] /= <<>> /\ D[t][1] = d
  OBVIOUS
<1>2. D' = [D EXCEPT ![t] = DueIn(t)']
  BY DEF OthersLeft, Left
<1>3. {u \in Timers : Commanded(u)}' \subseteq {u \in Timers : Commanded(u)}
  BY DEF OthersLeft, Left
<1>4. \/ t \in AutoReload /\ D' = [D EXCEPT ![t] = <<@[1] + period[t]>>]
      \/ D' = [D EXCEPT ![t] = <<>>]
  BY <1>1, <1>2
<1>5. Alarm!CallsBack(t)
  BY <1>1, <1>3, <1>4 DEF Alarm!CallsBack
<1> QED
  BY <1>5 DEF Alarm!Next

\* A start, as of so many ticks ago.
LEMMA AlarmStarts ==
    ASSUME NEW t \in Timers, OthersLeft(t), Commanded(t), tick' = tick,
           NEW age \in 0..MaxLate, DueIn(t)' = <<period'[t] - age>>,
           period' = [period EXCEPT ![t] = period'[t]]
    PROVE  Alarm!Next
<1> DEFINE D == [u \in Timers |-> DueIn(u)]
<1>1. D' = [D EXCEPT ![t] = <<period'[t] - age>>]
  BY DEF OthersLeft, Left
<1>2. {u \in Timers : Commanded(u)}' \subseteq {u \in Timers : Commanded(u)}
  BY DEF OthersLeft, Left
<1>3. t \in {u \in Timers : Commanded(u)}
  OBVIOUS
<1>4. Alarm!Starts(t)
  BY <1>1, <1>2, <1>3 DEF Alarm!Starts
<1> QED
  BY <1>4 DEF Alarm!Next

LEMMA AlarmStops ==
    ASSUME NEW t \in Timers, OthersLeft(t), Commanded(t), UNCHANGED <<tick, period>>, DueIn(t)' = <<>>
    PROVE  Alarm!Next
<1> DEFINE D == [u \in Timers |-> DueIn(u)]
<1>1. D' = [D EXCEPT ![t] = <<>>]
  BY DEF OthersLeft, Left
<1>2. {u \in Timers : Commanded(u)}' \subseteq {u \in Timers : Commanded(u)}
  BY DEF OthersLeft, Left
<1>3. t \in {u \in Timers : Commanded(u)}
  OBVIOUS
<1>4. Alarm!Stops(t)
  BY <1>1, <1>2, <1>3 DEF Alarm!Stops
<1> QED
  BY <1>4 DEF Alarm!Next

-----------------------------------------------------------------------------
\* A timer that stays in its list, while no time passes and the lists keep their round.
LEMMA ListDueStays ==
    ASSUME NEW t, tick' = tick, ListsAreOld' <=> ListsAreOld,
           Contains(current', t) <=> Contains(current, t),
           Contains(overflow', t) <=> Contains(overflow, t),
           InList(t) => expiry'[t] = expiry[t]
    PROVE  /\ InList(t)' <=> InList(t)
           /\ InList(t) => DueInList(t)' = DueInList(t)
<1>1. InList(t)' <=> InList(t)
  BY DEF InList
<1>2. CurrentTime' = CurrentTime
  BY DEF CurrentTime
<1>3. InList(t) => DueInList(t)' = DueInList(t)
  BY <1>2 DEF DueInList, InList
<1> QED
  BY <1>1, <1>3

\* A timer taken out of the lists, and the others.
LEMMA TakeOutLeaves ==
    ASSUME TimersSound(current, overflow, expiry), NEW t \in Timers, TakeOut(t)
    PROVE  /\ ~ InList(t)'
           /\ \A u \in Timers \ {t} : Contains(current', u) <=> Contains(current, u)
           /\ \A u \in Timers \ {t} : Contains(overflow', u) <=> Contains(overflow, u)
           /\ \A u \in Timers \ {t} : expiry'[u] = expiry[u]
<1>1. /\ TimersSound(current', overflow', expiry')
      /\ Range(current') = Range(current) \ {t} /\ Range(overflow') = Range(overflow) \ {t}
      /\ \A u \in Timers : u /= t => expiry'[u] = expiry[u]
  BY TakeOutIs
<1>2. /\ \A u : Contains(current, u) <=> u \in Range(current)
      /\ \A u : Contains(overflow, u) <=> u \in Range(overflow)
      /\ \A u : Contains(current', u) <=> u \in Range(current')
      /\ \A u : Contains(overflow', u) <=> u \in Range(overflow')
  BY <1>1, NoMembers DEF TimersSound, Listed
<1> QED
  BY <1>1, <1>2 DEF InList

\* Where the timer task restarts no timer.
LEMMA NotRestarting ==
    ASSUME NEW t, daemon.place /= "start_now", daemon.message.id /= "reload"
    PROVE  ~ Restarting(t)
  BY DEF Restarting, InHand

LEMMA NotRestartingThen ==
    ASSUME NEW t, daemon'.place /= "start_now", daemon'.message = NoMessage
    PROVE  ~ Restarting(t)' /\ InHand' = NoMessage
  BY DEF Restarting, NoMessage, InHand

\* The timer task goes on with nothing in hand.
LEMMA DaemonGoesOn ==
    ASSUME UNCHANGED <<tick, timerLists, period, commands, asked>>, ListsAreOld' <=> ListsAreOld,
           daemon.place /= "start_now", daemon.message.id /= "reload",
           daemon'.place /= "start_now", daemon'.message = NoMessage
    PROVE  Alarm!Next
<1>1. ASSUME NEW t \in Timers PROVE Left(t)
  <2>1. ~ Restarting(t) /\ ~ Restarting(t)' /\ InHand' = NoMessage
    BY NotRestarting, NotRestartingThen
  <2>2. (InList(t)' <=> InList(t)) /\ (InList(t) => DueInList(t)' = DueInList(t))
    BY ListDueStays DEF timerLists
  <2>3. DueIn(t)' = DueIn(t)
    BY <2>1, <2>2, DueStays
  <2>4. Commanded(t)' => Commanded(t)
    BY <2>1, <2>2, UnderWay
  <2> QED
    BY <2>3, <2>4 DEF Left
<1> QED
  BY <1>1, AlarmSettles

\* Nothing in hand is no restart.
LEMMA NothingIsNoRestart == NoMessage.id /= "reload"
  BY DEF NoMessage

LEMMA ProcessAlarm ==
    ASSUME AlarmInv, ProcessSwitches \/ ProcessFindsExpired \/ ProcessWaits \/ NoMoreCommands
    PROVE  Alarm!Next
<1>1. /\ daemon.place /= "start_now" /\ daemon.message = NoMessage
      /\ tick \in Nat /\ last \in Nat
  BY TickCountAssumption DEF AlarmInv, TimersInv, DaemonSound, ClockSound, Ticks, ProcessSwitches,
     ProcessFindsExpired, ProcessWaits, NoMoreCommands
<1>2. UNCHANGED <<tick, timerLists, period, commands, asked>>
  BY DEF ProcessSwitches, ProcessFindsExpired, ProcessWaits, NoMoreCommands
<1>3. daemon'.place /= "start_now" /\ daemon'.message = NoMessage
  <2>1. CASE ProcessSwitches
    BY <2>1 DEF ProcessSwitches, DaemonAt
  <2>2. CASE ProcessFindsExpired
    BY <2>2 DEF ProcessFindsExpired, DaemonAt
  <2>3. CASE ProcessWaits
    BY <2>3 DEF ProcessWaits, DaemonAt
  <2>4. CASE NoMoreCommands
    BY <2>4 DEF NoMoreCommands, DaemonAt
  <2> QED
    BY <2>1, <2>2, <2>3, <2>4
<1>4. ListsAreOld' <=> ListsAreOld
  <2>1. CASE ProcessSwitches
    BY <1>1, <2>1 DEF ProcessSwitches, ListsAreOld, DaemonAt
  <2>2. CASE ProcessFindsExpired
    BY <1>1, <2>2 DEF ProcessFindsExpired, ListsAreOld, DaemonAt
  <2>3. CASE ProcessWaits
    BY <1>1, <2>3 DEF ProcessWaits, ListsAreOld, DaemonAt
  <2>4. CASE NoMoreCommands
    BY <2>4 DEF NoMoreCommands, ListsAreOld, DaemonAt
  <2> QED
    BY <2>1, <2>2, <2>3, <2>4
<1> QED
  BY <1>1, <1>2, <1>3, <1>4, NothingIsNoRestart, DaemonGoesOn

LEMMA StopAlarm ==
    ASSUME AlarmInv, ExecutesStop
    PROVE  Alarm!Next
<1>1. /\ daemon.place = "execute" /\ daemon.message.id = "stop" /\ daemon' = DaemonAt("commands")
      /\ UNCHANGED <<tick, last, timerLists, period, commands, asked>>
  BY DEF ExecutesStop, InHand
<1>2. ListsAreOld' <=> ListsAreOld
  BY <1>1 DEF ListsAreOld, DaemonAt
<1> QED
  BY <1>1, <1>2, DaemonGoesOn DEF DaemonAt

\* The lists are exchanged, and what they say of the timers is the same.
LEMMA SwitchAlarm ==
    ASSUME AlarmInv, SwitchTimerLists
    PROVE  Alarm!Next
<1>1. /\ daemon.place = "switching" /\ current = <<>> /\ current' = overflow /\ overflow' = <<>>
      /\ UNCHANGED <<tick, last, expiry, period, commands, asked>>
      /\ daemon' = IF daemon.message = NoMessage THEN DaemonAt("commands")
                   ELSE [daemon EXCEPT !.place = "execute"]
  BY DEF SwitchTimerLists
<1>2. /\ daemon'.message = daemon.message /\ daemon'.place \in {"commands", "execute"}
  <2>1. daemon \in [place : DaemonPlaces, message : Messages \cup {NoMessage},
                    expire : Ticks, now : Ticks]
    BY DEF AlarmInv, TimersInv, DaemonSound
  <2> QED
    BY <1>1, <2>1 DEF DaemonAt
<1>3. /\ current \in Seq(Timers) /\ overflow \in Seq(Timers) /\ current' \in Seq(Timers)
      /\ overflow' \in Seq(Timers)
  BY <1>1 DEF AlarmInv, TimersInv, TimersSound, Listed
<1>4. /\ \A t : ~ Contains(current, t) /\ ~ Contains(overflow', t)
      /\ \A t : Contains(overflow, t) => t \in Range(overflow)
  <2>1. \A t : (Contains(current, t) <=> t \in Range(current))
               /\ (Contains(overflow', t) <=> t \in Range(overflow'))
               /\ (Contains(overflow, t) <=> t \in Range(overflow))
    BY <1>3, NoMembers
  <2>2. Range(current) = {} /\ Range(overflow') = {}
    BY <1>1, <1>3, NoMembers
  <2> QED
    BY <2>1, <2>2
<1>5. ASSUME NEW t \in Timers PROVE Left(t)
  <2>1. (Restarting(t)' <=> Restarting(t)) /\ InHand' = InHand
    BY <1>1, <1>2 DEF Restarting, InHand
  <2>2. InList(t)' <=> InList(t)
    BY <1>1, <1>4 DEF InList
  <2>3. ASSUME InList(t) PROVE DueInList(t)' = DueInList(t)
    <3>1. Contains(overflow, t) /\ Contains(current', t) /\ t \in Range(overflow)
      BY <1>1, <1>4, <2>3 DEF InList
    <3>2. last <= tick
      BY <1>1, <3>1 DEF AlarmInv, TimesInv, RoundsOK
    <3>3. /\ tick \in Nat /\ last \in Nat /\ expiry[t] \in Nat /\ MaxDelay \in Nat
      BY TickCountAssumption DEF AlarmInv, TimersInv, ClockSound, TimersSound, Ticks
    <3>4. DueInList(t) = expiry[t] + Round - (tick + Round)
      BY <1>1, <1>4 DEF DueInList, CurrentTime, ListsAreOld
    <3>5. ~ ListsAreOld'
      BY <1>1, <1>2, <3>2, <3>3 DEF ListsAreOld
    <3>6. DueInList(t)' = expiry[t] - tick
      BY <1>1, <3>1, <3>5 DEF DueInList, CurrentTime
    <3> QED
      BY <3>3, <3>4, <3>6 DEF Round
  <2>4. DueIn(t)' = DueIn(t)
    BY <1>1, <2>1, <2>2, <2>3, DueStays
  <2>5. Commanded(t)' => Commanded(t)
    BY <1>1, <2>1, <2>2, UnderWay
  <2> QED
    BY <2>4, <2>5 DEF Left
<1> QED
  BY <1>1, <1>5, AlarmSettles

-----------------------------------------------------------------------------
\* A task commands a timer.
LEMMA AsksAlarm ==
    ASSUME AlarmInv, Asks
    PROVE  Alarm!Next
<1>1. /\ asked = NoMessage /\ UNCHANGED <<tick, last, timerLists, period, commands, daemon>>
      /\ ListsAreOld' <=> ListsAreOld
  BY DEF Asks, ListsAreOld
<1>2. PICK t \in Timers : asked'.timer = t /\ asked'.id \in {"start", "stop", "period"}
  BY DEF Asks
<1>3. asked' /= NoMessage
  BY <1>2 DEF NoMessage
<1>4. ASSUME NEW u \in Timers
      PROVE  /\ DueIn(u)' = DueIn(u)
             /\ (Restarting(u)' <=> Restarting(u)) /\ (InList(u)' <=> InList(u)) /\ InHand' = InHand
  <2>1. (Restarting(u)' <=> Restarting(u)) /\ InHand' = InHand
    BY <1>1 DEF Restarting, InHand
  <2>2. (InList(u)' <=> InList(u)) /\ (InList(u) => DueInList(u)' = DueInList(u))
    BY <1>1, ListDueStays DEF timerLists
  <2> QED
    BY <1>1, <2>1, <2>2, DueStays
<1>5. Commanded(t)'
  BY <1>2, <1>3, UnderWay
<1>6. ASSUME NEW u \in Timers \ {t} PROVE Commanded(u)' <=> Commanded(u)
  BY <1>1, <1>2, <1>4, <1>6, UnderWay
<1> QED
  BY <1>1, <1>4, <1>5, <1>6, AlarmCommands

\* A command is sent: it is under way, as it was.
LEMMA SendsAlarm ==
    ASSUME AlarmInv, Sends
    PROVE  Alarm!Next
<1>1. /\ asked /= NoMessage /\ commands' = Append(commands, asked) /\ asked' = NoMessage
      /\ daemon' = Woken(daemon) /\ UNCHANGED <<tick, last, timerLists, period>>
  BY DEF Sends
<1>2. /\ commands \in Seq(Messages) /\ asked \in Messages /\ asked.id /= "reload"
      /\ daemon.place = "waiting" => daemon.message = NoMessage
  BY <1>1 DEF AlarmInv, TimersInv, CommandsSound, CommandOK, DaemonSound, AsksNoRestart
<1>3. /\ daemon'.message = daemon.message
      /\ daemon'.place = daemon.place \/ {daemon.place, daemon'.place} = {"waiting", "commands"}
  BY <1>1, <1>2 DEF Woken, DaemonAt
<1>4. ListsAreOld' <=> ListsAreOld
  BY <1>1, <1>3 DEF ListsAreOld
<1>5. ASSUME NEW t \in Timers PROVE Left(t)
  <2>1. (Restarting(t)' <=> Restarting(t)) /\ InHand' = InHand
    BY <1>3 DEF Restarting, InHand
  <2>2. (InList(t)' <=> InList(t)) /\ (InList(t) => DueInList(t)' = DueInList(t))
    BY <1>1, <1>4, ListDueStays DEF timerLists
  <2>3. /\ RestartsOf(commands', t) = RestartsOf(commands, t)
        /\ RestartsOf(commands, t) /= {} => LastRestart(commands', t) = LastRestart(commands, t)
        /\ Twice(commands', t) => Twice(commands, t)
        /\ AskedOf(commands', t) => AskedOf(commands, t) \/ asked.timer = t
    BY <1>1, <1>2, AppendedRestarts
  <2>4. DueIn(t)' = DueIn(t)
    BY <1>1, <2>1, <2>2, <2>3, DueStays
  <2>5. Commanded(t)' => Commanded(t)
    BY <1>1, <2>1, <2>2, <2>3, UnderWay
  <2> QED
    BY <2>4, <2>5 DEF Left
<1> QED
  BY <1>1, <1>5, AlarmSettles

\* A command is received: a stop or another start ends what the timer did before, unless
\* a restart of it is still to come; and a restart is now in hand.
LEMMA ReceivesAlarm ==
    ASSUME AlarmInv, ReceivesCommand
    PROVE  Alarm!Next
<1> DEFINE h == Head(commands)
<1>1. /\ daemon.place = "commands" /\ commands /= <<>> /\ commands' = Tail(commands)
      /\ TakeOut(h.timer) /\ daemon'.message = h /\ daemon'.place \in {"switching", "execute"}
      /\ daemon'.place = "switching" <=> tick < last
      /\ last' = tick /\ UNCHANGED <<tick, period, asked>>
  BY DEF ReceivesCommand
<1>2. /\ commands \in Seq(Messages) /\ daemon.message = NoMessage /\ tick \in Nat /\ last \in Nat
      /\ TimersSound(current, overflow, expiry)
  BY <1>1, TickCountAssumption
     DEF AlarmInv, TimersInv, CommandsSound, DaemonSound, ClockSound, Ticks
<1>3. h \in Messages
  BY <1>1, <1>2
<1>4. PICK t \in Timers : t = h.timer
  BY <1>3, CommandsAre
<1>5. h = Head(commands) /\ h /= NoMessage
  BY <1>3, CommandsAre
<1> HIDE DEF h
<1>6. ListsAreOld' <=> ListsAreOld
  BY <1>1, <1>2 DEF ListsAreOld
<1>7. /\ ~ InList(t)'
      /\ \A u \in Timers \ {t} : Contains(current', u) <=> Contains(current, u)
      /\ \A u \in Timers \ {t} : Contains(overflow', u) <=> Contains(overflow, u)
      /\ \A u \in Timers \ {t} : expiry'[u] = expiry[u]
  BY <1>1, <1>2, <1>4, TakeOutLeaves
<1>8. \A u : ~ Restarting(u)
  BY <1>1, <1>2, NothingIsNoRestart, NotRestarting
<1>9. \A u : Restarting(u)' <=> h.id = "reload" /\ u = t
  BY <1>1, <1>4 DEF Restarting, InHand
<1>10. ASSUME NEW u
       PROVE  /\ RestartsOf(commands', u) /= {} =>
                    /\ RestartsOf(commands, u) /= {}
                    /\ LastRestart(commands', u) = LastRestart(commands, u)
              /\ RestartsOf(commands', u) = {} /\ RestartsOf(commands, u) /= {} =>
                    h.id = "reload" /\ u = t /\ LastRestart(commands, u) = h.value
              /\ RestartsOf(commands', u) /= {} /\ h.id = "reload" /\ u = t => Twice(commands, u)
              /\ h.id = "reload" /\ u = t => RestartsOf(commands, u) /= {}
              /\ Twice(commands', u) => Twice(commands, u)
              /\ AskedOf(commands', u) => AskedOf(commands, u)
              /\ h.id /= "reload" /\ u = t => AskedOf(commands, u)
  <2> DEFINE c == commands
             d == Tail(commands)
  <2>1. c \in Seq(Messages) /\ c /= <<>> /\ d = Tail(c) /\ d = commands' /\ c = commands
    BY <1>1, <1>2
  <2> HIDE DEF c, d
  <2>2. Head(c) = h /\ h.timer = t
    BY <1>4, <1>5, <2>1
  <2>3. /\ RestartsOf(Tail(c), u) /= {} =>
               RestartsOf(c, u) /= {} /\ LastRestart(Tail(c), u) = LastRestart(c, u)
        /\ RestartsOf(Tail(c), u) = {} /\ RestartsOf(c, u) /= {} =>
               Head(c).id = "reload" /\ Head(c).timer = u /\ LastRestart(c, u) = Head(c).value
        /\ RestartsOf(Tail(c), u) /= {} /\ Head(c).id = "reload" /\ Head(c).timer = u => Twice(c, u)
        /\ Head(c).id = "reload" /\ Head(c).timer = u => RestartsOf(c, u) /= {}
        /\ Twice(Tail(c), u) => Twice(c, u)
        /\ AskedOf(Tail(c), u) => AskedOf(c, u)
        /\ Head(c).id /= "reload" /\ Head(c).timer = u => AskedOf(c, u)
    BY <2>1, TailRestarts
  <2> QED
    BY <2>1, <2>2, <2>3
<1>11. ASSUME NEW u \in Timers PROVE Commanded(u)' => Commanded(u)
  <2>1. CASE u = t
    BY <1>1, <1>7, <1>9, <1>10, <2>1, UnderWay DEF InHand
  <2>2. CASE u /= t
    <3>1. InList(u)' <=> InList(u)
      BY <1>7, <2>2 DEF InList
    <3> QED
      BY <1>1, <1>4, <1>8, <1>9, <1>10, <2>2, <3>1, UnderWay DEF InHand
  <2> QED
    BY <2>1, <2>2
<1>12. OthersLeft(t)
  <2>1. SUFFICES ASSUME NEW u \in Timers \ {t} PROVE DueIn(u)' = DueIn(u)
    BY <1>11 DEF OthersLeft, Left
  <2>2. (InList(u)' <=> InList(u)) /\ (InList(u) => DueInList(u)' = DueInList(u))
    BY <1>1, <1>6, <1>7, ListDueStays
  <2> QED
    BY <1>1, <1>8, <1>9, <1>10, <2>1, <2>2, DueStays
<1>13. CASE RestartsOf(commands', t) /= {}
  <2>1. DueFrom(t, LastRestart(commands, t))' = DueFrom(t, LastRestart(commands, t))
    BY <1>1, <1>10, <1>13 DEF DueFrom
  <2>2. DueIn(t)' = DueIn(t)
    BY <1>10, <1>13, <2>1, DueIs, DueIsThen
  <2> QED
    BY <1>1, <1>11, <1>12, <2>2, AlarmSettles DEF OthersLeft, Left
<1>14. CASE RestartsOf(commands', t) = {} /\ h.id = "reload"
  <2>1. RestartsOf(commands, t) /= {} /\ LastRestart(commands, t) = h.value
    BY <1>10, <1>14
  <2>2. DueFrom(t, InHand.value)' = DueFrom(t, LastRestart(commands, t))
    BY <1>1, <2>1 DEF DueFrom, InHand
  <2>3. DueIn(t)' = DueIn(t)
    BY <1>9, <1>14, <2>1, <2>2, DueIs, DueIsThen
  <2> QED
    BY <1>1, <1>11, <1>12, <2>3, AlarmSettles DEF OthersLeft, Left
<1>15. CASE RestartsOf(commands', t) = {} /\ h.id /= "reload"
  <2>1. DueIn(t)' = <<>>
    BY <1>7, <1>9, <1>15, DueIsThen
  <2>2. Commanded(t)
    BY <1>10, <1>15, UnderWay
  <2> QED
    BY <1>1, <1>12, <2>1, <2>2, AlarmStops
<1> QED
  BY <1>13, <1>14, <1>15

-----------------------------------------------------------------------------
\* The timer task does something to one timer, and sends nothing but a restart of it.
LEMMA OthersStay ==
    ASSUME NEW t \in Timers, UNCHANGED <<tick, asked>>, ListsAreOld' <=> ListsAreOld,
           \A u \in Timers \ {t} : period'[u] = period[u],
           \A u \in Timers \ {t} :
               /\ RestartsOf(commands', u) = RestartsOf(commands, u)
               /\ RestartsOf(commands, u) /= {} =>
                     LastRestart(commands', u) = LastRestart(commands, u)
               /\ Twice(commands', u) => Twice(commands, u)
               /\ AskedOf(commands', u) => AskedOf(commands, u),
           \A u \in Timers \ {t} : Contains(current', u) <=> Contains(current, u),
           \A u \in Timers \ {t} : Contains(overflow', u) <=> Contains(overflow, u),
           \A u \in Timers \ {t} : expiry'[u] = expiry[u],
           \A u \in Timers \ {t} : Restarting(u)' <=> Restarting(u),
           InHand' = InHand \/ (InHand' = NoMessage /\ \A u \in Timers \ {t} : ~ Restarting(u))
    PROVE  OthersLeft(t)
<1>1. SUFFICES ASSUME NEW u \in Timers \ {t} PROVE Left(u)
  BY DEF OthersLeft
<1>2. (InList(u)' <=> InList(u)) /\ (InList(u) => DueInList(u)' = DueInList(u))
  BY ListDueStays
<1>3. DueIn(u)' = DueIn(u)
  BY <1>2, DueStays
<1>4. Commanded(u)' => Commanded(u)
  BY <1>2, UnderWay
<1> QED
  BY <1>3, <1>4 DEF Left

LEMMA QueueStays ==
    ASSUME commands' = commands
    PROVE  \A u : /\ RestartsOf(commands', u) = RestartsOf(commands, u)
                  /\ LastRestart(commands', u) = LastRestart(commands, u)
                  /\ Twice(commands', u) <=> Twice(commands, u)
                  /\ AskedOf(commands', u) <=> AskedOf(commands, u)
  OBVIOUS

LEMMA ReloadSent ==
    ASSUME CommandsSound, NEW t \in Timers, NEW value \in Ticks, commands' = WithReload(t, value)
    PROVE  /\ \A u \in Timers \ {t} :
                 /\ RestartsOf(commands', u) = RestartsOf(commands, u)
                 /\ RestartsOf(commands, u) /= {} =>
                       LastRestart(commands', u) = LastRestart(commands, u)
                 /\ Twice(commands', u) => Twice(commands, u)
                 /\ AskedOf(commands', u) => AskedOf(commands, u)
           /\ \/ commands' = commands
              \/ /\ RestartsOf(commands', t) /= {} /\ LastRestart(commands', t) = value
                 /\ Twice(commands', t) => RestartsOf(commands, t) /= {}
                 /\ AskedOf(commands', t) => AskedOf(commands, t)
<1> DEFINE m == [id |-> "reload", timer |-> t, value |-> value]
<1>1. m \in Messages /\ m.id = "reload" /\ m.timer = t /\ m.value = value
  BY CommandsAre DEF CommandIds
<1>2. WithReload(t, value) = IF Len(commands) < TimerQueueLength THEN Append(commands, m)
                             ELSE commands
  BY DEF WithReload
<1> HIDE DEF m
<1>3. commands \in Seq(Messages)
  BY DEF CommandsSound
<1>4. CASE commands' = Append(commands, m)
  <2>1. \A u \in Timers \ {t} :
                 /\ RestartsOf(commands', u) = RestartsOf(commands, u)
                 /\ RestartsOf(commands, u) /= {} =>
                       LastRestart(commands', u) = LastRestart(commands, u)
                 /\ Twice(commands', u) => Twice(commands, u)
                 /\ AskedOf(commands', u) => AskedOf(commands, u)
    BY <1>1, <1>3, <1>4, AppendedRestarts
  <2>2. /\ RestartsOf(commands', t) /= {} /\ LastRestart(commands', t) = value
        /\ Twice(commands', t) => RestartsOf(commands, t) /= {}
        /\ AskedOf(commands', t) => AskedOf(commands, t)
    BY <1>1, <1>3, <1>4, AppendedRestarts
  <2> QED
    BY <2>1, <2>2
<1>5. CASE commands' = commands
  BY <1>5, QueueStays
<1> QED
  BY <1>2, <1>4, <1>5

\* The age of a fresh time, as the alarm has it.
LEMMA FreshAge ==
    ASSUME TimersInv, NEW time \in Ticks, Fresh(time)
    PROVE  Elapsed(time, tick) \in 0..MaxLate /\ Elapsed(time, tick) \in Nat
<1>1. Elapsed(time, tick) \in Ticks /\ late \in 0..MaxLate /\ Elapsed(time, tick) <= late
  BY LaterTyped DEF TimersInv, ClockSound, Fresh
<1> QED
  BY <1>1, TickCountAssumption, SoftwareTimersAssumption DEF Ticks

\* A timer has called back and is in no list: it restarts or stops, unless a restart of
\* it is in the queue already.
LEMMA Ended ==
    ASSUME AlarmInv, NEW t \in Timers, NEW time \in Ticks, Fresh(time), OthersLeft(t),
           UNCHANGED <<tick, period, asked>>, InHand' = InHand \/ InHand' = NoMessage,
           Restarting(t) \/ InList(t), ~ Restarting(t)', ~ InList(t)',
           NEW d, RestartsOf(commands, t) = {} => DueIn(t) = <<d>>, d <= 0,
           \/ commands' = commands
           \/ /\ t \in AutoReload /\ commands' = WithReload(t, time)
              /\ DueFrom(t, time) = d + period[t]
    PROVE  Alarm!Next
<1>1. CASE commands' = commands
  <2>1. Commanded(t)' => Commanded(t)
    BY <1>1, QueueStays, UnderWay
  <2>2. CASE RestartsOf(commands, t) = {}
    <3>1. DueIn(t)' = <<>>
      BY <1>1, <2>2, QueueStays, DueIsThen
    <3> QED
      BY <2>1, <2>2, <3>1, AlarmCalls
  <2>3. CASE RestartsOf(commands, t) /= {}
    <3>1. DueFrom(t, LastRestart(commands, t))' = DueFrom(t, LastRestart(commands, t))
      BY <1>1 DEF DueFrom, LastRestart, RestartsOf
    <3>2. DueIn(t)' = DueIn(t)
      BY <1>1, <2>3, <3>1, QueueStays, DueIs, DueIsThen
    <3> QED
      BY <2>1, <3>2, AlarmSettles DEF OthersLeft, Left
  <2> QED
    BY <2>2, <2>3
<1>2. CASE commands' /= commands
  <2>1. /\ t \in AutoReload /\ DueFrom(t, time) = d + period[t]
        /\ RestartsOf(commands', t) /= {} /\ LastRestart(commands', t) = time
        /\ Twice(commands', t) => RestartsOf(commands, t) /= {}
        /\ AskedOf(commands', t) => AskedOf(commands, t)
    BY <1>2, ReloadSent DEF AlarmInv, TimersInv
  <2>2. DueFrom(t, LastRestart(commands, t))' = DueFrom(t, time)
    BY <2>1 DEF DueFrom, LastRestart, RestartsOf
  <2>3. DueIn(t)' = <<DueFrom(t, time)>>
    BY <2>1, <2>2, DueIsThen
  <2>4. Commanded(t)' => Commanded(t)
    BY <2>1, UnderWay
  <2>5. CASE RestartsOf(commands, t) = {}
    BY <2>1, <2>3, <2>4, <2>5, AlarmCalls
  <2>6. CASE RestartsOf(commands, t) /= {}
    <3>1. Commanded(t)
      BY <2>6, UnderWay
    <3>2. Elapsed(time, tick) \in 0..MaxLate
      BY FreshAge DEF AlarmInv
    <3>3. DueIn(t)' = <<period'[t] - Elapsed(time, tick)>>
      BY <2>3 DEF DueFrom
    <3>4. period' = [period EXCEPT ![t] = period'[t]]
      BY DEF AlarmInv, TimersInv, ClockSound
    <3> QED
      BY <3>1, <3>2, <3>3, <3>4, AlarmStarts
  <2> QED
    BY <2>5, <2>6
<1> QED
  BY <1>1, <1>2

\* A timer has called back and is in a list again, due a period later.
LEMMA Reloads ==
    ASSUME AlarmInv, NEW t \in AutoReload, t \in Timers, OthersLeft(t),
           UNCHANGED <<tick, period, asked, commands>>, InHand' = InHand \/ InHand' = NoMessage,
           InList(t), InList(t)', ~ Restarting(t), ~ Restarting(t)',
           DueInList(t) <= 0, DueInList(t)' = DueInList(t) + period[t]
    PROVE  Alarm!Next
<1>1. Commanded(t)' => Commanded(t)
  BY QueueStays, UnderWay
<1>2. CASE RestartsOf(commands, t) = {}
  <2>1. DueIn(t) = <<DueInList(t)>> /\ DueIn(t)' = <<DueInList(t) + period[t]>>
    BY <1>2, QueueStays, DueIs, DueIsThen
  <2> QED
    BY <1>1, <2>1, AlarmCalls
<1>3. CASE RestartsOf(commands, t) /= {}
  <2>1. DueFrom(t, LastRestart(commands, t))' = DueFrom(t, LastRestart(commands, t))
    BY DEF DueFrom, LastRestart, RestartsOf
  <2>2. DueIn(t)' = DueIn(t)
    BY <1>3, <2>1, QueueStays, DueIs, DueIsThen
  <2> QED
    BY <1>1, <2>2, AlarmSettles DEF OthersLeft, Left
<1> QED
  BY <1>2, <1>3

-----------------------------------------------------------------------------
\* The timer found expired
LEMMA ExpiresAlarm ==
    ASSUME AlarmInv, Punctual, ProcessExpiredTimer
    PROVE  Alarm!Next
<1>1. PICK t : t = Head(current)
  OBVIOUS
<1>2. TimersInv /\ TimesInv
  BY DEF AlarmInv
<1> DEFINE time == daemon.expire
<1>3. /\ t \in Timers /\ t \in Range(current) /\ t \notin Range(overflow)
      /\ time = expiry[t] /\ time \in Ticks
      /\ Fresh(time) /\ Fresh(last) /\ daemon.now = last
      /\ Elapsed(last, tick) <= Elapsed(time, tick)
  BY <1>1, <1>2, ExpiredIs
<1>4. \/ t \notin AutoReload /\ TakeOut(t) /\ UNCHANGED commands
      \/ t \in AutoReload /\ TakeOut(t) /\ commands' = WithReload(t, time)
      \/ /\ t \in AutoReload /\ UNCHANGED commands
         /\ Elapsed(time, last) < period[t]
         /\ InsertTimer(t, Later(time, period[t]), last)
  BY <1>1, <1>2, ExpiredIs
<1>5. DueInList(t) = 0 - Elapsed(time, tick) /\ Elapsed(time, tick) \in Nat
  BY <1>1, <1>2, ExpiredIsDue
<1> HIDE DEF time
<1>6. /\ daemon.place = "expired" /\ daemon.message = NoMessage
      /\ daemon'.place = "commands" /\ daemon'.message = NoMessage
      /\ UNCHANGED <<tick, last, period, asked, late>>
  BY <1>2 DEF ProcessExpiredTimer, DaemonAt, TimersInv, DaemonSound
<1>7. (\A u : ~ Restarting(u) /\ ~ Restarting(u)') /\ InHand' = NoMessage
  BY <1>6, NothingIsNoRestart, NotRestarting, NotRestartingThen
<1>8. ListsAreOld' <=> ListsAreOld
  BY <1>6 DEF ListsAreOld
<1>9. /\ TimersSound(current, overflow, expiry) /\ CommandsSound
      /\ period[t] \in Periods /\ period[t] \in Nat
  <2>1. period[t] \in Periods /\ period[t] \in Ticks
    BY <1>2, <1>3, LateIs DEF TimersInv
  <2> QED
    BY <1>2, <2>1, TickCountAssumption DEF TimersInv, Ticks
<1>10. InList(t)
  BY <1>3, <1>9, NoMembers DEF InList, TimersSound, Listed
<1>11. CASE TakeOut(t) /\ (UNCHANGED commands \/ (t \in AutoReload /\ commands' = WithReload(t, time)))
  <2>1. /\ ~ InList(t)'
        /\ \A u \in Timers \ {t} : Contains(current', u) <=> Contains(current, u)
        /\ \A u \in Timers \ {t} : Contains(overflow', u) <=> Contains(overflow, u)
        /\ \A u \in Timers \ {t} : expiry'[u] = expiry[u]
    BY <1>3, <1>9, <1>11, TakeOutLeaves
  <2>2. \A u \in Timers \ {t} :
            /\ RestartsOf(commands', u) = RestartsOf(commands, u)
            /\ RestartsOf(commands, u) /= {} =>
                  LastRestart(commands', u) = LastRestart(commands, u)
            /\ Twice(commands', u) => Twice(commands, u)
            /\ AskedOf(commands', u) => AskedOf(commands, u)
    BY <1>3, <1>9, <1>11, QueueStays, ReloadSent
  <2>3. OthersLeft(t)
    BY <1>3, <1>6, <1>7, <1>8, <2>1, <2>2, OthersStay
  <2>4. RestartsOf(commands, t) = {} => DueIn(t) = <<DueInList(t)>>
    BY <1>7, <1>10, DueIs
  <2>5. DueInList(t) <= 0 /\ DueFrom(t, time) = DueInList(t) + period[t]
    BY <1>5, <1>9 DEF DueFrom
  <2> QED
    BY <1>3, <1>6, <1>7, <1>10, <1>11, <2>1, <2>3, <2>4, <2>5, Ended
<1>12. CASE /\ t \in AutoReload /\ UNCHANGED commands
            /\ Elapsed(time, last) < period[t]
            /\ InsertTimer(t, Later(time, period[t]), last)
  <2>1. RoundsOK /\ daemon.place /= "switching" /\ daemon'.place /= "switching"
    BY <1>2, <1>6 DEF TimesInv
  <2>2. /\ DueInList(t)' = period[t] - Elapsed(time, tick)
        /\ \A u \in Timers \ {t} : Contains(current', u) <=> Contains(current, u)
        /\ \A u \in Timers \ {t} : Contains(overflow', u) <=> Contains(overflow, u)
        /\ \A u \in Timers \ {t} : expiry'[u] = expiry[u]
        /\ t \in Range(current') \cup Range(overflow')
    BY <1>2, <1>3, <1>6, <1>9, <1>12, <2>1, InsertedInRound
  <2>3. InList(t)'
    <3>1. TimersSound(current', overflow', expiry')
      BY <1>2, ExpiresKeeps DEF TimersInv
    <3> QED
      BY <2>2, <3>1, NoMembers DEF InList, TimersSound, Listed
  <2>4. OthersLeft(t)
    BY <1>3, <1>6, <1>7, <1>8, <1>12, <2>2, QueueStays, OthersStay
  <2>5. DueInList(t) <= 0 /\ DueInList(t)' = DueInList(t) + period[t]
    BY <1>5, <1>9, <2>2
  <2> QED
    BY <1>3, <1>6, <1>7, <1>10, <1>12, <2>3, <2>4, <2>5, Reloads
<1> QED
  BY <1>4, <1>11, <1>12

\* A timer left in the current list when the lists are switched
LEMMA SwitchExpiresAlarm ==
    ASSUME AlarmInv, Punctual, SwitchExpires
    PROVE  Alarm!Next
<1>1. PICK t : t = Head(current)
  OBVIOUS
<1>2. TimersInv /\ TimesInv
  BY DEF AlarmInv
<1> DEFINE time == expiry[t]
           reload == Later(time, period[t])
<1>3. /\ t \in Timers /\ t \in Range(current) /\ t \notin Range(overflow)
      /\ time \in Ticks /\ Fresh(time) /\ ListsAreOld /\ daemon.place = "switching"
  BY <1>1, <1>2, LeftIsDue
<1>4. DueInList(t) = 0 - Elapsed(time, tick) /\ Elapsed(time, tick) \in Nat
  BY <1>1, <1>2, LeftWasDue
<1>5. /\ UNCHANGED <<tick, last, period, asked, daemon, late>>
      /\ \/ /\ t \in AutoReload /\ reload > time /\ Reinserts(t, reload) /\ UNCHANGED commands
         \/ /\ TakeOut(t)
            /\ UNCHANGED commands \/ (t \in AutoReload /\ commands' = WithReload(t, time))
  BY <1>1 DEF SwitchExpires, Reinserts
<1>6. /\ TimersSound(current, overflow, expiry) /\ CommandsSound
      /\ period[t] \in Periods /\ period[t] \in Ticks /\ period[t] \in Nat /\ period[t] <= MaxDelay
  <2>1. period[t] \in Periods /\ period[t] \in Ticks
    BY <1>2, <1>3, LateIs DEF TimersInv
  <2> QED
    BY <1>2, <2>1, TickCountAssumption DEF TimersInv, Ticks
<1>7. reload \in Ticks
  BY <1>3, <1>6, LaterTyped
<1>8. ~ Restarting(t) /\ ~ Restarting(t)' /\ InHand' = InHand
      /\ \A u : Restarting(u)' <=> Restarting(u)
  <2>1. ~ Restarting(t)
    <3>1. daemon.message /= NoMessage => daemon.message.timer /= t
      BY <1>2, <1>3 DEF TimersInv, DaemonSound
    <3> QED
      BY <1>3, <3>1, NothingIsNoRestart DEF Restarting, InHand
  <2> QED
    BY <1>5, <2>1 DEF Restarting, InHand
<1>9. InList(t) /\ Contains(current, t)
  BY <1>3, <1>6, NoMembers DEF InList, TimersSound, Listed
<1>10. ListsAreOld' /\ (ListsAreOld' <=> ListsAreOld)
  BY <1>3, <1>5 DEF ListsAreOld
<1>11. CASE TakeOut(t) /\ (UNCHANGED commands \/ (t \in AutoReload /\ commands' = WithReload(t, time)))
  <2> HIDE DEF time
  <2>1. /\ ~ InList(t)'
        /\ \A u \in Timers \ {t} : Contains(current', u) <=> Contains(current, u)
        /\ \A u \in Timers \ {t} : Contains(overflow', u) <=> Contains(overflow, u)
        /\ \A u \in Timers \ {t} : expiry'[u] = expiry[u]
    BY <1>3, <1>6, <1>11, TakeOutLeaves
  <2>2. \A u \in Timers \ {t} :
            /\ RestartsOf(commands', u) = RestartsOf(commands, u)
            /\ RestartsOf(commands, u) /= {} =>
                  LastRestart(commands', u) = LastRestart(commands, u)
            /\ Twice(commands', u) => Twice(commands, u)
            /\ AskedOf(commands', u) => AskedOf(commands, u)
    BY <1>3, <1>6, <1>11, QueueStays, ReloadSent
  <2>3. OthersLeft(t)
    BY <1>3, <1>5, <1>8, <1>10, <2>1, <2>2, OthersStay
  <2>4. RestartsOf(commands, t) = {} => DueIn(t) = <<DueInList(t)>>
    BY <1>8, <1>9, DueIs
  <2>5. DueInList(t) <= 0 /\ DueFrom(t, time) = DueInList(t) + period[t]
    BY <1>4, <1>6 DEF DueFrom
  <2> QED
    BY <1>3, <1>5, <1>8, <1>9, <1>11, <2>1, <2>3, <2>4, <2>5, Ended
<1>12. CASE t \in AutoReload /\ reload > time /\ Reinserts(t, reload) /\ UNCHANGED commands
  <2> HIDE DEF reload
  <2>1. /\ TimersSound(current', overflow', expiry')
        /\ Range(current') = Range(current) /\ Range(overflow') = Range(overflow)
        /\ expiry'[t] = reload /\ \A u \in Timers : u /= t => expiry'[u] = expiry[u]
    BY <1>3, <1>6, <1>7, <1>12, ReinsertedIs
  <2>2. /\ \A u : Contains(current', u) <=> Contains(current, u)
        /\ \A u : Contains(overflow', u) <=> Contains(overflow, u)
    BY <1>6, <2>1, NoMembers DEF TimersSound, Listed
  <2>3. OthersLeft(t)
    <3>1. \A u \in Timers \ {t} : expiry'[u] = expiry[u]
      BY <2>1
    <3> QED
      BY <1>3, <1>5, <1>8, <1>10, <1>12, <2>2, <3>1, QueueStays, OthersStay
  <2>4. InList(t)'
    BY <1>9, <2>2 DEF InList
  <2>5. DueInList(t) <= 0
    BY <1>4
  <2>6. DueInList(t)' = DueInList(t) + period[t]
    <3>1. tick \in Nat /\ time \in Nat /\ MaxDelay \in Nat
      BY <1>2, <1>3, TickCountAssumption DEF TimersInv, ClockSound, Ticks
    <3>2. reload = time + period[t]
      BY <1>6, <1>12, <3>1 DEF reload, Later, Round
    <3>3. DueInList(t) = time - (tick + Round)
      BY <1>3, <1>9 DEF DueInList, CurrentTime
    <3>4. DueInList(t)' = reload - (tick + Round)
      BY <1>5, <1>9, <1>10, <2>1, <2>2 DEF DueInList, CurrentTime
    <3> QED
      BY <1>6, <3>1, <3>2, <3>3, <3>4 DEF Round
  <2> QED
    BY <1>3, <1>5, <1>8, <1>9, <1>12, <2>3, <2>4, <2>5, <2>6, Reloads
<1> QED
  BY <1>5, <1>11, <1>12

\* A timer that has expired before its command was executed
LEMMA StartsNowAlarm ==
    ASSUME AlarmInv, Punctual, StartsNow
    PROVE  Alarm!Next
<1>1. PICK t : t = InHand.timer
  OBVIOUS
<1>2. TimersInv /\ TimesInv
  BY DEF AlarmInv
<1> DEFINE next == Later(InHand.value, period[t])
<1>3. /\ t \in Timers /\ t \notin Range(current) /\ t \notin Range(overflow)
      /\ next \in Ticks /\ Fresh(next)
      /\ DueFrom(t, InHand.value) <= 0
      /\ DueFrom(t, next) = DueFrom(t, InHand.value) + period[t]
      /\ t \in AutoReload => commands' = WithReload(t, next)
      /\ t \notin AutoReload => commands' = commands
  BY <1>1, <1>2, NowIsTimed
<1> HIDE DEF next
<1>4. /\ daemon.place = "start_now" /\ daemon'.place = "commands" /\ daemon'.message = NoMessage
      /\ UNCHANGED <<tick, last, timerLists, period, asked, late>>
  BY DEF StartsNow, DaemonAt
<1>5. /\ Restarting(t) /\ (\A u : ~ Restarting(u)') /\ InHand' = NoMessage
      /\ \A u : u /= t => ~ Restarting(u)
  BY <1>1, <1>4, NotRestartingThen DEF Restarting
<1>6. ListsAreOld' <=> ListsAreOld
  BY <1>4 DEF ListsAreOld
<1>7. CommandsSound /\ ~ InList(t)'
  BY <1>2, <1>3, <1>4, NoMembers DEF TimersInv, TimersSound, Listed, InList, timerLists
<1>8. \A u \in Timers \ {t} :
          /\ RestartsOf(commands', u) = RestartsOf(commands, u)
          /\ RestartsOf(commands, u) /= {} =>
                LastRestart(commands', u) = LastRestart(commands, u)
          /\ Twice(commands', u) => Twice(commands, u)
          /\ AskedOf(commands', u) => AskedOf(commands, u)
  BY <1>3, <1>7, QueueStays, ReloadSent
<1>9. OthersLeft(t)
  BY <1>3, <1>4, <1>5, <1>6, <1>8, OthersStay DEF timerLists
<1>10. RestartsOf(commands, t) = {} => DueIn(t) = <<DueFrom(t, InHand.value)>>
  BY <1>5, DueIs
<1> QED
  BY <1>3, <1>4, <1>5, <1>7, <1>9, <1>10, Ended

\* A start of a timer
LEMMA StartAlarm ==
    ASSUME AlarmInv, Punctual, ExecutesStart
    PROVE  Alarm!Next
<1>1. PICK t : t = InHand.timer
  OBVIOUS
<1>2. TimersInv /\ TimesInv
  BY DEF AlarmInv
<1> DEFINE time == InHand.value
<1>3. /\ t \in Timers /\ t \notin Range(current) /\ t \notin Range(overflow)
      /\ period[t] \in Periods /\ time \in Ticks /\ InHand = daemon.message
      /\ Fresh(time) /\ Fresh(last) /\ daemon.now = last
      /\ Elapsed(last, tick) <= Elapsed(time, tick)
  BY <1>1, <1>2, StartIsTimed
<1>4. \/ daemon' = [daemon EXCEPT !.place = "start_now"] /\ UNCHANGED timerLists
      \/ /\ daemon' = DaemonAt("commands") /\ Elapsed(time, last) < period[t]
         /\ InsertTimer(t, Later(time, period[t]), last)
  BY <1>1, <1>2, StartIsTimed
<1>5. time = InHand.value
  OBVIOUS
<1> HIDE DEF time
<1>6. /\ daemon.place = "execute" /\ InHand.id \in {"start", "reload"} /\ InHand /= NoMessage
      /\ UNCHANGED <<tick, last, period, commands, asked, late>>
  BY DEF ExecutesStart, NoMessage
<1>7. /\ TimersSound(current, overflow, expiry)
      /\ daemon \in [place : DaemonPlaces, message : Messages \cup {NoMessage},
                     expire : Ticks, now : Ticks]
  BY <1>2 DEF TimersInv, DaemonSound
<1>8. ~ InList(t)
  BY <1>3, <1>7, NoMembers DEF InList, TimersSound, Listed
<1>9. /\ Restarting(t) <=> InHand.id = "reload"
      /\ \A u : u /= t => ~ Restarting(u)
  BY <1>1, <1>6 DEF Restarting
<1>10. /\ OthersLeft(t)
       /\ RestartsOf(commands, t) = {} => DueIn(t)' = <<DueFrom(t, time)>>
       /\ Commanded(t)' => Commanded(t)
  <2>1. CASE daemon' = [daemon EXCEPT !.place = "start_now"] /\ UNCHANGED timerLists
    <3>1. daemon'.place = "start_now" /\ InHand' = InHand
      BY <1>7, <2>1 DEF InHand
    <3>2. ListsAreOld' <=> ListsAreOld
      BY <1>6, <3>1 DEF ListsAreOld
    <3>3. Restarting(t)' /\ (\A u : u /= t => ~ Restarting(u)') /\ ~ InList(t)'
      BY <1>1, <1>8, <2>1, <3>1 DEF Restarting, InList, timerLists
    <3>4. OthersLeft(t)
      BY <1>3, <1>6, <1>9, <2>1, <3>1, <3>2, <3>3, QueueStays, OthersStay DEF timerLists
    <3>5. DueFrom(t, InHand.value)' = DueFrom(t, time)
      BY <1>5, <1>6, <3>1 DEF DueFrom
    <3>6. RestartsOf(commands, t) = {} => DueIn(t)' = <<DueFrom(t, time)>>
      BY <1>6, <3>3, <3>5, QueueStays, DueIsThen
    <3>7. Commanded(t)' => Commanded(t)
      BY <1>1, <1>6, <1>8, <1>9, <3>1, <3>3, QueueStays, UnderWay
    <3> QED
      BY <3>4, <3>6, <3>7
  <2>2. CASE /\ daemon' = DaemonAt("commands") /\ Elapsed(time, last) < period[t]
             /\ InsertTimer(t, Later(time, period[t]), last)
    <3>1. daemon'.place = "commands" /\ daemon'.message = NoMessage
      BY <2>2 DEF DaemonAt
    <3>2. ListsAreOld' <=> ListsAreOld
      BY <1>6, <3>1 DEF ListsAreOld
    <3>3. RoundsOK /\ daemon.place /= "switching" /\ daemon'.place /= "switching"
      BY <1>2, <1>6, <3>1 DEF TimesInv
    <3>4. /\ DueInList(t)' = period[t] - Elapsed(time, tick)
          /\ \A u \in Timers \ {t} : Contains(current', u) <=> Contains(current, u)
          /\ \A u \in Timers \ {t} : Contains(overflow', u) <=> Contains(overflow, u)
          /\ \A u \in Timers \ {t} : expiry'[u] = expiry[u]
          /\ t \in Range(current') \cup Range(overflow')
      BY <1>2, <1>3, <1>6, <2>2, <3>3, InsertedInRound
    <3>5. InList(t)'
      <4>1. TimersSound(current', overflow', expiry')
        BY <1>2, StartKeeps DEF TimersInv
      <4> QED
        BY <3>4, <4>1, NoMembers DEF InList, TimersSound, Listed
    <3>6. (\A u : ~ Restarting(u)') /\ InHand' = NoMessage
      BY <3>1, NotRestartingThen
    <3>7. OthersLeft(t)
      BY <1>3, <1>6, <1>9, <3>2, <3>4, <3>6, QueueStays, OthersStay
    <3>8. RestartsOf(commands, t) = {} => DueIn(t)' = <<DueFrom(t, time)>>
      BY <1>6, <3>4, <3>5, <3>6, QueueStays, DueIsThen DEF DueFrom
    <3>9. Commanded(t)' => Commanded(t)
      BY <1>1, <1>6, <1>9, <3>6, QueueStays, UnderWay
    <3> QED
      BY <3>7, <3>8, <3>9
  <2> QED
    BY <1>4, <2>1, <2>2
<1>11. CASE RestartsOf(commands, t) /= {}
  <2>1. DueFrom(t, LastRestart(commands, t))' = DueFrom(t, LastRestart(commands, t))
    BY <1>6 DEF DueFrom, LastRestart, RestartsOf
  <2>2. DueIn(t)' = DueIn(t)
    BY <1>6, <1>11, <2>1, QueueStays, DueIs, DueIsThen
  <2> QED
    BY <1>6, <1>10, <2>2, AlarmSettles DEF OthersLeft, Left
<1>12. CASE RestartsOf(commands, t) = {} /\ InHand.id = "reload"
  <2>1. DueIn(t)' = DueIn(t)
    BY <1>5, <1>9, <1>10, <1>12, DueIs
  <2> QED
    BY <1>6, <1>10, <2>1, AlarmSettles DEF OthersLeft, Left
<1>13. CASE RestartsOf(commands, t) = {} /\ InHand.id = "start"
  <2>1. Commanded(t)
    BY <1>1, <1>6, <1>13, UnderWay
  <2>2. Elapsed(time, tick) \in 0..MaxLate
    BY <1>2, <1>3, FreshAge
  <2>3. DueIn(t)' = <<period'[t] - Elapsed(time, tick)>>
    BY <1>6, <1>10, <1>13 DEF DueFrom
  <2>4. period' = [period EXCEPT ![t] = period'[t]] /\ tick' = tick
    BY <1>2, <1>6 DEF TimersInv, ClockSound
  <2> QED
    BY <1>3, <1>10, <2>1, <2>2, <2>3, <2>4, AlarmStarts
<1> QED
  BY <1>6, <1>11, <1>12, <1>13

\* The last restart of a timer in the queue is fresh.
LEMMA RestartIsFresh ==
    ASSUME TimersInv, TimesInv, NEW t, RestartsOf(commands, t) /= {}
    PROVE  LastRestart(commands, t) \in Ticks /\ Fresh(LastRestart(commands, t)) /\ Busy
<1> DEFINE S == RestartsOf(commands, t)
           n == Max(S)
<1>1. commands \in Seq(Messages)
  BY DEF TimersInv, CommandsSound
<1>2. n \in S
  BY <1>1, LastRestartIs
<1>3. LastRestart(commands, t) = commands[n].value
  BY DEF LastRestart
<1> HIDE DEF n
<1>4. n \in DOMAIN commands /\ commands[n].id = "reload"
  BY <1>2 DEF RestartsOf
<1>5. commands[n] \in Messages
  BY <1>1, <1>4
<1>6. Fresh(commands[n].value) /\ commands[n].value \in Ticks /\ Busy
  BY <1>4, <1>5, CommandsAre, BusyIs DEF TimesInv, CommandsFresh, IsStart
<1> QED
  BY <1>3, <1>6

\* A change of the period, which starts the timer too
LEMMA ChangePeriodAlarm ==
    ASSUME AlarmInv, Punctual, ExecutesChangePeriod
    PROVE  Alarm!Next
<1>1. PICK t : t = InHand.timer
  OBVIOUS
<1>2. TimersInv /\ TimesInv
  BY DEF AlarmInv
<1> DEFINE value == InHand.value
<1>3. /\ t \in Timers /\ t \notin Range(current) /\ t \notin Range(overflow)
      /\ value \in Periods /\ Fresh(last) /\ daemon.now = last
      /\ Elapsed(last, last) < value
      /\ period' = [period EXCEPT ![t] = value]
      /\ InsertTimer(t, Later(last, value), last)
  BY <1>1, <1>2, PeriodIsTimed
<1> HIDE DEF value
<1>4. /\ daemon.place = "execute" /\ InHand.id = "period" /\ InHand /= NoMessage
      /\ daemon'.place = "commands" /\ daemon'.message = NoMessage
      /\ UNCHANGED <<tick, last, commands, asked, late>>
  BY DEF ExecutesChangePeriod, NoMessage, DaemonAt
<1>5. /\ period \in [Timers -> Periods] /\ last \in Ticks /\ tick \in Ticks
      /\ TimersSound(current, overflow, expiry) /\ commands \in Seq(Messages)
  BY <1>2 DEF TimersInv, ClockSound, CommandsSound
<1>6. /\ period'[t] = value /\ \A u \in Timers \ {t} : period'[u] = period[u]
      /\ period' = [period EXCEPT ![t] = period'[t]]
  BY <1>3, <1>5
<1>7. (\A u : ~ Restarting(u) /\ ~ Restarting(u)') /\ InHand' = NoMessage
  BY <1>4, NotRestarting, NotRestartingThen DEF InHand
<1>8. ListsAreOld' <=> ListsAreOld
  BY <1>4 DEF ListsAreOld
<1>9. RoundsOK /\ daemon.place /= "switching" /\ daemon'.place /= "switching"
  BY <1>2, <1>4 DEF TimesInv
<1>10. Elapsed(last, tick) <= Elapsed(last, tick)
  <2>1. Elapsed(last, tick) \in Nat
    BY <1>2, <1>3, <1>5, FreshAge
  <2> QED
    BY <2>1
<1>11. /\ DueInList(t)' = value - Elapsed(last, tick)
       /\ \A u \in Timers \ {t} : Contains(current', u) <=> Contains(current, u)
       /\ \A u \in Timers \ {t} : Contains(overflow', u) <=> Contains(overflow, u)
       /\ \A u \in Timers \ {t} : expiry'[u] = expiry[u]
       /\ t \in Range(current') \cup Range(overflow')
  BY <1>2, <1>3, <1>4, <1>5, <1>9, <1>10, InsertedInRound
<1>12. InList(t)'
  <2>1. TimersSound(current', overflow', expiry')
    BY <1>2, ChangePeriodKeeps DEF TimersInv
  <2> QED
    BY <1>11, <2>1, NoMembers DEF InList, TimersSound, Listed
<1>13. OthersLeft(t)
  BY <1>3, <1>4, <1>6, <1>7, <1>8, <1>11, QueueStays, OthersStay
<1>14. Commanded(t)
  BY <1>1, <1>4, UnderWay
<1>15. CASE RestartsOf(commands, t) = {}
  <2>1. DueIn(t)' = <<period'[t] - Elapsed(last, tick)>>
    BY <1>4, <1>6, <1>7, <1>11, <1>12, <1>15, QueueStays, DueIsThen
  <2>2. Elapsed(last, tick) \in 0..MaxLate
    BY <1>2, <1>3, <1>5, FreshAge
  <2> QED
    BY <1>3, <1>4, <1>6, <1>13, <1>14, <2>1, <2>2, AlarmStarts
<1>16. CASE RestartsOf(commands, t) /= {}
  <2> DEFINE time == LastRestart(commands, t)
  <2>1. time \in Ticks /\ Fresh(time)
    BY <1>2, <1>16, RestartIsFresh
  <2>2. DueFrom(t, time)' = period'[t] - Elapsed(time, tick)
    BY <1>4 DEF DueFrom, LastRestart, RestartsOf
  <2>3. DueIn(t)' = <<period'[t] - Elapsed(time, tick)>>
    BY <1>4, <1>16, <2>2, QueueStays, DueIsThen
  <2>4. Elapsed(time, tick) \in 0..MaxLate
    BY <1>2, <2>1, FreshAge
  <2> HIDE DEF time
  <2> QED
    BY <1>3, <1>4, <1>6, <1>13, <1>14, <2>3, <2>4, AlarmStarts
<1> QED
  BY <1>15, <1>16

-----------------------------------------------------------------------------
\* A tick: every timer that runs is due one tick sooner.
LEMMA TickAlarm ==
    ASSUME AlarmInv, Punctual, Tick
    PROVE  Alarm!Next
<1>1. TimersInv /\ TimesInv
  BY DEF AlarmInv
<1>2. /\ UNCHANGED <<last, timerLists, period, commands, asked>> /\ tick' = Later(tick, 1)
      /\ \/ daemon' = daemon
         \/ daemon.place = "waiting" /\ daemon' = DaemonAt("commands")
  BY DEF Tick
<1>3. daemon'.message = daemon.message /\ (daemon'.place = "start_now" <=> daemon.place = "start_now")
  BY <1>1, <1>2 DEF DaemonAt, TimersInv, DaemonSound
<1>4. \A u : /\ Restarting(u)' <=> Restarting(u)
             /\ InList(u)' <=> InList(u)
  BY <1>2, <1>3 DEF Restarting, InHand, InList, timerLists
<1>5. InHand' = InHand
  BY <1>3 DEF InHand
<1>6. ASSUME NEW u \in Timers PROVE Commanded(u)' <=> Commanded(u)
  BY <1>2, <1>4, <1>5, QueueStays, UnderWay
<1>7. /\ period \in [Timers -> Periods] /\ commands \in Seq(Messages)
      /\ current \in Seq(Timers) /\ overflow \in Seq(Timers)
      /\ TimersSound(current, overflow, expiry)
  BY <1>1 DEF TimersInv, ClockSound, CommandsSound, TimersSound, Listed
<1>8. \A u \in Timers : period[u] \in Int
  <2>1. \A u \in Timers : period[u] \in Ticks
    BY <1>7, PeriodsAre
  <2> QED
    BY <2>1, TickCountAssumption DEF Ticks
<1>9. ASSUME NEW u \in Timers, NEW time \in Ticks, Fresh(time), Busy
      PROVE  period'[u] - Elapsed(time, tick') = DueFrom(u, time) - 1
  <2>1. /\ Elapsed(time, tick') = Elapsed(time, tick) + 1 /\ Elapsed(time, tick) \in Nat
    BY <1>1, <1>9, BusyTick
  <2> QED
    BY <1>2, <1>8, <2>1 DEF DueFrom
<1>10. ASSUME NEW u \in Timers
       PROVE  DueIn(u)' = IF DueIn(u) = <<>> THEN <<>> ELSE <<DueIn(u)[1] - 1>>
  <2>1. CASE RestartsOf(commands, u) /= {}
    <3> DEFINE time == LastRestart(commands, u)
    <3>1. time \in Ticks /\ Fresh(time) /\ Busy
      BY <1>1, <2>1, RestartIsFresh
    <3>2. DueFrom(u, time)' = period'[u] - Elapsed(time, tick')
      BY <1>2 DEF DueFrom, LastRestart, RestartsOf
    <3>3. DueIn(u) = <<DueFrom(u, time)>> /\ DueIn(u)' = <<DueFrom(u, time)'>>
      BY <1>2, <2>1, QueueStays, DueIs, DueIsThen
    <3>4. time = LastRestart(commands, u)
      OBVIOUS
    <3> HIDE DEF time
    <3>5. period'[u] - Elapsed(time, tick') = DueFrom(u, time) - 1
      BY <1>9, <3>1
    <3> QED
      BY <3>2, <3>3, <3>5
  <2>2. CASE RestartsOf(commands, u) = {} /\ Restarting(u)
    <3> DEFINE time == InHand.value
    <3>1. time \in Ticks /\ Fresh(time) /\ Busy
      <4>1. IsStart(daemon.message)
        BY <1>1, <2>2 DEF Restarting, InHand, IsStart, TimersInv, DaemonSound
      <4> QED
        BY <1>1, <4>1, BusyIs DEF TimesInv, InHandFresh, InHand
    <3>2. DueFrom(u, time)' = period'[u] - Elapsed(time, tick')
      BY <1>5 DEF DueFrom
    <3>3. DueIn(u) = <<DueFrom(u, time)>> /\ DueIn(u)' = <<DueFrom(u, time)'>>
      BY <1>2, <1>4, <2>2, QueueStays, DueIs, DueIsThen
    <3> HIDE DEF time
    <3>4. period'[u] - Elapsed(time, tick') = DueFrom(u, time) - 1
      BY <1>9, <3>1
    <3> QED
      BY <3>2, <3>3, <3>4
  <2>3. CASE RestartsOf(commands, u) = {} /\ ~ Restarting(u) /\ InList(u)
    <3>1. DueIn(u) = <<DueInList(u)>> /\ DueIn(u)' = <<DueInList(u)'>>
      BY <1>2, <1>4, <2>3, QueueStays, DueIs, DueIsThen
    <3>2. u \in Range(current) \cup Range(overflow)
      BY <1>7, <2>3, NoMembers DEF InList
    <3>3. CurrentTime' = CurrentTime + 1
      BY <1>1, <3>2, TickInRound
    <3>4. CurrentTime \in Int /\ expiry[u] \in Int /\ MaxDelay \in Int
      BY <1>1, <1>7, TickCountAssumption
         DEF CurrentTime, TimersInv, ClockSound, TimersSound, Ticks, Round
    <3>5. DueInList(u)' = DueInList(u) - 1
      BY <1>2, <3>3, <3>4 DEF DueInList, Round, timerLists
    <3> QED
      BY <3>1, <3>5
  <2>4. CASE RestartsOf(commands, u) = {} /\ ~ Restarting(u) /\ ~ InList(u)
    BY <1>2, <1>4, <2>4, QueueStays, DueIs, DueIsThen
  <2> QED
    BY <2>1, <2>2, <2>3, <2>4
<1> DEFINE D == [u \in Timers |-> DueIn(u)]
<1>11. D' = [u \in Timers |-> IF D[u] = <<>> THEN <<>> ELSE <<D[u][1] - 1>>]
  BY <1>10
<1>12. {u \in Timers : Commanded(u)}' = {u \in Timers : Commanded(u)}
  BY <1>6
<1>13. Alarm!Passes
  BY <1>2, <1>11, <1>12 DEF Alarm!Passes, Alarm!Later, Alarm!Round, Later, Round
<1> QED
  BY <1>13 DEF Alarm!Next

-----------------------------------------------------------------------------
LEMMA AlarmStart == TimersInit => Alarm!Init /\ AlarmInv
<1> SUFFICES ASSUME TimersInit PROVE Alarm!Init /\ AlarmInv
  OBVIOUS
<1>1. /\ commands = <<>> /\ current = <<>> /\ overflow = <<>> /\ asked = NoMessage
      /\ daemon.place = "next" /\ daemon.message = NoMessage
  BY DEF TimersInit, DaemonAt
<1>2. ASSUME NEW t \in Timers
      PROVE  DueIn(t) = <<>> /\ ~ Commanded(t)
  <2>1. RestartsOf(commands, t) = {} /\ ~ AskedOf(commands, t) /\ ~ Twice(commands, t)
    BY <1>1 DEF RestartsOf, AskedOf, Twice
  <2>2. ~ Restarting(t)
    BY <1>1, NothingIsNoRestart, NotRestarting
  <2>3. ~ InList(t)
    BY <1>1 DEF InList, Contains
  <2> QED
    BY <1>1, <2>1, <2>2, <2>3, DueIs, UnderWay DEF InHand
<1>3. Alarm!Init
  BY <1>2 DEF Alarm!Init
<1>4. AlarmInv
  BY <1>1, TimersStart, TimesStart, NothingIsNoRestart DEF AlarmInv, AsksNoRestart
<1> QED
  BY <1>3, <1>4

LEMMA AlarmStep ==
    ASSUME AlarmInv, Punctual, [TimersNext]_timersVars
    PROVE  [Alarm!Next]_(Alarm!vars)
<1>1. CASE UNCHANGED timersVars
  BY <1>1 DEF timersVars, Alarm!vars, DueIn, Restarts, Restarting, InList, DueFrom, DueInList,
     CurrentTime, ListsAreOld, Commanded, InHand
<1>2. CASE Asks \/ Sends \/ Tick
  BY <1>2, AsksAlarm, SendsAlarm, TickAlarm
<1>3. CASE DaemonNext
  BY <1>3, ProcessAlarm, ExpiresAlarm, SwitchExpiresAlarm, SwitchAlarm, ReceivesAlarm, StartAlarm,
     StartsNowAlarm, StopAlarm, ChangePeriodAlarm DEF DaemonNext
<1> QED
  BY <1>1, <1>2, <1>3 DEF TimersNext

\* The start of a timer counts from the tick at which a task asked for it, however
\* long the command was on its way, and the callbacks of one that reloads are a
\* period apart, until a task commands it (timers.c:584-694, 696-909): the timers and
\* the timer task implement the alarms.
THEOREM TimersAreAlarms ==
    ASSUME Punctual
    PROVE  TimersSpec => CallsBackInTime
<1>1. TimersInit => Alarm!Init /\ AlarmInv
  BY AlarmStart
<1>2. AlarmInv /\ [TimersNext]_timersVars => AlarmInv' /\ [Alarm!Next]_(Alarm!vars)
  BY AlarmStep, TimersStep, TimesStep, AsksNoRestartStep DEF AlarmInv
<1> QED
  BY <1>1, <1>2, PTL DEF TimersSpec, CallsBackInTime, Alarm!Spec
=============================================================================
