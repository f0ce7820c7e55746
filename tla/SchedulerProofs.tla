--------------------------- MODULE SchedulerProofs ---------------------------
(***************************************************************************)
(* What the functions of tasks.c that move a task between the lists of the *)
(* kernel return and preserve: the soundness of the lists, the record of   *)
(* the highest ready priority, the order of the delays.  For any tasks,    *)
(* priorities and width of the tick count.                                 *)
(***************************************************************************)
EXTENDS Scheduler, ListProofs, FiniteSetTheorems

\* The event lists hold tasks of W, none of them twice and none in two of them.
EventsOK(W, waiting, pending) ==
    /\ Listed(pending, Tasks)
    /\ \A o \in Objects :
          /\ Listed(waiting[o], Tasks)
          /\ \A t \in Range(waiting[o]) :
                /\ t \in W /\ t \notin Range(pending)
                /\ \A p \in Objects : p /= o => t \notin Range(waiting[p])

\* The lists of the kernel are rings of tasks, none of them twice.
ListsOK(W, k) ==
    /\ \A p \in Priorities : RingOf(k.ready[p], Tasks)
    /\ Listed(k.delayed, Tasks) /\ Listed(k.overflow, Tasks)
    /\ EventsOK(W, k.waiting, k.pending)

\* A task in one list is in no other; a ready one is in the list of its priority.
Apart(k) ==
    /\ \A p \in Priorities : \A t \in Range(k.ready[p].items) :
          /\ p = k.priority[t]
          /\ t \notin Range(k.delayed) /\ t \notin Range(k.overflow)
          /\ t \notin k.suspended /\ t \notin k.terminating
    /\ \A t \in Range(k.delayed) :
          t \notin Range(k.overflow) /\ t \notin k.suspended /\ t \notin k.terminating
    /\ \A t \in Range(k.overflow) : t \notin k.suspended /\ t \notin k.terminating
    /\ \A t \in k.suspended : t \notin k.terminating

Sound(W, k) == k \in Kernels /\ ListsOK(W, k) /\ Apart(k)

\* Whether a task is in one of them.
Linked(k, t) ==
    \/ \E p \in Priorities : t \in Range(k.ready[p].items)
    \/ t \in Range(k.delayed) \/ t \in Range(k.overflow)
    \/ t \in k.suspended \/ t \in k.terminating

Ready(k, t) == \E p \in Priorities : t \in Range(k.ready[p].items)

\* No other task than t is taken from a ready list.
OthersReady(j, k, t) == \A u \in Tasks : u /= t /\ Ready(k, u) => Ready(j, u)

Top(k) == \A p \in Priorities : k.ready[p].items /= <<>> => p <= k.top

\* The current task is of the highest ready priority.
Served(k) == \A p \in Priorities : k.ready[p].items /= <<>> => p <= k.priority[k.current]

\* The delayed lists are in order; the bounds of the first are open while a tick
\* works it off.
DelaysOK(k) ==
    /\ Sorted(k.delayed, k.wake) /\ Sorted(k.overflow, k.wake)
    /\ \A t \in Range(k.delayed) : k.tick <= k.wake[t]
    /\ ~ k.ticking => \A t \in Range(k.delayed) : k.tick < k.wake[t] /\ k.unblock <= k.wake[t]
    /\ \A t \in Range(k.overflow) : k.wake[t] < k.tick

Good(W, k) == Sound(W, k) /\ Top(k) /\ DelaysOK(k)

\* The tasks that wait for a tick.
Sleeping(k) == Range(k.delayed) \cup Range(k.overflow)

\* Those that do not run: suspended or blocked for ever as well.
Down(k) == Sleeping(k) \cup k.suspended

\* Or a switch is on its way.
Runs(k) == k.pendsv \/ k.missed \/ Served(k)

\* What a move of tasks between the lists leaves alone.
Framed(j, k) ==
    /\ j.current = k.current
    /\ j.priority = k.priority /\ j.base = k.base /\ j.order = k.order
    /\ j.notify = k.notify /\ j.value = k.value
    /\ j.tick = k.tick /\ j.pended = k.pended /\ j.locked = k.locked
    /\ j.missed = k.missed /\ j.pendsv = k.pendsv /\ j.ticking = k.ticking

-----------------------------------------------------------------------------
LEMMA PrioritiesAre == Priorities \subseteq Nat /\ 0 \in Priorities
BY SchedulerAssumption DEF Priorities

LEMMA TicksAre == Ticks \subseteq Nat /\ 0 \in Ticks /\ MaxDelay \in Ticks
BY TickCountAssumption DEF Ticks

\* uxListRemove of the state list item takes the task out of its list.
LEMMA DetachedIs ==
    ASSUME NEW W, NEW k, Good(W, k), NEW t \in Tasks
    PROVE  LET d == Detached(k, t)
           IN  /\ Good(W, d)
               /\ \A u \in Tasks : Linked(d, u) <=> Linked(k, u) /\ u /= t
               /\ Served(k) => Served(d)
               /\ Range(d.delayed) = Range(k.delayed) \ {t}
               /\ Range(d.overflow) = Range(k.overflow) \ {t}
               /\ \A u \in Tasks : u /= t => d.wake[u] = k.wake[u]
               /\ Framed(d, k) /\ d.pending = k.pending
               /\ OthersReady(d, k, t)
               /\ d.terminating = k.terminating \ {t}
               /\ d.suspended = k.suspended \ {t} /\ d.waiting = k.waiting
<1> DEFINE d == Detached(k, t)
<1>1. k \in Kernels /\ ListsOK(W, k) /\ Apart(k) /\ Top(k) /\ DelaysOK(k)
  BY DEF Good, Sound
<1>2. /\ d.ready = [p \in Priorities |-> RemoveItem(k.ready[p], t)]
      /\ d.delayed = Without(k.delayed, t) /\ d.overflow = Without(k.overflow, t)
      /\ d.wake = [k.wake EXCEPT ![t] = 0]
      /\ d.suspended = k.suspended \ {t} /\ d.terminating = k.terminating \ {t}
      /\ d.pending = k.pending /\ d.waiting = k.waiting /\ d.priority = k.priority
      /\ d.current = k.current /\ d.top = k.top
      /\ d.tick = k.tick /\ d.unblock = k.unblock /\ d.ticking = k.ticking
  BY <1>1 DEF Detached, Kernels
<1>3. \A p \in Priorities : RingOf(d.ready[p], Tasks)
          /\ Range(d.ready[p].items) = Range(k.ready[p].items) \ {t}
  BY <1>1, <1>2, RemoveItemLists DEF ListsOK
<1>4. /\ Listed(d.delayed, Tasks) /\ Range(d.delayed) = Range(k.delayed) \ {t}
      /\ Listed(d.overflow, Tasks) /\ Range(d.overflow) = Range(k.overflow) \ {t}
  BY <1>1, <1>2, WithoutLists DEF ListsOK
<1>5. d \in Kernels
  <2>1. d.ready \in [Priorities -> [items : Seq(Tasks), index : Nat]]
    BY <1>2, <1>3, RingTyped
  <2>2. d.delayed \in Seq(Tasks) /\ d.overflow \in Seq(Tasks)
    BY <1>4 DEF Listed
  <2> QED
    BY <1>1, <2>1, <2>2, TicksAre DEF Detached, Kernels
<1> HIDE DEF d
<1>6. ListsOK(W, d)
  BY <1>1, <1>2, <1>3, <1>4 DEF ListsOK
<1>7. Apart(d)
  BY <1>1, <1>2, <1>3, <1>4 DEF Apart
<1>8. \A u \in Tasks : Linked(d, u) <=> Linked(k, u) /\ u /= t
  <2> TAKE u \in Tasks
  <2>1. \A p \in Priorities :
            u \in Range(d.ready[p].items) <=> u \in Range(k.ready[p].items) /\ u /= t
    BY <1>3
  <2>2. /\ u \in Range(d.delayed) <=> u \in Range(k.delayed) /\ u /= t
        /\ u \in Range(d.overflow) <=> u \in Range(k.overflow) /\ u /= t
        /\ u \in d.suspended <=> u \in k.suspended /\ u /= t
        /\ u \in d.terminating <=> u \in k.terminating /\ u /= t
    BY <1>2, <1>4
  <2> QED
    BY <2>1, <2>2, Zenon DEF Linked
<1>9. \A p \in Priorities : d.ready[p].items /= <<>> => k.ready[p].items /= <<>>
  <2> TAKE p \in Priorities
  <2> HAVE d.ready[p].items /= <<>>
  <2>1. d.ready[p].items \in Seq(Tasks)
    BY <1>3 DEF RingOf, Listed
  <2>2. Range(d.ready[p].items) /= {}
    BY <2>1, HeadIsLeast
  <2>3. Range(k.ready[p].items) /= {}
    BY <1>3, <2>2
  <2> QED
    BY <2>3 DEF Range
<1>10. Top(d) /\ (Served(k) => Served(d))
  BY <1>1, <1>2, <1>9 DEF Top, Served
<1>11. DelaysOK(d)
  <2>1. \A u \in Tasks : u /= t => d.wake[u] = k.wake[u]
    BY <1>1, <1>2 DEF Kernels
  <2>2. Range(d.delayed) \subseteq Tasks /\ Range(d.overflow) \subseteq Tasks
    BY <1>4 DEF Listed, Range
  <2>3. Sorted(d.delayed, k.wake) /\ Sorted(d.overflow, k.wake)
    BY <1>1, <1>2, WithoutKeepsOrder DEF ListsOK, DelaysOK
  <2>4. Sorted(d.delayed, d.wake) /\ Sorted(d.overflow, d.wake)
    BY <1>4, <2>1, <2>2, <2>3, SortedAgrees
  <2> QED
    BY <1>1, <1>2, <1>4, <2>1, <2>2, <2>4 DEF DelaysOK
<1>12. \A u \in Tasks : u /= t => d.wake[u] = k.wake[u]
  BY <1>1, <1>2 DEF Kernels
<1>13. Framed(d, k)
  BY <1>1 DEF Framed, Detached, Kernels, d
<1>14. OthersReady(d, k, t)
  BY <1>3 DEF OthersReady, Ready
<1> QED
  BY <1>2, <1>4, <1>5, <1>6, <1>7, <1>8, <1>10, <1>11, <1>12, <1>13, <1>14 DEF Good, Sound, d

\* Of the event list item.
LEMMA EventDetachedIs ==
    ASSUME NEW W, NEW k, Good(W, k), NEW t \in Tasks
    PROVE  LET d == EventDetached(k, t)
           IN  /\ Good(W, d)
               /\ \A u \in Tasks : Linked(d, u) <=> Linked(k, u)
               /\ Served(k) => Served(d)
               /\ Range(d.pending) = Range(k.pending) \ {t}
               /\ Framed(d, k)
               /\ \A u : OthersReady(d, k, u)
               /\ Sleeping(d) = Sleeping(k) /\ d.wake = k.wake /\ d.terminating = k.terminating
               /\ d.suspended = k.suspended
               /\ \A o \in Objects : d.waiting[o] = Without(k.waiting[o], t)
<1> DEFINE d == EventDetached(k, t)
<1>1. k \in Kernels /\ ListsOK(W, k) /\ Apart(k) /\ Top(k) /\ DelaysOK(k)
  BY DEF Good, Sound
<1>2. /\ d = [k EXCEPT !.waiting = d.waiting, !.pending = d.pending]
      /\ d.waiting = [o \in Objects |-> Without(k.waiting[o], t)]
      /\ d.pending = Without(k.pending, t)
  BY <1>1 DEF EventDetached, Kernels
<1> HIDE DEF d
<1>3. /\ Listed(k.pending, Tasks)
      /\ Listed(d.pending, Tasks) /\ Range(d.pending) = Range(k.pending) \ {t}
  BY <1>1, <1>2, WithoutLists DEF ListsOK, EventsOK
<1>4. \A o \in Objects :
          /\ d.waiting[o] = Without(k.waiting[o], t) /\ Listed(d.waiting[o], Tasks)
          /\ Range(d.waiting[o]) = Range(k.waiting[o]) \ {t}
  BY <1>1, <1>2, WithoutLists DEF ListsOK, EventsOK
<1>5. d \in Kernels
  <2>1. d.waiting \in [Objects -> Seq(Tasks)]
    BY <1>2, <1>4 DEF Listed
  <2>2. d.pending \in Seq(Tasks)
    BY <1>3 DEF Listed
  <2> QED
    BY <1>1, <2>1, <2>2 DEF d, EventDetached, Kernels
<1>6. /\ d.ready = k.ready /\ d.delayed = k.delayed /\ d.overflow = k.overflow
      /\ d.suspended = k.suspended /\ d.terminating = k.terminating
      /\ d.priority = k.priority /\ d.current = k.current /\ d.top = k.top /\ d.wake = k.wake
      /\ d.tick = k.tick /\ d.unblock = k.unblock /\ d.ticking = k.ticking
  BY <1>1, <1>2 DEF Kernels
<1>7. ListsOK(W, d)
  <2>1. EventsOK(W, d.waiting, d.pending)
    BY <1>1, <1>3, <1>4 DEF ListsOK, EventsOK
  <2> QED
    BY <1>1, <1>6, <2>1 DEF ListsOK
<1>8. Apart(d) /\ Top(d) /\ DelaysOK(d)
  BY <1>1, <1>6 DEF Apart, Top, DelaysOK
<1>9. (\A u \in Tasks : Linked(d, u) <=> Linked(k, u)) /\ (Served(k) => Served(d))
  BY <1>6 DEF Linked, Served
<1>10. Framed(d, k)
  BY <1>1 DEF Framed, EventDetached, Kernels, d
<1>11. \A u : OthersReady(d, k, u)
  BY <1>6 DEF OthersReady, Ready
<1> QED
  BY <1>3, <1>4, <1>5, <1>6, <1>7, <1>8, <1>9, <1>10, <1>11 DEF Good, Sound, Sleeping, d

\* A change of what the lists do not depend on.
SameLists(j, k) ==
    /\ j \in Kernels
    /\ j.ready = k.ready /\ j.delayed = k.delayed /\ j.overflow = k.overflow
    /\ j.pending = k.pending /\ j.suspended = k.suspended /\ j.terminating = k.terminating
    /\ j.waiting = k.waiting /\ j.priority = k.priority /\ j.wake = k.wake
    /\ j.current = k.current /\ j.top = k.top /\ j.tick = k.tick /\ j.unblock = k.unblock
    /\ j.ticking = k.ticking

LEMMA SameIs ==
    ASSUME NEW W, NEW k, Good(W, k), NEW j, SameLists(j, k)
    PROVE  /\ Good(W, j)
           /\ \A u \in Tasks : Linked(j, u) <=> Linked(k, u)
           /\ Served(j) <=> Served(k)
           /\ \A u : OthersReady(j, k, u)
<1>1. ListsOK(W, j) /\ Apart(j) /\ j \in Kernels
  BY DEF Good, Sound, SameLists, ListsOK, Apart
<1>2. Top(j) /\ DelaysOK(j)
  BY DEF Good, SameLists, Top, DelaysOK
<1>3. (\A u \in Tasks : Linked(j, u) <=> Linked(k, u)) /\ (Served(j) <=> Served(k))
  BY DEF SameLists, Linked, Served
<1>4. \A u : OthersReady(j, k, u)
  BY DEF SameLists, OthersReady, Ready
<1> QED
  BY <1>1, <1>2, <1>3, <1>4 DEF Good, Sound

\* prvAddTaskToReadyList puts a task that is in no list into the ready list of its
\* priority.
LEMMA AddedIs ==
    ASSUME NEW W, NEW k, Good(W, k), NEW t \in Tasks, ~ Linked(k, t)
    PROVE  LET a == AddTaskToReadyList(k, t)
           IN  /\ Good(W, a)
               /\ \A u \in Tasks : Linked(a, u) <=> Linked(k, u) \/ u = t
               /\ Served(k) /\ k.priority[t] <= k.priority[k.current] => Served(a)
               /\ Ready(a, t)
               /\ \A u : OthersReady(a, k, u)
               /\ Framed(a, k) /\ a.pending = k.pending
               /\ Sleeping(a) = Sleeping(k) /\ a.wake = k.wake /\ a.terminating = k.terminating
               /\ a.suspended = k.suspended /\ a.waiting = k.waiting
<1> DEFINE a == AddTaskToReadyList(k, t)
           q == k.priority[t]
<1>1. k \in Kernels /\ ListsOK(W, k) /\ Apart(k) /\ Top(k) /\ DelaysOK(k)
  BY DEF Good, Sound
<1>2. /\ a.ready = [k.ready EXCEPT ![q] = InsertEnd(@, t)]
      /\ a.top = IF k.top < q THEN q ELSE k.top
      /\ a.delayed = k.delayed /\ a.overflow = k.overflow /\ a.pending = k.pending
      /\ a.suspended = k.suspended /\ a.terminating = k.terminating
      /\ a.waiting = k.waiting /\ a.priority = k.priority /\ a.wake = k.wake
      /\ a.current = k.current /\ a.tick = k.tick /\ a.unblock = k.unblock
      /\ a.ticking = k.ticking
  BY <1>1 DEF AddTaskToReadyList, Kernels
<1>3. q \in Priorities /\ k.top \in Priorities /\ DOMAIN k.ready = Priorities
  BY <1>1 DEF Kernels
<1> HIDE DEF q
<1>4. RingOf(a.ready[q], Tasks) /\ Range(a.ready[q].items) = Range(k.ready[q].items) \cup {t}
  <2>1. t \notin Range(k.ready[q].items)
    BY <1>3 DEF Linked
  <2>2. RingOf(k.ready[q], Tasks)
    BY <1>1, <1>3 DEF ListsOK
  <2>3. a.ready[q] = InsertEnd(k.ready[q], t)
    BY <1>2, <1>3
  <2> QED
    BY <2>1, <2>2, <2>3, InsertEndLists
<1>5. \A p \in Priorities : p /= q => a.ready[p] = k.ready[p]
  BY <1>2, <1>3
<1>6. \A p \in Priorities : RingOf(a.ready[p], Tasks)
  BY <1>1, <1>4, <1>5 DEF ListsOK
<1>7. a \in Kernels
  <2>1. a.ready \in [Priorities -> [items : Seq(Tasks), index : Nat]]
    BY <1>2, <1>3, <1>6, RingTyped
  <2>2. a.top \in Priorities
    BY <1>2, <1>3
  <2> QED
    BY <1>1, <2>1, <2>2 DEF AddTaskToReadyList, Kernels
<1> HIDE DEF a
<1>8. ListsOK(W, a)
  BY <1>1, <1>2, <1>6 DEF ListsOK
<1>9. Apart(a)
  <2>1. ASSUME NEW p \in Priorities, NEW u \in Range(a.ready[p].items)
        PROVE  /\ p = k.priority[u]
               /\ u \notin Range(k.delayed) /\ u \notin Range(k.overflow)
               /\ u \notin k.suspended /\ u \notin k.terminating
    <3>1. CASE u = t /\ p = q
      BY <3>1 DEF Linked, q
    <3>2. CASE u \in Range(k.ready[p].items)
      BY <1>1, <3>2 DEF Apart
    <3> QED
      BY <1>4, <1>5, <2>1, <3>1, <3>2
  <2> QED
    BY <1>1, <1>2, <2>1 DEF Apart
<1>10. Top(a)
  <2> SUFFICES ASSUME NEW p \in Priorities, a.ready[p].items /= <<>>
               PROVE  p <= a.top
    BY DEF Top
  <2>1. p = q \/ p <= k.top
    BY <1>1, <1>5 DEF Top
  <2>2. p \in Nat /\ q \in Nat /\ k.top \in Nat
    BY <1>3, PrioritiesAre
  <2>3. q <= a.top /\ k.top <= a.top /\ a.top \in Nat
    BY <1>2, <2>2
  <2> QED
    BY <2>1, <2>2, <2>3
<1>11. DelaysOK(a)
  BY <1>1, <1>2 DEF DelaysOK
<1>12. ASSUME NEW u \in Tasks PROVE Linked(a, u) <=> Linked(k, u) \/ u = t
  <2>1. (\E p \in Priorities : u \in Range(a.ready[p].items))
           <=> (\E p \in Priorities : u \in Range(k.ready[p].items)) \/ u = t
    BY <1>3, <1>4, <1>5
  <2> QED
    BY <1>2, <2>1 DEF Linked
<1>13. ASSUME Served(k), k.priority[t] <= k.priority[k.current]
       PROVE  Served(a)
  BY <1>2, <1>5, <1>13 DEF Served, q
<1>14. Framed(a, k)
  BY <1>1 DEF Framed, AddTaskToReadyList, Kernels, a
<1>15. Sleeping(a) = Sleeping(k)
  BY <1>2 DEF Sleeping
<1>16. Ready(a, t)
  BY <1>3, <1>4 DEF Ready
<1>17. \A u : OthersReady(a, k, u)
  <2>1. \A p \in Priorities : Range(k.ready[p].items) \subseteq Range(a.ready[p].items)
    BY <1>4, <1>5
  <2> QED
    BY <2>1 DEF OthersReady, Ready
<1> QED
  BY <1>2, <1>7, <1>8, <1>9, <1>10, <1>11, <1>12, <1>13, <1>14, <1>15, <1>16, <1>17
     DEF Good, Sound, a

LEMMA LaterIs ==
    ASSUME NEW tick \in Ticks, NEW n \in Ticks \ {0}
    PROVE  Later(tick, n) \in Ticks /\ Later(tick, n) /= tick
BY TickCountAssumption DEF Ticks, Round, Later

\* A task in no list is suspended.
PutToSuspended(k, t) == [k EXCEPT !.suspended = @ \cup {t}]

LEMMA SuspendedIs ==
    ASSUME NEW W, NEW k, Good(W, k), NEW t \in Tasks, ~ Linked(k, t)
    PROVE  LET s == PutToSuspended(k, t)
           IN  /\ Good(W, s)
               /\ \A u \in Tasks : Linked(s, u) <=> Linked(k, u) \/ u = t
               /\ Served(k) => Served(s)
               /\ Sleeping(s) = Sleeping(k) /\ s.wake = k.wake /\ s.terminating = k.terminating
               /\ Framed(s, k) /\ s.pending = k.pending
               /\ s.suspended = k.suspended \cup {t} /\ s.waiting = k.waiting
               /\ \A u : OthersReady(s, k, u)
<1> DEFINE s == PutToSuspended(k, t)
<1>1. k \in Kernels /\ ListsOK(W, k) /\ Apart(k) /\ Top(k) /\ DelaysOK(k)
  BY DEF Good, Sound
<1>2. /\ s.ready = k.ready /\ s.delayed = k.delayed /\ s.overflow = k.overflow
      /\ s.pending = k.pending /\ s.suspended = k.suspended \cup {t}
      /\ s.terminating = k.terminating
      /\ s.waiting = k.waiting /\ s.priority = k.priority /\ s.wake = k.wake
      /\ s.current = k.current /\ s.top = k.top /\ s.tick = k.tick /\ s.unblock = k.unblock
      /\ s.ticking = k.ticking
  BY <1>1 DEF Kernels, PutToSuspended
<1>3. s \in Kernels
  BY <1>1 DEF Kernels, PutToSuspended
<1> HIDE DEF s
<1>4. ListsOK(W, s) /\ Top(s) /\ DelaysOK(s)
  BY <1>1, <1>2 DEF ListsOK, Top, DelaysOK
<1>5. Apart(s)
  <2>1. /\ \A p \in Priorities : t \notin Range(k.ready[p].items)
        /\ t \notin Range(k.delayed) /\ t \notin Range(k.overflow) /\ t \notin k.terminating
    BY DEF Linked
  <2> QED
    BY <1>1, <1>2, <2>1 DEF Apart
<1>6. \A u \in Tasks : Linked(s, u) <=> Linked(k, u) \/ u = t
  BY <1>2 DEF Linked
<1>7. (Served(k) => Served(s)) /\ Sleeping(s) = Sleeping(k)
  BY <1>2 DEF Served, Sleeping
<1>8. Framed(s, k)
  BY <1>1 DEF Framed, Kernels, PutToSuspended, s
<1>9. \A u : OthersReady(s, k, u)
  BY <1>2 DEF OthersReady, Ready
<1> QED
  BY <1>2, <1>3, <1>4, <1>5, <1>6, <1>7, <1>8, <1>9 DEF Good, Sound, s

\* A task in no list goes to a delayed list.
PutToSleep(k, t, wake) ==
    LET e == [k EXCEPT !.wake[t] = wake]
    IN  IF wake < k.tick
        THEN [e EXCEPT !.overflow = Insert(@, t, e.wake)]
        ELSE [e EXCEPT !.delayed = Insert(@, t, e.wake),
                       !.unblock = IF wake < @ THEN wake ELSE @]

LEMMA SleepsIs ==
    ASSUME NEW W, NEW k, Good(W, k), NEW t \in Tasks, ~ Linked(k, t), ~ k.ticking,
           NEW wake \in Ticks, wake /= k.tick
    PROVE  LET a == PutToSleep(k, t, wake)
           IN  /\ Good(W, a)
               /\ \A u \in Tasks : Linked(a, u) <=> Linked(k, u) \/ u = t
               /\ Served(k) => Served(a)
               /\ Sleeping(a) = Sleeping(k) \cup {t}
               /\ a.wake = [k.wake EXCEPT ![t] = wake]
               /\ Framed(a, k) /\ a.pending = k.pending /\ a.terminating = k.terminating
               /\ a.suspended = k.suspended /\ a.waiting = k.waiting
               /\ \A u : OthersReady(a, k, u)
<1>1. k \in Kernels /\ ListsOK(W, k) /\ Apart(k) /\ Top(k) /\ DelaysOK(k)
  BY DEF Good, Sound
<1> DEFINE a == PutToSleep(k, t, wake)
           w == [k.wake EXCEPT ![t] = wake]
<1>2. /\ a.ready = k.ready /\ a.pending = k.pending /\ a.suspended = k.suspended
      /\ a.terminating = k.terminating /\ a.waiting = k.waiting /\ a.priority = k.priority
      /\ a.wake = w
      /\ a.current = k.current /\ a.top = k.top /\ a.tick = k.tick /\ a.ticking = k.ticking
  BY <1>1 DEF Kernels, PutToSleep
<1>3. /\ wake < k.tick => /\ a.overflow = Insert(k.overflow, t, w)
                          /\ a.delayed = k.delayed /\ a.unblock = k.unblock
      /\ ~ (wake < k.tick) => /\ a.overflow = k.overflow
                              /\ a.delayed = Insert(k.delayed, t, w)
                              /\ a.unblock = IF wake < k.unblock THEN wake ELSE k.unblock
  BY <1>1 DEF Kernels, PutToSleep
<1>4. w \in [Tasks -> Ticks] /\ w[t] = wake /\ \A u \in Tasks : u /= t => w[u] = k.wake[u]
  BY <1>1 DEF Kernels
<1>5. /\ \A p \in Priorities : t \notin Range(k.ready[p].items)
      /\ t \notin Range(k.delayed) /\ t \notin Range(k.overflow)
      /\ t \notin k.suspended /\ t \notin k.terminating
  BY DEF Linked
<1>6. /\ Listed(k.delayed, Tasks) /\ Listed(k.overflow, Tasks)
      /\ Range(k.delayed) \subseteq Tasks /\ Range(k.overflow) \subseteq Tasks
  BY <1>1 DEF ListsOK, Listed, Range
<1>12. Framed(a, k)
  BY <1>1 DEF Framed, Kernels, PutToSleep
<1> HIDE DEF a, w
<1>13. \A u : OthersReady(a, k, u)
  BY <1>2 DEF OthersReady, Ready
<1>7. Sorted(k.delayed, w) /\ Sorted(k.overflow, w)
  <2>1. /\ \A u \in Range(k.delayed) : w[u] = k.wake[u]
        /\ \A u \in Range(k.overflow) : w[u] = k.wake[u]
    BY <1>4, <1>5, <1>6
  <2> QED
    BY <1>1, <2>1, SortedAgrees DEF DelaysOK
<1>8. \A u \in Tasks : w[u] \in Nat
  BY <1>4, TicksAre
<1>9. k.tick \in Nat /\ k.unblock \in Nat /\ wake \in Nat
  BY <1>1, TicksAre DEF Kernels
<1>10. CASE wake < k.tick
  <2>1. /\ Listed(a.overflow, Tasks) /\ Range(a.overflow) = Range(k.overflow) \cup {t}
        /\ Sorted(a.overflow, w)
    BY <1>3, <1>5, <1>6, <1>7, <1>8, <1>10, InsertKeepsOrder
  <2>2. a \in Kernels
    <3>1. a.overflow \in Seq(Tasks)
      BY <2>1 DEF Listed
    <3>2. a = [k EXCEPT !.wake = w, !.overflow = a.overflow]
      BY <1>1, <1>3, <1>10 DEF Kernels, PutToSleep, a, w
    <3> QED
      BY <1>1, <1>4, <3>1, <3>2 DEF Kernels
  <2>3. ListsOK(W, a) /\ Top(a)
    BY <1>1, <1>2, <1>3, <1>10, <2>1 DEF ListsOK, Top
  <2>4. Apart(a)
    BY <1>1, <1>2, <1>3, <1>5, <1>10, <2>1 DEF Apart
  <2>5. DelaysOK(a)
    <3>1. \A u \in Range(k.delayed) \cup Range(k.overflow) : w[u] = k.wake[u]
      BY <1>4, <1>5, <1>6
    <3> QED
      BY <1>1, <1>2, <1>3, <1>4, <1>7, <1>10, <2>1, <3>1 DEF DelaysOK
  <2>6. Sleeping(a) = Sleeping(k) \cup {t}
    BY <1>3, <1>10, <2>1 DEF Sleeping
  <2>7. \A u \in Tasks : Linked(a, u) <=> Linked(k, u) \/ u = t
    BY <1>2, <1>3, <1>10, <2>1 DEF Linked
  <2>8. Served(k) => Served(a)
    BY <1>2 DEF Served
  <2> QED
    BY <1>2, <1>12, <1>13, <2>2, <2>3, <2>4, <2>5, <2>6, <2>7, <2>8 DEF Good, Sound, a, w
<1>11. CASE ~ (wake < k.tick)
  <2>1. /\ Listed(a.delayed, Tasks) /\ Range(a.delayed) = Range(k.delayed) \cup {t}
        /\ Sorted(a.delayed, w)
    BY <1>3, <1>5, <1>6, <1>7, <1>8, <1>11, InsertKeepsOrder
  <2>2. a \in Kernels
    <3>1. a.delayed \in Seq(Tasks)
      BY <2>1 DEF Listed
    <3>2. a.unblock \in Ticks
      BY <1>1, <1>3, <1>11 DEF Kernels
    <3>3. a = [k EXCEPT !.wake = w, !.delayed = a.delayed, !.unblock = a.unblock]
      BY <1>1, <1>3, <1>11 DEF Kernels, PutToSleep, a, w
    <3> QED
      BY <1>1, <1>4, <3>1, <3>2, <3>3 DEF Kernels
  <2>3. ListsOK(W, a) /\ Top(a)
    BY <1>1, <1>2, <1>3, <1>11, <2>1 DEF ListsOK, Top
  <2>4. Apart(a)
    BY <1>1, <1>2, <1>3, <1>5, <1>11, <2>1 DEF Apart
  <2>5. DelaysOK(a)
    <3>1. \A u \in Range(k.delayed) \cup Range(k.overflow) : w[u] = k.wake[u]
      BY <1>4, <1>5, <1>6
    <3>2. k.tick < wake /\ a.unblock <= wake /\ a.unblock <= k.unblock /\ a.unblock \in Nat
      BY <1>3, <1>9, <1>11
    <3>3. \A u \in Range(a.delayed) : k.tick < w[u] /\ a.unblock <= w[u]
      <4> TAKE u \in Range(a.delayed)
      <4>1. CASE u = t
        BY <1>4, <3>2, <4>1
      <4>2. CASE u \in Range(k.delayed)
        <5>1. k.tick < w[u] /\ k.unblock <= w[u] /\ w[u] \in Nat
          BY <1>1, <1>6, <1>8, <3>1, <4>2 DEF DelaysOK
        <5> QED
          BY <1>9, <3>2, <5>1
      <4> QED
        BY <2>1, <4>1, <4>2
    <3>4. \A u \in Range(a.delayed) : k.tick <= w[u]
      BY <1>8, <1>9, <2>1, <3>3 DEF Listed, Range
    <3> QED
      BY <1>1, <1>2, <1>3, <1>7, <1>11, <2>1, <3>1, <3>3, <3>4 DEF DelaysOK
  <2>6. Sleeping(a) = Sleeping(k) \cup {t}
    BY <1>3, <1>11, <2>1 DEF Sleeping
  <2>7. \A u \in Tasks : Linked(a, u) <=> Linked(k, u) \/ u = t
    BY <1>2, <1>3, <1>11, <2>1 DEF Linked
  <2>8. Served(k) => Served(a)
    BY <1>2 DEF Served
  <2> QED
    BY <1>2, <1>12, <1>13, <2>2, <2>3, <2>4, <2>5, <2>6, <2>7, <2>8 DEF Good, Sound, a, w
<1> QED
  BY <1>10, <1>11

\* prvAddCurrentTaskToDelayedList: the current task sleeps for the ticks asked for,
\* or is suspended.
LEMMA DelayedIs ==
    ASSUME NEW W, NEW k, Good(W, k), ~ k.ticking, NEW ticks \in Ticks \ {0}, NEW b \in BOOLEAN
    PROVE  LET a == AddCurrentTaskToDelayedList(k, ticks, b)
               t == k.current
           IN  /\ Good(W, a)
               /\ \A u \in Tasks : Linked(a, u) <=> Linked(k, u) \/ u = t
               /\ Served(k) => Served(a)
               /\ \/ Sleeping(a) = Sleeping(k) \ {t}
                  \/ Sleeping(a) = Sleeping(k) \cup {t} /\ a.wake[t] = Later(k.tick, ticks)
               /\ \A u \in Tasks : u /= t => a.wake[u] = k.wake[u]
               /\ Framed(a, k) /\ a.pending = k.pending
               /\ a.terminating = k.terminating \ {t}
               /\ Down(a) = Down(k) \cup {t} /\ a.waiting = k.waiting
               /\ OthersReady(a, k, t)
<1> DEFINE a == AddCurrentTaskToDelayedList(k, ticks, b)
           t == k.current
           d == Detached(k, t)
           wake == Later(k.tick, ticks)
<1>1. k \in Kernels
  BY DEF Good, Sound
<1>2. t \in Tasks /\ k.tick \in Ticks
  BY <1>1 DEF Kernels
<1>3. wake \in Ticks /\ wake /= k.tick
  BY <1>2, LaterIs
<1>4. /\ Good(W, d)
      /\ \A u \in Tasks : Linked(d, u) <=> Linked(k, u) /\ u /= t
      /\ Served(k) => Served(d)
      /\ Range(d.delayed) = Range(k.delayed) \ {t}
      /\ Range(d.overflow) = Range(k.overflow) \ {t}
      /\ \A u \in Tasks : u /= t => d.wake[u] = k.wake[u]
      /\ Framed(d, k) /\ d.pending = k.pending /\ d.terminating = k.terminating \ {t}
      /\ d.suspended = k.suspended \ {t} /\ d.waiting = k.waiting
      /\ OthersReady(d, k, t)
  BY <1>2, DetachedIs
<1>5. /\ ticks = MaxDelay /\ b => a = PutToSuspended(d, t)
      /\ ~ (ticks = MaxDelay /\ b) => a = PutToSleep(d, t, wake)
  <2>1. d.tick = k.tick
    BY <1>4 DEF Framed
  <2> HIDE <1>4
  <2> QED
    BY <2>1 DEF AddCurrentTaskToDelayedList, PutToSuspended, PutToSleep
<1> HIDE DEF a, d, t, wake
<1>6. d.tick = k.tick /\ ~ d.ticking /\ Sleeping(d) = Sleeping(k) \ {t} /\ ~ Linked(d, t)
  BY <1>2, <1>4 DEF Framed, Sleeping
<1>7. CASE ticks = MaxDelay /\ b
  <2>1. /\ Good(W, a)
        /\ \A u \in Tasks : Linked(a, u) <=> Linked(d, u) \/ u = t
        /\ Served(d) => Served(a)
        /\ Sleeping(a) = Sleeping(d) /\ a.wake = d.wake /\ a.terminating = d.terminating
        /\ Framed(a, d) /\ a.pending = d.pending /\ OthersReady(a, d, t)
        /\ a.suspended = d.suspended \cup {t} /\ a.waiting = d.waiting
    BY <1>2, <1>4, <1>5, <1>6, <1>7, SuspendedIs
  <2>2. Framed(a, k)
    BY <1>4, <2>1 DEF Framed
  <2>3. OthersReady(a, k, t)
    BY <1>4, <2>1 DEF OthersReady
  <2>4. Down(a) = Down(k) \cup {t}
    BY <1>4, <1>6, <2>1 DEF Down
  <2> QED
    BY <1>4, <1>6, <2>1, <2>2, <2>3, <2>4 DEF a, t
<1>8. CASE ~ (ticks = MaxDelay /\ b)
  <2>1. a = PutToSleep(d, t, wake)
    BY <1>5, <1>8
  <2>2. wake /= d.tick
    BY <1>3, <1>6
  <2>3. /\ Good(W, a)
        /\ \A u \in Tasks : Linked(a, u) <=> Linked(d, u) \/ u = t
        /\ Served(d) => Served(a)
        /\ Sleeping(a) = Sleeping(d) \cup {t}
        /\ a.wake = [d.wake EXCEPT ![t] = wake]
        /\ Framed(a, d) /\ a.pending = d.pending /\ a.terminating = d.terminating
        /\ OthersReady(a, d, t)
        /\ a.suspended = d.suspended /\ a.waiting = d.waiting
    BY <1>2, <1>3, <1>4, <1>6, <2>1, <2>2, SleepsIs
  <2>4. d.wake \in [Tasks -> Ticks]
    BY <1>4 DEF Kernels, Good, Sound
  <2>5. a.wake[t] = wake /\ \A u \in Tasks : u /= t => a.wake[u] = k.wake[u]
    BY <1>2, <1>4, <2>3, <2>4
  <2>6. Framed(a, k)
    BY <1>4, <2>3 DEF Framed
  <2>7. Sleeping(a) = Sleeping(k) \cup {t}
    BY <1>6, <2>3
  <2>8. OthersReady(a, k, t)
    BY <1>4, <2>3 DEF OthersReady
  <2>9. Down(a) = Down(k) \cup {t}
    BY <1>4, <2>3, <2>7 DEF Down
  <2> QED
    BY <1>4, <2>3, <2>5, <2>6, <2>7, <2>8, <2>9 DEF a, t, wake
<1> QED
  BY <1>7, <1>8

-----------------------------------------------------------------------------
\* prvResetNextTaskUnblockTime finds the bound of the delayed list.
LEMMA ResetBounds ==
    ASSUME NEW k \in Kernels, Sorted(k.delayed, k.wake)
    PROVE  LET r == ResetNextTaskUnblockTime(k)
           IN  /\ r \in Kernels
               /\ r = [k EXCEPT !.unblock = r.unblock]
               /\ \A t \in Range(k.delayed) : r.unblock <= k.wake[t]
<1> DEFINE r == ResetNextTaskUnblockTime(k)
           x == IF k.delayed = <<>> THEN MaxDelay ELSE k.wake[Head(k.delayed)]
<1>1. k.delayed \in Seq(Tasks)
  BY DEF Kernels
<1>2. r = [k EXCEPT !.unblock = x]
  BY DEF ResetNextTaskUnblockTime
<1>3. \A t \in Tasks : k.wake[t] \in Nat /\ k.wake[t] \in Ticks
  BY TicksAre DEF Kernels
<1>4. /\ x \in Ticks
      /\ \A t \in Range(k.delayed) : x <= k.wake[t]
  <2>1. CASE k.delayed = <<>>
    BY <2>1, TicksAre DEF Range
  <2>2. CASE k.delayed /= <<>>
    <3>1. Head(k.delayed) \in Range(k.delayed) /\ Range(k.delayed) \subseteq Tasks
      BY <1>1, <2>2, HeadIsLeast DEF Range
    <3>2. \A t \in Range(k.delayed) : k.wake[Head(k.delayed)] <= k.wake[t]
      BY <1>1, <1>3, <2>2, HeadIsLeast
    <3> QED
      BY <1>3, <2>2, <3>1, <3>2
  <2> QED
    BY <2>1, <2>2
<1> HIDE DEF x, r
<1>5. r \in Kernels /\ r.unblock = x
  BY <1>2, <1>4 DEF Kernels
<1> QED
  BY <1>2, <1>4, <1>5 DEF r

LEMMA ResetIs ==
    ASSUME NEW W, NEW k, Good(W, k), ~ k.ticking
    PROVE  LET r == ResetNextTaskUnblockTime(k)
           IN  /\ Good(W, r)
               /\ \A u \in Tasks : Linked(r, u) <=> Linked(k, u)
               /\ Served(k) => Served(r)
               /\ Framed(r, k) /\ r.pending = k.pending
               /\ \A u : OthersReady(r, k, u)
               /\ Sleeping(r) = Sleeping(k) /\ r.wake = k.wake /\ r.terminating = k.terminating
               /\ r.suspended = k.suspended /\ r.waiting = k.waiting
<1> DEFINE r == ResetNextTaskUnblockTime(k)
<1>1. k \in Kernels /\ ListsOK(W, k) /\ Apart(k) /\ Top(k) /\ DelaysOK(k)
  BY DEF Good, Sound
<1>2. /\ r \in Kernels
      /\ r = [k EXCEPT !.unblock = r.unblock]
      /\ \A t \in Range(k.delayed) : r.unblock <= k.wake[t]
  BY <1>1, ResetBounds DEF DelaysOK
<1> HIDE DEF r
<1>3. /\ r.ready = k.ready /\ r.delayed = k.delayed /\ r.overflow = k.overflow
      /\ r.pending = k.pending /\ r.suspended = k.suspended
      /\ r.terminating = k.terminating
      /\ r.waiting = k.waiting /\ r.wake = k.wake /\ r.top = k.top
  BY <1>1, <1>2 DEF Kernels
<1>4. Framed(r, k)
  BY <1>1, <1>2 DEF Framed, Kernels
<1>5. ListsOK(W, r) /\ Apart(r) /\ Top(r)
  BY <1>1, <1>3, <1>4 DEF ListsOK, Apart, Top, Framed
<1>6. DelaysOK(r)
  BY <1>1, <1>2, <1>3, <1>4 DEF DelaysOK, Framed
<1>7. (\A u \in Tasks : Linked(r, u) <=> Linked(k, u)) /\ (Served(k) => Served(r))
  BY <1>3, <1>4 DEF Linked, Served, Framed
<1>8. \A u : OthersReady(r, k, u)
  BY <1>3 DEF OthersReady, Ready
<1> QED
  BY <1>2, <1>3, <1>4, <1>5, <1>6, <1>7, <1>8 DEF Good, Sound, Sleeping, r

-----------------------------------------------------------------------------
\* A request to switch the context.
Asked(j, k) ==
    /\ SameLists(j, k)
    /\ j.base = k.base /\ j.order = k.order /\ j.notify = k.notify /\ j.value = k.value
    /\ j.pended = k.pended /\ j.locked = k.locked
    /\ k.missed => j.missed
    /\ k.pendsv => j.pendsv

LEMMA YieldsIs ==
    ASSUME NEW k \in Kernels, NEW c \in BOOLEAN
    PROVE  /\ Asked(YieldingIf(k, c), k) /\ (c => YieldingIf(k, c).pendsv)
           /\ YieldingIf(k, c).missed = k.missed
BY DEF Asked, SameLists, YieldingIf, Kernels

LEMMA AsksIs ==
    ASSUME NEW k \in Kernels, NEW c \in BOOLEAN, masked \in BOOLEAN
    PROVE  LET j == AsksToSwitch(k, c)
           IN  Asked(j, k) /\ (c => j.pendsv \/ j.missed)
<1>1. CASE masked
  BY <1>1 DEF Asked, SameLists, AsksToSwitch, Kernels
<1>2. CASE ~ masked
  BY <1>2, YieldsIs DEF AsksToSwitch
<1> QED
  BY <1>1, <1>2

LEMMA SlicesIs ==
    ASSUME NEW k \in Kernels, masked \in BOOLEAN
    PROVE  Asked(Slices(k), k)
<1>1. (k.missed \/ ListLength(k.ready[k.priority[k.current]]) > 1) \in BOOLEAN
  BY DEF Kernels
<1> QED
  BY <1>1, AsksIs DEF Slices

\* All of Good but the bounds that a tick opens.
AtTick(W, k) ==
    /\ Sound(W, k) /\ Top(k)
    /\ Sorted(k.delayed, k.wake) /\ Sorted(k.overflow, k.wake)
    /\ \A t \in Range(k.delayed) : k.tick <= k.wake[t] /\ k.unblock <= k.wake[t]
    /\ \A t \in Range(k.overflow) : k.wake[t] < k.tick

\* The count of xTaskIncrementTick: at its wrap the two delayed lists change places.
LEMMA AdvanceIs ==
    ASSUME NEW W, NEW k, Good(W, k), ~ k.ticking
    PROVE  LET n == Advance(k)
           IN  /\ AtTick(W, n)
               /\ n.ready = k.ready /\ n.pending = k.pending /\ n.suspended = k.suspended
               /\ n.terminating = k.terminating /\ n.wake = k.wake
               /\ n.waiting = k.waiting
               /\ Sleeping(n) = Sleeping(k)
               /\ n.tick = Later(k.tick, 1) /\ Framed([n EXCEPT !.tick = k.tick], k)
<1> DEFINE next == [k EXCEPT !.tick = Later(@, 1)]
           n == Advance(k)
<1>1. k \in Kernels /\ ListsOK(W, k) /\ Apart(k) /\ Top(k) /\ DelaysOK(k)
  BY DEF Good, Sound
<1>2. k.tick \in Nat /\ k.tick <= MaxDelay /\ MaxDelay \in Nat \ {0}
  BY <1>1, TickCountAssumption DEF Kernels, Ticks
<1>3. \A t \in Tasks : k.wake[t] \in Nat /\ k.wake[t] <= MaxDelay
  BY <1>1, TickCountAssumption DEF Kernels, Ticks
<1>4. Range(k.delayed) \subseteq Tasks /\ Range(k.overflow) \subseteq Tasks
  BY <1>1 DEF ListsOK, Listed, Range
<1>5. next \in Kernels
  <2>1. Later(k.tick, 1) \in Ticks
    BY <1>2 DEF Later, Round, Ticks
  <2> QED
    BY <1>1, <2>1 DEF Kernels
<1>6. CASE k.tick /= MaxDelay
  <2>1. Later(k.tick, 1) = k.tick + 1
    BY <1>2, <1>6 DEF Later, Round
  <2>2. next.tick /= 0
    BY <1>1, <1>2, <2>1 DEF Kernels
  <2>3. n = next
    BY <2>2 DEF Advance
  <2> HIDE DEF n
  <2>4. /\ n.ready = k.ready /\ n.delayed = k.delayed /\ n.overflow = k.overflow
        /\ n.pending = k.pending /\ n.suspended = k.suspended
        /\ n.terminating = k.terminating
        /\ n.waiting = k.waiting /\ n.wake = k.wake /\ n.top = k.top
        /\ n.priority = k.priority /\ n.unblock = k.unblock
        /\ n.tick = k.tick + 1
    BY <1>1, <2>1, <2>3 DEF Kernels
  <2>5. ListsOK(W, n) /\ Apart(n) /\ Top(n)
    BY <1>1, <2>4 DEF ListsOK, Apart, Top
  <2>6. \A t \in Range(k.delayed) : k.tick + 1 <= k.wake[t] /\ k.unblock <= k.wake[t]
    BY <1>1, <1>2, <1>3, <1>4 DEF DelaysOK
  <2>7. \A t \in Range(k.overflow) : k.wake[t] < k.tick + 1
    BY <1>1, <1>2, <1>3, <1>4 DEF DelaysOK
  <2>8. AtTick(W, n)
    BY <1>1, <1>5, <2>3, <2>4, <2>5, <2>6, <2>7 DEF AtTick, Sound, DelaysOK
  <2>9. Framed([n EXCEPT !.tick = k.tick], k)
    BY <1>1, <2>3 DEF Framed, Kernels
  <2> QED
    BY <2>1, <2>4, <2>8, <2>9 DEF Sleeping, n
<1>7. CASE k.tick = MaxDelay
  <2>1. Later(k.tick, 1) = 0
    BY <1>2, <1>7 DEF Later, Round
  <2> DEFINE s == [next EXCEPT !.delayed = next.overflow, !.overflow = next.delayed,
                               !.wrapped = [t \in Tasks |-> TRUE]]
  <2>2. next.tick = 0
    BY <1>1, <2>1 DEF Kernels
  <2>3. n = ResetNextTaskUnblockTime(s)
    BY <2>2 DEF Advance, SwitchDelayedLists
  <2>4. s \in Kernels
    BY <1>1, <1>5 DEF Kernels
  <2>5. /\ s.ready = k.ready /\ s.delayed = k.overflow /\ s.overflow = k.delayed
        /\ s.pending = k.pending /\ s.suspended = k.suspended
        /\ s.terminating = k.terminating
        /\ s.waiting = k.waiting /\ s.wake = k.wake /\ s.top = k.top
        /\ s.priority = k.priority /\ s.tick = 0
    BY <1>1, <2>1 DEF Kernels
  <2>6. Framed([s EXCEPT !.tick = k.tick], k)
    BY <1>1 DEF Framed, Kernels
  <2> HIDE DEF n, s, next
  <2>7. /\ n \in Kernels
        /\ n = [s EXCEPT !.unblock = n.unblock]
        /\ \A t \in Range(k.overflow) : n.unblock <= k.wake[t]
    <3>1. Sorted(s.delayed, s.wake)
      BY <1>1, <2>5 DEF DelaysOK
    <3> QED
      BY <2>3, <2>4, <2>5, <3>1, ResetBounds
  <2>8. /\ n.ready = k.ready /\ n.delayed = k.overflow /\ n.overflow = k.delayed
        /\ n.pending = k.pending /\ n.suspended = k.suspended
        /\ n.terminating = k.terminating
        /\ n.waiting = k.waiting /\ n.wake = k.wake /\ n.top = k.top
        /\ n.priority = k.priority /\ n.tick = 0
    BY <2>4, <2>5, <2>7 DEF Kernels
  <2>9. ListsOK(W, n) /\ Top(n)
    BY <1>1, <2>8 DEF ListsOK, Top
  <2>10. Apart(n)
    BY <1>1, <2>8 DEF Apart
  <2>11. Range(k.delayed) = {}
    BY <1>1, <1>2, <1>3, <1>4, <1>7 DEF DelaysOK
  <2>12. \A t \in Range(k.overflow) : 0 <= k.wake[t]
    BY <1>3, <1>4
  <2>13. AtTick(W, n)
    BY <1>1, <2>7, <2>8, <2>9, <2>10, <2>11, <2>12 DEF AtTick, Sound, DelaysOK
  <2>14. Framed([n EXCEPT !.tick = k.tick], k)
    BY <2>4, <2>6, <2>7 DEF Framed, Kernels
  <2>15. Sleeping(n) = Sleeping(k)
    BY <2>8 DEF Sleeping
  <2> QED
    BY <2>1, <2>8, <2>13, <2>14, <2>15 DEF n
<1> QED
  BY <1>6, <1>7

\* What a tick leaves alone.
Ticked(j, k) ==
    /\ j.current = k.current
    /\ j.priority = k.priority /\ j.base = k.base /\ j.order = k.order
    /\ j.notify = k.notify /\ j.locked = k.locked
    /\ k.missed => j.missed

LEMMA IncrementTickIs ==
    ASSUME NEW W, NEW k, Good(W, k), ~ k.ticking, masked \in BOOLEAN
    PROVE  LET j == IncrementTick(k)
           IN  /\ Good(W, j) /\ (Runs(k) => Runs(j)) /\ Ticked(j, k)
               /\ \A u \in Tasks : Linked(j, u) <=> Linked(k, u)
               /\ j.ready = k.ready /\ j.pending = k.pending /\ j.terminating = k.terminating
               /\ j.suspended = k.suspended /\ j.waiting = k.waiting
               /\ Sleeping(j) = Sleeping(k) /\ j.wake = k.wake
               /\ (k.pendsv => j.pendsv)
               /\ IF k.locked > 0
                  THEN j.tick = k.tick /\ j.pended = k.pended + 1 /\ ~ j.ticking
                  ELSE j.tick = Later(k.tick, 1) /\ j.pended = k.pended
<1> DEFINE j == IncrementTick(k)
           n == Advance(k)
<1>1. k \in Kernels
  BY DEF Good, Sound
<1>2. k.locked \in Nat /\ k.missed \in BOOLEAN
  BY <1>1 DEF Kernels
<1>3. CASE k.locked > 0
  <2> DEFINE h == [k EXCEPT !.pended = @ + 1]
  <2>1. j = AsksToSwitch(h, k.missed)
    BY <1>3 DEF IncrementTick
  <2>2. SameLists(h, k) /\ Ticked(h, k) /\ h.pended = k.pended + 1
        /\ h.missed = k.missed /\ h.pendsv = k.pendsv
    <3>1. h \in Kernels
      <4>1. k.pended \in Nat
        BY <1>1 DEF Kernels
      <4>2. k.pended + 1 \in Nat
        BY <4>1
      <4>3. h = [k EXCEPT !.pended = k.pended + 1]
        OBVIOUS
      <4> HIDE DEF h
      <4> DEFINE more == k.pended + 1
      <4> HIDE DEF more
      <4>4. more \in Nat /\ h = [k EXCEPT !.pended = more]
        BY <4>2, <4>3 DEF more
      <4> QED
        BY <1>1, <4>4 DEF Kernels
    <3>2. /\ h.ready = k.ready /\ h.delayed = k.delayed /\ h.overflow = k.overflow
          /\ h.pending = k.pending /\ h.suspended = k.suspended
          /\ h.terminating = k.terminating
          /\ h.waiting = k.waiting /\ h.priority = k.priority /\ h.wake = k.wake
          /\ h.current = k.current /\ h.top = k.top /\ h.tick = k.tick
          /\ h.unblock = k.unblock /\ h.ticking = k.ticking
      BY <1>1 DEF Kernels
    <3>3. h.base = k.base /\ h.order = k.order /\ h.notify = k.notify /\ h.locked = k.locked
          /\ h.missed = k.missed /\ h.pendsv = k.pendsv
      BY <1>1 DEF Kernels
    <3>4. h.pended = k.pended + 1
      BY <1>1 DEF Kernels
    <3> HIDE DEF h
    <3> QED
      BY <3>1, <3>2, <3>3, <3>4 DEF SameLists, Ticked
  <2> HIDE DEF h, j
  <2>3. /\ Good(W, h)
        /\ \A u \in Tasks : Linked(h, u) <=> Linked(k, u)
        /\ Served(h) <=> Served(k)
    BY <2>2, SameIs
  <2>4. Asked(j, h)
    BY <1>2, <2>1, <2>2, AsksIs DEF SameLists
  <2>5. /\ Good(W, j)
        /\ \A u \in Tasks : Linked(j, u) <=> Linked(h, u)
        /\ Served(j) <=> Served(h)
    BY <2>3, <2>4, SameIs DEF Asked
  <2>6. Runs(k) => Runs(j)
    BY <2>2, <2>3, <2>4, <2>5 DEF Runs, Asked
  <2>7. /\ Ticked(j, k)
        /\ j.ready = k.ready /\ j.pending = k.pending /\ j.terminating = k.terminating
        /\ j.suspended = k.suspended /\ j.waiting = k.waiting
        /\ Sleeping(j) = Sleeping(k) /\ j.wake = k.wake
        /\ (k.pendsv => j.pendsv)
        /\ j.tick = k.tick /\ j.pended = k.pended + 1 /\ ~ j.ticking
    BY <2>2, <2>4 DEF Asked, SameLists, Ticked, Sleeping
  <2> QED
    BY <1>3, <2>3, <2>5, <2>6, <2>7 DEF j
<1>4. CASE ~ (k.locked > 0)
  <2>1. /\ AtTick(W, n)
        /\ n.ready = k.ready /\ n.pending = k.pending /\ n.suspended = k.suspended
        /\ n.terminating = k.terminating /\ n.wake = k.wake /\ n.waiting = k.waiting
        /\ Sleeping(n) = Sleeping(k)
        /\ n.tick = Later(k.tick, 1) /\ Framed([n EXCEPT !.tick = k.tick], k)
    BY AdvanceIs
  <2>2. j = IF n.tick >= n.unblock THEN [n EXCEPT !.ticking = TRUE] ELSE Slices(n)
    BY <1>2, <1>4 DEF IncrementTick
  <2> HIDE DEF n, j
  <2>3. n \in Kernels
    BY <2>1 DEF AtTick, Sound
  <2>4. /\ n.current = k.current /\ n.priority = k.priority /\ n.notify = k.notify
        /\ n.base = k.base /\ n.order = k.order
        /\ n.locked = k.locked /\ n.pended = k.pended
        /\ n.missed = k.missed /\ n.pendsv = k.pendsv /\ n.ticking = k.ticking
    BY <2>1, <2>3 DEF Framed, Kernels
  <2>5. n.tick \in Nat /\ n.unblock \in Nat /\ \A u \in Tasks : n.wake[u] \in Nat
    BY <2>3, TicksAre DEF Kernels
  <2>6. (\A u \in Tasks : Linked(n, u) <=> Linked(k, u)) /\ (Served(n) <=> Served(k))
    <3>1. \A u \in Tasks : u \in Range(n.delayed) \/ u \in Range(n.overflow)
                             <=> u \in Range(k.delayed) \/ u \in Range(k.overflow)
      BY <2>1 DEF Sleeping
    <3> QED
      BY <2>1, <2>4, <3>1 DEF Linked, Served
  <2>7. CASE n.tick >= n.unblock
    <3>1. j = [n EXCEPT !.ticking = TRUE]
      BY <2>2, <2>7
    <3>2. /\ j \in Kernels
          /\ j.ready = n.ready /\ j.delayed = n.delayed /\ j.overflow = n.overflow
          /\ j.pending = n.pending /\ j.suspended = n.suspended
          /\ j.terminating = n.terminating /\ j.waiting = n.waiting
          /\ j.priority = n.priority /\ j.wake = n.wake /\ j.current = n.current
          /\ j.top = n.top /\ j.tick = n.tick /\ j.unblock = n.unblock
          /\ j.base = n.base /\ j.order = n.order /\ j.notify = n.notify /\ j.locked = n.locked /\ j.pended = n.pended
          /\ j.missed = n.missed /\ j.pendsv = n.pendsv /\ j.ticking
      BY <2>3, <3>1 DEF Kernels
    <3>3. ListsOK(W, j) /\ Apart(j) /\ Top(j)
      BY <2>1, <3>2 DEF AtTick, Sound, ListsOK, Apart, Top
    <3>4. DelaysOK(j)
      BY <2>1, <3>2 DEF AtTick, DelaysOK
    <3>5. (\A u \in Tasks : Linked(j, u) <=> Linked(n, u)) /\ (Served(j) <=> Served(n))
      BY <3>2 DEF Linked, Served
    <3>6. Sleeping(j) = Sleeping(k) /\ Ticked(j, k) /\ (Runs(k) => Runs(j))
      BY <2>1, <2>4, <2>6, <3>2, <3>5 DEF Sleeping, Ticked, Runs
    <3> QED
      BY <1>4, <2>1, <2>4, <2>6, <3>2, <3>3, <3>4, <3>5, <3>6 DEF Good, Sound, j
  <2>8. CASE ~ (n.tick >= n.unblock)
    <3>1. Good(W, n)
      <4>1. \A u \in Range(n.delayed) : n.tick < n.wake[u]
        <5>1. Range(n.delayed) \subseteq Tasks
          BY <2>1 DEF AtTick, Sound, ListsOK, Listed, Range
        <5> QED
          BY <2>1, <2>5, <2>8, <5>1 DEF AtTick
      <4> QED
        BY <2>1, <4>1 DEF AtTick, Good, DelaysOK
    <3>2. Asked(j, n)
      BY <2>2, <2>3, <2>8, SlicesIs
    <3>3. /\ Good(W, j)
          /\ \A u \in Tasks : Linked(j, u) <=> Linked(n, u)
          /\ Served(j) <=> Served(n)
      BY <3>1, <3>2, SameIs DEF Asked
    <3>4. /\ Runs(k) => Runs(j)
          /\ Ticked(j, k)
          /\ j.ready = k.ready /\ j.pending = k.pending /\ j.terminating = k.terminating
          /\ j.suspended = k.suspended /\ j.waiting = k.waiting
          /\ Sleeping(j) = Sleeping(k) /\ j.wake = k.wake
          /\ (k.pendsv => j.pendsv)
          /\ j.tick = Later(k.tick, 1) /\ j.pended = k.pended
      BY <2>1, <2>4, <2>6, <3>2, <3>3 DEF Asked, SameLists, Ticked, Runs, Sleeping
    <3> QED
      BY <1>4, <2>6, <3>3, <3>4 DEF j
  <2> QED
    BY <2>7, <2>8
<1> QED
  BY <1>3, <1>4

-----------------------------------------------------------------------------
\* A task that is moved to the ready list of its priority.
LEMMA ReadiedIs ==
    ASSUME NEW W, NEW k, Good(W, k), NEW t \in Tasks, Linked(k, t)
    PROVE  LET a == AddTaskToReadyList(Detached(k, t), t)
           IN  /\ Good(W, a)
               /\ \A u \in Tasks : Linked(a, u) <=> Linked(k, u)
               /\ Served(k) /\ ~ (k.priority[t] > k.priority[k.current]) => Served(a)
               /\ Ready(a, t)
               /\ \A u : OthersReady(a, k, u)
               /\ Framed(a, k) /\ a.pending = k.pending
               /\ Sleeping(a) = Sleeping(k) \ {t}
               /\ \A u \in Tasks : u /= t => a.wake[u] = k.wake[u]
               /\ a.terminating = k.terminating \ {t}
               /\ a.suspended = k.suspended \ {t} /\ a.waiting = k.waiting
<1> DEFINE d == Detached(k, t)
           a == AddTaskToReadyList(d, t)
<1>1. /\ Good(W, d)
      /\ \A u \in Tasks : Linked(d, u) <=> Linked(k, u) /\ u /= t
      /\ Served(k) => Served(d)
      /\ Range(d.delayed) = Range(k.delayed) \ {t}
      /\ Range(d.overflow) = Range(k.overflow) \ {t}
      /\ \A u \in Tasks : u /= t => d.wake[u] = k.wake[u]
      /\ Framed(d, k) /\ d.pending = k.pending /\ OthersReady(d, k, t)
      /\ d.terminating = k.terminating \ {t}
      /\ d.suspended = k.suspended \ {t} /\ d.waiting = k.waiting
  BY DetachedIs
<1> HIDE DEF d
<1>2. ~ Linked(d, t)
  BY <1>1
<1>3. /\ Good(W, a)
      /\ \A u \in Tasks : Linked(a, u) <=> Linked(d, u) \/ u = t
      /\ Served(d) /\ d.priority[t] <= d.priority[d.current] => Served(a)
      /\ Ready(a, t) /\ \A u : OthersReady(a, d, u)
      /\ Framed(a, d) /\ a.pending = d.pending
      /\ Sleeping(a) = Sleeping(d) /\ a.wake = d.wake /\ a.terminating = d.terminating
      /\ a.suspended = d.suspended /\ a.waiting = d.waiting
  BY <1>1, <1>2, AddedIs
<1> HIDE DEF a
<1>4. Framed(a, k)
  BY <1>1, <1>3 DEF Framed
<1>5. Sleeping(a) = Sleeping(k) \ {t}
  BY <1>1, <1>3 DEF Sleeping
<1>6. ASSUME Served(k), ~ (k.priority[t] > k.priority[k.current])
      PROVE  Served(a)
  <2>1. k.priority[t] \in Nat /\ k.priority[k.current] \in Nat
    BY PrioritiesAre DEF Good, Sound, Kernels
  <2>2. d.priority[t] <= d.priority[d.current]
    BY <1>1, <1>6, <2>1 DEF Framed
  <2> QED
    BY <1>1, <1>3, <1>6, <2>2
<1>7. \A u : OthersReady(a, k, u)
  BY <1>1, <1>3 DEF OthersReady
<1> QED
  BY <1>1, <1>3, <1>4, <1>5, <1>6, <1>7 DEF a, d

\* A task is due: it is ready.
LEMMA UnblockFirstIs ==
    ASSUME NEW W, NEW k, Good(W, k), Due(k), masked \in BOOLEAN
    PROVE  LET j == UnblockFirst(k)
               t == Head(k.delayed)
           IN  /\ t \in Tasks /\ k.wake[t] = k.tick
               /\ Good(W, j) /\ (Runs(k) => Runs(j)) /\ Ticked(j, k)
               /\ \A u \in Tasks : Linked(j, u) <=> Linked(k, u)
               /\ Range(j.pending) = Range(k.pending) \ {t}
               /\ j.suspended = k.suspended
               /\ \A o \in Objects : j.waiting[o] = Without(k.waiting[o], t)
               /\ j.terminating = k.terminating /\ \A u : OthersReady(j, k, u)
               /\ Sleeping(j) = Sleeping(k) \ {t}
               /\ \A u \in Tasks : u /= t => j.wake[u] = k.wake[u]
               /\ (k.pendsv => j.pendsv)
               /\ j.tick = k.tick /\ j.pended = k.pended /\ j.ticking = k.ticking
<1> DEFINE t == Head(k.delayed)
           d == Detached(k, t)
           e == EventDetached(d, t)
           a == AddTaskToReadyList(e, t)
           c == k.priority[t] >= k.priority[k.current]
           j == UnblockFirst(k)
<1>1. /\ k \in Kernels /\ k.delayed \in Seq(Tasks) /\ k.delayed /= <<>>
      /\ k.wake[t] <= k.tick /\ Apart(k)
  BY DEF Good, Sound, Due, Kernels
<1>2. t \in Range(k.delayed) /\ t \in Tasks
  BY <1>1, HeadIsLeast
<1>3. k.wake[t] = k.tick
  <2>1. k.tick <= k.wake[t]
    BY <1>2 DEF Good, DelaysOK
  <2>2. k.tick \in Nat /\ k.wake[t] \in Nat
    BY <1>1, <1>2, TicksAre DEF Kernels
  <2> HIDE DEF t
  <2> QED
    BY <1>1, <2>1, <2>2
<1>4. t \notin k.terminating /\ t \notin k.suspended
  BY <1>1, <1>2 DEF Apart
<1>5. Linked(k, t)
  BY <1>2 DEF Linked
<1>6. j = AsksToSwitch(a, c)
  BY DEF UnblockFirst
<1> HIDE DEF j, t
<1>7. /\ Good(W, d)
      /\ \A u \in Tasks : Linked(d, u) <=> Linked(k, u) /\ u /= t
      /\ Served(k) => Served(d)
      /\ Range(d.delayed) = Range(k.delayed) \ {t}
      /\ Range(d.overflow) = Range(k.overflow) \ {t}
      /\ \A u \in Tasks : u /= t => d.wake[u] = k.wake[u]
      /\ Framed(d, k) /\ d.pending = k.pending /\ OthersReady(d, k, t)
      /\ d.terminating = k.terminating \ {t}
      /\ d.suspended = k.suspended \ {t} /\ d.waiting = k.waiting
  BY <1>2, DetachedIs, Z3
<1> HIDE DEF d
<1>8. /\ Good(W, e)
      /\ \A u \in Tasks : Linked(e, u) <=> Linked(d, u)
      /\ Served(d) => Served(e)
      /\ Range(e.pending) = Range(d.pending) \ {t}
      /\ Framed(e, d) /\ OthersReady(e, d, t)
      /\ Sleeping(e) = Sleeping(d) /\ e.wake = d.wake /\ e.terminating = d.terminating
      /\ e.suspended = d.suspended
      /\ \A o \in Objects : e.waiting[o] = Without(d.waiting[o], t)
  BY <1>2, <1>7, EventDetachedIs
<1> HIDE DEF e
<1>9. /\ Good(W, a)
      /\ \A u \in Tasks : Linked(a, u) <=> Linked(e, u) \/ u = t
      /\ Served(e) /\ e.priority[t] <= e.priority[e.current] => Served(a)
      /\ Framed(a, e) /\ a.pending = e.pending /\ Ready(a, t) /\ OthersReady(a, e, t)
      /\ Sleeping(a) = Sleeping(e) /\ a.wake = e.wake /\ a.terminating = e.terminating
      /\ a.suspended = e.suspended /\ a.waiting = e.waiting
  BY <1>2, <1>7, <1>8, AddedIs
<1> HIDE DEF a
<1>10. Asked(j, a) /\ (c => j.pendsv \/ j.missed)
  <2>1. c \in BOOLEAN
    OBVIOUS
  <2>2. a \in Kernels
    BY <1>9 DEF Good, Sound
  <2> HIDE DEF c
  <2> QED
    BY <1>6, <2>1, <2>2, AsksIs
<1>11. /\ Good(W, j)
       /\ \A u \in Tasks : Linked(j, u) <=> Linked(a, u)
       /\ Served(j) <=> Served(a)
       /\ \A u : OthersReady(j, a, u)
  BY <1>9, <1>10, SameIs DEF Asked
<1>12. Runs(k) => Runs(j)
  <2>1. ASSUME Served(k), ~ c PROVE Served(j)
    <3>1. k.priority[t] \in Nat /\ k.priority[k.current] \in Nat
      BY <1>1, <1>2, PrioritiesAre DEF Kernels
    <3>2. e.priority[t] <= e.priority[e.current]
      BY <1>7, <1>8, <2>1, <3>1 DEF Framed
    <3> QED
      BY <1>7, <1>8, <1>9, <1>11, <2>1, <3>2
  <2>2. k.missed => j.missed
    BY <1>7, <1>8, <1>9, <1>10 DEF Framed, Asked
  <2>3. k.pendsv => j.pendsv
    BY <1>7, <1>8, <1>9, <1>10 DEF Framed, Asked
  <2> QED
    BY <1>10, <2>1, <2>2, <2>3 DEF Runs
<1>13. /\ Ticked(j, k) /\ (k.pendsv => j.pendsv)
       /\ j.tick = k.tick /\ j.pended = k.pended /\ j.ticking = k.ticking
  BY <1>7, <1>8, <1>9, <1>10 DEF Framed, Asked, SameLists, Ticked
<1>14. /\ Sleeping(j) = Sleeping(k) \ {t}
       /\ j.terminating = k.terminating /\ Range(j.pending) = Range(k.pending) \ {t}
       /\ \A u \in Tasks : u /= t => j.wake[u] = k.wake[u]
       /\ j.suspended = k.suspended
       /\ \A o \in Objects : j.waiting[o] = Without(k.waiting[o], t)
  BY <1>4, <1>7, <1>8, <1>9, <1>10 DEF Asked, SameLists, Sleeping
<1>15. \A u \in Tasks : Linked(j, u) <=> Linked(k, u)
  BY <1>5, <1>7, <1>8, <1>9, <1>11
<1>16. \A u : OthersReady(j, k, u)
  BY <1>7, <1>8, <1>9, <1>11, Zenon DEF OthersReady
<1> QED
  BY <1>2, <1>3, <1>11, <1>12, <1>13, <1>14, <1>15, <1>16 DEF j, t

\* The end of a tick.
LEMMA EndTickIs ==
    ASSUME NEW W, NEW k, Good(W, k), ~ Due(k), masked \in BOOLEAN
    PROVE  LET j == EndTick(k)
           IN  /\ Good(W, j) /\ (Runs(k) => Runs(j)) /\ Ticked(j, k)
               /\ \A u \in Tasks : Linked(j, u) <=> Linked(k, u)
               /\ j.pending = k.pending /\ j.terminating = k.terminating
               /\ \A u : OthersReady(j, k, u)
               /\ j.suspended = k.suspended /\ j.waiting = k.waiting
               /\ Sleeping(j) = Sleeping(k) /\ j.wake = k.wake
               /\ (k.pendsv => j.pendsv)
               /\ j.tick = k.tick /\ j.pended = k.pended /\ ~ j.ticking
<1> DEFINE e == [k EXCEPT !.ticking = FALSE]
           r == ResetNextTaskUnblockTime(e)
           j == EndTick(k)
<1>1. k \in Kernels /\ ListsOK(W, k) /\ Apart(k) /\ Top(k) /\ DelaysOK(k)
  BY DEF Good, Sound
<1>2. /\ e \in Kernels
      /\ e.ready = k.ready /\ e.delayed = k.delayed /\ e.overflow = k.overflow
      /\ e.pending = k.pending /\ e.suspended = k.suspended /\ e.terminating = k.terminating
      /\ e.waiting = k.waiting /\ e.priority = k.priority /\ e.wake = k.wake
      /\ e.current = k.current /\ e.top = k.top /\ e.tick = k.tick
      /\ e.notify = k.notify /\ e.locked = k.locked /\ e.pended = k.pended
      /\ e.missed = k.missed /\ e.pendsv = k.pendsv /\ ~ e.ticking
      /\ e.base = k.base /\ e.order = k.order
  BY <1>1 DEF Kernels
<1>3. j = Slices(r)
  BY DEF EndTick
<1> HIDE DEF j, e
<1>4. /\ r \in Kernels
      /\ r = [e EXCEPT !.unblock = r.unblock]
      /\ \A t \in Range(k.delayed) : r.unblock <= k.wake[t]
  <2>1. Sorted(e.delayed, e.wake)
    BY <1>1, <1>2 DEF DelaysOK
  <2> QED
    BY <1>2, <2>1, ResetBounds
<1> HIDE DEF r
<1>5. /\ r.ready = k.ready /\ r.delayed = k.delayed /\ r.overflow = k.overflow
      /\ r.pending = k.pending /\ r.suspended = k.suspended /\ r.terminating = k.terminating
      /\ r.waiting = k.waiting /\ r.priority = k.priority /\ r.wake = k.wake
      /\ r.current = k.current /\ r.top = k.top /\ r.tick = k.tick
      /\ r.notify = k.notify /\ r.locked = k.locked /\ r.pended = k.pended
      /\ r.missed = k.missed /\ r.pendsv = k.pendsv /\ ~ r.ticking
      /\ r.base = k.base /\ r.order = k.order
  BY <1>2, <1>4 DEF Kernels
<1>6. \A t \in Range(k.delayed) : k.tick < k.wake[t]
  <2>1. k.tick \in Nat /\ \A u \in Tasks : k.wake[u] \in Nat
    BY <1>1, TicksAre DEF Kernels
  <2>2. k.delayed \in Seq(Tasks)
    BY <1>1 DEF Kernels
  <2>3. Range(k.delayed) \subseteq Tasks
    BY <2>2 DEF Range
  <2>4. k.delayed /= <<>> =>
            /\ Head(k.delayed) \in Tasks
            /\ \A x \in Range(k.delayed) : k.wake[Head(k.delayed)] <= k.wake[x]
    BY <1>1, <2>1, <2>2, <2>3, HeadIsLeast DEF DelaysOK
  <2>5. k.delayed = <<>> => Range(k.delayed) = {}
    BY DEF Range
  <2>6. k.delayed /= <<>> => k.tick < k.wake[Head(k.delayed)]
    BY <2>1, <2>4 DEF Due
  <2> TAKE t \in Range(k.delayed)
  <2>7. /\ k.delayed /= <<>> /\ k.wake[Head(k.delayed)] \in Nat /\ k.wake[t] \in Nat
        /\ k.wake[Head(k.delayed)] <= k.wake[t]
    BY <2>1, <2>3, <2>4, <2>5
  <2> QED
    BY <2>1, <2>6, <2>7
<1>7. Good(W, r)
  <2>1. ListsOK(W, r) /\ Apart(r) /\ Top(r)
    BY <1>1, <1>5 DEF ListsOK, Apart, Top
  <2>2. DelaysOK(r)
    BY <1>1, <1>4, <1>5, <1>6 DEF DelaysOK
  <2> QED
    BY <1>4, <2>1, <2>2 DEF Good, Sound
<1>8. Asked(j, r)
  BY <1>3, <1>4, SlicesIs
<1>9. /\ Good(W, j)
      /\ \A u \in Tasks : Linked(j, u) <=> Linked(r, u)
      /\ Served(j) <=> Served(r)
      /\ \A u : OthersReady(j, r, u)
  BY <1>7, <1>8, SameIs DEF Asked
<1>10. (\A u \in Tasks : Linked(r, u) <=> Linked(k, u)) /\ (Served(r) <=> Served(k))
  BY <1>5 DEF Linked, Served
<1>11. Runs(k) => Runs(j)
  BY <1>5, <1>8, <1>9, <1>10 DEF Runs, Asked
<1>12. Ticked(j, k) /\ (k.pendsv => j.pendsv)
       /\ j.tick = k.tick /\ j.pended = k.pended /\ ~ j.ticking
       /\ j.pending = k.pending /\ j.terminating = k.terminating
       /\ j.suspended = k.suspended /\ j.waiting = k.waiting
       /\ Sleeping(j) = Sleeping(k) /\ j.wake = k.wake
  BY <1>5, <1>8 DEF Asked, SameLists, Ticked, Sleeping
<1>13. \A u : OthersReady(j, k, u)
  BY <1>5, <1>9 DEF OthersReady, Ready
<1> QED
  BY <1>9, <1>10, <1>11, <1>12, <1>13 DEF j

-----------------------------------------------------------------------------
\* The switch of the context takes a task of the highest ready priority.
Switched(k) == [SwitchContext(k) EXCEPT !.pendsv = FALSE]

LEMMA SwitchIs ==
    ASSUME NEW W, NEW k, Good(W, k), NEW q \in Priorities, k.ready[q].items /= <<>>
    PROVE  LET j == Switched(k)
           IN  /\ Good(W, j) /\ Runs(j)
               /\ \A u \in Tasks : Linked(j, u) <=> Linked(k, u)
               /\ \A p \in Priorities : j.ready[p].items = k.ready[p].items
               /\ j.pending = k.pending /\ j.terminating = k.terminating
               /\ j.suspended = k.suspended /\ j.waiting = k.waiting
               /\ Sleeping(j) = Sleeping(k) /\ j.wake = k.wake
               /\ j.priority = k.priority /\ j.base = k.base /\ j.order = k.order
               /\ j.notify = k.notify /\ j.locked = k.locked
               /\ j.tick = k.tick /\ j.pended = k.pended /\ j.ticking = k.ticking
               /\ ~ j.pendsv
               /\ IF k.locked > 0 THEN j.current = k.current /\ j.missed
                  ELSE /\ ~ j.missed /\ Served(j)
                       /\ \E p \in Priorities : j.current \in Range(k.ready[p].items)
<1> DEFINE j == Switched(k)
<1>1. k \in Kernels /\ ListsOK(W, k) /\ Apart(k) /\ Top(k) /\ DelaysOK(k)
  BY DEF Good, Sound
<1>2. CASE k.locked > 0
  <2>1. j = [k EXCEPT !.missed = TRUE, !.pendsv = FALSE]
    BY <1>1, <1>2 DEF Switched, SwitchContext, Kernels
  <2> HIDE DEF j
  <2>2. SameLists(j, k) /\ j.missed /\ ~ j.pendsv
        /\ j.base = k.base /\ j.order = k.order
        /\ j.notify = k.notify /\ j.locked = k.locked /\ j.pended = k.pended
    BY <1>1, <2>1 DEF SameLists, Kernels
  <2>3. /\ Good(W, j)
        /\ \A u \in Tasks : Linked(j, u) <=> Linked(k, u)
    BY <2>2, SameIs
  <2> QED
    BY <1>2, <2>2, <2>3 DEF SameLists, Runs, Sleeping, j
<1>3. CASE ~ (k.locked > 0)
  <2> DEFINE m == [k EXCEPT !.missed = FALSE]
             S == {p \in 0..k.top : k.ready[p].items /= <<>>}
             top == Max(S)
  <2>1. m.ready = k.ready /\ m.top = k.top
    BY <1>1 DEF Kernels
  <2>2. SwitchContext(k) = [m EXCEPT !.current = NextEntry(k.ready[top]),
                                     !.ready[top] = Advanced(k.ready[top]),
                                     !.top = top]
    BY <1>3, <2>1 DEF SwitchContext, SelectHighestPriorityTask
  <2>3. top \in S /\ \A p \in S : p <= top
    <3>1. k.top \in Nat /\ q \in Nat /\ q <= k.top
      BY <1>1, PrioritiesAre DEF Kernels, Top
    <3>2. q \in S
      BY <3>1
    <3> HIDE DEF S
    <3>3. S \subseteq 0..k.top
      BY DEF S
    <3> QED
      BY <3>1, <3>2, <3>3, GreatestMember
  <2>4. top \in Priorities /\ k.ready[top].items /= <<>>
    <3>1. k.top \in Priorities
      BY <1>1 DEF Kernels
    <3> QED
      BY <2>3, <3>1, SchedulerAssumption DEF Priorities
  <2>5. \A p \in Priorities : k.ready[p].items /= <<>> => p <= top
    <3> TAKE p \in Priorities
    <3> HAVE k.ready[p].items /= <<>>
    <3>1. p <= k.top /\ p \in Nat /\ k.top \in Nat
      BY <1>1, PrioritiesAre DEF Top, Kernels
    <3>2. p \in S
      BY <3>1
    <3> HIDE DEF S
    <3> QED
      BY <2>3, <3>2
  <2> HIDE DEF S, top
  <2>6. /\ RingOf(Advanced(k.ready[top]), Tasks)
        /\ Advanced(k.ready[top]).items = k.ready[top].items
        /\ NextEntry(k.ready[top]) \in Range(k.ready[top].items)
    BY <1>1, <2>4, NextEntryLists DEF ListsOK
  <2>7. NextEntry(k.ready[top]) \in Tasks
    <3>1. k.ready[top].items \in Seq(Tasks)
      BY <1>1, <2>4 DEF ListsOK, RingOf, Listed
    <3> QED
      BY <2>6, <3>1 DEF Range
  <2>8. j = [k EXCEPT !.missed = FALSE, !.pendsv = FALSE,
                      !.current = NextEntry(k.ready[top]),
                      !.ready = [k.ready EXCEPT ![top] = Advanced(k.ready[top])],
                      !.top = top]
    BY <1>1, <2>2 DEF Switched, Kernels
  <2>9. Advanced(k.ready[top]) \in [items : Seq(Tasks), index : Nat]
    BY <2>6, RingTyped
  <2> HIDE DEF j, m
  <2>10. j \in Kernels
    BY <1>1, <2>4, <2>7, <2>8, <2>9 DEF Kernels
  <2>11. /\ j.delayed = k.delayed /\ j.overflow = k.overflow
         /\ j.pending = k.pending /\ j.suspended = k.suspended
         /\ j.terminating = k.terminating
         /\ j.waiting = k.waiting /\ j.priority = k.priority /\ j.wake = k.wake
         /\ j.tick = k.tick /\ j.unblock = k.unblock /\ j.ticking = k.ticking
         /\ j.base = k.base /\ j.order = k.order /\ ~ j.missed
         /\ j.notify = k.notify /\ j.locked = k.locked /\ j.pended = k.pended
         /\ j.current = NextEntry(k.ready[top]) /\ j.top = top /\ ~ j.pendsv
         /\ j.ready = [k.ready EXCEPT ![top] = Advanced(k.ready[top])]
    BY <1>1, <2>8 DEF Kernels
  <2>12. \A p \in Priorities : RingOf(j.ready[p], Tasks) /\ j.ready[p].items = k.ready[p].items
    <3>1. DOMAIN k.ready = Priorities
      BY <1>1 DEF Kernels
    <3>2. \A p \in Priorities : RingOf(k.ready[p], Tasks)
      BY <1>1 DEF ListsOK
    <3>3. j.ready[top] = Advanced(k.ready[top])
      BY <2>4, <2>11, <3>1
    <3>4. \A p \in Priorities : p /= top => j.ready[p] = k.ready[p]
      BY <2>11, <3>1
    <3> QED
      BY <2>6, <3>2, <3>3, <3>4
  <2>13. ListsOK(W, j)
    BY <1>1, <2>11, <2>12 DEF ListsOK
  <2>14. Apart(j) /\ DelaysOK(j)
    BY <1>1, <2>11, <2>12 DEF Apart, DelaysOK
  <2>15. Top(j)
    BY <2>5, <2>11, <2>12 DEF Top
  <2>16. Served(j)
    <3>1. k.priority[j.current] = top
      BY <1>1, <2>4, <2>6, <2>11 DEF Apart
    <3> QED
      BY <2>5, <2>11, <2>12, <3>1 DEF Served
  <2>17. \A u \in Tasks : Linked(j, u) <=> Linked(k, u)
    BY <2>11, <2>12 DEF Linked
  <2>18. \E p \in Priorities : j.current \in Range(k.ready[p].items)
    BY <2>4, <2>6, <2>11
  <2> QED
    BY <1>3, <2>10, <2>11, <2>12, <2>13, <2>14, <2>15, <2>16, <2>17, <2>18
       DEF Good, Sound, Runs, Sleeping, j
<1> QED
  BY <1>2, <1>3

\* A task that an interrupt has readied while the scheduler was suspended.
LEMMA DrainIs ==
    ASSUME NEW W, NEW k, Good(W, k), ~ k.ticking, k.pending /= <<>>, Linked(k, Head(k.pending))
    PROVE  LET j == DrainPendingReadyList(k)
               t == Head(k.pending)
           IN  /\ t \in Range(k.pending) /\ t \in Tasks
               /\ Good(W, j) /\ (Runs(k) => Runs(j)) /\ Ticked(j, k)
               /\ \A u \in Tasks : Linked(j, u) <=> Linked(k, u)
               /\ Range(j.pending) = Range(k.pending) \ {t} /\ \A u : OthersReady(j, k, u)
               /\ j.terminating = k.terminating \ {t}
               /\ j.suspended = k.suspended \ {t}
               /\ \A o \in Objects : j.waiting[o] = Without(k.waiting[o], t)
               /\ Sleeping(j) = Sleeping(k) \ {t}
               /\ \A u \in Tasks : u /= t => j.wake[u] = k.wake[u]
               /\ j.tick = k.tick /\ j.pended = k.pended /\ ~ j.ticking /\ j.pendsv = k.pendsv
<1> DEFINE t == Head(k.pending)
           d == Detached(k, t)
           e == EventDetached(d, t)
           c == k.priority[t] >= k.priority[k.current]
           m == [e EXCEPT !.missed = @ \/ c]
           a == AddTaskToReadyList(m, t)
           j == DrainPendingReadyList(k)
<1>1. k \in Kernels /\ k.pending \in Seq(Tasks)
  BY DEF Good, Sound, Kernels
<1>2. t \in Range(k.pending) /\ t \in Tasks
  BY <1>1, HeadIsLeast DEF Range
<1> HIDE DEF t
<1>3. j = ResetNextTaskUnblockTime(a)
  BY DEF DrainPendingReadyList, t
<1> HIDE DEF j
<1>4. /\ Good(W, d)
      /\ \A u \in Tasks : Linked(d, u) <=> Linked(k, u) /\ u /= t
      /\ Served(k) => Served(d)
      /\ Range(d.delayed) = Range(k.delayed) \ {t}
      /\ Range(d.overflow) = Range(k.overflow) \ {t}
      /\ \A u \in Tasks : u /= t => d.wake[u] = k.wake[u]
      /\ Framed(d, k) /\ d.pending = k.pending /\ OthersReady(d, k, t)
      /\ d.terminating = k.terminating \ {t}
      /\ d.suspended = k.suspended \ {t} /\ d.waiting = k.waiting
  BY <1>2, DetachedIs
<1> HIDE DEF d
<1>5. /\ Good(W, e)
      /\ \A u \in Tasks : Linked(e, u) <=> Linked(d, u)
      /\ Served(d) => Served(e)
      /\ Range(e.pending) = Range(d.pending) \ {t}
      /\ Framed(e, d) /\ OthersReady(e, d, t)
      /\ Sleeping(e) = Sleeping(d) /\ e.wake = d.wake /\ e.terminating = d.terminating
      /\ e.suspended = d.suspended
      /\ \A o \in Objects : e.waiting[o] = Without(d.waiting[o], t)
  BY <1>2, <1>4, EventDetachedIs
<1> HIDE DEF e
<1>6. /\ SameLists(m, e) /\ Ticked(m, e) /\ m.pended = e.pended /\ m.pendsv = e.pendsv
      /\ (m.missed <=> e.missed \/ c)
  <2>1. e \in Kernels
    BY <1>5 DEF Good, Sound
  <2> HIDE DEF c
  <2>2. (e.missed \/ c) \in BOOLEAN
    OBVIOUS
  <2> QED
    BY <2>1, <2>2 DEF SameLists, Ticked, Kernels
<1> HIDE DEF m
<1>7. /\ Good(W, m)
      /\ \A u \in Tasks : Linked(m, u) <=> Linked(e, u)
      /\ Served(m) <=> Served(e)
      /\ OthersReady(m, e, t)
  BY <1>5, <1>6, SameIs
<1>8. /\ Good(W, a)
      /\ \A u \in Tasks : Linked(a, u) <=> Linked(m, u) \/ u = t
      /\ Served(m) /\ m.priority[t] <= m.priority[m.current] => Served(a)
      /\ Framed(a, m) /\ a.pending = m.pending /\ Ready(a, t) /\ OthersReady(a, m, t)
      /\ Sleeping(a) = Sleeping(m) /\ a.wake = m.wake /\ a.terminating = m.terminating
      /\ a.suspended = m.suspended /\ a.waiting = m.waiting
  BY <1>2, <1>4, <1>5, <1>7, AddedIs
<1> HIDE DEF a
<1>9. ~ a.ticking
  BY <1>4, <1>5, <1>6, <1>8 DEF Framed, SameLists
<1>10. /\ Good(W, j)
       /\ \A u \in Tasks : Linked(j, u) <=> Linked(a, u)
       /\ Served(a) => Served(j)
       /\ Framed(j, a) /\ j.pending = a.pending /\ \A u : OthersReady(j, a, u)
       /\ Sleeping(j) = Sleeping(a) /\ j.wake = a.wake /\ j.terminating = a.terminating
       /\ j.suspended = a.suspended /\ j.waiting = a.waiting
  BY <1>3, <1>8, <1>9, ResetIs
<1>11. Runs(k) => Runs(j)
  <2>1. ASSUME Served(k), ~ c PROVE Served(j)
    <3>1. k.priority[t] \in Nat /\ k.priority[k.current] \in Nat
      BY <1>1, <1>2, PrioritiesAre DEF Kernels
    <3>2. m.priority[t] <= m.priority[m.current]
      BY <1>4, <1>5, <1>6, <2>1, <3>1 DEF Framed, SameLists
    <3> QED
      BY <1>4, <1>5, <1>7, <1>8, <1>10, <2>1, <3>2
  <2>2. (k.missed \/ c => j.missed) /\ (k.pendsv => j.pendsv)
    BY <1>4, <1>5, <1>6, <1>8, <1>10 DEF Framed
  <2> QED
    BY <2>1, <2>2 DEF Runs
<1>12. /\ Ticked(j, k) /\ j.pendsv = k.pendsv
       /\ j.tick = k.tick /\ j.pended = k.pended /\ ~ j.ticking
  BY <1>4, <1>5, <1>6, <1>8, <1>9, <1>10 DEF Framed, SameLists, Ticked
<1>13. /\ Sleeping(j) = Sleeping(k) \ {t}
       /\ j.terminating = k.terminating \ {t} /\ Range(j.pending) = Range(k.pending) \ {t}
       /\ \A u \in Tasks : u /= t => j.wake[u] = k.wake[u]
       /\ j.suspended = k.suspended \ {t}
       /\ \A o \in Objects : j.waiting[o] = Without(k.waiting[o], t)
  BY <1>4, <1>5, <1>6, <1>8, <1>10 DEF SameLists, Sleeping
<1>14. \A u \in Tasks : Linked(j, u) <=> Linked(k, u)
  BY <1>2, <1>4, <1>5, <1>7, <1>8, <1>10 DEF t
<1>15. \A u : OthersReady(j, k, u)
  <2>1. \A u \in Tasks : u /= t /\ Ready(k, u) => Ready(e, u)
    BY <1>4, <1>5, Zenon DEF OthersReady
  <2>2. \A u \in Tasks : u /= t /\ Ready(e, u) => Ready(a, u)
    BY <1>7, <1>8, Zenon DEF OthersReady
  <2>3. \A u \in Tasks : Ready(a, u) => Ready(j, u)
    <3>1. \A u : OthersReady(j, a, u)
      BY <1>10
    <3> QED
      BY <3>1 DEF OthersReady
  <2>4. Ready(a, t)
    BY <1>8
  <2> QED
    BY <2>1, <2>2, <2>3, <2>4, Zenon DEF OthersReady
<1> QED
  BY <1>2, <1>10, <1>11, <1>12, <1>13, <1>14, <1>15 DEF j, t

-----------------------------------------------------------------------------
\* An interrupt leaves a task it readies to xTaskResumeAll.
PutToPending(k, t) == [k EXCEPT !.pending = Append(@, t)]

LEMMA PendedIs ==
    ASSUME NEW W, NEW k, Good(W, k), NEW t \in Tasks, t \notin Range(k.pending),
           \A o \in Objects : t \notin Range(k.waiting[o])
    PROVE  LET j == PutToPending(k, t)
           IN  /\ Good(W, j)
               /\ \A u \in Tasks : Linked(j, u) <=> Linked(k, u)
               /\ Served(j) <=> Served(k)
               /\ \A u : OthersReady(j, k, u)
               /\ Range(j.pending) = Range(k.pending) \cup {t}
               /\ Framed(j, k)
               /\ Sleeping(j) = Sleeping(k) /\ j.wake = k.wake /\ j.terminating = k.terminating
               /\ j.suspended = k.suspended /\ j.waiting = k.waiting
<1> DEFINE j == PutToPending(k, t)
           s == Append(k.pending, t)
<1>1. k \in Kernels /\ ListsOK(W, k) /\ Apart(k) /\ Top(k) /\ DelaysOK(k)
  BY DEF Good, Sound
<1>2. Listed(k.pending, Tasks)
  BY <1>1 DEF ListsOK, EventsOK
<1>3. Listed(s, Tasks) /\ Range(s) = Range(k.pending) \cup {t}
  <2>1. k.pending \in Seq(Tasks)
    BY <1>2 DEF Listed
  <2>2. s \in Seq(Tasks) /\ Len(s) = Len(k.pending) + 1
        /\ \A i \in 1..Len(s) : s[i] = IF i = Len(s) THEN t ELSE k.pending[i]
    BY <2>1
  <2>3. Range(s) = Range(k.pending) \cup {t}
    BY <2>1, <2>2 DEF Range
  <2>4. \A i \in 1..Len(k.pending) : k.pending[i] /= t
    BY <2>1 DEF Range
  <2>5. \A a, b \in 1..Len(k.pending) : k.pending[a] = k.pending[b] => a = b
    BY <1>2, <2>1 DEF Listed, IsInjective
  <2> HIDE DEF s
  <2>6. IsInjective(s)
    <3>1. DOMAIN s = 1..Len(s) /\ Len(k.pending) \in Nat
      BY <2>1, <2>2
    <3> SUFFICES ASSUME NEW a \in 1..Len(s), NEW b \in 1..Len(s), s[a] = s[b]
                 PROVE  a = b
      BY <3>1 DEF IsInjective
    <3> QED
      BY <2>2, <2>4, <2>5, <3>1
  <2> QED
    BY <2>2, <2>3, <2>6 DEF Listed
<1>4. j \in Kernels
  <2>1. s \in Seq(Tasks)
    BY <1>3 DEF Listed
  <2> HIDE DEF s
  <2>2. j = [k EXCEPT !.pending = s]
    BY <1>1 DEF PutToPending, s, Kernels
  <2> QED
    BY <1>1, <2>1, <2>2 DEF Kernels
<1>5. /\ j.ready = k.ready /\ j.delayed = k.delayed /\ j.overflow = k.overflow
      /\ j.pending = s /\ j.suspended = k.suspended /\ j.terminating = k.terminating
      /\ j.waiting = k.waiting /\ j.priority = k.priority /\ j.wake = k.wake
      /\ j.current = k.current /\ j.top = k.top /\ j.tick = k.tick /\ j.unblock = k.unblock
      /\ j.ticking = k.ticking
  BY <1>1 DEF Kernels, PutToPending
<1>6. Framed(j, k)
  BY <1>1 DEF Framed, Kernels, PutToPending
<1> HIDE DEF j, s
<1>7. ListsOK(W, j) /\ Top(j) /\ DelaysOK(j) /\ Apart(j)
  <2>1. EventsOK(W, j.waiting, j.pending)
    BY <1>1, <1>3, <1>5 DEF ListsOK, EventsOK
  <2>2. ListsOK(W, j)
    BY <1>1, <1>5, <2>1 DEF ListsOK
  <2> QED
    BY <1>1, <1>5, <2>2 DEF Top, DelaysOK, Apart
<1>8. /\ \A u \in Tasks : Linked(j, u) <=> Linked(k, u)
      /\ Served(j) <=> Served(k)
      /\ Sleeping(j) = Sleeping(k)
      /\ \A u : OthersReady(j, k, u)
  BY <1>5 DEF Linked, Served, Sleeping, OthersReady, Ready
<1> QED
  BY <1>3, <1>4, <1>5, <1>6, <1>7, <1>8 DEF Good, Sound, j

\* What a change of a priority leaves alone.
StaysPut(a, k) ==
    /\ a.current = k.current /\ a.notify = k.notify /\ a.value = k.value
    /\ a.tick = k.tick /\ a.pended = k.pended /\ a.locked = k.locked
    /\ a.missed = k.missed /\ a.pendsv = k.pendsv /\ a.ticking = k.ticking
    /\ a.pending = k.pending
    /\ Sleeping(a) = Sleeping(k) /\ a.wake = k.wake /\ a.terminating = k.terminating
    /\ a.suspended = k.suspended /\ a.waiting = k.waiting

\* The priority of a task that is not ready changes.
SetPriority(k, t, priority, base, order) ==
    [k EXCEPT !.priority[t] = priority, !.base[t] = base, !.order[t] = order]

Reprioritises(a, k, t, n, b, o) ==
    /\ a.priority = [k.priority EXCEPT ![t] = n]
    /\ a.base = [k.base EXCEPT ![t] = b]
    /\ a.order = [k.order EXCEPT ![t] = o]

LEMMA PriorityIs ==
    ASSUME NEW W, NEW k, Good(W, k), NEW t \in Tasks, ~ Ready(k, t),
           NEW p \in Priorities, NEW b \in Priorities, NEW o \in Nat
    PROVE  LET s == SetPriority(k, t, p, b, o)
           IN  /\ Good(W, s)
               /\ \A u \in Tasks : Linked(s, u) <=> Linked(k, u)
               /\ t /= k.current => (Served(s) <=> Served(k))
               /\ Reprioritises(s, k, t, p, b, o)
               /\ StaysPut(s, k) /\ s.ready = k.ready
               /\ \A u : OthersReady(s, k, u)
<1> DEFINE s == SetPriority(k, t, p, b, o)
<1>1. k \in Kernels /\ ListsOK(W, k) /\ Apart(k) /\ Top(k) /\ DelaysOK(k)
  BY DEF Good, Sound
<1>2. /\ s.ready = k.ready /\ s.delayed = k.delayed /\ s.overflow = k.overflow
      /\ s.pending = k.pending /\ s.suspended = k.suspended
      /\ s.terminating = k.terminating
      /\ s.waiting = k.waiting /\ s.wake = k.wake
      /\ s.current = k.current /\ s.top = k.top /\ s.tick = k.tick /\ s.unblock = k.unblock
      /\ s.ticking = k.ticking
  BY <1>1 DEF Kernels, SetPriority
<1>3. /\ s.notify = k.notify /\ s.value = k.value /\ s.pended = k.pended
      /\ s.locked = k.locked /\ s.missed = k.missed /\ s.pendsv = k.pendsv
      /\ s.priority = [k.priority EXCEPT ![t] = p]
      /\ s.base = [k.base EXCEPT ![t] = b] /\ s.order = [k.order EXCEPT ![t] = o]
  BY <1>1 DEF Kernels, SetPriority
<1>4. s \in Kernels
  BY <1>1 DEF Kernels, SetPriority
<1> HIDE DEF s
<1>5. k.priority \in [Tasks -> Priorities] /\ k.current \in Tasks
  BY <1>1 DEF Kernels
<1>6. \A q \in Priorities : t \notin Range(k.ready[q].items)
  BY DEF Ready
<1>7. \A q \in Priorities : \A u \in Range(k.ready[q].items) : s.priority[u] = k.priority[u]
  <2> TAKE q \in Priorities
  <2>1. k.ready[q].items \in Seq(Tasks)
    BY <1>1 DEF ListsOK, RingOf, Listed
  <2>2. Range(k.ready[q].items) \subseteq Tasks
    BY <2>1 DEF Range
  <2> QED
    BY <1>3, <1>5, <1>6, <2>2
<1>8. Apart(s)
  BY <1>1, <1>2, <1>7 DEF Apart
<1>9. ListsOK(W, s) /\ Top(s) /\ DelaysOK(s)
  BY <1>1, <1>2 DEF ListsOK, Top, DelaysOK
<1>10. /\ \A u \in Tasks : Linked(s, u) <=> Linked(k, u)
       /\ Sleeping(s) = Sleeping(k)
       /\ \A u : OthersReady(s, k, u)
  BY <1>2 DEF Linked, Sleeping, OthersReady, Ready
<1>11. t /= k.current => (Served(s) <=> Served(k))
  BY <1>2, <1>3, <1>5 DEF Served
<1> QED
  BY <1>2, <1>3, <1>4, <1>8, <1>9, <1>10, <1>11 DEF Good, Sound, StaysPut, Reprioritises, s

\* A task is taken from the ready list of its priority.
TakeFromReady(k, t) == [k EXCEPT !.ready[k.priority[t]] = RemoveItem(@, t)]

LEMMA UnreadiedIs ==
    ASSUME NEW W, NEW k, Good(W, k), NEW t \in Tasks, t \in Range(k.ready[k.priority[t]].items)
    PROVE  LET d == TakeFromReady(k, t)
           IN  /\ Good(W, d)
               /\ \A u \in Tasks : Linked(d, u) <=> Linked(k, u) /\ u /= t
               /\ ~ Ready(d, t)
               /\ \A p \in Priorities : d.ready[p].items /= <<>> => k.ready[p].items /= <<>>
               /\ Framed(d, k) /\ d.pending = k.pending
               /\ Sleeping(d) = Sleeping(k) /\ d.wake = k.wake
               /\ OthersReady(d, k, t) /\ d.terminating = k.terminating
               /\ d.suspended = k.suspended /\ d.waiting = k.waiting
<1> DEFINE d == TakeFromReady(k, t)
           q == k.priority[t]
<1>1. k \in Kernels /\ ListsOK(W, k) /\ Apart(k) /\ Top(k) /\ DelaysOK(k)
  BY DEF Good, Sound
<1>2. q \in Priorities /\ \A p \in Priorities : p /= q => t \notin Range(k.ready[p].items)
  BY <1>1 DEF Kernels, Apart
<1>3. /\ d.ready = [k.ready EXCEPT ![q] = RemoveItem(k.ready[q], t)]
      /\ d.delayed = k.delayed /\ d.overflow = k.overflow
      /\ d.wake = k.wake
      /\ d.suspended = k.suspended /\ d.terminating = k.terminating
      /\ d.pending = k.pending /\ d.waiting = k.waiting /\ d.priority = k.priority
      /\ d.current = k.current /\ d.top = k.top
      /\ d.tick = k.tick /\ d.unblock = k.unblock /\ d.ticking = k.ticking
  BY <1>1, <1>2 DEF TakeFromReady, Kernels
<1>4. k.ready \in [Priorities -> [items : Seq(Tasks), index : Nat]]
  BY <1>1 DEF Kernels
<1>5. /\ RingOf(d.ready[q], Tasks)
      /\ Range(d.ready[q].items) = Range(k.ready[q].items) \ {t}
  <2>1. RingOf(k.ready[q], Tasks)
    BY <1>1, <1>2 DEF ListsOK
  <2>2. d.ready[q] = RemoveItem(k.ready[q], t)
    BY <1>2, <1>3, <1>4
  <2> QED
    BY <2>1, <2>2, RemoveItemLists
<1> HIDE DEF q
<1>6. \A p \in Priorities : RingOf(d.ready[p], Tasks)
          /\ Range(d.ready[p].items) = Range(k.ready[p].items) \ {t}
  <2> TAKE p \in Priorities
  <2>1. CASE p = q
    BY <1>5, <2>1
  <2>2. CASE p /= q
    <3>1. d.ready[p] = k.ready[p]
      BY <1>3, <1>4, <2>2
    <3> QED
      BY <1>1, <1>2, <2>2, <3>1 DEF ListsOK
  <2> QED
    BY <2>1, <2>2
<1>7. d \in Kernels
  <2>1. d.ready \in [Priorities -> [items : Seq(Tasks), index : Nat]]
    <3>1. \A p \in Priorities : d.ready[p] \in [items : Seq(Tasks), index : Nat]
      BY <1>6, RingTyped
    <3> QED
      BY <1>3, <1>4, <3>1
  <2> QED
    BY <1>1, <2>1 DEF TakeFromReady, Kernels
<1>8. Framed(d, k)
  BY <1>1 DEF Framed, TakeFromReady, Kernels
<1> HIDE DEF d
<1>9. ListsOK(W, d)
  BY <1>1, <1>3, <1>6 DEF ListsOK
<1>10. Apart(d)
  BY <1>1, <1>3, <1>6 DEF Apart
<1>11. /\ t \notin Range(k.delayed) /\ t \notin Range(k.overflow)
       /\ t \notin k.suspended /\ t \notin k.terminating
  BY <1>1, <1>2 DEF Apart, q
<1>12. \A u \in Tasks : Linked(d, u) <=> Linked(k, u) /\ u /= t
  <2> TAKE u \in Tasks
  <2>1. \A p \in Priorities :
            u \in Range(d.ready[p].items) <=> u \in Range(k.ready[p].items) /\ u /= t
    BY <1>6
  <2>2. /\ u \in Range(d.delayed) <=> u \in Range(k.delayed) /\ u /= t
        /\ u \in Range(d.overflow) <=> u \in Range(k.overflow) /\ u /= t
        /\ u \in d.suspended <=> u \in k.suspended /\ u /= t
        /\ u \in d.terminating <=> u \in k.terminating /\ u /= t
    BY <1>3, <1>11
  <2> QED
    BY <2>1, <2>2, Zenon DEF Linked
<1>13. \A p \in Priorities : d.ready[p].items /= <<>> => k.ready[p].items /= <<>>
  <2> TAKE p \in Priorities
  <2> HAVE d.ready[p].items /= <<>>
  <2>1. d.ready[p].items \in Seq(Tasks)
    BY <1>6 DEF RingOf, Listed
  <2>2. Range(d.ready[p].items) /= {}
    BY <2>1, HeadIsLeast
  <2>3. Range(k.ready[p].items) /= {}
    BY <1>6, <2>2
  <2> QED
    BY <2>3 DEF Range
<1>14. Top(d) /\ DelaysOK(d) /\ Sleeping(d) = Sleeping(k)
  BY <1>1, <1>3, <1>13 DEF Top, DelaysOK, Sleeping
<1>15. OthersReady(d, k, t) /\ ~ Ready(d, t)
  BY <1>6 DEF OthersReady, Ready
<1> QED
  BY <1>3, <1>7, <1>8, <1>9, <1>10, <1>12, <1>13, <1>14, <1>15 DEF Good, Sound, d

\* A task of another priority: moved to the ready list of its new priority if it is
\* ready.
Moved(k, t, n, b, o) ==
    IF t \in Members(k.ready[k.priority[t]])
    THEN AddTaskToReadyList(SetPriority(TakeFromReady(k, t), t, n, b, o), t)
    ELSE SetPriority(k, t, n, b, o)

\* With the priority n of t the current task still is of the highest ready priority.
StaysServed(k, t, n) ==
    IF t = k.current THEN k.priority[t] <= n ELSE Ready(k, t) => n <= k.priority[k.current]

LEMMA MovedIs ==
    ASSUME NEW W, NEW k, Good(W, k), NEW t \in Tasks,
           NEW n \in Priorities, NEW b \in Priorities, NEW o \in Nat
    PROVE  LET a == Moved(k, t, n, b, o)
           IN  /\ Good(W, a)
               /\ \A u \in Tasks : Linked(a, u) <=> Linked(k, u)
               /\ Served(k) /\ StaysServed(k, t, n) => Served(a)
               /\ Reprioritises(a, k, t, n, b, o)
               /\ StaysPut(a, k)
               /\ \A u : OthersReady(a, k, u)
<1> DEFINE old == k.priority[t]
           d == TakeFromReady(k, t)
           s == SetPriority(d, t, n, b, o)
           r == SetPriority(k, t, n, b, o)
<1>1. /\ k \in Kernels /\ ListsOK(W, k) /\ Apart(k)
      /\ k.priority \in [Tasks -> Priorities] /\ k.base \in [Tasks -> Priorities]
      /\ k.current \in Tasks
  BY DEF Good, Sound, Kernels
<1>2. old \in Priorities
  BY <1>1
<1>3. IF t \in Members(k.ready[old]) THEN Moved(k, t, n, b, o) = AddTaskToReadyList(s, t)
      ELSE Moved(k, t, n, b, o) = r
  BY DEF Moved
<1>4. CASE t \in Members(k.ready[old])
  <2>1. t \in Range(k.ready[old].items)
    BY <1>4 DEF Members
  <2>2. /\ Good(W, d)
        /\ \A u \in Tasks : Linked(d, u) <=> Linked(k, u) /\ u /= t
        /\ ~ Ready(d, t)
        /\ \A p \in Priorities : d.ready[p].items /= <<>> => k.ready[p].items /= <<>>
        /\ Framed(d, k) /\ d.pending = k.pending
        /\ Sleeping(d) = Sleeping(k) /\ d.wake = k.wake
        /\ OthersReady(d, k, t) /\ d.terminating = k.terminating
        /\ d.suspended = k.suspended /\ d.waiting = k.waiting
    BY <2>1, UnreadiedIs
  <2>3. Ready(k, t) /\ Linked(k, t)
    BY <1>2, <2>1 DEF Ready, Linked
  <2> HIDE DEF d
  <2>4. /\ Good(W, s)
        /\ \A u \in Tasks : Linked(s, u) <=> Linked(d, u)
        /\ Reprioritises(s, d, t, n, b, o)
        /\ StaysPut(s, d) /\ s.ready = d.ready
        /\ \A u : OthersReady(s, d, u)
    BY <1>2, <2>2, PriorityIs
  <2> HIDE DEF s
  <2> DEFINE a == AddTaskToReadyList(s, t)
  <2>5. /\ Good(W, a)
        /\ \A u \in Tasks : Linked(a, u) <=> Linked(s, u) \/ u = t
        /\ Served(s) /\ s.priority[t] <= s.priority[s.current] => Served(a)
        /\ Ready(a, t)
        /\ \A u : OthersReady(a, s, u)
        /\ Framed(a, s) /\ a.pending = s.pending
        /\ Sleeping(a) = Sleeping(s) /\ a.wake = s.wake /\ a.terminating = s.terminating
        /\ a.suspended = s.suspended /\ a.waiting = s.waiting
    <3>1. ~ Linked(s, t)
      BY <2>2, <2>4
    <3>2. Good(W, s)
      BY <2>4
    <3> HIDE DEF a
    <3> QED
      BY <3>1, <3>2, AddedIs DEF a
  <2> HIDE DEF a
  <2>6. ASSUME Served(k), StaysServed(k, t, n)
        PROVE  Served(a)
    <3>1. d.priority = k.priority /\ d.current = k.current
      BY <2>2 DEF Framed
    <3>2. /\ s.priority[t] = n
          /\ s.priority[k.current] = IF t = k.current THEN n ELSE k.priority[k.current]
      BY <1>1, <2>4, <3>1 DEF StaysPut, Reprioritises
    <3>3. n \in Nat /\ old \in Nat /\ k.priority[k.current] \in Nat
      BY <1>1, <1>2, PrioritiesAre
    <3>4. s.priority[t] <= s.priority[k.current]
      BY <2>3, <2>6, <3>2, <3>3 DEF StaysServed
    <3>5. k.priority[k.current] <= s.priority[k.current]
      BY <2>6, <3>2, <3>3 DEF StaysServed
    <3>6. Served(s)
      <4> SUFFICES ASSUME NEW p \in Priorities, s.ready[p].items /= <<>>
                   PROVE  p <= s.priority[k.current]
        BY <2>4, <3>1 DEF Served, StaysPut
      <4>1. p <= k.priority[k.current]
        BY <2>2, <2>4, <2>6 DEF Served
      <4>2. p \in Nat /\ s.priority[k.current] \in Nat
        BY <3>2, <3>3, PrioritiesAre
      <4> QED
        BY <3>3, <3>5, <4>1, <4>2
    <3> QED
      BY <2>4, <2>5, <3>1, <3>4, <3>6 DEF StaysPut
  <2>7. \A u \in Tasks : Linked(a, u) <=> Linked(k, u)
    BY <2>2, <2>3, <2>4, <2>5
  <2>8. \A u : OthersReady(a, k, u)
    <3>1. OthersReady(d, k, t) /\ OthersReady(s, d, t) /\ OthersReady(a, s, t) /\ Ready(a, t)
      BY <2>2, <2>4, <2>5
    <3>2. \A v \in Tasks : Ready(k, v) => Ready(a, v)
      BY <3>1 DEF OthersReady
    <3> QED
      BY <3>2 DEF OthersReady
  <2> QED
    BY <1>3, <1>4, <2>2, <2>4, <2>5, <2>6, <2>7, <2>8 DEF Framed, StaysPut, Reprioritises, a
<1>5. CASE t \notin Members(k.ready[old])
  <2>1. ~ Ready(k, t)
    BY <1>1, <1>5 DEF Apart, Ready, Members
  <2>2. /\ Good(W, r)
        /\ \A u \in Tasks : Linked(r, u) <=> Linked(k, u)
        /\ t /= k.current => (Served(r) <=> Served(k))
        /\ Reprioritises(r, k, t, n, b, o)
        /\ StaysPut(r, k) /\ r.ready = k.ready
        /\ \A u : OthersReady(r, k, u)
    BY <1>2, <2>1, PriorityIs
  <2> HIDE DEF r
  <2>3. ASSUME Served(k), StaysServed(k, t, n)
        PROVE  Served(r)
    <3>1. CASE t /= k.current
      BY <2>2, <2>3, <3>1
    <3>2. CASE t = k.current
      <4>1. old <= n /\ r.priority[k.current] = n
        BY <1>1, <2>2, <2>3, <3>2 DEF StaysServed, Reprioritises
      <4>2. n \in Nat /\ old \in Nat
        BY <1>2, PrioritiesAre
      <4> SUFFICES ASSUME NEW p \in Priorities, r.ready[p].items /= <<>>
                   PROVE  p <= n
        BY <2>2, <4>1 DEF Served, StaysPut
      <4>3. p <= old /\ p \in Nat
        BY <2>2, <2>3, <3>2, PrioritiesAre DEF Served, StaysPut
      <4> QED
        BY <4>1, <4>2, <4>3
    <3> QED
      BY <3>1, <3>2
  <2> QED
    BY <1>3, <1>5, <2>2, <2>3
<1> QED
  BY <1>4, <1>5

-----------------------------------------------------------------------------
\* A switch is recorded for the end of the scheduler's suspension, or for the next
\* tick.
MissedIf(k, c) == [k EXCEPT !.missed = @ \/ c]

LEMMA MissedIs ==
    ASSUME NEW W, NEW k, Good(W, k), NEW c \in BOOLEAN
    PROVE  LET j == MissedIf(k, c)
           IN  /\ Good(W, j)
               /\ \A u \in Tasks : Linked(j, u) <=> Linked(k, u)
               /\ Served(j) <=> Served(k)
               /\ \A u : OthersReady(j, k, u)
               /\ j.current = k.current /\ j.notify = k.notify
               /\ j.tick = k.tick /\ j.pended = k.pended /\ j.locked = k.locked
               /\ j.ticking = k.ticking /\ j.pending = k.pending
               /\ j.pendsv = k.pendsv /\ (c \/ k.missed => j.missed)
               /\ Sleeping(j) = Sleeping(k) /\ j.wake = k.wake /\ j.terminating = k.terminating
               /\ j.suspended = k.suspended /\ j.waiting = k.waiting
               /\ j.priority = k.priority /\ j.base = k.base /\ j.order = k.order
               /\ j.missed <=> (k.missed \/ c)
<1> DEFINE j == MissedIf(k, c)
<1>1. k \in Kernels
  BY DEF Good, Sound
<1>2. SameLists(j, k)
  BY <1>1 DEF SameLists, MissedIf, Kernels
<1>3. /\ j.notify = k.notify /\ j.pended = k.pended /\ j.locked = k.locked
      /\ j.pendsv = k.pendsv /\ (c \/ k.missed => j.missed)
      /\ j.base = k.base /\ j.order = k.order
      /\ j.missed <=> (k.missed \/ c)
  BY <1>1 DEF MissedIf, Kernels
<1> HIDE DEF j
<1>4. /\ Good(W, j)
      /\ \A u \in Tasks : Linked(j, u) <=> Linked(k, u)
      /\ Served(j) <=> Served(k)
      /\ \A u : OthersReady(j, k, u)
  BY <1>2, SameIs
<1> QED
  BY <1>2, <1>3, <1>4 DEF SameLists, Sleeping, j

LEMMA IdleStays ==
    ASSUME NEW k, NEW j, \A u : OthersReady(j, k, u), Ready(k, Idle), Idle \in Tasks
    PROVE  Ready(j, Idle)
<1>1. OthersReady(j, k, 0) /\ OthersReady(j, k, 1) /\ (Idle /= 0 \/ Idle /= 1)
  OBVIOUS
<1> QED
  BY <1>1 DEF OthersReady

-----------------------------------------------------------------------------
\* xTaskRemoveFromEventList: the first task on the event list is ready, or it is left
\* to xTaskResumeAll.
LEMMA RemovedIs ==
    ASSUME NEW W, NEW k, Good(W, k), \A u \in Tasks : Linked(k, u),
           NEW o \in Objects, k.waiting[o] /= <<>>
    PROVE  LET j == RemoveFromEventList(k, o)
               t == Head(k.waiting[o])
           IN  /\ t \in Range(k.waiting[o]) /\ t \in Tasks
               /\ Good(W, j) /\ Ticked(j, k)
               /\ \A u \in Tasks : Linked(j, u)
               /\ \A u : OthersReady(j, k, u)
               /\ \A p \in Objects : j.waiting[p] = Without(k.waiting[p], t)
               /\ j.tick = k.tick /\ j.pended = k.pended /\ j.ticking = k.ticking
               /\ j.pendsv = k.pendsv
               /\ j.missed <=> (k.missed \/ k.priority[t] > k.priority[k.current])
               /\ j.terminating \subseteq k.terminating
               /\ IF k.locked = 0
                  THEN /\ Range(j.pending) = Range(k.pending)
                       /\ Down(j) = Down(k) \ {t} /\ Ready(j, t)
                  ELSE /\ Range(j.pending) = Range(k.pending) \cup {t}
                       /\ Down(j) = Down(k)
<1> DEFINE t == Head(k.waiting[o])
           c == k.priority[t] > k.priority[k.current]
           e == EventDetached(k, t)
           m == MissedIf(e, c)
           a == AddTaskToReadyList(Detached(m, t), t)
           p == PutToPending(m, t)
           j == RemoveFromEventList(k, o)
<1>1. /\ k \in Kernels /\ k.waiting[o] \in Seq(Tasks)
      /\ Listed(k.waiting[o], Tasks) /\ EventsOK(W, k.waiting, k.pending)
  BY DEF Good, Sound, ListsOK, EventsOK, Listed
<1>2. t \in Range(k.waiting[o]) /\ t \in Tasks
  BY <1>1, HeadIsLeast DEF Range
<1>3. t \notin Range(k.pending) /\ Linked(k, t)
  BY <1>1, <1>2 DEF EventsOK
<1>4. j = IF k.locked = 0 THEN a ELSE p
  BY DEF RemoveFromEventList, MissedIf, PutToPending
<1> HIDE DEF t, j
<1>5. /\ Good(W, e)
      /\ \A u \in Tasks : Linked(e, u) <=> Linked(k, u)
      /\ Range(e.pending) = Range(k.pending) \ {t}
      /\ Framed(e, k) /\ \A u : OthersReady(e, k, u)
      /\ Sleeping(e) = Sleeping(k) /\ e.terminating = k.terminating
      /\ e.suspended = k.suspended
      /\ \A q \in Objects : e.waiting[q] = Without(k.waiting[q], t)
  BY <1>2, EventDetachedIs
<1>6. c \in BOOLEAN
  OBVIOUS
<1> HIDE DEF c, e
<1>7. /\ Good(W, m)
      /\ \A u \in Tasks : Linked(m, u) <=> Linked(e, u)
      /\ \A u : OthersReady(m, e, u)
      /\ m.current = e.current /\ m.notify = e.notify
      /\ m.tick = e.tick /\ m.pended = e.pended /\ m.locked = e.locked
      /\ m.ticking = e.ticking /\ m.pending = e.pending /\ m.pendsv = e.pendsv
      /\ Sleeping(m) = Sleeping(e) /\ m.terminating = e.terminating
      /\ m.suspended = e.suspended /\ m.waiting = e.waiting
      /\ m.priority = e.priority /\ m.base = e.base /\ m.order = e.order
      /\ m.missed <=> (e.missed \/ c)
  BY <1>5, <1>6, MissedIs
<1> HIDE DEF m
<1>8. /\ \A u : OthersReady(m, k, u)
      /\ \A u \in Tasks : Linked(m, u) <=> Linked(k, u)
      /\ Ticked(m, k) /\ Range(m.pending) = Range(k.pending)
      /\ Down(m) = Down(k) /\ m.terminating = k.terminating
      /\ m.tick = k.tick /\ m.pended = k.pended /\ m.ticking = k.ticking
      /\ m.pendsv = k.pendsv /\ (m.missed <=> k.missed \/ c)
      /\ \A q \in Objects : m.waiting[q] = Without(k.waiting[q], t)
  <2>1. \A u : OthersReady(m, k, u)
    BY <1>5, <1>7 DEF OthersReady
  <2>2. Range(m.pending) = Range(k.pending)
    BY <1>3, <1>5, <1>7
  <2>3. Ticked(m, k) /\ (m.missed <=> k.missed \/ c)
    BY <1>5, <1>7 DEF Framed, Ticked
  <2> QED
    BY <1>5, <1>7, <2>1, <2>2, <2>3 DEF Framed, Down
<1>9. CASE k.locked = 0
  <2>1. Linked(m, t)
    BY <1>2, <1>3, <1>8
  <2>2. /\ Good(W, a)
        /\ \A u \in Tasks : Linked(a, u) <=> Linked(m, u)
        /\ Ready(a, t) /\ \A u : OthersReady(a, m, u)
        /\ Framed(a, m) /\ a.pending = m.pending
        /\ Sleeping(a) = Sleeping(m) \ {t} /\ a.terminating = m.terminating \ {t}
        /\ a.suspended = m.suspended \ {t} /\ a.waiting = m.waiting
    BY <1>2, <1>7, <2>1, ReadiedIs
  <2> HIDE DEF a
  <2>3. /\ \A u : OthersReady(a, k, u)
        /\ \A u \in Tasks : Linked(a, u)
    BY <1>8, <2>2 DEF OthersReady
  <2>4. Ticked(a, k) /\ Down(a) = Down(k) \ {t}
    BY <1>8, <2>2 DEF Framed, Ticked, Down
  <2>5. /\ a.tick = k.tick /\ a.pended = k.pended /\ a.ticking = k.ticking
        /\ a.pendsv = k.pendsv /\ (a.missed <=> k.missed \/ c)
    BY <1>8, <2>2 DEF Framed
  <2> QED
    BY <1>2, <1>4, <1>8, <1>9, <2>2, <2>3, <2>4, <2>5 DEF c, t, j
<1>10. CASE k.locked /= 0
  <2>1. /\ t \notin Range(m.pending)
        /\ \A q \in Objects : t \notin Range(m.waiting[q])
    BY <1>1, <1>3, <1>8, WithoutLists DEF EventsOK
  <2>2. /\ Good(W, p)
        /\ \A u \in Tasks : Linked(p, u) <=> Linked(m, u)
        /\ \A u : OthersReady(p, m, u)
        /\ Range(p.pending) = Range(m.pending) \cup {t}
        /\ Framed(p, m)
        /\ Sleeping(p) = Sleeping(m) /\ p.terminating = m.terminating
        /\ p.suspended = m.suspended /\ p.waiting = m.waiting
    BY <1>2, <1>7, <2>1, PendedIs
  <2> HIDE DEF p
  <2>3. /\ \A u : OthersReady(p, k, u)
        /\ \A u \in Tasks : Linked(p, u)
    BY <1>8, <2>2 DEF OthersReady
  <2>4. Ticked(p, k) /\ Down(p) = Down(k)
    BY <1>8, <2>2 DEF Framed, Ticked, Down
  <2>5. /\ p.tick = k.tick /\ p.pended = k.pended /\ p.ticking = k.ticking
        /\ p.pendsv = k.pendsv /\ (p.missed <=> k.missed \/ c)
    BY <1>8, <2>2 DEF Framed
  <2> QED
    BY <1>2, <1>4, <1>8, <1>10, <2>2, <2>3, <2>4, <2>5 DEF c, t, j
<1> QED
  BY <1>9, <1>10

\* The part of vTaskPlaceOnEventList that puts the task on the event list.
PutToWait(k, t, o) == [k EXCEPT !.waiting[o] = Insert(@, t, k.order)]

LEMMA QueuedIs ==
    ASSUME NEW W, NEW k, Good(W, k), NEW o \in Objects, NEW t \in Tasks, t \in W,
           t \notin Range(k.pending), \A p \in Objects : t \notin Range(k.waiting[p])
    PROVE  LET j == PutToWait(k, t, o)
           IN  /\ Good(W, j) /\ Framed(j, k)
               /\ \A u \in Tasks : Linked(j, u) <=> Linked(k, u)
               /\ \A u : OthersReady(j, k, u)
               /\ Served(j) <=> Served(k)
               /\ Range(j.waiting[o]) = Range(k.waiting[o]) \cup {t}
               /\ Sorted(k.waiting[o], k.order) => Sorted(j.waiting[o], k.order)
               /\ \A p \in Objects : p /= o => j.waiting[p] = k.waiting[p]
               /\ j.pending = k.pending /\ j.terminating = k.terminating
               /\ Sleeping(j) = Sleeping(k) /\ j.wake = k.wake /\ j.suspended = k.suspended
<1> DEFINE j == PutToWait(k, t, o)
           s == Insert(k.waiting[o], t, k.order)
<1>1. k \in Kernels /\ ListsOK(W, k) /\ Apart(k) /\ Top(k) /\ DelaysOK(k)
  BY DEF Good, Sound
<1>2. Listed(k.waiting[o], Tasks) /\ \A u \in Tasks : k.order[u] \in Nat
  BY <1>1 DEF ListsOK, EventsOK, Kernels
<1>3. /\ Listed(s, Tasks) /\ Range(s) = Range(k.waiting[o]) \cup {t}
      /\ Sorted(k.waiting[o], k.order) => Sorted(s, k.order)
  BY <1>2, InsertKeepsOrder
<1> HIDE DEF s
<1>4. /\ j = [k EXCEPT !.waiting = [k.waiting EXCEPT ![o] = s]]
      /\ k.waiting \in [Objects -> Seq(Tasks)] /\ s \in Seq(Tasks)
  BY <1>1, <1>3 DEF PutToWait, Kernels, Listed, s
<1>5. j.waiting[o] = s /\ \A p \in Objects : p /= o => j.waiting[p] = k.waiting[p]
  BY <1>1, <1>4 DEF Kernels
<1>6. j \in Kernels
  <2>1. [k.waiting EXCEPT ![o] = s] \in [Objects -> Seq(Tasks)]
    BY <1>4
  <2> QED
    BY <1>1, <1>4, <2>1 DEF Kernels
<1>7. /\ j.ready = k.ready /\ j.delayed = k.delayed /\ j.overflow = k.overflow
      /\ j.pending = k.pending /\ j.suspended = k.suspended /\ j.terminating = k.terminating
      /\ j.priority = k.priority /\ j.wake = k.wake
      /\ j.current = k.current /\ j.top = k.top /\ j.tick = k.tick /\ j.unblock = k.unblock
      /\ j.ticking = k.ticking
  BY <1>1, <1>4 DEF Kernels
<1>8. Framed(j, k)
  BY <1>1, <1>4 DEF Framed, Kernels
<1> HIDE DEF j
<1>9. ListsOK(W, j)
  <2>1. EventsOK(W, j.waiting, j.pending)
    BY <1>1, <1>3, <1>5, <1>7 DEF ListsOK, EventsOK
  <2> QED
    BY <1>1, <1>7, <2>1 DEF ListsOK
<1>10. Apart(j) /\ Top(j) /\ DelaysOK(j)
  BY <1>1, <1>7 DEF Apart, Top, DelaysOK
<1>11. /\ \A u \in Tasks : Linked(j, u) <=> Linked(k, u)
       /\ Served(j) <=> Served(k)
       /\ \A u : OthersReady(j, k, u)
  BY <1>7 DEF Linked, Served, OthersReady, Ready
<1> QED
  BY <1>3, <1>5, <1>6, <1>7, <1>8, <1>9, <1>10, <1>11 DEF Good, Sound, Sleeping, j

-----------------------------------------------------------------------------
LEMMA ContainsIs ==
    ASSUME NEW S, NEW s \in Seq(S), NEW x
    PROVE  Contains(s, x) <=> x \in Range(s)
BY DEF Contains, Range

\* The places of a task that is ready, or in one of the other lists.
LEMMA PlacesAre ==
    ASSUME kernel \in Kernels, NEW t \in Tasks
    PROVE  /\ \A p \in Priorities :
                 <<"ready", p>> \in Places(t) <=> t \in Range(kernel.ready[p].items)
           /\ <<"delayed", 0>> \in Places(t) <=> t \in Range(kernel.delayed)
           /\ <<"overflow", 0>> \in Places(t) <=> t \in Range(kernel.overflow)
           /\ <<"suspended", 0>> \in Places(t) <=> t \in kernel.suspended
           /\ <<"terminating", 0>> \in Places(t) <=> t \in kernel.terminating
           /\ \A x \in Places(t) :
                 \/ \E p \in Priorities : x = <<"ready", p>>
                 \/ x \in {<<"delayed", 0>>, <<"overflow", 0>>,
                           <<"suspended", 0>>, <<"terminating", 0>>}
<1> DEFINE A == {q \in Priorities : t \in Members(kernel.ready[q])}
           B == {m \in {"delayed", "overflow"} : Contains(kernel[m], t)}
           C == {m \in {"suspended", "terminating"} : t \in kernel[m]}
<1>1. /\ kernel.delayed \in Seq(Tasks) /\ kernel.overflow \in Seq(Tasks)
  BY DEF Kernels
<1>2. \A p : p \in A <=> p \in Priorities /\ t \in Range(kernel.ready[p].items)
  BY DEF Members
<1>3. /\ "delayed" \in B <=> t \in Range(kernel.delayed)
      /\ "overflow" \in B <=> t \in Range(kernel.overflow)
      /\ B \subseteq {"delayed", "overflow"}
  <2>1. kernel["delayed"] = kernel.delayed /\ kernel["overflow"] = kernel.overflow
    OBVIOUS
  <2>2. /\ Contains(kernel.delayed, t) <=> t \in Range(kernel.delayed)
        /\ Contains(kernel.overflow, t) <=> t \in Range(kernel.overflow)
    BY <1>1, ContainsIs
  <2>3. /\ "delayed" \in B <=> Contains(kernel["delayed"], t)
        /\ "overflow" \in B <=> Contains(kernel["overflow"], t)
        /\ B \subseteq {"delayed", "overflow"}
    BY Zenon
  <2> QED
    BY <2>1, <2>2, <2>3
<1>4. /\ "suspended" \in C <=> t \in kernel.suspended
      /\ "terminating" \in C <=> t \in kernel.terminating
      /\ C \subseteq {"suspended", "terminating"}
  OBVIOUS
<1>5. Places(t) = {<<"ready", p>> : p \in A} \cup {<<l, 0>> : l \in B} \cup {<<l, 0>> : l \in C}
  BY DEF Places
<1> HIDE DEF A, B, C
<1> QED
  BY <1>2, <1>3, <1>4, <1>5

LEMMA OnePlace ==
    ASSUME NEW W, Good(W, kernel), NEW t \in Tasks, Linked(kernel, t)
    PROVE  /\ \E x : Places(t) = {x}
           /\ \A p \in Priorities : <<"ready", p>> \in Places(t) => p = kernel.priority[t]
<1>1. t \in Tasks /\ Linked(kernel, t) /\ Apart(kernel) /\ kernel \in Kernels
  BY DEF Good, Sound
<1>2. \A p \in Priorities : t \in Range(kernel.ready[p].items) => p = kernel.priority[t]
  BY <1>1 DEF Apart
<1>3. ASSUME NEW q \in Priorities, t \in Range(kernel.ready[q].items)
      PROVE  Places(t) = {<<"ready", q>>}
  <2>1. /\ t \notin Range(kernel.delayed) /\ t \notin Range(kernel.overflow)
        /\ t \notin kernel.suspended /\ t \notin kernel.terminating
    BY <1>1, <1>3 DEF Apart
  <2>2. \A p \in Priorities : t \in Range(kernel.ready[p].items) => p = q
    BY <1>2, <1>3
  <2> QED
    BY <1>1, <1>3, <2>1, <2>2, PlacesAre
<1>4. CASE t \in Range(kernel.delayed)
  <2>1. /\ \A p \in Priorities : t \notin Range(kernel.ready[p].items)
        /\ t \notin Range(kernel.overflow)
        /\ t \notin kernel.suspended /\ t \notin kernel.terminating
    BY <1>1, <1>4 DEF Apart
  <2>2. <<"delayed", 0>> \in Places(t)
    BY <1>1, <1>4, PlacesAre
  <2>3. \A x \in Places(t) : x = <<"delayed", 0>>
    BY <1>1, <2>1, PlacesAre
  <2> QED
    BY <2>2, <2>3
<1>5. CASE t \in Range(kernel.overflow)
  <2>1. /\ \A p \in Priorities : t \notin Range(kernel.ready[p].items)
        /\ t \notin Range(kernel.delayed)
        /\ t \notin kernel.suspended /\ t \notin kernel.terminating
    BY <1>1, <1>5 DEF Apart
  <2>2. <<"overflow", 0>> \in Places(t)
    BY <1>1, <1>5, PlacesAre
  <2>3. \A x \in Places(t) : x = <<"overflow", 0>>
    BY <1>1, <2>1, PlacesAre
  <2> QED
    BY <2>2, <2>3
<1>6. CASE t \in kernel.suspended
  <2>1. /\ \A p \in Priorities : t \notin Range(kernel.ready[p].items)
        /\ t \notin Range(kernel.delayed) /\ t \notin Range(kernel.overflow)
        /\ t \notin kernel.terminating
    BY <1>1, <1>6 DEF Apart
  <2>2. <<"suspended", 0>> \in Places(t)
    BY <1>1, <1>6, PlacesAre
  <2>3. \A x \in Places(t) : x = <<"suspended", 0>>
    BY <1>1, <2>1, PlacesAre
  <2> QED
    BY <2>2, <2>3
<1>7. CASE t \in kernel.terminating
  <2>1. /\ \A p \in Priorities : t \notin Range(kernel.ready[p].items)
        /\ t \notin Range(kernel.delayed) /\ t \notin Range(kernel.overflow)
        /\ t \notin kernel.suspended
    BY <1>1, <1>7 DEF Apart
  <2>2. <<"terminating", 0>> \in Places(t)
    BY <1>1, <1>7, PlacesAre
  <2>3. \A x \in Places(t) : x = <<"terminating", 0>>
    BY <1>1, <2>1, PlacesAre
  <2> QED
    BY <2>2, <2>3
<1>8. \E x : Places(t) = {x}
  <2>1. CASE \E p \in Priorities : t \in Range(kernel.ready[p].items)
    BY <1>3, <2>1
  <2> QED
    BY <1>1, <1>4, <1>5, <1>6, <1>7, <2>1 DEF Linked
<1> QED
  BY <1>1, <1>2, <1>8, PlacesAre

LEMMA EventPlace ==
    ASSUME NEW W, Good(W, kernel), NEW t \in Tasks
    PROVE  Cardinality(EventPlaces(t)) <= 1
<1>1. EventsOK(W, kernel.waiting, kernel.pending)
  BY DEF Good, Sound, ListsOK
<1>2. \A x \in EventPlaces(t) :
          \/ x \in Objects /\ t \in Range(kernel.waiting[x])
          \/ x = "pending" /\ t \in Range(kernel.pending)
  BY DEF EventPlaces, Contains, Range
<1>3. \A x, y \in EventPlaces(t) : x = y
  BY <1>1, <1>2 DEF EventsOK
<1>4. EventPlaces(t) = {} \/ \E x : EventPlaces(t) = {x}
  BY <1>3
<1>5. CASE EventPlaces(t) = {}
  BY <1>5, FS_EmptySet
<1>6. CASE \E x : EventPlaces(t) = {x}
  BY <1>6, FS_Singleton
<1> QED
  BY <1>4, <1>5, <1>6

\* A kernel whose lists are as they should be keeps every task in one list.
LEMMA OneListIs ==
    ASSUME NEW W, Good(W, kernel), \A t \in Live : Linked(kernel, t)
    PROVE  OneListEach
<1>1. \A t \in Live :
          /\ Cardinality(Places(t)) = 1
          /\ \A p \in Priorities : <<"ready", p>> \in Places(t) => p = kernel.priority[t]
          /\ Cardinality(EventPlaces(t)) <= 1
  <2> TAKE t \in Live
  <2>1. t \in Tasks /\ Linked(kernel, t)
    BY DEF Live
  <2>2. PICK x : Places(t) = {x}
    BY <2>1, OnePlace
  <2>3. Cardinality(Places(t)) = 1
    BY <2>2, FS_Singleton
  <2> QED
    BY <2>1, <2>3, OnePlace, EventPlace
<1>2. ListsOK(W, kernel)
  BY DEF Good, Sound
<1> QED
  BY <1>1, <1>2 DEF OneListEach, ListsOK, EventsOK, RingOf, Listed

\* An event list that may hold no task is empty.
LEMMA NoEvents ==
    ASSUME NEW k, Good({}, k), NEW o \in Objects
    PROVE  k.waiting[o] = <<>>
<1>1. k.waiting[o] \in Seq(Tasks) /\ Range(k.waiting[o]) = {}
  BY DEF Good, Sound, ListsOK, EventsOK, Listed
<1> QED
  BY <1>1, HeadIsLeast

-----------------------------------------------------------------------------
\* At the start the tasks are ready, in the list of their priority.
LEMMA FirstIs ==
    /\ Tasks = UNION {Range(First[p]) : p \in Priorities}
    /\ \A p \in Priorities : Listed(First[p], Tasks)
    /\ Idle \in Tasks
    /\ FirstPriority \in [Tasks -> Priorities]
    /\ \A p \in Priorities : \A t \in Range(First[p]) : FirstPriority[t] = p
    /\ \A t \in Tasks : t \in Range(First[FirstPriority[t]])
    /\ FirstTop \in Priorities /\ First[FirstTop] /= <<>>
    /\ \A p \in Priorities : First[p] /= <<>> => p <= FirstTop
<1>1. \A p \in Priorities : Listed(First[p], Tasks)
  BY SchedulerAssumption DEF Listed
<1>2. Idle \in Tasks
  BY SchedulerAssumption, PrioritiesAre DEF Tasks
<1>3. \A t \in Tasks : \E p \in Priorities : t \in Range(First[p])
  BY DEF Tasks
<1>4. \A t \in Tasks : FirstPriority[t] \in Priorities /\ t \in Range(First[FirstPriority[t]])
  BY <1>3, Zenon DEF FirstPriority
<1>5. \A p \in Priorities : \A t \in Range(First[p]) : FirstPriority[t] = p
  <2> TAKE p \in Priorities
  <2> TAKE t \in Range(First[p])
  <2>1. t \in Tasks
    BY DEF Tasks
  <2>2. FirstPriority[t] \in Priorities /\ t \in Range(First[FirstPriority[t]])
    BY <1>4, <2>1
  <2>3. FirstPriority[t] /= p => Range(First[FirstPriority[t]]) \cap Range(First[p]) = {}
    BY <2>2, SchedulerAssumption
  <2> QED
    BY <2>2, <2>3
<1>6. FirstPriority \in [Tasks -> Priorities]
  BY <1>4 DEF FirstPriority
<1>7. FirstTop \in Priorities /\ First[FirstTop] /= <<>> /\ \A p \in Priorities : First[p] /= <<>> => p <= FirstTop
  <2> DEFINE S == {p \in Priorities : First[p] /= <<>>}
  <2>1. 0 \in S
    BY SchedulerAssumption, PrioritiesAre DEF Range
  <2>2. S \subseteq 0..MaxPriorities
    BY SchedulerAssumption DEF Priorities
  <2>3. FirstTop = Max(S)
    BY DEF FirstTop
  <2>5. MaxPriorities \in Nat
    BY SchedulerAssumption
  <2> HIDE DEF S
  <2>4. FirstTop \in S /\ \A n \in S : n <= FirstTop
    BY <2>1, <2>2, <2>3, <2>5, GreatestMember
  <2> QED
    BY <2>4 DEF S
<1>8. Tasks = UNION {Range(First[p]) : p \in Priorities}
  BY DEF Tasks
<1> QED
  BY <1>1, <1>2, <1>4, <1>5, <1>6, <1>7, <1>8

\* What the scheduler starts with.
LEMMA StartIs ==
    ASSUME SchedulerInit, NEW W
    PROVE  /\ Good(W, kernel) /\ Served(kernel) /\ \A t \in Tasks : Ready(kernel, t)
           /\ kernel \in Kernels /\ kernel.current \in Tasks
           /\ kernel.pending = <<>> /\ Range(kernel.pending) = {}
           /\ \A o \in Objects : kernel.waiting[o] = <<>>
           /\ Range(kernel.delayed) = {} /\ Range(kernel.overflow) = {}
           /\ kernel.suspended = {} /\ kernel.terminating = {}
           /\ kernel.pended = 0 /\ kernel.locked = 0 /\ ~ kernel.ticking /\ ~ kernel.pendsv
           /\ \A t \in Tasks : kernel.priority[t] = kernel.base[t]
           /\ \A t \in Tasks : kernel.order[t] = MaxPriorities - kernel.priority[t]
<1>1. /\ kernel.current = Last(First[FirstTop])
      /\ kernel.ready = [p \in Priorities |-> [items |-> First[p], index |-> 0]]
      /\ kernel.delayed = <<>> /\ kernel.overflow = <<>> /\ kernel.pending = <<>>
      /\ kernel.suspended = {} /\ kernel.terminating = {}
      /\ kernel.waiting = [o \in Objects |-> <<>>]
      /\ kernel.priority = FirstPriority
      /\ kernel.tick = 0 /\ kernel.unblock = MaxDelay /\ kernel.pended = 0 /\ kernel.locked = 0
      /\ kernel.top = FirstTop /\ ~ kernel.ticking
      /\ kernel.base = FirstPriority
      /\ kernel.order = [t \in Tasks |-> MaxPriorities - FirstPriority[t]]
      /\ ~ kernel.pendsv /\ ~ kernel.missed
  BY DEF SchedulerInit
<1>2. kernel.current \in Range(First[FirstTop])
  <2>1. First[FirstTop] \in Seq(Tasks) /\ First[FirstTop] /= <<>>
    BY FirstIs DEF Listed
  <2> QED
    BY <1>1, <2>1 DEF Last, Range
<1>3. kernel.current \in Tasks
  BY <1>2, FirstIs
<1>4. kernel \in Kernels
  <2>1. \A t \in Tasks : MaxPriorities - FirstPriority[t] \in Nat
    BY FirstIs, SchedulerAssumption DEF Priorities
  <2>2. \A p \in Priorities : First[p] \in Seq(Tasks)
    BY FirstIs DEF Listed
  <2>3. kernel.ready \in [Priorities -> [items : Seq(Tasks), index : Nat]]
    BY <1>1, <2>2
  <2>4. [t \in Tasks |-> MaxPriorities - FirstPriority[t]] \in [Tasks -> Nat]
    BY <2>1
  <2>5. <<>> \in Seq(Tasks)
    OBVIOUS
  <2>6. /\ kernel.current \in Tasks /\ FirstTop \in Priorities
        /\ FirstPriority \in [Tasks -> Priorities]
    BY <1>3, FirstIs
  <2> HIDE DEF Kernels
  <2>7. kernel = [current |-> kernel.current, ready |-> kernel.ready,
                 delayed |-> <<>>, overflow |-> <<>>, pending |-> <<>>,
                 suspended |-> {}, terminating |-> {},
                 waiting |-> [o \in Objects |-> <<>>],
                 priority |-> FirstPriority, base |-> FirstPriority,
                 wake |-> [t \in Tasks |-> 0],
                 order |-> [t \in Tasks |-> MaxPriorities - FirstPriority[t]],
                 notify |-> [t \in Tasks |-> "not_waiting"],
                 value |-> [t \in Tasks |-> 0],
                 tick |-> 0, unblock |-> MaxDelay, pended |-> 0, locked |-> 0,
                 missed |-> FALSE, top |-> FirstTop,
                 entered |-> [t \in Tasks |-> 0], wrapped |-> [t \in Tasks |-> TRUE],
                 pendsv |-> FALSE, ticking |-> FALSE]
    BY DEF SchedulerInit
  <2> DEFINE none == [o \in Objects |-> <<>>]
             order == [t \in Tasks |-> MaxPriorities - FirstPriority[t]]
             states == [t \in Tasks |-> "not_waiting"]
             zero == [t \in Tasks |-> 0]
             all == [t \in Tasks |-> TRUE]
             empty == <<>>
             running == kernel.current
             ready == kernel.ready
             top == FirstTop
             priority == FirstPriority
  <2>8. /\ none \in [Objects -> Seq(Tasks)]
        /\ states \in [Tasks -> {"not_waiting", "waiting", "received"}]
        /\ zero \in [Tasks -> Ticks] /\ zero \in [Tasks -> Nat]
        /\ all \in [Tasks -> BOOLEAN]
    BY <2>5, TicksAre
  <2>9. 0 \in Nat /\ 0 \in Ticks /\ MaxDelay \in Ticks
    BY TicksAre
  <2>10. order \in [Tasks -> Nat] /\ empty \in Seq(Tasks)
    BY <2>4
  <2>11. kernel = [current |-> running, ready |-> ready,
                 delayed |-> empty, overflow |-> empty, pending |-> empty,
                 suspended |-> {}, terminating |-> {}, waiting |-> none,
                 priority |-> priority, base |-> priority,
                 wake |-> zero, order |-> order, notify |-> states, value |-> zero,
                 tick |-> 0, unblock |-> MaxDelay, pended |-> 0, locked |-> 0,
                 missed |-> FALSE, top |-> top,
                 entered |-> zero, wrapped |-> all,
                 pendsv |-> FALSE, ticking |-> FALSE]
    BY <2>7
  <2>12. /\ running \in Tasks /\ ready \in [Priorities -> [items : Seq(Tasks), index : Nat]]
         /\ top \in Priorities /\ priority \in [Tasks -> Priorities]
    BY <2>3, <2>6
  <2> HIDE DEF none, order, states, zero, all, empty, running, ready, top, priority
  <2>13. [current |-> running, ready |-> ready,
          delayed |-> empty, overflow |-> empty, pending |-> empty,
          suspended |-> {}, terminating |-> {}, waiting |-> none,
          priority |-> priority, base |-> priority,
          wake |-> zero, order |-> order, notify |-> states, value |-> zero,
          tick |-> 0, unblock |-> MaxDelay, pended |-> 0, locked |-> 0,
          missed |-> FALSE, top |-> top,
          entered |-> zero, wrapped |-> all,
          pendsv |-> FALSE, ticking |-> FALSE] \in Kernels
    BY <2>8, <2>9, <2>10, <2>12 DEF Kernels
  <2> QED
    BY <2>11, <2>13
<1>5. \A p \in Priorities : kernel.ready[p].items = First[p] /\ kernel.ready[p].index = 0
  BY <1>1
<1>6. ListsOK(W, kernel)
  <2>1. \A p \in Priorities : RingOf(kernel.ready[p], Tasks)
    <3> TAKE p \in Priorities
    <3>1. Listed(First[p], Tasks) /\ Len(First[p]) \in Nat
      BY FirstIs DEF Listed
    <3>2. kernel.ready[p] = [items |-> First[p], index |-> 0]
      BY <1>1
    <3> QED
      BY <3>1, <3>2 DEF RingOf
  <2>2. Listed(<<>>, Tasks) /\ Range(<<>>) = {}
    BY DEF Listed, IsInjective, Range
  <2>3. EventsOK(W, kernel.waiting, kernel.pending)
    BY <1>1, <2>2 DEF EventsOK
  <2> QED
    BY <1>1, <2>1, <2>2, <2>3 DEF ListsOK
<1>7. Range(kernel.delayed) = {} /\ Range(kernel.overflow) = {} /\ Range(kernel.pending) = {}
  BY <1>1 DEF Range
<1>8. Apart(kernel)
  BY <1>1, <1>5, <1>7, FirstIs DEF Apart
<1>9. Top(kernel) /\ DelaysOK(kernel)
  BY <1>1, <1>5, <1>7, FirstIs DEF Top, DelaysOK, Sorted
<1>10. Served(kernel)
  BY <1>1, <1>2, <1>5, FirstIs DEF Served
<1>11. \A t \in Tasks : Ready(kernel, t)
  BY <1>5, FirstIs DEF Ready
<1>12. /\ \A o \in Objects : kernel.waiting[o] = <<>>
       /\ \A t \in Tasks : kernel.priority[t] = kernel.base[t]
       /\ \A t \in Tasks : kernel.order[t] = MaxPriorities - kernel.priority[t]
  BY <1>1
<1>13. Good(W, kernel)
  BY <1>4, <1>6, <1>8, <1>9 DEF Good, Sound
<1> QED
  BY <1>1, <1>3, <1>4, <1>7, <1>10, <1>11, <1>12, <1>13
=============================================================================
