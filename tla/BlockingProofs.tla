--------------------------- MODULE BlockingProofs ---------------------------
(***************************************************************************)
(* A queue, a semaphore or a mutex with the scheduler that blocks and      *)
(* wakes the tasks: whatever the tasks and the interrupts do, in whatever  *)
(* order, the lists of the kernel stay sound, and where each task is in    *)
(* its call, the lock of the queue and the suspension of the scheduler     *)
(* agree; the holder of a mutex inherits the priority of those that wait   *)
(* for it, and loses it when it gives the mutex or they stop to wait; and  *)
(* no task is left asleep for what has come to the queue.                  *)
(***************************************************************************)
EXTENDS KernelQueueProofs, SchedulerProofs

\* The labels, and those of a task that has suspended the scheduler, of one that
\* resumes it, of one that leaves its turn with the queue locked, and of one that is
\* in no call.
Labels ==
    {"idle", "run", "delay", "delay_resume", "delay_yield", "try", "found", "blocking",
     "lock", "look", "unlock", "unlock_rx", "resume", "yield", "late"}
Locking == {"delay", "lock", "look", "unlock", "unlock_rx"}
Resuming == {"delay_resume", "resume"}
Leaving == {"unlock", "unlock_rx", "resume"}
Working == {"idle", "run", "delay", "delay_resume", "delay_yield"}

CallRecords(length) ==
    [op : {"none"} \cup Senders \cup Receivers, item : Items, wait : Ticks, timed : BOOLEAN,
     outcome : {"none", "placed", "again", "expired"}, loaded : 0..length,
     inherited : BOOLEAN]

\* A task is on an event list, or has been taken from one while the scheduler was
\* suspended.
Event(k, t) == t \in Range(k.pending) \/ \E o \in Objects : t \in Range(k.waiting[o])

\* What goes with the label l of the current task, with the interrupts masked (m) or
\* not: whether the scheduler is suspended, what it may leave pending, ...
LockedAt(l, m) == IF l \in Locking \/ (l \in Resuming /\ ~ m) THEN 1 ELSE 0

MaskAt(l, m) == (m => l \in Resuming \cup {"found"}) /\ (l = "found" => m)

PendAt(k, l, m) ==
    k.locked = 0 /\ (~ m \/ l = "found") => k.pending = <<>> /\ k.pended = 0

\* ... whether the queue may be locked, and whether the task may be asleep: only when
\* it is about to give way.
QueueAt(l, tx, rx) ==
    /\ tx \in {Unlocked} \cup Nat /\ rx \in {Unlocked} \cup Nat
    /\ tx /= Unlocked => l \in {"look", "unlock"}
    /\ rx /= Unlocked => l \in {"look", "unlock", "unlock_rx"}

AsleepAt(k, l, c) ==
    k.current \in Down(k) =>
        \/ l \in Leaving /\ c.outcome = "placed"
        \/ l \in {"yield", "delay_resume", "delay_yield"}
        \/ k.pendsv /\ k.locked = 0

\* What goes with the label of a task: the call it is in, and whether its event may be
\* on a list.
CallAt(l, c) ==
    /\ l \in Working => c = NoCall
    /\ l \notin Working => c.op /= "none"
    /\ l \in Leaving => c.outcome \in {"placed", "again", "expired"}
    /\ l = "yield" => c.outcome = "placed"
    /\ l = "found" => c.op \in Receivers
    /\ l = "late" => c.outcome = "expired"
    /\ l \in {"blocking", "lock", "look"} => c.wait > 0

Suits(o, c) ==
    \/ o = "toSend" /\ c.op \in Senders
    \/ o = "toReceive" /\ c.op \in Receivers

WaitsAt(k, t, l, c) ==
    /\ Event(k, t) =>
          c.outcome = "placed" /\ t \in Down(k) /\ l \in Leaving \cup {"yield", "try"}
    /\ \A o \in Objects : t \in Range(k.waiting[o]) => Suits(o, c)

PcOK ==
    /\ pc \in [Tasks -> Labels] /\ masked \in BOOLEAN /\ previous_wake \in [Tasks -> Ticks]
    /\ \A t \in Tasks : pc[t] = "idle" <=> t = Idle

\* Every task is in one of the lists, the idle task in a ready list.
AllLinked(k) ==
    (\A t \in Tasks : Linked(k, t)) /\ k.terminating = {} /\ Ready(k, Idle)

\* The scheduler is suspended, and the interrupts masked, by the current task only.
CurrentOK ==
    /\ kernel.locked = LockedAt(pc[kernel.current], masked)
    /\ MaskAt(pc[kernel.current], masked)
    /\ PendAt(kernel, pc[kernel.current], masked)
    /\ QueueAt(pc[kernel.current], tx_lock, rx_lock)
    /\ AsleepAt(kernel, pc[kernel.current], call[kernel.current])
    /\ kernel.ticking => kernel.locked = 0 /\ pc[kernel.current] /= "found"
    /\ \A t \in Tasks : pc[t] \in Locking \cup Resuming \cup {"found"} => t = kernel.current

CallsOK ==
    /\ call \in [Tasks -> CallRecords(buffer.length)] /\ holder \in Tasks \cup {Nobody}
    /\ \A t \in Tasks : CallAt(pc[t], call[t])
    /\ \A t \in Tasks : WaitsAt(kernel, t, pc[t], call[t])

\* The inductive invariant.
ControlOK == Good(Users, kernel) /\ AllLinked(kernel) /\ PcOK /\ CurrentOK /\ CallsOK

-----------------------------------------------------------------------------
\* A step of the kernel that puts no task to sleep: tasks are readied, or left to
\* xTaskResumeAll, and go from the event lists.
Wakes(j, k) ==
    /\ Good(Users, j) /\ AllLinked(j)
    /\ \A u \in Tasks : Ready(k, u) => Ready(j, u)
    /\ j.current = k.current /\ j.locked = k.locked /\ (k.pendsv => j.pendsv)
    /\ \A o \in Objects : Range(j.waiting[o]) \subseteq Range(k.waiting[o])
    /\ \A u \in Tasks : Event(j, u) => Event(k, u)
    /\ \A u \in Tasks : u \in Down(j) => u \in Down(k)
    /\ \A u \in Tasks : Event(j, u) /\ u \in Down(k) => u \in Down(j)
    /\ k.locked = 0 /\ k.pending = <<>> => j.pending = <<>>

\* One that is not a tick either.
WakesNow(j, k) == Wakes(j, k) /\ j.pended = k.pended /\ j.ticking = k.ticking

LEMMA WakesFollow ==
    ASSUME NEW k, NEW j, NEW i
    PROVE  /\ Wakes(j, k) /\ Wakes(i, j) => Wakes(i, k)
           /\ WakesNow(j, k) /\ WakesNow(i, j) => WakesNow(i, k)
<1>1. Wakes(j, k) /\ Wakes(i, j) => Wakes(i, k)
  <2> SUFFICES ASSUME Wakes(j, k), Wakes(i, j) PROVE Wakes(i, k)
    OBVIOUS
  <2> QED
    BY DEF Wakes
<1> QED
  BY <1>1 DEF WakesNow

LEMMA ReadyStays ==
    ASSUME NEW k, NEW j, \A u : OthersReady(j, k, u)
    PROVE  \A u \in Tasks : Ready(k, u) => Ready(j, u)
<1> SUFFICES ASSUME NEW u \in Tasks, Ready(k, u) PROVE Ready(j, u)
  OBVIOUS
<1>1. OthersReady(j, k, 0) /\ OthersReady(j, k, 1) /\ (u /= 0 \/ u /= 1)
  OBVIOUS
<1> QED
  BY <1>1 DEF OthersReady

LEMMA GoodIs ==
    ASSUME NEW k, Good(Users, k)
    PROVE  /\ k \in Kernels /\ k.current \in Tasks
           /\ k.pending \in Seq(Tasks) /\ k.waiting \in [Objects -> Seq(Tasks)]
           /\ Range(k.pending) \subseteq Tasks
           /\ \A o \in Objects : Range(k.waiting[o]) \subseteq Users
           /\ \A o \in Objects : \A t \in Range(k.waiting[o]) : t \notin Range(k.pending)
           /\ \A o, p \in Objects : o /= p => Range(k.waiting[o]) \cap Range(k.waiting[p]) = {}
           /\ Range(k.delayed) \subseteq Tasks /\ Range(k.overflow) \subseteq Tasks
           /\ k.suspended \subseteq Tasks
           /\ \A u \in Tasks : Ready(k, u) => u \notin Down(k)
<1>1. k \in Kernels /\ ListsOK(Users, k) /\ Apart(k)
  BY DEF Good, Sound
<1>2. k.current \in Tasks /\ k.suspended \subseteq Tasks
      /\ k.waiting \in [Objects -> Seq(Tasks)]
  BY <1>1 DEF Kernels
<1>3. /\ k.pending \in Seq(Tasks) /\ k.delayed \in Seq(Tasks) /\ k.overflow \in Seq(Tasks)
      /\ \A o \in Objects : k.waiting[o] \in Seq(Tasks)
  BY <1>1 DEF ListsOK, EventsOK, Listed
<1>4. \A s \in Seq(Tasks) : Range(s) \subseteq Tasks
  BY DEF Range
<1>5. \A u \in Tasks : Ready(k, u) => u \notin Down(k)
  BY <1>1 DEF Ready, Down, Sleeping, Apart
<1>6. \A o \in Objects : \A t \in Range(k.waiting[o]) :
          /\ t \in Users /\ t \notin Range(k.pending)
          /\ \A p \in Objects : p /= o => t \notin Range(k.waiting[p])
  BY <1>1 DEF ListsOK, EventsOK
<1> QED
  BY <1>1, <1>2, <1>3, <1>4, <1>5, <1>6

LEMMA NothingIn ==
    ASSUME NEW s \in Seq(Tasks)
    PROVE  Range(s) = {} <=> s = <<>>
<1>1. Len(s) \in Nat /\ DOMAIN s = 1..Len(s) /\ (s = <<>> <=> Len(s) = 0)
  BY EmptySeq
<1>2. Range(s) = {} <=> DOMAIN s = {}
  BY DEF Range
<1>3. 1..Len(s) = {} <=> Len(s) = 0
  BY <1>1
<1> QED
  BY <1>1, <1>2, <1>3

\* A step that leaves the lists as they are.
LEMMA WakesSame ==
    ASSUME NEW k, Good(Users, k), AllLinked(k), NEW j, SameLists(j, k),
           j.locked = k.locked, k.pendsv => j.pendsv
    PROVE  Wakes(j, k) /\ (j.pended = k.pended => WakesNow(j, k))
<1>1. /\ Good(Users, j)
      /\ \A u \in Tasks : Linked(j, u) <=> Linked(k, u)
      /\ \A u : OthersReady(j, k, u)
  BY SameIs
<1>2. \A u \in Tasks : Ready(k, u) => Ready(j, u)
  BY <1>1, ReadyStays
<1>3. /\ j.pending = k.pending /\ j.waiting = k.waiting /\ j.terminating = k.terminating
      /\ j.current = k.current /\ j.ticking = k.ticking
      /\ Down(j) = Down(k)
  BY DEF SameLists, Down, Sleeping
<1>4. AllLinked(j)
  BY <1>1, <1>2, <1>3, SchedulerAssumption DEF AllLinked, Tasks, Priorities
<1> QED
  BY <1>1, <1>2, <1>3, <1>4 DEF Wakes, WakesNow, Event

LEMMA WakesAll ==
    ASSUME NEW k, NEW j, Good(Users, k), Good(Users, j), AllLinked(k),
           \A u \in Tasks : Linked(j, u), j.terminating \subseteq k.terminating,
           \A u : OthersReady(j, k, u)
    PROVE  AllLinked(j) /\ \A u \in Tasks : Ready(k, u) => Ready(j, u)
<1>1. \A u \in Tasks : Ready(k, u) => Ready(j, u)
  BY ReadyStays
<1>2. Idle \in Tasks
  BY SchedulerAssumption DEF Tasks, Priorities
<1> QED
  BY <1>1, <1>2 DEF AllLinked

\* The first task of an event list goes on.
LEMMA WakesFirst ==
    ASSUME NEW k, Good(Users, k), AllLinked(k), NEW o \in Objects
    PROVE  WakesNow(Wake(k, o), k)
<1>1. CASE k.waiting[o] = <<>>
  <2>1. Wake(k, o) = k
    BY <1>1 DEF Wake
  <2> QED
    BY <2>1 DEF WakesNow, Wakes
<1>2. CASE k.waiting[o] /= <<>>
  <2> DEFINE j == RemoveFromEventList(k, o)
             t == Head(k.waiting[o])
  <2>1. Wake(k, o) = j
    BY <1>2 DEF Wake
  <2>2. /\ t \in Range(k.waiting[o]) /\ t \in Tasks
        /\ Good(Users, j) /\ Ticked(j, k)
        /\ \A u \in Tasks : Linked(j, u)
        /\ \A u : OthersReady(j, k, u)
        /\ \A p \in Objects : j.waiting[p] = Without(k.waiting[p], t)
        /\ j.pended = k.pended /\ j.ticking = k.ticking /\ j.pendsv = k.pendsv
        /\ j.terminating \subseteq k.terminating
        /\ IF k.locked = 0
           THEN /\ Range(j.pending) = Range(k.pending)
                /\ Down(j) = Down(k) \ {t}
           ELSE /\ Range(j.pending) = Range(k.pending) \cup {t}
                /\ Down(j) = Down(k)
    BY <1>2, RemovedIs DEF AllLinked
  <2> HIDE DEF j, t
  <2>3. AllLinked(j) /\ \A u \in Tasks : Ready(k, u) => Ready(j, u)
    BY <2>2, WakesAll
  <2>4. \A p \in Objects : Range(j.waiting[p]) = Range(k.waiting[p]) \ {t}
    <3> SUFFICES ASSUME NEW p \in Objects PROVE Range(j.waiting[p]) = Range(k.waiting[p]) \ {t}
      OBVIOUS
    <3>1. Listed(k.waiting[p], Tasks)
      BY DEF Good, Sound, ListsOK, EventsOK
    <3> QED
      BY <3>1, <2>2, WithoutLists
  <2>5. t \notin Range(k.pending)
    BY <2>2, GoodIs
  <2>6. j.current = k.current /\ j.locked = k.locked
    BY <2>2 DEF Ticked
  <2>7. k.locked = 0 /\ k.pending = <<>> => j.pending = <<>>
    BY <2>2, GoodIs, NothingIn
  <2>8. \A u \in Tasks : Event(j, u) => Event(k, u)
    BY <2>2, <2>4 DEF Event
  <2>9. \A u \in Tasks : Event(j, u) /\ u \in Down(k) => u \in Down(j)
    BY <2>2, <2>4, <2>5 DEF Event
  <2>10. \A u \in Tasks : u \in Down(j) => u \in Down(k)
    BY <2>2
  <2>11. Wakes(j, k)
    BY <2>2, <2>3, <2>4, <2>6, <2>7, <2>8, <2>9, <2>10 DEF Wakes
  <2> QED
    BY <2>1, <2>2, <2>11 DEF WakesNow
<1> QED
  BY <1>1, <1>2

-----------------------------------------------------------------------------
\* What prvUnlockQueue takes from an event list, and what it leaves.
Woken(s, n) == SubSeq(s, 1, Min({n, Len(s)}))
Left(s, n) == SubSeq(s, Len(Woken(s, n)) + 1, Len(s))

LEMMA WokenIs ==
    ASSUME NEW s, Listed(s, Tasks), NEW n \in Int
    PROVE  /\ Listed(Woken(s, n), Tasks) /\ Listed(Left(s, n), Tasks)
           /\ Range(s) = Range(Woken(s, n)) \cup Range(Left(s, n))
           /\ Range(Woken(s, n)) \cap Range(Left(s, n)) = {}
           /\ \A v : Sorted(s, v) => Sorted(Left(s, n), v)
<1> DEFINE m == Min({n, Len(s)})
           w == Woken(s, n)
           r == Left(s, n)
           c == Len(w)
<1>1. s \in Seq(Tasks) /\ Len(s) \in Nat /\ DOMAIN s = 1..Len(s) /\ IsInjective(s)
  BY DEF Listed
<1>2. m \in Int /\ m <= Len(s)
  <2>1. \E x \in {n, Len(s)} : \A y \in {n, Len(s)} : x <= y
    BY <1>1
  <2>2. m \in {n, Len(s)} /\ \A y \in {n, Len(s)} : m <= y
    BY <2>1 DEF Min
  <2> QED
    BY <1>1, <2>2
<1> HIDE DEF m
<1>3. \A i \in 1..m : s[i] \in Tasks
  BY <1>1, <1>2
<1>4. /\ w \in Seq(Tasks) /\ c = IF 1 <= m THEN m ELSE 0
      /\ \A i \in 1..m : w[i] = s[i]
  <2>1. w = SubSeq(s, 1, m)
    BY DEF Woken, m
  <2> HIDE DEF w
  <2>2. /\ w \in Seq(Tasks) /\ Len(w) = IF 1 <= m THEN m - 1 + 1 ELSE 0
        /\ \A i \in 1..(m - 1 + 1) : w[i] = s[1 + i - 1]
    BY <1>2, <1>3, <2>1, SubSeqProperties
  <2> QED
    BY <1>2, <2>2
<1> HIDE DEF w
<1>5. c \in 0..Len(s) /\ DOMAIN w = 1..c /\ \A i \in 1..c : w[i] = s[i]
  BY <1>1, <1>2, <1>4
<1> HIDE DEF c
<1>6. /\ r \in Seq(Tasks) /\ Len(r) = Len(s) - c
      /\ \A i \in 1..(Len(s) - c) : r[i] = s[i + c]
  <2>1. r = SubSeq(s, c + 1, Len(s))
    BY DEF Left, w, c
  <2> HIDE DEF r
  <2>2. \A i \in (c + 1)..Len(s) : s[i] \in Tasks
    BY <1>1, <1>5
  <2>3. /\ r \in Seq(Tasks)
        /\ Len(r) = IF c + 1 <= Len(s) THEN Len(s) - (c + 1) + 1 ELSE 0
        /\ \A i \in 1..(Len(s) - (c + 1) + 1) : r[i] = s[c + 1 + i - 1]
    BY <1>1, <1>5, <2>1, <2>2, SubSeqProperties
  <2>4. Len(r) = Len(s) - c
    <3>1. \A l \in Nat : \A d \in 0..l :
              (IF d + 1 <= l THEN l - (d + 1) + 1 ELSE 0) = l - d
      OBVIOUS
    <3>2. Len(r) = IF c + 1 <= Len(s) THEN Len(s) - (c + 1) + 1 ELSE 0
      BY <2>3
    <3> QED
      BY <1>1, <1>5, <3>1, <3>2
  <2>5. ASSUME NEW i \in 1..(Len(s) - c) PROVE r[i] = s[i + c]
    <3>1. i \in 1..(Len(s) - (c + 1) + 1) /\ c + 1 + i - 1 = i + c
      BY <1>1, <1>5
    <3>2. r[i] = s[c + 1 + i - 1]
      BY <2>3, <3>1
    <3> QED
      BY <3>1, <3>2
  <2> QED
    BY <2>3, <2>4, <2>5
<1> HIDE DEF r
<1>7. DOMAIN r = 1..(Len(s) - c)
  BY <1>6
<1>8. \A i, j \in 1..Len(s) : s[i] = s[j] => i = j
  BY <1>1 DEF IsInjective
<1>9. IsInjective(w) /\ IsInjective(r)
  <2>1. \A i, j \in DOMAIN w : w[i] = w[j] => i = j
    BY <1>1, <1>5, <1>8
  <2>2. \A i \in 1..(Len(s) - c) : i + c \in 1..Len(s)
    BY <1>1, <1>5
  <2>3. \A i, j \in DOMAIN r : r[i] = r[j] => i = j
    <3> SUFFICES ASSUME NEW i \in DOMAIN r, NEW j \in DOMAIN r, r[i] = r[j] PROVE i = j
      OBVIOUS
    <3>1. s[i + c] = s[j + c] /\ i + c \in 1..Len(s) /\ j + c \in 1..Len(s)
      BY <1>6, <1>7, <2>2
    <3>2. i + c = j + c
      BY <1>8, <3>1
    <3> QED
      BY <1>1, <1>5, <1>7, <3>2
  <2> QED
    BY <2>1, <2>3 DEF IsInjective
<1>10. \A i \in 1..Len(s) : i \in 1..c \/ i - c \in 1..(Len(s) - c)
  BY <1>1, <1>5
<1>11. Range(s) = Range(w) \cup Range(r)
  <2>1. \A x \in Range(s) : x \in Range(w) \cup Range(r)
    <3> SUFFICES ASSUME NEW i \in 1..Len(s) PROVE s[i] \in Range(w) \cup Range(r)
      BY <1>1 DEF Range
    <3>1. CASE i \in 1..c
      BY <1>5, <3>1 DEF Range
    <3>2. CASE i - c \in 1..(Len(s) - c)
      <4>1. r[i - c] = s[i]
        BY <1>1, <1>5, <1>6, <3>2
      <4> QED
        BY <1>7, <3>2, <4>1 DEF Range
    <3> QED
      BY <1>10, <3>1, <3>2
  <2>2. Range(w) \subseteq Range(s)
    BY <1>1, <1>5 DEF Range
  <2>3. Range(r) \subseteq Range(s)
    <3>1. \A i \in 1..(Len(s) - c) : i + c \in 1..Len(s)
      BY <1>1, <1>5
    <3> QED
      BY <1>1, <1>6, <1>7, <3>1 DEF Range
  <2> QED
    BY <2>1, <2>2, <2>3
<1>12. Range(w) \cap Range(r) = {}
  <2> SUFFICES ASSUME NEW i \in DOMAIN w, NEW j \in DOMAIN r, w[i] = r[j] PROVE FALSE
    BY DEF Range
  <2>1. s[i] = s[j + c] /\ i \in 1..Len(s) /\ j + c \in 1..Len(s) /\ i <= c /\ j > 0 /\ i \in Int
        /\ j \in Int
    BY <1>1, <1>5, <1>6, <1>7
  <2>2. i = j + c
    BY <1>8, <2>1
  <2> QED
    BY <1>5, <2>1, <2>2
<1>13. ASSUME NEW v, Sorted(s, v) PROVE Sorted(r, v)
  <2> SUFFICES ASSUME NEW i \in DOMAIN r, NEW j \in DOMAIN r, i < j PROVE v[r[i]] <= v[r[j]]
    BY DEF Sorted
  <2>1. i + c \in DOMAIN s /\ j + c \in DOMAIN s /\ i + c < j + c
        /\ r[i] = s[i + c] /\ r[j] = s[j + c]
    BY <1>1, <1>5, <1>6, <1>7
  <2> QED
    BY <1>13, <2>1 DEF Sorted
<1> QED
  BY <1>4, <1>6, <1>9, <1>11, <1>12, <1>13 DEF Listed, w, r

LEMMA JoinedLists ==
    ASSUME NEW s, Listed(s, Tasks), NEW r, Listed(r, Tasks), Range(s) \cap Range(r) = {}
    PROVE  Listed(s \o r, Tasks) /\ Range(s \o r) = Range(s) \cup Range(r)
<1>1. /\ s \in Seq(Tasks) /\ r \in Seq(Tasks) /\ s \o r \in Seq(Tasks)
      /\ DOMAIN s = 1..Len(s) /\ DOMAIN r = 1..Len(r) /\ Len(s) \in Nat /\ Len(r) \in Nat
      /\ Len(s \o r) = Len(s) + Len(r)
      /\ \A i \in 1..(Len(s) + Len(r)) :
            (s \o r)[i] = IF i <= Len(s) THEN s[i] ELSE r[i - Len(s)]
  BY ConcatProperties DEF Listed
<1> DEFINE n == Len(s)
           a == s \o r
<1>2. DOMAIN a = 1..(n + Len(r))
  BY <1>1
<1>3. \A i \in 1..(n + Len(r)) :
          \/ i \in 1..n /\ a[i] = s[i]
          \/ i - n \in 1..Len(r) /\ a[i] = r[i - n]
  BY <1>1
<1>4. n \in Nat /\ Len(r) \in Nat
  BY <1>1
<1>5. \A i \in 1..n, j \in 1..Len(r) : s[i] /= r[j]
  BY <1>1 DEF Range
<1> HIDE DEF a, n
<1>6. IsInjective(a)
  <2> SUFFICES ASSUME NEW i \in DOMAIN a, NEW j \in DOMAIN a, a[i] = a[j] PROVE i = j
    BY DEF IsInjective
  <2>1. CASE i \in 1..n /\ a[i] = s[i] /\ j \in 1..n /\ a[j] = s[j]
    BY <1>1, <2>1 DEF Listed, IsInjective, n
  <2>2. CASE i - n \in 1..Len(r) /\ a[i] = r[i - n] /\ j - n \in 1..Len(r) /\ a[j] = r[j - n]
    <3>1. i - n = j - n
      BY <1>1, <2>2 DEF Listed, IsInjective
    <3> QED
      BY <1>2, <1>4, <3>1
  <2> QED
    BY <1>2, <1>3, <1>5, <2>1, <2>2
<1>7. Range(a) = Range(s) \cup Range(r)
  BY <1>1, RangeConcatenation DEF a
<1> QED
  BY <1>1, <1>6, <1>7 DEF Listed, a

\* One loop of prvUnlockQueue, while the scheduler is suspended.
LEMMA WakesSome ==
    ASSUME NEW k, Good(Users, k), AllLinked(k), k.locked /= 0,
           NEW o \in Objects, NEW n \in Int
    PROVE  LET j == WakeSome(k, o, n)
           IN  /\ WakesNow(j, k) /\ j.pendsv = k.pendsv
               /\ j.waiting[o] = Left(k.waiting[o], n)
               /\ \A p \in Objects : p /= o => j.waiting[p] = k.waiting[p]
               /\ j.priority = k.priority /\ j.base = k.base /\ j.order = k.order
               /\ j.ready = k.ready /\ (k.missed => j.missed)
<1> DEFINE w == Woken(k.waiting[o], n)
           r == Left(k.waiting[o], n)
           c == \E t \in Range(w) : k.priority[t] > k.priority[k.current]
           q == k.pending \o w
           v == [k.waiting EXCEPT ![o] = r]
           j == WakeSome(k, o, n)
<1>1. /\ k \in Kernels /\ ListsOK(Users, k) /\ Apart(k) /\ Top(k) /\ DelaysOK(k)
      /\ EventsOK(Users, k.waiting, k.pending)
  BY DEF Good, Sound, ListsOK
<1>2. /\ Listed(w, Tasks) /\ Listed(r, Tasks)
      /\ Range(k.waiting[o]) = Range(w) \cup Range(r)
      /\ Range(w) \cap Range(r) = {}
  BY <1>1, WokenIs DEF EventsOK
<1>3. j = [k EXCEPT !.waiting = v, !.pending = q, !.missed = @ \/ c]
  BY <1>1 DEF WakeSome, Woken, Left, Kernels
<1> HIDE DEF w, r
<1>4. Listed(q, Tasks) /\ Range(q) = Range(k.pending) \cup Range(w)
  <2>1. Range(k.pending) \cap Range(w) = {}
    BY <1>1, <1>2 DEF EventsOK
  <2> QED
    BY <1>1, <1>2, <2>1, JoinedLists DEF EventsOK
<1>5. /\ v \in [Objects -> Seq(Tasks)] /\ v[o] = r
      /\ \A p \in Objects : p /= o => v[p] = k.waiting[p]
  BY <1>1, <1>2 DEF Kernels, Listed
<1>6. c \in BOOLEAN /\ q \in Seq(Tasks)
  BY <1>4 DEF Listed
<1> HIDE DEF c, q, v, j
<1>7. j \in Kernels
  BY <1>1, <1>3, <1>5, <1>6 DEF Kernels
<1>8. /\ j.waiting = v /\ j.pending = q /\ (j.missed <=> (k.missed \/ c))
      /\ j.ready = k.ready /\ j.delayed = k.delayed /\ j.overflow = k.overflow
      /\ j.suspended = k.suspended /\ j.terminating = k.terminating
      /\ j.priority = k.priority /\ j.wake = k.wake
      /\ j.current = k.current /\ j.top = k.top /\ j.tick = k.tick /\ j.unblock = k.unblock
      /\ j.ticking = k.ticking /\ j.pended = k.pended /\ j.locked = k.locked
      /\ j.pendsv = k.pendsv /\ j.base = k.base /\ j.order = k.order
  BY <1>1, <1>3 DEF Kernels
<1>9. ListsOK(Users, j)
  <2>1. EventsOK(Users, v, q)
    <3> SUFFICES ASSUME NEW p \in Objects
                 PROVE  /\ Listed(v[p], Tasks)
                        /\ \A t \in Range(v[p]) :
                              /\ t \in Users /\ t \notin Range(q)
                              /\ \A m \in Objects : m /= p => t \notin Range(v[m])
      BY <1>4 DEF EventsOK
    <3>1. CASE p = o
      BY <1>1, <1>2, <1>4, <1>5, <3>1 DEF EventsOK
    <3>2. CASE p /= o
      BY <1>1, <1>2, <1>4, <1>5, <3>2 DEF EventsOK
    <3> QED
      BY <3>1, <3>2
  <2> QED
    BY <1>1, <1>8, <2>1 DEF ListsOK
<1>10. Good(Users, j)
  BY <1>1, <1>7, <1>8, <1>9 DEF Apart, Top, DelaysOK, Good, Sound
<1>11. AllLinked(j) /\ \A u \in Tasks : Ready(k, u) => Ready(j, u)
  BY <1>8 DEF AllLinked, Linked, Ready
<1>12. \A u \in Tasks : Event(j, u) => Event(k, u)
  BY <1>2, <1>4, <1>5, <1>8 DEF Event
<1>13. \A p \in Objects : Range(j.waiting[p]) \subseteq Range(k.waiting[p])
  BY <1>2, <1>5, <1>8
<1>14. Down(j) = Down(k)
  BY <1>8 DEF Down, Sleeping
<1>15. WakesNow(j, k)
  BY <1>8, <1>10, <1>11, <1>12, <1>13, <1>14 DEF Wakes, WakesNow
<1> QED
  BY <1>5, <1>8, <1>15 DEF c, q, r, w, j

-----------------------------------------------------------------------------
\* What the end of a call and its time-out state leave of the kernel.
Returned(k) == [k EXCEPT !.entered[k.current] = 0, !.wrapped[k.current] = TRUE]

\* A step that leaves the lists, the locks and the requests to switch as they are.
Untouched(j, k) ==
    /\ SameLists(j, k) /\ j.locked = k.locked /\ j.pended = k.pended
    /\ j.base = k.base /\ j.order = k.order
    /\ j.pendsv = k.pendsv /\ j.missed = k.missed

LEMMA EndsUntouched ==
    ASSUME NEW k \in Kernels
    PROVE  Untouched(Returned(k), k) /\ Untouched(SetTimeOutState(k), k)
<1>1. k.current \in Tasks /\ k.tick \in Ticks /\ 0 \in Ticks
      /\ k.entered \in [Tasks -> Ticks] /\ k.wrapped \in [Tasks -> BOOLEAN]
  BY TicksAre DEF Kernels
<1> DEFINE e == [k.entered EXCEPT ![k.current] = 0]
           w == [k.wrapped EXCEPT ![k.current] = TRUE]
           f == [k.entered EXCEPT ![k.current] = k.tick]
           x == [k.wrapped EXCEPT ![k.current] = FALSE]
<1>2. /\ e \in [Tasks -> Ticks] /\ w \in [Tasks -> BOOLEAN]
      /\ f \in [Tasks -> Ticks] /\ x \in [Tasks -> BOOLEAN]
  BY <1>1
<1>3. /\ Returned(k) = [k EXCEPT !.entered = e, !.wrapped = w]
      /\ SetTimeOutState(k) = [k EXCEPT !.entered = f, !.wrapped = x]
  BY DEF Returned, SetTimeOutState, Kernels
<1> HIDE DEF e, w, f, x
<1>4. Untouched(Returned(k), k)
  <2> DEFINE j == Returned(k)
  <2>1. j = [k EXCEPT !.entered = e, !.wrapped = w]
    BY <1>3
  <2> HIDE DEF j
  <2>2. j \in Kernels
    BY <1>2, <2>1 DEF Kernels
  <2>3. SameLists(j, k)
    BY <2>1, <2>2 DEF SameLists, Kernels
  <2> QED
    BY <2>1, <2>3 DEF Untouched, Kernels, j
<1>5. Untouched(SetTimeOutState(k), k)
  <2> DEFINE j == SetTimeOutState(k)
  <2>1. j = [k EXCEPT !.entered = f, !.wrapped = x]
    BY <1>3
  <2> HIDE DEF j
  <2>2. j \in Kernels
    BY <1>2, <2>1 DEF Kernels
  <2>3. SameLists(j, k)
    BY <2>1, <2>2 DEF SameLists, Kernels
  <2> QED
    BY <2>1, <2>3 DEF Untouched, Kernels, j
<1> QED
  BY <1>4, <1>5

LEMMA WakesUntouched ==
    ASSUME NEW k, Good(Users, k), AllLinked(k), NEW j, Untouched(j, k)
    PROVE  WakesNow(j, k)
BY WakesSame DEF Untouched

LEMMA WakesYield ==
    ASSUME NEW k, Good(Users, k), AllLinked(k), NEW c \in BOOLEAN
    PROVE  WakesNow(YieldingIf(k, c), k) /\ (c => YieldingIf(k, c).pendsv)
<1>1. k \in Kernels
  BY GoodIs
<1>2. Asked(YieldingIf(k, c), k) /\ (c => YieldingIf(k, c).pendsv)
  BY <1>1, YieldsIs
<1> QED
  BY <1>2, WakesSame DEF Asked

LEMMA YieldingIs ==
    ASSUME NEW k, Good(Users, k), AllLinked(k)
    PROVE  WakesNow(Yielding(k), k) /\ Yielding(k).pendsv
<1>1. Yielding(k) = YieldingIf(k, TRUE)
  BY GoodIs DEF Yielding, YieldingIf, Kernels
<1> QED
  BY <1>1, WakesYield

\* A change of a priority wakes nobody.
LEMMA WakesMoved ==
    ASSUME NEW k, Good(Users, k), AllLinked(k), NEW t \in Tasks,
           NEW n \in Priorities, NEW b \in Priorities, NEW o \in Nat
    PROVE  WakesNow(Moved(k, t, n, b, o), k)
<1> DEFINE a == Moved(k, t, n, b, o)
<1>1. /\ Good(Users, a)
      /\ \A u \in Tasks : Linked(a, u) <=> Linked(k, u)
      /\ StaysPut(a, k)
      /\ \A u : OthersReady(a, k, u)
  BY MovedIs
<1> HIDE DEF a
<1>2. AllLinked(a) /\ \A u \in Tasks : Ready(k, u) => Ready(a, u)
  BY <1>1, WakesAll DEF AllLinked, StaysPut
<1>3. Down(a) = Down(k)
  BY <1>1 DEF StaysPut, Down
<1> QED
  BY <1>1, <1>2, <1>3 DEF Wakes, WakesNow, StaysPut, Event, a

\* A task that goes from the delayed lists and the event lists.
LEMMA WakesOne ==
    ASSUME NEW k, Good(Users, k), AllLinked(k), NEW j, Good(Users, j), NEW t \in Tasks,
           \A u \in Tasks : Linked(j, u), j.terminating \subseteq k.terminating,
           \A u : OthersReady(j, k, u),
           j.current = k.current, j.locked = k.locked, k.pendsv => j.pendsv,
           Range(j.pending) = Range(k.pending) \ {t},
           \A o \in Objects : j.waiting[o] = Without(k.waiting[o], t),
           Down(j) = Down(k) \ {t}
    PROVE  Wakes(j, k)
<1>1. AllLinked(j) /\ \A u \in Tasks : Ready(k, u) => Ready(j, u)
  BY WakesAll
<1>2. \A p \in Objects : Range(j.waiting[p]) = Range(k.waiting[p]) \ {t}
  <2> SUFFICES ASSUME NEW p \in Objects PROVE Range(j.waiting[p]) = Range(k.waiting[p]) \ {t}
    OBVIOUS
  <2>1. Listed(k.waiting[p], Tasks)
    BY DEF Good, Sound, ListsOK, EventsOK
  <2> QED
    BY <2>1, WithoutLists
<1>3. k.pending = <<>> => j.pending = <<>>
  BY GoodIs, NothingIn
<1>4. /\ \A u \in Tasks : Event(j, u) => Event(k, u)
      /\ \A u \in Tasks : Event(j, u) /\ u \in Down(k) => u \in Down(j)
  BY <1>2 DEF Event
<1> QED
  BY <1>1, <1>2, <1>3, <1>4 DEF Wakes

\* xTaskResumeAll readies a task that an interrupt has left to it.
LEMMA WakesDrained ==
    ASSUME NEW k, Good(Users, k), AllLinked(k), ~ k.ticking, k.pending /= <<>>
    PROVE  WakesNow(DrainPendingReadyList(k), k)
<1> DEFINE j == DrainPendingReadyList(k)
           t == Head(k.pending)
<1>1. t \in Tasks
  BY GoodIs, HeadIsLeast
<1>2. /\ Good(Users, j) /\ Ticked(j, k)
      /\ \A u \in Tasks : Linked(j, u) <=> Linked(k, u)
      /\ Range(j.pending) = Range(k.pending) \ {t} /\ \A u : OthersReady(j, k, u)
      /\ j.terminating = k.terminating \ {t}
      /\ j.suspended = k.suspended \ {t}
      /\ \A o \in Objects : j.waiting[o] = Without(k.waiting[o], t)
      /\ Sleeping(j) = Sleeping(k) \ {t}
      /\ j.pended = k.pended /\ ~ j.ticking /\ j.pendsv = k.pendsv
  BY <1>1, DrainIs DEF AllLinked
<1>3. j.ticking = k.ticking
  BY <1>2, GoodIs DEF Kernels
<1> HIDE DEF j, t
<1>4. Down(j) = Down(k) \ {t}
  BY <1>2 DEF Down
<1> QED
  BY <1>1, <1>2, <1>3, <1>4, WakesOne DEF WakesNow, Ticked, AllLinked, j

\* A task that is due.
LEMMA WakesDue ==
    ASSUME NEW k, Good(Users, k), AllLinked(k), Due(k), masked \in BOOLEAN
    PROVE  WakesNow(UnblockFirst(k), k)
<1> DEFINE j == UnblockFirst(k)
           t == Head(k.delayed)
<1>1. /\ t \in Tasks
      /\ Good(Users, j) /\ Ticked(j, k)
      /\ \A u \in Tasks : Linked(j, u) <=> Linked(k, u)
      /\ Range(j.pending) = Range(k.pending) \ {t}
      /\ j.suspended = k.suspended
      /\ \A o \in Objects : j.waiting[o] = Without(k.waiting[o], t)
      /\ j.terminating = k.terminating /\ \A u : OthersReady(j, k, u)
      /\ Sleeping(j) = Sleeping(k) \ {t}
      /\ (k.pendsv => j.pendsv)
      /\ j.pended = k.pended /\ j.ticking = k.ticking
  BY UnblockFirstIs
<1>2. t \notin k.suspended
  <2>1. t \in Range(k.delayed)
    BY HeadIsLeast DEF Due, Good, Sound, ListsOK, Listed
  <2> QED
    BY <2>1 DEF Good, Sound, Apart
<1> HIDE DEF j, t
<1>3. Down(j) = Down(k) \ {t}
  BY <1>1, <1>2 DEF Down
<1> QED
  BY <1>1, <1>3, WakesOne DEF WakesNow, Ticked, AllLinked, j

\* The ends of a tick, and one that is counted.
LEMMA WakesTicked ==
    ASSUME NEW k, Good(Users, k), AllLinked(k), NEW j, Good(Users, j), Ticked(j, k),
           \A u \in Tasks : Linked(j, u) <=> Linked(k, u), \A u : OthersReady(j, k, u),
           j.pending = k.pending, j.terminating = k.terminating,
           j.suspended = k.suspended, j.waiting = k.waiting, Sleeping(j) = Sleeping(k),
           k.pendsv => j.pendsv
    PROVE  Wakes(j, k)
<1>1. AllLinked(j) /\ \A u \in Tasks : Ready(k, u) => Ready(j, u)
  BY WakesAll DEF AllLinked
<1>2. Down(j) = Down(k)
  BY DEF Down
<1> QED
  BY <1>1, <1>2 DEF Wakes, Event, Ticked

LEMMA WakesEndTick ==
    ASSUME NEW k, Good(Users, k), AllLinked(k), ~ Due(k), masked \in BOOLEAN
    PROVE  Wakes(EndTick(k), k) /\ ~ EndTick(k).ticking /\ EndTick(k).pended = k.pended
BY EndTickIs, WakesTicked

LEMMA WakesTick ==
    ASSUME NEW k, Good(Users, k), AllLinked(k), ~ k.ticking, masked \in BOOLEAN
    PROVE  LET j == IncrementTick(k)
           IN  /\ Wakes(j, k)
               /\ IF k.locked > 0 THEN ~ j.ticking ELSE j.pended = k.pended
<1> DEFINE j == IncrementTick(k)
<1>1. /\ Good(Users, j) /\ Ticked(j, k)
      /\ \A u \in Tasks : Linked(j, u) <=> Linked(k, u)
      /\ j.ready = k.ready /\ j.pending = k.pending /\ j.terminating = k.terminating
      /\ j.suspended = k.suspended /\ j.waiting = k.waiting
      /\ Sleeping(j) = Sleeping(k) /\ (k.pendsv => j.pendsv)
      /\ IF k.locked > 0 THEN ~ j.ticking ELSE j.pended = k.pended
  BY IncrementTickIs
<1> HIDE DEF j
<1>2. \A u : OthersReady(j, k, u)
  BY <1>1 DEF OthersReady, Ready
<1> QED
  BY <1>1, <1>2, WakesTicked DEF j

\* A tick that occurred while the scheduler was suspended.
LEMMA WakesReplayed ==
    ASSUME NEW k, Good(Users, k), AllLinked(k), ~ k.ticking, masked \in BOOLEAN,
           k.pended > 0, k.locked = 0
    PROVE  LET j == ReplayTick(k) IN Wakes(j, k) /\ j.pended = k.pended - 1
<1> DEFINE i == [k EXCEPT !.pended = @ - 1]
<1>1. k \in Kernels /\ k.pended - 1 \in Nat
  <2>1. k \in Kernels
    BY GoodIs
  <2>2. k.pended \in Nat
    BY <2>1 DEF Kernels
  <2> QED
    BY <2>1, <2>2
<1>2. i \in Kernels
  BY <1>1 DEF Kernels
<1>3. SameLists(i, k) /\ i.locked = k.locked /\ i.pendsv = k.pendsv /\ i.pended = k.pended - 1
  BY <1>1, <1>2 DEF SameLists, Kernels
<1>4. ReplayTick(k) = IncrementTick(i)
  BY DEF ReplayTick
<1> HIDE DEF i
<1>5. Wakes(i, k)
  BY <1>3, WakesSame
<1>6. Good(Users, i) /\ AllLinked(i) /\ ~ i.ticking
  BY <1>3, <1>5 DEF Wakes, SameLists
<1>7. Wakes(IncrementTick(i), i) /\ IncrementTick(i).pended = i.pended
  BY <1>3, <1>6, WakesTick
<1> QED
  BY <1>3, <1>4, <1>5, <1>7, WakesFollow

-----------------------------------------------------------------------------
LEMMA ControlIs ==
    ASSUME ControlOK
    PROVE  /\ Good(Users, kernel) /\ AllLinked(kernel) /\ kernel \in Kernels
           /\ kernel.current \in Tasks /\ Idle \in Tasks /\ Users = Tasks \ {Idle}
           /\ PcOK /\ CurrentOK /\ CallsOK
           /\ pc[kernel.current] \in Labels /\ masked \in BOOLEAN
           /\ call[kernel.current] \in CallRecords(buffer.length)
           /\ CallAt(pc[kernel.current], call[kernel.current])
           /\ WaitsAt(kernel, kernel.current, pc[kernel.current], call[kernel.current])
<1>1. Idle \in Tasks
  BY SchedulerAssumption DEF Tasks, Priorities
<1>2. Good(Users, kernel) /\ AllLinked(kernel) /\ PcOK /\ CurrentOK /\ CallsOK
  BY DEF ControlOK
<1>3. kernel \in Kernels /\ kernel.current \in Tasks
  BY <1>2, GoodIs
<1>4. pc[kernel.current] \in Labels /\ masked \in BOOLEAN
  BY <1>2, <1>3 DEF PcOK
<1>5. /\ call[kernel.current] \in CallRecords(buffer.length)
      /\ CallAt(pc[kernel.current], call[kernel.current])
      /\ WaitsAt(kernel, kernel.current, pc[kernel.current], call[kernel.current])
  BY <1>2, <1>3 DEF CallsOK
<1> QED
  BY <1>1, <1>2, <1>3, <1>4, <1>5 DEF Users

\* An interrupt, or a step with the interrupts held off: the tasks stay where they are.
LEMMA KernelStep ==
    ASSUME ControlOK, UNCHANGED <<pc, masked, call, holder, previous_wake>>,
           buffer'.length = buffer.length,
           Wakes(kernel', kernel), PendAt(kernel', pc[kernel.current], masked),
           QueueAt(pc[kernel.current], tx_lock', rx_lock'),
           kernel'.ticking => kernel'.locked = 0 /\ pc[kernel.current] /= "found"
    PROVE  ControlOK'
<1> DEFINE k == kernel'
           l == pc[kernel.current]
           c == call[kernel.current]
<1>1. /\ k.current = kernel.current /\ k.locked = kernel.locked
      /\ Good(Users, k) /\ AllLinked(k) /\ (kernel.pendsv => k.pendsv)
      /\ \A o \in Objects : Range(k.waiting[o]) \subseteq Range(kernel.waiting[o])
      /\ \A u \in Tasks : Event(k, u) => Event(kernel, u)
      /\ \A u \in Tasks : u \in Down(k) => u \in Down(kernel)
      /\ \A u \in Tasks : Event(k, u) /\ u \in Down(kernel) => u \in Down(k)
  BY DEF Wakes
<1>2. PcOK'
  BY ControlIs DEF PcOK
<1>3. AsleepAt(k, l, c)
  BY <1>1, ControlIs DEF CurrentOK, AsleepAt
<1>4. CurrentOK'
  <2>1. /\ pc' = pc /\ masked' = masked /\ call' = call /\ k.current = kernel.current
        /\ pc'[k.current] = l /\ call'[k.current] = c
    BY <1>1
  <2>2. k.locked = LockedAt(l, masked) /\ MaskAt(l, masked)
    BY <1>1, ControlIs DEF CurrentOK
  <2>3. \A t \in Tasks : pc[t] \in Locking \cup Resuming \cup {"found"} => t = k.current
    BY <1>1, ControlIs DEF CurrentOK
  <2> QED
    BY <1>3, <2>1, <2>2, <2>3 DEF CurrentOK
<1>5. CallsOK'
  <2>1. \A t \in Tasks : WaitsAt(k, t, pc[t], call[t])
    BY <1>1, ControlIs DEF CallsOK, WaitsAt
  <2> QED
    BY <2>1, ControlIs DEF CallsOK
<1> QED
  BY <1>1, <1>2, <1>4, <1>5 DEF ControlOK

\* What a step of a task leaves of the events of the others.
OthersWait(j, k) ==
    \A u \in Tasks \ {k.current} :
        /\ Event(j, u) => Event(k, u) /\ (u \in Down(k) => u \in Down(j))
        /\ \A o \in Objects : u \in Range(j.waiting[o]) => u \in Range(k.waiting[o])

\* A step of the current task from a label of its program to another.
LEMMA TaskStep ==
    ASSUME ControlOK, kernel.current \in Users, NEW to \in Labels \ {"idle"},
           NEW c \in CallRecords(buffer.length), NEW k, Goes(k, to), MyCall(c),
           buffer'.length = buffer.length, holder' \in Tasks \cup {Nobody},
           previous_wake' \in [Tasks -> Ticks], masked' \in BOOLEAN,
           Good(Users, k), AllLinked(k), k.current = kernel.current, ~ k.ticking,
           k.locked = LockedAt(to, masked'), MaskAt(to, masked'), PendAt(k, to, masked'),
           QueueAt(to, tx_lock', rx_lock'), AsleepAt(k, to, c), CallAt(to, c),
           WaitsAt(k, kernel.current, to, c), OthersWait(k, kernel)
    PROVE  ControlOK'
<1> DEFINE t == kernel.current
<1>1. /\ t \in Tasks /\ t /= Idle /\ kernel' = k
      /\ pc' = [pc EXCEPT ![t] = to] /\ call' = [call EXCEPT ![t] = c]
  BY ControlIs DEF Goes, MyCall
<1>2. /\ pc \in [Tasks -> Labels] /\ call \in [Tasks -> CallRecords(buffer.length)]
      /\ \A u \in Tasks : pc[u] = "idle" <=> u = Idle
  BY ControlIs DEF PcOK, CallsOK
<1>3. /\ pc'[t] = to /\ call'[t] = c
      /\ \A u \in Tasks : u /= t => pc'[u] = pc[u] /\ call'[u] = call[u]
  BY <1>1, <1>2
<1>4. PcOK'
  BY <1>1, <1>2, <1>3 DEF PcOK
<1>5. CurrentOK'
  <2>1. \A u \in Tasks : pc'[u] \in Locking \cup Resuming \cup {"found"} => u = t
    BY <1>3, ControlIs DEF CurrentOK
  <2> QED
    BY <1>1, <1>3, <2>1 DEF CurrentOK
<1>6. CallsOK'
  <2>1. call' \in [Tasks -> CallRecords(buffer'.length)]
    BY <1>1, <1>2
  <2>2. \A u \in Tasks : CallAt(pc'[u], call'[u])
    BY <1>3, ControlIs DEF CallsOK
  <2>3. \A u \in Tasks : WaitsAt(k, u, pc'[u], call'[u])
    <3> SUFFICES ASSUME NEW u \in Tasks, u /= t PROVE WaitsAt(k, u, pc[u], call[u])
      BY <1>3
    <3>1. WaitsAt(kernel, u, pc[u], call[u])
      BY ControlIs DEF CallsOK
    <3> QED
      BY <3>1 DEF WaitsAt, OthersWait
  <2> QED
    BY <1>1, <2>1, <2>2, <2>3 DEF CallsOK
<1> QED
  BY <1>1, <1>4, <1>5, <1>6 DEF ControlOK

\* A step that wakes tasks, or none, leaves the others' events alone.
LEMMA WakesOthers ==
    ASSUME NEW k, NEW j, Wakes(j, k)
    PROVE  OthersWait(j, k)
BY DEF Wakes, OthersWait

-----------------------------------------------------------------------------
\* PendSV: another task, one that is ready, may be the current one.
LEMMA PendSVControl ==
    ASSUME ControlOK, PendSV, UNCHANGED <<previous_wake, queueVars>>
    PROVE  ControlOK'
<1> DEFINE j == Switched(kernel)
<1>1. kernel' = j /\ pc' = pc /\ masked' = masked /\ ~ masked /\ ~ kernel.ticking /\ kernel.pendsv
  BY DEF PendSV, Switched, Interruptible
<1>2. PICK q \in Priorities : kernel.ready[q].items /= <<>>
  <2>1. PICK q \in Priorities : Idle \in Range(kernel.ready[q].items)
    BY ControlIs DEF AllLinked, Ready
  <2>2. Range(<<>>) = {}
    BY DEF Range
  <2> QED
    BY <2>1, <2>2
<1>3. /\ Good(Users, j)
      /\ \A u \in Tasks : Linked(j, u) <=> Linked(kernel, u)
      /\ \A p \in Priorities : j.ready[p].items = kernel.ready[p].items
      /\ j.pending = kernel.pending /\ j.terminating = kernel.terminating
      /\ j.suspended = kernel.suspended /\ j.waiting = kernel.waiting
      /\ Sleeping(j) = Sleeping(kernel)
      /\ j.locked = kernel.locked /\ j.pended = kernel.pended /\ j.ticking = kernel.ticking
      /\ IF kernel.locked > 0 THEN j.current = kernel.current
         ELSE \E p \in Priorities : j.current \in Range(kernel.ready[p].items)
  <2>1. Good(Users, kernel)
    BY ControlIs
  <2>2. /\ Good(Users, j)
        /\ \A u \in Tasks : Linked(j, u) <=> Linked(kernel, u)
        /\ \A p \in Priorities : j.ready[p].items = kernel.ready[p].items
    BY <1>2, <2>1, SwitchIs
  <2>3. /\ j.pending = kernel.pending /\ j.terminating = kernel.terminating
        /\ j.suspended = kernel.suspended /\ j.waiting = kernel.waiting
    BY <1>2, <2>1, SwitchIs
  <2>3a. Sleeping(j) = Sleeping(kernel)
    BY <1>2, <2>1, SwitchIs
  <2>3b. j.locked = kernel.locked /\ j.pended = kernel.pended /\ j.ticking = kernel.ticking
    BY <1>2, <2>1, SwitchIs
  <2>4. kernel.locked > 0 => j.current = kernel.current
    BY <1>2, <2>1, SwitchIs
  <2>5. ~ (kernel.locked > 0) =>
            \E p \in Priorities : j.current \in Range(kernel.ready[p].items)
    BY <1>2, <2>1, SwitchIs
  <2> QED
    BY <2>2, <2>3, <2>3a, <2>3b, <2>4, <2>5
<1> HIDE DEF j
<1>4. AllLinked(j) /\ Down(j) = Down(kernel) /\ \A u \in Tasks : Event(j, u) <=> Event(kernel, u)
  BY <1>3, ControlIs DEF AllLinked, Ready, Down, Event
<1>5. PcOK'
  BY <1>1, ControlIs DEF PcOK
<1>6. CallsOK'
  <2>1. \A t \in Tasks : WaitsAt(j, t, pc[t], call[t])
    BY <1>3, <1>4, ControlIs DEF CallsOK, WaitsAt
  <2> QED
    BY <1>1, <2>1, ControlIs DEF CallsOK, queueVars
<1>7. CurrentOK'
  <2>0. /\ call' = call /\ tx_lock' = tx_lock /\ rx_lock' = rx_lock
        /\ j.current \in Tasks
    BY <1>3, GoodIs DEF queueVars
  <2>1. CASE kernel.locked > 0
    <3>1. j.current = kernel.current
      BY <1>3, <2>1
    <3>2. /\ PendAt(j, pc[kernel.current], masked)
          /\ AsleepAt(j, pc[kernel.current], call[kernel.current])
      BY <1>1, <1>3, <1>4, <2>1, <3>1, ControlIs DEF CurrentOK, PendAt, AsleepAt
    <3> QED
      BY <1>1, <1>3, <2>0, <3>1, <3>2, ControlIs DEF CurrentOK
  <2>2. CASE ~ (kernel.locked > 0)
    <3>1. kernel.locked = 0
      BY <2>2, ControlIs DEF CurrentOK, LockedAt
    <3>2. pc[kernel.current] \notin Locking \cup Resuming \cup {"found"}
      BY <1>1, <3>1, ControlIs DEF CurrentOK, LockedAt, MaskAt
    <3>3. \A t \in Tasks : pc[t] \notin Locking \cup Resuming \cup {"found"}
      BY <3>2, ControlIs DEF CurrentOK
    <3>4. LockedAt(pc[j.current], masked) = 0 /\ MaskAt(pc[j.current], masked)
      BY <1>1, <2>0, <3>3 DEF LockedAt, MaskAt
    <3>5. kernel.pending = <<>> /\ kernel.pended = 0
      BY <1>1, <3>1, ControlIs DEF CurrentOK, PendAt
    <3>6. PendAt(j, pc[j.current], masked)
      BY <1>3, <3>5 DEF PendAt
    <3>7. QueueAt(pc[j.current], tx_lock, rx_lock)
      BY <3>2, ControlIs DEF CurrentOK, QueueAt, Locking
    <3>8. AsleepAt(j, pc[j.current], call[j.current])
      <4>1. Ready(j, j.current)
        BY <1>3, <2>2 DEF Ready
      <4> QED
        BY <1>3, <2>0, <4>1, GoodIs DEF AsleepAt
    <3> QED
      BY <1>1, <1>3, <2>0, <3>1, <3>3, <3>4, <3>6, <3>7, <3>8 DEF CurrentOK
  <2> QED
    BY <2>1, <2>2
<1> QED
  BY <1>1, <1>3, <1>4, <1>5, <1>6, <1>7 DEF ControlOK

\* Where interrupts are not held off nothing is pending, unless the scheduler is
\* suspended.
LEMMA InterruptedIs ==
    ASSUME ControlOK, Interruptible
    PROVE  /\ ~ masked /\ ~ kernel.ticking /\ pc[kernel.current] /= "found"
           /\ kernel.locked \in {0, 1}
           /\ kernel.locked = 0 => kernel.pending = <<>> /\ kernel.pended = 0
           /\ kernel.locked = 0 => tx_lock = Unlocked /\ rx_lock = Unlocked
           /\ QueueAt(pc[kernel.current], tx_lock, rx_lock)
<1>1. /\ ~ masked /\ ~ kernel.ticking /\ pc[kernel.current] /= "found"
      /\ kernel.locked \in {0, 1}
      /\ kernel.locked = 0 => kernel.pending = <<>> /\ kernel.pended = 0
      /\ QueueAt(pc[kernel.current], tx_lock, rx_lock)
  BY ControlIs DEF CurrentOK, LockedAt, MaskAt, PendAt, Interruptible
<1>2. kernel.locked = 0 => pc[kernel.current] \notin Locking
  BY ControlIs DEF CurrentOK, LockedAt
<1> QED
  BY <1>1, <1>2 DEF QueueAt, Locking

LEMMA SysTickControl ==
    ASSUME ControlOK, SysTick, UNCHANGED <<previous_wake, queueVars>>
    PROVE  ControlOK'
<1>1. kernel' = IncrementTick(kernel) /\ Interruptible /\ pc' = pc /\ masked' = masked
  BY DEF SysTick
<1>2. /\ Wakes(kernel', kernel)
      /\ IF kernel.locked > 0 THEN ~ kernel'.ticking ELSE kernel'.pended = kernel.pended
  BY <1>1, ControlIs, InterruptedIs, WakesTick
<1>3. kernel'.locked = kernel.locked /\ (kernel.locked = 0 /\ kernel.pending = <<>> => kernel'.pending = <<>>)
  BY <1>2 DEF Wakes
<1>4. PendAt(kernel', pc[kernel.current], masked)
  BY <1>1, <1>2, <1>3, InterruptedIs DEF PendAt
<1>5. kernel'.ticking => kernel'.locked = 0 /\ pc[kernel.current] /= "found"
  BY <1>1, <1>2, <1>3, InterruptedIs
<1> QED
  BY <1>1, <1>2, <1>4, <1>5, InterruptedIs, KernelStep DEF queueVars

LEMMA TickLoopsControl ==
    ASSUME ControlOK, TickLoops, UNCHANGED <<previous_wake, queueVars>>
    PROVE  ControlOK'
<1>1. /\ kernel.ticking /\ kernel' = (IF Due(kernel) THEN UnblockFirst(kernel) ELSE EndTick(kernel))
      /\ pc' = pc /\ masked' = masked
  BY DEF TickLoops
<1>2. /\ Wakes(kernel', kernel) /\ kernel'.pended = kernel.pended
      /\ kernel'.ticking => kernel.ticking
  <2>1. CASE Due(kernel)
    BY <1>1, <2>1, ControlIs, WakesDue DEF WakesNow
  <2>2. CASE ~ Due(kernel)
    BY <1>1, <2>2, ControlIs, WakesEndTick
  <2> QED
    BY <2>1, <2>2
<1>3. /\ kernel'.locked = kernel.locked
      /\ kernel.locked = 0 /\ kernel.pending = <<>> => kernel'.pending = <<>>
  BY <1>2 DEF Wakes
<1>4. PendAt(kernel', pc[kernel.current], masked)
  BY <1>2, <1>3, ControlIs DEF PendAt, CurrentOK
<1>5. QueueAt(pc[kernel.current], tx_lock, rx_lock)
  BY ControlIs DEF CurrentOK
<1>6. kernel'.ticking => kernel'.locked = 0 /\ pc[kernel.current] /= "found"
  BY <1>1, <1>2, <1>3, ControlIs DEF CurrentOK
<1> QED
  BY <1>1, <1>2, <1>4, <1>5, <1>6, KernelStep DEF queueVars

LEMMA SchedulerControl ==
    ASSUME ControlOK, SchedulerNext, UNCHANGED <<previous_wake, queueVars>>
    PROVE  ControlOK'
<1>1. CASE IdleFrees
  BY <1>1, ControlIs DEF IdleFrees, AllLinked
<1>2. CASE IdleYields
  <2>1. /\ kernel' = Yielding(kernel) /\ pc' = pc /\ masked' = masked /\ Interruptible
    BY <1>2 DEF IdleYields, At
  <2>2. WakesNow(kernel', kernel)
    BY <2>1, ControlIs, YieldingIs
  <2>3. /\ kernel'.locked = kernel.locked /\ kernel'.pended = kernel.pended
        /\ ~ kernel'.ticking
        /\ kernel.locked = 0 /\ kernel.pending = <<>> => kernel'.pending = <<>>
    BY <2>1, <2>2, InterruptedIs DEF WakesNow, Wakes
  <2>4. PendAt(kernel', pc[kernel.current], masked)
    BY <2>1, <2>3, InterruptedIs DEF PendAt
  <2> QED
    BY <2>1, <2>2, <2>3, <2>4, InterruptedIs, KernelStep DEF queueVars, WakesNow
<1> QED
  BY <1>1, <1>2, PendSVControl, SysTickControl, TickLoopsControl DEF SchedulerNext

-----------------------------------------------------------------------------
\* What a task finds where it goes on.
LEMMA AtIs ==
    ASSUME ControlOK, NEW l \in Labels, At(l)
    PROVE  /\ Is(l) /\ Interruptible /\ pc[kernel.current] = l /\ masked = FALSE
           /\ ~ kernel.ticking /\ ~ kernel.pendsv /\ l /= "found"
           /\ kernel.locked = LockedAt(l, FALSE) /\ QueueAt(l, tx_lock, rx_lock)
           /\ kernel.locked = 0 => kernel.pending = <<>> /\ kernel.pended = 0
           /\ CallAt(l, Mine) /\ Mine \in CallRecords(buffer.length)
           /\ (MyCall(Mine) <=> call' = call)
           /\ l /= "idle" => kernel.current \in Users
           /\ l \notin Leaving \cup {"yield", "delay_resume", "delay_yield"} =>
                 kernel.current \notin Down(kernel)
           /\ l \notin Leaving \cup {"yield"} => ~ Event(kernel, kernel.current)
<1>1. /\ Is(l) /\ Interruptible /\ pc[kernel.current] = l /\ masked = FALSE
      /\ ~ kernel.ticking /\ ~ kernel.pendsv
  BY ControlIs DEF At, Is, Interruptible
<1>2. /\ l /= "found" /\ kernel.locked = LockedAt(l, FALSE) /\ QueueAt(l, tx_lock, rx_lock)
      /\ kernel.locked = 0 => kernel.pending = <<>> /\ kernel.pended = 0
  BY <1>1, InterruptedIs, ControlIs DEF CurrentOK
<1>3. /\ CallAt(l, Mine) /\ Mine \in CallRecords(buffer.length)
      /\ MyCall(Mine) <=> call' = call
  BY <1>1, ControlIs DEF Mine, MyCall, CallsOK
<1>4. l /= "idle" => kernel.current \in Users
  BY <1>1, ControlIs DEF PcOK
<1>5. l \notin Leaving \cup {"yield", "delay_resume", "delay_yield"} =>
          kernel.current \notin Down(kernel)
  BY <1>1, ControlIs DEF CurrentOK, AsleepAt
<1>6. l \notin Leaving \cup {"yield"} => ~ Event(kernel, kernel.current)
  BY <1>1, <1>5, ControlIs DEF WaitsAt
<1> QED
  BY <1>1, <1>2, <1>3, <1>4, <1>5, <1>6

\* A step of a task that puts nobody to sleep.
LEMMA TaskWakes ==
    ASSUME ControlOK, NEW l \in Labels \ {"idle"}, Is(l), ~ kernel.ticking,
           kernel.locked = 0 => kernel.pending = <<>> /\ kernel.pended = 0,
           NEW to \in Labels \ {"idle"}, NEW c \in CallRecords(buffer.length),
           NEW k, Goes(k, to), MyCall(c), WakesNow(k, kernel),
           buffer'.length = buffer.length, holder' \in Tasks \cup {Nobody},
           previous_wake' = previous_wake, masked' \in BOOLEAN,
           kernel.locked = LockedAt(to, masked'), MaskAt(to, masked'),
           QueueAt(to, tx_lock', rx_lock'), CallAt(to, c),
           Event(kernel, kernel.current) => WaitsAt(k, kernel.current, to, c),
           kernel.current \in Down(kernel) => AsleepAt(k, to, c)
    PROVE  ControlOK'
<1>1. kernel.current \in Users /\ previous_wake' \in [Tasks -> Ticks]
  BY ControlIs DEF PcOK, Is
<1>2. /\ Good(Users, k) /\ AllLinked(k) /\ k.current = kernel.current /\ ~ k.ticking
      /\ k.locked = kernel.locked /\ k.pended = kernel.pended
      /\ kernel.locked = 0 /\ kernel.pending = <<>> => k.pending = <<>>
      /\ OthersWait(k, kernel)
  BY WakesOthers DEF WakesNow, Wakes
<1>3. PendAt(k, to, masked')
  BY <1>2 DEF PendAt
<1>4. AsleepAt(k, to, c)
  BY <1>1, <1>2 DEF AsleepAt, WakesNow, Wakes, Users
<1>5. WaitsAt(k, kernel.current, to, c)
  <2>1. CASE ~ Event(kernel, kernel.current)
    <3>1. ~ Event(k, kernel.current)
      BY <1>1, <2>1 DEF WakesNow, Wakes, Users
    <3> QED
      BY <3>1 DEF WaitsAt, Event
  <2> QED
    BY <2>1
<1> QED
  BY <1>1, <1>2, <1>3, <1>4, <1>5, TaskStep

LEMMA WakesItself ==
    ASSUME NEW k, Good(Users, k), AllLinked(k)
    PROVE  WakesNow(k, k)
BY DEF WakesNow, Wakes

\* vTaskSuspendAll, from a label to the one where the task has the scheduler suspended.
LEMMA SuspendedStep ==
    ASSUME ControlOK, NEW from \in {"run", "blocking"}, NEW to,
           from = "run" => to = "delay", from = "blocking" => to = "lock",
           Step(from, SuspendAll(kernel), to),
           UNCHANGED <<previous_wake, queueVars>>
    PROVE  ControlOK'
<1> DEFINE k == SuspendAll(kernel)
<1>1. /\ At(from) /\ Goes(k, to) /\ masked' = masked /\ call' = call
      /\ buffer' = buffer /\ holder' = holder /\ tx_lock' = tx_lock /\ rx_lock' = rx_lock
  BY DEF Step, queueVars
<1>2. from \in Labels /\ to \in Labels \ {"idle"} /\ from /= "idle"
      /\ from \notin Leaving \cup {"yield", "delay_resume", "delay_yield"}
      /\ from \notin Locking \cup Resuming /\ to \in Locking
  BY DEF Labels, Leaving, Locking, Resuming
<1>3. /\ Is(from) /\ masked = FALSE /\ ~ kernel.ticking
      /\ kernel.locked = LockedAt(from, FALSE) /\ QueueAt(from, tx_lock, rx_lock)
      /\ kernel.locked = 0 => kernel.pending = <<>> /\ kernel.pended = 0
      /\ CallAt(from, Mine) /\ Mine \in CallRecords(buffer.length) /\ MyCall(Mine)
      /\ kernel.current \in Users
      /\ kernel.current \notin Down(kernel) /\ ~ Event(kernel, kernel.current)
  BY <1>1, <1>2, AtIs
<1>4. kernel.locked = 0
  BY <1>2, <1>3 DEF LockedAt
<1>5. /\ k \in Kernels /\ SameLists(k, kernel) /\ k.locked = 1 /\ k.pended = kernel.pended
      /\ k.pendsv = kernel.pendsv
  <2>1. kernel \in Kernels
    BY ControlIs
  <2>2. k = [kernel EXCEPT !.locked = 1]
    BY <1>4, <2>1 DEF SuspendAll, Kernels
  <2> HIDE DEF k
  <2>3. k \in Kernels
    BY <2>1, <2>2 DEF Kernels
  <2> QED
    BY <2>1, <2>2, <2>3 DEF SameLists, Kernels
<1> HIDE DEF k
<1>6. Good(Users, k) /\ AllLinked(k)
  <2>1. /\ Good(Users, k) /\ \A u \in Tasks : Linked(k, u) <=> Linked(kernel, u)
    BY <1>5, ControlIs, SameIs
  <2> QED
    BY <1>5, <2>1, ControlIs DEF AllLinked, SameLists, Ready
<1>7. /\ k.current = kernel.current /\ ~ k.ticking /\ Down(k) = Down(kernel)
      /\ k.waiting = kernel.waiting /\ k.pending = kernel.pending
  BY <1>3, <1>5 DEF SameLists, Down, Sleeping
<1>8. OthersWait(k, kernel) /\ ~ Event(k, kernel.current)
  BY <1>3, <1>7 DEF OthersWait, Event
<1>9. /\ LockedAt(to, masked') = 1 /\ MaskAt(to, masked') /\ PendAt(k, to, masked')
      /\ QueueAt(to, tx_lock', rx_lock') /\ AsleepAt(k, to, Mine)
      /\ WaitsAt(k, kernel.current, to, Mine)
  <2>1. LockedAt(to, masked') = 1 /\ MaskAt(to, masked')
    BY <1>1, <1>2, <1>3 DEF LockedAt, MaskAt, Locking
  <2>2. PendAt(k, to, masked') /\ AsleepAt(k, to, Mine)
    BY <1>3, <1>5, <1>7 DEF PendAt, AsleepAt
  <2>3. QueueAt(to, tx_lock', rx_lock')
    BY <1>1, <1>3 DEF QueueAt
  <2>4. WaitsAt(k, kernel.current, to, Mine)
    BY <1>8 DEF WaitsAt, Event
  <2> QED
    BY <2>1, <2>2, <2>3, <2>4
<1>10. CallAt(to, Mine)
  BY <1>3 DEF CallAt, Working, Leaving
<1>11. holder' \in Tasks \cup {Nobody} /\ previous_wake' \in [Tasks -> Ticks]
  BY <1>1, ControlIs DEF CallsOK, PcOK
<1> QED
  BY <1>1, <1>2, <1>3, <1>5, <1>6, <1>7, <1>8, <1>9, <1>10, <1>11, TaskStep

\* xTaskResumeAll, step by step.
LEMMA ResumedStep ==
    ASSUME ControlOK, NEW from \in Resuming,
           NEW to \in Labels \ ({"idle", "found"} \cup Locking \cup Resuming),
           ResumeAll(from, to), UNCHANGED <<previous_wake, queueVars>>, CallAt(to, Mine),
           Event(kernel, kernel.current) => to \in {"yield", "try"},
           kernel.current \in Down(kernel) => kernel.missed \/ to \in {"yield", "delay_yield"}
    PROVE  ControlOK'
<1>1. /\ Is(from) /\ ~ kernel.pendsv /\ ~ kernel.ticking
      /\ call' = call /\ buffer' = buffer /\ holder' = holder
      /\ tx_lock' = tx_lock /\ rx_lock' = rx_lock /\ previous_wake' = previous_wake
  BY DEF ResumeAll, queueVars
<1>2. /\ from \in Labels \ {"idle", "found"} /\ pc[kernel.current] = from
      /\ from \notin Locking
  BY <1>1 DEF Is, Labels, Resuming, Locking
<1>3. /\ kernel.locked = LockedAt(from, masked) /\ QueueAt(from, tx_lock, rx_lock)
      /\ AsleepAt(kernel, from, Mine) /\ WaitsAt(kernel, kernel.current, from, Mine)
      /\ CallAt(from, Mine) /\ Mine \in CallRecords(buffer.length)
      /\ MyCall(Mine) /\ holder' \in Tasks \cup {Nobody} /\ kernel.current \in Users
  BY <1>1, <1>2, ControlIs DEF CurrentOK, CallsOK, PcOK, Mine, MyCall
<1>4. QueueAt(from, tx_lock', rx_lock') /\ QueueAt(to, tx_lock', rx_lock')
  BY <1>1, <1>3 DEF QueueAt, Resuming
<1>5. CASE ~ masked /\ masked' = TRUE /\ kernel' = [kernel EXCEPT !.locked = @ - 1] /\ UNCHANGED pc
  <2> DEFINE k == [kernel EXCEPT !.locked = @ - 1]
  <2>1. kernel.locked = 1
    BY <1>3, <1>5 DEF LockedAt
  <2>2. kernel \in Kernels
    BY ControlIs
  <2>3. k = [kernel EXCEPT !.locked = 0]
    BY <2>1, <2>2 DEF Kernels
  <2>4. Goes(k, from)
    BY <1>2, <1>5, ControlIs DEF Goes, PcOK
  <2> HIDE DEF k
  <2>5. k \in Kernels
    BY <2>2, <2>3 DEF Kernels
  <2>6. SameLists(k, kernel) /\ k.locked = 0 /\ k.pended = kernel.pended /\ k.pendsv = kernel.pendsv
    BY <2>2, <2>3, <2>5 DEF SameLists, Kernels
  <2>7. Good(Users, k) /\ AllLinked(k)
    <3>1. /\ Good(Users, k) /\ \A u \in Tasks : Linked(k, u) <=> Linked(kernel, u)
      BY <2>6, ControlIs, SameIs
    <3> QED
      BY <2>6, <3>1, ControlIs DEF AllLinked, SameLists, Ready
  <2>8. /\ k.current = kernel.current /\ ~ k.ticking /\ Down(k) = Down(kernel)
        /\ k.waiting = kernel.waiting /\ k.pending = kernel.pending
    BY <1>1, <2>6 DEF SameLists, Down, Sleeping
  <2>9. OthersWait(k, kernel) /\ WaitsAt(k, kernel.current, from, Mine)
    BY <1>3, <2>8 DEF OthersWait, WaitsAt, Event
  <2>10. LockedAt(from, masked') = 0 /\ MaskAt(from, masked') /\ PendAt(k, from, masked')
    BY <1>2, <1>5 DEF LockedAt, MaskAt, PendAt
  <2>11. AsleepAt(k, from, Mine)
    BY <1>1, <1>3, <2>8 DEF AsleepAt
  <2>12. previous_wake' \in [Tasks -> Ticks] /\ masked' \in BOOLEAN
    BY <1>1, <1>5, ControlIs DEF PcOK
  <2> QED
    BY <1>1, <1>2, <1>3, <1>4, <2>4, <2>6, <2>7, <2>8, <2>9, <2>10, <2>11, <2>12, TaskStep
<1>6. CASE /\ masked /\ kernel.pending /= <<>>
           /\ kernel' = DrainPendingReadyList(kernel) /\ UNCHANGED <<pc, masked>>
  <2>1. WakesNow(kernel', kernel)
    BY <1>1, <1>6, ControlIs, WakesDrained
  <2>2. PendAt(kernel', pc[kernel.current], masked)
    BY <1>2, <1>6 DEF PendAt
  <2> QED
    BY <1>1, <1>2, <1>4, <1>6, <2>1, <2>2, KernelStep DEF WakesNow
<1>7. CASE /\ masked /\ kernel.pending = <<>> /\ kernel.pended > 0
           /\ kernel' = ReplayTick(kernel) /\ UNCHANGED <<pc, masked>>
  <2>1. kernel.locked = 0
    BY <1>2, <1>3, <1>7 DEF LockedAt
  <2>2. Wakes(kernel', kernel)
    BY <1>1, <1>7, <2>1, ControlIs, WakesReplayed
  <2>3. PendAt(kernel', pc[kernel.current], masked)
    BY <1>2, <1>7 DEF PendAt
  <2>4. kernel'.locked = 0
    BY <2>1, <2>2 DEF Wakes
  <2> QED
    BY <1>1, <1>2, <1>4, <1>7, <2>2, <2>3, <2>4, KernelStep
<1>8. CASE /\ masked /\ kernel.pending = <<>> /\ kernel.pended = 0 /\ masked' = FALSE
           /\ Goes(YieldingIf(kernel, kernel.missed), to)
  <2> DEFINE k == YieldingIf(kernel, kernel.missed)
  <2>1. kernel.missed \in BOOLEAN
    BY ControlIs DEF Kernels
  <2>2. WakesNow(k, kernel) /\ (kernel.missed => k.pendsv)
    BY <2>1, ControlIs, WakesYield
  <2>3. Goes(k, to)
    BY <1>8
  <2> HIDE DEF k
  <2>4. kernel.locked = 0 /\ kernel.locked = LockedAt(to, masked') /\ MaskAt(to, masked')
    BY <1>2, <1>3, <1>8 DEF LockedAt, MaskAt
  <2>5. k.current = kernel.current /\ k.locked = 0
    BY <2>2, <2>4 DEF WakesNow, Wakes
  <2>6. kernel.current \in Down(kernel) => AsleepAt(k, to, Mine)
    BY <2>2, <2>5 DEF AsleepAt
  <2>7. Event(kernel, kernel.current) => WaitsAt(k, kernel.current, to, Mine)
    <3>1. /\ kernel.current \in Tasks
          /\ Event(k, kernel.current) => kernel.current \in Down(k)
          /\ \A o \in Objects : Range(k.waiting[o]) \subseteq Range(kernel.waiting[o])
      BY <1>3, <2>2, ControlIs DEF WakesNow, Wakes, WaitsAt
    <3> QED
      BY <1>3, <3>1 DEF WaitsAt
  <2> QED
    BY <1>1, <1>2, <1>3, <1>4, <1>8, <2>2, <2>3, <2>4, <2>6, <2>7, TaskWakes
<1> QED
  BY <1>5, <1>6, <1>7, <1>8 DEF ResumeAll

-----------------------------------------------------------------------------
\* The current task goes to sleep, or is suspended.
LEMMA FallsAsleep ==
    ASSUME NEW k, Good(Users, k), AllLinked(k), ~ k.ticking, k.current /= Idle,
           NEW ticks \in Ticks \ {0}, NEW b \in BOOLEAN
    PROVE  LET a == AddCurrentTaskToDelayedList(k, ticks, b)
           IN  /\ Good(Users, a) /\ AllLinked(a) /\ Framed(a, k)
               /\ Down(a) = Down(k) \cup {k.current}
               /\ a.waiting = k.waiting /\ a.pending = k.pending
               /\ OthersReady(a, k, k.current)
<1> DEFINE a == AddCurrentTaskToDelayedList(k, ticks, b)
<1>1. /\ Good(Users, a)
      /\ \A u \in Tasks : Linked(a, u) <=> Linked(k, u) \/ u = k.current
      /\ Framed(a, k) /\ a.pending = k.pending
      /\ a.terminating = k.terminating \ {k.current}
      /\ Down(a) = Down(k) \cup {k.current} /\ a.waiting = k.waiting
      /\ OthersReady(a, k, k.current)
  BY DelayedIs
<1> HIDE DEF a
<1>2. AllLinked(a)
  BY <1>1, SchedulerAssumption DEF AllLinked, OthersReady, Tasks, Priorities
<1> QED
  BY <1>1, <1>2 DEF a

LEMMA DelayControl ==
    ASSUME ControlOK, vTaskDelay, UNCHANGED queueVars
    PROVE  ControlOK'
<1>0. /\ previous_wake' = previous_wake /\ call' = call /\ buffer' = buffer /\ holder' = holder
      /\ tx_lock' = tx_lock /\ rx_lock' = rx_lock /\ holder' \in Tasks \cup {Nobody}
      /\ previous_wake' \in [Tasks -> Ticks]
  BY ControlIs DEF vTaskDelay, queueVars, CallsOK, PcOK
<1>1. CASE Step("run", SuspendAll(kernel), "delay")
  BY <1>0, <1>1, SuspendedStep
<1>2. CASE \E ticks \in BlockTimes \ {0} :
               Step("delay", AddCurrentTaskToDelayedList(kernel, ticks, FALSE), "delay_resume")
  <2>1. PICK ticks \in BlockTimes \ {0} :
            Step("delay", AddCurrentTaskToDelayedList(kernel, ticks, FALSE), "delay_resume")
    BY <1>2
  <2> DEFINE k == AddCurrentTaskToDelayedList(kernel, ticks, FALSE)
  <2>2. ticks \in Ticks \ {0} /\ "delay" \in Labels /\ "delay_resume" \in Labels \ {"idle"}
    BY TaskServicesAssumption DEF Labels
  <2>3. At("delay") /\ Goes(k, "delay_resume") /\ masked' = masked
    BY <2>1 DEF Step
  <2>4. /\ masked = FALSE /\ ~ kernel.ticking /\ kernel.locked = LockedAt("delay", FALSE)
        /\ QueueAt("delay", tx_lock, rx_lock) /\ CallAt("delay", Mine)
        /\ Mine \in CallRecords(buffer.length) /\ MyCall(Mine) /\ kernel.current \in Users
        /\ ~ Event(kernel, kernel.current)
    BY <1>0, <2>2, <2>3, AtIs DEF Leaving
  <2>5. /\ Good(Users, k) /\ AllLinked(k) /\ Framed(k, kernel)
        /\ Down(k) = Down(kernel) \cup {kernel.current}
        /\ k.waiting = kernel.waiting /\ k.pending = kernel.pending
    BY <2>2, <2>4, ControlIs, FallsAsleep
  <2> HIDE DEF k
  <2>6. kernel.locked = 1 /\ LockedAt("delay_resume", masked') = 1 /\ MaskAt("delay_resume", masked')
    BY <2>3, <2>4 DEF LockedAt, MaskAt, Locking, Resuming
  <2>7. /\ k.current = kernel.current /\ k.locked = 1 /\ ~ k.ticking
    BY <2>4, <2>5, <2>6 DEF Framed
  <2>8. /\ PendAt(k, "delay_resume", masked') /\ AsleepAt(k, "delay_resume", Mine)
        /\ QueueAt("delay_resume", tx_lock', rx_lock') /\ CallAt("delay_resume", Mine)
    BY <1>0, <2>4, <2>7 DEF PendAt, AsleepAt, QueueAt, CallAt, Working, Leaving
  <2>9. OthersWait(k, kernel) /\ WaitsAt(k, kernel.current, "delay_resume", Mine)
    BY <2>4, <2>5 DEF OthersWait, WaitsAt, Event
  <2> QED
    BY <1>0, <2>2, <2>3, <2>4, <2>5, <2>6, <2>7, <2>8, <2>9, TaskStep
<1>3. CASE Step("run", Yielding(kernel), "run")
  <2>1. At("run") /\ Goes(Yielding(kernel), "run") /\ masked' = masked /\ "run" \in Labels \ {"idle"}
    BY <1>3 DEF Step, Labels
  <2>2. /\ Is("run") /\ masked = FALSE /\ ~ kernel.ticking /\ kernel.locked = LockedAt("run", FALSE)
        /\ kernel.locked = 0 => kernel.pending = <<>> /\ kernel.pended = 0
        /\ QueueAt("run", tx_lock, rx_lock) /\ CallAt("run", Mine)
        /\ Mine \in CallRecords(buffer.length) /\ MyCall(Mine)
        /\ ~ Event(kernel, kernel.current) /\ kernel.current \notin Down(kernel)
    BY <1>0, <2>1, AtIs DEF Leaving
  <2>3. WakesNow(Yielding(kernel), kernel)
    BY ControlIs, YieldingIs
  <2>4. MaskAt("run", masked') /\ QueueAt("run", tx_lock', rx_lock') /\ masked' \in BOOLEAN
    BY <1>0, <2>1, <2>2 DEF MaskAt
  <2> QED
    BY <1>0, <2>1, <2>2, <2>3, <2>4, TaskWakes
<1>4. CASE ResumeAllAndYield("delay_resume", "delay_yield", "run")
  <2>1. CASE ResumeAll("delay_resume", IF kernel.missed THEN "run" ELSE "delay_yield")
    <3> DEFINE to == IF kernel.missed THEN "run" ELSE "delay_yield"
    <3>1. /\ "delay_resume" \in Resuming
          /\ to \in Labels \ ({"idle", "found"} \cup Locking \cup Resuming)
      BY DEF Labels, Locking, Resuming
    <3>2. pc[kernel.current] = "delay_resume"
      BY <2>1 DEF ResumeAll, Is
    <3>3. CallAt(to, Mine) /\ ~ Event(kernel, kernel.current)
      BY <3>2, ControlIs DEF CallAt, WaitsAt, Working, Leaving, Mine
    <3>4. kernel.missed \/ to \in {"yield", "delay_yield"}
      OBVIOUS
    <3> HIDE DEF to
    <3>5. ResumeAll("delay_resume", to)
      BY <2>1 DEF to
    <3> QED
      BY <1>0, <3>1, <3>3, <3>4, <3>5, ResumedStep
  <2>2. CASE Step("delay_yield", Yielding(kernel), "run")
    <3>1. /\ At("delay_yield") /\ Goes(Yielding(kernel), "run") /\ masked' = masked
          /\ "delay_yield" \in Labels \ {"idle"} /\ "run" \in Labels \ {"idle"}
      BY <2>2 DEF Step, Labels
    <3>2. /\ Is("delay_yield") /\ masked = FALSE /\ ~ kernel.ticking
          /\ kernel.locked = LockedAt("delay_yield", FALSE)
          /\ kernel.locked = 0 => kernel.pending = <<>> /\ kernel.pended = 0
          /\ QueueAt("delay_yield", tx_lock, rx_lock) /\ CallAt("delay_yield", Mine)
          /\ Mine \in CallRecords(buffer.length) /\ MyCall(Mine)
          /\ ~ Event(kernel, kernel.current)
      BY <1>0, <3>1, AtIs DEF Leaving
    <3>3. WakesNow(Yielding(kernel), kernel) /\ Yielding(kernel).pendsv
      BY ControlIs, YieldingIs
    <3>4. /\ MaskAt("run", masked') /\ QueueAt("run", tx_lock', rx_lock') /\ masked' \in BOOLEAN
          /\ CallAt("run", Mine) /\ kernel.locked = 0 /\ LockedAt("run", masked') = 0
      BY <1>0, <3>1, <3>2 DEF MaskAt, QueueAt, CallAt, Working, Leaving, LockedAt, Locking, Resuming
    <3>5. AsleepAt(Yielding(kernel), "run", Mine)
      BY <3>3, <3>4 DEF AsleepAt, WakesNow, Wakes
    <3> QED
      BY <1>0, <3>1, <3>2, <3>3, <3>4, <3>5, TaskWakes
  <2> QED
    BY <1>4, <2>1, <2>2 DEF ResumeAllAndYield
<1> QED
  BY <1>1, <1>2, <1>3, <1>4 DEF vTaskDelay

-----------------------------------------------------------------------------
\* The steps of a call.
LEMMA CallOfIs ==
    ASSUME NEW length \in Nat, NEW op \in {"none"} \cup Senders \cup Receivers,
           NEW item \in Items, NEW wait \in Ticks
    PROVE  /\ CallOf(op, item, wait) \in CallRecords(length)
           /\ CallOf(op, item, wait).op = op /\ CallOf(op, item, wait).wait = wait
<1>1. 0 \in 0..length
  OBVIOUS
<1> QED
  BY <1>1 DEF CallOf, CallRecords

LEMMA NoCallIs ==
    ASSUME NEW length \in Nat
    PROVE  NoCall \in CallRecords(length) /\ NoCall.op = "none"
BY CallOfIs, TicksAre, QueueBufferAssumption DEF NoCall

LEMMA LengthIs == ASSUME IInv PROVE buffer.length \in Nat \ {0} /\ buffer.messages \in 0..buffer.length
BY DEF IInv, Ring, IsBuffer

\* A step from a label that leaves nothing to clear up.
LEMMA PlainStep ==
    ASSUME ControlOK,
           NEW l \in {"run", "try", "blocking", "lock", "look", "late"}, At(l),
           NEW to \in Labels \ {"idle"}, NEW c \in CallRecords(buffer.length),
           NEW k, Goes(k, to), MyCall(c), WakesNow(k, kernel),
           buffer'.length = buffer.length, holder' \in Tasks \cup {Nobody},
           previous_wake' = previous_wake, masked' \in BOOLEAN,
           LockedAt(l, FALSE) = LockedAt(to, masked'), MaskAt(to, masked'),
           QueueAt(to, tx_lock', rx_lock'), CallAt(to, c)
    PROVE  ControlOK'
<1>1. /\ l \in Labels \ {"idle"}
      /\ l \notin Leaving \cup {"yield", "delay_resume", "delay_yield"}
  BY DEF Labels, Leaving
<1>2. /\ Is(l) /\ ~ kernel.ticking /\ kernel.locked = LockedAt(l, FALSE)
      /\ kernel.locked = 0 => kernel.pending = <<>> /\ kernel.pended = 0
      /\ kernel.current \notin Down(kernel) /\ ~ Event(kernel, kernel.current)
  BY <1>1, AtIs
<1> QED
  BY <1>1, <1>2, TaskWakes

LEMMA CallsControl ==
    ASSUME ControlOK, IInv, Calls, UNCHANGED previous_wake
    PROVE  ControlOK'
<1>1. /\ At("run") /\ Goes(kernel, "try") /\ masked' = masked /\ buffer' = buffer
      /\ tx_lock' = tx_lock /\ rx_lock' = rx_lock /\ holder' = holder
  BY DEF Calls
<1>2. PICK wait \in QueueBlockTimes, op \in Senders \cup Receivers, item \in Items :
          MyCall(CallOf(op, item, wait))
  BY DEF Calls
<1> DEFINE c == CallOf(op, item, wait)
<1>3. c \in CallRecords(buffer.length) /\ c.op /= "none"
  <2>1. wait \in Ticks /\ op /= "none" /\ op \in {"none"} \cup Senders \cup Receivers
    BY KernelQueueAssumption DEF Senders, Receivers
  <2> QED
    BY <2>1, LengthIs, CallOfIs
<1>4. MyCall(c)
  BY <1>2
<1> HIDE DEF c
<1>5. CallAt("try", c)
  BY <1>3 DEF CallAt, Working, Leaving
<1>6. "run" \in Labels /\ "try" \in Labels \ {"idle"} /\ LockedAt("run", FALSE) = 0
  BY DEF Labels, LockedAt, Locking, Resuming
<1>7. masked = FALSE /\ QueueAt("run", tx_lock, rx_lock)
  BY <1>1, <1>6, AtIs
<1>8. LockedAt("try", masked') = 0 /\ MaskAt("try", masked') /\ QueueAt("try", tx_lock', rx_lock')
  BY <1>1, <1>7 DEF LockedAt, MaskAt, QueueAt, Locking, Resuming
<1>9. WakesNow(kernel, kernel) /\ holder' \in Tasks \cup {Nobody} /\ masked' \in BOOLEAN
  BY <1>1, ControlIs, WakesItself DEF CallsOK
<1> QED
  BY <1>1, <1>3, <1>4, <1>5, <1>6, <1>8, <1>9, PlainStep

\* The end of a call: with a critical section, or one that has been waiting.
LEMMA ReturnsControl ==
    ASSUME ControlOK, IInv, NEW l \in {"try", "late"}, At(l),
           NEW k, Returns(k), WakesNow(k, kernel),
           buffer'.length = buffer.length, holder' \in Tasks \cup {Nobody},
           previous_wake' = previous_wake, masked' = masked,
           tx_lock' = tx_lock, rx_lock' = rx_lock
    PROVE  ControlOK'
<1>1. Goes(Returned(k), "run") /\ MyCall(NoCall)
  BY DEF Returns, Returned
<1>2. WakesNow(Returned(k), kernel)
  <2>1. Good(Users, k) /\ AllLinked(k) /\ k \in Kernels
    BY GoodIs DEF WakesNow, Wakes
  <2>2. WakesNow(Returned(k), k)
    BY <2>1, EndsUntouched, WakesUntouched
  <2> QED
    BY <2>2, WakesFollow
<1>3. NoCall \in CallRecords(buffer.length) /\ CallAt("run", NoCall)
  BY LengthIs, NoCallIs DEF CallAt, Working, Leaving
<1>4. l \in Labels /\ "run" \in Labels \ {"idle"} /\ LockedAt(l, FALSE) = 0
  BY DEF Labels, LockedAt, Locking, Resuming
<1>5. masked = FALSE /\ QueueAt(l, tx_lock, rx_lock)
  BY <1>4, AtIs
<1>6. LockedAt("run", masked') = 0 /\ MaskAt("run", masked') /\ QueueAt("run", tx_lock', rx_lock')
  BY <1>5 DEF LockedAt, MaskAt, QueueAt, Locking, Resuming
<1> QED
  BY <1>1, <1>2, <1>3, <1>4, <1>5, <1>6, PlainStep

LEMMA WakesAndYields ==
    ASSUME NEW k, Good(Users, k), AllLinked(k), NEW o \in Objects
    PROVE  WakesNow(WakeAndYield(k, o), k)
<1>1. WakesNow(Wake(k, o), k)
  BY WakesFirst
<1>2. WakeHigher(k, o) \in BOOLEAN
  BY DEF WakeHigher
<1>3. WakesNow(WakeAndYield(k, o), Wake(k, o))
  BY <1>1, <1>2, WakesYield DEF WakeAndYield, WakesNow, Wakes
<1> QED
  BY <1>1, <1>3, WakesFollow

\* A change of a priority by the mutex.
LEMMA WithPriorityIs ==
    ASSUME NEW k \in Kernels, NEW t \in Tasks, NEW p \in Priorities
    PROVE  /\ WithPriority(k, t, p) = Moved(k, t, p, k.base[t], MaxPriorities - p)
           /\ k.base[t] \in Priorities /\ MaxPriorities - p \in Nat
<1> DEFINE o == MaxPriorities - p
           old == k.priority[t]
<1>1. k.base[t] \in Priorities /\ o \in Nat /\ old \in Priorities
  <2>1. k.base[t] \in Priorities /\ old \in Priorities
    BY DEF Kernels
  <2>2. o \in Nat
    BY SchedulerAssumption DEF Priorities
  <2> QED
    BY <2>1, <2>2
<1> DEFINE priority == [k.priority EXCEPT ![t] = p]
           order == [k.order EXCEPT ![t] = o]
           ready == [k.ready EXCEPT ![old] = RemoveItem(@, t)]
<1>2. [[k EXCEPT !.priority[t] = p, !.order[t] = o] EXCEPT !.ready[old] = RemoveItem(@, t)]
          = SetPriority(TakeFromReady(k, t), t, p, k.base[t], o)
  <2>1. [k.base EXCEPT ![t] = k.base[t]] = k.base
    BY DEF Kernels
  <2>2. SetPriority(TakeFromReady(k, t), t, p, k.base[t], o)
            = [k EXCEPT !.priority = priority, !.order = order, !.ready = ready]
    BY <2>1 DEF SetPriority, TakeFromReady, Kernels
  <2>3. [[k EXCEPT !.priority[t] = p, !.order[t] = o] EXCEPT !.ready[old] = RemoveItem(@, t)]
            = [k EXCEPT !.priority = priority, !.order = order, !.ready = ready]
    BY DEF Kernels
  <2> QED
    BY <2>2, <2>3
<1>3. [k EXCEPT !.priority[t] = p, !.order[t] = o] = SetPriority(k, t, p, k.base[t], o)
  BY <1>1 DEF Kernels, SetPriority
<1> QED
  BY <1>1, <1>2, <1>3 DEF WithPriority, Moved

LEMMA WakesWithPriority ==
    ASSUME NEW k, Good(Users, k), AllLinked(k), NEW t \in Tasks, NEW p \in Priorities
    PROVE  WakesNow(WithPriority(k, t, p), k)
BY GoodIs, WithPriorityIs, WakesMoved

LEMMA SendsControl ==
    ASSUME ControlOK, IInv, Sends, buffer'.length = buffer.length, UNCHANGED previous_wake
    PROVE  ControlOK'
<1> DEFINE k == IF IsMutex THEN PriorityDisinherit(kernel) ELSE kernel
           j == IF k.waiting["toReceive"] = <<>> THEN YieldingIf(k, k /= kernel)
                ELSE WakeAndYield(k, "toReceive")
<1>1. /\ At("try") /\ Returns(j) /\ masked' = masked /\ tx_lock' = tx_lock /\ rx_lock' = rx_lock
      /\ holder' = IF IsMutex THEN Nobody ELSE holder
  BY DEF Sends
<1>2. WakesNow(k, kernel)
  <2>1. WakesNow(kernel, kernel)
    BY ControlIs, WakesItself
  <2>2. kernel.base[kernel.current] \in Priorities
    BY ControlIs DEF Kernels
  <2>3. WakesNow(WithPriority(kernel, kernel.current, kernel.base[kernel.current]), kernel)
    BY <2>2, ControlIs, WakesWithPriority
  <2> QED
    BY <2>1, <2>3 DEF PriorityDisinherit
<1>3. "toReceive" \in Objects
  BY KernelQueueAssumption
<1>4. WakesNow(j, kernel)
  <2>1. Good(Users, k) /\ AllLinked(k) /\ (k /= kernel) \in BOOLEAN
    BY <1>2 DEF WakesNow, Wakes
  <2> HIDE DEF k
  <2>2. WakesNow(j, k)
    BY <1>3, <2>1, WakesYield, WakesAndYields
  <2> QED
    BY <1>2, <2>2, WakesFollow
<1>5. holder' \in Tasks \cup {Nobody}
  BY <1>1, ControlIs DEF CallsOK
<1> HIDE DEF j
<1> QED
  BY <1>1, <1>4, <1>5, ReturnsControl

LEMMA GivesUpControl ==
    ASSUME ControlOK, IInv, GivesUp, UNCHANGED previous_wake
    PROVE  ControlOK'
<1>1. WakesNow(kernel, kernel) /\ holder \in Tasks \cup {Nobody}
  BY ControlIs, WakesItself DEF CallsOK
<1> QED
  BY <1>1, ReturnsControl DEF GivesUp

\* What changes in the record of a call.
LEMMA ExceptTyped ==
    ASSUME NEW length, NEW c \in CallRecords(length)
    PROVE  /\ \A x \in BOOLEAN : [c EXCEPT !.timed = x] \in CallRecords(length)
           /\ \A x \in Ticks : [c EXCEPT !.wait = x] \in CallRecords(length)
           /\ \A x \in 0..length : [c EXCEPT !.loaded = x] \in CallRecords(length)
           /\ \A x \in {"none", "placed", "again", "expired"} :
                 [c EXCEPT !.outcome = x] \in CallRecords(length)
           /\ \A x \in BOOLEAN : [c EXCEPT !.inherited = x] \in CallRecords(length)
BY DEF CallRecords

LEMMA CountsControl ==
    ASSUME ControlOK, IInv, Counts, UNCHANGED previous_wake
    PROVE  ControlOK'
<1> DEFINE c == [Mine EXCEPT !.loaded = buffer.messages]
<1>1. /\ At("try") /\ Goes(kernel, "found") /\ masked' = TRUE /\ MyCall(c)
      /\ buffer' = buffer /\ tx_lock' = tx_lock /\ rx_lock' = rx_lock /\ holder' = holder
      /\ Mine.op \in Receivers
  BY DEF Counts
<1>2. "try" \in Labels /\ "found" \in Labels \ {"idle"} /\ LockedAt("try", FALSE) = 0
  BY DEF Labels, LockedAt, Locking, Resuming
<1>3. /\ Mine \in CallRecords(buffer.length) /\ CallAt("try", Mine)
      /\ QueueAt("try", tx_lock, rx_lock)
  BY <1>1, <1>2, AtIs
<1>4. c \in CallRecords(buffer.length) /\ c.op = Mine.op /\ c.op /= "none"
  BY <1>1, <1>3, LengthIs, ExceptTyped DEF CallRecords, Receivers
<1> HIDE DEF c
<1>5. CallAt("found", c)
  BY <1>1, <1>4 DEF CallAt, Working, Leaving
<1>6. LockedAt("found", masked') = 0 /\ MaskAt("found", masked') /\ QueueAt("found", tx_lock', rx_lock')
  BY <1>1, <1>3 DEF LockedAt, MaskAt, QueueAt, Locking, Resuming
<1>7. WakesNow(kernel, kernel) /\ holder' \in Tasks \cup {Nobody} /\ masked' \in BOOLEAN
  BY <1>1, ControlIs, WakesItself DEF CallsOK
<1> QED
  BY <1>1, <1>2, <1>4, <1>5, <1>6, <1>7, PlainStep

\* The end of the critical section of a receiver, which wakes a task of a list.
LEMMA FoundControl ==
    ASSUME ControlOK, IInv, Is("found"), NEW o \in Objects, Returns(WakeAndYield(kernel, o)),
           masked' = FALSE, buffer'.length = buffer.length, holder' \in Tasks \cup {Nobody},
           UNCHANGED <<previous_wake, tx_lock, rx_lock>>
    PROVE  ControlOK'
<1> DEFINE j == WakeAndYield(kernel, o)
           k == Returned(j)
<1>1. pc[kernel.current] = "found" /\ "found" \in Labels \ {"idle"} /\ "run" \in Labels \ {"idle"}
  BY DEF Is, Labels
<1>2. /\ ~ kernel.ticking /\ kernel.locked = 0
      /\ kernel.pending = <<>> /\ kernel.pended = 0
      /\ QueueAt("found", tx_lock, rx_lock)
      /\ ~ Event(kernel, kernel.current)
      /\ AsleepAt(kernel, "found", Mine)
  BY <1>1, ControlIs DEF CurrentOK, LockedAt, MaskAt, PendAt, WaitsAt, Mine, Locking, Resuming,
                         Leaving
<1>3. WakesNow(j, kernel)
  BY ControlIs, WakesAndYields
<1>4. WakesNow(k, kernel)
  <2>1. Good(Users, j) /\ AllLinked(j) /\ j \in Kernels
    BY <1>3, GoodIs DEF WakesNow, Wakes
  <2>2. WakesNow(k, j)
    BY <2>1, EndsUntouched, WakesUntouched
  <2> QED
    BY <1>3, <2>2, WakesFollow
<1>5. Goes(k, "run") /\ MyCall(NoCall)
  BY DEF Returns, Returned
<1> HIDE DEF k, j
<1>6. NoCall \in CallRecords(buffer.length) /\ CallAt("run", NoCall)
  BY LengthIs, NoCallIs DEF CallAt, Working, Leaving
<1>7. LockedAt("run", masked') = 0 /\ MaskAt("run", masked') /\ QueueAt("run", tx_lock', rx_lock')
  BY <1>2 DEF LockedAt, MaskAt, QueueAt, Locking, Resuming
<1>8. AsleepAt(k, "run", NoCall)
  <2>1. k.current = kernel.current /\ k.locked = 0 /\ (kernel.pendsv => k.pendsv)
        /\ (kernel.current \in Down(k) => kernel.current \in Down(kernel))
    BY <1>2, <1>4, ControlIs DEF WakesNow, Wakes
  <2> QED
    BY <1>2, <2>1 DEF AsleepAt, Leaving
<1> QED
  BY <1>1, <1>2, <1>4, <1>5, <1>6, <1>7, <1>8, TaskWakes

LEMMA ReceivesControl ==
    ASSUME ControlOK, IInv, Receives \/ Peeks, buffer'.length = buffer.length,
           UNCHANGED previous_wake
    PROVE  ControlOK'
<1>1. /\ Is("found") /\ masked' = FALSE /\ tx_lock' = tx_lock /\ rx_lock' = rx_lock
      /\ holder' \in {holder, kernel.current}
      /\ \E o \in {"toSend", "toReceive"} : Returns(WakeAndYield(kernel, o))
  BY DEF Receives, Peeks
<1>2. holder' \in Tasks \cup {Nobody}
  BY <1>1, ControlIs DEF CallsOK
<1> QED
  BY <1>1, <1>2, KernelQueueAssumption, FoundControl

LEMMA StartsToWaitControl ==
    ASSUME ControlOK, IInv, StartsToWait, UNCHANGED previous_wake
    PROVE  ControlOK'
<1> DEFINE c == [Mine EXCEPT !.timed = TRUE]
           k == IF Mine.timed THEN kernel ELSE SetTimeOutState(kernel)
<1>1. /\ At("try") /\ Goes(k, "blocking") /\ masked' = masked /\ MyCall(c)
      /\ buffer' = buffer /\ tx_lock' = tx_lock /\ rx_lock' = rx_lock /\ holder' = holder
      /\ Mine.wait > 0
  BY DEF StartsToWait
<1>2. "try" \in Labels /\ "blocking" \in Labels \ {"idle"} /\ LockedAt("try", FALSE) = 0
  BY DEF Labels, LockedAt, Locking, Resuming
<1>3. /\ Mine \in CallRecords(buffer.length) /\ CallAt("try", Mine)
      /\ QueueAt("try", tx_lock, rx_lock) /\ masked = FALSE
  BY <1>1, <1>2, AtIs
<1>4. c \in CallRecords(buffer.length) /\ c.op = Mine.op /\ c.wait = Mine.wait
  BY <1>1, <1>3, ExceptTyped DEF CallRecords
<1>5. WakesNow(k, kernel)
  BY ControlIs, WakesItself, EndsUntouched, WakesUntouched
<1> HIDE DEF c, k
<1>6. CallAt("blocking", c)
  BY <1>1, <1>3, <1>4 DEF CallAt, Working, Leaving
<1>7. /\ LockedAt("blocking", masked') = 0 /\ MaskAt("blocking", masked')
      /\ QueueAt("blocking", tx_lock', rx_lock')
  BY <1>1, <1>3 DEF LockedAt, MaskAt, QueueAt, Locking, Resuming
<1>8. holder' \in Tasks \cup {Nobody} /\ masked' \in BOOLEAN
  BY <1>1, ControlIs DEF CallsOK
<1> QED
  BY <1>1, <1>2, <1>4, <1>5, <1>6, <1>7, <1>8, PlainStep

\* The block time left is not over.
LEMMA RemainingIs ==
    ASSUME NEW k \in Kernels, NEW wait \in Ticks, ~ TimedOut(k, wait)
    PROVE  Remaining(k, wait) \in Ticks \ {0}
<1>1. /\ k.entered[k.current] \in Ticks /\ k.tick \in Ticks
  BY DEF Kernels
<1> DEFINE e == Elapsed(k.entered[k.current], k.tick)
<1>2. e \in Nat
  BY <1>1, TickCountAssumption DEF Elapsed, Ticks, Round
<1> HIDE DEF e
<1>3. CASE wait = MaxDelay
  BY <1>3, TickCountAssumption DEF Remaining, Ticks
<1>4. CASE wait /= MaxDelay
  <2>1. e < wait /\ Remaining(k, wait) = wait - e
    BY <1>2, <1>4, TickCountAssumption DEF Remaining, TimedOut, Ticks, e
  <2> QED
    BY <1>2, <2>1, TickCountAssumption DEF Ticks
<1> QED
  BY <1>3, <1>4

LEMMA LockIs ==
    ASSUME NEW lock \in {Unlocked} \cup Nat
    PROVE  Max({lock, 0}) \in Nat
<1>1. \E x \in {lock, 0} : \A y \in {lock, 0} : x >= y
  BY DEF Unlocked
<1>2. Max({lock, 0}) \in {lock, 0} /\ \A y \in {lock, 0} : Max({lock, 0}) >= y
  BY <1>1 DEF Max
<1> QED
  BY <1>2 DEF Unlocked

LEMMA LocksControl ==
    ASSUME ControlOK, IInv, Locks, UNCHANGED previous_wake
    PROVE  ControlOK'
<1>1. /\ At("lock") /\ masked' = masked /\ buffer' = buffer /\ holder' = holder
      /\ rx_lock' = Max({rx_lock, 0}) /\ tx_lock' = Max({tx_lock, 0})
  BY DEF Locks
<1>2. /\ "lock" \in Labels /\ "unlock" \in Labels \ {"idle"} /\ "look" \in Labels \ {"idle"}
      /\ LockedAt("lock", FALSE) = 1
  BY DEF Labels, LockedAt, Locking, Resuming
<1>3. /\ Mine \in CallRecords(buffer.length) /\ CallAt("lock", Mine)
      /\ QueueAt("lock", tx_lock, rx_lock) /\ masked = FALSE
  BY <1>1, <1>2, AtIs
<1>4. /\ QueueAt("unlock", tx_lock', rx_lock') /\ QueueAt("look", tx_lock', rx_lock')
  <2>1. tx_lock' \in Nat /\ rx_lock' \in Nat
    BY <1>1, <1>3, LockIs DEF QueueAt
  <2> QED
    BY <2>1 DEF QueueAt
<1>5. /\ LockedAt("unlock", masked') = 1 /\ MaskAt("unlock", masked')
      /\ LockedAt("look", masked') = 1 /\ MaskAt("look", masked')
  BY <1>1, <1>3 DEF LockedAt, MaskAt, Locking, Resuming
<1>6. /\ WakesNow(kernel, kernel) /\ WakesNow(SetTimeOutState(kernel), kernel)
      /\ holder' \in Tasks \cup {Nobody} /\ masked' \in BOOLEAN
  BY <1>1, ControlIs, WakesItself, EndsUntouched, WakesUntouched DEF CallsOK
<1>7. CASE TimedOut(kernel, Mine.wait)
  <2> DEFINE c == [Mine EXCEPT !.outcome = "expired", !.wait = AfterTimeOut(@)]
  <2>1. Goes(kernel, "unlock") /\ MyCall(c)
    BY <1>7 DEF Locks
  <2>2. c \in CallRecords(buffer.length) /\ c.op = Mine.op /\ c.outcome = "expired"
    <3>1. AfterTimeOut(Mine.wait) \in Ticks
      BY <1>3, TicksAre DEF AfterTimeOut, CallRecords
    <3> QED
      BY <1>3, <3>1 DEF CallRecords
  <2> HIDE DEF c
  <2>3. CallAt("unlock", c)
    BY <1>3, <2>2 DEF CallAt, Working, Leaving
  <2> QED
    BY <1>1, <1>2, <1>4, <1>5, <1>6, <2>1, <2>2, <2>3, PlainStep
<1>8. CASE ~ TimedOut(kernel, Mine.wait)
  <2> DEFINE c == [Mine EXCEPT !.wait = Remaining(kernel, @)]
             k == IF Mine.wait = MaxDelay THEN kernel ELSE SetTimeOutState(kernel)
  <2>1. Goes(k, "look") /\ MyCall(c)
    BY <1>8 DEF Locks
  <2>2. c \in CallRecords(buffer.length) /\ c.op = Mine.op /\ c.wait > 0
    <3>1. Remaining(kernel, Mine.wait) \in Ticks \ {0}
      BY <1>3, <1>8, ControlIs, RemainingIs DEF CallRecords
    <3>2. Remaining(kernel, Mine.wait) > 0
      BY <3>1 DEF Ticks
    <3> QED
      BY <1>3, <3>1, <3>2 DEF CallRecords
  <2>3. WakesNow(k, kernel)
    BY <1>6
  <2> HIDE DEF c, k
  <2>4. CallAt("look", c)
    BY <1>3, <2>2 DEF CallAt, Working, Leaving
  <2> QED
    BY <1>1, <1>2, <1>4, <1>5, <1>6, <2>1, <2>2, <2>3, <2>4, PlainStep
<1> QED
  BY <1>7, <1>8


\* vTaskPlaceOnEventList puts the current task to sleep and on the event list.
LEMMA PlacedIs ==
    ASSUME NEW k, Good(Users, k), AllLinked(k), ~ k.ticking, k.current \in Users,
           ~ Event(k, k.current), NEW o \in Objects, NEW wait \in Ticks \ {0}
    PROVE  LET a == PlaceOnEventList(k, o, wait)
           IN  /\ Good(Users, a) /\ AllLinked(a) /\ Framed(a, k) /\ a.pending = k.pending
               /\ Down(a) = Down(k) \cup {k.current}
               /\ Range(a.waiting[o]) = Range(k.waiting[o]) \cup {k.current}
               /\ \A p \in Objects : p /= o => a.waiting[p] = k.waiting[p]
               /\ Sorted(k.waiting[o], k.order) => Sorted(a.waiting[o], k.order)
<1> DEFINE j == PutToWait(k, k.current, o)
           a == AddCurrentTaskToDelayedList(j, wait, TRUE)
<1>1. k.current \in Tasks /\ k.current /= Idle
  BY DEF Users
<1>2. k.current \notin Range(k.pending) /\ \A p \in Objects : k.current \notin Range(k.waiting[p])
  BY DEF Event
<1>3. /\ Good(Users, j) /\ Framed(j, k)
      /\ \A u \in Tasks : Linked(j, u) <=> Linked(k, u)
      /\ \A u : OthersReady(j, k, u)
      /\ Range(j.waiting[o]) = Range(k.waiting[o]) \cup {k.current}
      /\ Sorted(k.waiting[o], k.order) => Sorted(j.waiting[o], k.order)
      /\ \A p \in Objects : p /= o => j.waiting[p] = k.waiting[p]
      /\ j.pending = k.pending /\ j.terminating = k.terminating
      /\ Sleeping(j) = Sleeping(k) /\ j.suspended = k.suspended
  BY <1>1, <1>2, QueuedIs
<1>4. a = PlaceOnEventList(k, o, wait)
  BY DEF PlaceOnEventList, PutToWait
<1> HIDE DEF j
<1>5. /\ AllLinked(j) /\ Down(j) = Down(k) /\ j.current = k.current /\ ~ j.ticking
  <2>1. \A u \in Tasks : Linked(j, u)
    BY <1>3 DEF AllLinked
  <2>2. AllLinked(j)
    BY <1>3, <2>1, WakesAll
  <2> QED
    BY <1>3, <2>2 DEF Down, Framed
<1>6. /\ Good(Users, a) /\ AllLinked(a) /\ Framed(a, j)
      /\ Down(a) = Down(j) \cup {j.current} /\ a.waiting = j.waiting /\ a.pending = j.pending
  BY <1>1, <1>3, <1>5, FallsAsleep
<1> HIDE DEF a
<1>7. Framed(a, k)
  BY <1>3, <1>6 DEF Framed
<1> QED
  BY <1>3, <1>4, <1>5, <1>6, <1>7

\* The mutex holder may inherit the priority of the task that waits for it.
LEMMA WakesInherit ==
    ASSUME NEW k, Good(Users, k), AllLinked(k), holder \in Tasks \cup {Nobody}
    PROVE  WakesNow(PriorityInherit(k), k)
<1>1. k.priority[k.current] \in Priorities
  BY GoodIs DEF Kernels
<1>2. CASE holder /= Nobody
  BY <1>1, <1>2, WakesWithPriority, WakesItself DEF PriorityInherit
<1>3. CASE holder = Nobody
  BY <1>3, WakesItself DEF PriorityInherit
<1> QED
  BY <1>2, <1>3

LEMMA LooksControl ==
    ASSUME ControlOK, IInv, Looks, UNCHANGED previous_wake
    PROVE  ControlOK'
<1>1. /\ At("look") /\ masked' = masked /\ buffer' = buffer /\ holder' = holder
      /\ rx_lock' = rx_lock /\ tx_lock' = tx_lock /\ previous_wake' = previous_wake
  BY DEF Looks
<1>2. /\ "look" \in Labels /\ "unlock" \in Labels \ {"idle"} /\ LockedAt("look", FALSE) = 1
      /\ "look" \notin Leaving \cup {"yield", "delay_resume", "delay_yield"}
  BY DEF Labels, LockedAt, Locking, Resuming, Leaving
<1>3. /\ Mine \in CallRecords(buffer.length) /\ CallAt("look", Mine)
      /\ QueueAt("look", tx_lock, rx_lock) /\ masked = FALSE /\ ~ kernel.ticking
      /\ kernel.locked = 1 /\ kernel.current \in Users
      /\ ~ Event(kernel, kernel.current) /\ holder \in Tasks \cup {Nobody}
  BY <1>1, <1>2, AtIs, ControlIs DEF CallsOK
<1>4. /\ QueueAt("unlock", tx_lock', rx_lock') /\ LockedAt("unlock", masked') = 1
      /\ MaskAt("unlock", masked') /\ masked' \in BOOLEAN /\ holder' \in Tasks \cup {Nobody}
      /\ previous_wake' \in [Tasks -> Ticks]
  BY <1>1, <1>3, ControlIs DEF LockedAt, MaskAt, QueueAt, Locking, PcOK
<1>5. CASE Obstructed
  <2> DEFINE b == IF IsMutex THEN Inherits(kernel) ELSE Mine.inherited
             c == [Mine EXCEPT !.outcome = "placed", !.inherited = b]
             o == IF Mine.op \in Senders THEN "toSend" ELSE "toReceive"
             j == IF IsMutex THEN PriorityInherit(kernel) ELSE kernel
             k == PlaceOnEventList(j, o, Mine.wait)
  <2>1. Goes(k, "unlock") /\ MyCall(c)
    BY <1>5 DEF Looks, Blocked
  <2>2. b \in BOOLEAN
    BY <1>3 DEF Inherits, CallRecords
  <2>3. o \in Objects
    BY KernelQueueAssumption
  <2>4. WakesNow(j, kernel)
    BY <1>3, ControlIs, WakesInherit, WakesItself
  <2>5. Mine.wait \in Ticks \ {0}
    BY <1>3 DEF CallAt, CallRecords, Ticks
  <2> HIDE DEF b
  <2>6. /\ c \in CallRecords(buffer.length) /\ c.op = Mine.op /\ c.outcome = "placed"
    BY <1>3, <2>2 DEF CallRecords
  <2> HIDE DEF c, j
  <2>7. /\ Good(Users, j) /\ AllLinked(j) /\ j.current = kernel.current /\ ~ j.ticking
        /\ j.locked = 1 /\ ~ Event(j, j.current)
    BY <1>3, <2>4, ControlIs DEF WakesNow, Wakes
  <2>8. /\ Good(Users, k) /\ AllLinked(k) /\ Framed(k, j) /\ k.pending = j.pending
        /\ Down(k) = Down(j) \cup {j.current}
        /\ Range(k.waiting[o]) = Range(j.waiting[o]) \cup {j.current}
        /\ \A p \in Objects : p /= o => k.waiting[p] = j.waiting[p]
    BY <1>3, <2>3, <2>5, <2>7, PlacedIs
  <2> HIDE DEF k
  <2>9. Mine.op \in Senders \cup Receivers
    BY <1>3 DEF CallAt, Working, CallRecords
  <2>10. Suits(o, c)
    BY <2>6, <2>9 DEF Suits
  <2>11. /\ k.current = kernel.current /\ ~ k.ticking /\ k.locked = 1
         /\ kernel.current \in Down(k)
    BY <2>7, <2>8 DEF Framed
  <2>12. WaitsAt(k, kernel.current, "unlock", c)
    <3>1. \A p \in Objects : kernel.current \in Range(k.waiting[p]) => p = o
      BY <2>7, <2>8 DEF Event
    <3> QED
      BY <2>6, <2>10, <2>11, <3>1 DEF WaitsAt, Leaving
  <2>13. OthersWait(k, kernel)
    <3>1. OthersWait(j, kernel)
      BY <2>4, WakesOthers DEF WakesNow
    <3> HIDE DEF o
    <3>2. ASSUME NEW u \in Tasks \ {kernel.current}, NEW p \in Objects
          PROVE  u \in Range(k.waiting[p]) => u \in Range(j.waiting[p])
      BY <2>7, <2>8
    <3>3. ASSUME NEW u \in Tasks \ {kernel.current}
          PROVE  /\ Event(k, u) => Event(j, u)
                 /\ u \in Down(j) => u \in Down(k)
      BY <2>8, <3>2 DEF Event
    <3> QED
      BY <3>1, <3>2, <3>3 DEF OthersWait
  <2>14. PendAt(k, "unlock", masked') /\ AsleepAt(k, "unlock", c) /\ CallAt("unlock", c)
    BY <2>6, <2>9, <2>11 DEF PendAt, AsleepAt, CallAt, Working, Leaving, Senders, Receivers
  <2> QED
    BY <1>1, <1>2, <1>3, <1>4, <2>1, <2>6, <2>8, <2>11, <2>12, <2>13, <2>14, TaskStep
<1>6. CASE ~ Obstructed
  <2> DEFINE c == [Mine EXCEPT !.outcome = "again"]
  <2>1. Goes(kernel, "unlock") /\ MyCall(c)
    BY <1>6 DEF Looks
  <2>2. /\ c \in CallRecords(buffer.length) /\ c.op = Mine.op /\ c.outcome = "again"
    BY <1>3 DEF CallRecords
  <2> HIDE DEF c
  <2>3. CallAt("unlock", c)
    BY <1>3, <2>2 DEF CallAt, Working, Leaving
  <2>4. WakesNow(kernel, kernel)
    BY ControlIs, WakesItself
  <2> QED
    BY <1>1, <1>2, <1>4, <2>1, <2>2, <2>3, <2>4, PlainStep
<1> QED
  BY <1>5, <1>6

LEMMA SuspendsControl ==
    ASSUME ControlOK, Suspends, UNCHANGED previous_wake
    PROVE  ControlOK'
BY SuspendedStep DEF Suspends, queueVars

-----------------------------------------------------------------------------
\* A loop of prvUnlockQueue.
LEMMA UnlockedStep ==
    ASSUME ControlOK, NEW from, NEW to,
           \/ from = "unlock" /\ to = "unlock_rx"
           \/ from = "unlock_rx" /\ to = "resume",
           NEW o \in Objects, NEW n \in Int, Step(from, WakeSome(kernel, o, n), to),
           QueueAt(to, tx_lock', rx_lock'),
           UNCHANGED <<previous_wake, buffer, holder, call>>
    PROVE  ControlOK'
<1> DEFINE k == WakeSome(kernel, o, n)
<1>1. /\ At(from) /\ Goes(k, to) /\ masked' = masked /\ call' = call /\ buffer' = buffer
      /\ holder' = holder /\ previous_wake' = previous_wake
  BY DEF Step
<1>2. /\ from \in Labels \ {"idle"} /\ to \in Labels \ {"idle"} /\ from \in Leaving /\ to \in Leaving
      /\ LockedAt(from, FALSE) = 1 /\ LockedAt(to, FALSE) = 1 /\ from \notin Working
      /\ from \notin {"yield", "delay_resume", "delay_yield"}
  BY DEF Labels, LockedAt, Locking, Resuming, Leaving, Working
<1>3. /\ Is(from) /\ masked = FALSE /\ ~ kernel.ticking /\ kernel.locked = 1
      /\ ~ kernel.pendsv /\ pc[kernel.current] = from
      /\ CallAt(from, Mine) /\ Mine \in CallRecords(buffer.length) /\ MyCall(Mine)
  BY <1>1, <1>2, AtIs
<1>4. /\ AsleepAt(kernel, from, Mine) /\ WaitsAt(kernel, kernel.current, from, Mine)
      /\ holder' \in Tasks \cup {Nobody} /\ kernel.current \in Tasks
  BY <1>1, <1>3, ControlIs DEF CurrentOK, CallsOK, Mine
<1>5. WakesNow(k, kernel)
  <2>1. Good(Users, kernel) /\ AllLinked(kernel) /\ kernel.locked /= 0
    BY <1>3, ControlIs
  <2> QED
    BY <2>1, WakesSome
<1> HIDE DEF k
<1>6. LockedAt(to, masked') = 1 /\ MaskAt(to, masked') /\ CallAt(to, Mine) /\ masked' \in BOOLEAN
  BY <1>1, <1>2, <1>3 DEF MaskAt, CallAt, Working, Leaving
<1>7. kernel.current \in Down(kernel) => AsleepAt(k, to, Mine)
  BY <1>2, <1>3, <1>4 DEF AsleepAt
<1>8. Event(kernel, kernel.current) => WaitsAt(k, kernel.current, to, Mine)
  <2>1. /\ Event(k, kernel.current) /\ kernel.current \in Down(kernel) => kernel.current \in Down(k)
        /\ \A p \in Objects : Range(k.waiting[p]) \subseteq Range(kernel.waiting[p])
    BY <1>4, <1>5 DEF WakesNow, Wakes
  <2> QED
    BY <1>2, <1>4, <2>1 DEF WaitsAt
<1> QED
  BY <1>1, <1>2, <1>3, <1>4, <1>5, <1>6, <1>7, <1>8, TaskWakes

LEMMA UnlocksControl ==
    ASSUME ControlOK, UnlocksTx \/ UnlocksRx, UNCHANGED previous_wake
    PROVE  ControlOK'
<1>1. CASE UnlocksTx
  <2>1. /\ Step("unlock", WakeSome(kernel, "toReceive", tx_lock), "unlock_rx")
        /\ At("unlock") /\ "unlock" \in Labels
        /\ tx_lock' = Unlocked /\ rx_lock' = rx_lock /\ buffer' = buffer /\ holder' = holder
        /\ call' = call
    BY <1>1 DEF UnlocksTx, Step, Labels
  <2>2. QueueAt("unlock", tx_lock, rx_lock)
    BY <2>1, AtIs
  <2>3. tx_lock \in Int /\ QueueAt("unlock_rx", tx_lock', rx_lock')
    BY <2>1, <2>2 DEF QueueAt, Unlocked
  <2> QED
    BY <2>1, <2>3, KernelQueueAssumption, UnlockedStep
<1>2. CASE UnlocksRx
  <2>1. /\ Step("unlock_rx", WakeSome(kernel, "toSend", rx_lock), "resume")
        /\ At("unlock_rx") /\ "unlock_rx" \in Labels
        /\ rx_lock' = Unlocked /\ tx_lock' = tx_lock /\ buffer' = buffer /\ holder' = holder
        /\ call' = call
    BY <1>2 DEF UnlocksRx, Step, Labels
  <2>2. QueueAt("unlock_rx", tx_lock, rx_lock)
    BY <2>1, AtIs
  <2>3. rx_lock \in Int /\ QueueAt("resume", tx_lock', rx_lock')
    BY <2>1, <2>2 DEF QueueAt, Unlocked
  <2> QED
    BY <2>1, <2>3, KernelQueueAssumption, UnlockedStep
<1> QED
  BY <1>1, <1>2

\* The yield of a task that xTaskResumeAll has not yielded for.
LEMMA YieldsControl ==
    ASSUME ControlOK, Step("yield", Yielding(kernel), "try"), UNCHANGED <<previous_wake, queueVars>>
    PROVE  ControlOK'
<1> DEFINE k == Yielding(kernel)
<1>1. /\ At("yield") /\ Goes(k, "try") /\ masked' = masked /\ call' = call /\ buffer' = buffer
      /\ holder' = holder /\ previous_wake' = previous_wake /\ tx_lock' = tx_lock
      /\ rx_lock' = rx_lock
  BY DEF Step, queueVars
<1>2. /\ "yield" \in Labels \ {"idle"} /\ "try" \in Labels \ {"idle"}
      /\ LockedAt("yield", FALSE) = 0 /\ LockedAt("try", FALSE) = 0
  BY DEF Labels, LockedAt, Locking, Resuming
<1>3. /\ Is("yield") /\ masked = FALSE /\ ~ kernel.ticking /\ kernel.locked = 0
      /\ kernel.pending = <<>> /\ kernel.pended = 0 /\ pc[kernel.current] = "yield"
      /\ CallAt("yield", Mine) /\ Mine \in CallRecords(buffer.length) /\ MyCall(Mine)
      /\ QueueAt("yield", tx_lock, rx_lock)
  BY <1>1, <1>2, AtIs
<1>4. /\ WaitsAt(kernel, kernel.current, "yield", Mine)
      /\ holder' \in Tasks \cup {Nobody} /\ kernel.current \in Tasks
  BY <1>1, <1>3, ControlIs DEF CallsOK, Mine
<1>5. WakesNow(k, kernel) /\ k.pendsv
  BY ControlIs, YieldingIs
<1> HIDE DEF k
<1>6. /\ MaskAt("try", masked') /\ CallAt("try", Mine) /\ masked' \in BOOLEAN
      /\ QueueAt("try", tx_lock', rx_lock')
  BY <1>1, <1>3 DEF MaskAt, CallAt, QueueAt, Working, Leaving
<1>7. kernel.current \in Down(kernel) => AsleepAt(k, "try", Mine)
  BY <1>3, <1>5 DEF AsleepAt, WakesNow, Wakes
<1>8. Event(kernel, kernel.current) => WaitsAt(k, kernel.current, "try", Mine)
  <2>1. /\ Event(k, kernel.current) /\ kernel.current \in Down(kernel) => kernel.current \in Down(k)
        /\ \A p \in Objects : Range(k.waiting[p]) \subseteq Range(kernel.waiting[p])
    BY <1>4, <1>5 DEF WakesNow, Wakes
  <2> QED
    BY <1>4, <2>1 DEF WaitsAt
<1>9. LockedAt("try", masked') = 0
  BY <1>1, <1>2, <1>3
<1> QED
  BY <1>1, <1>2, <1>3, <1>4, <1>5, <1>6, <1>7, <1>8, <1>9, TaskWakes

LEMMA ResumesControl ==
    ASSUME ControlOK, Resumes, UNCHANGED previous_wake
    PROVE  ControlOK'
<1>1. CASE Mine.outcome = "placed" /\ ResumeAll("resume", IF kernel.missed THEN "try" ELSE "yield")
  <2> DEFINE to == IF kernel.missed THEN "try" ELSE "yield"
  <2>1. /\ "resume" \in Resuming
        /\ to \in Labels \ ({"idle", "found"} \cup Locking \cup Resuming)
    BY DEF Labels, Locking, Resuming
  <2>2. CallAt("resume", Mine)
    BY <1>1, ControlIs DEF ResumeAll, Is, Mine
  <2>3. CallAt(to, Mine) /\ to \in {"yield", "try"}
    BY <1>1, <2>2 DEF CallAt, Working, Leaving
  <2>4. kernel.missed \/ to \in {"yield", "delay_yield"}
    OBVIOUS
  <2> HIDE DEF to
  <2>5. ResumeAll("resume", to)
    BY <1>1 DEF to
  <2> QED
    BY <2>1, <2>3, <2>4, <2>5, ResumedStep DEF Resumes
<1>2. CASE Mine.outcome = "placed" /\ Step("yield", Yielding(kernel), "try")
  BY <1>2, YieldsControl DEF Resumes
<1>3. ASSUME NEW to \in {"try", "late"}, ResumeAll("resume", to),
             \/ Mine.outcome = "again" /\ to = "try"
             \/ Mine.outcome = "expired" /\ to = "late"
      PROVE  ControlOK'
  <2>1. /\ "resume" \in Resuming
        /\ to \in Labels \ ({"idle", "found"} \cup Locking \cup Resuming)
    BY DEF Labels, Locking, Resuming
  <2>2. /\ CallAt("resume", Mine) /\ WaitsAt(kernel, kernel.current, "resume", Mine)
        /\ AsleepAt(kernel, "resume", Mine) /\ ~ kernel.pendsv
    BY <1>3, ControlIs DEF ResumeAll, Is, Mine, CallsOK, CurrentOK
  <2>3. CallAt(to, Mine)
    BY <1>3, <2>2 DEF CallAt, Working, Leaving
  <2>4. ~ Event(kernel, kernel.current) /\ kernel.current \notin Down(kernel)
    BY <1>3, <2>2 DEF WaitsAt, AsleepAt
  <2> QED
    BY <1>3, <2>1, <2>3, <2>4, ResumedStep DEF Resumes
<1> QED
  BY <1>1, <1>2, <1>3 DEF Resumes, ResumeAllAndYield

-----------------------------------------------------------------------------
\* The value of an event list item orders the tasks by their priorities.
OrderOK(k) == \A t \in Tasks : k.order[t] = MaxPriorities - k.priority[t]

LEMMA MaxOfTwo ==
    ASSUME NEW a \in Nat, NEW b \in Nat
    PROVE  Max({a, b}) \in {a, b}
<1>1. \E x \in {a, b} : \A y \in {a, b} : x >= y
  OBVIOUS
<1> QED
  BY <1>1 DEF Max

\* The priority that prvGetDisinheritPriorityAfterTimeout finds.
HighestWaiting(k) ==
    IF k.waiting["toReceive"] = <<>> THEN 0
    ELSE MaxPriorities - k.order[Head(k.waiting["toReceive"])]

LEMMA HighestIs ==
    ASSUME NEW k, Good(Users, k), OrderOK(k)
    PROVE  HighestWaiting(k) \in Priorities
<1>1. CASE k.waiting["toReceive"] = <<>>
  BY <1>1, PrioritiesAre DEF HighestWaiting
<1>2. CASE k.waiting["toReceive"] /= <<>>
  <2> DEFINE t == Head(k.waiting["toReceive"])
  <2>1. t \in Tasks /\ k \in Kernels
    BY <1>2, GoodIs, KernelQueueAssumption
  <2>2. k.priority[t] \in Priorities /\ k.order[t] = MaxPriorities - k.priority[t]
    BY <2>1 DEF Kernels, OrderOK
  <2>3. MaxPriorities - k.order[t] = k.priority[t]
    BY <2>2, SchedulerAssumption DEF Priorities
  <2> QED
    BY <1>2, <2>2, <2>3 DEF HighestWaiting
<1> QED
  BY <1>1, <1>2

LEMMA WakesDisinherit ==
    ASSUME NEW k, Good(Users, k), AllLinked(k), OrderOK(k), holder \in Tasks \cup {Nobody}
    PROVE  WakesNow(DisinheritAfterTimeout(k), k)
<1> DEFINE p == Max({HighestWaiting(k), k.base[holder]})
<1>1. DisinheritAfterTimeout(k) = IF holder /= Nobody /\ k.priority[holder] /= p
                                  THEN WithPriority(k, holder, p) ELSE k
  BY DEF DisinheritAfterTimeout, HighestWaiting
<1>2. CASE holder /= Nobody
  <2>1. HighestWaiting(k) \in Priorities /\ k.base[holder] \in Priorities
    BY <1>2, HighestIs, GoodIs DEF Kernels
  <2>2. p \in Priorities
    BY <2>1, PrioritiesAre, MaxOfTwo
  <2> HIDE DEF p
  <2> QED
    BY <1>1, <1>2, <2>2, WakesWithPriority, WakesItself
<1>3. CASE holder = Nobody
  BY <1>1, <1>3, WakesItself
<1> QED
  BY <1>2, <1>3

LEMMA ExpiresControl ==
    ASSUME ControlOK, OrderOK(kernel), IInv, Expires, UNCHANGED previous_wake
    PROVE  ControlOK'
<1>1. /\ At("late") /\ masked' = masked /\ buffer' = buffer /\ holder' = holder
      /\ rx_lock' = rx_lock /\ tx_lock' = tx_lock /\ previous_wake' = previous_wake
  BY DEF Expires
<1>2. /\ WakesNow(kernel, kernel) /\ holder' \in Tasks \cup {Nobody}
      /\ WakesNow(DisinheritAfterTimeout(kernel), kernel)
  BY <1>1, ControlIs, WakesItself, WakesDisinherit DEF CallsOK
<1>3. CASE Goes(kernel, "try") /\ UNCHANGED call
  <2>1. "late" \in Labels /\ "try" \in Labels \ {"idle"} /\ LockedAt("late", FALSE) = 0
        /\ LockedAt("try", FALSE) = 0
    BY DEF Labels, LockedAt, Locking, Resuming
  <2>2. /\ Mine \in CallRecords(buffer.length) /\ CallAt("late", Mine) /\ MyCall(Mine)
        /\ QueueAt("late", tx_lock, rx_lock) /\ masked = FALSE
    BY <1>1, <1>3, <2>1, AtIs
  <2>3. /\ CallAt("try", Mine) /\ MaskAt("try", masked') /\ QueueAt("try", tx_lock', rx_lock')
        /\ masked' \in BOOLEAN /\ LockedAt("try", masked') = 0
    BY <1>1, <2>1, <2>2 DEF CallAt, MaskAt, QueueAt, Working, Leaving
  <2> QED
    BY <1>1, <1>2, <1>3, <2>1, <2>2, <2>3, PlainStep
<1>4. CASE Returns(IF Mine.inherited THEN DisinheritAfterTimeout(kernel) ELSE kernel)
  BY <1>1, <1>2, <1>4, ReturnsControl
<1> QED
  BY <1>3, <1>4 DEF Expires

LEMMA ResetsControl ==
    ASSUME ControlOK, Resets, buffer'.length = buffer.length, UNCHANGED previous_wake
    PROVE  ControlOK'
<1>1. /\ At("run") /\ kernel' = WakeAndYield(kernel, "toSend")
      /\ tx_lock' = Unlocked /\ rx_lock' = Unlocked
      /\ UNCHANGED <<pc, masked, call, holder, previous_wake>>
  BY DEF Resets
<1>2. /\ "run" \in Labels /\ LockedAt("run", FALSE) = 0
  BY DEF Labels, LockedAt, Locking, Resuming
<1>3. /\ pc[kernel.current] = "run" /\ masked = FALSE /\ ~ kernel.ticking
      /\ kernel.locked = 0 /\ kernel.pending = <<>> /\ kernel.pended = 0
  BY <1>1, <1>2, AtIs
<1>4. WakesNow(kernel', kernel)
  BY <1>1, KernelQueueAssumption, ControlIs, WakesAndYields
<1>5. /\ Wakes(kernel', kernel) /\ PendAt(kernel', pc[kernel.current], masked)
      /\ ~ kernel'.ticking
  BY <1>3, <1>4 DEF WakesNow, Wakes, PendAt
<1>6. QueueAt(pc[kernel.current], tx_lock', rx_lock')
  BY <1>1 DEF QueueAt
<1> QED
  BY <1>1, <1>5, <1>6, KernelStep

\* An interrupt finds the queue locked and leaves the waking to the task that locked
\* it, or wakes a task itself.
LEMMA InterruptsControl ==
    ASSUME ControlOK, Masked = TRUE, SendFromISR \/ GiveFromISR \/ ReceiveFromISR,
           buffer'.length = buffer.length, UNCHANGED previous_wake
    PROVE  ControlOK'
<1>1. /\ Interruptible /\ UNCHANGED <<pc, masked, call, holder, previous_wake>>
      /\ \/ /\ \E o \in Objects : kernel' \in {Wake(kernel, o), WakeAndYield(kernel, o)}
            /\ tx_lock' = tx_lock /\ rx_lock' = rx_lock
         \/ kernel' = kernel /\ tx_lock' = tx_lock /\ rx_lock' = rx_lock + 1 /\ rx_lock /= Unlocked
         \/ kernel' = kernel /\ rx_lock' = rx_lock /\ tx_lock' = tx_lock + 1 /\ tx_lock /= Unlocked
  BY KernelQueueAssumption DEF SendFromISR, GiveFromISR, ReceiveFromISR, FromISR
<1>2. /\ ~ masked /\ ~ kernel.ticking /\ pc[kernel.current] /= "found"
      /\ kernel.locked = 0 => kernel.pending = <<>> /\ kernel.pended = 0
      /\ QueueAt(pc[kernel.current], tx_lock, rx_lock)
  BY <1>1, InterruptedIs
<1>3. WakesNow(kernel', kernel)
  BY <1>1, ControlIs, WakesFirst, WakesAndYields, WakesItself
<1>4. /\ Wakes(kernel', kernel) /\ PendAt(kernel', pc[kernel.current], masked)
      /\ ~ kernel'.ticking
  BY <1>2, <1>3 DEF WakesNow, Wakes, PendAt
<1>5. QueueAt(pc[kernel.current], tx_lock', rx_lock')
  BY <1>1, <1>2 DEF QueueAt, Unlocked
<1> QED
  BY <1>1, <1>4, <1>5, KernelStep

-----------------------------------------------------------------------------
\* What a step leaves of the priorities of the tasks.
SameRanks(j, k) == j.priority = k.priority /\ j.base = k.base /\ j.order = k.order

LEMMA RanksFollow ==
    ASSUME NEW k, NEW j
    PROVE  /\ Framed(j, k) => SameRanks(j, k)
           /\ Ticked(j, k) => SameRanks(j, k)
           /\ Untouched(j, k) => SameRanks(j, k)
           /\ Asked(j, k) => SameRanks(j, k)
           /\ SameRanks(j, k) /\ OrderOK(k) => OrderOK(j)
BY DEF Framed, Ticked, Untouched, Asked, SameLists, SameRanks, OrderOK

LEMMA SchedulerRanks ==
    ASSUME ControlOK, SchedulerNext
    PROVE  SameRanks(kernel', kernel)
<1>1. CASE IdleFrees
  BY <1>1, ControlIs DEF IdleFrees, AllLinked
<1>2. CASE IdleYields
  BY <1>2, ControlIs DEF IdleYields, Yielding, SameRanks
<1>3. CASE SysTick
  <2>1. Ticked(kernel', kernel)
    BY <1>3, ControlIs, IncrementTickIs DEF SysTick, Interruptible
  <2> QED
    BY <2>1, RanksFollow
<1>4. CASE TickLoops
  <2>1. CASE Due(kernel)
    <3>1. Ticked(UnblockFirst(kernel), kernel)
      BY <2>1, ControlIs, UnblockFirstIs
    <3> QED
      BY <1>4, <2>1, <3>1, RanksFollow DEF TickLoops
  <2>2. CASE ~ Due(kernel)
    <3>1. Ticked(EndTick(kernel), kernel)
      BY <2>2, ControlIs, EndTickIs
    <3> QED
      BY <1>4, <2>2, <3>1, RanksFollow DEF TickLoops
  <2> QED
    BY <2>1, <2>2
<1>5. CASE PendSV
  <2>1. kernel' = Switched(kernel)
    BY <1>5 DEF PendSV, Switched
  <2>2. PICK q \in Priorities : Idle \in Range(kernel.ready[q].items)
    BY ControlIs DEF AllLinked, Ready
  <2>3. kernel.ready[q].items /= <<>> /\ Good(Users, kernel)
    BY <2>2, ControlIs DEF Range
  <2>4. /\ Switched(kernel).priority = kernel.priority /\ Switched(kernel).base = kernel.base
        /\ Switched(kernel).order = kernel.order
    BY <2>3, SwitchIs
  <2> QED
    BY <2>1, <2>4 DEF SameRanks
<1> QED
  BY <1>1, <1>2, <1>3, <1>4, <1>5 DEF SchedulerNext

LEMMA ResumedRanks ==
    ASSUME ControlOK, NEW from, NEW to, ResumeAll(from, to)
    PROVE  SameRanks(kernel', kernel)
<1>1. ~ kernel.ticking /\ Good(Users, kernel) /\ AllLinked(kernel) /\ kernel \in Kernels
      /\ masked \in BOOLEAN
  BY ControlIs DEF ResumeAll
<1>2. CASE kernel' = [kernel EXCEPT !.locked = @ - 1]
  BY <1>2 DEF SameRanks
<1>3. CASE kernel.pending /= <<>> /\ kernel' = DrainPendingReadyList(kernel)
  <2>1. kernel.pending \in Seq(Tasks)
    BY <1>1 DEF Kernels
  <2>2. Linked(kernel, Head(kernel.pending))
    BY <1>1, <1>3, <2>1 DEF AllLinked
  <2>3. Ticked(kernel', kernel)
    BY <1>1, <1>3, <2>2, DrainIs
  <2> QED
    BY <2>3, RanksFollow
<1>4. CASE kernel' = ReplayTick(kernel) /\ kernel.pended > 0
  <2> DEFINE k == [kernel EXCEPT !.pended = @ - 1]
  <2>1. k \in Kernels
    <3>1. kernel.pended \in Nat
      BY <1>1 DEF Kernels
    <3>2. kernel.pended - 1 \in Nat
      BY <1>4, <3>1
    <3> QED
      BY <1>1, <3>2 DEF Kernels
  <2>2. SameLists(k, kernel) /\ SameRanks(k, kernel)
    BY <1>1, <2>1 DEF SameLists, SameRanks, Kernels
  <2>3. kernel' = IncrementTick(k)
    BY <1>4 DEF ReplayTick
  <2> HIDE DEF k
  <2>4. Good(Users, k) /\ ~ k.ticking
    BY <1>1, <2>2, SameIs DEF SameLists
  <2>5. Ticked(kernel', k)
    BY <1>1, <2>3, <2>4, IncrementTickIs
  <2> QED
    BY <2>2, <2>5, RanksFollow DEF SameRanks
<1>5. CASE kernel' = YieldingIf(kernel, kernel.missed)
  BY <1>5 DEF YieldingIf, SameRanks
<1> QED
  BY <1>2, <1>3, <1>4, <1>5 DEF ResumeAll, Goes

LEMMA DelayRanks ==
    ASSUME ControlOK, vTaskDelay
    PROVE  SameRanks(kernel', kernel)
<1>1. CASE \E ticks \in BlockTimes \ {0} :
               Step("delay", AddCurrentTaskToDelayedList(kernel, ticks, FALSE), "delay_resume")
  <2>1. PICK ticks \in BlockTimes \ {0} :
            Step("delay", AddCurrentTaskToDelayedList(kernel, ticks, FALSE), "delay_resume")
    BY <1>1
  <2>2. ticks \in Ticks \ {0} /\ ~ kernel.ticking
    BY <2>1, TaskServicesAssumption DEF Step, At, Interruptible
  <2>3. Framed(AddCurrentTaskToDelayedList(kernel, ticks, FALSE), kernel)
    BY <2>2, ControlIs, DelayedIs
  <2> QED
    BY <2>1, <2>3, RanksFollow DEF Step, Goes
<1>2. CASE \E label, to : Step(label, SuspendAll(kernel), to)
  BY <1>2 DEF Step, Goes, SuspendAll, SameRanks
<1>3. CASE \E label, to : Step(label, Yielding(kernel), to)
  BY <1>3 DEF Step, Goes, Yielding, SameRanks
<1>4. CASE \E from, to : ResumeAll(from, to)
  BY <1>4, ResumedRanks
<1> QED
  BY <1>1, <1>2, <1>3, <1>4 DEF vTaskDelay, ResumeAllAndYield

\* What the end of a call and the waking of a task leave alone.
LEMMA ReturnedRanks ==
    ASSUME NEW k \in Kernels
    PROVE  SameRanks(Returned(k), k) /\ SameRanks(SetTimeOutState(k), k)
BY DEF Returned, SetTimeOutState, SameRanks

LEMMA WokenRanks ==
    ASSUME NEW k, Good(Users, k), AllLinked(k), NEW o \in Objects
    PROVE  SameRanks(Wake(k, o), k) /\ SameRanks(WakeAndYield(k, o), k)
<1>1. SameRanks(Wake(k, o), k)
  <2>1. CASE k.waiting[o] = <<>>
    BY <2>1 DEF Wake, SameRanks
  <2>2. CASE k.waiting[o] /= <<>>
    <3>1. Ticked(RemoveFromEventList(k, o), k)
      <4>1. \A u \in Tasks : Linked(k, u)
        BY DEF AllLinked
      <4> QED
        BY <2>2, <4>1, RemovedIs
    <3> QED
      BY <2>2, <3>1, RanksFollow DEF Wake
  <2> QED
    BY <2>1, <2>2
<1>2. SameRanks(WakeAndYield(k, o), Wake(k, o))
  BY DEF WakeAndYield, YieldingIf, SameRanks
<1> QED
  BY <1>1, <1>2 DEF SameRanks

\* With the mutex the priority of a task changes, and its order with it.
LEMMA WithPriorityRanks ==
    ASSUME NEW k, Good(Users, k), NEW t \in Tasks, NEW p \in Priorities
    PROVE  LET j == WithPriority(k, t, p)
           IN  /\ j.priority = [k.priority EXCEPT ![t] = p] /\ j.base = k.base
               /\ j.order = [k.order EXCEPT ![t] = MaxPriorities - p]
               /\ j.missed = k.missed /\ j.pendsv = k.pendsv /\ j.locked = k.locked
               /\ j.current = k.current
               /\ j.waiting = k.waiting /\ j.pending = k.pending
               /\ OrderOK(k) => OrderOK(j)
<1> DEFINE j == WithPriority(k, t, p)
           o == MaxPriorities - p
<1>1. k \in Kernels
  BY GoodIs
<1>2. j = Moved(k, t, p, k.base[t], o) /\ k.base[t] \in Priorities /\ o \in Nat
  BY <1>1, WithPriorityIs
<1> HIDE DEF j, o
<1>3. /\ Reprioritises(j, k, t, p, k.base[t], o) /\ StaysPut(j, k)
  BY <1>2, MovedIs
<1>4. /\ j.priority = [k.priority EXCEPT ![t] = p] /\ j.base = k.base
      /\ j.order = [k.order EXCEPT ![t] = o]
  BY <1>1, <1>3 DEF Reprioritises, Kernels
<1>5. OrderOK(k) => OrderOK(j)
  BY <1>1, <1>4 DEF OrderOK, Kernels, o
<1>6. /\ j.missed = k.missed /\ j.pendsv = k.pendsv /\ j.locked = k.locked
      /\ j.current = k.current /\ j.waiting = k.waiting /\ j.pending = k.pending
  BY <1>3 DEF StaysPut
<1> QED
  BY <1>4, <1>5, <1>6 DEF j, o

\* The steps that do not change the priority of a task: all but those that give a
\* mutex, wait for it or stop to.
LEMMA CallRanks ==
    ASSUME ControlOK,
           \/ Calls \/ Counts \/ Receives \/ Peeks \/ GivesUp \/ StartsToWait
           \/ Suspends \/ Locks \/ UnlocksTx \/ UnlocksRx \/ Resumes \/ Resets
           \/ SendFromISR \/ GiveFromISR \/ ReceiveFromISR
    PROVE  SameRanks(kernel', kernel)
<1>0. /\ Good(Users, kernel) /\ AllLinked(kernel) /\ kernel \in Kernels
      /\ "toSend" \in Objects /\ "toReceive" \in Objects
      /\ SameRanks(kernel, kernel) /\ SameRanks(SetTimeOutState(kernel), kernel)
  BY ControlIs, ReturnedRanks, KernelQueueAssumption DEF SameRanks
<1>1. CASE Calls \/ Counts
  BY <1>0, <1>1 DEF Calls, Counts, Goes
<1>2. ASSUME NEW k, Good(Users, k), SameRanks(k, kernel), Returns(k)
      PROVE  SameRanks(kernel', kernel)
  <2>1. kernel' = Returned(k)
    BY <1>2 DEF Returns, Returned, Goes
  <2>2. SameRanks(Returned(k), k)
    BY <1>2, GoodIs, ReturnedRanks
  <2> QED
    BY <1>2, <2>1, <2>2 DEF SameRanks
<1>3. CASE Receives \/ Peeks
  <2>1. PICK o \in Objects : Returns(WakeAndYield(kernel, o))
    BY <1>0, <1>3 DEF Receives, Peeks
  <2>2. Good(Users, WakeAndYield(kernel, o)) /\ SameRanks(WakeAndYield(kernel, o), kernel)
    BY <1>0, WokenRanks, WakesAndYields DEF WakesNow, Wakes
  <2> QED
    BY <1>2, <2>1, <2>2
<1>4. CASE GivesUp
  BY <1>0, <1>2, <1>4 DEF GivesUp
<1>5. CASE StartsToWait
  BY <1>0, <1>5 DEF StartsToWait, Goes
<1>6. CASE Suspends
  BY <1>6 DEF Suspends, Step, Goes, SuspendAll, SameRanks
<1>7. CASE Locks
  BY <1>0, <1>7 DEF Locks, Goes
<1>8. CASE UnlocksTx \/ UnlocksRx
  <2>1. ASSUME NEW o, NEW n PROVE SameRanks(WakeSome(kernel, o, n), kernel)
    <3> DEFINE woken == SubSeq(kernel.waiting[o], 1, Min({n, Len(kernel.waiting[o])}))
               waiting == [kernel.waiting EXCEPT ![o] = SubSeq(@, Len(woken) + 1, Len(@))]
               pending == kernel.pending \o woken
               missed == kernel.missed \/ \E t \in Range(woken) :
                             kernel.priority[t] > kernel.priority[kernel.current]
    <3>1. WakeSome(kernel, o, n)
              = [kernel EXCEPT !.waiting = waiting, !.pending = pending, !.missed = missed]
      BY <1>0 DEF WakeSome, Kernels
    <3> HIDE DEF woken, waiting, pending, missed
    <3> QED
      BY <1>0, <3>1 DEF SameRanks, Kernels
  <2> QED
    BY <1>8, <2>1 DEF UnlocksTx, UnlocksRx, Step, Goes
<1>9. CASE Resumes
  <2>1. CASE Step("yield", Yielding(kernel), "try")
    BY <2>1 DEF Step, Goes, Yielding, SameRanks
  <2>2. CASE \E from, to : ResumeAll(from, to)
    BY <2>2, ResumedRanks
  <2> QED
    BY <1>9, <2>1, <2>2 DEF Resumes, ResumeAllAndYield
<1>10. CASE Resets
  BY <1>0, <1>10, WokenRanks DEF Resets
<1>11. CASE SendFromISR \/ GiveFromISR \/ ReceiveFromISR
  <2>1. kernel' = kernel \/ \E o \in Objects : kernel' \in {Wake(kernel, o), WakeAndYield(kernel, o)}
    BY <1>0, <1>11 DEF SendFromISR, GiveFromISR, ReceiveFromISR, FromISR
  <2> QED
    BY <1>0, <2>1, WokenRanks
<1> QED
  BY <1>1, <1>3, <1>4, <1>5, <1>6, <1>7, <1>8, <1>9, <1>10, <1>11

\* What they make of the kernel.
LEMMA ReturnsOrder ==
    ASSUME NEW k, Good(Users, k), OrderOK(k), Returns(k)
    PROVE  OrderOK(kernel')
<1>1. kernel' = Returned(k)
  BY DEF Returns, Returned, Goes
<1> QED
  BY <1>1, GoodIs, ReturnedRanks, RanksFollow

LEMMA SendsOrder ==
    ASSUME ControlOK, OrderOK(kernel), Sends
    PROVE  OrderOK(kernel')
<1> DEFINE k == IF IsMutex THEN PriorityDisinherit(kernel) ELSE kernel
           j == IF k.waiting["toReceive"] = <<>> THEN YieldingIf(k, k /= kernel)
                ELSE WakeAndYield(k, "toReceive")
<1>1. Returns(j) /\ "toReceive" \in Objects
  BY KernelQueueAssumption DEF Sends
<1>2. Good(Users, k) /\ AllLinked(k) /\ OrderOK(k)
  <2>1. kernel.base[kernel.current] \in Priorities
    BY ControlIs DEF Kernels
  <2> QED
    BY <2>1, ControlIs, WakesWithPriority, WithPriorityRanks DEF PriorityDisinherit, WakesNow, Wakes
<1> HIDE DEF k
<1>3. Good(Users, j) /\ SameRanks(j, k)
  <2>1. (k /= kernel) \in BOOLEAN
    OBVIOUS
  <2>2. Good(Users, YieldingIf(k, k /= kernel)) /\ Good(Users, WakeAndYield(k, "toReceive"))
    BY <1>1, <1>2, <2>1, WakesYield, WakesAndYields DEF WakesNow, Wakes
  <2>3. SameRanks(YieldingIf(k, k /= kernel), k)
    BY DEF YieldingIf, SameRanks
  <2> QED
    BY <1>1, <1>2, <2>2, <2>3, WokenRanks
<1> HIDE DEF j
<1> QED
  BY <1>1, <1>2, <1>3, RanksFollow, ReturnsOrder

LEMMA LooksOrder ==
    ASSUME ControlOK, OrderOK(kernel), Looks
    PROVE  OrderOK(kernel')
<1> DEFINE j == IF IsMutex THEN PriorityInherit(kernel) ELSE kernel
           o == IF Mine.op \in Senders THEN "toSend" ELSE "toReceive"
<1>1. /\ At("look") /\ "look" \in Labels
      /\ "look" \notin Leaving \cup {"yield", "delay_resume", "delay_yield"}
  BY DEF Looks, Labels, Leaving
<1>2. /\ ~ kernel.ticking /\ kernel.current \in Users /\ ~ Event(kernel, kernel.current)
      /\ CallAt("look", Mine) /\ Mine \in CallRecords(buffer.length)
      /\ holder \in Tasks \cup {Nobody}
  BY <1>1, AtIs, ControlIs DEF CallsOK
<1>3. /\ WakesNow(j, kernel) /\ OrderOK(j)
  <2>1. kernel.priority[kernel.current] \in Priorities
    BY ControlIs DEF Kernels
  <2> QED
    BY <1>2, <2>1, ControlIs, WakesInherit, WakesItself, WithPriorityRanks DEF PriorityInherit
<1>4. CASE kernel' = PlaceOnEventList(j, o, Mine.wait)
  <2> HIDE DEF j
  <2>1. /\ Good(Users, j) /\ AllLinked(j) /\ ~ j.ticking /\ j.current \in Users
        /\ ~ Event(j, j.current)
    BY <1>2, <1>3, ControlIs DEF WakesNow, Wakes
  <2>2. o \in Objects /\ Mine.wait \in Ticks \ {0}
    BY <1>2, KernelQueueAssumption DEF CallAt, CallRecords, Ticks
  <2> HIDE DEF o
  <2>3. Framed(PlaceOnEventList(j, o, Mine.wait), j)
    BY <2>1, <2>2, PlacedIs
  <2> QED
    BY <1>3, <1>4, <2>3, RanksFollow
<1> QED
  BY <1>4 DEF Looks, Blocked, Goes

LEMMA ExpiresOrder ==
    ASSUME ControlOK, OrderOK(kernel), Expires
    PROVE  OrderOK(kernel')
<1> DEFINE k == DisinheritAfterTimeout(kernel)
           p == Max({HighestWaiting(kernel), kernel.base[holder]})
<1>1. k = IF holder /= Nobody /\ kernel.priority[holder] /= p
          THEN WithPriority(kernel, holder, p) ELSE kernel
  BY DEF DisinheritAfterTimeout, HighestWaiting
<1>2. Good(Users, k) /\ OrderOK(k)
  <2>1. holder \in Tasks \cup {Nobody}
    BY ControlIs DEF CallsOK
  <2>2. CASE holder \in Tasks
    <3>1. HighestWaiting(kernel) \in Priorities /\ kernel.base[holder] \in Priorities
      BY <2>2, HighestIs, ControlIs DEF Kernels
    <3>2. p \in Priorities
      BY <3>1, PrioritiesAre, MaxOfTwo
    <3> HIDE DEF p
    <3>3. Good(Users, k)
      BY <2>1, ControlIs, WakesDisinherit DEF WakesNow, Wakes
    <3>4. OrderOK(WithPriority(kernel, holder, p))
      BY <2>2, <3>2, ControlIs, WithPriorityRanks
    <3> QED
      BY <1>1, <3>3, <3>4
  <2>3. CASE holder = Nobody
    BY <1>1, <2>3, ControlIs
  <2> QED
    BY <2>1, <2>2, <2>3
<1> HIDE DEF k
<1>3. \/ Returns(k) \/ Returns(kernel) \/ kernel' = kernel
  BY DEF Expires, Goes, k
<1> QED
  BY <1>2, <1>3, ControlIs, ReturnsOrder

-----------------------------------------------------------------------------
\* The inductive invariant of the object and the scheduler together.
BlockingInv == IInv /\ ControlOK /\ OrderOK(kernel)

LEMMA ShapeKept ==
    ASSUME IInv, Masked = TRUE, CallSteps
    PROVE  buffer'.length = buffer.length /\ buffer'.kind = buffer.kind
<1>1. CASE Calls \/ GivesUp \/ StartsToWait \/ Suspends \/ Locks \/ Looks
           \/ UnlocksTx \/ UnlocksRx \/ Resumes \/ Expires
  BY <1>1, WaitingKeeps
<1>2. CASE Counts \/ Peeks
  BY <1>2, CountsKeeps, PeeksKeeps
<1>3. CASE Receives \/ Resets \/ GiveFromISR \/ ReceiveFromISR
  BY <1>3, ShapeStays DEF Receives, Resets, GiveFromISR, ReceiveFromISR, IInv
<1>4. ASSUME NEW c, c.op \in Senders, buffer' = Copied(buffer, c)
      PROVE  buffer'.length = buffer.length /\ buffer'.kind = buffer.kind
  BY <1>4, ShapeStays DEF Copied, Senders, IInv
<1>5. CASE Sends
  BY <1>4, <1>5 DEF Sends
<1>6. CASE SendFromISR
  <2>1. PICK op \in Senders, item \in Items : buffer' = Copied(buffer, CallOf(op, item, 0))
    BY <1>6 DEF SendFromISR
  <2>2. CallOf(op, item, 0).op = op
    BY DEF CallOf
  <2> QED
    BY <1>4, <2>1, <2>2
<1> QED
  BY <1>1, <1>2, <1>3, <1>5, <1>6 DEF CallSteps

LEMMA CallControl ==
    ASSUME BlockingInv, Masked = TRUE, CallSteps, UNCHANGED previous_wake
    PROVE  ControlOK' /\ OrderOK(kernel')
<1>0. /\ IInv /\ ControlOK /\ OrderOK(kernel) /\ buffer'.length = buffer.length
  BY ShapeKept DEF BlockingInv
<1>1. ASSUME \/ Calls \/ Counts \/ Receives \/ Peeks \/ GivesUp \/ StartsToWait
             \/ Suspends \/ Locks \/ UnlocksTx \/ UnlocksRx \/ Resumes \/ Resets
             \/ SendFromISR \/ GiveFromISR \/ ReceiveFromISR
      PROVE  OrderOK(kernel')
  BY <1>0, <1>1, CallRanks, RanksFollow
<1>2. CASE Calls
  BY <1>0, <1>1, <1>2, CallsControl
<1>3. CASE Sends
  BY <1>0, <1>3, SendsControl, SendsOrder
<1>4. CASE Counts
  BY <1>0, <1>1, <1>4, CountsControl
<1>5. CASE Receives \/ Peeks
  BY <1>0, <1>1, <1>5, ReceivesControl
<1>6. CASE GivesUp
  BY <1>0, <1>1, <1>6, GivesUpControl
<1>7. CASE StartsToWait
  BY <1>0, <1>1, <1>7, StartsToWaitControl
<1>8. CASE Suspends
  BY <1>0, <1>1, <1>8, SuspendsControl
<1>9. CASE Locks
  BY <1>0, <1>1, <1>9, LocksControl
<1>10. CASE Looks
  BY <1>0, <1>10, LooksControl, LooksOrder
<1>11. CASE UnlocksTx \/ UnlocksRx
  BY <1>0, <1>1, <1>11, UnlocksControl
<1>12. CASE Resumes
  BY <1>0, <1>1, <1>12, ResumesControl
<1>13. CASE Expires
  BY <1>0, <1>13, ExpiresControl, ExpiresOrder
<1>14. CASE Resets
  BY <1>0, <1>1, <1>14, ResetsControl
<1>15. CASE SendFromISR \/ GiveFromISR \/ ReceiveFromISR
  BY <1>0, <1>1, <1>15, InterruptsControl
<1> QED
  BY <1>2, <1>3, <1>4, <1>5, <1>6, <1>7, <1>8, <1>9, <1>10, <1>11, <1>12, <1>13, <1>14, <1>15
     DEF CallSteps

LEMMA BlockingStep ==
    ASSUME BlockingInv, Masked = TRUE, [KernelQueueNext]_kernelQueueVars
    PROVE  BlockingInv'
<1>1. IInv'
  BY StepKeeps DEF BlockingInv
<1>2. OrderOK(kernel') => OrderOK(kernel)'
  BY DEF OrderOK
<1>3. ControlOK' /\ OrderOK(kernel')
  <2>1. CASE CallSteps /\ UNCHANGED previous_wake
    BY <2>1, CallControl
  <2>2. CASE vTaskDelay /\ UNCHANGED queueVars
    BY <2>2, DelayControl, DelayRanks, RanksFollow DEF BlockingInv
  <2>3. CASE SchedulerNext /\ UNCHANGED <<previous_wake, queueVars>>
    BY <2>3, SchedulerControl, SchedulerRanks, RanksFollow DEF BlockingInv
  <2>4. CASE UNCHANGED kernelQueueVars
    <3>1. /\ kernel' = kernel /\ pc' = pc /\ masked' = masked /\ previous_wake' = previous_wake
          /\ buffer' = buffer /\ rx_lock' = rx_lock /\ tx_lock' = tx_lock
          /\ holder' = holder /\ call' = call
      BY <2>4 DEF kernelQueueVars, taskServicesVars, schedulerVars, queueVars
    <3>2. PcOK' /\ CurrentOK' /\ CallsOK'
      BY <3>1, ControlIs DEF BlockingInv, PcOK, CurrentOK, CallsOK
    <3> QED
      BY <3>1, <3>2 DEF BlockingInv, ControlOK
  <2> QED
    BY <2>1, <2>2, <2>3, <2>4 DEF KernelQueueNext
<1> QED
  BY <1>1, <1>2, <1>3 DEF BlockingInv

LEMMA BlockingStart ==
    ASSUME KernelQueueInit
    PROVE  BlockingInv
<1>1. /\ SchedulerInit /\ previous_wake = [t \in Tasks |-> 0]
      /\ rx_lock = Unlocked /\ tx_lock = Unlocked /\ holder = Nobody
      /\ call = [t \in Tasks |-> NoCall]
  BY DEF KernelQueueInit, TaskServicesInit
<1>2. /\ pc = [t \in Tasks |-> IF t = Idle THEN "idle" ELSE "run"] /\ masked = FALSE
  BY <1>1 DEF SchedulerInit
<1>3. /\ Good(Users, kernel) /\ \A t \in Tasks : Ready(kernel, t)
      /\ kernel \in Kernels /\ kernel.current \in Tasks
      /\ kernel.pending = <<>> /\ Range(kernel.pending) = {}
      /\ \A o \in Objects : kernel.waiting[o] = <<>>
      /\ Range(kernel.delayed) = {} /\ Range(kernel.overflow) = {}
      /\ kernel.suspended = {} /\ kernel.terminating = {}
      /\ kernel.pended = 0 /\ kernel.locked = 0 /\ ~ kernel.ticking
      /\ \A t \in Tasks : kernel.order[t] = MaxPriorities - kernel.priority[t]
  BY <1>1, StartIs
<1>4. IInv
  BY InitHolds
<1>5. \A t \in Tasks : pc[t] = IF t = Idle THEN "idle" ELSE "run"
  BY <1>2
<1>6. PcOK
  <2>1. pc \in [Tasks -> Labels]
    BY <1>2 DEF Labels
  <2>2. previous_wake \in [Tasks -> Ticks] /\ masked \in BOOLEAN
    BY <1>1, <1>2, TicksAre
  <2>3. \A t \in Tasks : pc[t] = "idle" <=> t = Idle
    BY <1>5
  <2> QED
    BY <2>1, <2>2, <2>3 DEF PcOK
<1>7. AllLinked(kernel)
  BY <1>3, FirstIs DEF AllLinked, Linked, Ready
<1>8. Down(kernel) = {} /\ \A t \in Tasks : ~ Event(kernel, t)
  <2>1. \A o \in Objects : Range(kernel.waiting[o]) = {}
    BY <1>3 DEF Range
  <2> QED
    BY <1>3, <2>1 DEF Down, Sleeping, Event
<1>9. CurrentOK
  BY <1>1, <1>2, <1>3, <1>5, <1>8
     DEF CurrentOK, LockedAt, MaskAt, PendAt, QueueAt, AsleepAt, Locking, Resuming
<1>10. CallsOK
  <2>1. NoCall \in CallRecords(buffer.length) /\ NoCall.op = "none"
    BY <1>4, LengthIs, NoCallIs
  <2>2. \A t \in Tasks : CallAt(pc[t], call[t])
    BY <1>1, <1>5, <2>1 DEF CallAt, Working, Leaving
  <2>3. \A t \in Tasks : WaitsAt(kernel, t, pc[t], call[t])
    BY <1>8 DEF WaitsAt, Event
  <2>4. call \in [Tasks -> CallRecords(buffer.length)]
    BY <1>1, <2>1
  <2> QED
    BY <1>1, <2>2, <2>3, <2>4 DEF CallsOK
<1> QED
  BY <1>3, <1>4, <1>6, <1>7, <1>9, <1>10 DEF BlockingInv, ControlOK, OrderOK

\* In every state the lists of the kernel are sound, and what each task is about agrees
\* with its call, the lock of the queue and the suspension of the scheduler
\* (queue.c:725-1378, 2137-2254, tasks.c:2063-2215, 2851-3170).
THEOREM BlockingInvariant ==
    ASSUME Masked = TRUE
    PROVE  KernelQueueSpec => []BlockingInv
<1>1. KernelQueueInit => BlockingInv
  BY BlockingStart
<1>2. BlockingInv /\ [KernelQueueNext]_kernelQueueVars => BlockingInv'
  BY BlockingStep
<1> QED
  BY <1>1, <1>2, PTL DEF KernelQueueSpec

\* The storage, the locks, the calls and the kernel are well formed, for every length,
\* set of tasks and width of the tick count (queue.c:98-148, 725-1378).
THEOREM QueueTypesHold ==
    ASSUME Masked = TRUE
    PROVE  KernelQueueSpec => []KernelQueueTypeOK
<1>1. BlockingInv => KernelQueueTypeOK
  <2> SUFFICES ASSUME BlockingInv PROVE KernelQueueTypeOK
    OBVIOUS
  <2>1. IInv /\ ControlOK
    BY DEF BlockingInv
  <2>2. TaskServicesTypeOK
    BY <2>1, ControlIs DEF TaskServicesTypeOK, KernelTypeOK, PcOK
  <2>3. IsBuffer(buffer)
    BY <2>1 DEF IInv, Ring
  <2>4. rx_lock \in {Unlocked} \cup Nat /\ tx_lock \in {Unlocked} \cup Nat
    BY <2>1, ControlIs DEF CurrentOK, QueueAt
  <2> QED
    BY <2>1, <2>2, <2>3, <2>4, ControlIs DEF KernelQueueTypeOK, CallsOK, CallRecords
<1> QED
  BY <1>1, BlockingInvariant, PTL

\* Tasks that block on an object, are woken by a task or an interrupt, by a timeout or
\* when the scheduler resumes, are in one list each, and their events in at most one
\* (tasks.c:2917-3170, 2063-2215, queue.c:2137-2254).
THEOREM BlockedTasksAreInOneList ==
    ASSUME Masked = TRUE
    PROVE  KernelQueueSpec => []OneListEach
<1>1. BlockingInv => OneListEach
  <2> SUFFICES ASSUME BlockingInv PROVE OneListEach
    OBVIOUS
  <2>1. Good(Users, kernel) /\ \A t \in Live : Linked(kernel, t)
    BY ControlIs DEF BlockingInv, AllLinked, Live
  <2> QED
    BY <2>1, OneListIs
<1> QED
  BY <1>1, BlockingInvariant, PTL

\* Nothing that an interrupt has left for the scheduler's resumption is forgotten by a
\* task that blocks (queue.c:2137-2254, tasks.c:2063-2215).
THEOREM BlockingLeavesNothingPending ==
    ASSUME Masked = TRUE
    PROVE  KernelQueueSpec => []NothingPending
<1>1. BlockingInv => NothingPending
  BY ControlIs DEF BlockingInv, CurrentOK, PendAt, NothingPending
<1> QED
  BY <1>1, BlockingInvariant, PTL

\* A task that waits with a block time is found when its tick comes, and the search for a
\* task to run starts at or above every ready one, also while priorities are inherited
\* (tasks.c:215-227, 4912-5020, 3834-4049).
THEOREM BlockedDelaysStayInOrder ==
    ASSUME Masked = TRUE
    PROVE  KernelQueueSpec => [](DelaysInOrder /\ TopIsHighest)
<1>1. BlockingInv => DelaysInOrder /\ TopIsHighest
  BY ControlIs DEF BlockingInv, DelaysInOrder, TopIsHighest, Good, Top, DelaysOK, Sorted
<1> QED
  BY <1>1, BlockingInvariant, PTL

-----------------------------------------------------------------------------
\* A mutex.  Those that wait for it, first the one of the highest priority.
Waiters(k) == Range(k.waiting["toReceive"])
InOrder(k) == Sorted(k.waiting["toReceive"], k.order)

\* No task is put on an event list.
Shrunk(j, k) == \A o \in Objects : Range(j.waiting[o]) \subseteq Range(k.waiting[o])

\* A step that changes no priority, takes back no request to switch and puts nobody
\* among those that wait; a task that is ready stays so unless it delays itself.
Steady(j, k) ==
    /\ SameRanks(j, k) /\ j.current = k.current
    /\ (k.missed => j.missed) /\ (k.pendsv => j.pendsv)
    /\ Shrunk(j, k) /\ Waiters(j) \subseteq Waiters(k) /\ (InOrder(k) => InOrder(j))
    /\ \A u \in Tasks : Ready(k, u) /\ pc[u] /= "delay" => Ready(j, u)

LEMMA SteadyFollows ==
    ASSUME NEW k, NEW j, NEW i, Steady(j, k), Steady(i, j)
    PROVE  Steady(i, k)
<1>1. Shrunk(i, k)
  BY DEF Steady, Shrunk
<1> QED
  BY <1>1 DEF Steady, SameRanks

\* One that leaves the lists as they are, and one that takes a task from the event
\* lists.
LEMMA SteadySame ==
    ASSUME NEW k, NEW j, SameRanks(j, k), j.current = k.current, j.ready = k.ready,
           j.waiting = k.waiting, k.missed => j.missed, k.pendsv => j.pendsv
    PROVE  Steady(j, k)
BY DEF Steady, SameRanks, Shrunk, Waiters, InOrder, Ready

LEMMA SteadyWithout ==
    ASSUME NEW k, Good(Users, k), NEW j, SameRanks(j, k), j.current = k.current,
           k.missed => j.missed, k.pendsv => j.pendsv, \A u : OthersReady(j, k, u),
           \/ j.waiting = k.waiting
           \/ \E t : \A o \in Objects : j.waiting[o] = Without(k.waiting[o], t)
    PROVE  Steady(j, k)
<1>1. "toReceive" \in Objects
  BY KernelQueueAssumption
<1>2. \A u \in Tasks : Ready(k, u) => Ready(j, u)
  BY ReadyStays
<1>3. Waiters(j) \subseteq Waiters(k) /\ (InOrder(k) => InOrder(j))
  <2>1. CASE j.waiting = k.waiting
    BY <2>1 DEF Waiters, InOrder, SameRanks
  <2>2. ASSUME NEW t, j.waiting["toReceive"] = Without(k.waiting["toReceive"], t)
        PROVE  Waiters(j) \subseteq Waiters(k) /\ (InOrder(k) => InOrder(j))
    <3>1. Listed(k.waiting["toReceive"], Tasks)
      BY <1>1 DEF Good, Sound, ListsOK, EventsOK
    <3>2. Range(j.waiting["toReceive"]) = Range(k.waiting["toReceive"]) \ {t}
      BY <2>2, <3>1, WithoutLists
    <3>3. InOrder(k) => InOrder(j)
      BY <2>2, <3>1, WithoutKeepsOrder DEF InOrder, SameRanks
    <3> QED
      BY <3>2, <3>3 DEF Waiters
  <2> QED
    BY <1>1, <2>1, <2>2
<1>4. Shrunk(j, k)
  <2>1. \A o \in Objects : Listed(k.waiting[o], Tasks)
    BY DEF Good, Sound, ListsOK, EventsOK
  <2> QED
    BY <2>1, WithoutLists DEF Shrunk
<1> QED
  BY <1>2, <1>3, <1>4 DEF Steady

\* What wakes a task.
LEMMA SteadyWakes ==
    ASSUME NEW k, Good(Users, k), AllLinked(k), NEW o \in Objects
    PROVE  Steady(Wake(k, o), k) /\ Steady(WakeAndYield(k, o), k)
<1>1. Steady(Wake(k, o), k)
  <2>1. CASE k.waiting[o] = <<>>
    BY <2>1, SteadySame DEF Wake, SameRanks
  <2>2. CASE k.waiting[o] /= <<>>
    <3> DEFINE j == RemoveFromEventList(k, o)
    <3>1. \A u \in Tasks : Linked(k, u)
      BY DEF AllLinked
    <3>2. /\ Ticked(j, k) /\ \A u : OthersReady(j, k, u)
          /\ \A p \in Objects : j.waiting[p] = Without(k.waiting[p], Head(k.waiting[o]))
          /\ j.pendsv = k.pendsv
      BY <2>2, <3>1, RemovedIs
    <3> HIDE DEF j
    <3>3. SameRanks(j, k) /\ j.current = k.current /\ (k.missed => j.missed)
      BY <3>2, RanksFollow DEF Ticked
    <3>4. Steady(j, k)
      BY <3>2, <3>3, SteadyWithout
    <3> QED
      BY <2>2, <3>4 DEF Wake, j
  <2> QED
    BY <2>1, <2>2
<1>2. Steady(WakeAndYield(k, o), Wake(k, o))
  <2> DEFINE i == Wake(k, o)
  <2>1. i \in Kernels
    BY WakesFirst, GoodIs DEF WakesNow, Wakes
  <2> HIDE DEF i
  <2>2. WakeAndYield(k, o) = YieldingIf(i, WakeHigher(k, o))
    BY DEF WakeAndYield, i
  <2>3. ASSUME NEW b PROVE Steady(YieldingIf(i, b), i)
    BY <2>1, SteadySame DEF YieldingIf, SameRanks, Kernels
  <2> QED
    BY <2>2, <2>3 DEF i
<1> QED
  BY <1>1, <1>2, SteadyFollows

LEMMA SteadyScheduler ==
    ASSUME ControlOK, IdleFrees \/ IdleYields \/ SysTick \/ TickLoops
    PROVE  Steady(kernel', kernel)
<1>0. /\ Good(Users, kernel) /\ AllLinked(kernel) /\ kernel \in Kernels /\ masked \in BOOLEAN
  BY ControlIs
<1>1. CASE IdleFrees
  BY <1>0, <1>1 DEF IdleFrees, AllLinked
<1>2. CASE IdleYields
  <2>1. kernel' = Yielding(kernel)
    BY <1>2 DEF IdleYields
  <2> QED
    BY <1>0, <2>1, SteadySame DEF Yielding, SameRanks, Kernels
<1>3. CASE SysTick
  <2>1. /\ Ticked(kernel', kernel) /\ kernel'.waiting = kernel.waiting
        /\ kernel'.ready = kernel.ready /\ (kernel.pendsv => kernel'.pendsv)
    BY <1>0, <1>3, IncrementTickIs DEF SysTick, Interruptible
  <2> QED
    BY <2>1, RanksFollow, SteadySame DEF Ticked
<1>4. CASE TickLoops /\ Due(kernel)
  <2>1. kernel' = UnblockFirst(kernel)
    BY <1>4 DEF TickLoops
  <2>2. /\ Ticked(kernel', kernel) /\ (kernel.pendsv => kernel'.pendsv)
        /\ \A u : OthersReady(kernel', kernel, u)
        /\ \A o \in Objects :
              kernel'.waiting[o] = Without(kernel.waiting[o], Head(kernel.delayed))
    BY <1>0, <1>4, <2>1, UnblockFirstIs
  <2> QED
    BY <1>0, <2>2, RanksFollow, SteadyWithout DEF Ticked
<1>5. CASE TickLoops /\ ~ Due(kernel)
  <2>1. kernel' = EndTick(kernel)
    BY <1>5 DEF TickLoops
  <2>2. /\ Ticked(kernel', kernel) /\ (kernel.pendsv => kernel'.pendsv)
        /\ \A u : OthersReady(kernel', kernel, u) /\ kernel'.waiting = kernel.waiting
    BY <1>0, <1>5, <2>1, EndTickIs
  <2> QED
    BY <1>0, <2>2, RanksFollow, SteadyWithout DEF Ticked
<1> QED
  BY <1>1, <1>2, <1>3, <1>4, <1>5

LEMMA SteadyResumes ==
    ASSUME ControlOK, NEW from, NEW to, ResumeAll(from, to)
    PROVE  Steady(kernel', kernel)
<1>1. ~ kernel.ticking /\ Good(Users, kernel) /\ AllLinked(kernel) /\ kernel \in Kernels
      /\ masked \in BOOLEAN
  BY ControlIs DEF ResumeAll
<1>2. CASE kernel' = [kernel EXCEPT !.locked = @ - 1]
  BY <1>1, <1>2, SteadySame DEF SameRanks, Kernels
<1>3. CASE kernel.pending /= <<>> /\ kernel' = DrainPendingReadyList(kernel)
  <2>1. kernel.pending \in Seq(Tasks)
    BY <1>1 DEF Kernels
  <2>2. Linked(kernel, Head(kernel.pending))
    BY <1>1, <1>3, <2>1 DEF AllLinked
  <2>3. /\ Ticked(kernel', kernel) /\ kernel'.pendsv = kernel.pendsv
        /\ \A u : OthersReady(kernel', kernel, u)
        /\ \A o \in Objects :
              kernel'.waiting[o] = Without(kernel.waiting[o], Head(kernel.pending))
    BY <1>1, <1>3, <2>2, DrainIs
  <2> QED
    BY <1>1, <2>3, RanksFollow, SteadyWithout DEF Ticked
<1>4. CASE kernel' = ReplayTick(kernel) /\ kernel.pended > 0
  <2> DEFINE k == [kernel EXCEPT !.pended = @ - 1]
  <2>1. k \in Kernels
    <3>1. kernel.pended \in Nat
      BY <1>1 DEF Kernels
    <3>2. kernel.pended - 1 \in Nat
      BY <1>4, <3>1
    <3> QED
      BY <1>1, <3>2 DEF Kernels
  <2>2. SameLists(k, kernel) /\ SameRanks(k, kernel)
        /\ k.missed = kernel.missed /\ k.pendsv = kernel.pendsv
    BY <1>1, <2>1 DEF SameLists, SameRanks, Kernels
  <2>3. kernel' = IncrementTick(k)
    BY <1>4 DEF ReplayTick
  <2> HIDE DEF k
  <2>4. Good(Users, k) /\ ~ k.ticking
    BY <1>1, <2>2, SameIs DEF SameLists
  <2>5. /\ Ticked(kernel', k) /\ kernel'.waiting = k.waiting
        /\ kernel'.ready = k.ready /\ (k.pendsv => kernel'.pendsv)
    BY <1>1, <2>3, <2>4, IncrementTickIs
  <2>6. Steady(kernel', k)
    BY <2>5, RanksFollow, SteadySame DEF Ticked
  <2>7. Steady(k, kernel)
    BY <2>2, SteadySame DEF SameLists
  <2> QED
    BY <2>6, <2>7, SteadyFollows
<1>5. CASE kernel' = YieldingIf(kernel, kernel.missed)
  BY <1>1, <1>5, SteadySame DEF YieldingIf, SameRanks, Kernels
<1> QED
  BY <1>2, <1>3, <1>4, <1>5 DEF ResumeAll, Goes

LEMMA SteadyDelays ==
    ASSUME ControlOK, vTaskDelay
    PROVE  Steady(kernel', kernel)
<1>0. /\ Good(Users, kernel) /\ AllLinked(kernel) /\ kernel \in Kernels
  BY ControlIs
<1>1. CASE \E ticks \in BlockTimes \ {0} :
               Step("delay", AddCurrentTaskToDelayedList(kernel, ticks, FALSE), "delay_resume")
  <2>1. PICK ticks \in BlockTimes \ {0} :
            Step("delay", AddCurrentTaskToDelayedList(kernel, ticks, FALSE), "delay_resume")
    BY <1>1
  <2>2. At("delay") /\ kernel' = AddCurrentTaskToDelayedList(kernel, ticks, FALSE)
    BY <2>1 DEF Step, Goes
  <2>3. ~ kernel.ticking /\ kernel.current /= Idle /\ pc[kernel.current] = "delay"
    BY <2>2, AtIs, ControlIs DEF Labels
  <2>4. ticks \in Ticks \ {0} /\ FALSE \in BOOLEAN
    BY TaskServicesAssumption
  <2>5. /\ Framed(kernel', kernel) /\ kernel'.waiting = kernel.waiting
        /\ OthersReady(kernel', kernel, kernel.current)
    BY <1>0, <2>2, <2>3, <2>4, FallsAsleep
  <2>6. SameRanks(kernel', kernel)
    BY <2>5, RanksFollow
  <2> QED
    BY <2>3, <2>5, <2>6 DEF Steady, Shrunk, Framed, Waiters, InOrder, OthersReady, SameRanks
<1>2. CASE \E label, to : Step(label, SuspendAll(kernel), to)
  <2>1. kernel' = SuspendAll(kernel)
    BY <1>2 DEF Step, Goes
  <2> QED
    BY <1>0, <2>1, SteadySame DEF SuspendAll, SameRanks, Kernels
<1>3. CASE \E label, to : Step(label, Yielding(kernel), to)
  <2>1. kernel' = Yielding(kernel)
    BY <1>3 DEF Step, Goes
  <2> QED
    BY <1>0, <2>1, SteadySame DEF Yielding, SameRanks, Kernels
<1>4. CASE \E from, to : ResumeAll(from, to)
  BY <1>4, SteadyResumes
<1> QED
  BY <1>1, <1>2, <1>3, <1>4 DEF vTaskDelay, ResumeAllAndYield

LEMMA SteadyUnlocks ==
    ASSUME NEW k, Good(Users, k), AllLinked(k), k.locked /= 0, NEW o \in Objects, NEW n \in Int
    PROVE  Steady(WakeSome(k, o, n), k)
<1> DEFINE j == WakeSome(k, o, n)
<1>1. /\ WakesNow(j, k) /\ j.pendsv = k.pendsv
      /\ j.waiting[o] = Left(k.waiting[o], n)
      /\ \A p \in Objects : p /= o => j.waiting[p] = k.waiting[p]
      /\ j.priority = k.priority /\ j.base = k.base /\ j.order = k.order
      /\ j.ready = k.ready /\ (k.missed => j.missed)
  BY WakesSome
<1> HIDE DEF j
<1>2. "toReceive" \in Objects /\ Listed(k.waiting["toReceive"], Tasks)
  BY KernelQueueAssumption DEF Good, Sound, ListsOK, EventsOK
<1>3. Waiters(j) \subseteq Waiters(k) /\ (InOrder(k) => InOrder(j))
  <2>1. CASE o = "toReceive"
    <3>1. /\ Range(Left(k.waiting[o], n)) \subseteq Range(k.waiting[o])
          /\ Sorted(k.waiting[o], k.order) => Sorted(Left(k.waiting[o], n), k.order)
      BY <1>2, <2>1, WokenIs
    <3> QED
      BY <1>1, <2>1, <3>1 DEF Waiters, InOrder
  <2>2. CASE o /= "toReceive"
    BY <1>1, <1>2, <2>2 DEF Waiters, InOrder
  <2> QED
    BY <2>1, <2>2
<1>4. j.current = k.current /\ SameRanks(j, k)
  BY <1>1 DEF WakesNow, Wakes, SameRanks
<1>5. \A u \in Tasks : Ready(k, u) => Ready(j, u)
  BY <1>1 DEF Ready
<1>6. Shrunk(j, k)
  BY <1>1 DEF Shrunk, WakesNow, Wakes
<1> QED
  BY <1>1, <1>3, <1>4, <1>5, <1>6 DEF Steady, j

\* What the end of a call leaves.
LEMMA SteadyReturned ==
    ASSUME NEW k \in Kernels
    PROVE  Steady(Returned(k), k) /\ Steady(SetTimeOutState(k), k)
<1>1. Untouched(Returned(k), k) /\ Untouched(SetTimeOutState(k), k)
  BY EndsUntouched
<1> QED
  BY <1>1, SteadySame DEF Untouched, SameLists, SameRanks

LEMMA SteadyItself == ASSUME NEW k PROVE Steady(k, k)
BY SteadySame DEF SameRanks

\* The labels of a call that may take what it asks for, and the invariant of a mutex: of a
\* kernel k with the holder h, where the tasks are at p in the calls c.
Taking == {"try", "yield", "found"}

\* The mutex is given, or it has a holder.
GivenOK(m, h) == m \in {0, 1} /\ (m = 0 <=> h /= Nobody)

\* A call whose turn has not been its last still waits.
WaitAt(e) == e.outcome \in {"placed", "again"} => e.wait > 0

FoundOK(k, p) == p[k.current] = "found" => ~ k.pendsv

\* Only its holder gives the mutex, at once, and does not ask for it.
RoleAt(t, h, l, e) ==
    /\ e.op \in {"none", "back", "receive"}
    /\ e.op = "back" => h = t /\ l = "try"
    /\ e.op = "receive" => h /= t

\* Only the holder has another priority than its own.
OwnOK(k, h) ==
    \A t \in Tasks : k.base[t] <= k.priority[t] /\ (t /= h => k.priority[t] = k.base[t])

\* Nobody that waits is of a higher priority than the holder; those that lent it theirs
\* remember it, and one that did is still to come to the end of its call.
LentOK(k, h, p, c) ==
    h /= Nobody =>
        /\ \A u \in Waiters(k) :
              /\ k.priority[u] <= k.priority[h]
              /\ k.base[h] < k.priority[u] => c[u].inherited
        /\ k.base[h] /= k.priority[h] =>
              \E t \in Tasks : /\ c[t].inherited /\ k.base[t] = k.priority[h]
                               /\ p[t] = "try" => c[t].wait > 0

\* Without a holder one that is ready, and of no lower a priority than those that wait, is
\* about to take the mutex, and no task below them runs.
FreeOK(k, h, p, c) ==
    h = Nobody =>
        /\ Waiters(k) /= {} =>
              \E t \in Tasks : /\ Ready(k, t) /\ c[t].op = "receive" /\ p[t] \in Taking
                               /\ \A u \in Waiters(k) : k.priority[u] <= k.priority[t]
        /\ ~ k.pendsv /\ (k.missed => p[k.current] \notin Locking \cup Resuming) =>
              \A u \in Waiters(k) : k.priority[u] <= k.priority[k.current]

MutexAt(k, h, p, c) ==
    /\ InOrder(k) /\ OwnOK(k, h) /\ LentOK(k, h, p, c) /\ FreeOK(k, h, p, c)
    /\ \A t \in Tasks : RoleAt(t, h, p[t], c[t]) /\ WaitAt(c[t])

MutexOK ==
    IsMutex =>
        /\ GivenOK(buffer.messages, holder) /\ FoundOK(kernel, pc)
        /\ MutexAt(kernel, holder, pc, call)

\* A task that waits for the mutex has a block time left.
LEMMA WaitersWait ==
    ASSUME ControlOK, MutexAt(kernel, holder, pc, call), NEW u \in Waiters(kernel)
    PROVE  u \in Tasks /\ call[u].outcome = "placed" /\ call[u].wait > 0
<1>1. "toReceive" \in Objects
  BY KernelQueueAssumption
<1>2. u \in Tasks
  BY <1>1, ControlIs, GoodIs DEF Waiters
<1>3. Event(kernel, u)
  BY <1>1 DEF Event, Waiters
<1>4. call[u].outcome = "placed"
  BY <1>2, <1>3, ControlIs DEF CallsOK, WaitsAt
<1> QED
  BY <1>2, <1>4 DEF MutexAt, WaitAt

\* A steady step of the current task from l to another label, and from the call d to e,
\* that keeps what the others rely on.
Calm(h, l, d, to, e) ==
    /\ h = Nobody /\ l \in Taking /\ d.op = "receive" => to \in Taking /\ e.op = "receive"
    /\ h /= Nobody /\ d.inherited /\ (l = "try" => d.wait > 0) =>
          e.inherited /\ (to = "try" => e.wait > 0)
    /\ WaitAt(e)

LEMMA MutexStays ==
    ASSUME ControlOK, MutexAt(kernel, holder, pc, call), NEW k, Steady(k, kernel),
           NEW p, NEW c,
           \A t \in Tasks \ {kernel.current} : p[t] = pc[t] /\ c[t] = call[t],
           Calm(holder, pc[kernel.current], call[kernel.current],
                p[kernel.current], c[kernel.current]),
           RoleAt(kernel.current, holder, p[kernel.current], c[kernel.current]),
           kernel.missed /\ pc[kernel.current] \in Locking \cup Resuming =>
              p[kernel.current] \in Locking \cup Resuming \/ k.pendsv
    PROVE  MutexAt(k, holder, p, c)
<1>0. kernel.current \in Tasks /\ "delay" \notin Taking
  BY ControlIs DEF Taking
<1>1. InOrder(k) /\ OwnOK(k, holder)
  BY DEF MutexAt, OwnOK, Steady, SameRanks
<1>2. \A t \in Tasks : RoleAt(t, holder, p[t], c[t]) /\ WaitAt(c[t])
  BY DEF MutexAt, Calm
<1>3. LentOK(k, holder, p, c)
  <2> SUFFICES ASSUME holder /= Nobody
               PROVE  /\ \A u \in Waiters(k) :
                            /\ k.priority[u] <= k.priority[holder]
                            /\ k.base[holder] < k.priority[u] => c[u].inherited
                      /\ k.base[holder] /= k.priority[holder] =>
                            \E t \in Tasks : /\ c[t].inherited /\ k.base[t] = k.priority[holder]
                                             /\ p[t] = "try" => c[t].wait > 0
    BY DEF LentOK
  <2>1. \A t \in Tasks : call[t].inherited /\ (pc[t] = "try" => call[t].wait > 0) =>
            c[t].inherited /\ (p[t] = "try" => c[t].wait > 0)
    BY DEF Calm
  <2>2. ASSUME NEW u \in Waiters(k)
        PROVE  /\ k.priority[u] <= k.priority[holder]
               /\ k.base[holder] < k.priority[u] => c[u].inherited
    <3>1. u \in Waiters(kernel)
      BY DEF Steady
    <3>2. u \in Tasks /\ call[u].wait > 0
      BY <3>1, WaitersWait
    <3> QED
      BY <2>1, <3>1, <3>2 DEF MutexAt, LentOK, Steady, SameRanks
  <2>3. ASSUME k.base[holder] /= k.priority[holder]
        PROVE  \E t \in Tasks : /\ c[t].inherited /\ k.base[t] = k.priority[holder]
                                /\ p[t] = "try" => c[t].wait > 0
    <3>1. PICK t \in Tasks : /\ call[t].inherited /\ kernel.base[t] = kernel.priority[holder]
                             /\ pc[t] = "try" => call[t].wait > 0
      BY <2>3 DEF MutexAt, LentOK, Steady, SameRanks
    <3> QED
      BY <2>1, <3>1 DEF Steady, SameRanks
  <2> QED
    BY <2>2, <2>3
<1>4. FreeOK(k, holder, p, c)
  <2> SUFFICES ASSUME holder = Nobody
               PROVE  /\ Waiters(k) /= {} =>
                            \E t \in Tasks :
                                /\ Ready(k, t) /\ c[t].op = "receive" /\ p[t] \in Taking
                                /\ \A u \in Waiters(k) : k.priority[u] <= k.priority[t]
                      /\ ~ k.pendsv /\ (k.missed => p[k.current] \notin Locking \cup Resuming) =>
                            \A u \in Waiters(k) : k.priority[u] <= k.priority[k.current]
    BY DEF FreeOK
  <2>1. ASSUME Waiters(k) /= {}
        PROVE  \E t \in Tasks :
                   /\ Ready(k, t) /\ c[t].op = "receive" /\ p[t] \in Taking
                   /\ \A u \in Waiters(k) : k.priority[u] <= k.priority[t]
    <3>1. Waiters(kernel) /= {}
      BY <2>1 DEF Steady
    <3>2. PICK t \in Tasks :
              /\ Ready(kernel, t) /\ call[t].op = "receive" /\ pc[t] \in Taking
              /\ \A u \in Waiters(kernel) : kernel.priority[u] <= kernel.priority[t]
      BY <3>1 DEF MutexAt, FreeOK
    <3>3. Ready(k, t)
      BY <1>0, <3>2 DEF Steady
    <3>4. c[t].op = "receive" /\ p[t] \in Taking
      BY <3>2 DEF Calm
    <3>5. \A u \in Waiters(k) : k.priority[u] <= k.priority[t]
      BY <3>2 DEF Steady, SameRanks
    <3> QED
      BY <3>3, <3>4, <3>5
  <2>2. ASSUME ~ k.pendsv, k.missed => p[k.current] \notin Locking \cup Resuming
        PROVE  \A u \in Waiters(k) : k.priority[u] <= k.priority[k.current]
    <3>1. ~ kernel.pendsv /\ k.current = kernel.current
      BY <2>2 DEF Steady
    <3>2. kernel.missed => pc[kernel.current] \notin Locking \cup Resuming
      BY <2>2 DEF Steady
    <3> QED
      BY <3>1, <3>2 DEF MutexAt, FreeOK, Steady, SameRanks
  <2> QED
    BY <2>1, <2>2
<1> QED
  BY <1>1, <1>2, <1>3, <1>4 DEF MutexAt

\* A calm step leaves the mutex as it was; so does an interrupt, or a step with the
\* interrupts held off.
LEMMA CalmStep ==
    ASSUME ControlOK, MutexOK, IsMutex, NEW l, Is(l), NEW to, NEW e, NEW k,
           Goes(k, to), MyCall(e), Steady(k, kernel), holder' = holder, buffer' = buffer,
           Calm(holder, l, Mine, to, e), RoleAt(kernel.current, holder, to, e),
           to = "found" => ~ k.pendsv,
           kernel.missed /\ l \in Locking \cup Resuming =>
              to \in Locking \cup Resuming \/ k.pendsv
    PROVE  MutexOK'
<1>1. /\ kernel.current \in Tasks /\ pc[kernel.current] = l /\ Mine = call[kernel.current]
      /\ kernel' = k /\ k.current = kernel.current
  BY ControlIs DEF Is, Mine, Goes, Steady
<1>2. /\ pc'[kernel.current] = to /\ \A t \in Tasks \ {kernel.current} : pc'[t] = pc[t]
  BY <1>1, ControlIs DEF Goes, PcOK
<1>3. /\ call'[kernel.current] = e /\ \A t \in Tasks \ {kernel.current} : call'[t] = call[t]
  BY <1>1, ControlIs DEF MyCall, CallsOK
<1>4. MutexAt(kernel, holder, pc, call) /\ GivenOK(buffer.messages, holder)
  BY DEF MutexOK
<1>5. MutexAt(k, holder, pc', call')
  BY <1>1, <1>2, <1>3, <1>4, MutexStays
<1>6. FoundOK(k, pc')
  BY <1>1, <1>2 DEF FoundOK
<1> QED
  BY <1>1, <1>4, <1>5, <1>6 DEF MutexOK

LEMMA CalmKernel ==
    ASSUME ControlOK, MutexOK, IsMutex, Steady(kernel', kernel), pc[kernel.current] /= "found",
           UNCHANGED <<pc, call, holder, buffer>>
    PROVE  MutexOK'
<1>1. MutexAt(kernel, holder, pc, call) /\ GivenOK(buffer.messages, holder)
  BY DEF MutexOK
<1>2. kernel.current \in Tasks
  BY ControlIs
<1>3. /\ RoleAt(kernel.current, holder, pc[kernel.current], call[kernel.current])
      /\ WaitAt(call[kernel.current])
  BY <1>1, <1>2 DEF MutexAt
<1>4. Calm(holder, pc[kernel.current], call[kernel.current],
           pc'[kernel.current], call'[kernel.current])
  BY <1>3 DEF Calm
<1>5. MutexAt(kernel', holder, pc', call')
  <2>1. pc' = pc /\ call' = call
    OBVIOUS
  <2> QED
    BY <1>1, <1>3, <1>4, <2>1, MutexStays
<1>6. FoundOK(kernel', pc')
  BY DEF FoundOK, Steady
<1> QED
  BY <1>1, <1>5, <1>6 DEF MutexOK

\* What a task of a mutex finds.
LEMMA MutexIs ==
    ASSUME ControlOK, IInv, MutexOK, IsMutex
    PROVE  /\ kernel.current \in Tasks /\ GivenOK(buffer.messages, holder)
           /\ MutexAt(kernel, holder, pc, call)
           /\ RoleAt(kernel.current, holder, pc[kernel.current], Mine) /\ WaitAt(Mine)
           /\ IsEmpty <=> holder /= Nobody
           /\ Mine.op \in Senders <=> Mine.op = "back"
           /\ Mine.op \in Receivers <=> Mine.op = "receive"
<1>1. /\ kernel.current \in Tasks /\ GivenOK(buffer.messages, holder)
      /\ MutexAt(kernel, holder, pc, call)
  BY ControlIs DEF MutexOK
<1>2. RoleAt(kernel.current, holder, pc[kernel.current], Mine) /\ WaitAt(Mine)
  BY <1>1 DEF MutexAt, Mine
<1>3. /\ Mine.op \in Senders <=> Mine.op = "back"
      /\ Mine.op \in Receivers <=> Mine.op = "receive"
  BY <1>2 DEF RoleAt, Senders, Receivers
<1>4. IsEmpty <=> holder /= Nobody
  BY <1>1 DEF GivenOK, IsEmpty
<1> QED
  BY <1>1, <1>2, <1>3, <1>4

\* A task that gives the mutex is not obstructed, one that is obstructed finds a holder.
LEMMA ObstructedIs ==
    ASSUME ControlOK, IInv, MutexOK, IsMutex, Obstructed, Mine.op /= "none"
    PROVE  holder /= Nobody /\ Mine.op = "receive"
<1>1. Mine.op \in {"back", "receive"}
  BY MutexIs DEF RoleAt
<1>2. CASE Mine.op = "back"
  <2>1. holder = kernel.current /\ kernel.current /= Nobody
    BY <1>2, MutexIs, KernelQueueAssumption DEF RoleAt
  <2>2. buffer.messages = 0 /\ buffer.length /= 0
    BY <2>1, MutexIs, LengthIs DEF IsEmpty
  <2> QED
    BY <1>2, <2>2 DEF Obstructed, IsFull, Senders
<1>3. CASE Mine.op = "receive"
  <2>1. IsEmpty
    BY <1>3 DEF Obstructed, Senders
  <2> QED
    BY <1>3, <2>1, MutexIs
<1> QED
  BY <1>1, <1>2, <1>3

\* The steps of a call that are calm.
LEMMA CallsCalm ==
    ASSUME ControlOK, IInv, MutexOK, IsMutex, Calls
    PROVE  MutexOK'
<1>1. /\ At("run") /\ Goes(kernel, "try") /\ buffer' = buffer /\ holder' = holder
  BY DEF Calls
<1>2. PICK wait \in QueueBlockTimes, op \in {"back", "receive"}, item \in Items :
          MyCall(CallOf(op, item, wait)) /\ (op = "back" <=> holder = kernel.current)
  BY DEF Calls, IsMutex
<1> DEFINE e == CallOf(op, item, wait)
<1>3. Is("run") /\ ~ kernel.pendsv /\ Mine = NoCall
  BY <1>1, AtIs DEF Labels, CallAt, Working
<1>4. /\ e.op = op /\ e.outcome = "none" /\ ~ NoCall.inherited
  BY DEF CallOf, NoCall
<1> HIDE DEF e
<1>5. Calm(holder, "run", Mine, "try", e)
  BY <1>3, <1>4 DEF Calm, Taking, WaitAt
<1>6. RoleAt(kernel.current, holder, "try", e)
  BY <1>2, <1>4 DEF RoleAt
<1> QED
  BY <1>1, <1>2, <1>3, <1>5, <1>6, SteadyItself, CalmStep DEF Locking, Resuming, e

LEMMA CountsCalm ==
    ASSUME ControlOK, IInv, MutexOK, IsMutex, Counts
    PROVE  MutexOK'
<1> DEFINE e == [Mine EXCEPT !.loaded = buffer.messages]
<1>1. /\ At("try") /\ Goes(kernel, "found") /\ MyCall(e) /\ buffer' = buffer /\ holder' = holder
      /\ Mine.op \in Receivers
  BY DEF Counts
<1>2. Is("try") /\ ~ kernel.pendsv /\ Mine \in CallRecords(buffer.length)
  BY <1>1, AtIs DEF Labels
<1>3. /\ e.op = Mine.op /\ e.outcome = Mine.outcome /\ e.inherited = Mine.inherited
      /\ e.wait = Mine.wait
  BY <1>2 DEF CallRecords
<1> HIDE DEF e
<1>4. Mine.op = "receive" /\ RoleAt(kernel.current, holder, pc[kernel.current], Mine) /\ WaitAt(Mine)
  BY <1>1, MutexIs
<1>5. Calm(holder, "try", Mine, "found", e)
  BY <1>3, <1>4 DEF Calm, Taking, WaitAt
<1>6. RoleAt(kernel.current, holder, "found", e)
  BY <1>3, <1>4 DEF RoleAt
<1> QED
  BY <1>1, <1>2, <1>5, <1>6, SteadyItself, CalmStep DEF Locking, Resuming

\* A call that does not wait ends where a holder has the mutex.
LEMMA GivesUpCalm ==
    ASSUME ControlOK, IInv, MutexOK, IsMutex, GivesUp
    PROVE  MutexOK'
<1>1. /\ At("try") /\ Obstructed /\ Mine.wait = 0 /\ Returns(kernel)
      /\ buffer' = buffer /\ holder' = holder
  BY DEF GivesUp
<1>2. Is("try") /\ CallAt("try", Mine)
  BY <1>1, AtIs DEF Labels
<1>3. holder /= Nobody
  BY <1>1, <1>2, ObstructedIs DEF CallAt, Working
<1>4. Goes(Returned(kernel), "run") /\ MyCall(NoCall)
  BY <1>1 DEF Returns, Returned
<1>5. NoCall.op = "none" /\ NoCall.outcome = "none"
  BY DEF NoCall, CallOf
<1>6. Calm(holder, "try", Mine, "run", NoCall)
  BY <1>1, <1>3, <1>5 DEF Calm, WaitAt
<1>7. RoleAt(kernel.current, holder, "run", NoCall)
  BY <1>5 DEF RoleAt
<1> QED
  BY <1>1, <1>2, <1>4, <1>6, <1>7, ControlIs, SteadyReturned, CalmStep DEF Locking, Resuming

LEMMA StartsToWaitCalm ==
    ASSUME ControlOK, IInv, MutexOK, IsMutex, StartsToWait
    PROVE  MutexOK'
<1> DEFINE k == IF Mine.timed THEN kernel ELSE SetTimeOutState(kernel)
           e == [Mine EXCEPT !.timed = TRUE]
<1>1. /\ At("try") /\ Obstructed /\ Goes(k, "blocking") /\ MyCall(e)
      /\ buffer' = buffer /\ holder' = holder
  BY DEF StartsToWait
<1>2. Is("try") /\ CallAt("try", Mine) /\ Mine \in CallRecords(buffer.length)
  BY <1>1, AtIs DEF Labels
<1>3. holder /= Nobody /\ Mine.op = "receive" /\ WaitAt(Mine)
      /\ RoleAt(kernel.current, holder, pc[kernel.current], Mine)
  BY <1>1, <1>2, ObstructedIs, MutexIs DEF CallAt, Working
<1>4. Steady(k, kernel)
  BY ControlIs, SteadyReturned, SteadyItself
<1>5. /\ e.op = Mine.op /\ e.outcome = Mine.outcome /\ e.inherited = Mine.inherited
      /\ e.wait = Mine.wait
  BY <1>2 DEF CallRecords
<1> HIDE DEF e, k
<1>6. Calm(holder, "try", Mine, "blocking", e)
  BY <1>3, <1>5 DEF Calm, WaitAt
<1>7. RoleAt(kernel.current, holder, "blocking", e)
  BY <1>3, <1>5 DEF RoleAt
<1> QED
  BY <1>1, <1>2, <1>4, <1>6, <1>7, CalmStep DEF Locking, Resuming

\* A step with the call as it is, from a label that is not the first of its turn.
LEMMA CalmTurn ==
    ASSUME ControlOK, IInv, MutexOK, IsMutex, NEW l, l \notin {"try", "found"}, Is(l),
           NEW to, to /= "found", l = "yield" => to = "try",
           to = "try" => holder = Nobody \/ Mine.outcome \in {"placed", "again"},
           NEW k, Goes(k, to), Steady(k, kernel),
           call' = call, holder' = holder, buffer' = buffer,
           kernel.missed /\ l \in Locking \cup Resuming =>
              to \in Locking \cup Resuming \/ k.pendsv
    PROVE  MutexOK'
<1>1. /\ RoleAt(kernel.current, holder, l, Mine) /\ WaitAt(Mine)
  BY MutexIs DEF Is
<1>2. MyCall(Mine)
  BY ControlIs DEF MyCall, Mine, CallsOK
<1>3. Calm(holder, l, Mine, to, Mine)
  BY <1>1 DEF Calm, WaitAt, Taking
<1>4. RoleAt(kernel.current, holder, to, Mine)
  BY <1>1 DEF RoleAt
<1> QED
  BY <1>2, <1>3, <1>4, CalmStep

\* Suspending the scheduler, locking and unlocking the queue, resuming the scheduler.
LEMMA SuspendsCalm ==
    ASSUME ControlOK, IInv, MutexOK, IsMutex, Suspends
    PROVE  MutexOK'
<1>1. /\ Is("blocking") /\ Goes(SuspendAll(kernel), "lock")
      /\ call' = call /\ holder' = holder /\ buffer' = buffer
  BY DEF Suspends, Step, At, queueVars
<1>2. Steady(SuspendAll(kernel), kernel)
  BY ControlIs, SteadySame DEF SuspendAll, SameRanks, Kernels
<1> QED
  BY <1>1, <1>2, CalmTurn DEF Locking, Resuming

LEMMA UnlocksCalm ==
    ASSUME ControlOK, IInv, MutexOK, IsMutex, UnlocksTx \/ UnlocksRx
    PROVE  MutexOK'
<1>1. PICK from \in {"unlock", "unlock_rx"}, to \in Leaving, o \in Objects, n \in Int :
          Step(from, WakeSome(kernel, o, n), to)
  <2>1. tx_lock \in Int /\ rx_lock \in Int
    BY ControlIs DEF CurrentOK, QueueAt, Unlocked
  <2> QED
    BY <2>1, KernelQueueAssumption DEF UnlocksTx, UnlocksRx, Leaving
<1>2. call' = call /\ holder' = holder /\ buffer' = buffer
  BY DEF UnlocksTx, UnlocksRx
<1>3. Is(from) /\ Goes(WakeSome(kernel, o, n), to) /\ kernel.locked = LockedAt(from, FALSE)
  BY <1>1, AtIs DEF Step, Labels
<1>4. kernel.locked /= 0
  BY <1>3 DEF LockedAt, Locking
<1>5. Steady(WakeSome(kernel, o, n), kernel)
  BY <1>4, ControlIs, SteadyUnlocks
<1>6. from \notin {"try", "found", "yield"} /\ to \notin {"try", "found"} /\ to \in Locking \cup Resuming
  BY DEF Leaving, Locking, Resuming
<1> QED
  BY <1>2, <1>3, <1>5, <1>6, CalmTurn

LEMMA LocksCalm ==
    ASSUME ControlOK, IInv, MutexOK, IsMutex, Locks
    PROVE  MutexOK'
<1>1. At("lock") /\ holder' = holder /\ buffer' = buffer
  BY DEF Locks
<1>2. /\ Is("lock") /\ Mine \in CallRecords(buffer.length)
      /\ RoleAt(kernel.current, holder, "lock", Mine) /\ WaitAt(Mine)
  BY <1>1, AtIs, MutexIs DEF Labels, Is
<1>3. ASSUME NEW to \in {"unlock", "look"}, NEW e, NEW k, Goes(k, to), MyCall(e),
             k \in {kernel, SetTimeOutState(kernel)},
             e.op = Mine.op, e.inherited = Mine.inherited, WaitAt(e)
      PROVE  MutexOK'
  <2>1. Steady(k, kernel)
    BY <1>3, ControlIs, SteadyReturned, SteadyItself
  <2>2. Calm(holder, "lock", Mine, to, e)
    BY <1>2, <1>3 DEF Calm, Taking
  <2>3. RoleAt(kernel.current, holder, to, e)
    BY <1>2, <1>3 DEF RoleAt
  <2> QED
    BY <1>1, <1>2, <1>3, <2>1, <2>2, <2>3, CalmStep DEF Locking
<1>4. CASE TimedOut(kernel, Mine.wait)
  <2> DEFINE e == [Mine EXCEPT !.outcome = "expired", !.wait = AfterTimeOut(@)]
  <2>1. Goes(kernel, "unlock") /\ MyCall(e)
    BY <1>4 DEF Locks
  <2>2. e.op = Mine.op /\ e.inherited = Mine.inherited /\ WaitAt(e)
    BY <1>2 DEF CallRecords, WaitAt
  <2> HIDE DEF e
  <2> QED
    BY <1>3, <2>1, <2>2
<1>5. CASE ~ TimedOut(kernel, Mine.wait)
  <2> DEFINE e == [Mine EXCEPT !.wait = Remaining(kernel, @)]
             k == IF Mine.wait = MaxDelay THEN kernel ELSE SetTimeOutState(kernel)
  <2>1. Goes(k, "look") /\ MyCall(e)
    BY <1>5 DEF Locks
  <2>2. e.op = Mine.op /\ e.inherited = Mine.inherited
    BY <1>2 DEF CallRecords
  <2>3. WaitAt(e)
    <3>1. Mine.wait \in Ticks
      BY <1>2 DEF CallRecords
    <3>2. Remaining(kernel, Mine.wait) \in Ticks \ {0}
      BY <1>5, <3>1, ControlIs, RemainingIs
    <3>3. e.wait = Remaining(kernel, Mine.wait)
      BY <1>2 DEF CallRecords
    <3> HIDE DEF e
    <3> QED
      BY <3>2, <3>3 DEF WaitAt, Ticks
  <2> HIDE DEF e
  <2> QED
    BY <1>3, <2>1, <2>2, <2>3
<1> QED
  BY <1>4, <1>5

LEMMA ResumesCalm ==
    ASSUME ControlOK, IInv, MutexOK, IsMutex, Resumes
    PROVE  MutexOK'
<1>1. call' = call /\ holder' = holder /\ buffer' = buffer
  BY DEF Resumes, queueVars
<1>2. CASE Step("yield", Yielding(kernel), "try")
  <2>1. Is("yield") /\ Goes(Yielding(kernel), "try")
    BY <1>2 DEF Step, At
  <2>2. Steady(Yielding(kernel), kernel)
    BY ControlIs, SteadySame DEF Yielding, SameRanks, Kernels
  <2>3. Mine.outcome = "placed"
    BY <2>1, ControlIs DEF Is, Mine, CallAt
  <2> QED
    BY <1>1, <2>1, <2>2, <2>3, CalmTurn DEF Locking, Resuming
<1>3. ASSUME NEW to \in {"yield", "try", "late"}, ResumeAll("resume", to),
             to = "try" => Mine.outcome \in {"placed", "again"}
      PROVE  MutexOK'
  <2>1. Steady(kernel', kernel) /\ Is("resume")
    BY <1>3, SteadyResumes DEF ResumeAll
  <2>2. CASE pc' = pc
    <3>1. Goes(kernel', "resume")
      BY <2>1, <2>2, ControlIs DEF Goes, Is, PcOK
    <3> QED
      BY <1>1, <2>1, <3>1, CalmTurn DEF Resuming
  <2>3. CASE Goes(YieldingIf(kernel, kernel.missed), to)
    <3>1. kernel' = YieldingIf(kernel, kernel.missed)
      BY <2>3 DEF Goes
    <3>2. kernel.missed => YieldingIf(kernel, kernel.missed).pendsv
      BY ControlIs, YieldsIs DEF Kernels
    <3> QED
      BY <1>1, <1>3, <2>1, <2>3, <3>1, <3>2, CalmTurn
  <2> QED
    BY <1>3, <2>2, <2>3 DEF ResumeAll
<1> QED
  BY <1>2, <1>3 DEF Resumes, ResumeAllAndYield

\* A task that finds the mutex given while the queue is locked, or when its time is over,
\* tries again.
LEMMA LooksAgainCalm ==
    ASSUME ControlOK, IInv, MutexOK, IsMutex, Looks, ~ Obstructed
    PROVE  MutexOK'
<1> DEFINE e == [Mine EXCEPT !.outcome = "again"]
<1>1. At("look") /\ Goes(kernel, "unlock") /\ MyCall(e) /\ holder' = holder /\ buffer' = buffer
  BY DEF Looks
<1>2. /\ Is("look") /\ Mine \in CallRecords(buffer.length) /\ CallAt("look", Mine)
      /\ RoleAt(kernel.current, holder, "look", Mine)
  BY <1>1, AtIs, MutexIs DEF Labels, Is
<1>3. /\ e.op = Mine.op /\ e.outcome = "again" /\ e.inherited = Mine.inherited
      /\ e.wait = Mine.wait
  BY <1>2 DEF CallRecords
<1> HIDE DEF e
<1>4. Mine.wait > 0
  BY <1>2 DEF CallAt
<1>5. Calm(holder, "look", Mine, "unlock", e)
  BY <1>3, <1>4 DEF Calm, Taking, WaitAt
<1>6. RoleAt(kernel.current, holder, "unlock", e)
  BY <1>2, <1>3 DEF RoleAt
<1> QED
  BY <1>1, <1>2, <1>5, <1>6, SteadyItself, CalmStep DEF Locking

LEMMA ExpiresCalm ==
    ASSUME ControlOK, IInv, MutexOK, IsMutex, Expires,
           (Mine.op \in Receivers /\ ~ IsEmpty) \/ ~ Mine.inherited
    PROVE  MutexOK'
<1>1. At("late") /\ holder' = holder /\ buffer' = buffer
  BY DEF Expires
<1>2. Is("late")
  BY <1>1 DEF At
<1>3. CASE Mine.op \in Receivers /\ ~ IsEmpty
  <2>1. Goes(kernel, "try") /\ call' = call
    BY <1>3 DEF Expires
  <2>2. holder = Nobody
    BY <1>3, MutexIs
  <2> QED
    BY <1>1, <1>2, <2>1, <2>2, SteadyItself, CalmTurn DEF Locking, Resuming
<1>4. CASE ~ (Mine.op \in Receivers /\ ~ IsEmpty) /\ ~ Mine.inherited
  <2>1. Goes(Returned(kernel), "run") /\ MyCall(NoCall)
    BY <1>4 DEF Expires, Returns, Returned
  <2>2. NoCall.op = "none" /\ NoCall.outcome = "none"
    BY DEF NoCall, CallOf
  <2>3. Calm(holder, "late", Mine, "run", NoCall)
    BY <1>4, <2>2 DEF Calm, WaitAt, Taking
  <2>4. RoleAt(kernel.current, holder, "run", NoCall)
    BY <2>2 DEF RoleAt
  <2> QED
    BY <1>1, <1>2, <2>1, <2>3, <2>4, ControlIs, SteadyReturned, CalmStep DEF Locking, Resuming
<1> QED
  BY <1>3, <1>4

\* The delay of a task, and the scheduler but for PendSV.
LEMMA DelayCalm ==
    ASSUME ControlOK, IInv, MutexOK, IsMutex, vTaskDelay, UNCHANGED queueVars
    PROVE  MutexOK'
<1>1. /\ call' = call /\ holder' = holder /\ buffer' = buffer /\ Steady(kernel', kernel)
  BY SteadyDelays DEF queueVars
<1>2. ASSUME NEW l \in Working, NEW to \in Working, Is(l), Goes(kernel', to),
             kernel.missed /\ l \in Resuming => to \in Resuming \/ kernel'.pendsv,
             l = "delay" => to \in Resuming
      PROVE  MutexOK'
  BY <1>1, <1>2, CalmTurn DEF Working, Locking
<1>3. CASE Step("run", SuspendAll(kernel), "delay")
  BY <1>2, <1>3 DEF Step, At, Goes, Working, Resuming
<1>4. CASE \E ticks \in BlockTimes \ {0} :
               Step("delay", AddCurrentTaskToDelayedList(kernel, ticks, FALSE), "delay_resume")
  BY <1>2, <1>4 DEF Step, At, Goes, Working, Resuming
<1>5. CASE Step("run", Yielding(kernel), "run") \/ Step("delay_yield", Yielding(kernel), "run")
  BY <1>2, <1>5 DEF Step, At, Goes, Working, Resuming
<1>6. ASSUME NEW to \in {"run", "delay_yield"}, ResumeAll("delay_resume", to)
      PROVE  MutexOK'
  <2>1. Is("delay_resume")
    BY <1>6 DEF ResumeAll
  <2>2. CASE pc' = pc
    <3>1. Goes(kernel', "delay_resume")
      BY <2>1, <2>2, ControlIs DEF Goes, Is, PcOK
    <3> QED
      BY <1>2, <2>1, <3>1 DEF Working, Resuming
  <2>3. CASE Goes(YieldingIf(kernel, kernel.missed), to)
    <3>1. kernel' = YieldingIf(kernel, kernel.missed) /\ Goes(kernel', to)
      BY <2>3 DEF Goes
    <3>2. kernel.missed => YieldingIf(kernel, kernel.missed).pendsv
      BY ControlIs, YieldsIs DEF Kernels
    <3> QED
      BY <1>2, <2>1, <3>1, <3>2 DEF Working
  <2> QED
    BY <1>6, <2>2, <2>3 DEF ResumeAll
<1> QED
  BY <1>3, <1>4, <1>5, <1>6 DEF vTaskDelay, ResumeAllAndYield

LEMMA SchedulerCalm ==
    ASSUME ControlOK, IInv, MutexOK, IsMutex, IdleFrees \/ IdleYields \/ SysTick \/ TickLoops,
           UNCHANGED queueVars
    PROVE  MutexOK'
<1>1. Steady(kernel', kernel) /\ UNCHANGED <<call, holder, buffer>>
  BY SteadyScheduler DEF queueVars
<1>2. pc' = pc /\ pc[kernel.current] /= "found"
  <2>1. ~ IdleFrees
    BY ControlIs DEF IdleFrees, AllLinked
  <2>2. TickLoops => pc[kernel.current] /= "found"
    BY ControlIs DEF TickLoops, CurrentOK
  <2>3. IdleYields \/ SysTick => Interruptible
    BY DEF IdleYields, At, SysTick
  <2>4. pc' = pc
    BY <2>1 DEF IdleYields, SysTick, TickLoops
  <2> QED
    BY <2>1, <2>2, <2>3, <2>4, InterruptedIs
<1> QED
  BY <1>1, <1>2, CalmKernel

\* PendSV finds the task that is about to take the mutex, or one not below it.
LEMMA PendSVMutex ==
    ASSUME ControlOK, IInv, MutexOK, IsMutex, PendSV, UNCHANGED queueVars
    PROVE  MutexOK'
<1>0. /\ kernel' = Switched(kernel) /\ pc' = pc /\ call' = call /\ holder' = holder
      /\ buffer' = buffer
  BY DEF PendSV, Switched, queueVars
<1>1. /\ Good(Users, kernel') /\ SameRanks(kernel', kernel) /\ kernel'.waiting = kernel.waiting
      /\ \A p \in Priorities : kernel'.ready[p].items = kernel.ready[p].items
      /\ ~ kernel'.pendsv
      /\ IF kernel.locked > 0 THEN kernel'.current = kernel.current /\ kernel'.missed
         ELSE Served(kernel')
  <2>1. PICK q \in Priorities : Idle \in Range(kernel.ready[q].items)
    BY ControlIs DEF AllLinked, Ready
  <2>2. kernel.ready[q].items /= <<>> /\ Good(Users, kernel)
    BY <2>1, ControlIs DEF Range
  <2> QED
    BY <1>0, <2>2, SwitchIs DEF SameRanks
<1>2. /\ Waiters(kernel') = Waiters(kernel) /\ (InOrder(kernel) => InOrder(kernel'))
      /\ \A u \in Tasks : Ready(kernel', u) <=> Ready(kernel, u)
  BY <1>1 DEF Waiters, InOrder, SameRanks, Ready
<1>3. MutexAt(kernel, holder, pc, call) /\ GivenOK(buffer.messages, holder)
  BY MutexIs
<1>4. /\ OwnOK(kernel', holder) /\ LentOK(kernel', holder, pc, call)
  BY <1>1, <1>2, <1>3 DEF MutexAt, OwnOK, LentOK, SameRanks
<1>5. FreeOK(kernel', holder, pc, call)
  <2> SUFFICES ASSUME holder = Nobody
               PROVE  /\ Waiters(kernel') /= {} =>
                            \E t \in Tasks :
                                /\ Ready(kernel', t) /\ call[t].op = "receive" /\ pc[t] \in Taking
                                /\ \A u \in Waiters(kernel') :
                                      kernel'.priority[u] <= kernel'.priority[t]
                      /\ (kernel'.missed => pc[kernel'.current] \notin Locking \cup Resuming) =>
                            \A u \in Waiters(kernel') :
                                kernel'.priority[u] <= kernel'.priority[kernel'.current]
    BY DEF FreeOK
  <2>1. ASSUME Waiters(kernel') /= {}
        PROVE  \E t \in Tasks :
                   /\ Ready(kernel', t) /\ call[t].op = "receive" /\ pc[t] \in Taking
                   /\ \A u \in Waiters(kernel') : kernel'.priority[u] <= kernel'.priority[t]
    BY <1>1, <1>2, <1>3, <2>1 DEF MutexAt, FreeOK, SameRanks
  <2>2. ASSUME kernel'.missed => pc[kernel'.current] \notin Locking \cup Resuming,
               NEW u \in Waiters(kernel')
        PROVE  kernel'.priority[u] <= kernel'.priority[kernel'.current]
    <3>1. ~ (kernel.locked > 0)
      <4> SUFFICES ASSUME kernel.locked > 0 PROVE FALSE
        OBVIOUS
      <4>1. kernel.locked = LockedAt(pc[kernel.current], masked)
        BY ControlIs DEF CurrentOK
      <4>2. pc[kernel.current] \in Locking \cup Resuming
        BY <4>1 DEF LockedAt
      <4> QED
        BY <1>1, <2>2, <4>2
    <3>2. Served(kernel')
      BY <1>1, <3>1
    <3>3. PICK t \in Tasks : Ready(kernel', t) /\ kernel'.priority[u] <= kernel'.priority[t]
      BY <2>1, <2>2
    <3>4. kernel'.priority[t] \in Priorities
          /\ kernel'.ready[kernel'.priority[t]].items /= <<>>
      <4>1. PICK p \in Priorities : t \in Range(kernel'.ready[p].items)
        BY <3>3 DEF Ready
      <4>2. p = kernel'.priority[t]
        BY <1>1, <4>1 DEF Good, Sound, Apart
      <4> QED
        BY <4>1, <4>2 DEF Range
    <3>5. kernel'.priority[t] <= kernel'.priority[kernel'.current]
      BY <3>2, <3>4 DEF Served
    <3>6. /\ kernel'.priority[u] \in Nat /\ kernel'.priority[t] \in Nat
          /\ kernel'.priority[kernel'.current] \in Nat
      <4>1. u \in Tasks
        BY <1>2, <1>3, <2>2, WaitersWait
      <4>2. kernel' \in Kernels
        BY <1>1, GoodIs
      <4> QED
        BY <4>1, <4>2, PrioritiesAre DEF Kernels
    <3> QED
      BY <3>3, <3>5, <3>6
  <2> QED
    BY <2>1, <2>2
<1>6. MutexAt(kernel', holder, pc, call)
  BY <1>2, <1>3, <1>4, <1>5 DEF MutexAt
<1>7. FoundOK(kernel', pc)
  BY <1>1 DEF FoundOK
<1> QED
  BY <1>0, <1>3, <1>6, <1>7 DEF MutexOK

\* A task that waits is not the holder.
LEMMA WaitersAsk ==
    ASSUME ControlOK, MutexAt(kernel, holder, pc, call), NEW u \in Waiters(kernel)
    PROVE  u \in Tasks /\ call[u].op = "receive" /\ u /= holder
<1>1. "toReceive" \in Objects /\ u \in Tasks
  BY WaitersWait, KernelQueueAssumption
<1>2. Suits("toReceive", call[u])
  BY <1>1, ControlIs DEF CallsOK, WaitsAt, Waiters
<1> QED
  BY <1>1, <1>2 DEF Suits, Receivers, MutexAt, RoleAt

\* A change of the holder's priority leaves the event list in order.
LEMMA HolderMoves ==
    ASSUME ControlOK, MutexAt(kernel, holder, pc, call), holder \in Tasks, NEW p \in Priorities
    PROVE  LET j == WithPriority(kernel, holder, p)
           IN  /\ InOrder(j) /\ Waiters(j) = Waiters(kernel)
               /\ \A u \in Tasks \ {holder} : j.priority[u] = kernel.priority[u]
               /\ j.priority[holder] = p /\ j.base = kernel.base
               /\ j.missed = kernel.missed /\ j.pendsv = kernel.pendsv
               /\ j.current = kernel.current
<1> DEFINE j == WithPriority(kernel, holder, p)
<1>1. Good(Users, kernel) /\ kernel \in Kernels /\ "toReceive" \in Objects
  BY ControlIs, KernelQueueAssumption
<1>2. /\ j.priority = [kernel.priority EXCEPT ![holder] = p] /\ j.base = kernel.base
      /\ j.order = [kernel.order EXCEPT ![holder] = MaxPriorities - p]
      /\ j.waiting = kernel.waiting /\ j.missed = kernel.missed /\ j.pendsv = kernel.pendsv
      /\ j.current = kernel.current
  BY <1>1, WithPriorityRanks
<1> HIDE DEF j
<1>3. \A u \in Waiters(kernel) : j.order[u] = kernel.order[u]
  <2>1. \A u \in Waiters(kernel) : u \in Tasks /\ u /= holder
    BY WaitersAsk
  <2> QED
    BY <1>1, <1>2, <2>1 DEF Kernels
<1>4. InOrder(j)
  <2>1. Sorted(kernel.waiting["toReceive"], kernel.order)
    BY DEF MutexAt, InOrder
  <2>2. \A u \in Range(kernel.waiting["toReceive"]) : j.order[u] = kernel.order[u]
    BY <1>3 DEF Waiters
  <2>3. Sorted(kernel.waiting["toReceive"], j.order)
    BY <2>1, <2>2, SortedAgrees
  <2> QED
    BY <1>2, <2>3 DEF InOrder
<1>5. Waiters(j) = Waiters(kernel)
  BY <1>2 DEF Waiters
<1>6. /\ \A u \in Tasks \ {holder} : j.priority[u] = kernel.priority[u]
      /\ j.priority[holder] = p
  BY <1>1, <1>2 DEF Kernels
<1> QED
  BY <1>2, <1>4, <1>5, <1>6 DEF j

\* The priorities of tasks are numbers.
LEMMA RanksAre ==
    ASSUME ControlOK, NEW u \in Tasks
    PROVE  kernel.priority[u] \in Priorities /\ kernel.priority[u] \in Nat
           /\ kernel.base[u] \in Priorities /\ kernel.base[u] \in Nat
BY ControlIs, PrioritiesAre DEF Kernels

\* A task that finds the mutex taken lends its priority and goes to wait.
LEMMA LooksMutex ==
    ASSUME ControlOK, IInv, MutexOK, IsMutex, Looks, Obstructed
    PROVE  MutexOK'
<1> DEFINE m == kernel.current
           j == PriorityInherit(kernel)
           k == PlaceOnEventList(j, "toReceive", Mine.wait)
           e == [Mine EXCEPT !.outcome = "placed", !.inherited = Inherits(kernel)]
           high == kernel.priority[m]
<1>1. At("look") /\ holder' = holder /\ buffer' = buffer
  BY DEF Looks
<1>2. /\ Is("look") /\ Mine \in CallRecords(buffer.length) /\ CallAt("look", Mine)
      /\ ~ kernel.ticking /\ m \in Users /\ ~ Event(kernel, m)
  <2>1. "look" \in Labels /\ "look" /= "idle" /\ "look" \notin Leaving \cup {"yield"}
    BY DEF Labels, Leaving
  <2> QED
    BY <1>1, <2>1, AtIs
<1>3. /\ holder /= Nobody /\ Mine.op = "receive" /\ holder \in Tasks /\ holder /= m /\ m \in Tasks
      /\ MutexAt(kernel, holder, pc, call) /\ GivenOK(buffer.messages, holder)
  <2>1. holder /= Nobody /\ Mine.op = "receive"
    BY <1>2, ObstructedIs DEF CallAt, Working
  <2> QED
    BY <2>1, ControlIs, MutexIs DEF RoleAt, CallsOK
<1>4. Goes(k, "unlock") /\ MyCall(e)
  <2>1. Mine.op \notin Senders
    BY <1>3 DEF Senders
  <2> QED
    BY <2>1 DEF Looks, Blocked
<1>5. /\ e.op = "receive" /\ e.outcome = "placed" /\ e.wait = Mine.wait
      /\ (e.inherited <=> kernel.base[holder] < high)
  BY <1>2, <1>3 DEF CallRecords, Inherits
<1> HIDE DEF e
<1>6. Mine.wait > 0 /\ Mine.wait \in Ticks \ {0}
  BY <1>2 DEF CallAt, CallRecords, Ticks
<1>7. high \in Priorities /\ high \in Nat /\ kernel.base[m] = high
  BY <1>3, RanksAre DEF MutexAt, OwnOK
<1>8. /\ InOrder(j) /\ Waiters(j) = Waiters(kernel) /\ j.base = kernel.base /\ j.current = m
      /\ \A u \in Tasks \ {holder} : j.priority[u] = kernel.priority[u]
      /\ IF kernel.priority[holder] < high THEN j.priority[holder] = high
         ELSE j.priority = kernel.priority
  <2>1. CASE kernel.priority[holder] < high
    <3>1. j = WithPriority(kernel, holder, high)
      BY <1>3, <2>1 DEF PriorityInherit
    <3> HIDE DEF j, high
    <3> QED
      BY <1>3, <1>7, <2>1, <3>1, HolderMoves
  <2>2. CASE ~ (kernel.priority[holder] < high)
    BY <1>3, <2>2 DEF PriorityInherit, MutexAt
  <2> QED
    BY <2>1, <2>2
<1>9. WakesNow(j, kernel)
  BY ControlIs, WakesInherit DEF CallsOK
<1> HIDE DEF j
<1>10. /\ Framed(k, j) /\ Waiters(k) = Waiters(kernel) \cup {m} /\ InOrder(k)
  <2>1. /\ Good(Users, j) /\ AllLinked(j) /\ ~ j.ticking /\ j.current \in Users
        /\ ~ Event(j, j.current) /\ "toReceive" \in Objects
    BY <1>2, <1>3, <1>8, <1>9, KernelQueueAssumption DEF WakesNow, Wakes
  <2>2. /\ Framed(k, j) /\ Range(k.waiting["toReceive"]) = Range(j.waiting["toReceive"]) \cup {j.current}
        /\ Sorted(j.waiting["toReceive"], j.order) => Sorted(k.waiting["toReceive"], j.order)
    BY <1>6, <2>1, PlacedIs
  <2> HIDE DEF k
  <2> QED
    BY <1>8, <2>2 DEF Waiters, InOrder, Framed
<1> HIDE DEF k
<1>11. /\ k.base = kernel.base /\ k.current = m
       /\ \A u \in Tasks \ {holder} : k.priority[u] = kernel.priority[u]
       /\ IF kernel.priority[holder] < high THEN k.priority[holder] = high
          ELSE k.priority = kernel.priority
  BY <1>8, <1>10 DEF Framed
<1>12. /\ pc'[m] = "unlock" /\ \A t \in Tasks \ {m} : pc'[t] = pc[t]
       /\ call'[m] = e /\ \A t \in Tasks \ {m} : call'[t] = call[t]
       /\ kernel' = k
  BY <1>3, <1>4, ControlIs DEF Goes, MyCall, PcOK, CallsOK
<1>13. /\ kernel.base[holder] <= kernel.priority[holder] /\ kernel.priority[holder] <= k.priority[holder]
       /\ high <= k.priority[holder]
       /\ kernel.base[holder] \in Nat /\ kernel.priority[holder] \in Nat /\ k.priority[holder] \in Nat
  <2>1. /\ kernel.base[holder] \in Nat /\ kernel.priority[holder] \in Nat
        /\ kernel.base[holder] <= kernel.priority[holder]
    BY <1>3, RanksAre DEF MutexAt, OwnOK
  <2> HIDE DEF high
  <2> QED
    BY <1>7, <1>11, <2>1
<1>14. OwnOK(k, holder)
  <2> SUFFICES ASSUME NEW t \in Tasks
               PROVE  k.base[t] <= k.priority[t] /\ (t /= holder => k.priority[t] = k.base[t])
    BY DEF OwnOK
  <2>1. CASE t = holder
    BY <1>11, <1>13, <2>1
  <2>2. CASE t /= holder
    BY <1>3, <1>11, <2>2 DEF MutexAt, OwnOK
  <2> QED
    BY <2>1, <2>2
<1>15. LentOK(k, holder, pc', call')
  <2>1. ASSUME NEW u \in Waiters(k)
        PROVE  /\ k.priority[u] <= k.priority[holder]
               /\ k.base[holder] < k.priority[u] => call'[u].inherited
    <3>1. CASE u = m
      BY <1>3, <1>5, <1>11, <1>12, <1>13, <3>1
    <3>2. CASE u /= m
      <4>1. u \in Waiters(kernel)
        BY <1>10, <3>2
      <4>2. u \in Tasks /\ u /= holder /\ kernel.priority[u] \in Nat
        BY <1>3, <4>1, WaitersAsk, RanksAre
      <4>3. /\ kernel.priority[u] <= kernel.priority[holder]
            /\ kernel.base[holder] < kernel.priority[u] => call[u].inherited
        BY <1>3, <4>1 DEF MutexAt, LentOK
      <4>4. k.priority[u] = kernel.priority[u] /\ call'[u] = call[u]
        BY <1>11, <1>12, <3>2, <4>2
      <4> QED
        BY <1>11, <1>13, <4>2, <4>3, <4>4
    <3> QED
      BY <3>1, <3>2
  <2>2. ASSUME k.base[holder] /= k.priority[holder]
        PROVE  \E t \in Tasks : /\ call'[t].inherited /\ k.base[t] = k.priority[holder]
                                /\ pc'[t] = "try" => call'[t].wait > 0
    <3>1. CASE kernel.priority[holder] < high
      <4>1. call'[m].inherited
        BY <1>5, <1>7, <1>12, <1>13, <3>1
      <4>2. k.base[m] = k.priority[holder] /\ pc'[m] /= "try"
        BY <1>7, <1>11, <1>12, <3>1
      <4> QED
        BY <1>3, <4>1, <4>2
    <3>2. CASE ~ (kernel.priority[holder] < high)
      <4>1. k.priority = kernel.priority
        BY <1>11, <3>2
      <4>2. PICK t \in Tasks : /\ call[t].inherited /\ kernel.base[t] = kernel.priority[holder]
                               /\ pc[t] = "try" => call[t].wait > 0
        BY <1>3, <1>11, <2>2, <4>1 DEF MutexAt, LentOK
      <4>3. CASE t /= m
        BY <1>11, <1>12, <4>1, <4>2, <4>3
      <4>4. CASE t = m
        <5>1. kernel.base[holder] < high
          BY <1>7, <1>11, <1>13, <2>2, <4>1, <4>2, <4>4
        <5> QED
          BY <1>5, <1>11, <1>12, <4>1, <4>2, <4>4, <5>1
      <4> QED
        BY <4>3, <4>4
    <3> QED
      BY <3>1, <3>2
  <2> QED
    BY <2>1, <2>2 DEF LentOK
<1>16. \A t \in Tasks : RoleAt(t, holder, pc'[t], call'[t]) /\ WaitAt(call'[t])
  <2>1. RoleAt(m, holder, pc'[m], call'[m]) /\ WaitAt(call'[m])
    BY <1>3, <1>5, <1>6, <1>12 DEF RoleAt, WaitAt
  <2> QED
    BY <1>3, <1>12, <2>1 DEF MutexAt
<1>17. FreeOK(k, holder, pc', call') /\ FoundOK(k, pc')
  BY <1>3, <1>11, <1>12 DEF FreeOK, FoundOK
<1> QED
  BY <1>1, <1>3, <1>10, <1>12, <1>14, <1>15, <1>16, <1>17 DEF MutexOK, MutexAt

\* Of those that wait the first is of the highest priority.
LEMMA FirstIsHighest ==
    ASSUME NEW k, Good(Users, k), OrderOK(k), InOrder(k), Waiters(k) /= {}
    PROVE  LET v == Head(k.waiting["toReceive"])
           IN  /\ v \in Waiters(k) /\ HighestWaiting(k) = k.priority[v]
               /\ \A u \in Waiters(k) : k.priority[u] <= k.priority[v]
<1> DEFINE s == k.waiting["toReceive"]
           v == Head(s)
<1>1. /\ k \in Kernels /\ s \in Seq(Tasks) /\ s /= <<>>
      /\ Range(s) \subseteq Tasks
  <2>1. "toReceive" \in Objects /\ k \in Kernels
    BY KernelQueueAssumption, GoodIs
  <2>2. s /= <<>>
    BY DEF Waiters, Range
  <2> QED
    BY <2>1, <2>2, GoodIs DEF Users
<1>2. \A u \in Tasks :
          /\ k.order[u] \in Nat /\ k.priority[u] \in Nat
          /\ k.order[u] = MaxPriorities - k.priority[u]
  BY <1>1, PrioritiesAre DEF Kernels, OrderOK
<1> HIDE DEF s
<1>3. v \in Range(s)
  BY <1>1, HeadIsLeast
<1>4. \A u \in Range(s) : k.order[v] <= k.order[u]
  <2>1. Sorted(s, k.order)
    BY DEF InOrder, s
  <2> QED
    BY <1>1, <1>2, <2>1, HeadIsLeast
<1> HIDE DEF v
<1>5. \A u \in Range(s) : k.priority[u] <= k.priority[v]
  <2> TAKE u \in Range(s)
  <2>1. u \in Tasks /\ v \in Tasks /\ k.order[v] <= k.order[u]
    BY <1>1, <1>3, <1>4
  <2> QED
    BY <1>2, <2>1, SchedulerAssumption
<1>6. HighestWaiting(k) = k.priority[v]
  <2>1. HighestWaiting(k) = MaxPriorities - k.order[v]
    BY <1>1 DEF HighestWaiting, s, v
  <2>2. v \in Tasks
    BY <1>1, <1>3
  <2> QED
    BY <1>2, <2>1, <2>2, SchedulerAssumption
<1> QED
  BY <1>3, <1>5, <1>6 DEF Waiters, s, v

\* A task that stops to wait takes back what it has lent: the holder keeps the priority
\* of the first of those that still wait.
LEMMA ExpiresMutex ==
    ASSUME ControlOK, OrderOK(kernel), IInv, MutexOK, IsMutex, Expires,
           ~ (Mine.op \in Receivers /\ ~ IsEmpty), Mine.inherited
    PROVE  MutexOK'
<1> DEFINE m == kernel.current
           a == HighestWaiting(kernel)
           b == kernel.base[holder]
           p == Max({a, b})
           j == DisinheritAfterTimeout(kernel)
           k == Returned(j)
<1>1. At("late") /\ holder' = holder /\ buffer' = buffer
  BY DEF Expires
<1>2. Is("late") /\ CallAt("late", Mine) /\ ~ Event(kernel, m) /\ m \in Tasks
  <2>1. "late" \in Labels /\ "late" \notin Leaving \cup {"yield"}
    BY DEF Labels, Leaving
  <2> QED
    BY <1>1, <2>1, AtIs, ControlIs
<1>3. Goes(k, "run") /\ MyCall(NoCall)
  BY DEF Expires, Returns, Returned
<1>4. /\ MutexAt(kernel, holder, pc, call) /\ GivenOK(buffer.messages, holder)
      /\ Mine.op = "receive" /\ holder /= Nobody /\ holder \in Tasks /\ holder /= m
  <2>1. RoleAt(m, holder, "late", Mine) /\ Mine.op /= "none"
    BY <1>2, MutexIs DEF Is, CallAt, Working
  <2>2. Mine.op = "receive"
    BY <2>1 DEF RoleAt
  <2>3. holder /= Nobody
    BY <2>2, MutexIs
  <2> QED
    BY <2>1, <2>2, <2>3, MutexIs, ControlIs DEF RoleAt, CallsOK
<1>5. a \in Priorities /\ b \in Priorities /\ a \in Nat /\ b \in Nat
  BY <1>4, ControlIs, HighestIs, RanksAre, PrioritiesAre
<1>6. p \in {a, b} /\ a <= p /\ b <= p
  <2> HIDE DEF a, b
  <2>1. \E x \in {a, b} : \A y \in {a, b} : x >= y
    BY <1>5
  <2>2. p \in {a, b} /\ \A y \in {a, b} : p >= y
    BY <2>1 DEF Max
  <2> QED
    BY <1>5, <2>2
<1>7. j = IF kernel.priority[holder] /= p THEN WithPriority(kernel, holder, p) ELSE kernel
  BY <1>4 DEF DisinheritAfterTimeout, HighestWaiting
<1>8. p \in Priorities /\ p \in Nat
  BY <1>5, <1>6
<1> HIDE DEF p, a, b, j
<1>9. /\ InOrder(j) /\ Waiters(j) = Waiters(kernel) /\ j.base = kernel.base /\ j.current = m
      /\ \A u \in Tasks \ {holder} : j.priority[u] = kernel.priority[u]
      /\ j.priority[holder] = p
  <2>1. CASE kernel.priority[holder] /= p
    BY <1>4, <1>7, <1>8, <2>1, HolderMoves
  <2>2. CASE kernel.priority[holder] = p
    BY <1>4, <1>7, <2>2 DEF MutexAt
  <2> QED
    BY <2>1, <2>2
<1>10. Steady(k, j)
  <2>1. Good(Users, j)
    BY ControlIs, WakesDisinherit DEF CallsOK, WakesNow, Wakes, j
  <2> QED
    BY <2>1, GoodIs, SteadyReturned
<1> HIDE DEF k
<1>11. /\ InOrder(k) /\ Waiters(k) \subseteq Waiters(kernel) /\ k.base = kernel.base
       /\ k.current = m /\ k.priority[holder] = p
       /\ \A u \in Tasks \ {holder} : k.priority[u] = kernel.priority[u]
  BY <1>9, <1>10 DEF Steady, SameRanks
<1>12. /\ pc'[m] = "run" /\ \A t \in Tasks \ {m} : pc'[t] = pc[t]
       /\ call'[m] = NoCall /\ \A t \in Tasks \ {m} : call'[t] = call[t]
       /\ kernel' = k
  BY <1>2, <1>3, ControlIs DEF Goes, MyCall, PcOK, CallsOK
<1>13. OwnOK(k, holder)
  <2> SUFFICES ASSUME NEW t \in Tasks
               PROVE  k.base[t] <= k.priority[t] /\ (t /= holder => k.priority[t] = k.base[t])
    BY DEF OwnOK
  <2>1. CASE t = holder
    BY <1>6, <1>11, <2>1 DEF b
  <2>2. CASE t /= holder
    BY <1>4, <1>11, <2>2 DEF MutexAt, OwnOK
  <2> QED
    BY <2>1, <2>2
<1>14. \A u \in Waiters(kernel) :
           /\ u \in Tasks /\ u /= holder /\ u /= m /\ call[u].wait > 0
           /\ kernel.priority[u] \in Nat /\ kernel.base[u] = kernel.priority[u]
           /\ kernel.priority[u] <= a
           /\ b < kernel.priority[u] => call[u].inherited
  <2> TAKE u \in Waiters(kernel)
  <2>1. u \in Tasks /\ u /= holder /\ call[u].wait > 0
    BY <1>4, WaitersAsk, WaitersWait
  <2>2. u /= m
    BY <1>2, KernelQueueAssumption DEF Event, Waiters
  <2>3. kernel.priority[u] \in Nat /\ kernel.base[u] = kernel.priority[u]
    BY <1>4, <2>1, RanksAre DEF MutexAt, OwnOK
  <2>4. kernel.priority[u] <= a
    BY <1>4, ControlIs, FirstIsHighest DEF MutexAt, a
  <2>5. b < kernel.priority[u] => call[u].inherited
    BY <1>4 DEF MutexAt, LentOK, b
  <2> QED
    BY <2>1, <2>2, <2>3, <2>4, <2>5
<1>15. LentOK(k, holder, pc', call')
  <2>1. ASSUME NEW u \in Waiters(k)
        PROVE  /\ k.priority[u] <= k.priority[holder]
               /\ k.base[holder] < k.priority[u] => call'[u].inherited
    <3>1. u \in Waiters(kernel)
      BY <1>11
    <3>2. /\ u \in Tasks /\ u /= holder /\ u /= m /\ kernel.priority[u] \in Nat
          /\ kernel.priority[u] <= a /\ (b < kernel.priority[u] => call[u].inherited)
      BY <1>14, <3>1
    <3>3. k.priority[u] = kernel.priority[u] /\ call'[u] = call[u]
      BY <1>11, <1>12, <3>2
    <3> QED
      BY <1>5, <1>6, <1>8, <1>11, <3>2, <3>3 DEF b
  <2>2. ASSUME k.base[holder] /= k.priority[holder]
        PROVE  \E t \in Tasks : /\ call'[t].inherited /\ k.base[t] = k.priority[holder]
                                /\ pc'[t] = "try" => call'[t].wait > 0
    <3>1. p = a /\ b < a
      BY <1>5, <1>6, <1>11, <2>2 DEF b
    <3>2. Waiters(kernel) /= {}
      <4>1. kernel.waiting["toReceive"] /= <<>>
        BY <1>5, <3>1 DEF a, HighestWaiting
      <4>2. kernel.waiting["toReceive"] \in Seq(Tasks)
        BY ControlIs, KernelQueueAssumption DEF Kernels
      <4> QED
        BY <4>1, <4>2, NothingIn DEF Waiters
    <3>3. PICK u \in Waiters(kernel) : a = kernel.priority[u]
      BY <1>4, <3>2, ControlIs, FirstIsHighest DEF MutexAt, a
    <3>4. /\ u \in Tasks /\ u /= m /\ call[u].wait > 0 /\ kernel.base[u] = kernel.priority[u]
          /\ call[u].inherited
      BY <1>14, <3>1, <3>3
    <3> QED
      BY <1>11, <1>12, <3>1, <3>3, <3>4
  <2> QED
    BY <2>1, <2>2 DEF LentOK
<1>16. \A t \in Tasks : RoleAt(t, holder, pc'[t], call'[t]) /\ WaitAt(call'[t])
  <2>1. NoCall.op = "none" /\ NoCall.outcome = "none"
    BY DEF NoCall, CallOf
  <2>2. RoleAt(m, holder, pc'[m], call'[m]) /\ WaitAt(call'[m])
    BY <1>12, <2>1 DEF RoleAt, WaitAt
  <2> QED
    BY <1>4, <1>12, <2>2 DEF MutexAt
<1>17. FreeOK(k, holder, pc', call') /\ FoundOK(k, pc')
  BY <1>4, <1>11, <1>12 DEF FreeOK, FoundOK
<1> QED
  BY <1>1, <1>4, <1>11, <1>12, <1>13, <1>15, <1>16, <1>17 DEF MutexOK, MutexAt

\* The holder gives the mutex and falls back to its own priority; the first of those that
\* wait goes on, before the holder if it is of a higher one.
LEMMA SendsMutex ==
    ASSUME ControlOK, OrderOK(kernel), IInv, MutexOK, IsMutex, Sends
    PROVE  MutexOK'
<1> DEFINE m == kernel.current
           i == PriorityDisinherit(kernel)
           j == IF i.waiting["toReceive"] = <<>> THEN YieldingIf(i, i /= kernel)
                ELSE WakeAndYield(i, "toReceive")
           k == Returned(j)
<1>1. /\ At("try") /\ Mine.op \in Senders /\ buffer' = Copied(buffer, Mine) /\ holder' = Nobody
      /\ Returns(j)
  BY DEF Sends
<1>2. Goes(k, "run") /\ MyCall(NoCall)
  BY <1>1 DEF Returns, Returned
<1>3. /\ MutexAt(kernel, holder, pc, call) /\ m \in Tasks /\ Mine.op = "back" /\ holder = m
      /\ m /= Nobody /\ buffer.messages = 0
  <2>1. Mine.op = "back" /\ RoleAt(m, holder, pc[m], Mine)
    BY <1>1, MutexIs
  <2>2. holder = m /\ m \in Tasks /\ m /= Nobody
    BY <2>1, MutexIs, KernelQueueAssumption DEF RoleAt
  <2> QED
    BY <2>1, <2>2, MutexIs DEF IsEmpty
<1>4. kernel.locked = 0
  <2>1. "try" \in Labels /\ LockedAt("try", FALSE) = 0
    BY DEF Labels, LockedAt, Locking, Resuming
  <2> QED
    BY <1>1, <2>1, AtIs
<1>5. IsMutex' /\ GivenOK(buffer'.messages, Nobody)
  <2>1. buffer' = [buffer EXCEPT !.messages = @ + 1]
    BY <1>1, <1>3 DEF Copied, CopyToBack, IsMutex
  <2>2. IsBuffer(buffer)
    BY DEF IInv, Ring
  <2>3. buffer'.messages = 1 /\ buffer'.kind = buffer.kind
    BY <1>3, <2>1, <2>2 DEF IsBuffer
  <2> QED
    BY <2>3 DEF GivenOK, IsMutex
<1>6. /\ InOrder(i) /\ Waiters(i) = Waiters(kernel) /\ i.base = kernel.base /\ i.current = m
      /\ \A u \in Tasks \ {m} : i.priority[u] = kernel.priority[u]
      /\ i.priority[m] = kernel.base[m]
  <2>1. CASE kernel.priority[m] /= kernel.base[m]
    <3>1. i = WithPriority(kernel, holder, kernel.base[m]) /\ kernel.base[m] \in Priorities
      BY <1>3, <2>1, RanksAre DEF PriorityDisinherit
    <3> HIDE DEF i
    <3> QED
      BY <1>3, <3>1, HolderMoves
  <2>2. CASE kernel.priority[m] = kernel.base[m]
    BY <1>3, <2>2 DEF PriorityDisinherit, MutexAt
  <2> QED
    BY <2>1, <2>2
<1>7. Good(Users, i) /\ AllLinked(i) /\ OrderOK(i) /\ i \in Kernels /\ i.locked = 0
  <2>1. /\ WakesNow(i, kernel) /\ OrderOK(i)
    BY <1>3, RanksAre, ControlIs, WakesItself, WakesWithPriority, WithPriorityRanks
       DEF PriorityDisinherit
  <2> HIDE DEF i
  <2> QED
    BY <1>4, <2>1, GoodIs DEF WakesNow, Wakes
<1> HIDE DEF i
<1>8. Steady(j, i) /\ j \in Kernels
  <2>1. CASE i.waiting["toReceive"] = <<>>
    BY <1>7, <2>1, SteadySame DEF YieldingIf, SameRanks, Kernels
  <2>2. CASE i.waiting["toReceive"] /= <<>>
    BY <1>7, <2>2, SteadyWakes, WakesAndYields, GoodIs, KernelQueueAssumption DEF WakesNow, Wakes
  <2> QED
    BY <2>1, <2>2
<1>9. Steady(k, j)
  <2> HIDE DEF j
  <2> QED
    BY <1>8, SteadyReturned
<1>10. Steady(k, i)
  BY <1>8, <1>9, SteadyFollows
<1>11. /\ pc'[m] = "run" /\ \A t \in Tasks \ {m} : pc'[t] = pc[t]
       /\ call'[m] = NoCall /\ \A t \in Tasks \ {m} : call'[t] = call[t]
       /\ kernel' = k
  BY <1>2, <1>3, ControlIs DEF Goes, MyCall, PcOK, CallsOK
<1>12. /\ k.base = kernel.base /\ k.priority = i.priority /\ k.current = m /\ InOrder(k)
       /\ Waiters(k) \subseteq Waiters(i)
  BY <1>6, <1>10 DEF Steady, SameRanks
<1>13. OwnOK(k, Nobody)
  <2> SUFFICES ASSUME NEW t \in Tasks
               PROVE  k.base[t] <= k.priority[t] /\ k.priority[t] = k.base[t]
    BY DEF OwnOK
  <2>1. k.priority[t] = k.base[t]
    BY <1>3, <1>6, <1>12 DEF MutexAt, OwnOK
  <2>2. k.base[t] \in Nat
    BY <1>12, RanksAre
  <2> QED
    BY <2>1, <2>2
<1>14. \A t \in Tasks : RoleAt(t, Nobody, pc'[t], call'[t]) /\ WaitAt(call'[t])
  <2>1. NoCall.op = "none" /\ NoCall.outcome = "none"
    BY DEF NoCall, CallOf
  <2>2. RoleAt(m, Nobody, pc'[m], call'[m]) /\ WaitAt(call'[m])
    BY <1>11, <2>1 DEF RoleAt, WaitAt
  <2> QED
    BY <1>3, <1>11, <2>2, KernelQueueAssumption DEF MutexAt, RoleAt
<1>15. FreeOK(k, Nobody, pc', call')
  <2>1. CASE Waiters(i) = {}
    BY <1>12, <2>1 DEF FreeOK
  <2>2. CASE Waiters(i) /= {}
    <3> DEFINE v == Head(i.waiting["toReceive"])
    <3>1. i.waiting["toReceive"] /= <<>> /\ "toReceive" \in Objects
      BY <2>2, KernelQueueAssumption DEF Waiters, Range
    <3>2. v \in Waiters(i) /\ \A u \in Waiters(i) : i.priority[u] <= i.priority[v]
      BY <1>6, <1>7, <2>2, FirstIsHighest
    <3>3. j = YieldingIf(Wake(i, "toReceive"), WakeHigher(i, "toReceive"))
          /\ Wake(i, "toReceive") = RemoveFromEventList(i, "toReceive")
      BY <3>1 DEF WakeAndYield, Wake
    <3>4. Ready(RemoveFromEventList(i, "toReceive"), v)
      <4>1. \A u \in Tasks : Linked(i, u)
        BY <1>7 DEF AllLinked
      <4> QED
        BY <1>7, <3>1, <4>1, RemovedIs
    <3>5. /\ j.ready = RemoveFromEventList(i, "toReceive").ready
          /\ WakeHigher(i, "toReceive") => j.pendsv
      <4>1. Wake(i, "toReceive") \in Kernels
        BY <1>7, <3>1, WakesFirst, GoodIs DEF WakesNow, Wakes
      <4>2. WakeHigher(i, "toReceive") \in BOOLEAN
        BY DEF WakeHigher, WakesHigher
      <4> HIDE DEF j
      <4> QED
        BY <3>3, <4>1, <4>2, YieldsIs DEF Asked, SameLists
    <3>6. i.priority[v] > i.priority[m] => j.pendsv
      BY <1>6, <3>1, <3>5 DEF WakeHigher, WakesHigher
    <3> HIDE DEF v, j
    <3>7. v \in Tasks /\ v /= m /\ call[v].op = "receive"
      BY <1>3, <1>6, <3>2, WaitersAsk
    <3>8. pc[v] \in {"yield", "try"}
      <4>1. Event(kernel, v)
        BY <1>6, <3>1, <3>2 DEF Event, Waiters
      <4>2. pc[v] \in Leaving \cup {"yield", "try"}
        BY <3>7, <4>1, ControlIs DEF CallsOK, WaitsAt
      <4>3. pc[v] \notin Leaving
        BY <3>7, ControlIs DEF CurrentOK, Leaving, Locking, Resuming
      <4> QED
        BY <4>2, <4>3
    <3>9. Ready(k, v)
      BY <1>9, <3>4, <3>5, <3>7, <3>8 DEF Steady, Ready
    <3>10. call'[v].op = "receive" /\ pc'[v] \in Taking
      BY <1>11, <3>7, <3>8 DEF Taking
    <3>11. \A u \in Waiters(k) : k.priority[u] <= k.priority[v]
      BY <1>12, <3>2
    <3>12. ASSUME ~ k.pendsv, NEW u \in Waiters(k)
           PROVE  k.priority[u] <= k.priority[k.current]
      <4>1. ~ j.pendsv
        BY <1>9, <3>12 DEF Steady
      <4>2. ~ (i.priority[v] > i.priority[m])
        BY <3>6, <4>1
      <4>3. i.priority[u] <= i.priority[v]
        BY <1>12, <3>2, <3>12
      <4>4. u \in Tasks
        BY <1>3, <1>6, <1>12, <3>12, WaitersAsk
      <4>5. i.priority[u] \in Nat /\ i.priority[v] \in Nat /\ i.priority[m] \in Nat
        BY <1>3, <1>7, <3>7, <4>4, PrioritiesAre DEF Kernels
      <4> QED
        BY <1>12, <4>2, <4>3, <4>5
    <3> QED
      BY <3>7, <3>9, <3>10, <3>11, <3>12 DEF FreeOK
  <2> QED
    BY <2>1, <2>2
<1>16. LentOK(k, Nobody, pc', call') /\ FoundOK(k, pc')
  BY <1>11, <1>12 DEF LentOK, FoundOK
<1> QED
  BY <1>1, <1>5, <1>11, <1>12, <1>13, <1>14, <1>15, <1>16 DEF MutexOK, MutexAt

\* The task that takes the mutex is not below those that wait.
LEMMA ReceivesMutex ==
    ASSUME ControlOK, IInv, MutexOK, IsMutex, Receives
    PROVE  MutexOK'
<1> DEFINE m == kernel.current
           j == WakeAndYield(kernel, "toSend")
           k == Returned(j)
<1>1. /\ Is("found") /\ Mine.op = "receive" /\ holder' = m /\ Goes(k, "run") /\ MyCall(NoCall)
      /\ buffer' = CopyFrom(buffer, Mine.loaded - 1)
  BY DEF Receives, Returns, Returned
<1>2. /\ MutexAt(kernel, holder, pc, call) /\ m \in Tasks /\ m /= Nobody
      /\ pc[m] = "found" /\ ~ kernel.pendsv
  BY <1>1, MutexIs, KernelQueueAssumption DEF Is, FoundOK, MutexOK
<1>3. Mine.loaded = 1 /\ buffer.messages = 1 /\ holder = Nobody
  <2>1. Mine.loaded = buffer.messages /\ buffer.messages > 0
    BY <1>2 DEF IInv, CountIsFresh, Mine
  <2>2. GivenOK(buffer.messages, holder)
    BY MutexIs
  <2> QED
    BY <2>1, <2>2 DEF GivenOK
<1>4. IsMutex' /\ GivenOK(buffer'.messages, m)
  <2>1. buffer' = [buffer EXCEPT !.messages = 0] /\ IsBuffer(buffer)
    BY <1>1, <1>3 DEF CopyFrom, IsMutex, IInv, Ring
  <2>2. buffer'.messages = 0 /\ buffer'.kind = buffer.kind
    BY <2>1 DEF IsBuffer
  <2> QED
    BY <1>2, <2>2 DEF GivenOK, IsMutex
<1>5. Steady(k, kernel)
  <2>1. Good(Users, j) /\ Steady(j, kernel)
    BY ControlIs, SteadyWakes, WakesAndYields, KernelQueueAssumption DEF WakesNow, Wakes
  <2> HIDE DEF j
  <2> QED
    BY <2>1, GoodIs, SteadyReturned, SteadyFollows
<1> HIDE DEF k, j
<1>6. /\ pc'[m] = "run" /\ \A t \in Tasks \ {m} : pc'[t] = pc[t]
      /\ call'[m] = NoCall /\ \A t \in Tasks \ {m} : call'[t] = call[t]
      /\ kernel' = k
  BY <1>1, <1>2, ControlIs DEF Goes, MyCall, PcOK, CallsOK
<1>7. /\ k.base = kernel.base /\ k.priority = kernel.priority /\ k.current = m
      /\ InOrder(k) /\ Waiters(k) \subseteq Waiters(kernel)
  BY <1>2, <1>5 DEF Steady, SameRanks, MutexAt
<1>8. \A t \in Tasks : k.priority[t] = k.base[t] /\ k.base[t] \in Nat
  BY <1>2, <1>3, <1>7, RanksAre, KernelQueueAssumption DEF MutexAt, OwnOK
<1>9. OwnOK(k, m)
  BY <1>8 DEF OwnOK
<1>10. LentOK(k, m, pc', call')
  <2>1. \A u \in Waiters(kernel) : kernel.priority[u] <= kernel.priority[m]
    <3>1. pc[m] \notin Locking \cup Resuming
      BY <1>2 DEF Locking, Resuming
    <3> QED
      BY <1>2, <1>3, <3>1 DEF MutexAt, FreeOK
  <2>2. ASSUME NEW u \in Waiters(k)
        PROVE  k.priority[u] <= k.priority[m] /\ ~ (k.base[m] < k.priority[u])
    <3>1. u \in Tasks
      BY <1>2, <1>7, <2>2, WaitersWait
    <3>2. k.priority[u] <= k.priority[m]
      BY <1>7, <2>1, <2>2
    <3> QED
      BY <1>2, <1>8, <3>1, <3>2
  <2> QED
    BY <1>2, <1>8, <2>2 DEF LentOK
<1>11. \A t \in Tasks : RoleAt(t, m, pc'[t], call'[t]) /\ WaitAt(call'[t])
  <2>1. NoCall.op = "none" /\ NoCall.outcome = "none"
    BY DEF NoCall, CallOf
  <2>2. RoleAt(m, m, pc'[m], call'[m]) /\ WaitAt(call'[m])
    BY <1>6, <2>1 DEF RoleAt, WaitAt
  <2> QED
    BY <1>2, <1>3, <1>6, <2>2, KernelQueueAssumption DEF MutexAt, RoleAt
<1>12. FreeOK(k, m, pc', call') /\ FoundOK(k, pc')
  BY <1>2, <1>6, <1>7 DEF FreeOK, FoundOK
<1> QED
  BY <1>1, <1>4, <1>6, <1>7, <1>9, <1>10, <1>11, <1>12 DEF MutexOK, MutexAt

-----------------------------------------------------------------------------
LEMMA MutexStep ==
    ASSUME BlockingInv, MutexOK, Masked = TRUE, [KernelQueueNext]_kernelQueueVars
    PROVE  MutexOK'
<1>1. ControlOK /\ OrderOK(kernel) /\ IInv
  BY DEF BlockingInv
<1>2. buffer'.kind = buffer.kind
  <2>1. CASE CallSteps
    BY <1>1, <2>1, ShapeKept
  <2>2. CASE buffer' = buffer
    BY <2>2
  <2> QED
    BY <2>1, <2>2 DEF KernelQueueNext, kernelQueueVars, queueVars
<1>3. CASE ~ IsMutex
  BY <1>2, <1>3 DEF MutexOK, IsMutex
<1>4. CASE IsMutex
  <2>1. CASE CallSteps
    <3>1. ~ (Peeks \/ Resets \/ SendFromISR \/ GiveFromISR \/ ReceiveFromISR)
      <4>1. ~ Peeks
        BY <1>1, <1>4, MutexIs DEF Peeks, RoleAt
      <4> QED
        BY <1>4, <4>1 DEF IsMutex, Resets, SendFromISR, GiveFromISR, ReceiveFromISR
    <3>2. CASE Calls \/ Counts \/ GivesUp \/ StartsToWait
      BY <1>1, <1>4, <3>2, CallsCalm, CountsCalm, GivesUpCalm, StartsToWaitCalm
    <3>3. CASE Suspends \/ Locks \/ UnlocksTx \/ UnlocksRx \/ Resumes
      BY <1>1, <1>4, <3>3, SuspendsCalm, LocksCalm, UnlocksCalm, ResumesCalm
    <3>4. CASE Sends \/ Receives
      BY <1>1, <1>4, <3>4, SendsMutex, ReceivesMutex
    <3>5. CASE Looks
      BY <1>1, <1>4, <3>5, LooksAgainCalm, LooksMutex
    <3>6. CASE Expires
      BY <1>1, <1>4, <3>6, ExpiresCalm, ExpiresMutex
    <3> QED
      BY <2>1, <3>1, <3>2, <3>3, <3>4, <3>5, <3>6 DEF CallSteps
  <2>2. CASE vTaskDelay /\ UNCHANGED queueVars
    BY <1>1, <1>4, <2>2, DelayCalm
  <2>3. CASE SchedulerNext /\ UNCHANGED queueVars
    BY <1>1, <1>4, <2>3, SchedulerCalm, PendSVMutex DEF SchedulerNext
  <2>4. CASE UNCHANGED kernelQueueVars
    BY <2>4 DEF kernelQueueVars, taskServicesVars, schedulerVars, queueVars, MutexOK, IsMutex
  <2> QED
    BY <2>1, <2>2, <2>3, <2>4 DEF KernelQueueNext
<1> QED
  BY <1>3, <1>4

LEMMA MutexStart ==
    ASSUME KernelQueueInit
    PROVE  MutexOK
<1> SUFFICES ASSUME IsMutex
             PROVE  /\ GivenOK(buffer.messages, holder) /\ FoundOK(kernel, pc)
                    /\ MutexAt(kernel, holder, pc, call)
  BY DEF MutexOK
<1>1. /\ SchedulerInit /\ holder = Nobody /\ call = [t \in Tasks |-> NoCall]
  BY DEF KernelQueueInit, TaskServicesInit
<1>2. NoCall.op = "none" /\ NoCall.outcome = "none"
  BY DEF NoCall, CallOf
<1>3. /\ \A t \in Tasks : kernel.priority[t] = kernel.base[t] /\ kernel.base[t] \in Nat
      /\ \A o \in Objects : kernel.waiting[o] = <<>>
      /\ ~ kernel.pendsv
  BY <1>1, StartIs, PrioritiesAre DEF Kernels
<1>4. kernel.waiting["toReceive"] = <<>> /\ Waiters(kernel) = {}
  BY <1>3, KernelQueueAssumption DEF Waiters, Range
<1>5. GivenOK(buffer.messages, holder)
  <2>1. PICK shape \in QueueShapes :
            buffer = IF shape.kind = "mutex" THEN CopyToBack(Empty(shape), Token) ELSE Empty(shape)
    BY DEF KernelQueueInit
  <2>2. Empty(shape).kind = shape.kind /\ Empty(shape).messages = 0
    BY DEF Empty
  <2>3. shape.kind = "mutex"
    BY <2>1, <2>2 DEF IsMutex
  <2>4. buffer.messages = 1
    BY <2>1, <2>2, <2>3 DEF CopyToBack, Empty
  <2> QED
    BY <1>1, <2>4 DEF GivenOK
<1>6. InOrder(kernel) /\ OwnOK(kernel, holder)
  BY <1>3, <1>4 DEF InOrder, Sorted, OwnOK
<1>7. LentOK(kernel, holder, pc, call) /\ FreeOK(kernel, holder, pc, call)
  BY <1>1, <1>4 DEF LentOK, FreeOK
<1>8. \A t \in Tasks : RoleAt(t, holder, pc[t], call[t]) /\ WaitAt(call[t])
  BY <1>1, <1>2 DEF RoleAt, WaitAt
<1> QED
  BY <1>3, <1>5, <1>6, <1>7, <1>8 DEF FoundOK, MutexAt

\* A mutex is given or has a holder; its holder runs at no lower a priority than any task
\* that waits for it, and at a higher one than its own only while a task that lent it is in
\* its call; every other task runs at its own, whatever the orders in which tasks take, give,
\* wait and stop to wait (queue.c:1524-1580, tasks.c:3801-4063).
THEOREM PriorityAlwaysInherited ==
    ASSUME Masked = TRUE
    PROVE  KernelQueueSpec => []PriorityIsInherited
<1>1. KernelQueueInit => MutexOK
  BY MutexStart
<1>2. BlockingInv /\ MutexOK /\ [KernelQueueNext]_kernelQueueVars => MutexOK'
  BY MutexStep
<1>3. BlockingInv /\ MutexOK => PriorityIsInherited
  <2> SUFFICES ASSUME BlockingInv, MutexOK, IsMutex
               PROVE  /\ ~ masked => (IsEmpty <=> holder /= Nobody)
                      /\ \A t \in Tasks \ {holder} : kernel.priority[t] = kernel.base[t]
                      /\ holder /= Nobody =>
                            \A t \in Waiters(kernel) : kernel.priority[holder] >= kernel.priority[t]
                      /\ holder /= Nobody /\ kernel.priority[holder] /= kernel.base[holder] =>
                            \E t \in Tasks :
                                call[t].inherited /\ kernel.base[t] = kernel.priority[holder]
    BY DEF PriorityIsInherited, Waiters
  <2>1. /\ ControlOK /\ MutexAt(kernel, holder, pc, call) /\ (IsEmpty <=> holder /= Nobody)
    BY MutexIs DEF BlockingInv
  <2>2. ASSUME holder /= Nobody, NEW t \in Waiters(kernel)
        PROVE  kernel.priority[holder] >= kernel.priority[t]
    <3>1. t \in Tasks /\ holder \in Tasks
      BY <2>1, <2>2, WaitersWait, ControlIs DEF CallsOK
    <3>2. kernel.priority[t] <= kernel.priority[holder]
      BY <2>1, <2>2 DEF MutexAt, LentOK
    <3> QED
      BY <2>1, <3>1, <3>2, RanksAre
  <2> QED
    BY <2>1, <2>2 DEF MutexAt, OwnOK, LentOK
<1> QED
  BY <1>1, <1>2, <1>3, BlockingInvariant, PTL DEF KernelQueueSpec

-----------------------------------------------------------------------------
\* The wake-ups.  The list of an object, what its calls do, and what they find.
Doers(o) == IF o = "toSend" THEN Senders ELSE Receivers
Room(o) == IF o = "toSend" THEN buffer.length - buffer.messages ELSE buffer.messages

\* What interrupts have done while the queue was locked, for those on the list.
Recorded(o) ==
    LET lock == IF o = "toSend" THEN rx_lock ELSE tx_lock
    IN  IF lock = Unlocked THEN 0 ELSE lock

\* A task is on its way to look at the queue again; it has left the event list, or
\* has not been on it.
Along(o, l, c) ==
    /\ c.op \in Doers(o)
    /\ l \in Taking \/ (l \in Leaving /\ c.outcome \in {"placed", "again"})

Coming(o) == {t \in Tasks : Along(o, pc[t], call[t]) /\ t \notin Range(kernel.waiting[o])}

\* While tasks wait, as many come, or are still to be woken, as find something.
Owed(o) == Room(o) - Recorded(o)
Counted(o) == kernel.waiting[o] /= <<>> => Owed(o) <= Cardinality(Coming(o))
AllCounted(S) == S \subseteq {"toReceive", "toSend"} /\ \A o \in S : Counted(o)

\* A step that changes what is owed from a to b, where n tasks stop to come and m are
\* woken.
Pays(b, a, n, m) == a \in Int /\ b \in Int /\ b + n <= a + m

WokenFrom(k, o) == Range(k.waiting[o]) \ Range(kernel'.waiting[o])
Wakens(o, m) == kernel'.waiting[o] /= <<>> => m <= Cardinality(WokenFrom(kernel, o))

LEMMA RangeIsFinite ==
    ASSUME NEW S, IsFiniteSet(S), NEW T, NEW f \in [S -> T]
    PROVE  /\ IsFiniteSet(Range(f))
           /\ IsInjective(f) => Cardinality(Range(f)) = Cardinality(S)
<1>1. f \in [S -> Range(f)] /\ \A y \in Range(f) : \E x \in S : f[x] = y
  BY DEF Range
<1>2. f \in Surjection(S, Range(f))
  BY <1>1 DEF Surjection
<1>3. IsInjective(f) => f \in Injection(S, Range(f))
  BY <1>1 DEF Injection
<1> QED
  BY <1>2, <1>3, FS_Surjection

LEMMA ListIsFinite ==
    ASSUME NEW S, NEW s \in Seq(S)
    PROVE  /\ IsFiniteSet(Range(s))
           /\ IsInjective(s) => Cardinality(Range(s)) = Len(s)
<1>1. Len(s) \in Nat /\ s \in [1..Len(s) -> S]
  OBVIOUS
<1>2. IsFiniteSet(1..Len(s)) /\ Cardinality(1..Len(s)) = Len(s)
  BY <1>1, FS_Interval
<1> QED
  BY <1>1, <1>2, RangeIsFinite

LEMMA TasksAreFinite == IsFiniteSet(Tasks)
<1> DEFINE f == [p \in Priorities |-> Range(First[p])]
           F == {Range(First[p]) : p \in Priorities}
<1>1. IsFiniteSet(Priorities)
  BY SchedulerAssumption, FS_Interval DEF Priorities
<1>2. Range(f) = F /\ f \in [Priorities -> F]
  BY DEF Range
<1>3. \A S \in F : IsFiniteSet(S)
  BY SchedulerAssumption, ListIsFinite
<1> HIDE DEF F, f
<1>4. IsFiniteSet(F)
  BY <1>1, <1>2, RangeIsFinite
<1>5. IsFiniteSet(UNION F)
  BY <1>3, <1>4, FS_UNION
<1> QED
  BY <1>5 DEF Tasks, F

\* n of the members of A go, those of W join: what remains is in B.
LEMMA Balance ==
    ASSUME NEW A, NEW W, NEW B, IsFiniteSet(B), IsFiniteSet(A), IsFiniteSet(W),
           NEW x, NEW n \in {0, 1},
           A \cap W = {}, A \cup W \subseteq IF n = 0 THEN B ELSE B \cup {x},
           n = 1 => x \notin W
    PROVE  Cardinality(A) + Cardinality(W) <= Cardinality(B) + n
<1>1. /\ Cardinality(A) \in Nat /\ Cardinality(W) \in Nat /\ Cardinality(B) \in Nat
      /\ IsFiniteSet(A \cup W)
  BY FS_CardinalityType, FS_Union
<1>2. Cardinality(A \cup W) = Cardinality(A) + Cardinality(W) - Cardinality(A \cap W)
  BY FS_Union
<1>3. Cardinality(A \cap W) = 0
  BY FS_EmptySet
<1>4. CASE n = 0
  <2>1. Cardinality(A \cup W) <= Cardinality(B)
    BY <1>4, FS_Subset
  <2> QED
    BY <1>1, <1>2, <1>3, <1>4, <2>1
<1>5. CASE n = 1
  <2>1. IsFiniteSet(B \cup {x}) /\ Cardinality(B \cup {x}) \in Nat
        /\ Cardinality(B \cup {x}) <= Cardinality(B) + 1
    <3>1. /\ IsFiniteSet(B \cup {x})
          /\ Cardinality(B \cup {x}) = IF x \in B THEN Cardinality(B) ELSE Cardinality(B) + 1
      BY FS_AddElement
    <3> QED
      BY <1>1, <3>1
  <2>2. Cardinality(A \cup W) <= Cardinality(B \cup {x})
    BY <1>5, <2>1, FS_Subset
  <2>3. Cardinality(A \cup W) \in Nat
    BY <1>1, FS_CardinalityType
  <2> QED
    BY <1>1, <1>2, <1>3, <1>5, <2>1, <2>2, <2>3
<1> QED
  BY <1>4, <1>5

\* Something is owed only to those that wait.
LEMMA OwedIs ==
    ASSUME BlockingInv, NEW o \in {"toReceive", "toSend"}
    PROVE  /\ Owed(o) \in Int /\ Recorded(o) \in Nat /\ Room(o) \in Nat
           /\ IsFiniteSet(Coming(o)) /\ Cardinality(Coming(o)) \in Nat
           /\ Range(kernel.waiting[o]) \subseteq Tasks /\ kernel.waiting[o] \in Seq(Tasks)
           /\ Listed(kernel.waiting[o], Tasks)
<1>1. ControlOK /\ IInv
  BY DEF BlockingInv
<1>2. Recorded(o) \in Nat
  BY <1>1, ControlIs DEF CurrentOK, QueueAt, Recorded, Unlocked
<1>3. Room(o) \in Nat
  BY <1>1, LengthIs DEF Room
<1>4. Listed(kernel.waiting[o], Tasks) /\ kernel.waiting[o] \in Seq(Tasks)
  BY <1>1, ControlIs, KernelQueueAssumption DEF Good, Sound, ListsOK, EventsOK, Listed
<1>5. Range(kernel.waiting[o]) \subseteq Tasks
  BY <1>4 DEF Range
<1>6. IsFiniteSet(Coming(o)) /\ Cardinality(Coming(o)) \in Nat
  BY TasksAreFinite, FS_Subset, FS_CardinalityType DEF Coming
<1> QED
  BY <1>2, <1>3, <1>4, <1>5, <1>6 DEF Owed

\* What is owed to nobody, or is nothing.
LEMMA CountedNothing ==
    ASSUME BlockingInv', NEW o \in {"toReceive", "toSend"}, Room(o)' = 0
    PROVE  Counted(o)'
<1>1. (BlockingInv /\ o \in {"toReceive", "toSend"} =>
         Recorded(o) \in Nat /\ Cardinality(Coming(o)) \in Nat)'
  BY OwedIs, PTL
<1> QED
  BY <1>1 DEF Counted, Owed

\* The rule of a step: of the others nobody moves, the current task stays among those that
\* come, or one is lost, and those that are woken join them.
LEMMA CountedStep ==
    ASSUME BlockingInv, BlockingInv', NEW o \in {"toReceive", "toSend"}, Counted(o),
           Range(kernel'.waiting[o]) \subseteq Range(kernel.waiting[o]),
           \A t \in Tasks \ {kernel.current} : pc'[t] = pc[t] /\ call'[t] = call[t],
           NEW n \in {0, 1}, NEW m \in Nat, Pays(Owed(o)', Owed(o), n, m), Wakens(o, m),
           IF n = 0
           THEN Along(o, pc[kernel.current], call[kernel.current]) =>
                   Along(o, pc'[kernel.current], call'[kernel.current])
           ELSE kernel.current \notin Range(kernel.waiting[o])
    PROVE  Counted(o)'
<1> DEFINE A == Coming(o)
           W == WokenFrom(kernel, o)
           B == Coming(o)'
<1>1. /\ Owed(o) \in Int /\ IsFiniteSet(A) /\ Cardinality(A) \in Nat
      /\ Range(kernel.waiting[o]) \subseteq Tasks /\ kernel.waiting[o] \in Seq(Tasks)
  BY OwedIs
<1>2. Owed(o)' \in Int /\ IsFiniteSet(B) /\ Cardinality(B) \in Nat
      /\ kernel'.waiting[o] \in Seq(Tasks)
  <2>1. (BlockingInv /\ o \in {"toReceive", "toSend"} =>
           Owed(o) \in Int /\ IsFiniteSet(Coming(o)) /\ Cardinality(Coming(o)) \in Nat
           /\ kernel.waiting[o] \in Seq(Tasks))'
    BY OwedIs, PTL
  <2> QED
    BY <2>1
<1>3. CASE kernel'.waiting[o] = <<>>
  BY <1>3 DEF Counted
<1>4. CASE kernel'.waiting[o] /= <<>>
  <2>1. kernel.waiting[o] /= <<>>
    BY <1>1, <1>2, <1>4, NothingIn
  <2>2. Owed(o) <= Cardinality(A)
    BY <2>1 DEF Counted
  <2>3. m <= Cardinality(W)
    BY <1>4 DEF Wakens
  <2>4. \A t \in W : t \in Tasks /\ Along(o, pc[t], call[t])
    <3> SUFFICES ASSUME NEW t \in W PROVE t \in Tasks /\ Along(o, pc[t], call[t])
      OBVIOUS
    <3>1. t \in Tasks /\ t \in Range(kernel.waiting[o])
      BY <1>1 DEF WokenFrom
    <3>2. Event(kernel, t)
      BY <3>1, KernelQueueAssumption DEF Event
    <3>3. WaitsAt(kernel, t, pc[t], call[t])
      BY <3>1, ControlIs DEF BlockingInv, CallsOK
    <3> QED
      BY <3>1, <3>2, <3>3, KernelQueueAssumption
         DEF WaitsAt, Suits, Along, Doers, Taking
  <2>5. A \cap W = {} /\ IsFiniteSet(W) /\ Cardinality(W) \in Nat
    <3>1. W \subseteq Tasks /\ A \cap W = {}
      BY <2>4 DEF WokenFrom, Coming
    <3> QED
      BY <3>1, TasksAreFinite, FS_Subset, FS_CardinalityType
  <2>6. A \cup W \subseteq IF n = 0 THEN B ELSE B \cup {kernel.current}
    <3> SUFFICES ASSUME NEW t \in A \cup W, n = 0 \/ t /= kernel.current PROVE t \in B
      OBVIOUS
    <3>1. t \in Tasks /\ Along(o, pc[t], call[t]) /\ t \notin Range(kernel'.waiting[o])
      BY <2>4 DEF Coming, WokenFrom
    <3>2. Along(o, pc'[t], call'[t])
      BY <3>1
    <3> QED
      BY <3>1, <3>2 DEF Coming
  <2>7. n = 1 => kernel.current \notin W
    BY DEF WokenFrom
  <2> HIDE DEF A, W, B
  <2>8. Cardinality(A) + Cardinality(W) <= Cardinality(B) + n
    BY <1>1, <1>2, <2>5, <2>6, <2>7, Balance
  <2>9. Owed(o)' + n <= Owed(o) + m
    BY DEF Pays
  <2>10. Owed(o)' <= Cardinality(B)
    BY <1>1, <1>2, <2>2, <2>3, <2>5, <2>8, <2>9
  <2> QED
    BY <2>10 DEF Counted, B
<1> QED
  BY <1>3, <1>4

\* Nobody need be woken; the first task of the list is; prvUnlockQueue wakes as many.
LEMMA WakensNone ==
    ASSUME BlockingInv, NEW o \in {"toReceive", "toSend"} PROVE Wakens(o, 0)
<1>1. WokenFrom(kernel, o) \subseteq Tasks
  BY OwedIs DEF WokenFrom
<1> QED
  BY <1>1, TasksAreFinite, FS_Subset, FS_CardinalityType DEF Wakens

LEMMA WakensFirst ==
    ASSUME BlockingInv, NEW o \in {"toReceive", "toSend"}, NEW k, Good(Users, k),
           AllLinked(k), k.waiting = kernel.waiting,
           kernel'.waiting = Wake(k, o).waiting
    PROVE  Wakens(o, 1) /\ Shrunk(kernel', kernel)
<1> DEFINE t == Head(k.waiting[o])
<1>1. o \in Objects /\ \A p \in Objects : Listed(k.waiting[p], Tasks)
  BY KernelQueueAssumption DEF Good, Sound, ListsOK, EventsOK
<1>2. CASE k.waiting[o] = <<>>
  <2>1. kernel'.waiting = kernel.waiting
    BY <1>2 DEF Wake
  <2> QED
    BY <1>2, <2>1 DEF Wakens, Shrunk
<1>3. CASE k.waiting[o] /= <<>>
  <2>1. /\ t \in Range(k.waiting[o])
        /\ \A p \in Objects : kernel'.waiting[p] = Without(k.waiting[p], t)
    BY <1>1, <1>3, RemovedIs DEF AllLinked, Wake
  <2> HIDE DEF t
  <2>2. \A p \in Objects : Range(kernel'.waiting[p]) = Range(k.waiting[p]) \ {t}
    BY <1>1, <2>1, WithoutLists
  <2>3. {t} \subseteq WokenFrom(kernel, o)
    BY <1>1, <2>1, <2>2 DEF WokenFrom
  <2>4. WokenFrom(kernel, o) \subseteq Tasks
    BY OwedIs DEF WokenFrom
  <2>5. IsFiniteSet(WokenFrom(kernel, o))
    BY <2>4, TasksAreFinite, FS_Subset
  <2>6. Cardinality({t}) <= Cardinality(WokenFrom(kernel, o))
    BY <2>3, <2>5, FS_Subset
  <2>7. Cardinality({t}) = 1
    BY FS_Singleton
  <2> QED
    BY <2>2, <2>6, <2>7 DEF Wakens, Shrunk
<1> QED
  BY <1>2, <1>3

LEMMA LeftIs ==
    ASSUME NEW s, Listed(s, Tasks), NEW n \in Nat, Left(s, n) /= <<>>
    PROVE  Cardinality(Range(Woken(s, n))) = n
<1>1. s \in Seq(Tasks) /\ Len(s) \in Nat
  BY DEF Listed
<1>2. Listed(Woken(s, n), Tasks) /\ Listed(Left(s, n), Tasks)
  BY WokenIs
<1>3. Cardinality(Range(Woken(s, n))) = Len(Woken(s, n))
  BY <1>2, ListIsFinite DEF Listed
<1>4. CASE n <= Len(s)
  <2>1. Min({n, Len(s)}) = n
    <3>1. \A x \in {n, Len(s)} : n <= x
      BY <1>1, <1>4
    <3>2. \A x \in {n, Len(s)} : (\A y \in {n, Len(s)} : x <= y) => x = n
      BY <1>1, <1>4
    <3> QED
      BY <3>1, <3>2 DEF Min
  <2>2. Woken(s, n) = SubSeq(s, 1, n)
    BY <2>1 DEF Woken
  <2>3. Len(SubSeq(s, 1, n)) = n
    <3>1. n + 1 - 1 = n
      OBVIOUS
    <3>2. \A i \in 1..n : s[i] \in Tasks
      BY <1>1, <1>4
    <3>3. 1 \in Int /\ n \in Int
      OBVIOUS
    <3> QED
      BY <1>1, <1>4
  <2> QED
    BY <1>3, <2>2, <2>3
<1>5. CASE Len(s) < n
  <2>1. Min({n, Len(s)}) = Len(s)
    <3>1. \A x \in {n, Len(s)} : Len(s) <= x
      BY <1>1, <1>5
    <3>2. \A x \in {n, Len(s)} : (\A y \in {n, Len(s)} : x <= y) => x = Len(s)
      BY <1>1, <1>5
    <3> QED
      BY <3>1, <3>2 DEF Min
  <2>2. Woken(s, n) = SubSeq(s, 1, Len(s))
    BY <2>1 DEF Woken
  <2>3. Len(SubSeq(s, 1, Len(s))) = Len(s)
    BY <1>1
  <2>4. Left(s, n) = SubSeq(s, Len(s) + 1, Len(s))
    BY <2>2, <2>3 DEF Left
  <2>5. SubSeq(s, Len(s) + 1, Len(s)) = <<>>
    BY <1>1
  <2> QED
    BY <2>4, <2>5
<1> QED
  BY <1>1, <1>4, <1>5

LEMMA WakensLeft ==
    ASSUME BlockingInv, NEW o \in {"toReceive", "toSend"}, NEW n \in Nat,
           kernel'.waiting[o] = Left(kernel.waiting[o], n)
    PROVE  Wakens(o, n)
<1> SUFFICES ASSUME Left(kernel.waiting[o], n) /= <<>>
             PROVE  n <= Cardinality(WokenFrom(kernel, o))
  BY DEF Wakens
<1>1. Listed(kernel.waiting[o], Tasks)
  BY OwedIs
<1>2. WokenFrom(kernel, o) = Range(Woken(kernel.waiting[o], n))
  BY <1>1, WokenIs DEF WokenFrom
<1> QED
  BY <1>1, <1>2, LeftIs

\* What is owed by the calls of one kind when only the others move.
LEMMA OwedSame ==
    ASSUME BlockingInv, NEW o \in {"toReceive", "toSend"}, Room(o)' = Room(o),
           Recorded(o)' = Recorded(o)
    PROVE  Pays(Owed(o)', Owed(o), 0, 0)
<1>1. Owed(o) \in Int /\ Owed(o)' = Owed(o)
  BY OwedIs DEF Owed
<1> QED
  BY <1>1 DEF Pays

\* A step of the current task from l to another label, and to the call e.
LEMMA CountedTurn ==
    ASSUME BlockingInv, BlockingInv', NEW o \in {"toReceive", "toSend"}, Counted(o),
           NEW l, Is(l), NEW to, NEW e, NEW k, Goes(k, to), MyCall(e), Shrunk(k, kernel),
           NEW n \in {0, 1}, NEW m \in Nat, Pays(Owed(o)', Owed(o), n, m), Wakens(o, m),
           n = 0 => (Along(o, l, Mine) => Along(o, to, e)),
           n = 1 => At("try") \/ l = "found"
    PROVE  Counted(o)'
<1>0. ControlOK /\ o \in Objects
  BY KernelQueueAssumption DEF BlockingInv
<1>1. /\ kernel.current \in Tasks /\ pc[kernel.current] = l /\ Mine = call[kernel.current]
      /\ kernel' = k
  BY <1>0, ControlIs DEF Is, Mine, Goes
<1>2. /\ pc'[kernel.current] = to /\ \A t \in Tasks \ {kernel.current} : pc'[t] = pc[t]
  BY <1>0, <1>1, ControlIs DEF Goes, PcOK
<1>3. /\ call'[kernel.current] = e /\ \A t \in Tasks \ {kernel.current} : call'[t] = call[t]
  BY <1>0, <1>1, ControlIs DEF MyCall, CallsOK
<1>4. n = 1 => kernel.current \notin Range(kernel.waiting[o])
  <2>1. At("try") \/ l = "found" => ~ Event(kernel, kernel.current)
    BY <1>0, <1>1, AtIs, ControlIs DEF WaitsAt, Labels, Leaving
  <2> QED
    BY <1>0, <2>1 DEF Event
<1>5. Range(kernel'.waiting[o]) \subseteq Range(kernel.waiting[o])
  BY <1>0, <1>1 DEF Shrunk
<1> QED
  BY <1>1, <1>2, <1>3, <1>4, <1>5, CountedStep

\* One that does not touch the storage, and leaves what is recorded.
LEMMA QuietList ==
    ASSUME BlockingInv, BlockingInv', NEW o \in {"toReceive", "toSend"}, Counted(o),
           NEW l, Is(l), NEW to, NEW e, NEW k, Goes(k, to), MyCall(e), Shrunk(k, kernel),
           Room(o)' = Room(o), Recorded(o)' = Recorded(o),
           Along(o, l, Mine) => Along(o, to, e)
    PROVE  Counted(o)'
<1>1. Pays(Owed(o)', Owed(o), 0, 0) /\ Wakens(o, 0) /\ 0 \in {0, 1} /\ 0 \in Nat /\ 0 /= 1
  BY OwedSame, WakensNone
<1> QED
  BY <1>1, CountedTurn

LEMMA QuietTurn ==
    ASSUME BlockingInv, BlockingInv', NEW S, AllCounted(S),
           NEW l, Is(l), NEW to, NEW e, NEW k, Goes(k, to), MyCall(e), Shrunk(k, kernel),
           UNCHANGED <<buffer, rx_lock, tx_lock>>,
           \A o \in {"toReceive", "toSend"} : Along(o, l, Mine) => Along(o, to, e)
    PROVE  AllCounted(S)'
<1>1. \A o \in {"toReceive", "toSend"} : Room(o)' = Room(o) /\ Recorded(o)' = Recorded(o)
  BY DEF Room, Recorded
<1> QED
  BY <1>1, QuietList DEF AllCounted

\* The same with the call as it is.
LEMMA QuietMove ==
    ASSUME BlockingInv, BlockingInv', NEW S, AllCounted(S),
           NEW l, Is(l), NEW to, NEW k, Goes(k, to), Shrunk(k, kernel), call' = call,
           UNCHANGED <<buffer, rx_lock, tx_lock>>,
           \A o \in {"toReceive", "toSend"} : Along(o, l, Mine) => Along(o, to, Mine)
    PROVE  AllCounted(S)'
<1>1. MyCall(Mine)
  BY ControlIs DEF BlockingInv, MyCall, Mine, CallsOK
<1> QED
  BY <1>1, QuietTurn

LEMMA QuietKernel ==
    ASSUME BlockingInv, BlockingInv', NEW S, AllCounted(S), Shrunk(kernel', kernel),
           UNCHANGED <<pc, call, buffer, rx_lock, tx_lock>>
    PROVE  AllCounted(S)'
<1>1. \A o \in {"toReceive", "toSend"} :
          /\ Room(o)' = Room(o) /\ Recorded(o)' = Recorded(o)
          /\ Range(kernel'.waiting[o]) \subseteq Range(kernel.waiting[o])
  BY KernelQueueAssumption DEF Room, Recorded, Shrunk
<1>2. ASSUME NEW o \in {"toReceive", "toSend"}, Counted(o) PROVE Counted(o)'
  BY <1>1, <1>2, OwedSame, WakensNone, CountedStep
<1> QED
  BY <1>2 DEF AllCounted

\* The steps of a call that are quiet: it begins, ...
LEMMA CallsCounted ==
    ASSUME BlockingInv, BlockingInv', NEW S, AllCounted(S), Calls
    PROVE  AllCounted(S)'
<1>1. At("run") /\ Goes(kernel, "try") /\ UNCHANGED <<buffer, rx_lock, tx_lock>>
  BY DEF Calls
<1>2. PICK e : MyCall(e)
  BY DEF Calls
<1>3. \A o : ~ Along(o, "run", Mine)
  BY DEF Along, Taking, Leaving
<1> QED
  BY <1>1, <1>2, <1>3, SteadyItself, QuietTurn DEF At, Steady

LEMMA CountsCounted ==
    ASSUME BlockingInv, BlockingInv', NEW S, AllCounted(S), Counts
    PROVE  AllCounted(S)'
<1> DEFINE e == [Mine EXCEPT !.loaded = buffer.messages]
<1>1. /\ At("try") /\ Goes(kernel, "found") /\ MyCall(e)
      /\ UNCHANGED <<buffer, rx_lock, tx_lock>>
  BY DEF Counts
<1>2. Mine \in CallRecords(buffer.length) /\ Is("try")
  BY <1>1, AtIs DEF Labels, BlockingInv
<1>3. e.op = Mine.op
  BY <1>2 DEF CallRecords
<1> HIDE DEF e
<1>4. \A o : Along(o, "try", Mine) => Along(o, "found", e)
  BY <1>3 DEF Along, Taking
<1> QED
  BY <1>1, <1>2, <1>4, SteadyItself, QuietTurn DEF Steady

\* ... suspends the scheduler, and locks the queue, ...
LEMMA SuspendsCounted ==
    ASSUME BlockingInv, BlockingInv', NEW S, AllCounted(S), Suspends
    PROVE  AllCounted(S)'
<1>1. /\ Is("blocking") /\ Goes(SuspendAll(kernel), "lock")
      /\ call' = call /\ UNCHANGED <<buffer, rx_lock, tx_lock>>
  BY DEF Suspends, Step, At, queueVars
<1>2. Shrunk(SuspendAll(kernel), kernel)
  BY DEF SuspendAll, Shrunk
<1>3. \A o : ~ Along(o, "blocking", Mine)
  BY DEF Along, Taking, Leaving
<1> QED
  BY <1>1, <1>2, <1>3, QuietMove

LEMMA LocksCounted ==
    ASSUME BlockingInv, BlockingInv', NEW S, AllCounted(S), Locks
    PROVE  AllCounted(S)'
<1>1. /\ At("lock") /\ buffer' = buffer
      /\ rx_lock' = Max({rx_lock, 0}) /\ tx_lock' = Max({tx_lock, 0})
  BY DEF Locks
<1>2. Is("lock") /\ rx_lock = Unlocked /\ tx_lock = Unlocked /\ ControlOK
  BY <1>1, AtIs DEF Labels, QueueAt, BlockingInv
<1>3. rx_lock' = 0 /\ tx_lock' = 0
  <2>1. Max({-1, 0}) = 0
    <3>1. \E x \in {-1, 0} : \A y \in {-1, 0} : x >= y
      OBVIOUS
    <3>2. /\ Max({-1, 0}) \in {-1, 0} /\ \A y \in {-1, 0} : Max({-1, 0}) >= y
      BY <3>1 DEF Max
    <3> QED
      BY <3>2
  <2> QED
    BY <1>1, <1>2, <2>1 DEF Unlocked
<1>4. \A o \in {"toReceive", "toSend"} : Room(o)' = Room(o) /\ Recorded(o)' = Recorded(o)
  BY <1>1, <1>2, <1>3 DEF Room, Recorded, Unlocked
<1>5. \A o : ~ Along(o, "lock", Mine)
  BY DEF Along, Taking, Leaving
<1>6. \E k, to, e : /\ Goes(k, to) /\ MyCall(e) /\ k \in {kernel, SetTimeOutState(kernel)}
  BY DEF Locks
<1>7. Shrunk(kernel, kernel) /\ Shrunk(SetTimeOutState(kernel), kernel)
  BY <1>2, ControlIs, SteadyItself, SteadyReturned DEF Steady
<1> QED
  BY <1>2, <1>4, <1>5, <1>6, <1>7, QuietList DEF AllCounted

\* ... resumes the scheduler, ...
LEMMA ResumesCounted ==
    ASSUME BlockingInv, BlockingInv', NEW S, AllCounted(S), Resumes
    PROVE  AllCounted(S)'
<1>0. ControlOK /\ call' = call /\ UNCHANGED <<buffer, rx_lock, tx_lock>>
  BY DEF BlockingInv, Resumes, queueVars
<1>1. CASE Step("yield", Yielding(kernel), "try")
  <2>1. Is("yield") /\ Goes(Yielding(kernel), "try")
    BY <1>1 DEF Step, At
  <2>2. Shrunk(Yielding(kernel), kernel)
    BY DEF Yielding, Shrunk
  <2>3. \A o : Along(o, "yield", Mine) => Along(o, "try", Mine)
    BY DEF Along, Taking
  <2> QED
    BY <1>0, <2>1, <2>2, <2>3, QuietMove
<1>2. ASSUME NEW to \in {"yield", "try", "late"}, ResumeAll("resume", to),
             to = "late" => Mine.outcome = "expired"
      PROVE  AllCounted(S)'
  <2>1. Shrunk(kernel', kernel) /\ Is("resume")
    BY <1>0, <1>2, SteadyResumes DEF ResumeAll, Steady
  <2>2. CASE pc' = pc
    BY <1>0, <2>1, <2>2, QuietKernel
  <2>3. CASE Goes(YieldingIf(kernel, kernel.missed), to)
    <3>1. \A o : Along(o, "resume", Mine) => Along(o, to, Mine)
      BY <1>2 DEF Along, Taking
    <3>2. kernel' = YieldingIf(kernel, kernel.missed)
      BY <2>3 DEF Goes
    <3> QED
      BY <1>0, <2>1, <2>3, <3>1, <3>2, QuietMove
  <2> QED
    BY <1>2, <2>2, <2>3 DEF ResumeAll
<1> QED
  BY <1>1, <1>2 DEF Resumes, ResumeAllAndYield

\* ... and ends, as its block time is over.
LEMMA ExpiresCounted ==
    ASSUME BlockingInv, BlockingInv', NEW S, AllCounted(S), Expires
    PROVE  AllCounted(S)'
<1>1. At("late") /\ UNCHANGED <<buffer, rx_lock, tx_lock>> /\ ControlOK /\ OrderOK(kernel)
  BY DEF Expires, BlockingInv
<1>2. \A o : ~ Along(o, "late", Mine)
  BY DEF Along, Taking, Leaving
<1>3. Is("late") /\ Good(Users, kernel) /\ AllLinked(kernel) /\ holder \in Tasks \cup {Nobody}
  BY <1>1, ControlIs DEF At, CallsOK
<1>4. CASE Goes(kernel, "try") /\ UNCHANGED call
  BY <1>1, <1>2, <1>3, <1>4, SteadyItself, QuietMove DEF Steady
<1>5. CASE \E k \in {kernel, DisinheritAfterTimeout(kernel)} : Returns(k)
  <2>1. PICK k \in {kernel, DisinheritAfterTimeout(kernel)} : Returns(k)
    BY <1>5
  <2>2. WakesNow(k, kernel)
    BY <1>1, <1>3, <2>1, WakesDisinherit, WakesItself
  <2>3. k \in Kernels /\ Shrunk(k, kernel)
    BY <2>2, GoodIs DEF WakesNow, Wakes, Shrunk
  <2>4. Shrunk(Returned(k), kernel)
    BY <2>3, SteadyReturned DEF Steady, Shrunk
  <2>5. Goes(Returned(k), "run") /\ MyCall(NoCall)
    BY <2>1 DEF Returns, Returned
  <2> QED
    BY <1>1, <1>2, <1>3, <2>4, <2>5, QuietTurn
<1> QED
  BY <1>4, <1>5 DEF Expires

\* The delay of a task, and the scheduler.
LEMMA DelayCounted ==
    ASSUME BlockingInv, BlockingInv', NEW S, AllCounted(S), vTaskDelay, UNCHANGED queueVars
    PROVE  AllCounted(S)'
<1>1. ControlOK /\ call' = call /\ UNCHANGED <<buffer, rx_lock, tx_lock>>
  BY DEF BlockingInv, queueVars
<1>2. Shrunk(kernel', kernel)
  BY <1>1, SteadyDelays DEF Steady
<1>3. ASSUME NEW l \in Working, NEW to, Is(l), Goes(kernel', to) PROVE AllCounted(S)'
  <2>1. \A o : ~ Along(o, l, Mine)
    BY <1>3 DEF Along, Taking, Leaving, Working
  <2> QED
    BY <1>1, <1>2, <1>3, <2>1, QuietMove
<1>4. CASE Step("run", SuspendAll(kernel), "delay")
  BY <1>3, <1>4 DEF Step, At, Goes, Working
<1>5. CASE \E ticks \in BlockTimes \ {0} :
               Step("delay", AddCurrentTaskToDelayedList(kernel, ticks, FALSE), "delay_resume")
  BY <1>3, <1>5 DEF Step, At, Goes, Working
<1>6. CASE Step("run", Yielding(kernel), "run") \/ Step("delay_yield", Yielding(kernel), "run")
  BY <1>3, <1>6 DEF Step, At, Goes, Working
<1>7. ASSUME NEW to, ResumeAll("delay_resume", to) PROVE AllCounted(S)'
  <2>1. Is("delay_resume")
    BY <1>7 DEF ResumeAll
  <2>2. CASE pc' = pc
    BY <1>1, <1>2, <2>2, QuietKernel
  <2>3. CASE Goes(YieldingIf(kernel, kernel.missed), to)
    BY <1>3, <2>1, <2>3 DEF Goes, Working
  <2> QED
    BY <1>7, <2>2, <2>3 DEF ResumeAll
<1> QED
  BY <1>4, <1>5, <1>6, <1>7 DEF vTaskDelay, ResumeAllAndYield

LEMMA SchedulerCounted ==
    ASSUME BlockingInv, BlockingInv', NEW S, AllCounted(S), SchedulerNext, UNCHANGED queueVars
    PROVE  AllCounted(S)'
<1>1. ControlOK /\ UNCHANGED <<call, buffer, rx_lock, tx_lock>>
  BY DEF BlockingInv, queueVars
<1>2. ~ IdleFrees
  BY <1>1, ControlIs DEF IdleFrees, AllLinked
<1>3. pc' = pc
  BY <1>2 DEF SchedulerNext, IdleYields, SysTick, TickLoops, PendSV
<1>4. Shrunk(kernel', kernel)
  <2>1. CASE IdleYields \/ SysTick \/ TickLoops
    BY <1>1, <2>1, SteadyScheduler DEF Steady
  <2>2. CASE PendSV
    <3>1. PICK q \in Priorities : Idle \in Range(kernel.ready[q].items)
      BY <1>1, ControlIs DEF AllLinked, Ready
    <3>2. kernel.ready[q].items /= <<>> /\ Good(Users, kernel)
      BY <1>1, <3>1, ControlIs DEF Range
    <3>3. kernel' = Switched(kernel)
      BY <2>2 DEF PendSV, Switched
    <3>4. kernel'.waiting = kernel.waiting
      BY <3>2, <3>3, SwitchIs
    <3> QED
      BY <3>4 DEF Shrunk
  <2> QED
    BY <1>2, <2>1, <2>2 DEF SchedulerNext
<1> QED
  BY <1>1, <1>3, <1>4, QuietKernel

-----------------------------------------------------------------------------
\* A call that finds nothing, and its list.
LEMMA FindsNothing ==
    ASSUME ControlOK, IInv, Obstructed, Mine.op /= "none",
           Mine.op \in {"none"} \cup Senders \cup Receivers
    PROVE  \E o \in {"toReceive", "toSend"} :
              /\ Mine.op \in Doers(o) /\ Room(o) = 0
              /\ o = IF Mine.op \in Senders THEN "toSend" ELSE "toReceive"
              /\ \A p \in {"toReceive", "toSend"} : p /= o => Mine.op \notin Doers(p)
<1>1. buffer.length \in Nat /\ buffer.messages \in Nat
  BY LengthIs
<1>2. CASE Mine.op \in Senders
  <2>1. buffer.messages = buffer.length
    BY <1>2 DEF Obstructed, IsFull
  <2>2. Room("toSend") = 0
    BY <1>1, <2>1 DEF Room
  <2>3. Mine.op \in Doers("toSend") /\ Mine.op \notin Doers("toReceive")
    BY <1>2 DEF Doers, Senders, Receivers
  <2> QED
    BY <1>2, <2>2, <2>3
<1>3. CASE Mine.op \in Receivers
  <2>1. Mine.op \notin Senders
    BY <1>3 DEF Senders, Receivers
  <2>2. Room("toReceive") = 0
    BY <2>1 DEF Obstructed, IsEmpty, Room
  <2>3. Mine.op \in Doers("toReceive") /\ Mine.op \notin Doers("toSend")
    BY <1>3, <2>1 DEF Doers
  <2> QED
    BY <2>1, <2>2, <2>3
<1> QED
  BY <1>2, <1>3

\* A call that finds nothing ends or prepares to wait: nobody that waits with it would
\* find anything either, and those of the other kind are not concerned.
LEMMA ObstructedCounted ==
    ASSUME BlockingInv, BlockingInv', NEW S, AllCounted(S), GivesUp \/ StartsToWait
    PROVE  AllCounted(S)'
<1>1. /\ At("try") /\ Obstructed /\ UNCHANGED <<buffer, rx_lock, tx_lock>>
      /\ ControlOK /\ IInv
  BY DEF GivesUp, StartsToWait, BlockingInv
<1>2. Is("try") /\ CallAt("try", Mine) /\ Mine \in CallRecords(buffer.length)
  BY <1>1, AtIs DEF Labels
<1>3. PICK o \in {"toReceive", "toSend"} :
          /\ Mine.op \in Doers(o) /\ Room(o) = 0
          /\ \A p \in {"toReceive", "toSend"} : p /= o => Mine.op \notin Doers(p)
  BY <1>1, <1>2, FindsNothing DEF CallAt, Working, CallRecords
<1>4. o \in S => Counted(o)'
  <2>1. Room(o)' = 0
    BY <1>1, <1>3 DEF Room
  <2> QED
    BY <2>1, CountedNothing
<1>5. PICK k, e, to : /\ Goes(k, to) /\ MyCall(e)
                      /\ k \in {kernel, Returned(kernel), SetTimeOutState(kernel)}
  BY DEF GivesUp, StartsToWait, Returns, Returned
<1>6. Shrunk(k, kernel)
  BY <1>1, <1>5, ControlIs, SteadyItself, SteadyReturned DEF Steady
<1>7. ASSUME NEW p \in S, p /= o PROVE Counted(p)'
  <2>1. p \in {"toReceive", "toSend"} /\ Counted(p)
    BY <1>7 DEF AllCounted
  <2>2. Room(p)' = Room(p) /\ Recorded(p)' = Recorded(p) /\ ~ Along(p, "try", Mine)
    BY <1>1, <1>3, <1>7, <2>1 DEF Room, Recorded, Along
  <2> QED
    BY <1>2, <1>5, <1>6, <2>1, <2>2, QuietList
<1> QED
  BY <1>4, <1>7 DEF AllCounted

LEMMA LooksCounted ==
    ASSUME BlockingInv, BlockingInv', NEW S, AllCounted(S), Looks
    PROVE  AllCounted(S)'
<1>1. At("look") /\ UNCHANGED <<buffer, rx_lock, tx_lock>> /\ ControlOK /\ IInv
  BY DEF Looks, BlockingInv
<1>2. /\ Is("look") /\ CallAt("look", Mine) /\ Mine \in CallRecords(buffer.length)
      /\ ~ kernel.ticking /\ kernel.current \in Users /\ ~ Event(kernel, kernel.current)
  BY <1>1, AtIs DEF Labels, Leaving
<1>3. \A o : ~ Along(o, "look", Mine)
  BY DEF Along, Taking, Leaving
<1>4. CASE ~ Obstructed
  BY <1>1, <1>2, <1>3, <1>4, SteadyItself, QuietTurn DEF Looks, Steady
<1>5. CASE Obstructed
  <2> DEFINE k == IF IsMutex THEN PriorityInherit(kernel) ELSE kernel
  <2>1. PICK o \in {"toReceive", "toSend"} :
            /\ Mine.op \in Doers(o) /\ Room(o) = 0
            /\ o = IF Mine.op \in Senders THEN "toSend" ELSE "toReceive"
            /\ \A p \in {"toReceive", "toSend"} : p /= o => Mine.op \notin Doers(p)
    BY <1>1, <1>2, <1>5, FindsNothing DEF CallAt, Working, CallRecords
  <2>2. o \in S => Counted(o)'
    <3>1. Room(o)' = 0
      BY <1>1, <2>1 DEF Room
    <3> QED
      BY <3>1, CountedNothing
  <2>3. PICK e : Goes(Blocked(k), "unlock") /\ MyCall(e)
    BY <1>5 DEF Looks
  <2>4. WakesNow(k, kernel)
    BY <1>1, ControlIs, WakesInherit, WakesItself DEF CallsOK
  <2>5. /\ Good(Users, k) /\ AllLinked(k) /\ k.current = kernel.current
        /\ ~ k.ticking /\ ~ Event(k, k.current) /\ Shrunk(k, kernel)
    BY <1>2, <2>4 DEF WakesNow, Wakes, Shrunk, Users
  <2> HIDE DEF k
  <2>6. Mine.wait \in Ticks \ {0}
    BY <1>2 DEF CallAt, CallRecords
  <2>7. Blocked(k) = PlaceOnEventList(k, o, Mine.wait)
    BY <2>1 DEF Blocked
  <2>8. \A p \in Objects : p /= o => Blocked(k).waiting[p] = k.waiting[p]
    BY <1>2, <2>5, <2>6, <2>7, PlacedIs, KernelQueueAssumption
  <2>9. ASSUME NEW p \in S, p /= o PROVE Counted(p)'
    <3>0. p \in {"toReceive", "toSend"} /\ Counted(p)
      BY <2>9 DEF AllCounted
    <3>1. Room(p)' = Room(p) /\ Recorded(p)' = Recorded(p)
      BY <1>1 DEF Room, Recorded
    <3>2. kernel' = Blocked(k) /\ p \in Objects
      BY <2>3, <3>0, KernelQueueAssumption DEF Goes
    <3>3. Range(kernel'.waiting[p]) \subseteq Range(kernel.waiting[p])
      BY <2>5, <2>8, <2>9, <3>2 DEF Shrunk
    <3>4. kernel.current \in Tasks /\ pc[kernel.current] = "look" /\ Mine = call[kernel.current]
      BY <1>1, <1>2, ControlIs DEF Is, Mine
    <3>5. \A t \in Tasks \ {kernel.current} : pc'[t] = pc[t] /\ call'[t] = call[t]
      BY <1>1, <2>3, <3>4, ControlIs DEF Goes, MyCall, PcOK, CallsOK
    <3>6. Pays(Owed(p)', Owed(p), 0, 0) /\ Wakens(p, 0)
      BY <3>0, <3>1, OwedSame, WakensNone
    <3>7. 0 \in {0, 1} /\ 0 \in Nat
      OBVIOUS
    <3> QED
      BY <1>3, <3>0, <3>3, <3>4, <3>5, <3>6, <3>7, CountedStep
  <2> QED
    BY <2>2, <2>9 DEF AllCounted
<1> QED
  BY <1>4, <1>5

-----------------------------------------------------------------------------
\* The messages after a copy.
LEMMA CopiedIs ==
    ASSUME IInv, NEW c, c.op \in Senders
    PROVE  /\ c.op /= "over" => Copied(buffer, c).messages = buffer.messages + 1
           /\ c.op = "over" =>
                 Copied(buffer, c).messages = IF buffer.messages > 0 THEN buffer.messages ELSE 1
<1>1. IsBuffer(buffer)
  BY DEF IInv, Ring
<1>2. /\ \A item : CopyToBack(buffer, item).messages = buffer.messages + 1
      /\ \A item : CopyToFront(buffer, item).messages = buffer.messages + 1
      /\ \A item : CopyOver(buffer, item).messages =
                      IF buffer.messages > 0 THEN buffer.messages ELSE 1
  BY <1>1 DEF IsBuffer, CopyToBack, CopyToFront, CopyOver
<1> QED
  BY <1>2 DEF Copied, Senders

LEMMA FetchedIs ==
    ASSUME IInv, NEW n
    PROVE  CopyFrom(buffer, n).messages = n
BY DEF IInv, Ring, IsBuffer, CopyFrom

\* A message comes: one receiver is owed more, and the senders are owed less.
LEMMA OwedMore ==
    ASSUME BlockingInv, Recorded("toReceive")' = Recorded("toReceive"),
           Recorded("toSend")' = Recorded("toSend"), buffer'.length = buffer.length,
           buffer'.messages = buffer.messages + 1
    PROVE  /\ Pays(Owed("toReceive")', Owed("toReceive"), 0, 1)
           /\ Pays(Owed("toSend")', Owed("toSend"), 1, 0)
           /\ Pays(Owed("toSend")', Owed("toSend"), 0, 0)
<1>1. buffer.length \in Nat /\ buffer.messages \in Nat
      /\ Recorded("toReceive") \in Nat /\ Recorded("toSend") \in Nat
  BY OwedIs, LengthIs DEF BlockingInv
<1> QED
  BY <1>1 DEF Owed, Room, Pays

\* One goes.
LEMMA OwedLess ==
    ASSUME BlockingInv, Recorded("toReceive")' = Recorded("toReceive"),
           Recorded("toSend")' = Recorded("toSend"), buffer'.length = buffer.length,
           buffer'.messages = buffer.messages - 1
    PROVE  /\ Pays(Owed("toReceive")', Owed("toReceive"), 1, 0)
           /\ Pays(Owed("toReceive")', Owed("toReceive"), 0, 0)
           /\ Pays(Owed("toSend")', Owed("toSend"), 0, 1)
<1>1. buffer.length \in Nat /\ buffer.messages \in Nat
      /\ Recorded("toReceive") \in Nat /\ Recorded("toSend") \in Nat
  BY OwedIs, LengthIs DEF BlockingInv
<1> QED
  BY <1>1 DEF Owed, Room, Pays

\* The first task of a list goes on while the current task ends its call.
LEMMA ReturnsWaking ==
    ASSUME BlockingInv, NEW o \in {"toReceive", "toSend"}, NEW k,
           Good(Users, k), AllLinked(k), k.current = kernel.current,
           k.waiting = kernel.waiting,
           NEW j, j = IF k.waiting[o] = <<>> THEN YieldingIf(k, k /= kernel)
                      ELSE WakeAndYield(k, o),
           Returns(j)
    PROVE  /\ Goes(Returned(j), "run") /\ MyCall(NoCall)
           /\ Wakens(o, 1) /\ Shrunk(Returned(j), kernel)
<1>1. Goes(Returned(j), "run") /\ MyCall(NoCall) /\ kernel' = Returned(j)
  BY DEF Returns, Returned, Goes
<1>2. j \in Kernels
  <2>1. k \in Kernels /\ o \in Objects
    BY GoodIs, KernelQueueAssumption
  <2>2. CASE k.waiting[o] = <<>>
    BY <2>1, <2>2 DEF YieldingIf, Kernels
  <2>3. CASE k.waiting[o] /= <<>>
    <3>1. WakesNow(j, k)
      BY <2>1, <2>3, WakesAndYields
    <3> QED
      BY <3>1, GoodIs DEF WakesNow, Wakes
  <2> QED
    BY <2>2, <2>3
<1>3. Returned(j).waiting = j.waiting
  BY <1>2, EndsUntouched DEF Untouched, SameLists
<1>4. j.waiting = Wake(k, o).waiting
  BY DEF WakeAndYield, YieldingIf, Wake
<1>5. Wakens(o, 1) /\ Shrunk(kernel', kernel)
  BY <1>1, <1>3, <1>4, WakensFirst
<1> QED
  BY <1>1, <1>5

\* A message is sent: a receiver is woken, and a sender has taken its room.
LEMMA SendsCounted ==
    ASSUME BlockingInv, BlockingInv', NEW S, AllCounted(S), Sends, buffer'.length = buffer.length
    PROVE  AllCounted(S)'
<1>0. 0 \in {0, 1} /\ 1 \in {0, 1} /\ 0 \in Nat /\ 1 \in Nat /\ 0 /= 1
  OBVIOUS
<1>1. /\ At("try") /\ Mine.op \in Senders /\ buffer' = Copied(buffer, Mine)
      /\ UNCHANGED <<rx_lock, tx_lock>> /\ ControlOK /\ IInv
  BY DEF Sends, BlockingInv
<1>2. /\ Is("try") /\ Good(Users, kernel) /\ AllLinked(kernel) /\ kernel \in Kernels
      /\ kernel.current \in Tasks
      /\ rx_lock = Unlocked /\ tx_lock = Unlocked
  BY <1>1, AtIs, ControlIs DEF Labels, QueueAt
<1> DEFINE k == IF IsMutex THEN PriorityDisinherit(kernel) ELSE kernel
           j == IF k.waiting["toReceive"] = <<>> THEN YieldingIf(k, k /= kernel)
                ELSE WakeAndYield(k, "toReceive")
<1>3. Returns(j)
  BY DEF Sends
<1>4. /\ Good(Users, k) /\ AllLinked(k) /\ k.current = kernel.current
      /\ k.waiting = kernel.waiting
  <2>1. kernel.base[kernel.current] \in Priorities
    BY <1>2 DEF Kernels
  <2>2. CASE k = WithPriority(kernel, kernel.current, kernel.base[kernel.current])
    <3> DEFINE i == WithPriority(kernel, kernel.current, kernel.base[kernel.current])
    <3>1. WakesNow(i, kernel)
      BY <1>2, <2>1, WakesWithPriority
    <3>2. i.waiting = kernel.waiting
      BY <1>2, <2>1, WithPriorityRanks
    <3> HIDE DEF i
    <3> QED
      BY <2>2, <3>1, <3>2 DEF WakesNow, Wakes, i
  <2>3. CASE k = kernel
    BY <1>2, <2>3
  <2> QED
    BY <2>2, <2>3 DEF PriorityDisinherit
<1> HIDE DEF k
<1>5. /\ Goes(Returned(j), "run") /\ MyCall(NoCall)
      /\ Wakens("toReceive", 1) /\ Shrunk(Returned(j), kernel)
  BY <1>3, <1>4, ReturnsWaking
<1> HIDE DEF j
<1>6. Recorded("toReceive")' = Recorded("toReceive") /\ Recorded("toSend")' = Recorded("toSend")
  BY <1>1 DEF Recorded
<1>7. Wakens("toSend", 0) /\ Wakens("toReceive", 0)
  BY WakensNone
<1>8. ~ Along("toReceive", "try", Mine)
  BY <1>1 DEF Along, Doers, Senders, Receivers
<1>9. CASE buffer'.messages = buffer.messages + 1
  <2>1. /\ Pays(Owed("toReceive")', Owed("toReceive"), 0, 1)
        /\ Pays(Owed("toSend")', Owed("toSend"), 1, 0)
    BY <1>6, <1>9, OwedMore
  <2>2. "toReceive" \in S => Counted("toReceive")'
    BY <1>0, <1>2, <1>5, <1>8, <2>1, CountedTurn DEF AllCounted
  <2>3. "toSend" \in S => Counted("toSend")'
    BY <1>0, <1>1, <1>2, <1>5, <1>7, <2>1, CountedTurn DEF AllCounted
  <2> QED
    BY <2>2, <2>3 DEF AllCounted
<1>10. CASE Mine.op = "over"
  <2>1. buffer.length = 1 /\ buffer.messages \in {0, 1}
    <3>1. buffer.length = 1
      BY <1>1, <1>2, <1>10, MineFits DEF Fits
    <3> QED
      BY <1>1, <3>1, LengthIs
  <2>2. buffer'.messages = IF buffer.messages > 0 THEN buffer.messages ELSE 1
    BY <1>1, <1>10, CopiedIs
  <2>3. "toSend" \in S => Counted("toSend")'
    <3>1. Room("toSend")' = 0
      BY <2>1, <2>2 DEF Room
    <3> QED
      BY <3>1, CountedNothing
  <2>4. CASE buffer.messages = 1
    <3>1. Room("toReceive")' = Room("toReceive")
      BY <2>2, <2>4 DEF Room
    <3>2. "toReceive" \in S => Counted("toReceive")'
      BY <1>2, <1>5, <1>6, <1>8, <3>1, QuietList DEF AllCounted
    <3> QED
      BY <2>3, <3>2 DEF AllCounted
  <2>5. CASE buffer.messages = 0
    BY <1>9, <2>2, <2>5
  <2> QED
    BY <2>1, <2>4, <2>5
<1> QED
  BY <1>1, <1>9, <1>10, CopiedIs

\* A message is received: a sender is woken.
LEMMA ReceivesCounted ==
    ASSUME BlockingInv, BlockingInv', NEW S, AllCounted(S), Receives, buffer'.length = buffer.length
    PROVE  AllCounted(S)'
<1>0. 0 \in {0, 1} /\ 1 \in {0, 1} /\ 0 \in Nat /\ 1 \in Nat /\ 0 /= 1
  OBVIOUS
<1>1. /\ Is("found") /\ Mine.op = "receive" /\ buffer' = CopyFrom(buffer, Mine.loaded - 1)
      /\ UNCHANGED <<rx_lock, tx_lock>> /\ ControlOK /\ IInv
      /\ Returns(WakeAndYield(kernel, "toSend"))
  BY DEF Receives, BlockingInv
<1>2. Good(Users, kernel) /\ AllLinked(kernel) /\ kernel.current \in Tasks
  BY <1>1, ControlIs
<1>3. buffer'.messages = buffer.messages - 1
  <2>1. Mine.loaded = buffer.messages
    BY <1>1, <1>2 DEF IInv, CountIsFresh, Is, Mine
  <2> QED
    BY <1>1, <2>1, FetchedIs
<1>4. \E j : /\ Goes(Returned(j), "run") /\ MyCall(NoCall)
             /\ Wakens("toSend", 1) /\ Shrunk(Returned(j), kernel)
  <2> DEFINE j == IF kernel.waiting["toSend"] = <<>> THEN YieldingIf(kernel, kernel /= kernel)
                  ELSE WakeAndYield(kernel, "toSend")
  <2>1. WakeAndYield(kernel, "toSend") = j
    BY DEF WakeAndYield, WakeHigher, Wake
  <2>2. Returns(j)
    BY <1>1, <2>1
  <2>3. /\ Goes(Returned(j), "run") /\ MyCall(NoCall)
        /\ Wakens("toSend", 1) /\ Shrunk(Returned(j), kernel)
    BY <1>2, <2>2, ReturnsWaking
  <2> HIDE DEF j
  <2> QED
    BY <2>3
<1>5. Recorded("toReceive")' = Recorded("toReceive") /\ Recorded("toSend")' = Recorded("toSend")
  BY <1>1 DEF Recorded
<1>6. ~ Along("toSend", "found", Mine) /\ Wakens("toReceive", 0)
  BY <1>1, WakensNone DEF Along, Doers, Senders
<1>7. /\ Pays(Owed("toReceive")', Owed("toReceive"), 1, 0)
      /\ Pays(Owed("toSend")', Owed("toSend"), 0, 1)
  BY <1>3, <1>5, OwedLess
<1>8. "toReceive" \in S => Counted("toReceive")'
  BY <1>0, <1>1, <1>4, <1>6, <1>7, CountedTurn DEF AllCounted
<1>9. "toSend" \in S => Counted("toSend")'
  BY <1>0, <1>1, <1>4, <1>6, <1>7, CountedTurn DEF AllCounted
<1> QED
  BY <1>8, <1>9 DEF AllCounted

\* A message is looked at: another receiver is woken in its place.
LEMMA PeeksCounted ==
    ASSUME BlockingInv, BlockingInv', NEW S, AllCounted(S), Peeks
    PROVE  AllCounted(S)'
<1>0. 1 \in {0, 1} /\ 1 \in Nat /\ 0 /= 1
  OBVIOUS
<1>1. /\ Is("found") /\ Mine.op = "peek"
      /\ UNCHANGED <<buffer, rx_lock, tx_lock>> /\ ControlOK
      /\ Returns(WakeAndYield(kernel, "toReceive"))
  BY DEF Peeks, BlockingInv
<1>2. Good(Users, kernel) /\ AllLinked(kernel)
  BY <1>1, ControlIs
<1>3. \E j : /\ Goes(Returned(j), "run") /\ MyCall(NoCall)
             /\ Wakens("toReceive", 1) /\ Shrunk(Returned(j), kernel)
  <2> DEFINE j == IF kernel.waiting["toReceive"] = <<>> THEN YieldingIf(kernel, kernel /= kernel)
                  ELSE WakeAndYield(kernel, "toReceive")
  <2>1. WakeAndYield(kernel, "toReceive") = j
    BY DEF WakeAndYield, WakeHigher, Wake
  <2>2. Returns(j)
    BY <1>1, <2>1
  <2>3. /\ Goes(Returned(j), "run") /\ MyCall(NoCall)
        /\ Wakens("toReceive", 1) /\ Shrunk(Returned(j), kernel)
    BY <1>2, <2>2, ReturnsWaking
  <2> HIDE DEF j
  <2> QED
    BY <2>3
<1>4. \A o \in {"toReceive", "toSend"} : Room(o)' = Room(o) /\ Recorded(o)' = Recorded(o)
  BY <1>1 DEF Room, Recorded
<1>5. ~ Along("toSend", "found", Mine)
  BY <1>1 DEF Along, Doers, Senders
<1>6. "toSend" \in S => Counted("toSend")'
  BY <1>1, <1>3, <1>4, <1>5, QuietList DEF AllCounted
<1>7. Pays(Owed("toReceive")', Owed("toReceive"), 1, 1)
  <2>1. Owed("toReceive") \in Int /\ Owed("toReceive")' = Owed("toReceive")
    BY <1>4, OwedIs DEF Owed
  <2> QED
    BY <2>1 DEF Pays
<1>8. "toReceive" \in S => Counted("toReceive")'
  BY <1>0, <1>1, <1>3, <1>7, CountedTurn DEF AllCounted
<1> QED
  BY <1>6, <1>8 DEF AllCounted

\* The queue is unlocked: as many are woken as interrupts have recorded.
LEMMA UnlocksCounted ==
    ASSUME BlockingInv, BlockingInv', NEW S, AllCounted(S), UnlocksTx \/ UnlocksRx
    PROVE  AllCounted(S)'
<1>0. 0 \in {0, 1} /\ 0 /= 1 /\ Unlocked = -1 /\ ControlOK
  BY DEF Unlocked, BlockingInv
<1>1. PICK o \in {"toReceive", "toSend"}, from \in {"unlock", "unlock_rx"}, to \in Leaving,
           n \in Int :
          /\ Step(from, WakeSome(kernel, o, n), to)
          /\ UNCHANGED <<buffer, call>>
          /\ n = Recorded(o) \/ (n = Unlocked /\ Recorded(o) = 0)
          /\ Recorded(o)' = 0
          /\ \A p \in {"toReceive", "toSend"} : p /= o => Recorded(p)' = Recorded(p)
  <2>1. tx_lock \in Int /\ rx_lock \in Int
    BY <1>0, ControlIs DEF CurrentOK, QueueAt
  <2>2. CASE UnlocksTx
    BY <2>1, <2>2 DEF UnlocksTx, Leaving, Recorded
  <2>3. CASE UnlocksRx
    BY <2>1, <2>3 DEF UnlocksRx, Leaving, Recorded
  <2> QED
    BY <2>2, <2>3
<1> DEFINE k == WakeSome(kernel, o, n)
<1>2. Is(from) /\ Goes(k, to) /\ kernel.locked = LockedAt(from, FALSE)
  BY <1>0, <1>1, AtIs DEF Step, Labels
<1>3. kernel.locked /= 0 /\ Good(Users, kernel) /\ AllLinked(kernel) /\ o \in Objects
  BY <1>0, <1>2, ControlIs, KernelQueueAssumption DEF LockedAt, Locking
<1>4. Shrunk(k, kernel) /\ k.waiting[o] = Left(kernel.waiting[o], n) /\ kernel' = k
  <2>1. Steady(k, kernel)
    BY <1>3, SteadyUnlocks
  <2>2. k.waiting[o] = Left(kernel.waiting[o], n)
    BY <1>3, WakesSome
  <2> QED
    BY <1>2, <2>1, <2>2 DEF Steady, Goes
<1> HIDE DEF k
<1>5. MyCall(Mine) /\ \A p : Along(p, from, Mine) => Along(p, to, Mine)
  BY <1>0, <1>1, ControlIs DEF MyCall, Mine, CallsOK, Along, Taking, Leaving
<1>6. \A p \in {"toReceive", "toSend"} : Room(p)' = Room(p)
  BY <1>1 DEF Room
<1>7. o \in S => Counted(o)'
  <2>1. Recorded(o) \in Nat /\ Room(o) \in Nat
    BY OwedIs
  <2>2. Pays(Owed(o)', Owed(o), 0, Recorded(o))
    BY <1>1, <1>6, <2>1 DEF Pays, Owed
  <2>3. Wakens(o, Recorded(o))
    BY <1>1, <1>4, <2>1, WakensNone, WakensLeft
  <2> QED
    BY <1>0, <1>2, <1>4, <1>5, <2>1, <2>2, <2>3, CountedTurn DEF AllCounted
<1>8. ASSUME NEW p \in S, p /= o PROVE Counted(p)'
  BY <1>1, <1>2, <1>4, <1>5, <1>6, <1>8, QuietList DEF AllCounted
<1> QED
  BY <1>7, <1>8 DEF AllCounted

\* An interrupt, or a reset, which does not move a task.
LEMMA InterruptCounted ==
    ASSUME BlockingInv, BlockingInv', NEW S, AllCounted(S), UNCHANGED <<pc, call>>,
           Shrunk(kernel', kernel),
           \A o \in {"toReceive", "toSend"} :
               \E m \in Nat : Pays(Owed(o)', Owed(o), 0, m) /\ Wakens(o, m)
    PROVE  AllCounted(S)'
<1>1. ASSUME NEW o \in {"toReceive", "toSend"}, Counted(o) PROVE Counted(o)'
  <2>1. PICK m \in Nat : Pays(Owed(o)', Owed(o), 0, m) /\ Wakens(o, m)
    OBVIOUS
  <2>2. Range(kernel'.waiting[o]) \subseteq Range(kernel.waiting[o])
    BY KernelQueueAssumption DEF Shrunk
  <2>3. 0 \in {0, 1}
    OBVIOUS
  <2> QED
    BY <1>1, <2>1, <2>2, <2>3, CountedStep
<1> QED
  BY <1>1 DEF AllCounted

\* What an interrupt, or a reset, wakes.
LEMMA InterruptWakens ==
    ASSUME BlockingInv, NEW o \in {"toReceive", "toSend"},
           kernel' \in {Wake(kernel, o), WakeAndYield(kernel, o)}
    PROVE  Wakens(o, 1) /\ Shrunk(kernel', kernel)
<1>1. WakeAndYield(kernel, o).waiting = Wake(kernel, o).waiting
  BY DEF WakeAndYield, YieldingIf
<1>2. kernel'.waiting = Wake(kernel, o).waiting
  BY <1>1
<1> QED
  BY <1>2, WakensFirst, ControlIs DEF BlockingInv

\* An interrupt brings a message, or takes one: it wakes a task, or leaves that to the one
\* that has locked the queue.
LEMMA BringsCounted ==
    ASSUME BlockingInv, BlockingInv', NEW S, AllCounted(S), buffer'.length = buffer.length,
           buffer'.messages \in {buffer.messages, buffer.messages + 1},
           FromISR("toReceive", tx_lock, tx_lock' = tx_lock + 1 /\ UNCHANGED rx_lock)
    PROVE  AllCounted(S)'
<1>1. pc' = pc /\ call' = call
  BY DEF FromISR
<1>2. /\ buffer.length \in Nat /\ buffer.messages \in Nat
      /\ Recorded("toReceive") \in Nat /\ Recorded("toSend") \in Nat
      /\ \A o \in {"toReceive", "toSend"} : Wakens(o, 0)
  BY OwedIs, LengthIs, WakensNone DEF BlockingInv
<1>3. tx_lock \in {Unlocked} \cup Nat
  BY ControlIs DEF BlockingInv, CurrentOK, QueueAt
<1>4. CASE tx_lock = Unlocked
  <2>1. Wakens("toReceive", 1) /\ Shrunk(kernel', kernel)
    BY <1>4, InterruptWakens DEF FromISR
  <2>2. /\ Recorded("toReceive")' = Recorded("toReceive")
        /\ Recorded("toSend")' = Recorded("toSend")
    BY <1>4 DEF FromISR, Recorded
  <2>3. /\ Pays(Owed("toReceive")', Owed("toReceive"), 0, 1)
        /\ Pays(Owed("toSend")', Owed("toSend"), 0, 0)
    BY <1>2, <2>2 DEF Owed, Room, Pays
  <2> QED
    BY <1>1, <1>2, <2>1, <2>3, InterruptCounted
<1>5. CASE tx_lock /= Unlocked
  <2>1. kernel' = kernel /\ tx_lock' = tx_lock + 1 /\ rx_lock' = rx_lock
    BY <1>5 DEF FromISR
  <2>2. /\ Recorded("toReceive")' = Recorded("toReceive") + 1
        /\ Recorded("toSend")' = Recorded("toSend")
    BY <1>3, <1>5, <2>1 DEF Recorded, Unlocked
  <2>3. /\ Pays(Owed("toReceive")', Owed("toReceive"), 0, 0)
        /\ Pays(Owed("toSend")', Owed("toSend"), 0, 0)
    BY <1>2, <2>2 DEF Owed, Room, Pays
  <2>4. Shrunk(kernel', kernel)
    BY <2>1 DEF Shrunk
  <2> QED
    BY <1>1, <1>2, <2>3, <2>4, InterruptCounted
<1> QED
  BY <1>4, <1>5

LEMMA TakesCounted ==
    ASSUME BlockingInv, BlockingInv', NEW S, AllCounted(S), buffer'.length = buffer.length,
           buffer'.messages = buffer.messages - 1,
           FromISR("toSend", rx_lock, rx_lock' = rx_lock + 1 /\ UNCHANGED tx_lock)
    PROVE  AllCounted(S)'
<1>1. pc' = pc /\ call' = call
  BY DEF FromISR
<1>2. /\ buffer.length \in Nat /\ buffer.messages \in Nat
      /\ Recorded("toReceive") \in Nat /\ Recorded("toSend") \in Nat
      /\ \A o \in {"toReceive", "toSend"} : Wakens(o, 0)
  BY OwedIs, LengthIs, WakensNone DEF BlockingInv
<1>3. rx_lock \in {Unlocked} \cup Nat
  BY ControlIs DEF BlockingInv, CurrentOK, QueueAt
<1>4. CASE rx_lock = Unlocked
  <2>1. Wakens("toSend", 1) /\ Shrunk(kernel', kernel)
    BY <1>4, InterruptWakens DEF FromISR
  <2>2. /\ Recorded("toReceive")' = Recorded("toReceive")
        /\ Recorded("toSend")' = Recorded("toSend")
    BY <1>4 DEF FromISR, Recorded
  <2>3. /\ Pays(Owed("toReceive")', Owed("toReceive"), 0, 0)
        /\ Pays(Owed("toSend")', Owed("toSend"), 0, 1)
    BY <1>2, <2>2 DEF Owed, Room, Pays
  <2> QED
    BY <1>1, <1>2, <2>1, <2>3, InterruptCounted
<1>5. CASE rx_lock /= Unlocked
  <2>1. kernel' = kernel /\ rx_lock' = rx_lock + 1 /\ tx_lock' = tx_lock
    BY <1>5 DEF FromISR
  <2>2. /\ Recorded("toReceive")' = Recorded("toReceive")
        /\ Recorded("toSend")' = Recorded("toSend") + 1
    BY <1>3, <1>5, <2>1 DEF Recorded, Unlocked
  <2>3. /\ Pays(Owed("toReceive")', Owed("toReceive"), 0, 0)
        /\ Pays(Owed("toSend")', Owed("toSend"), 0, 0)
    BY <1>2, <2>2 DEF Owed, Room, Pays
  <2>4. Shrunk(kernel', kernel)
    BY <2>1 DEF Shrunk
  <2> QED
    BY <1>1, <1>2, <2>3, <2>4, InterruptCounted
<1> QED
  BY <1>4, <1>5

LEMMA InterruptsCounted ==
    ASSUME BlockingInv, BlockingInv', NEW S, AllCounted(S), buffer'.length = buffer.length,
           SendFromISR \/ GiveFromISR \/ ReceiveFromISR
    PROVE  AllCounted(S)'
<1>0. IInv /\ buffer.messages \in Nat /\ buffer.messages <= buffer.length /\ IsBuffer(buffer)
      /\ buffer.length \in Nat
  BY LengthIs DEF BlockingInv, IInv, Ring
<1>1. CASE SendFromISR
  <2>1. PICK op \in Senders, item \in Items :
            /\ op = "over" => buffer.length = 1
            /\ buffer' = Copied(buffer, CallOf(op, item, 0))
    BY <1>1 DEF SendFromISR
  <2>2. CallOf(op, item, 0).op = op
    BY DEF CallOf
  <2>3. buffer'.messages = IF op /= "over" \/ buffer.messages = 0
                           THEN buffer.messages + 1 ELSE buffer.messages
    BY <1>0, <2>1, <2>2, CopiedIs
  <2> QED
    BY <1>1, <2>3, BringsCounted DEF SendFromISR
<1>2. CASE GiveFromISR
  <2>1. buffer'.messages = buffer.messages + 1
    BY <1>0, <1>2 DEF GiveFromISR, CopyToBack, IsBuffer
  <2> QED
    BY <1>2, <2>1, BringsCounted DEF GiveFromISR
<1>3. CASE ReceiveFromISR
  <2>1. buffer'.messages = buffer.messages - 1
    BY <1>0, <1>3, FetchedIs DEF ReceiveFromISR
  <2> QED
    BY <1>3, <2>1, TakesCounted DEF ReceiveFromISR
<1> QED
  BY <1>1, <1>2, <1>3

\* A reset leaves the receivers nothing; it wakes one sender, which is enough where there was
\* one message.
LEMMA ResetsCounted ==
    ASSUME BlockingInv, BlockingInv', Resets, buffer'.length = buffer.length
    PROVE  /\ Counted("toReceive")'
           /\ Counted("toSend") /\ buffer.messages <= 1 => Counted("toSend")'
<1>1. /\ At("run") /\ buffer' = Empty(buffer) /\ UNCHANGED <<pc, call>> /\ ControlOK
      /\ rx_lock' = Unlocked /\ tx_lock' = Unlocked
      /\ kernel' = WakeAndYield(kernel, "toSend")
  BY DEF Resets, BlockingInv
<1>2. buffer'.messages = 0
  BY <1>1 DEF Empty
<1>3. Counted("toReceive")'
  <2>1. Room("toReceive")' = 0
    BY <1>2 DEF Room
  <2> QED
    BY <2>1, CountedNothing
<1>4. ASSUME Counted("toSend"), buffer.messages <= 1 PROVE Counted("toSend")'
  <2>1. Recorded("toSend")' = Recorded("toSend")
    BY <1>1, AtIs DEF Labels, QueueAt, Recorded
  <2>2. Pays(Owed("toSend")', Owed("toSend"), 0, 1)
    <3>1. buffer.length \in Nat /\ buffer.messages \in Nat /\ Recorded("toSend") \in Nat
      BY OwedIs, LengthIs DEF BlockingInv
    <3> QED
      BY <1>2, <1>4, <2>1, <3>1 DEF Owed, Room, Pays
  <2>3. Wakens("toSend", 1) /\ Shrunk(kernel', kernel)
    BY <1>1, InterruptWakens
  <2>4. Range(kernel'.waiting["toSend"]) \subseteq Range(kernel.waiting["toSend"])
    BY <2>3, KernelQueueAssumption DEF Shrunk
  <2>5. 0 \in {0, 1} /\ 1 \in Nat
    OBVIOUS
  <2> QED
    BY <1>1, <1>4, <2>2, <2>3, <2>4, <2>5, CountedStep
<1> QED
  BY <1>3, <1>4

LEMMA CountedNext ==
    ASSUME BlockingInv, NEW S, AllCounted(S), Masked = TRUE,
           [KernelQueueNext]_kernelQueueVars, Resets /\ "toSend" \in S => buffer.messages <= 1
    PROVE  AllCounted(S)'
<1>1. BlockingInv' /\ IInv
  BY BlockingStep DEF BlockingInv
<1>2. CASE CallSteps
  <2>1. buffer'.length = buffer.length
    BY <1>1, <1>2, ShapeKept
  <2>2. CASE Calls \/ Counts \/ GivesUp \/ StartsToWait
    BY <1>1, <2>2, CallsCounted, CountsCounted, ObstructedCounted
  <2>3. CASE Suspends \/ Locks \/ Looks \/ Resumes \/ Expires
    BY <1>1, <2>3, SuspendsCounted, LocksCounted, LooksCounted, ResumesCounted, ExpiresCounted
  <2>4. CASE Sends \/ Receives \/ Peeks
    BY <1>1, <2>1, <2>4, SendsCounted, ReceivesCounted, PeeksCounted
  <2>5. CASE UnlocksTx \/ UnlocksRx
    BY <1>1, <2>5, UnlocksCounted
  <2>6. CASE SendFromISR \/ GiveFromISR \/ ReceiveFromISR
    BY <1>1, <2>1, <2>6, InterruptsCounted
  <2>7. CASE Resets
    BY <1>1, <2>1, <2>7, ResetsCounted DEF AllCounted
  <2> QED
    BY <1>2, <2>2, <2>3, <2>4, <2>5, <2>6, <2>7 DEF CallSteps
<1>3. CASE vTaskDelay /\ UNCHANGED queueVars
  BY <1>1, <1>3, DelayCounted
<1>4. CASE SchedulerNext /\ UNCHANGED queueVars
  BY <1>1, <1>4, SchedulerCounted
<1>5. CASE UNCHANGED kernelQueueVars
  BY <1>5 DEF kernelQueueVars, taskServicesVars, schedulerVars, queueVars, AllCounted, Counted,
     Owed, Room, Recorded, Coming, Along, Doers
<1> QED
  BY <1>2, <1>3, <1>4, <1>5 DEF KernelQueueNext

\* What is counted comes.
LEMMA CountedComes ==
    ASSUME BlockingInv, NEW o \in {"toReceive", "toSend"}, Counted(o), QueueUnlocked,
           kernel.waiting[o] /= <<>>, Room(o) /= 0
    PROVE  OnTheirWay(Doers(o), o) /= {}
<1>1. Recorded(o) = 0
  BY DEF QueueUnlocked, Recorded
<1>2. Coming(o) /= {}
  <2>1. Room(o) \in Nat /\ Room(o) <= Cardinality(Coming(o))
    BY <1>1, OwedIs DEF Counted, Owed
  <2> QED
    BY <2>1, FS_EmptySet
<1>3. Coming(o) \subseteq OnTheirWay(Doers(o), o)
  <2>1. \A t : Contains(kernel.waiting[o], t) => t \in Range(kernel.waiting[o])
    BY OwedIs DEF Contains, Range
  <2> QED
    BY <2>1 DEF Coming, Along, OnTheirWay
<1> QED
  BY <1>2, <1>3

LEMMA CountedStart ==
    ASSUME KernelQueueInit
    PROVE  AllCounted({"toReceive", "toSend"})
<1>1. \A o \in Objects : kernel.waiting[o] = <<>>
  BY StartIs DEF KernelQueueInit, TaskServicesInit
<1> QED
  BY <1>1, KernelQueueAssumption DEF AllCounted, Counted

\* Whenever a task waits for a message that has come, another receiver is on its way to it,
\* whatever the interleaving of tasks, interrupts and ticks, for any number of tasks and any
\* length of the queue (queue.c:1205-1378, 2137-2186).
THEOREM NoReceiverIsForgotten ==
    ASSUME Masked = TRUE
    PROVE  KernelQueueSpec => []NoReceiverForgotten
<1> DEFINE I == AllCounted({"toReceive"})
<1>1. KernelQueueInit => I
  BY CountedStart DEF AllCounted
<1>2. BlockingInv /\ I /\ [KernelQueueNext]_kernelQueueVars => I'
  <2> SUFFICES ASSUME BlockingInv, I, [KernelQueueNext]_kernelQueueVars PROVE I'
    OBVIOUS
  <2>1. "toSend" \notin {"toReceive"}
    OBVIOUS
  <2> QED
    BY <2>1, CountedNext
<1>3. BlockingInv /\ I => NoReceiverForgotten
  BY CountedComes DEF AllCounted, NoReceiverForgotten, IsEmpty, Room, Doers
<1> HIDE DEF I
<1> QED
  BY <1>1, <1>2, <1>3, BlockingInvariant, PTL DEF KernelQueueSpec

\* No queue is reset with two messages or more.
ResetsOfAtMostOne == [][Resets => buffer.messages <= 1]_kernelQueueVars

\* No wake-up is lost, of those that wait to receive and of those that wait to send, unless a
\* queue is reset with two messages or more: a reset wakes one of the tasks that wait for
\* room (queue.c:725-1378, 2137-2254).
THEOREM NoWakeUpIsLost ==
    ASSUME Masked = TRUE
    PROVE  KernelQueueSpec /\ ResetsOfAtMostOne => []NoWakeUpLost
<1> DEFINE I == AllCounted({"toReceive", "toSend"})
           A == Resets => buffer.messages <= 1
<1>1. KernelQueueInit => I
  BY CountedStart
<1>2. BlockingInv /\ I /\ [KernelQueueNext]_kernelQueueVars /\ [A]_kernelQueueVars => I'
  <2>1. CASE A
    BY <2>1, CountedNext
  <2>2. CASE UNCHANGED kernelQueueVars
    BY <2>2 DEF kernelQueueVars, taskServicesVars, schedulerVars, queueVars, AllCounted, Counted,
       Owed, Room, Recorded, Coming, Along, Doers
  <2> QED
    BY <2>1, <2>2
<1>3. BlockingInv /\ I => NoWakeUpLost
  <2> SUFFICES ASSUME BlockingInv, I PROVE NoReceiverForgotten /\ NoSenderForgotten
    BY DEF NoWakeUpLost
  <2>1. NoReceiverForgotten
    BY CountedComes DEF AllCounted, NoReceiverForgotten, IsEmpty, Room, Doers
  <2>2. NoSenderForgotten
    <3>1. buffer.messages \in Nat /\ buffer.length \in Nat
      BY LengthIs DEF BlockingInv
    <3>2. ~ IsFull => Room("toSend") /= 0
      BY <3>1 DEF IsFull, Room
    <3>3. Doers("toSend") = Senders
      BY DEF Doers
    <3> QED
      BY <3>2, <3>3, CountedComes DEF AllCounted, NoSenderForgotten
  <2> QED
    BY <2>1, <2>2
<1> HIDE DEF I, A
<1> QED
  BY <1>1, <1>2, <1>3, BlockingInvariant, PTL DEF KernelQueueSpec, ResetsOfAtMostOne, A
=============================================================================
