------------------------- MODULE KernelQueueProofs -------------------------
(***************************************************************************)
(* A queue or a semaphore does what AtomicQueue promises, for every        *)
(* length, set of items, set of tasks and block times, when the critical   *)
(* sections hold off the interrupts that use it.  Nothing is assumed of    *)
(* the scheduler: the order of the items does not depend on who runs.      *)
(* First the ring of the items, then the steps of tasks and interrupts.    *)
(***************************************************************************)
EXTENDS KernelQueue, SequenceTheorems, TLAPS

\* A buffer is a ring whose two ends meet.
Ring(b) == IsBuffer(b) /\ EndsMeet(b)

\* The items are a sequence of items, one for each message.
LEMMA ContentsIsSeq ==
    ASSUME NEW b, Ring(b)
    PROVE  /\ Contents(b) \in Seq(Items)
           /\ Len(Contents(b)) = b.messages
           /\ DOMAIN Contents(b) = 1..b.messages
<1>1. b.messages \in Nat /\ b.length \in Nat \ {0} /\ b.kind \in Kinds
  BY DEF Ring, IsBuffer
<1>2. \A i \in 1..b.messages : b.kind = "queue" => Placed(b, b.read + i) \in Positions(b.length)
  BY DEF Ring, IsBuffer, Placed, Positions
<1>3. \A i \in 1..b.messages : b.kind = "queue" => b.storage[Placed(b, b.read + i)] \in Items
  BY <1>2 DEF Ring, IsBuffer
<1>4. Contents(b) \in [1..b.messages -> Items]
  BY <1>1, <1>3, QueueBufferAssumption DEF Contents
<1> QED
  BY <1>1, <1>4

\* When a sequence is another with an item behind it, in front of it, and when it is
\* another without its first item.
LEMMA IsAppend ==
    ASSUME NEW S, NEW s \in Seq(S), NEW r \in Seq(S), NEW x \in S, Len(r) = Len(s) + 1,
           \A i \in 1..(Len(s) + 1) : r[i] = IF i = Len(s) + 1 THEN x ELSE s[i]
    PROVE  r = Append(s, x)
OBVIOUS

LEMMA IsPrepend ==
    ASSUME NEW S, NEW s \in Seq(S), NEW r \in Seq(S), NEW x \in S, Len(r) = Len(s) + 1,
           \A i \in 1..(Len(s) + 1) : r[i] = IF i = 1 THEN x ELSE s[i - 1]
    PROVE  r = <<x>> \o s
OBVIOUS

LEMMA IsTail ==
    ASSUME NEW S, NEW s \in Seq(S), NEW r \in Seq(S), Len(s) > 0, Len(r) = Len(s) - 1,
           \A i \in 1..(Len(s) - 1) : r[i] = s[i + 1]
    PROVE  r = Tail(s)
OBVIOUS

\* An item put at the back becomes the last of the sequence.
LEMMA BackAppends ==
    ASSUME NEW b, Ring(b), b.messages < b.length,
           NEW item \in Items, b.kind /= "queue" => item = Token
    PROVE  /\ Ring(CopyToBack(b, item))
           /\ Contents(CopyToBack(b, item)) = Append(Contents(b), item)
<1> DEFINE c == CopyToBack(b, item)
           n == b.messages
<1>1. /\ n \in Nat /\ b.length \in Nat \ {0} /\ b.kind \in Kinds
      /\ b.read \in 0..(b.length - 1) /\ b.write \in 0..(b.length - 1)
      /\ b.storage \in [Positions(b.length) -> Items]
  BY DEF Ring, IsBuffer, Positions
<1>2. CASE b.kind = "queue"
  <2>1. c = [kind |-> b.kind, length |-> b.length,
             storage |-> [b.storage EXCEPT ![b.write] = item],
             write |-> After(b, b.write), read |-> b.read, messages |-> n + 1]
    BY <1>2 DEF CopyToBack, Ring, IsBuffer
  <2>2. IsBuffer(c)
    BY <1>1, <1>2, <2>1 DEF IsBuffer, After, Positions
  <2>3. b.write = Placed(b, b.read + n + 1)
    BY <1>1, <1>2 DEF Ring, EndsMeet, Placed
  <2>4. EndsMeet(c)
    BY <1>1, <1>2, <2>1, <2>3 DEF EndsMeet, Placed, After
  <2>5. ASSUME NEW i \in 1..(n + 1)
        PROVE  Contents(c)[i] = IF i = n + 1 THEN item ELSE Contents(b)[i]
    <3>1. Contents(c)[i] = [b.storage EXCEPT ![b.write] = item][Placed(b, b.read + i)]
      BY <1>1, <1>2, <2>1 DEF Contents, Placed
    <3>2. Placed(b, b.read + i) \in Positions(b.length)
      BY <1>1 DEF Placed, Positions
    <3>3. i /= n + 1 => Placed(b, b.read + i) /= b.write
      BY <1>1, <2>3 DEF Placed
    <3>4. i = n + 1 => Placed(b, b.read + i) = b.write
      BY <1>1, <2>3 DEF Placed
    <3>5. i /= n + 1 => Contents(b)[i] = b.storage[Placed(b, b.read + i)]
      BY <1>1, <1>2 DEF Contents
    <3> QED
      BY <1>1, <3>1, <3>2, <3>3, <3>4, <3>5
  <2>6. Contents(c) = Append(Contents(b), item)
    <3>1. Ring(c) /\ c.messages = n + 1
      BY <2>1, <2>2, <2>4 DEF Ring
    <3>2. /\ Contents(b) \in Seq(Items) /\ Len(Contents(b)) = n
          /\ Contents(c) \in Seq(Items) /\ Len(Contents(c)) = n + 1
      BY <3>1, ContentsIsSeq
    <3> HIDE DEF c, n
    <3> QED
      BY <2>5, <3>2, IsAppend
  <2> QED
    BY <2>2, <2>4, <2>6 DEF Ring
<1>3. CASE b.kind /= "queue"
  <2>1. c = [b EXCEPT !.messages = n + 1]
    BY <1>3 DEF CopyToBack
  <2>2. Ring(c) /\ c.messages = n + 1 /\ c.kind = b.kind
    BY <1>1, <1>3, <2>1 DEF Ring, IsBuffer, EndsMeet
  <2>3. Contents(c) = Append(Contents(b), item)
    BY <1>1, <1>3, <2>2, ContentsIsSeq DEF Contents
  <2> QED
    BY <2>2, <2>3
<1> QED
  BY <1>2, <1>3

\* An item put at the front becomes the first of the sequence.
LEMMA FrontPrepends ==
    ASSUME NEW b, Ring(b), b.messages < b.length,
           NEW item \in Items, b.kind /= "queue" => item = Token
    PROVE  /\ Ring(CopyToFront(b, item))
           /\ Contents(CopyToFront(b, item)) = <<item>> \o Contents(b)
<1> DEFINE c == CopyToFront(b, item)
           n == b.messages
<1>1. /\ n \in Nat /\ b.length \in Nat \ {0} /\ b.kind \in Kinds
      /\ b.read \in 0..(b.length - 1) /\ b.write \in 0..(b.length - 1)
      /\ b.storage \in [Positions(b.length) -> Items]
  BY DEF Ring, IsBuffer, Positions
<1>2. ASSUME Ring(c), c.messages = n + 1,
             \A i \in 1..(n + 1) : Contents(c)[i] = IF i = 1 THEN item ELSE Contents(b)[i - 1]
      PROVE  Contents(c) = <<item>> \o Contents(b)
  <2>1. /\ Contents(b) \in Seq(Items) /\ Len(Contents(b)) = n
        /\ Contents(c) \in Seq(Items) /\ Len(Contents(c)) = n + 1
    BY <1>2, ContentsIsSeq
  <2> HIDE DEF c, n
  <2> QED
    BY <1>2, <2>1, IsPrepend
<1>3. CASE b.kind = "queue"
  <2>1. c = [kind |-> b.kind, length |-> b.length,
             storage |-> [b.storage EXCEPT ![b.read] = item],
             write |-> b.write, read |-> Before(b, b.read), messages |-> n + 1]
    BY <1>3 DEF CopyToFront, Ring, IsBuffer
  <2>2. IsBuffer(c)
    BY <1>1, <1>3, <2>1 DEF IsBuffer, Before, Positions
  <2>3. EndsMeet(c)
    BY <1>1, <1>3, <2>1 DEF Ring, EndsMeet, Placed, Before
  <2>4. ASSUME NEW i \in 1..(n + 1)
        PROVE  Contents(c)[i] = IF i = 1 THEN item ELSE Contents(b)[i - 1]
    <3>1. Contents(c)[i] = [b.storage EXCEPT ![b.read] = item][Placed(b, Before(b, b.read) + i)]
      BY <1>1, <1>3, <2>1 DEF Contents, Placed
    <3>2. i = 1 => Placed(b, Before(b, b.read) + i) = b.read
      BY <1>1 DEF Placed, Before
    <3>3. i /= 1 => /\ Placed(b, Before(b, b.read) + i) = Placed(b, b.read + (i - 1))
                    /\ Placed(b, b.read + (i - 1)) /= b.read
                    /\ Placed(b, b.read + (i - 1)) \in Positions(b.length)
      <4>1. CASE b.read = 0
        BY <1>1, <4>1, SMTT(30) DEF Placed, Before, Positions
      <4>2. CASE b.read /= 0
        <5>1. Before(b, b.read) + i = b.read + (i - 1)
          BY <1>1, <4>2 DEF Before
        <5>2. n < b.length
          OBVIOUS
        <5>3. i /= 1 => Placed(b, b.read + (i - 1)) /= b.read
          BY <1>1, <5>2 DEF Placed
        <5>4. Placed(b, b.read + (i - 1)) \in Positions(b.length)
          BY <1>1, <5>2 DEF Placed, Positions
        <5> QED
          BY <5>1, <5>3, <5>4
      <4> QED
        BY <4>1, <4>2
    <3>4. i /= 1 => Contents(b)[i - 1] = b.storage[Placed(b, b.read + (i - 1))]
      BY <1>1, <1>3 DEF Contents
    <3>5. b.read \in Positions(b.length)
      BY <1>1 DEF Positions
    <3> QED
      BY <1>1, <3>1, <3>2, <3>3, <3>4, <3>5
  <2>5. Ring(c) /\ c.messages = n + 1
    BY <2>1, <2>2, <2>3 DEF Ring
  <2> HIDE DEF c, n
  <2>6. Contents(c) = <<item>> \o Contents(b)
    BY <1>2, <2>4, <2>5
  <2> QED
    BY <2>5, <2>6 DEF c
<1>4. CASE b.kind /= "queue"
  <2>1. c = [b EXCEPT !.messages = n + 1]
    BY <1>4 DEF CopyToFront
  <2>2. Ring(c) /\ c.messages = n + 1 /\ c.kind = b.kind
    BY <1>1, <1>4, <2>1 DEF Ring, IsBuffer, EndsMeet
  <2>3. \A i \in 1..(n + 1) : Contents(c)[i] = IF i = 1 THEN item ELSE Contents(b)[i - 1]
    BY <1>1, <1>4, <2>2 DEF Contents
  <2> QED
    BY <1>2, <2>2, <2>3
<1> QED
  BY <1>3, <1>4

\* Copying the first item out leaves the others.
LEMMA FromTakes ==
    ASSUME NEW b, Ring(b), b.messages > 0
    PROVE  /\ Ring(CopyFrom(b, b.messages - 1))
           /\ Contents(b) /= <<>>
           /\ Contents(CopyFrom(b, b.messages - 1)) = Tail(Contents(b))
<1> DEFINE n == b.messages
           c == CopyFrom(b, n - 1)
<1>1. /\ n \in Nat /\ b.length \in Nat \ {0} /\ b.kind \in Kinds /\ n <= b.length
      /\ b.read \in 0..(b.length - 1) /\ b.write \in 0..(b.length - 1)
      /\ b.storage \in [Positions(b.length) -> Items]
  BY DEF Ring, IsBuffer, Positions
<1>2. ASSUME Ring(c), c.messages = n - 1,
             \A i \in 1..(n - 1) : Contents(c)[i] = Contents(b)[i + 1]
      PROVE  Contents(c) = Tail(Contents(b)) /\ Contents(b) /= <<>>
  <2>1. /\ Contents(b) \in Seq(Items) /\ Len(Contents(b)) = n
        /\ Contents(c) \in Seq(Items) /\ Len(Contents(c)) = n - 1
    BY <1>2, ContentsIsSeq
  <2>2. n > 0
    OBVIOUS
  <2> HIDE DEF c, n
  <2> QED
    BY <1>2, <2>1, <2>2, IsTail
<1>3. CASE b.kind = "queue"
  <2>1. c = [kind |-> b.kind, length |-> b.length,
             storage |-> [b.storage EXCEPT ![After(b, b.read)] = Token],
             write |-> b.write, read |-> After(b, b.read), messages |-> n - 1]
    BY <1>3 DEF CopyFrom, Ring, IsBuffer
  <2>2. IsBuffer(c)
    <3>1. After(b, b.read) \in Positions(b.length)
      BY <1>1 DEF After, Positions
    <3>2. [b.storage EXCEPT ![After(b, b.read)] = Token] \in [Positions(b.length) -> Items]
      BY <1>1, QueueBufferAssumption
    <3> QED
      BY <1>1, <1>3, <2>1, <3>1, <3>2 DEF IsBuffer, Positions
  <2>3. EndsMeet(c)
    BY <1>1, <1>3, <2>1 DEF Ring, EndsMeet, Placed, After
  <2>4. ASSUME NEW i \in 1..(n - 1)
        PROVE  Contents(c)[i] = Contents(b)[i + 1]
    <3>1. Contents(c)[i] =
          [b.storage EXCEPT ![After(b, b.read)] = Token][Placed(b, After(b, b.read) + i)]
      <4>1. /\ c.kind = "queue" /\ c.messages = n - 1 /\ c.length = b.length
            /\ c.read = After(b, b.read)
            /\ c.storage = [b.storage EXCEPT ![After(b, b.read)] = Token]
        BY <1>3, <2>1
      <4> HIDE DEF c, n
      <4> QED
        BY <4>1 DEF Contents, Placed
    <3>2. /\ Placed(b, After(b, b.read) + i) = Placed(b, b.read + (i + 1))
          /\ Placed(b, b.read + (i + 1)) /= After(b, b.read)
          /\ Placed(b, b.read + (i + 1)) \in Positions(b.length)
      <4>1. CASE b.read = b.length - 1
        BY <1>1, <4>1, SMTT(30) DEF Placed, After, Positions
      <4>2. CASE b.read /= b.length - 1
        BY <1>1, <4>2, SMTT(30) DEF Placed, After, Positions
      <4> QED
        BY <4>1, <4>2
    <3>3. Contents(b)[i + 1] = b.storage[Placed(b, b.read + (i + 1))]
      BY <1>1, <1>3 DEF Contents
    <3> QED
      BY <1>1, <3>1, <3>2, <3>3
  <2> QED
    BY <1>2, <2>1, <2>2, <2>3, <2>4 DEF Ring
<1>4. CASE b.kind /= "queue"
  <2>1. c = [b EXCEPT !.messages = n - 1]
    BY <1>4 DEF CopyFrom
  <2>2. Ring(c) /\ c.messages = n - 1 /\ c.kind = b.kind
    BY <1>1, <1>4, <2>1 DEF Ring, IsBuffer, EndsMeet
  <2>3. \A i \in 1..(n - 1) : Contents(c)[i] = Contents(b)[i + 1]
    BY <1>1, <1>4, <2>2 DEF Contents
  <2> QED
    BY <1>2, <2>2, <2>3
<1> QED
  BY <1>3, <1>4

\* In a queue of one place, an item that overwrites is the only one.
LEMMA OverReplaces ==
    ASSUME NEW b, Ring(b), b.length = 1, b.kind = "queue", NEW item \in Items
    PROVE  /\ Ring(CopyOver(b, item))
           /\ Contents(CopyOver(b, item)) = <<item>>
<1> DEFINE c == CopyOver(b, item)
<1>1. /\ b.read = 0 /\ b.write = 0 /\ b.messages \in 0..1
      /\ b.storage \in [{0} -> Items]
  BY DEF Ring, IsBuffer, Positions
<1>2. c = [kind |-> b.kind, length |-> 1, storage |-> [b.storage EXCEPT ![0] = item],
           write |-> 0, read |-> 0, messages |-> 1]
  <2>1. CopyToFront(b, item) =
        [kind |-> b.kind, length |-> 1, storage |-> [b.storage EXCEPT ![0] = item],
         write |-> 0, read |-> 0, messages |-> b.messages + 1]
    <3>1. Before(b, b.read) = 0 /\ b.read = 0
      BY <1>1 DEF Before
    <3> QED
      BY <1>1, <3>1 DEF CopyToFront, Ring, IsBuffer
  <2>2. b.messages = 0 \/ b.messages = 1
    BY <1>1
  <2> HIDE DEF c
  <2>3. c = [CopyToFront(b, item) EXCEPT !.messages = 1]
    BY <2>2 DEF c, CopyOver
  <2> QED
    BY <2>1, <2>3
<1>3. Ring(c)
  BY <1>1, <1>2 DEF Ring, IsBuffer, EndsMeet, Placed, Positions, Kinds
<1>4. Contents(c)[1] = item
  BY <1>1, <1>2 DEF Contents, Placed
<1>5. Contents(c) \in Seq(Items) /\ Len(Contents(c)) = 1
  <2>1. c.messages = 1
    BY <1>2
  <2> HIDE DEF c
  <2> QED
    BY <1>3, <2>1, ContentsIsSeq
<1>6. Contents(c) = <<item>>
  <2> HIDE DEF c
  <2> QED
    BY <1>4, <1>5
<1> QED
  BY <1>3, <1>6

\* A new queue is an empty one, and so is one that has been reset.
LEMMA EmptyIsRing ==
    ASSUME NEW length \in Nat \ {0}, NEW kind \in Kinds,
           NEW shape, shape.length = length, shape.kind = kind
    PROVE  Ring(Empty(shape)) /\ Contents(Empty(shape)) = <<>>
<1> DEFINE c == Empty(shape)
<1>1. c = [kind |-> kind, length |-> length, storage |-> [p \in Positions(length) |-> Token],
           write |-> 0, read |-> length - 1, messages |-> 0]
  BY DEF Empty
<1>2. Ring(c)
  BY <1>1, QueueBufferAssumption DEF Ring, IsBuffer, EndsMeet, Placed, Positions
<1>3. c.messages = 0
  BY <1>1
<1>4. Contents(c) = <<>>
  <2> HIDE DEF c
  <2> QED
    BY <1>2, <1>3, ContentsIsSeq
<1> QED
  BY <1>2, <1>4

-----------------------------------------------------------------------------
\* A call and its item fit the object.
IsCall(c) ==
    /\ c = [op |-> c.op, item |-> c.item, wait |-> c.wait, timed |-> c.timed,
            outcome |-> c.outcome, loaded |-> c.loaded, inherited |-> c.inherited]
    /\ c.op \in {"none"} \cup Senders \cup Receivers
    /\ c.item \in Items

Fits(c, b) ==
    /\ IsCall(c)
    /\ b.kind /= "queue" => c.item = Token
    /\ c.op = "over" => b.length = 1 /\ b.kind = "queue"

CallsFit ==
    /\ call = [t \in Tasks |-> call[t]]
    /\ \A t \in Tasks : Fits(call[t], buffer)

\* The count that a receiver has loaded is still the count of the messages, as the
\* interrupts are masked until it has stored the new one.
CountIsFresh ==
    \A t \in Tasks :
        pc[t] = "found" =>
            /\ t = kernel.current /\ masked = TRUE
            /\ call[t].loaded = buffer.messages /\ buffer.messages > 0

IInv ==
    /\ Ring(buffer)
    /\ DOMAIN pc = Tasks
    /\ CallsFit
    /\ CountIsFresh

NoneFound == \A t \in Tasks : pc[t] /= "found"

\* A new call.
LEMMA NewCall ==
    ASSUME NEW op \in {"none"} \cup Senders \cup Receivers, NEW item \in Items, NEW wait
    PROVE  IsCall(CallOf(op, item, wait))
BY DEF IsCall, CallOf

LEMMA NoCallFits ==
    ASSUME NEW b PROVE Fits(NoCall, b)
BY NewCall, QueueBufferAssumption DEF Fits, NoCall, CallOf

\* Nobody is at "found" but a task in its critical section.
LEMMA NobodyElse ==
    ASSUME IInv, ~ masked \/ (\E label : Is(label) /\ label /= "found")
    PROVE  NoneFound
BY DEF IInv, CountIsFresh, NoneFound, Is

\* A task that goes anywhere else leaves nobody there, and a step that leaves the
\* program counters alone leaves none if there was none.
LEMMA GoesElsewhere ==
    ASSUME DOMAIN pc = Tasks, NoneFound,
           NEW t, NEW label, label /= "found",
           pc' = [pc EXCEPT ![t] = label]
    PROVE  DOMAIN pc' = Tasks /\ NoneFound'
BY DEF NoneFound, Tasks

\* A call that fits, of any task, keeps all of them fitting.
LEMMA CallChanges ==
    ASSUME CallsFit, buffer'.kind = buffer.kind, buffer'.length = buffer.length,
           NEW c, Fits(c, buffer), NEW t, call' = [call EXCEPT ![t] = c]
    PROVE  CallsFit'
BY DEF CallsFit, Fits

LEMMA CallStays ==
    ASSUME CallsFit, buffer'.kind = buffer.kind, buffer'.length = buffer.length, call' = call
    PROVE  CallsFit'
BY DEF CallsFit, Fits

\* A step that leaves the storage alone and puts nobody at "found" keeps the
\* invariant.
LEMMA Quiet ==
    ASSUME IInv, buffer' = buffer, DOMAIN pc' = Tasks, NoneFound',
           \/ call' = call
           \/ \E c, t : Fits(c, buffer) /\ call' = [call EXCEPT ![t] = c]
    PROVE  IInv'
<1>1. CallsFit'
  BY CallChanges, CallStays DEF IInv
<1> QED
  BY <1>1 DEF IInv, NoneFound, CountIsFresh

\* The same for a step from one label to another with a call that fits.
LEMMA QuietGoes ==
    ASSUME IInv, NEW from, from /= "found", Is(from), buffer' = buffer,
           NEW k, NEW label, label /= "found", Goes(k, label),
           \/ call' = call
           \/ \E c : Fits(c, buffer) /\ MyCall(c)
    PROVE  IInv'
<1>1. NoneFound
  BY NobodyElse
<1>2. DOMAIN pc' = Tasks /\ NoneFound'
  BY <1>1, GoesElsewhere DEF IInv, Goes
<1> QED
  BY <1>2, Quiet DEF MyCall

\* xTaskResumeAll from a label to another is quiet.
LEMMA QuietResumes ==
    ASSUME IInv, NEW from, from /= "found", NEW label, label /= "found",
           ResumeAll(from, label), buffer' = buffer, call' = call
    PROVE  IInv'
<1>1. Is(from) /\ NoneFound
  BY NobodyElse DEF ResumeAll
<1>2. CASE pc' = pc
  BY <1>1, <1>2, Quiet DEF IInv, NoneFound
<1>3. CASE \E k : Goes(k, label)
  BY <1>1, <1>3, QuietGoes
<1> QED
  BY <1>2, <1>3 DEF ResumeAll

\* The loop of a tick leaves the current task running.
LEMMA TicksKeepCurrent ==
    ASSUME NEW k PROVE UnblockFirst(k).current = k.current /\ EndTick(k).current = k.current
<1>1. \A j, t : AddTaskToReadyList(j, t).current = j.current
  BY DEF AddTaskToReadyList
<1>2. \A j, t : Detached(j, t).current = j.current /\ EventDetached(j, t).current = j.current
  BY DEF Detached, EventDetached
<1>3. \A j, c : AsksToSwitch(j, c).current = j.current
  BY DEF AsksToSwitch, YieldingIf
<1>4. \A j : Slices(j).current = j.current
  BY <1>3 DEF Slices
<1>5. \A j : ResetNextTaskUnblockTime(j).current = j.current
  BY DEF ResetNextTaskUnblockTime
<1>6. [k EXCEPT !.ticking = FALSE].current = k.current
  OBVIOUS
<1>7. UnblockFirst(k).current = k.current
  BY <1>1, <1>2, <1>3 DEF UnblockFirst
<1>8. EndTick(k).current = k.current
  BY <1>4, <1>5, <1>6 DEF EndTick
<1> QED
  BY <1>7, <1>8

\* The scheduler and the delays of tasks are quiet.
LEMMA SchedulerKeeps ==
    ASSUME IInv, SchedulerNext, buffer' = buffer, call' = call
    PROVE  IInv'
<1>1. CASE IdleFrees
  <2>1. NoneFound
    BY <1>1, NobodyElse DEF IdleFrees, At
  <2>2. DOMAIN pc' = Tasks /\ NoneFound'
    BY <1>1, <2>1, GoesElsewhere DEF IInv, IdleFrees
  <2> QED
    BY <2>2, Quiet
<1>2. CASE IdleYields \/ SysTick \/ PendSV
  <2>1. NoneFound
    BY <1>2, NobodyElse DEF IdleYields, SysTick, PendSV, At, Interruptible
  <2>2. pc' = pc
    BY <1>2 DEF IdleYields, SysTick, PendSV
  <2> QED
    BY <2>1, <2>2, Quiet DEF IInv, NoneFound
<1>3. CASE TickLoops
  <2>1. kernel'.current = kernel.current
    BY <1>3, TicksKeepCurrent DEF TickLoops
  <2>2. pc' = pc /\ masked' = masked
    BY <1>3 DEF TickLoops
  <2>3. CallsFit'
    BY CallStays DEF IInv
  <2> QED
    BY <2>1, <2>2, <2>3 DEF IInv, CountIsFresh
<1> QED
  BY <1>1, <1>2, <1>3 DEF SchedulerNext

LEMMA DelayKeeps ==
    ASSUME IInv, vTaskDelay, buffer' = buffer, call' = call
    PROVE  IInv'
<1>1. CASE \E from, k, label : Step(from, k, label) /\ from /= "found" /\ label /= "found"
  BY <1>1, QuietGoes DEF Step, At
<1>2. CASE ResumeAll("delay_resume", IF kernel.missed THEN "run" ELSE "delay_yield")
  BY <1>2, QuietResumes
<1> QED
  BY <1>1, <1>2 DEF vTaskDelay, ResumeAllAndYield

\* What a call waits, counts and remembers does not matter.
LEMMA ExceptFits ==
    ASSUME NEW b, NEW c, Fits(c, b), NEW x
    PROVE  /\ Fits([c EXCEPT !.wait = x], b)
           /\ Fits([c EXCEPT !.timed = x], b)
           /\ Fits([c EXCEPT !.outcome = x], b)
           /\ Fits([c EXCEPT !.loaded = x], b)
           /\ Fits([c EXCEPT !.inherited = x], b)
BY DEF Fits, IsCall

LEMMA MineFits ==
    ASSUME IInv, NEW label, Is(label)
    PROVE  Fits(Mine, buffer)
BY DEF IInv, CallsFit, Mine, Is

\* The steps of a call that leave the storage alone.
LEMMA WaitingKeeps ==
    ASSUME IInv,
           \/ Calls \/ GivesUp \/ StartsToWait \/ Suspends \/ Locks \/ Looks
           \/ UnlocksTx \/ UnlocksRx \/ Resumes \/ Expires
    PROVE  IInv' /\ buffer' = buffer
<1>1. CASE Calls
  <2>1. PICK op \in Senders \cup Receivers, item \in Items, wait \in QueueBlockTimes :
            /\ buffer.kind /= "queue" \/ op \in Receivers => item = Token
            /\ buffer.kind /= "queue" => op \in {"back", "receive"}
            /\ op = "over" => buffer.length = 1
            /\ MyCall(CallOf(op, item, wait))
    BY <1>1 DEF Calls
  <2>2. Fits(CallOf(op, item, wait), buffer)
    <3>1. IsCall(CallOf(op, item, wait))
      BY NewCall
    <3>2. CallOf(op, item, wait).op = op /\ CallOf(op, item, wait).item = item
      BY DEF CallOf
    <3>3. op = "over" => buffer.length = 1 /\ buffer.kind = "queue"
      BY <2>1
    <3>4. buffer.kind /= "queue" => item = Token
      BY <2>1
    <3> QED
      BY <3>1, <3>2, <3>3, <3>4 DEF Fits
  <2> QED
    BY <1>1, <2>1, <2>2, QuietGoes DEF Calls, At
<1>2. CASE GivesUp
  BY <1>2, NoCallFits, QuietGoes DEF GivesUp, Returns, At
<1>3. CASE StartsToWait
  <2>1. Fits([Mine EXCEPT !.timed = TRUE], buffer)
    BY <1>3, MineFits, ExceptFits DEF StartsToWait, At
  <2> QED
    BY <1>3, <2>1, QuietGoes DEF StartsToWait, At
<1>4. CASE Suspends
  BY <1>4, QuietGoes DEF Suspends, Step, At, queueVars
<1>5. CASE Locks
  <2>1. Fits(Mine, buffer)
    BY <1>5, MineFits DEF Locks, At
  <2>2. /\ Fits([[Mine EXCEPT !.outcome = "expired"] EXCEPT !.wait = AfterTimeOut(Mine.wait)], buffer)
        /\ Fits([Mine EXCEPT !.wait = Remaining(kernel, Mine.wait)], buffer)
    BY <2>1, ExceptFits
  <2>3. Fits([Mine EXCEPT !.outcome = "expired", !.wait = AfterTimeOut(@)], buffer)
    BY <2>1, <2>2 DEF Fits, IsCall
  <2>4. PICK k, label : label \in {"unlock", "look"} /\ Goes(k, label)
    BY <1>5 DEF Locks
  <2>5. \E c : Fits(c, buffer) /\ MyCall(c)
    BY <1>5, <2>2, <2>3 DEF Locks
  <2> QED
    BY <1>5, <2>4, <2>5, QuietGoes DEF Locks, At
<1>6. CASE Looks
  <2>1. Fits(Mine, buffer)
    BY <1>6, MineFits DEF Looks, At
  <2>2. Fits([Mine EXCEPT !.outcome = "again"], buffer)
    BY <2>1, ExceptFits
  <2>3. \A x : Fits([Mine EXCEPT !.outcome = "placed", !.inherited = x], buffer)
    <3> TAKE x
    <3>1. Fits([[Mine EXCEPT !.outcome = "placed"] EXCEPT !.inherited = x], buffer)
      BY <2>1, ExceptFits
    <3> QED
      BY <2>1, <3>1 DEF Fits, IsCall
  <2>4. PICK k : Goes(k, "unlock")
    BY <1>6 DEF Looks
  <2>5. \E c : Fits(c, buffer) /\ MyCall(c)
    BY <1>6, <2>2, <2>3 DEF Looks
  <2> QED
    BY <1>6, <2>4, <2>5, QuietGoes DEF Looks, At
<1>7. CASE UnlocksTx \/ UnlocksRx
  BY <1>7, QuietGoes DEF UnlocksTx, UnlocksRx, Step, At
<1>8. CASE Resumes
  <2>1. CASE Step("yield", Yielding(kernel), "try")
    BY <1>8, <2>1, QuietGoes DEF Resumes, Step, At, queueVars
  <2>2. CASE \E label : label /= "found" /\ ResumeAll("resume", label)
    BY <1>8, <2>2, QuietResumes DEF Resumes, queueVars
  <2> QED
    BY <1>8, <2>1, <2>2 DEF Resumes, ResumeAllAndYield, queueVars
<1>9. CASE Expires
  BY <1>9, NoCallFits, QuietGoes DEF Expires, Returns, At
<1> QED
  BY <1>1, <1>2, <1>3, <1>4, <1>5, <1>6, <1>7, <1>8, <1>9
     DEF Calls, GivesUp, StartsToWait, Suspends, Locks, Looks, UnlocksTx, UnlocksRx,
         Resumes, Expires, queueVars

\* A receiver counts the messages in a critical section, which no other step breaks.
LEMMA CountsKeeps ==
    ASSUME IInv, Counts
    PROVE  IInv' /\ buffer' = buffer
<1>1. buffer' = buffer /\ NoneFound /\ Is("try") /\ kernel.current \in Tasks
  BY NobodyElse DEF Counts, At, Is
<1>2. Fits([Mine EXCEPT !.loaded = buffer.messages], buffer)
  BY <1>1, MineFits, ExceptFits
<1>3. CallsFit'
  BY <1>1, <1>2, CallChanges DEF Counts, MyCall, IInv
<1>4. buffer.messages > 0
  BY DEF Counts, IsEmpty, IInv, Ring, IsBuffer
<1>5. call'[kernel.current].loaded = buffer.messages
  BY <1>1, MineFits DEF Counts, MyCall, IInv, CallsFit, Fits, IsCall
<1>6. /\ kernel'.current = kernel.current /\ masked' = TRUE
      /\ pc' = [pc EXCEPT ![kernel.current] = "found"]
  BY DEF Counts, Goes
<1>7. CountIsFresh'
  BY <1>1, <1>4, <1>5, <1>6 DEF CountIsFresh, NoneFound, IInv
<1> QED
  BY <1>1, <1>3, <1>6, <1>7 DEF IInv

\* A receiver that ends its critical section leaves nobody at "found".
LEMMA LeavesFound ==
    ASSUME IInv, Is("found"), NEW k, Returns(k)
    PROVE  DOMAIN pc' = Tasks /\ NoneFound'
BY DEF IInv, CountIsFresh, NoneFound, Is, Returns, Goes

LEMMA PeeksKeeps ==
    ASSUME IInv, Peeks
    PROVE  IInv' /\ buffer' = buffer
<1>1. PICK k : Returns(k)
  BY DEF Peeks
<1>2. DOMAIN pc' = Tasks /\ NoneFound'
  BY <1>1, LeavesFound DEF Peeks
<1> QED
  BY <1>1, <1>2, NoCallFits, Quiet DEF Peeks, Returns, MyCall

-----------------------------------------------------------------------------
\* No operation changes the kind or the length of an object.
LEMMA ShapeStays ==
    ASSUME NEW b, Ring(b), NEW item, NEW n
    PROVE  /\ CopyToBack(b, item).kind = b.kind /\ CopyToBack(b, item).length = b.length
           /\ CopyToFront(b, item).kind = b.kind /\ CopyToFront(b, item).length = b.length
           /\ CopyOver(b, item).kind = b.kind /\ CopyOver(b, item).length = b.length
           /\ CopyFrom(b, n).kind = b.kind /\ CopyFrom(b, n).length = b.length
           /\ Empty(b).kind = b.kind /\ Empty(b).length = b.length
<1>1. /\ CopyToBack(b, item).kind = b.kind /\ CopyToBack(b, item).length = b.length
  BY DEF CopyToBack, Ring, IsBuffer
<1>2. /\ CopyToFront(b, item).kind = b.kind /\ CopyToFront(b, item).length = b.length
      /\ "kind" \in DOMAIN CopyToFront(b, item) /\ "length" \in DOMAIN CopyToFront(b, item)
  BY DEF CopyToFront, Ring, IsBuffer
<1>3. CopyOver(b, item).kind = b.kind /\ CopyOver(b, item).length = b.length
  BY <1>2 DEF CopyOver
<1>4. CopyFrom(b, n).kind = b.kind /\ CopyFrom(b, n).length = b.length
  BY DEF CopyFrom, Ring, IsBuffer
<1>5. Empty(b).kind = b.kind /\ Empty(b).length = b.length
  BY DEF Empty
<1> QED
  BY <1>1, <1>2, <1>3, <1>4, <1>5

LEMMA TailOfOne ==
    ASSUME NEW S, NEW s \in Seq(S), Len(s) = 1, NEW x \in S
    PROVE  <<x>> = <<x>> \o Tail(s)
<1>1. s /= <<>>
  BY EmptySeq
<1>2. Tail(s) \in Seq(S) /\ Len(Tail(s)) = 0
  BY <1>1, HeadTailProperties
<1>3. Tail(s) = <<>>
  BY <1>2, EmptySeq
<1>4. <<x>> \in Seq(S)
  OBVIOUS
<1> QED
  BY <1>3, <1>4, ConcatEmptySeq

\* An item copied in is one sent, or one that overwrites.
LEMMA CopiedIsPromised ==
    ASSUME Ring(buffer), NEW c, Fits(c, buffer), c.op \in Senders,
           ~ IsFull \/ c.op = "over",
           buffer' = Copied(buffer, c)
    PROVE  /\ Ring(buffer')
           /\ buffer'.kind = buffer.kind /\ buffer'.length = buffer.length
           /\ Promised!Next
<1>1. /\ c.item \in Items /\ (buffer.kind /= "queue" => c.item = Token)
      /\ c.op = "over" => buffer.length = 1 /\ buffer.kind = "queue"
  BY DEF Fits, IsCall
<1>2. buffer.messages \in Nat /\ buffer.length \in Nat \ {0} /\ buffer.messages <= buffer.length
  BY DEF Ring, IsBuffer
<1>3. Contents(buffer) \in Seq(Items) /\ Len(Contents(buffer)) = buffer.messages
  BY ContentsIsSeq
<1>4. CASE c.op = "back"
  <2>1. buffer.messages < buffer.length
    BY <1>2, <1>4 DEF IsFull
  <2>2. buffer' = CopyToBack(buffer, c.item)
    BY <1>4 DEF Copied
  <2>3. Ring(buffer') /\ Contents(buffer') = Append(Contents(buffer), c.item)
    BY <1>1, <2>1, <2>2, BackAppends
  <2>4. buffer'.kind = buffer.kind /\ buffer'.length = buffer.length
    BY <2>2, ShapeStays
  <2>5. Promised!Send
    BY <1>1, <1>3, <2>1, <2>3 DEF Promised!Send
  <2> QED
    BY <2>3, <2>4, <2>5 DEF Promised!Next
<1>5. CASE c.op = "front"
  <2>1. buffer.messages < buffer.length
    BY <1>2, <1>5 DEF IsFull
  <2>2. buffer' = CopyToFront(buffer, c.item)
    BY <1>5 DEF Copied
  <2>3. Ring(buffer') /\ Contents(buffer') = <<c.item>> \o Contents(buffer)
    BY <1>1, <2>1, <2>2, FrontPrepends
  <2>4. buffer'.kind = buffer.kind /\ buffer'.length = buffer.length
    BY <2>2, ShapeStays
  <2>5. Promised!Send
    BY <1>1, <1>3, <2>1, <2>3 DEF Promised!Send
  <2> QED
    BY <2>3, <2>4, <2>5 DEF Promised!Next
<1>6. CASE c.op = "over"
  <2>1. buffer' = CopyOver(buffer, c.item)
    BY <1>6 DEF Copied
  <2>2. Ring(buffer') /\ Contents(buffer') = <<c.item>>
    BY <1>1, <1>6, <2>1, OverReplaces
  <2>3. buffer'.kind = buffer.kind /\ buffer'.length = buffer.length
    BY <2>1, ShapeStays
  <2>4. CASE buffer.messages = 0
    <3>1. Contents(buffer) = <<>> /\ <<c.item>> = Append(<<>>, c.item)
      BY <1>1, <1>3, <2>4
    <3>2. Promised!Send
      BY <1>1, <1>3, <1>6, <2>2, <2>4, <3>1 DEF Promised!Send
    <3> QED
      BY <2>2, <2>3, <3>2 DEF Promised!Next
  <2>5. CASE buffer.messages = 1
    <3>1. Contents(buffer) /= <<>>
      BY <1>3, <2>5, EmptySeq
    <3>2. <<c.item>> = <<c.item>> \o Tail(Contents(buffer))
      BY <1>1, <1>3, <2>5, TailOfOne
    <3>3. Promised!Overwrite
      BY <1>1, <2>2, <3>1, <3>2 DEF Promised!Overwrite
    <3> QED
      BY <2>2, <2>3, <3>3 DEF Promised!Next
  <2> QED
    BY <1>1, <1>2, <1>6, <2>4, <2>5
<1> QED
  BY <1>4, <1>5, <1>6 DEF Senders

\* The first item copied out is one received.
LEMMA FromIsPromised ==
    ASSUME Ring(buffer), buffer.messages > 0, buffer' = CopyFrom(buffer, buffer.messages - 1)
    PROVE  /\ Ring(buffer')
           /\ buffer'.kind = buffer.kind /\ buffer'.length = buffer.length
           /\ Promised!Next
<1>1. /\ Ring(buffer') /\ Contents(buffer) /= <<>>
      /\ Contents(buffer') = Tail(Contents(buffer))
  BY FromTakes
<1>2. buffer'.kind = buffer.kind /\ buffer'.length = buffer.length
  BY ShapeStays
<1>3. Promised!Receive
  BY <1>1 DEF Promised!Receive
<1> QED
  BY <1>1, <1>2, <1>3 DEF Promised!Next

-----------------------------------------------------------------------------
\* A step that changes the storage and puts nobody at "found" keeps the invariant.
LEMMA Busy ==
    ASSUME IInv, Ring(buffer'), buffer'.kind = buffer.kind, buffer'.length = buffer.length,
           DOMAIN pc' = Tasks, NoneFound',
           \/ call' = call
           \/ \E c, t : Fits(c, buffer) /\ call' = [call EXCEPT ![t] = c]
    PROVE  IInv'
<1>1. CallsFit'
  BY CallChanges, CallStays DEF IInv
<1> QED
  BY <1>1 DEF IInv, NoneFound, CountIsFresh

LEMMA SendsKeeps ==
    ASSUME IInv, Sends
    PROVE  IInv' /\ Promised!Next
<1>1. Is("try") /\ NoneFound
  BY NobodyElse DEF Sends, At
<1>2. /\ Ring(buffer') /\ buffer'.kind = buffer.kind /\ buffer'.length = buffer.length
      /\ Promised!Next
  BY <1>1, MineFits, CopiedIsPromised DEF Sends, IInv
<1>3. PICK k : Returns(k)
  BY DEF Sends
<1>4. DOMAIN pc' = Tasks /\ NoneFound'
  BY <1>1, <1>3, GoesElsewhere DEF IInv, Returns, Goes
<1> QED
  BY <1>2, <1>3, <1>4, NoCallFits, Busy DEF Returns, MyCall

LEMMA ReceivesKeeps ==
    ASSUME IInv, Receives
    PROVE  IInv' /\ Promised!Next
<1>1. Mine.loaded = buffer.messages /\ buffer.messages > 0
  BY DEF Receives, Is, IInv, CountIsFresh, Mine
<1>2. /\ Ring(buffer') /\ buffer'.kind = buffer.kind /\ buffer'.length = buffer.length
      /\ Promised!Next
  BY <1>1, FromIsPromised DEF Receives, IInv
<1>3. PICK k : Returns(k)
  BY DEF Receives
<1>4. DOMAIN pc' = Tasks /\ NoneFound'
  BY <1>3, LeavesFound DEF Receives
<1> QED
  BY <1>2, <1>3, <1>4, NoCallFits, Busy DEF Returns, MyCall

LEMMA ResetsKeeps ==
    ASSUME IInv, Resets
    PROVE  IInv' /\ Promised!Next
<1>1. NoneFound /\ buffer.length \in Nat \ {0} /\ buffer.kind \in Kinds
  BY NobodyElse DEF Resets, At, IInv, Ring, IsBuffer
<1>2. Ring(buffer') /\ Contents(buffer') = <<>>
  BY <1>1, EmptyIsRing DEF Resets
<1>3. buffer'.kind = buffer.kind /\ buffer'.length = buffer.length
  BY ShapeStays DEF Resets, IInv
<1>4. Promised!Next
  BY <1>2, <1>3 DEF Promised!Next, Promised!Reset, Resets
<1>5. DOMAIN pc' = Tasks /\ NoneFound'
  BY <1>1 DEF Resets, NoneFound, IInv
<1> QED
  BY <1>2, <1>3, <1>4, <1>5, Busy DEF Resets

\* The interrupts do not come into a critical section.
LEMMA InterruptsKeep ==
    ASSUME IInv, Masked = TRUE, SendFromISR \/ GiveFromISR \/ ReceiveFromISR
    PROVE  IInv' /\ Promised!Next
<1>1. ~ masked /\ pc' = pc /\ call' = call
  BY DEF SendFromISR, GiveFromISR, ReceiveFromISR, FromISR, Interruptible
<1>2. DOMAIN pc' = Tasks /\ NoneFound'
  <2>1. NoneFound
    BY <1>1, NobodyElse
  <2> QED
    BY <1>1, <2>1 DEF NoneFound, IInv
<1>3. ASSUME Ring(buffer'), buffer'.kind = buffer.kind, buffer'.length = buffer.length
      PROVE  IInv'
  BY <1>1, <1>2, <1>3, Busy
<1>4. CASE SendFromISR
  <2>1. PICK op \in Senders, item \in Items :
            /\ IF op = "over" THEN buffer.length = 1 ELSE ~ IsFull
            /\ buffer' = Copied(buffer, CallOf(op, item, 0))
    BY <1>4 DEF SendFromISR
  <2>2. IsCall(CallOf(op, item, 0))
    BY NewCall
  <2>3. CallOf(op, item, 0).op = op
    BY DEF CallOf
  <2>4. buffer.kind = "queue"
    BY <1>4 DEF SendFromISR
  <2>5. Fits(CallOf(op, item, 0), buffer)
    BY <2>1, <2>2, <2>3, <2>4 DEF Fits
  <2> QED
    BY <1>3, <2>1, <2>3, <2>5, CopiedIsPromised DEF IInv
<1>5. CASE GiveFromISR
  <2>1. buffer' = Copied(buffer, CallOf("back", Token, 0)) /\ ~ IsFull
    BY <1>5 DEF GiveFromISR, Copied, CallOf
  <2>2. IsCall(CallOf("back", Token, 0))
    BY NewCall, QueueBufferAssumption DEF Senders
  <2>3. CallOf("back", Token, 0).op = "back" /\ CallOf("back", Token, 0).item = Token
    BY DEF CallOf
  <2>4. Fits(CallOf("back", Token, 0), buffer)
    BY <2>2, <2>3 DEF Fits
  <2> QED
    BY <1>3, <2>1, <2>3, <2>4, CopiedIsPromised DEF IInv, Senders
<1>6. CASE ReceiveFromISR
  <2>1. buffer.messages > 0 /\ buffer' = CopyFrom(buffer, buffer.messages - 1)
    BY <1>6 DEF ReceiveFromISR, IsEmpty, IInv, Ring, IsBuffer
  <2> QED
    BY <1>3, <2>1, FromIsPromised DEF IInv
<1> QED
  BY <1>4, <1>5, <1>6

-----------------------------------------------------------------------------
PromisedVars == <<Contents(buffer), buffer.length, buffer.kind = "queue">>

LEMMA StepKeeps ==
    ASSUME IInv, Masked = TRUE, [KernelQueueNext]_kernelQueueVars
    PROVE  IInv' /\ (buffer' = buffer \/ Promised!Next)
<1>1. CASE Calls \/ GivesUp \/ StartsToWait \/ Suspends \/ Locks \/ Looks
           \/ UnlocksTx \/ UnlocksRx \/ Resumes \/ Expires
  BY <1>1, WaitingKeeps
<1>2. CASE Sends
  BY <1>2, SendsKeeps
<1>3. CASE Counts \/ Peeks
  BY <1>3, CountsKeeps, PeeksKeeps
<1>4. CASE Receives
  BY <1>4, ReceivesKeeps
<1>5. CASE Resets
  BY <1>5, ResetsKeeps
<1>6. CASE SendFromISR \/ GiveFromISR \/ ReceiveFromISR
  BY <1>6, InterruptsKeep
<1>7. CASE vTaskDelay /\ UNCHANGED queueVars
  BY <1>7, DelayKeeps DEF queueVars
<1>8. CASE SchedulerNext /\ UNCHANGED <<previous_wake, queueVars>>
  BY <1>8, SchedulerKeeps DEF queueVars
<1>9. CASE UNCHANGED kernelQueueVars
  BY <1>9 DEF kernelQueueVars, taskServicesVars, schedulerVars, queueVars,
              IInv, CallsFit, CountIsFresh
<1> QED
  BY <1>1, <1>2, <1>3, <1>4, <1>5, <1>6, <1>7, <1>8, <1>9 DEF KernelQueueNext, CallSteps

LEMMA InitHolds ==
    ASSUME KernelQueueInit
    PROVE  IInv /\ Promised!Init
<1>1. PICK shape \in Shapes :
          buffer = IF shape.kind = "mutex" THEN CopyToBack(Empty(shape), Token) ELSE Empty(shape)
  BY KernelQueueAssumption DEF KernelQueueInit
<1>2. shape.kind \in Kinds /\ shape.length \in Nat \ {0}
  BY DEF Shapes
<1>3. Ring(Empty(shape)) /\ Contents(Empty(shape)) = <<>>
  BY <1>2, EmptyIsRing
<1>4. Empty(shape).messages = 0 /\ Empty(shape).length = shape.length
      /\ Empty(shape).kind = shape.kind
  BY DEF Empty
<1>5. Ring(buffer) /\ (Contents(buffer) = <<>> \/ \E item \in Items : Contents(buffer) = <<item>>)
  <2>1. CASE shape.kind = "mutex"
    <3>1. buffer = CopyToBack(Empty(shape), Token)
      BY <1>1, <2>1
    <3>2. Ring(buffer) /\ Contents(buffer) = Append(<<>>, Token)
      <4>1. PICK e : e = Empty(shape)
        OBVIOUS
      <4>2. Ring(e) /\ Contents(e) = <<>> /\ e.messages < e.length
        BY <1>2, <1>3, <1>4, <4>1
      <4>3. /\ Ring(CopyToBack(e, Token))
            /\ Contents(CopyToBack(e, Token)) = Append(Contents(e), Token)
        BY <4>2, BackAppends, QueueBufferAssumption
      <4> QED
        BY <3>1, <4>1, <4>2, <4>3
    <3>3. Append(<<>>, Token) = <<Token>>
      BY QueueBufferAssumption
    <3> QED
      BY <3>2, <3>3, QueueBufferAssumption
  <2>2. CASE shape.kind /= "mutex"
    BY <1>1, <1>3, <2>2
  <2> QED
    BY <2>1, <2>2
<1>6. Promised!Init
  BY <1>5 DEF Promised!Init, Ring, IsBuffer
<1>7. call = [t \in Tasks |-> NoCall] /\ DOMAIN pc = Tasks /\ NoneFound
  BY DEF KernelQueueInit, TaskServicesInit, SchedulerInit, NoneFound
<1>8. CallsFit
  BY <1>7, NoCallFits DEF CallsFit
<1> QED
  BY <1>5, <1>6, <1>7, <1>8 DEF IInv, CountIsFresh, NoneFound

\* In every state the ring's ends meet, calls fit the object, and a receiver's
\* count is fresh (queue.c:1239-1378, 2040-2134).
THEOREM QueueInvariant ==
    ASSUME Masked = TRUE
    PROVE  KernelQueueSpec => []IInv
<1>1. KernelQueueInit => IInv
  BY InitHolds
<1>2. IInv /\ [KernelQueueNext]_kernelQueueVars => IInv'
  BY StepKeeps
<1> QED
  BY <1>1, <1>2, PTL DEF KernelQueueSpec

\* Items are received in the order of the queue, each once, and none is put in
\* where there is no room (queue.c:725-1378, 1752-1841, 2040-2134).
THEOREM QueueIsFirstInFirstOut ==
    ASSUME Masked = TRUE
    PROVE  KernelQueueSpec => FirstInFirstOut
<1>1. KernelQueueInit => Promised!Init
  BY InitHolds
<1>2. IInv /\ [KernelQueueNext]_kernelQueueVars => [Promised!Next]_PromisedVars
  BY StepKeeps DEF PromisedVars
<1> QED
  BY <1>1, <1>2, QueueInvariant, PTL
     DEF KernelQueueSpec, FirstInFirstOut, Promised!Spec, PromisedVars
=============================================================================
