---------------------------- MODULE QueueBuffer ----------------------------
(***************************************************************************)
(* The storage of a queue (tiva_tm4c/FreeRTOS/queue.c): a ring of items.   *)
(* write is where the next item goes (pcWriteTo), read the place in front  *)
(* of the first item (pcReadFrom), messages uxMessagesWaiting, length      *)
(* uxLength.  A semaphore or a mutex has items of size zero: it counts.    *)
(***************************************************************************)
EXTENDS Integers, Sequences

CONSTANTS
    Items,   \* the items sent
    Token    \* what is where no item is; a semaphore has no others

ASSUME QueueBufferAssumption == Token \in Items

Kinds == {"queue", "semaphore", "mutex"}
Shapes == [kind : Kinds, length : Nat \ {0}]

Positions(length) == 0..(length - 1)

IsBuffer(b) ==
    /\ b = [kind |-> b.kind, length |-> b.length, storage |-> b.storage,
            write |-> b.write, read |-> b.read, messages |-> b.messages]
    /\ b.kind \in Kinds /\ b.length \in Nat \ {0}
    /\ b.storage \in [Positions(b.length) -> Items]
    /\ b.write \in Positions(b.length) /\ b.read \in Positions(b.length)
    /\ b.messages \in 0..b.length

\* Mutant: the position behind the last.
AfterUnwrapped(b, position) == position + 1

\* The position behind one, and the one in front of it.
After(b, position) == IF position + 1 = b.length THEN 0 ELSE position + 1
Before(b, position) == IF position = 0 THEN b.length - 1 ELSE position - 1

\* prvInitialiseNewQueue and xQueueGenericReset
Empty(shape) ==
    [kind |-> shape.kind, length |-> shape.length,
     storage |-> [p \in Positions(shape.length) |-> Token],
     write |-> 0, read |-> shape.length - 1, messages |-> 0]

\* Mutant: pcReadFrom is moved before the item is written.
CopyToFrontMoved(b, item) ==
    IF b.kind = "queue"
    THEN [b EXCEPT !.storage[Before(b, b.read)] = item, !.read = Before(b, @),
                   !.messages = @ + 1]
    ELSE [b EXCEPT !.messages = @ + 1]

\* prvCopyDataToQueue, for the three positions.
CopyToBack(b, item) ==
    IF b.kind = "queue"
    THEN [b EXCEPT !.storage[b.write] = item, !.write = After(b, @), !.messages = @ + 1]
    ELSE [b EXCEPT !.messages = @ + 1]

CopyToFront(b, item) ==
    IF b.kind = "queue"
    THEN [b EXCEPT !.storage[b.read] = item, !.read = Before(b, @), !.messages = @ + 1]
    ELSE [b EXCEPT !.messages = @ + 1]

CopyOver(b, item) ==
    [CopyToFront(b, item) EXCEPT !.messages = IF b.messages > 0 THEN b.messages ELSE 1]

\* prvCopyDataFromQueue, and the count that its caller leaves.  What stays in the
\* place of the item is not read again.
CopyFrom(b, messages) ==
    IF b.kind = "queue"
    THEN [b EXCEPT !.storage[After(b, b.read)] = Token, !.read = After(b, @),
                   !.messages = messages]
    ELSE [b EXCEPT !.messages = messages]

\* The position that many places behind the first.
Placed(b, position) == IF position >= b.length THEN position - b.length ELSE position

\* The items, the first one to be received first.
Contents(b) ==
    IF b.kind = "queue"
    THEN [i \in 1..b.messages |-> b.storage[Placed(b, b.read + i)]]
    ELSE [i \in 1..b.messages |-> Token]

\* The two ends of a ring are as many items apart as it holds.
EndsMeet(b) ==
    b.kind = "queue" => b.write = Placed(b, Placed(b, b.read + 1 + b.messages))
=============================================================================
