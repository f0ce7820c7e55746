---------------------------- MODULE AtomicQueue ----------------------------
(***************************************************************************)
(* What a queue or a semaphore of the kernel promises: the items are       *)
(* received in the order of the queue, each once, and an item is put in    *)
(* only where there is room, except that one that overwrites takes the     *)
(* place of the first.                                                     *)
(***************************************************************************)
EXTENDS Sequences, Naturals

CONSTANT Items

VARIABLES
    contents,
    limit,
    resettable  \* whether it may be emptied: a queue may, a semaphore not

\* A mutex is created with its one item.
Init ==
    /\ limit \in Nat \ {0} /\ resettable \in BOOLEAN
    /\ contents = <<>> \/ \E item \in Items : contents = <<item>>

Send ==
    \E item \in Items :
        /\ Len(contents) < limit
        /\ contents' \in {Append(contents, item), <<item>> \o contents}

Overwrite ==
    \E item \in Items : contents /= <<>> /\ contents' = <<item>> \o Tail(contents)

Receive == contents /= <<>> /\ contents' = Tail(contents)

Reset == resettable /\ contents' = <<>>

Next == (Send \/ Overwrite \/ Receive \/ Reset) /\ UNCHANGED <<limit, resettable>>

Spec == Init /\ [][Next]_<<contents, limit, resettable>>
=============================================================================
