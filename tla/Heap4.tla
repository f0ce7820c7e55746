------------------------------- MODULE Heap4 -------------------------------
(***************************************************************************)
(* The heap of the kernel (tiva_tm4c/heap_4.c).  The free blocks are a     *)
(* list in the order of their addresses; here a set, a block being its     *)
(* address and its size, the header included.  Both functions run with the *)
(* scheduler suspended, so that each is one step.                          *)
(***************************************************************************)
EXTENDS FiniteSetsExt, Integers

CONSTANTS
    HeapStart,   \* the address of ucHeap
    HeapSize,    \* configTOTAL_HEAP_SIZE
    Alignment,   \* portBYTE_ALIGNMENT
    StructSize,  \* xHeapStructSize, a multiple of it
    Sizes        \* the sizes asked for

RoundDown(n) == n - (n % Alignment)
RoundUp(n) == IF n % Alignment = 0 THEN n ELSE n + (Alignment - (n % Alignment))

\* The heap without the end marker.
FirstAddress == RoundUp(HeapStart)
EndAddress == RoundDown(HeapStart + HeapSize - StructSize)

ASSUME HeapAssumption ==
    /\ HeapStart \in Nat /\ HeapSize \in Nat /\ Sizes \subseteq Nat
    /\ Alignment \in Nat \ {0} /\ StructSize \in Nat \ {0}
    /\ StructSize % Alignment = 0
    /\ FirstAddress + StructSize < EndAddress

VARIABLES
    free,       \* the blocks in the list
    used,       \* the blocks of the application
    remaining,  \* xFreeBytesRemaining
    minimum     \* xMinimumEverFreeBytesRemaining

heapVars == <<free, used, remaining, minimum>>

Blocks == [at : FirstAddress..EndAddress, size : 0..(EndAddress - FirstAddress)]

HeapTypeOK ==
    /\ free \subseteq Blocks /\ used \subseteq Blocks
    /\ remaining \in Int /\ minimum \in Int

End(b) == b.at + b.size

\* prvHeapInit
HeapInit ==
    /\ free = {[at |-> FirstAddress, size |-> EndAddress - FirstAddress]}
    /\ used = {}
    /\ remaining = EndAddress - FirstAddress /\ minimum = remaining

\* Mutant: the block behind is not joined.
InsertBlockBehind(blocks, b) ==
    LET front == {c \in blocks : End(c) = b.at}
        start == IF front = {} THEN b.at ELSE (CHOOSE c \in front : TRUE).at
    IN  (blocks \ front) \cup {[at |-> start, size |-> End(b) - start]}

\* prvInsertBlockIntoFreeList: one block of it, the block that ends where it
\* begins and the block that begins where it ends.
InsertBlock(blocks, b) ==
    LET front  == {c \in blocks : End(c) = b.at}
        behind == {c \in blocks : c.at = End(b)}
        start  == IF front = {} THEN b.at ELSE (CHOOSE c \in front : TRUE).at
        end    == IF behind = {} THEN End(b) ELSE End(CHOOSE c \in behind : TRUE)
    IN  (blocks \ (front \cup behind)) \cup {[at |-> start, size |-> end - start]}

Wanted(n) == RoundUp(n + StructSize)

\* The first block of the list that is large enough.
FirstFit(w) ==
    {b \in free : b.size >= w /\ \A c \in free : c.size >= w => b.at <= c.at}

MinimumBlockSize == 2 * StructSize

\* Mutants: a rest of any size is split off; the rest keeps the size of the whole.
SplitsAlways(b, w) == b.size - w > 0
RestUncut(b, w) == [at |-> b.at + w, size |-> b.size]

\* Whether the rest of a block is to be a block of its own, what is taken of it and
\* the rest.
Splits(b, w) == b.size - w > MinimumBlockSize
Taken(b, w) == [b EXCEPT !.size = IF Splits(b, w) THEN w ELSE @]
Rest(b, w) == [at |-> b.at + w, size |-> b.size - w]

\* Mutant: what is counted is what was wanted.
MallocCountsWanted(n) ==
    LET w == Wanted(n)
    IN  /\ n > 0 /\ w <= remaining
        /\ \E b \in FirstFit(w) :
              /\ free' = IF Splits(b, w) THEN InsertBlock(free \ {b}, Rest(b, w))
                         ELSE free \ {b}
              /\ used' = used \cup {Taken(b, w)}
              /\ remaining' = remaining - w
              /\ minimum' = IF remaining' < minimum THEN remaining' ELSE minimum

\* pvPortMalloc, unless it returns NULL
Malloc(n) ==
    LET w == Wanted(n)
    IN  /\ n > 0 /\ w <= remaining
        /\ \E b \in FirstFit(w) :
              /\ free' = IF Splits(b, w) THEN InsertBlock(free \ {b}, Rest(b, w))
                         ELSE free \ {b}
              /\ used' = used \cup {Taken(b, w)}
              /\ remaining' = remaining - Taken(b, w).size
              /\ minimum' = IF remaining' < minimum THEN remaining' ELSE minimum

\* vPortFree
Free(b) ==
    /\ used' = used \ {b}
    /\ remaining' = remaining + b.size
    /\ free' = InsertBlock(free, b)
    /\ UNCHANGED minimum

HeapNext == (\E n \in Sizes : Malloc(n)) \/ (\E b \in used : Free(b))

HeapSpec == HeapInit /\ [][HeapNext]_heapVars

-----------------------------------------------------------------------------
Apart(b, c) == End(b) <= c.at \/ End(c) <= b.at

\* No byte belongs to two blocks, of the application or free, however blocks are
\* split and merged, and each block has room behind its aligned header
\* (heap_4.c:170-215, 378-436).
BlocksApart ==
    /\ \A b \in free \cup used : b.size > StructSize /\ b.at % Alignment = 0
    /\ free \cap used = {}
    /\ \A b, c \in free \cup used : b /= c => Apart(b, c)

\* Memory does not stay in pieces: two free blocks never touch, so that what is
\* freed between two free blocks joins both (heap_4.c:378-436).
FreeBlocksMerge == \A b, c \in free : End(b) /= c.at

\* No byte is lost: the blocks follow each other from the start of the heap to its
\* end, and xFreeBytesRemaining is what the free ones hold; after the last free the
\* heap is one block again (heap_4.c:215-232, 259-307).
NothingLeaks ==
    /\ \A b \in free \cup used :
          End(b) = EndAddress \/ \E c \in free \cup used : c.at = End(b)
    /\ \E b \in free \cup used : b.at = FirstAddress
    /\ remaining = MapThenSumSet(LAMBDA b : b.size, free)
    /\ minimum <= remaining
=============================================================================
