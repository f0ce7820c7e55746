------------------------------- MODULE Lists -------------------------------
(***************************************************************************)
(* The lists of the kernel (tiva_tm4c/FreeRTOS/list.c).  A list is a ring  *)
(* of items closed by an end marker, with an index that walks round it.    *)
(* Here: the items from the one behind the marker on, and the position of  *)
(* the item the index points to, 0 for the marker.                         *)
(***************************************************************************)
EXTENDS SequencesExt

EmptyList == [items |-> <<>>, index |-> 0]

Members(l) == Range(l.items)

ListLength(l) == Len(l.items)

\* vListInsertEnd: the item becomes the last to be reached from the index.
InsertEnd(l, x) ==
    IF l.index = 0
    THEN [l EXCEPT !.items = Append(@, x)]
    ELSE [items |-> InsertAt(l.items, l.index, x), index |-> l.index + 1]

\* Where the walk of vListInsert ends: in front of the first item of a greater
\* value, or in front of the marker.
PlaceOf(s, x, value) ==
    Min({i \in DOMAIN s : value[s[i]] > value[x]} \cup {Len(s) + 1})

\* vListInsert, for a list whose index rests on the marker.
Insert(s, x, value) == InsertAt(s, PlaceOf(s, x, value), x)

Position(s, x) == CHOOSE i \in DOMAIN s : s[i] = x

\* uxListRemove of an item that may be in the list, whose index rests on the
\* marker ...
Without(s, x) == IF Contains(s, x) THEN RemoveAt(s, Position(s, x)) ELSE s

\* ... or on an item: an index that points to the item falls back to the one
\* before.
RemoveItem(l, x) ==
    [items |-> Without(l.items, x),
     index |-> IF Contains(l.items, x) /\ Position(l.items, x) <= l.index
               THEN l.index - 1 ELSE l.index]

\* listGET_OWNER_OF_NEXT_ENTRY: the index moves on, and over the marker.
NextIndex(l) == IF l.index = Len(l.items) THEN 1 ELSE l.index + 1

Advanced(l) == [l EXCEPT !.index = NextIndex(l)]

NextEntry(l) == l.items[NextIndex(l)]
=============================================================================
