----------------------------- MODULE ListProofs -----------------------------
(***************************************************************************)
(* What the functions of list.c return and preserve, for lists of any      *)
(* length: an item put in is in the list once, one taken out is not in it  *)
(* any more, the others stay, and a sorted list stays sorted.              *)
(***************************************************************************)
EXTENDS Lists, SequenceTheorems, WellFoundedInduction, TLAPS

\* A list of members of S, none of them twice.
Listed(s, S) == s \in Seq(S) /\ IsInjective(s)

\* A ring of members of S, with its index on one of them or on the marker.
RingOf(l, S) ==
    /\ l = [items |-> l.items, index |-> l.index]
    /\ Listed(l.items, S)
    /\ l.index \in 0..Len(l.items)

Sorted(s, value) == \A i, j \in DOMAIN s : i < j => value[s[i]] <= value[s[j]]

LEMMA RingTyped ==
    ASSUME NEW S, NEW l, RingOf(l, S)
    PROVE  l \in [items : Seq(S), index : Nat]
<1>1. l.items \in Seq(S) /\ l.index \in Nat
  BY DEF RingOf, Listed
<1> QED
  BY <1>1 DEF RingOf

\* The order of a list depends on the values of its items only.
LEMMA SortedAgrees ==
    ASSUME NEW s, NEW v, NEW w, Sorted(s, v), \A x \in Range(s) : w[x] = v[x]
    PROVE  Sorted(s, w)
<1>1. \A i \in DOMAIN s : w[s[i]] = v[s[i]]
  BY DEF Range
<1> QED
  BY <1>1 DEF Sorted

-----------------------------------------------------------------------------
\* A set of numbers that is not empty has a least member.
LEMMA LeastMember ==
    ASSUME NEW S, S \subseteq Nat, S /= {}
    PROVE  Min(S) \in S /\ \A n \in S : Min(S) <= n
<1>1. PICK x \in S : \A y \in S : ~ (<<y, x>> \in OpToRel(<, Nat))
  BY NatLessThanWellFounded, WFMin
<1>2. \A y \in S : y < x => <<y, x>> \in OpToRel(<, Nat)
  <2> TAKE y \in S
  <2> HAVE y < x
  <2>1. <<y, x>> \in Nat \X Nat /\ <<y, x>>[1] < <<y, x>>[2]
    OBVIOUS
  <2> QED
    BY <2>1, Zenon DEF OpToRel
<1>3. \A y \in S : x <= y
  <2>1. \A y \in S : ~ (y < x)
    BY <1>1, <1>2, Zenon
  <2> QED
    BY <2>1
<1> QED
  BY <1>3 DEF Min

\* One that is bounded has a greatest member.
LEMMA GreatestMember ==
    ASSUME NEW S, NEW bound \in Nat, S \subseteq 0..bound, S /= {}
    PROVE  Max(S) \in S /\ \A n \in S : n <= Max(S)
<1> DEFINE T == {bound - n : n \in S}
<1>1. T \subseteq Nat /\ T /= {}
  <2>1. \A n \in S : bound - n \in Nat
    OBVIOUS
  <2> QED
    BY <2>1
<1>2. PICK m \in T : \A n \in T : m <= n
  BY <1>1, LeastMember
<1>3. PICK x \in S : m = bound - x
  OBVIOUS
<1>4. \A y \in S : x >= y
  BY <1>2, <1>3
<1> QED
  BY <1>4 DEF Max

-----------------------------------------------------------------------------
\* InsertAt, item by item.
Inserted(r, s, i, x) ==
    \A j \in 1..(Len(s) + 1) : r[j] = IF j < i THEN s[j] ELSE IF j = i THEN x ELSE s[j - 1]

LEMMA InsertAtItems ==
    ASSUME NEW S, NEW s \in Seq(S), NEW x \in S, NEW i \in 1..(Len(s) + 1)
    PROVE  /\ InsertAt(s, i, x) \in Seq(S)
           /\ Len(InsertAt(s, i, x)) = Len(s) + 1
           /\ Inserted(InsertAt(s, i, x), s, i, x)
<1> DEFINE front == SubSeq(s, 1, i - 1)
           back  == SubSeq(s, i, Len(s))
<1>1. front \in Seq(S) /\ Len(front) = i - 1 /\ \A j \in 1..(i - 1) : front[j] = s[j]
  BY SubSeqProperties
<1>2. back \in Seq(S) /\ Len(back) = Len(s) - i + 1
      /\ \A j \in 1..(Len(s) - i + 1) : back[j] = s[i + j - 1]
  BY SubSeqProperties
<1>3. <<x>> \in Seq(S) /\ Len(<<x>>) = 1 /\ <<x>>[1] = x
  OBVIOUS
<1> HIDE DEF front, back
<1>4. front \o <<x>> \in Seq(S) /\ Len(front \o <<x>>) = i
      /\ \A j \in 1..i : (front \o <<x>>)[j] = IF j < i THEN s[j] ELSE x
  BY <1>1, <1>3, ConcatProperties
<1>5. /\ (front \o <<x>>) \o back \in Seq(S)
      /\ Len((front \o <<x>>) \o back) = Len(s) + 1
      /\ \A j \in 1..(Len(s) + 1) :
            ((front \o <<x>>) \o back)[j] =
                IF j < i THEN s[j] ELSE IF j = i THEN x ELSE s[j - 1]
  <2>0. /\ (front \o <<x>>) \o back \in Seq(S)
        /\ Len((front \o <<x>>) \o back) = Len(front \o <<x>>) + Len(back)
        /\ \A j \in 1..(Len(front \o <<x>>) + Len(back)) :
              ((front \o <<x>>) \o back)[j] =
                  IF j <= Len(front \o <<x>>) THEN (front \o <<x>>)[j]
                  ELSE back[j - Len(front \o <<x>>)]
    <3>1. front \o <<x>> \in Seq(S) /\ back \in Seq(S)
      BY <1>2, <1>4
    <3> HIDE <1>1, <1>2, <1>3, <1>4
    <3> QED
      BY <3>1, ConcatProperties, Zenon
  <2>1. /\ (front \o <<x>>) \o back \in Seq(S)
        /\ Len((front \o <<x>>) \o back) = i + (Len(s) - i + 1)
        /\ \A j \in 1..(i + (Len(s) - i + 1)) :
              ((front \o <<x>>) \o back)[j] =
                  IF j <= i THEN (front \o <<x>>)[j] ELSE back[j - i]
    BY <2>0, <1>2, <1>4, Zenon
  <2>2. Len(s) \in Nat /\ i + (Len(s) - i + 1) = Len(s) + 1
    OBVIOUS
  <2>3. \A j \in 1..(Len(s) + 1) : j > i => back[j - i] = s[j - 1]
    BY <1>2, <2>2
  <2>4. \A j \in 1..(Len(s) + 1) :
            /\ j < i => (front \o <<x>>)[j] = s[j]
            /\ j = i => (front \o <<x>>)[j] = x
    BY <1>4
  <2>5. ASSUME NEW j \in 1..(Len(s) + 1)
        PROVE  ((front \o <<x>>) \o back)[j] =
                   IF j < i THEN s[j] ELSE IF j = i THEN x ELSE s[j - 1]
    <3>1. CASE j < i
      <4>1. (front \o <<x>>)[j] = s[j]
        BY <2>4, <3>1
      <4>2. j <= i
        BY <3>1
      <4>3. ((front \o <<x>>) \o back)[j] = s[j]
        BY <2>1, <2>2, <4>1, <4>2
      <4> QED
        BY <3>1, <4>3, Zenon
    <3>2. CASE j = i
      <4>1. (front \o <<x>>)[j] = x
        BY <2>4, <3>2
      <4>2. j <= i /\ ~ (j < i)
        BY <3>2
      <4>3. ((front \o <<x>>) \o back)[j] = x
        BY <2>1, <2>2, <4>1, <4>2
      <4> QED
        BY <3>2, <4>2, <4>3, Zenon
    <3>3. CASE j > i
      <4>1. ((front \o <<x>>) \o back)[j] = s[j - 1]
        BY <2>1, <2>2, <2>3, <3>3
      <4>2. ~ (j < i) /\ j /= i
        BY <3>3
      <4> QED
        BY <4>1, <4>2, Zenon
    <3>4. j < i \/ j = i \/ j > i
      OBVIOUS
    <3> QED
      BY <3>1, <3>2, <3>3, <3>4, Zenon
  <2> QED
    BY <2>1, <2>2, <2>5
<1>6. InsertAt(s, i, x) = (front \o <<x>>) \o back
  BY DEF InsertAt, front, back
<1> QED
  BY <1>5, <1>6, Zenon DEF Inserted

\* RemoveAt, item by item.
LEMMA RemoveAtItems ==
    ASSUME NEW S, NEW s \in Seq(S), NEW i \in 1..Len(s)
    PROVE  /\ RemoveAt(s, i) \in Seq(S)
           /\ Len(RemoveAt(s, i)) = Len(s) - 1
           /\ \A j \in 1..(Len(s) - 1) :
                 RemoveAt(s, i)[j] = IF j < i THEN s[j] ELSE s[j + 1]
<1> DEFINE front == SubSeq(s, 1, i - 1)
           back  == SubSeq(s, i + 1, Len(s))
<1>1. front \in Seq(S) /\ Len(front) = i - 1 /\ \A j \in 1..(i - 1) : front[j] = s[j]
  BY SubSeqProperties
<1>2. back \in Seq(S) /\ Len(back) = Len(s) - i
      /\ \A j \in 1..(Len(s) - i) : back[j] = s[i + j]
  BY SubSeqProperties
<1> HIDE DEF front, back
<1>3. /\ front \o back \in Seq(S)
      /\ Len(front \o back) = Len(s) - 1
      /\ \A j \in 1..(Len(s) - 1) :
            (front \o back)[j] = IF j < i THEN s[j] ELSE s[j + 1]
  <2>0. /\ front \o back \in Seq(S)
        /\ Len(front \o back) = Len(front) + Len(back)
        /\ \A j \in 1..(Len(front) + Len(back)) :
              (front \o back)[j] = IF j <= Len(front) THEN front[j] ELSE back[j - Len(front)]
    BY <1>1, <1>2, ConcatProperties, Zenon
  <2>1. /\ front \o back \in Seq(S)
        /\ Len(front \o back) = (i - 1) + (Len(s) - i)
        /\ \A j \in 1..((i - 1) + (Len(s) - i)) :
              (front \o back)[j] = IF j <= i - 1 THEN front[j] ELSE back[j - (i - 1)]
    BY <2>0, <1>1, <1>2, Zenon
  <2>2. Len(s) \in Nat /\ (i - 1) + (Len(s) - i) = Len(s) - 1
    OBVIOUS
  <2>3. \A j \in 1..(Len(s) - 1) : j >= i => back[j - (i - 1)] = s[j + 1]
    <3> TAKE j \in 1..(Len(s) - 1)
    <3> HAVE j >= i
    <3>1. j - (i - 1) \in 1..(Len(s) - i) /\ i + (j - (i - 1)) = j + 1
      BY <2>2
    <3> QED
      BY <1>2, <3>1
  <2>4. ASSUME NEW j \in 1..(Len(s) - 1)
        PROVE  (front \o back)[j] = IF j < i THEN s[j] ELSE s[j + 1]
    <3>1. CASE j < i
      BY <1>1, <2>1, <2>2, <3>1
    <3>2. CASE j >= i
      BY <2>1, <2>2, <2>3, <3>2
    <3>3. j < i \/ j >= i
      OBVIOUS
    <3> QED
      BY <3>1, <3>2, <3>3, Zenon
  <2> QED
    BY <2>1, <2>2, <2>4
<1> QED
  BY <1>3 DEF RemoveAt, front, back

-----------------------------------------------------------------------------
\* vListInsertEnd and vListInsert, of an item that is not in the list: it is in the
\* list once.
LEMMA InsertAtLists ==
    ASSUME NEW S, NEW s, Listed(s, S), NEW x \in S, x \notin Range(s),
           NEW i \in 1..(Len(s) + 1)
    PROVE  /\ Listed(InsertAt(s, i, x), S)
           /\ Range(InsertAt(s, i, x)) = Range(s) \cup {x}
           /\ Len(InsertAt(s, i, x)) = Len(s) + 1
<1> DEFINE r == InsertAt(s, i, x)
<1>0. s \in Seq(S)
  BY DEF Listed
<1>a. r \in Seq(S) /\ Len(r) = Len(s) + 1 /\ Inserted(r, s, i, x)
  BY <1>0, InsertAtItems
<1> HIDE DEF r
<1>1. /\ r \in Seq(S) /\ Len(r) = Len(s) + 1 /\ s \in Seq(S)
      /\ \A j \in 1..(Len(s) + 1) :
            r[j] = IF j < i THEN s[j] ELSE IF j = i THEN x ELSE s[j - 1]
  BY <1>0, <1>a DEF Inserted
<1>2. DOMAIN r = 1..(Len(s) + 1) /\ DOMAIN s = 1..Len(s) /\ Len(s) \in Nat
  BY <1>1
<1>3. IsInjective(r)
  <2>1. \A a, b \in DOMAIN s : s[a] = s[b] => a = b
    BY DEF Listed, IsInjective
  <2>2. \A a \in DOMAIN s : s[a] /= x
    BY DEF Range
  <2>3. ASSUME NEW a \in DOMAIN r, NEW b \in DOMAIN r, r[a] = r[b]
        PROVE  a = b
    <3>1. a \in 1..(Len(s) + 1) /\ b \in 1..(Len(s) + 1)
      BY <1>2
    <3>2. \A c \in 1..(Len(s) + 1) :
              /\ c < i => c \in DOMAIN s /\ r[c] = s[c]
              /\ c = i => r[c] = x
              /\ c > i => c - 1 \in DOMAIN s /\ r[c] = s[c - 1]
      BY <1>1, <1>2
    <3>3. a < i \/ a = i \/ a > i
      BY <3>1
    <3>4. b < i \/ b = i \/ b > i
      BY <3>1
    <3>5. CASE a = i
      BY <2>2, <2>3, <3>1, <3>2, <3>4, <3>5
    <3>6. CASE a < i
      BY <1>2, <2>1, <2>2, <2>3, <3>1, <3>2, <3>4, <3>6
    <3>7. CASE a > i
      BY <1>2, <2>1, <2>2, <2>3, <3>1, <3>2, <3>4, <3>7
    <3> QED
      BY <3>3, <3>5, <3>6, <3>7
  <2> QED
    BY <2>3 DEF IsInjective
<1>4. \A j \in DOMAIN r : r[j] \in Range(s) \cup {x}
  <2> TAKE j \in DOMAIN r
  <2>1. j \in 1..(Len(s) + 1) /\ (j < i \/ j = i \/ j > i)
    BY <1>2
  <2>2. CASE j < i
    <3>1. j \in DOMAIN s /\ r[j] = s[j]
      BY <1>1, <1>2, <2>1, <2>2
    <3> QED
      BY <3>1 DEF Range
  <2>3. CASE j = i
    BY <1>1, <2>1, <2>3
  <2>4. CASE j > i
    <3>1. j - 1 \in DOMAIN s /\ r[j] = s[j - 1]
      BY <1>1, <1>2, <2>1, <2>4
    <3> QED
      BY <3>1 DEF Range
  <2> QED
    BY <2>1, <2>2, <2>3, <2>4
<1>5. \A j \in DOMAIN s : s[j] \in Range(r)
  <2> TAKE j \in DOMAIN s
  <2>1. CASE j < i
    BY <1>1, <1>2, <2>1 DEF Range
  <2>2. CASE j >= i
    <3>1. j + 1 \in DOMAIN r /\ r[j + 1] = s[j]
      BY <1>1, <1>2, <2>2
    <3> QED
      BY <3>1 DEF Range
  <2> QED
    BY <1>2, <2>1, <2>2
<1>6. x \in Range(r)
  BY <1>1, <1>2 DEF Range
<1>7. Range(r) = Range(s) \cup {x}
  BY <1>4, <1>5, <1>6 DEF Range
<1> QED
  BY <1>1, <1>3, <1>7 DEF Listed, r

LEMMA InsertEndLists ==
    ASSUME NEW S, NEW l, RingOf(l, S), NEW x \in S, x \notin Range(l.items)
    PROVE  RingOf(InsertEnd(l, x), S) /\ Range(InsertEnd(l, x).items) = Range(l.items) \cup {x}
<1>1. Listed(l.items, S) /\ l.index \in 0..Len(l.items) /\ Len(l.items) \in Nat
  BY DEF RingOf, Listed
<1>2. CASE l.index = 0
  <2>1. Append(l.items, x) = InsertAt(l.items, Len(l.items) + 1, x)
    <3>1. l.items \in Seq(S)
      BY <1>1 DEF Listed
    <3>2. /\ InsertAt(l.items, Len(l.items) + 1, x) \in Seq(S)
          /\ Len(InsertAt(l.items, Len(l.items) + 1, x)) = Len(l.items) + 1
          /\ \A j \in 1..(Len(l.items) + 1) :
                InsertAt(l.items, Len(l.items) + 1, x)[j] =
                    IF j < Len(l.items) + 1 THEN l.items[j]
                    ELSE IF j = Len(l.items) + 1 THEN x ELSE l.items[j - 1]
      <4>1. Len(l.items) + 1 \in 1..(Len(l.items) + 1)
        BY <1>1
      <4>2. x \in S /\ l.items \in Seq(S)
        BY <3>1
      <4> DEFINE t == l.items
                 n == Len(t) + 1
      <4> HIDE DEF t
      <4>3. t \in Seq(S) /\ n \in 1..(Len(t) + 1)
        BY <4>1, <4>2 DEF t
      <4>4. /\ InsertAt(t, n, x) \in Seq(S) /\ Len(InsertAt(t, n, x)) = Len(t) + 1
            /\ Inserted(InsertAt(t, n, x), t, n, x)
        BY <4>2, <4>3, InsertAtItems
      <4> QED
        BY <4>4, Zenon DEF t, Inserted
    <3>3. Append(l.items, x) \in Seq(S)
          /\ Len(Append(l.items, x)) = Len(l.items) + 1
          /\ \A j \in 1..(Len(l.items) + 1) :
                Append(l.items, x)[j] = IF j < Len(l.items) + 1 THEN l.items[j] ELSE x
      BY <3>1, AppendProperties
    <3> QED
      BY <3>2, <3>3, SeqEqual
  <2>2. Len(l.items) + 1 \in 1..(Len(l.items) + 1)
    BY <1>1
  <2>3. InsertEnd(l, x) = [items |-> Append(l.items, x), index |-> 0]
    BY <1>2 DEF InsertEnd, RingOf
  <2> QED
    BY <1>1, <2>1, <2>2, <2>3, InsertAtLists DEF RingOf
<1>3. CASE l.index /= 0
  <2>1. l.index \in 1..(Len(l.items) + 1)
    BY <1>1, <1>3
  <2>2. InsertEnd(l, x) = [items |-> InsertAt(l.items, l.index, x), index |-> l.index + 1]
    BY <1>3 DEF InsertEnd
  <2>3. /\ Listed(InsertAt(l.items, l.index, x), S)
        /\ Range(InsertAt(l.items, l.index, x)) = Range(l.items) \cup {x}
        /\ Len(InsertAt(l.items, l.index, x)) = Len(l.items) + 1
    BY <1>1, <2>1, InsertAtLists
  <2> QED
    BY <1>1, <2>2, <2>3 DEF RingOf
<1> QED
  BY <1>2, <1>3
-----------------------------------------------------------------------------
\* uxListRemove: the item is not in the list any more, and nothing else changes.
LEMMA WithoutLists ==
    ASSUME NEW S, NEW s, Listed(s, S), NEW x
    PROVE  /\ Listed(Without(s, x), S)
           /\ Range(Without(s, x)) = Range(s) \ {x}
<1>1. s \in Seq(S) /\ DOMAIN s = 1..Len(s) /\ Len(s) \in Nat
  BY DEF Listed
<1>2. CASE ~ Contains(s, x)
  <2>1. Without(s, x) = s
    BY <1>2 DEF Without
  <2>2. x \notin Range(s)
    BY <1>1, <1>2 DEF Contains, Range
  <2> QED
    BY <2>1, <2>2
<1>3. CASE Contains(s, x)
  <2> DEFINE i == Position(s, x)
             r == RemoveAt(s, i)
  <2>1. i \in 1..Len(s) /\ s[i] = x
    BY <1>1, <1>3 DEF Position, Contains
  <2> HIDE DEF i
  <2>2. /\ r \in Seq(S) /\ Len(r) = Len(s) - 1
        /\ \A j \in 1..(Len(s) - 1) : r[j] = IF j < i THEN s[j] ELSE s[j + 1]
    BY <1>1, <2>1, RemoveAtItems
  <2> HIDE DEF r
  <2>3. DOMAIN r = 1..(Len(s) - 1)
    BY <2>2
  <2>4. \A a, b \in DOMAIN s : s[a] = s[b] => a = b
    BY DEF Listed, IsInjective
  <2>5. \A j \in DOMAIN r :
            /\ j < i => j \in DOMAIN s /\ r[j] = s[j]
            /\ j >= i => j + 1 \in DOMAIN s /\ r[j] = s[j + 1]
    BY <1>1, <2>1, <2>2, <2>3
  <2>6. \A j \in DOMAIN r : r[j] \in Range(s) /\ r[j] /= x
    <3> TAKE j \in DOMAIN r
    <3>1. j \in Int /\ i \in DOMAIN s /\ i \in Int
      BY <1>1, <2>1, <2>3
    <3>2. CASE j < i
      BY <2>1, <2>4, <2>5, <3>1, <3>2 DEF Range
    <3>3. CASE j >= i
      BY <2>1, <2>4, <2>5, <3>1, <3>3 DEF Range
    <3> QED
      BY <3>1, <3>2, <3>3
  <2>7. ASSUME NEW a \in DOMAIN r, NEW b \in DOMAIN r, r[a] = r[b]
        PROVE  a = b
    <3>1. a \in Int /\ b \in Int /\ i \in Int
      BY <2>1, <2>3
    <3>2. CASE a < i
      BY <2>4, <2>5, <2>7, <3>1, <3>2
    <3>3. CASE a >= i
      BY <2>4, <2>5, <2>7, <3>1, <3>3
    <3> QED
      BY <3>1, <3>2, <3>3
  <2>8. ASSUME NEW k \in DOMAIN s, s[k] /= x
        PROVE  s[k] \in Range(r)
    <3>1. k \in 1..Len(s) /\ k /= i
      BY <1>1, <2>1, <2>8
    <3>2. CASE k < i
      <4>1. k \in DOMAIN r /\ r[k] = s[k]
        BY <2>1, <2>2, <2>3, <3>1, <3>2
      <4> QED
        BY <4>1 DEF Range
    <3>3. CASE k > i
      <4>1. k - 1 \in DOMAIN r
        BY <2>1, <2>3, <3>1, <3>3
      <4>2. ~ (k - 1 < i) /\ (k - 1) + 1 = k
        BY <2>1, <3>1, <3>3
      <4>3. r[k - 1] = s[k]
        BY <2>2, <2>3, <4>1, <4>2
      <4> QED
        BY <4>1, <4>3 DEF Range
    <3> QED
      BY <2>1, <3>1, <3>2, <3>3
  <2>9. Range(r) = Range(s) \ {x}
    <3>1. Range(r) \subseteq Range(s) \ {x}
      BY <2>6 DEF Range
    <3>2. Range(s) \ {x} \subseteq Range(r)
      BY <2>8 DEF Range
    <3> QED
      BY <3>1, <3>2
  <2>10. Listed(r, S)
    BY <2>2, <2>7 DEF Listed, IsInjective
  <2>11. Without(s, x) = r
    BY <1>3 DEF Without, r, i
  <2> QED
    BY <2>9, <2>10, <2>11
<1> QED
  BY <1>2, <1>3

\* Its items, as they were: in the same order.
LEMMA WithoutKeepsOrder ==
    ASSUME NEW S, NEW s, Listed(s, S), NEW x, NEW value, Sorted(s, value)
    PROVE  Sorted(Without(s, x), value)
<1>1. s \in Seq(S) /\ DOMAIN s = 1..Len(s) /\ Len(s) \in Nat
  BY DEF Listed
<1>2. CASE ~ Contains(s, x)
  BY <1>2 DEF Without
<1>3. CASE Contains(s, x)
  <2> DEFINE i == Position(s, x)
             r == RemoveAt(s, i)
  <2>1. i \in 1..Len(s)
    BY <1>1, <1>3 DEF Position, Contains
  <2> HIDE DEF i
  <2>2. /\ r \in Seq(S) /\ Len(r) = Len(s) - 1
        /\ \A j \in 1..(Len(s) - 1) : r[j] = IF j < i THEN s[j] ELSE s[j + 1]
    BY <1>1, <2>1, RemoveAtItems
  <2> HIDE DEF r
  <2>3. DOMAIN r = 1..(Len(s) - 1)
    BY <2>2
  <2>4. \A j \in DOMAIN r :
            /\ j < i => j \in DOMAIN s /\ r[j] = s[j]
            /\ j >= i => j + 1 \in DOMAIN s /\ r[j] = s[j + 1]
    BY <1>1, <2>1, <2>2, <2>3
  <2>5. ASSUME NEW a \in DOMAIN r, NEW b \in DOMAIN r, a < b
        PROVE  value[r[a]] <= value[r[b]]
    <3>1. a \in Int /\ b \in Int /\ i \in Int
      BY <2>1, <2>3
    <3>2. CASE b < i
      BY <2>4, <2>5, <3>1, <3>2 DEF Sorted
    <3>3. CASE a < i /\ b >= i
      <4>1. a \in DOMAIN s /\ b + 1 \in DOMAIN s /\ a < b + 1
        BY <2>4, <2>5, <3>1, <3>3
      <4> QED
        BY <2>4, <3>3, <4>1 DEF Sorted
    <3>4. CASE a >= i
      <4>1. a + 1 \in DOMAIN s /\ b + 1 \in DOMAIN s /\ a + 1 < b + 1 /\ b >= i
        BY <2>4, <2>5, <3>1, <3>4
      <4> QED
        BY <2>4, <3>4, <4>1 DEF Sorted
    <3> QED
      BY <2>5, <3>1, <3>2, <3>3, <3>4
  <2>6. Without(s, x) = r
    BY <1>3 DEF Without, r, i
  <2> QED
    BY <2>5, <2>6 DEF Sorted
<1> QED
  BY <1>2, <1>3

LEMMA RemoveItemLists ==
    ASSUME NEW S, NEW l, RingOf(l, S), NEW x
    PROVE  /\ RingOf(RemoveItem(l, x), S)
           /\ Range(RemoveItem(l, x).items) = Range(l.items) \ {x}
<1> DEFINE s == l.items
           r == RemoveItem(l, x)
<1>1. Listed(s, S) /\ l.index \in 0..Len(s)
  BY DEF RingOf
<1>2. s \in Seq(S) /\ DOMAIN s = 1..Len(s) /\ Len(s) \in Nat
  BY <1>1 DEF Listed
<1>3. Listed(Without(s, x), S) /\ Range(Without(s, x)) = Range(s) \ {x}
  BY <1>1, WithoutLists
<1>4. r = [items |-> Without(s, x), index |-> r.index]
  BY DEF RemoveItem
<1>5. r.index \in 0..Len(Without(s, x))
  <2>1. CASE ~ Contains(s, x)
    <3>1. Without(s, x) = s /\ r.index = l.index
      BY <2>1 DEF Without, RemoveItem
    <3> QED
      BY <1>1, <3>1
  <2>2. CASE Contains(s, x)
    <3> DEFINE i == Position(s, x)
    <3>1. i \in 1..Len(s)
      BY <1>2, <2>2 DEF Position, Contains
    <3>2. Len(Without(s, x)) = Len(s) - 1
      BY <1>2, <2>2, <3>1, RemoveAtItems DEF Without
    <3>3. r.index = IF i <= l.index THEN l.index - 1 ELSE l.index
      BY <2>2 DEF RemoveItem
    <3> HIDE DEF i, r
    <3> QED
      BY <1>1, <1>2, <3>1, <3>2, <3>3
  <2> QED
    BY <2>1, <2>2
<1> HIDE DEF r
<1>6. RingOf(r, S)
  BY <1>3, <1>4, <1>5 DEF RingOf
<1>7. Range(r.items) = Range(s) \ {x}
  BY <1>3, <1>4
<1> QED
  BY <1>6, <1>7 DEF r

-----------------------------------------------------------------------------
\* listGET_OWNER_OF_NEXT_ENTRY finds an item of a list that has one.
LEMMA NextEntryLists ==
    ASSUME NEW S, NEW l, RingOf(l, S), l.items /= <<>>
    PROVE  /\ RingOf(Advanced(l), S) /\ Advanced(l).items = l.items
           /\ NextEntry(l) \in Range(l.items)
<1>1. l.items \in Seq(S) /\ l.index \in 0..Len(l.items)
  BY DEF RingOf, Listed
<1>2. Len(l.items) \in Nat /\ Len(l.items) /= 0
  BY <1>1, EmptySeq
<1>3. NextIndex(l) \in 1..Len(l.items)
  BY <1>1, <1>2 DEF NextIndex
<1>4. Advanced(l) = [items |-> l.items, index |-> NextIndex(l)]
  BY DEF Advanced, RingOf
<1>5. RingOf(Advanced(l), S)
  BY <1>2, <1>3, <1>4 DEF RingOf
<1>6. NextEntry(l) \in Range(l.items)
  BY <1>1, <1>3 DEF NextEntry, Range
<1> QED
  BY <1>4, <1>5, <1>6

-----------------------------------------------------------------------------
\* The walk of vListInsert stops behind the items that are not greater.
LEMMA PlaceOfIs ==
    ASSUME NEW S, NEW s \in Seq(S), NEW x, NEW value
    PROVE  /\ PlaceOf(s, x, value) \in 1..(Len(s) + 1)
           /\ \A i \in DOMAIN s : i < PlaceOf(s, x, value) => ~ (value[s[i]] > value[x])
           /\ PlaceOf(s, x, value) \in DOMAIN s =>
                 value[s[PlaceOf(s, x, value)]] > value[x]
<1> DEFINE greater == {i \in DOMAIN s : value[s[i]] > value[x]}
           p == PlaceOf(s, x, value)
<1>1. DOMAIN s = 1..Len(s) /\ Len(s) \in Nat
  OBVIOUS
<1>2. greater \cup {Len(s) + 1} \subseteq 1..(Len(s) + 1)
  BY <1>1
<1>3. p = Min(greater \cup {Len(s) + 1})
  BY DEF PlaceOf
<1> HIDE DEF p, greater
<1>4. p \in greater \cup {Len(s) + 1} /\ \A n \in greater \cup {Len(s) + 1} : p <= n
  <2>1. greater \cup {Len(s) + 1} \subseteq Nat /\ greater \cup {Len(s) + 1} /= {}
    BY <1>1, <1>2
  <2> QED
    BY <1>3, <2>1, LeastMember
<1>5. p \in 1..(Len(s) + 1)
  BY <1>2, <1>4
<1>6. \A i \in DOMAIN s : i < p => ~ (value[s[i]] > value[x])
  <2> TAKE i \in DOMAIN s
  <2> HAVE i < p
  <2>1. i \notin greater
    BY <1>1, <1>4, <1>5
  <2> QED
    BY <2>1 DEF greater
<1>7. p \in DOMAIN s => value[s[p]] > value[x]
  <2> HAVE p \in DOMAIN s
  <2>1. p /= Len(s) + 1
    BY <1>1
  <2> QED
    BY <1>4, <2>1 DEF greater
<1> QED
  BY <1>5, <1>6, <1>7 DEF p

\* vListInsert puts an item into a list, and a sorted list stays sorted.
THEOREM InsertKeepsOrder ==
    ASSUME NEW S, NEW s, Listed(s, S), NEW x \in S, x \notin Range(s),
           NEW value, \A y \in S : value[y] \in Nat
    PROVE  /\ Listed(Insert(s, x, value), S)
           /\ Range(Insert(s, x, value)) = Range(s) \cup {x}
           /\ Sorted(s, value) => Sorted(Insert(s, x, value), value)
<1> DEFINE p == PlaceOf(s, x, value)
           r == Insert(s, x, value)
<1>1. s \in Seq(S) /\ DOMAIN s = 1..Len(s) /\ Len(s) \in Nat
  BY DEF Listed
<1>2. /\ p \in 1..(Len(s) + 1)
      /\ \A i \in DOMAIN s : i < p => ~ (value[s[i]] > value[x])
      /\ p \in DOMAIN s => value[s[p]] > value[x]
  BY <1>1, PlaceOfIs
<1>3. r = InsertAt(s, p, x)
  BY DEF Insert
<1> HIDE DEF p, r
<1>4. Listed(r, S) /\ Range(r) = Range(s) \cup {x} /\ Len(r) = Len(s) + 1
  BY <1>2, <1>3, InsertAtLists
<1>5. \A i \in DOMAIN s : s[i] \in S /\ value[s[i]] \in Nat
  BY <1>1
<1>6. ASSUME Sorted(s, value) PROVE Sorted(r, value)
  <2>1. DOMAIN r = 1..(Len(s) + 1)
    BY <1>4 DEF Listed
  <2>2. \A j \in 1..(Len(s) + 1) :
            r[j] = IF j < p THEN s[j] ELSE IF j = p THEN x ELSE s[j - 1]
    <3>1. Inserted(r, s, p, x)
      BY <1>1, <1>2, <1>3, InsertAtItems
    <3> QED
      BY <3>1 DEF Inserted
  <2>3. \A j \in DOMAIN r :
            /\ j < p => j \in DOMAIN s /\ r[j] = s[j]
            /\ j = p => r[j] = x
            /\ j > p => j - 1 \in DOMAIN s /\ r[j] = s[j - 1]
    BY <1>1, <1>2, <2>1, <2>2
  <2>4. \A i \in DOMAIN s : i < p => value[s[i]] <= value[x]
    BY <1>2, <1>5
  <2>5. \A i \in DOMAIN s : i >= p => value[x] <= value[s[i]]
    <3> TAKE i \in DOMAIN s
    <3> HAVE i >= p
    <3>1. p \in DOMAIN s
      BY <1>1, <1>2
    <3>2. value[x] <= value[s[p]]
      BY <1>2, <1>5, <3>1
    <3>3. value[s[p]] <= value[s[i]]
      BY <1>1, <1>2, <1>5, <1>6, <3>1 DEF Sorted
    <3> QED
      BY <1>5, <3>1, <3>2, <3>3
  <2>6. ASSUME NEW a \in DOMAIN r, NEW b \in DOMAIN r, a < b
        PROVE  value[r[a]] <= value[r[b]]
    <3>1. a \in Int /\ b \in Int /\ p \in Int
      BY <1>2, <2>1
    <3>2. CASE b < p
      BY <1>6, <2>3, <2>6, <3>1, <3>2 DEF Sorted
    <3>3. CASE b = p
      BY <2>3, <2>4, <2>6, <3>1, <3>3
    <3>4. CASE a < p /\ b > p
      <4>1. a \in DOMAIN s /\ b - 1 \in DOMAIN s /\ b - 1 >= p
        BY <2>3, <3>1, <3>4
      <4>2. value[s[a]] <= value[x] /\ value[x] <= value[s[b - 1]]
        BY <2>4, <2>5, <3>4, <4>1
      <4> QED
        BY <1>5, <2>3, <3>4, <4>1, <4>2
    <3>5. CASE a = p /\ b > p
      <4>1. b - 1 \in DOMAIN s /\ b - 1 >= p
        BY <2>3, <3>1, <3>5
      <4> QED
        BY <2>3, <2>5, <3>5, <4>1
    <3>6. CASE a > p
      <4>1. a - 1 \in DOMAIN s /\ b - 1 \in DOMAIN s /\ a - 1 < b - 1 /\ b > p
        BY <2>3, <2>6, <3>1, <3>6
      <4> QED
        BY <1>6, <2>3, <3>6, <4>1 DEF Sorted
    <3> QED
      BY <2>6, <3>1, <3>2, <3>3, <3>4, <3>5, <3>6
  <2> QED
    BY <2>6 DEF Sorted
<1> QED
  BY <1>4, <1>6 DEF r

\* The first item of a sorted list has the least value.
LEMMA HeadIsLeast ==
    ASSUME NEW S, NEW s \in Seq(S), s /= <<>>, NEW value
    PROVE  /\ Head(s) \in Range(s)
           /\ Sorted(s, value) /\ (\A x \in S : value[x] \in Nat) =>
                 \A x \in Range(s) : value[Head(s)] <= value[x]
<1>1. DOMAIN s = 1..Len(s) /\ Len(s) \in Nat /\ Len(s) /= 0
  BY EmptySeq
<1>2. Head(s) = s[1] /\ 1 \in DOMAIN s
  BY <1>1
<1>3. ASSUME Sorted(s, value), \A x \in S : value[x] \in Nat, NEW x \in Range(s)
      PROVE  value[Head(s)] <= value[x]
  <2>1. PICK i \in DOMAIN s : x = s[i]
    BY DEF Range
  <2>2. value[s[1]] \in Nat
    BY <1>1, <1>2, <1>3
  <2>3. i = 1 \/ 1 < i
    BY <1>1
  <2> QED
    BY <1>2, <1>3, <2>1, <2>2, <2>3 DEF Sorted
<1>4. Head(s) \in Range(s)
  BY <1>2 DEF Range
<1> QED
  BY <1>3, <1>4
=============================================================================
