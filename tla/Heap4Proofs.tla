---------------------------- MODULE Heap4Proofs ----------------------------
(***************************************************************************)
(* The blocks of the heap never overlap, free blocks are always merged and *)
(* no byte is lost, for every size and alignment of the heap and every     *)
(* request.                                                                *)
(***************************************************************************)
EXTENDS Heap4, TLAPS, FiniteSetTheorems, WellFoundedInduction

\* Every block ends where the heap ends or before.
BlocksInside == \A b \in free \cup used : End(b) <= EndAddress

HeapInv == HeapTypeOK /\ BlocksInside /\ BlocksApart /\ FreeBlocksMerge

LEMMA AlignmentIsPositive == Alignment \in Nat \ {0}
BY HeapAssumption

LEMMA ModuloBounds ==
    ASSUME NEW n \in Int
    PROVE  n % Alignment \in 0..(Alignment - 1)
BY AlignmentIsPositive

LEMMA Quotient ==
    ASSUME NEW n \in Nat
    PROVE  \E q \in Nat : n = Alignment * q + (n % Alignment)
<1>1. n = Alignment * (n \div Alignment) + (n % Alignment)
  BY AlignmentIsPositive, Z3
<1>2. n \div Alignment \in Nat
  BY AlignmentIsPositive
<1> QED
  BY <1>1, <1>2, Zenon

LEMMA Multiple ==
    ASSUME NEW n \in Nat, NEW q \in Nat, n = Alignment * q
    PROVE  n % Alignment = 0
BY AlignmentIsPositive

LEMMA ModuloOfSum ==
    ASSUME NEW m \in Nat, NEW n \in Nat, m % Alignment = 0, n % Alignment = 0
    PROVE  (m + n) % Alignment = 0
<1>1. PICK p \in Nat : m = Alignment * p + (m % Alignment)
  BY Quotient
<1>2. PICK q \in Nat : n = Alignment * q + (n % Alignment)
  BY Quotient
<1>3. m + n = Alignment * (p + q)
  BY <1>1, <1>2, AlignmentIsPositive
<1> QED
  BY <1>3, Multiple

LEMMA RoundUpIsAligned ==
    ASSUME NEW n \in Nat
    PROVE  RoundUp(n) \in Nat /\ RoundUp(n) >= n /\ RoundUp(n) % Alignment = 0
<1> DEFINE r == n % Alignment
<1>1. r \in 0..(Alignment - 1) /\ Alignment \in Nat \ {0}
  BY AlignmentIsPositive
<1>2. PICK q \in Nat : n = Alignment * q + r
  BY Quotient
<1>3. CASE r = 0
  BY <1>3 DEF RoundUp
<1>4. CASE r /= 0
  <2>1. RoundUp(n) = n + (Alignment - r)
    BY <1>4 DEF RoundUp
  <2> HIDE DEF r
  <2>2. n + (Alignment - r) \in Nat /\ n + (Alignment - r) >= n
    BY <1>1
  <2>3. n + (Alignment - r) = Alignment * (q + 1)
    BY <1>1, <1>2
  <2> QED
    BY <2>1, <2>2, <2>3, Multiple
<1> QED
  BY <1>3, <1>4

\* The bounds of the heap are aligned, and the heap is not empty.
LEMMA Bounds ==
    /\ FirstAddress \in Nat /\ EndAddress \in Nat
    /\ FirstAddress + StructSize < EndAddress
    /\ FirstAddress % Alignment = 0
<1>1. FirstAddress \in Nat /\ FirstAddress % Alignment = 0
  BY HeapAssumption, RoundUpIsAligned DEF FirstAddress
<1>2. EndAddress \in Int
  <2>1. HeapStart + HeapSize - StructSize \in Int
    BY HeapAssumption
  <2> QED
    BY <2>1, ModuloBounds DEF EndAddress, RoundDown
<1> QED
  BY <1>1, <1>2, HeapAssumption

-----------------------------------------------------------------------------
\* The blocks f and g between which a block put among others closes the gap: the
\* one that ends where it begins and the one that begins where it ends, or itself.
Joins(blocks, b, f, g) ==
    /\ f = b \/ End(f) = b.at
    /\ g = b \/ g.at = End(b)
    /\ \A c \in blocks \ {f, g} : End(c) /= b.at /\ c.at /= End(b)
    /\ InsertBlock(blocks, b) =
          (blocks \ {f, g}) \cup {[at |-> f.at, size |-> End(g) - f.at]}

LEMMA JoinedBlock ==
    ASSUME NEW blocks \in SUBSET Blocks, NEW b \in Blocks,
           \A c \in blocks \cup {b} : c.size > StructSize,
           \A c, d \in blocks \cup {b} : c /= d => Apart(c, d),
           b \notin blocks
    PROVE  \E f, g \in blocks \cup {b} : Joins(blocks, b, f, g)
<1> DEFINE front  == {c \in blocks : End(c) = b.at}
           behind == {c \in blocks : c.at = End(b)}
           first  == IF front = {} THEN b.at ELSE (CHOOSE c \in front : TRUE).at
           end    == IF behind = {} THEN End(b) ELSE End(CHOOSE c \in behind : TRUE)
<1>1. \A c \in blocks \cup {b} :
          /\ c.at \in Nat /\ c.size \in Nat /\ End(c) = c.at + c.size /\ c.size > 0
  BY HeapAssumption, Bounds DEF Blocks, End
<1>2. front /= {} => (CHOOSE c \in front : TRUE) \in front
  OBVIOUS
<1>3. behind /= {} => (CHOOSE c \in behind : TRUE) \in behind
  OBVIOUS
<1>4. PICK f \in blocks \cup {b} : IF front = {} THEN f = b ELSE f \in front
  BY <1>2
<1>5. front /= {} => \A c \in front : c = f
  BY <1>1, <1>4 DEF Apart
<1>6. PICK g \in blocks \cup {b} : IF behind = {} THEN g = b ELSE g \in behind
  BY <1>3
<1>7. behind /= {} => \A c \in behind : c = g
  BY <1>1, <1>6 DEF Apart
<1>8. first = f.at /\ end = End(g)
  BY <1>2, <1>3, <1>4, <1>5, <1>6, <1>7
<1>9. blocks \ (front \cup behind) = blocks \ {f, g}
  BY <1>4, <1>5, <1>6, <1>7
<1>10. InsertBlock(blocks, b) =
           (blocks \ (front \cup behind)) \cup {[at |-> first, size |-> end - first]}
  BY DEF InsertBlock
<1>11. (f = b \/ End(f) = b.at) /\ (g = b \/ g.at = End(b))
  BY <1>4, <1>6
<1>12. \A c \in blocks \ {f, g} : End(c) /= b.at /\ c.at /= End(b)
  BY <1>5, <1>7
<1> HIDE DEF first, end, front, behind
<1> QED
  BY <1>8, <1>9, <1>10, <1>11, <1>12 DEF Joins

\* What prvInsertBlockIntoFreeList does: a block put among others that it and
\* they do not touch more than at their ends leaves the blocks apart from each
\* other and from those that were apart from all of them, and none touches another.
LEMMA InsertedBlock ==
    ASSUME NEW blocks \in SUBSET Blocks, NEW b \in Blocks,
           \A c \in blocks \cup {b} :
               c.size > StructSize /\ c.at % Alignment = 0 /\ End(c) <= EndAddress,
           \A c, d \in blocks \cup {b} : c /= d => Apart(c, d),
           \A c, d \in blocks : End(c) /= d.at,
           b \notin blocks
    PROVE  LET after == InsertBlock(blocks, b)
           IN  /\ after \subseteq Blocks
               /\ \A c \in after :
                     c.size > StructSize /\ c.at % Alignment = 0 /\ End(c) <= EndAddress
               /\ \A c, d \in after : c /= d => Apart(c, d)
               /\ \A c, d \in after : End(c) /= d.at
               /\ \A u \in Blocks :
                     /\ u.size > StructSize
                     /\ \A c \in blocks \cup {b} : Apart(c, u)
                     => u \notin after /\ \A c \in after : Apart(c, u)
<1>1. \A c \in blocks \cup {b} :
          /\ c.at \in Nat /\ c.size \in Nat /\ End(c) = c.at + c.size
          /\ FirstAddress <= c.at /\ c.size > 0
  BY HeapAssumption, Bounds DEF Blocks, End
<1>2. PICK f, g \in blocks \cup {b} : Joins(blocks, b, f, g)
  BY JoinedBlock
<1> DEFINE first  == f.at
           end    == End(g)
           joined == [at |-> first, size |-> end - first]
           others == blocks \ {f, g}
           after  == InsertBlock(blocks, b)
<1>3. (f = b \/ End(f) = b.at) /\ (g = b \/ g.at = End(b))
  BY <1>2 DEF Joins
<1>8. after = others \cup {joined}
  BY <1>2 DEF Joins
<1>9. /\ first \in Nat /\ end \in Nat /\ first < end
      /\ first <= b.at /\ b.at < End(b) /\ End(b) <= end
      /\ first + StructSize < end
      /\ FirstAddress <= first /\ end <= EndAddress /\ first % Alignment = 0
  <2>1. f.at <= b.at
    BY <1>1, <1>3
  <2>2. End(b) <= End(g)
    BY <1>1, <1>3
  <2>3. b.size > StructSize
    OBVIOUS
  <2> QED
    BY <1>1, <2>1, <2>2, <2>3, HeapAssumption DEF End
<1>10. joined \in Blocks /\ End(joined) = end /\ joined.at = first
       /\ joined.size > StructSize
  <2> HIDE DEF first, end
  <2> QED
    BY <1>9, Bounds, HeapAssumption DEF Blocks, End
<1>11. ASSUME NEW c \in others
       PROVE  /\ Apart(c, joined)
              /\ End(c) /= first /\ end /= c.at
  <2>1. End(c) /= b.at /\ c.at /= End(b) /\ c /= f /\ c /= g /\ c /= b
    BY <1>2 DEF Joins
  <2>2. Apart(c, f) /\ Apart(c, g) /\ Apart(c, b)
    BY <2>1
  <2>4. End(c) /= first /\ end /= c.at
    <3>1. End(c) /= f.at
      BY <1>3, <2>1
    <3>2. End(g) /= c.at
      BY <1>3, <2>1
    <3> QED
      BY <3>1, <3>2
  <2>5. Apart(c, joined)
    <3> HIDE DEF others, joined
    <3>1. /\ c.at \in Nat /\ c.size \in Nat /\ c.size > 0 /\ End(c) = c.at + c.size
          /\ f.at \in Nat /\ f.size \in Nat /\ f.size > 0 /\ End(f) = f.at + f.size
          /\ g.at \in Nat /\ g.size \in Nat /\ g.size > 0 /\ End(g) = g.at + g.size
          /\ b.at \in Nat /\ b.size \in Nat /\ b.size > 0 /\ End(b) = b.at + b.size
      BY <1>1 DEF others
    <3>2. End(c) <= first \/ end <= c.at
      BY <1>3, <2>2, <3>1 DEF Apart
    <3> QED
      BY <1>10, <3>2 DEF Apart
  <2> QED
    BY <2>4, <2>5
<1>12. ASSUME NEW u \in Blocks, u.size > StructSize,
              \A c \in blocks \cup {b} : Apart(c, u)
       PROVE  u \notin after /\ \A c \in after : Apart(c, u)
  <2>2. Apart(f, u) /\ Apart(g, u) /\ Apart(b, u)
    BY <1>12
  <2>3. u.at \in Nat /\ u.size \in Nat /\ u.size > 0 /\ End(u) = u.at + u.size
    BY <1>12, Bounds, HeapAssumption DEF Blocks, End
  <2>4. Apart(joined, u)
    <3> HIDE DEF joined, after
    <3>1. /\ f.at \in Nat /\ f.size \in Nat /\ f.size > 0 /\ End(f) = f.at + f.size
          /\ g.at \in Nat /\ g.size \in Nat /\ g.size > 0 /\ End(g) = g.at + g.size
          /\ b.at \in Nat /\ b.size \in Nat /\ b.size > 0 /\ End(b) = b.at + b.size
      BY <1>1
    <3>2. end <= u.at \/ End(u) <= first
      BY <1>3, <2>2, <2>3, <3>1 DEF Apart
    <3> QED
      BY <1>10, <3>2 DEF Apart
  <2>5. \A c \in after : Apart(c, u)
    <3>1. \A c \in others : Apart(c, u)
      BY <1>12
    <3> HIDE DEF joined, after, others
    <3> QED
      BY <1>8, <2>4, <3>1 DEF others
  <2>6. ~ Apart(u, u)
    BY <2>3 DEF Apart
  <2> QED
    BY <2>5, <2>6
<1>13. \A c \in others :
           /\ c \in Blocks /\ c.size > StructSize /\ c.at % Alignment = 0
           /\ End(c) <= EndAddress
  OBVIOUS
<1>14. \A c, d \in others : (c /= d => Apart(c, d)) /\ End(c) /= d.at
  OBVIOUS
<1>15. \A c \in after : c \in others \/ c = joined
  BY <1>8
<1>16. \A c : Apart(c, joined) => Apart(joined, c)
  BY DEF Apart
<1> HIDE DEF first, end, joined, others, after
<1>17. after \subseteq Blocks
  BY <1>10, <1>13, <1>15
<1>18. \A c \in after : c.size > StructSize /\ c.at % Alignment = 0 /\ End(c) <= EndAddress
  BY <1>9, <1>10, <1>13, <1>15
<1>19. \A c, d \in after : c /= d => Apart(c, d)
  BY <1>11, <1>14, <1>15, <1>16
<1>20. \A c, d \in after : End(c) /= d.at
  BY <1>9, <1>10, <1>11, <1>14, <1>15
<1> QED
  BY <1>12, <1>17, <1>18, <1>19, <1>20 DEF after

-----------------------------------------------------------------------------
\* What the blocks hold together.
Sum(blocks) == MapThenSumSet(LAMBDA b : b.size, blocks)

\* Sum is a fold, which chooses a function that satisfies this equation.
Folded(f, s) ==
    IF s = {} THEN 0 ELSE LET x == CHOOSE x \in s : TRUE IN x.size + f[s \ {x}]

LEMMA SumIsChosen ==
    ASSUME NEW S
    PROVE  Sum(S) = (CHOOSE f : f = [s \in SUBSET S |-> Folded(f, s)])[S]
BY DEF Sum, MapThenSumSet, MapThenFoldSet, Folded

\* The equation has one solution, the sums of the subsets.
SumsOf(V) == [s \in SUBSET V |-> Sum(s)]
IsFold(f, V) == f = [s \in SUBSET V |-> Folded(f, s)]
OnlyFold(V) == \A f : IsFold(f, V) <=> f = SumsOf(V)

\* The induction: what fails for a set fails for one all of whose subsets it holds
\* for, as the subsets of a finite set are well founded.
LEMMA SmallestCounterexample ==
    ASSUME NEW S, IsFiniteSet(S), NEW T \in SUBSET SUBSET S, T /= {}
    PROVE  \E V \in T : IsFiniteSet(V) /\ \A U \in SUBSET V : U /= V => U \notin T
<1>1. FiniteSubsetsOf(S) = SUBSET S
  BY FS_FiniteSubsetsOfFinite
<1>2. IsWellFoundedOn(StrictSubsetOrdering(S), SUBSET S)
  BY <1>1, FS_StrictSubsetOrderingWellFounded
<1>3. PICK V \in T : \A U \in T : ~ (<<U, V>> \in StrictSubsetOrdering(S))
  BY <1>2, WFMin
<1>4. \A U \in SUBSET V : U /= V => U \notin T
  BY <1>3 DEF StrictSubsetOrdering
<1>5. IsFiniteSet(V)
  BY FS_Subset
<1> QED
  BY <1>3, <1>4, <1>5

LEMMA SumIsTheFold ==
    ASSUME NEW S, IsFiniteSet(S)
    PROVE  OnlyFold(S)
<1> DEFINE T == {V \in SUBSET S : ~ OnlyFold(V)}
<1> SUFFICES ASSUME T /= {} PROVE FALSE
  <2>1. S \in SUBSET S
    OBVIOUS
  <2> QED
    BY <2>1
<1>0. T \in SUBSET SUBSET S /\ T /= {}
  OBVIOUS
<1>1. PICK V \in T : IsFiniteSet(V) /\ \A U \in SUBSET V : U /= V => U \notin T
  <2> HIDE DEF T
  <2> QED
    BY <1>0, SmallestCounterexample
<1>2. V \subseteq S /\ ~ OnlyFold(V)
  BY <1>1
<1>3. \A U \in SUBSET V : U /= V => OnlyFold(U)
  BY <1>1, <1>2
<1> HIDE DEF T
<1> DEFINE F(s) == Folded(SumsOf(V), s)
           h == [s \in SUBSET V |-> IF s = V THEN F(V) ELSE Sum(s)]
<1>4. ASSUME NEW s \in SUBSET V, s /= {}
      PROVE  (CHOOSE x \in s : TRUE) \in s
  BY <1>4
<1>5. ASSUME NEW s \in SUBSET V
      PROVE  Folded(h, s) = F(s)
  <2>1. CASE s = {}
    BY <2>1 DEF Folded
  <2>2. CASE s /= {}
    <3> DEFINE x == CHOOSE x \in s : TRUE
    <3>1. x \in s
      BY <1>4, <2>2
    <3> HIDE DEF x
    <3>2. s \ {x} \in SUBSET V /\ s \ {x} /= V
      BY <3>1
    <3>3. h[s \ {x}] = Sum(s \ {x}) /\ SumsOf(V)[s \ {x}] = Sum(s \ {x})
      BY <3>2 DEF SumsOf
    <3> QED
      BY <2>2, <3>3 DEF Folded, x
  <2> QED
    BY <2>1, <2>2
<1>6. ASSUME NEW s \in SUBSET V, s /= V
      PROVE  Sum(s) = F(s)
  <2>1. IsFold(SumsOf(s), s)
    BY <1>3, <1>6 DEF OnlyFold
  <2>2. Sum(s) = Folded(SumsOf(s), s)
    BY <2>1 DEF IsFold, SumsOf
  <2>3. Folded(SumsOf(s), s) = F(s)
    <3>1. CASE s = {}
      BY <3>1 DEF Folded
    <3>2. CASE s /= {}
      <4> DEFINE x == CHOOSE x \in s : TRUE
      <4>1. SumsOf(s)[s \ {x}] = SumsOf(V)[s \ {x}]
        BY DEF SumsOf
      <4> QED
        BY <3>2, <4>1 DEF Folded
    <3> QED
      BY <3>1, <3>2
  <2> QED
    BY <2>2, <2>3
<1>7. IsFold(h, V)
  <2>1. ASSUME NEW s \in SUBSET V
        PROVE  h[s] = Folded(h, s)
    BY <1>5, <1>6
  <2> QED
    BY <2>1 DEF IsFold
<1>8. ASSUME NEW f, IsFold(f, V)
      PROVE  f = h
  <2>1. ASSUME NEW s \in SUBSET V, s /= V
        PROVE  f[s] = Sum(s)
    <3> DEFINE g == [u \in SUBSET s |-> f[u]]
    <3>1. ASSUME NEW u \in SUBSET s PROVE Folded(g, u) = Folded(f, u)
      <4>1. u \ {CHOOSE x \in u : TRUE} \in SUBSET s
        OBVIOUS
      <4> QED
        BY <4>1 DEF Folded
    <3>2. ASSUME NEW u \in SUBSET s PROVE g[u] = Folded(f, u)
      BY <1>8 DEF IsFold
    <3>3. g = [u \in SUBSET s |-> Folded(g, u)]
      BY <3>1, <3>2
    <3>4. g = SumsOf(s)
      BY <1>3, <2>1, <3>3 DEF OnlyFold, IsFold
    <3>5. s \in SUBSET s
      OBVIOUS
    <3>6. g[s] = SumsOf(s)[s]
      BY <3>4
    <3> QED
      BY <3>5, <3>6 DEF SumsOf
  <2>2. f[V] = F(V)
    <3>1. V \in SUBSET V
      OBVIOUS
    <3>2. f[V] = Folded(f, V)
      BY <1>8, <3>1 DEF IsFold
    <3>3. CASE V = {}
      BY <3>2, <3>3 DEF Folded
    <3>4. CASE V /= {}
      <4> DEFINE x == CHOOSE x \in V : TRUE
      <4>1. x \in V
        BY <1>4, <3>1, <3>4
      <4> HIDE DEF x
      <4>2. f[V \ {x}] = Sum(V \ {x}) /\ SumsOf(V)[V \ {x}] = Sum(V \ {x})
        BY <2>1, <4>1 DEF SumsOf
      <4> QED
        BY <3>2, <3>4, <4>2 DEF Folded, x
    <3> QED
      BY <3>3, <3>4
  <2>3. f = [s \in SUBSET V |-> f[s]]
    BY <1>8 DEF IsFold
  <2>4. \A s \in SUBSET V : f[s] = h[s]
    BY <2>1, <2>2
  <2> QED
    BY <2>3, <2>4
<1>9. Sum(V) = h[V]
  <2> DEFINE c == CHOOSE f : f = [s \in SUBSET V |-> Folded(f, s)]
  <2>1. h = [s \in SUBSET V |-> Folded(h, s)]
    BY <1>7 DEF IsFold
  <2> HIDE DEF h
  <2>2. c = [s \in SUBSET V |-> Folded(c, s)]
    BY <2>1
  <2>3. c = h
    BY <1>8, <2>2 DEF IsFold
  <2> QED
    BY <2>3, SumIsChosen
<1>10. h = SumsOf(V)
  BY <1>9 DEF SumsOf
<1>11. OnlyFold(V)
  BY <1>7, <1>8, <1>10 DEF OnlyFold
<1> QED
  BY <1>2, <1>11

LEMMA SumOfNone == Sum({}) = 0
<1>1. OnlyFold({})
  BY FS_EmptySet, SumIsTheFold
<1>2. SumsOf({})[{}] = Folded(SumsOf({}), {})
  BY <1>1 DEF OnlyFold, IsFold
<1> QED
  BY <1>2 DEF SumsOf, Folded

LEMMA SumUnfolds ==
    ASSUME NEW V, IsFiniteSet(V), V /= {}
    PROVE  \E c \in V : Sum(V) = c.size + Sum(V \ {c})
<1> DEFINE c == CHOOSE x \in V : TRUE
<1>1. c \in V
  OBVIOUS
<1>2. IsFold(SumsOf(V), V)
  BY SumIsTheFold DEF OnlyFold
<1>3. Sum(V) = Folded(SumsOf(V), V)
  BY <1>2 DEF IsFold, SumsOf
<1>4. SumsOf(V)[V \ {c}] = Sum(V \ {c})
  <2> HIDE DEF c
  <2> QED
    BY DEF SumsOf
<1>5. Sum(V) = c.size + Sum(V \ {c})
  BY <1>3, <1>4 DEF Folded
<1> QED
  BY <1>1, <1>5

LEMMA SumIsNatural ==
    ASSUME NEW S, IsFiniteSet(S), \A x \in S : x.size \in Nat
    PROVE  Sum(S) \in Nat
<1> DEFINE T == {V \in SUBSET S : Sum(V) \notin Nat}
<1> SUFFICES ASSUME T /= {} PROVE FALSE
  <2>1. S \in SUBSET S
    OBVIOUS
  <2> QED
    BY <2>1
<1>1. T \in SUBSET SUBSET S
  OBVIOUS
<1>2. PICK V \in T : IsFiniteSet(V) /\ \A U \in SUBSET V : U /= V => U \notin T
  <2> HIDE DEF T
  <2> QED
    BY <1>1, SmallestCounterexample
<1>3. V \subseteq S /\ Sum(V) \notin Nat
  OBVIOUS
<1>4. V /= {}
  BY <1>3, SumOfNone
<1>5. PICK c \in V : Sum(V) = c.size + Sum(V \ {c})
  BY <1>2, <1>4, SumUnfolds
<1>6. V \ {c} \in SUBSET V /\ V \ {c} /= V
  OBVIOUS
<1>7. Sum(V \ {c}) \in Nat
  BY <1>2, <1>3, <1>6
<1> QED
  BY <1>3, <1>5, <1>7

\* The sum does not depend on the order in which the fold takes the blocks.
LEMMA SumWithout ==
    ASSUME NEW S, IsFiniteSet(S), \A x \in S : x.size \in Nat, NEW b \in S
    PROVE  Sum(S) = b.size + Sum(S \ {b})
<1> DEFINE T == {V \in SUBSET S : \E x \in V : Sum(V) /= x.size + Sum(V \ {x})}
<1> SUFFICES ASSUME T /= {} PROVE FALSE
  <2>1. S \in SUBSET S
    OBVIOUS
  <2> QED
    BY <2>1
<1>1. T \in SUBSET SUBSET S
  OBVIOUS
<1>2. PICK V \in T : IsFiniteSet(V) /\ \A U \in SUBSET V : U /= V => U \notin T
  <2> HIDE DEF T
  <2> QED
    BY <1>1, SmallestCounterexample
<1>3. V \subseteq S
  OBVIOUS
<1>4. PICK x \in V : Sum(V) /= x.size + Sum(V \ {x})
  OBVIOUS
<1>5. PICK c \in V : Sum(V) = c.size + Sum(V \ {c})
  BY <1>2, SumUnfolds
<1>6. c /= x
  BY <1>4, <1>5
<1>7. /\ V \ {c} \in SUBSET V /\ V \ {c} /= V /\ x \in V \ {c}
      /\ V \ {x} \in SUBSET V /\ V \ {x} /= V /\ c \in V \ {x}
      /\ (V \ {c}) \ {x} = (V \ {x}) \ {c}
  BY <1>6
<1>8. Sum(V \ {c}) = x.size + Sum((V \ {c}) \ {x})
  BY <1>2, <1>3, <1>7
<1>9. Sum(V \ {x}) = c.size + Sum((V \ {x}) \ {c})
  BY <1>2, <1>3, <1>7
<1>10. Sum((V \ {c}) \ {x}) \in Nat
  <2>1. IsFiniteSet((V \ {c}) \ {x})
    BY <1>2, FS_Subset
  <2> QED
    BY <1>3, <2>1, SumIsNatural
<1>11. x.size \in Nat /\ c.size \in Nat
  BY <1>3
<1> DEFINE p == Sum((V \ {c}) \ {x})
<1>12. Sum(V) = c.size + (x.size + p) /\ Sum(V \ {x}) = c.size + p
  BY <1>5, <1>7, <1>8, <1>9
<1>13. c.size + (x.size + p) = x.size + (c.size + p)
  <2>1. \A i, j, k \in Nat : i + (j + k) = j + (i + k)
    OBVIOUS
  <2> QED
    BY <1>10, <1>11, <2>1
<1> QED
  BY <1>4, <1>12, <1>13

-----------------------------------------------------------------------------
\* The blocks follow each other from the start of the heap to its end.
Tiled(blocks) ==
    /\ \A b \in blocks : End(b) = EndAddress \/ \E c \in blocks : c.at = End(b)
    /\ \E b \in blocks : b.at = FirstAddress

LEMMA InsertedSum ==
    ASSUME NEW blocks \in SUBSET Blocks, NEW b \in Blocks, IsFiniteSet(blocks),
           \A c \in blocks \cup {b} : c.size > StructSize,
           \A c, d \in blocks \cup {b} : c /= d => Apart(c, d),
           b \notin blocks
    PROVE  /\ IsFiniteSet(InsertBlock(blocks, b))
           /\ Sum(InsertBlock(blocks, b)) = Sum(blocks) + b.size
<1>1. \A c \in blocks \cup {b} :
          /\ c.at \in Nat /\ c.size \in Nat /\ End(c) = c.at + c.size /\ c.size > 0
  BY HeapAssumption, Bounds DEF Blocks, End
<1>2. PICK f, g \in blocks \cup {b} : Joins(blocks, b, f, g)
  BY JoinedBlock
<1> DEFINE joined == [at |-> f.at, size |-> End(g) - f.at]
           others == blocks \ {f, g}
<1>3. (f = b \/ End(f) = b.at) /\ (g = b \/ g.at = End(b))
  BY <1>2 DEF Joins
<1>4. InsertBlock(blocks, b) = others \cup {joined}
  BY <1>2 DEF Joins
<1>5. joined.size \in Nat /\ joined.size = End(g) - f.at
  BY <1>1, <1>3
<1>6. joined \notin others
  <2> SUFFICES ASSUME joined \in others PROVE FALSE
    OBVIOUS
  <2>1. joined \in blocks /\ joined /= f /\ joined.at = f.at
    OBVIOUS
  <2> HIDE DEF joined, others
  <2>2. Apart(joined, f)
    BY <2>1
  <2> QED
    BY <1>1, <2>1, <2>2 DEF Apart
<1>7. IsFiniteSet(others) /\ \A c \in others : c.size \in Nat
  BY <1>1, FS_Subset
<1>8. IsFiniteSet(others \cup {joined})
  BY <1>7, FS_AddElement
<1> HIDE DEF joined, others
<1>9. Sum(others \cup {joined}) = joined.size + Sum(others)
  <2>1. (others \cup {joined}) \ {joined} = others
    BY <1>6
  <2>2. \A c \in others \cup {joined} : c.size \in Nat
    BY <1>5, <1>7
  <2> QED
    BY <1>8, <2>1, <2>2, SumWithout
<1>10. Sum(others) \in Nat
  BY <1>7, SumIsNatural
<1>11. b.size + Sum(blocks) = joined.size + Sum(others)
  <2>0. b.at \in Nat /\ b.size \in Nat /\ End(b) = b.at + b.size
    BY <1>1
  <2>1. CASE f = b /\ g = b
    <3>1. others = blocks
      BY <2>1 DEF others
    <3>2. joined.size = b.size
      BY <1>5, <2>0, <2>1
    <3> QED
      BY <3>1, <3>2
  <2>2. CASE f /= b /\ g = b
    <3>1. f \in blocks /\ blocks \ {f} = others
      BY <2>2 DEF others
    <3>2. Sum(blocks) = f.size + Sum(others)
      BY <1>1, <3>1, SumWithout
    <3>3. f.at \in Nat /\ f.size \in Nat /\ End(f) = f.at + f.size /\ End(f) = b.at
      BY <1>1, <1>3, <2>2
    <3> QED
      BY <1>5, <1>10, <2>0, <2>2, <3>2, <3>3
  <2>3. CASE f = b /\ g /= b
    <3>1. g \in blocks /\ blocks \ {g} = others
      BY <2>3 DEF others
    <3>2. Sum(blocks) = g.size + Sum(others)
      BY <1>1, <3>1, SumWithout
    <3>3. g.at \in Nat /\ g.size \in Nat /\ End(g) = g.at + g.size /\ g.at = End(b)
      BY <1>1, <1>3, <2>3
    <3> QED
      BY <1>5, <1>10, <2>0, <2>3, <3>2, <3>3
  <2>4. CASE f /= b /\ g /= b
    <3>1. f.at \in Nat /\ f.size \in Nat /\ End(f) = f.at + f.size /\ End(f) = b.at
      BY <1>1, <1>3, <2>4
    <3>2. g.at \in Nat /\ g.size \in Nat /\ End(g) = g.at + g.size /\ g.at = End(b)
      BY <1>1, <1>3, <2>4
    <3>3. f /= g
      BY <1>1, <3>1, <3>2, <2>0
    <3>4. f \in blocks /\ g \in blocks \ {f} /\ (blocks \ {f}) \ {g} = others
      BY <2>4, <3>3 DEF others
    <3>5. Sum(blocks) = f.size + Sum(blocks \ {f})
      BY <1>1, <3>4, SumWithout
    <3>6. Sum(blocks \ {f}) = g.size + Sum(others)
      <4>1. IsFiniteSet(blocks \ {f})
        BY FS_Subset
      <4> QED
        BY <1>1, <3>4, <4>1, SumWithout
    <3> QED
      BY <1>5, <1>10, <2>0, <3>1, <3>2, <3>5, <3>6
  <2> QED
    BY <2>1, <2>2, <2>3, <2>4
<1>12. Sum(blocks) \in Nat /\ b.size \in Nat
  BY <1>1, SumIsNatural
<1> QED
  BY <1>4, <1>8, <1>9, <1>11, <1>12

LEMMA InsertedTiles ==
    ASSUME NEW blocks \in SUBSET Blocks, NEW b \in Blocks, NEW more \in SUBSET Blocks,
           \A c \in blocks \cup {b} \cup more : c.size > StructSize,
           \A c, d \in blocks \cup {b} \cup more : c /= d => Apart(c, d),
           b \notin blocks, more \cap (blocks \cup {b}) = {},
           Tiled(blocks \cup {b} \cup more)
    PROVE  Tiled(InsertBlock(blocks, b) \cup more)
<1> DEFINE all == blocks \cup {b} \cup more
<1>1. \A c \in all : /\ c.at \in Nat /\ c.size \in Nat /\ End(c) = c.at + c.size
                     /\ c.size > 0 /\ FirstAddress <= c.at
  BY HeapAssumption, Bounds DEF Blocks, End
<1>2. PICK f, g \in blocks \cup {b} : Joins(blocks, b, f, g)
  BY JoinedBlock
<1> DEFINE joined == [at |-> f.at, size |-> End(g) - f.at]
           others == blocks \ {f, g}
           after  == InsertBlock(blocks, b) \cup more
<1>3. (f = b \/ End(f) = b.at) /\ (g = b \/ g.at = End(b))
  BY <1>2 DEF Joins
<1>4. after = others \cup {joined} \cup more
  BY <1>2 DEF Joins
<1>5. joined.at = f.at /\ End(joined) = End(g)
  BY <1>1, <1>3 DEF End
<1>6. b \in all /\ f \in all /\ g \in all
  OBVIOUS
<1>7. /\ \A c \in all : c \in after \/ c \in {b, f, g}
      /\ \A c \in after : c = joined \/ (c \in all /\ c \notin {b, f, g})
      /\ joined \in after
  <2> HIDE DEF joined
  <2>1. \A c \in after : c = joined \/ c \in others \/ c \in more
    BY <1>4
  <2>2. \A c \in others \cup more : c \in all /\ c \notin {b, f, g}
    OBVIOUS
  <2>3. \A c \in all : c \in others \/ c \in more \/ c \in {b, f, g}
    OBVIOUS
  <2> HIDE DEF all, others, after
  <2> QED
    BY <1>4, <2>1, <2>2, <2>3
<1>8. \A c, d \in all : c /= d => Apart(c, d)
  OBVIOUS
<1>9. Tiled(all)
  OBVIOUS
<1> HIDE DEF all, joined, others, after
<1>10. \A c, d \in all : (End(c) = End(d) \/ c.at = d.at) => c = d
  BY <1>1, <1>8 DEF Apart
<1>11. f.at <= b.at /\ (f /= b => f.at < b.at) /\ (g /= b => b.at < g.at)
  BY <1>1, <1>3, <1>6
<1>12. End(b) <= End(g) /\ b.at < End(b) /\ g.at < End(g) /\ f.at < End(g)
  BY <1>1, <1>3, <1>6
\* Where a block ends, another begins or the heap ends.
<1>13. ASSUME NEW d \in after
       PROVE  End(d) = EndAddress \/ \E c \in after : c.at = End(d)
  <2>1. CASE d = joined
    <3>1. End(g) = EndAddress \/ \E c \in all : c.at = End(g)
      BY <1>6, <1>9 DEF Tiled
    <3>2. CASE End(g) = EndAddress
      BY <1>5, <2>1, <3>2
    <3>3. ASSUME NEW c \in all, c.at = End(g)
          PROVE  c \in after
      <4>1. c /= b /\ c /= g /\ c /= f
        BY <1>1, <1>3, <1>6, <1>11, <1>12, <3>3
      <4> QED
        BY <1>7, <4>1
    <3> QED
      BY <1>5, <2>1, <3>1, <3>2, <3>3
  <2>2. CASE d \in all /\ d \notin {b, f, g}
    <3>1. End(d) = EndAddress \/ \E c \in all : c.at = End(d)
      BY <1>9, <2>2 DEF Tiled
    <3>2. ASSUME NEW c \in all, c.at = End(d)
          PROVE  c \in after \/ c = f
      <4>1. c = b => f = b
        BY <1>3, <1>6, <1>10, <2>2, <3>2
      <4>2. c = g => g = b
        BY <1>3, <1>6, <1>10, <2>2, <3>2
      <4> QED
        BY <1>7, <4>1, <4>2
    <3> QED
      BY <1>5, <1>7, <3>1, <3>2
  <2> QED
    BY <1>7, <2>1, <2>2
<1>14. PICK c \in all : c.at = FirstAddress
  BY <1>9 DEF Tiled
<1>15. c \in after \/ c = f
  <2>1. (c = b => f = b) /\ (c = g => g = b)
    BY <1>1, <1>6, <1>11, <1>14
  <2> QED
    BY <1>7, <2>1
<1>16. \E d \in after : d.at = FirstAddress
  BY <1>5, <1>7, <1>14, <1>15
<1>17. Tiled(after)
  BY <1>13, <1>16 DEF Tiled
<1> QED
  BY <1>17 DEF after

-----------------------------------------------------------------------------
LEMMA InitHolds == HeapInit => HeapInv
<1> SUFFICES ASSUME HeapInit PROVE HeapInv
  OBVIOUS
<1> DEFINE b == [at |-> FirstAddress, size |-> EndAddress - FirstAddress]
<1>1. free = {b} /\ used = {} /\ remaining \in Int /\ minimum \in Int
  BY Bounds DEF HeapInit
<1>2. b \in Blocks /\ End(b) = EndAddress /\ End(b) /= b.at
  BY Bounds, HeapAssumption DEF Blocks, End
<1>3. b.size > StructSize /\ b.at % Alignment = 0
  BY Bounds, HeapAssumption
<1> HIDE DEF b
<1>4. HeapTypeOK /\ BlocksInside
  BY <1>1, <1>2, Bounds DEF HeapTypeOK, BlocksInside
<1>5. BlocksApart /\ FreeBlocksMerge
  BY <1>1, <1>2, <1>3 DEF BlocksApart, FreeBlocksMerge
<1> QED
  BY <1>4, <1>5 DEF HeapInv

LEMMA WantedIsAligned ==
    ASSUME NEW n \in Sizes
    PROVE  /\ Wanted(n) \in Nat /\ Wanted(n) >= n + StructSize
           /\ Wanted(n) % Alignment = 0
BY HeapAssumption, RoundUpIsAligned DEF Wanted

LEMMA FreeKeeps ==
    ASSUME HeapInv, NEW b \in used, Free(b)
    PROVE  HeapInv'
<1>1. b \in Blocks /\ b \notin free /\ free \in SUBSET Blocks
  BY DEF HeapInv, HeapTypeOK, BlocksApart
<1>2. /\ \A c \in free \cup {b} :
            c.size > StructSize /\ c.at % Alignment = 0 /\ End(c) <= EndAddress
      /\ \A c, d \in free \cup {b} : c /= d => Apart(c, d)
      /\ \A c, d \in free : End(c) /= d.at
  BY DEF HeapInv, BlocksInside, BlocksApart, FreeBlocksMerge
<1>3. free' = InsertBlock(free, b) /\ used' = used \ {b}
  BY DEF Free
<1>4. /\ free' \subseteq Blocks
      /\ \A c \in free' : c.size > StructSize /\ c.at % Alignment = 0 /\ End(c) <= EndAddress
      /\ \A c, d \in free' : c /= d => Apart(c, d)
      /\ \A c, d \in free' : End(c) /= d.at
      /\ \A u \in Blocks :
            /\ u.size > StructSize
            /\ \A c \in free \cup {b} : Apart(c, u)
            => u \notin free' /\ \A c \in free' : Apart(c, u)
  BY <1>1, <1>2, <1>3, InsertedBlock
<1>5. ASSUME NEW u \in used'
      PROVE  /\ u \in Blocks /\ u.size > StructSize /\ u.at % Alignment = 0
             /\ End(u) <= EndAddress /\ u \notin free'
             /\ \A c \in free' : Apart(c, u) /\ Apart(u, c)
  <2>1. u \in used /\ u /= b
    BY <1>3
  <2>2. \A c \in free \cup {b} : Apart(c, u)
    BY <2>1 DEF HeapInv, BlocksApart
  <2>3. u \in Blocks /\ u.size > StructSize /\ u.at % Alignment = 0 /\ End(u) <= EndAddress
    BY <2>1 DEF HeapInv, HeapTypeOK, BlocksApart, BlocksInside
  <2> QED
    BY <1>4, <2>2, <2>3 DEF Apart
<1>6. \A c, d \in used' : c /= d => Apart(c, d)
  BY <1>3 DEF HeapInv, BlocksApart
<1>7. remaining' \in Int /\ minimum' \in Int
  BY <1>1 DEF Free, HeapInv, HeapTypeOK, Blocks
<1> QED
  BY <1>4, <1>5, <1>6, <1>7 DEF HeapInv, HeapTypeOK, BlocksInside, BlocksApart, FreeBlocksMerge

LEMMA MallocKeeps ==
    ASSUME HeapInv, NEW n \in Sizes, Malloc(n)
    PROVE  HeapInv'
<1> DEFINE w == Wanted(n)
<1>1. w \in Nat /\ w > StructSize /\ w % Alignment = 0
  BY WantedIsAligned, HeapAssumption DEF Malloc
<1>2. PICK b \in FirstFit(w) :
          /\ free' = IF Splits(b, w) THEN InsertBlock(free \ {b}, Rest(b, w)) ELSE free \ {b}
          /\ used' = used \cup {Taken(b, w)}
          /\ remaining' = remaining - Taken(b, w).size
          /\ minimum' = IF remaining' < minimum THEN remaining' ELSE minimum
  BY DEF Malloc
<1> HIDE DEF w
<1>3. /\ b \in free /\ b \in Blocks /\ b.size >= w
      /\ b.at \in Nat /\ b.size \in Nat /\ End(b) = b.at + b.size
      /\ FirstAddress <= b.at /\ End(b) <= EndAddress /\ b.at % Alignment = 0
      /\ b = [at |-> b.at, size |-> b.size]
  BY <1>2, Bounds DEF FirstFit, HeapInv, HeapTypeOK, Blocks, BlocksInside, BlocksApart, End
<1>4. remaining' \in Int /\ minimum' \in Int
  <2>1. Taken(b, w).size \in Nat
    BY <1>1, <1>3 DEF Taken
  <2> QED
    BY <1>2, <2>1 DEF HeapInv, HeapTypeOK
<1>5. CASE ~ Splits(b, w)
  <2>1. Taken(b, w) = b
    BY <1>3, <1>5 DEF Taken
  <2>2. free' = free \ {b} /\ used' = used \cup {b}
    BY <1>2, <1>5, <2>1
  <2> QED
    BY <1>3, <1>4, <2>2
       DEF HeapInv, HeapTypeOK, BlocksInside, BlocksApart, FreeBlocksMerge
<1>6. CASE Splits(b, w)
  <2> DEFINE taken == Taken(b, w)
             rest  == Rest(b, w)
             blocks == free \ {b}
  <2>1. taken = [at |-> b.at, size |-> w] /\ rest = [at |-> b.at + w, size |-> b.size - w]
    BY <1>3, <1>6 DEF Taken, Rest
  <2>2. b.size - w > 2 * StructSize
    BY <1>6 DEF Splits, MinimumBlockSize
  <2>3. /\ taken.at = b.at /\ taken.size = w /\ End(taken) = b.at + w
        /\ rest.at = b.at + w /\ rest.size = b.size - w /\ End(rest) = End(b)
    BY <1>1, <1>3, <2>1 DEF End
  <2>4. (b.at + w) % Alignment = 0
    BY <1>1, <1>3, ModuloOfSum
  <2>5. taken \in Blocks /\ rest \in Blocks
    BY <1>1, <1>3, <2>1, <2>2, Bounds, HeapAssumption DEF Blocks
  <2>6. /\ free' = InsertBlock(blocks, rest) /\ used' = used \cup {taken}
    BY <1>2, <1>6
  <2>7. /\ taken.size > StructSize /\ taken.at % Alignment = 0 /\ End(taken) <= EndAddress
        /\ rest.size > StructSize /\ rest.at % Alignment = 0 /\ End(rest) <= EndAddress
        /\ Apart(rest, taken) /\ Apart(taken, rest)
    BY <1>1, <1>3, <2>2, <2>3, <2>4, HeapAssumption, Bounds DEF Apart
  <2>8. ASSUME NEW c \in Blocks, Apart(c, b)
        PROVE  Apart(c, rest) /\ Apart(rest, c) /\ Apart(c, taken) /\ Apart(taken, c)
    <3>1. c.at \in Nat /\ c.size \in Nat /\ End(c) = c.at + c.size
      BY Bounds DEF Blocks, End
    <3> HIDE DEF taken, rest
    <3>2. End(c) <= b.at \/ End(b) <= c.at
      BY <2>8 DEF Apart
    <3> QED
      BY <1>1, <1>3, <2>2, <2>3, <3>1, <3>2, HeapAssumption DEF Apart
  <2>9. ~ Apart(b, rest) /\ ~ Apart(b, b) /\ ~ Apart(b, taken)
    BY <1>1, <1>3, <2>2, <2>3, HeapAssumption DEF Apart
  <2> HIDE DEF taken, rest
  <2>10. \A c \in blocks : c \in Blocks /\ Apart(c, b) /\ Apart(b, c)
    BY <1>3 DEF HeapInv, HeapTypeOK, BlocksApart
  <2>11. \A u \in used : u \in Blocks /\ Apart(u, b) /\ Apart(b, u)
    BY <1>3 DEF HeapInv, HeapTypeOK, BlocksApart
  <2>12. rest \notin blocks
    BY <2>9, <2>10
  <2>13. /\ \A c \in blocks \cup {rest} :
              c.size > StructSize /\ c.at % Alignment = 0 /\ End(c) <= EndAddress
         /\ \A c, d \in blocks \cup {rest} : c /= d => Apart(c, d)
         /\ \A c, d \in blocks : End(c) /= d.at
         /\ blocks \in SUBSET Blocks
    BY <2>7, <2>8, <2>10
       DEF HeapInv, HeapTypeOK, BlocksInside, BlocksApart, FreeBlocksMerge
  <2>14. /\ free' \subseteq Blocks
         /\ \A c \in free' : c.size > StructSize /\ c.at % Alignment = 0 /\ End(c) <= EndAddress
         /\ \A c, d \in free' : c /= d => Apart(c, d)
         /\ \A c, d \in free' : End(c) /= d.at
         /\ \A u \in Blocks :
               /\ u.size > StructSize
               /\ \A c \in blocks \cup {rest} : Apart(c, u)
               => u \notin free' /\ \A c \in free' : Apart(c, u)
    <3> HIDE DEF blocks
    <3> QED
      BY <2>5, <2>6, <2>12, <2>13, InsertedBlock
  <2>15. ASSUME NEW u \in used'
         PROVE  /\ u \in Blocks /\ u.size > StructSize /\ u.at % Alignment = 0
                /\ End(u) <= EndAddress /\ u \notin free'
                /\ \A c \in free' : Apart(c, u) /\ Apart(u, c)
    <3>1. u \in used \/ u = taken
      BY <2>6
    <3>2. /\ u \in Blocks /\ u.size > StructSize /\ u.at % Alignment = 0
          /\ End(u) <= EndAddress
      BY <2>5, <2>7, <3>1 DEF HeapInv, HeapTypeOK, BlocksApart, BlocksInside
    <3>3. \A c \in blocks : Apart(c, u)
      <4>1. CASE u \in used
        BY <4>1 DEF HeapInv, BlocksApart
      <4>2. CASE u = taken
        BY <2>8, <2>10, <4>2
      <4> QED
        BY <3>1, <4>1, <4>2
    <3>4. Apart(rest, u)
      BY <2>7, <2>8, <2>11, <3>1
    <3> QED
      BY <2>14, <3>2, <3>3, <3>4 DEF Apart
  <2>16. \A c, d \in used' : c /= d => Apart(c, d)
    <3>1. \A c, d \in used : c /= d => Apart(c, d)
      BY DEF HeapInv, BlocksApart
    <3> QED
      BY <2>6, <2>8, <2>11, <3>1
  <2> HIDE DEF blocks
  <2> QED
    BY <1>4, <2>14, <2>15, <2>16
       DEF HeapInv, HeapTypeOK, BlocksInside, BlocksApart, FreeBlocksMerge
<1> QED
  BY <1>5, <1>6

\* Allocating and freeing keep the blocks of the heap inside it, apart from each
\* other and merged (heap_4.c:113-307).
THEOREM HeapInvariant == HeapSpec => []HeapInv
<1>1. HeapInv /\ [HeapNext]_heapVars => HeapInv'
  <2> SUFFICES ASSUME HeapInv, [HeapNext]_heapVars PROVE HeapInv'
    OBVIOUS
  <2>1. CASE UNCHANGED heapVars
    BY <2>1 DEF heapVars, HeapInv, HeapTypeOK, BlocksInside, BlocksApart, FreeBlocksMerge
  <2> QED
    BY <2>1, MallocKeeps, FreeKeeps DEF HeapNext
<1> QED
  BY <1>1, InitHolds, PTL DEF HeapSpec

-----------------------------------------------------------------------------
\* What is counted is what the free blocks hold.
Counted ==
    /\ IsFiniteSet(free)
    /\ remaining = Sum(free)
    /\ minimum <= remaining

LeakInv == HeapInv /\ Tiled(free \cup used) /\ Counted

LEMMA LeakInit == HeapInit => LeakInv
<1> SUFFICES ASSUME HeapInit PROVE LeakInv
  OBVIOUS
<1> DEFINE b == [at |-> FirstAddress, size |-> EndAddress - FirstAddress]
<1>1. free = {b} /\ used = {} /\ remaining = b.size /\ minimum = remaining
  BY DEF HeapInit
<1>2. b.at = FirstAddress /\ b.size \in Nat /\ End(b) = EndAddress
  BY Bounds, HeapAssumption DEF End
<1> HIDE DEF b
<1>3. IsFiniteSet({b}) /\ IsFiniteSet({})
  BY FS_Singleton, FS_EmptySet
<1>4. Sum({b}) = b.size
  <2>1. Sum({b}) = b.size + Sum({b} \ {b})
    BY <1>2, <1>3, SumWithout
  <2>2. {b} \ {b} = {}
    OBVIOUS
  <2> QED
    BY <1>2, <2>1, <2>2, SumOfNone
<1>5. Tiled(free \cup used)
  BY <1>1, <1>2 DEF Tiled
<1>6. Counted
  BY <1>1, <1>2, <1>3, <1>4 DEF Counted
<1> QED
  BY <1>5, <1>6, InitHolds DEF LeakInv

LEMMA FreeCounts ==
    ASSUME LeakInv, NEW b \in used, Free(b)
    PROVE  LeakInv'
<1>1. free' = InsertBlock(free, b) /\ used' = used \ {b}
      /\ remaining' = remaining + b.size /\ minimum' = minimum
  BY DEF Free
<1>2. /\ free \in SUBSET Blocks /\ b \in Blocks /\ used \in SUBSET Blocks
      /\ b \notin free /\ free \cap used = {}
      /\ \A c \in free \cup used : c.size > StructSize
      /\ \A c, d \in free \cup used : c /= d => Apart(c, d)
      /\ IsFiniteSet(free) /\ remaining = Sum(free) /\ minimum <= remaining
      /\ remaining \in Int /\ minimum \in Int
  BY DEF LeakInv, HeapInv, HeapTypeOK, BlocksApart, Counted
<1>3. free \cup {b} \cup (used \ {b}) = free \cup used
  OBVIOUS
<1>4. Tiled(free \cup {b} \cup (used \ {b}))
  BY <1>3 DEF LeakInv
<1>5. Tiled(free' \cup used')
  <2>1. used \ {b} \in SUBSET Blocks /\ (used \ {b}) \cap (free \cup {b}) = {}
    BY <1>2
  <2> QED
    BY <1>1, <1>2, <1>3, <1>4, <2>1, InsertedTiles
<1>6. IsFiniteSet(free') /\ Sum(free') = Sum(free) + b.size
  BY <1>1, <1>2, InsertedSum
<1>7. b.size \in Nat
  BY <1>2, Bounds DEF Blocks
<1>8. Counted'
  BY <1>1, <1>2, <1>6, <1>7 DEF Counted
<1> QED
  BY <1>5, <1>8, FreeKeeps DEF LeakInv

LEMMA MallocCounts ==
    ASSUME LeakInv, NEW n \in Sizes, Malloc(n)
    PROVE  LeakInv'
<1> DEFINE w == Wanted(n)
<1>1. w \in Nat /\ w > StructSize
  BY WantedIsAligned, HeapAssumption DEF Malloc
<1>2. PICK b \in FirstFit(w) :
          /\ free' = IF Splits(b, w) THEN InsertBlock(free \ {b}, Rest(b, w)) ELSE free \ {b}
          /\ used' = used \cup {Taken(b, w)}
          /\ remaining' = remaining - Taken(b, w).size
          /\ minimum' = IF remaining' < minimum THEN remaining' ELSE minimum
  BY DEF Malloc
<1> HIDE DEF w
<1>3. /\ free \in SUBSET Blocks /\ used \in SUBSET Blocks /\ free \cap used = {}
      /\ \A c \in free \cup used : c.size > StructSize
      /\ \A c, d \in free \cup used : c /= d => Apart(c, d)
      /\ IsFiniteSet(free) /\ remaining = Sum(free) /\ minimum <= remaining
      /\ remaining \in Int /\ minimum \in Int
      /\ Tiled(free \cup used)
  BY DEF LeakInv, HeapInv, HeapTypeOK, BlocksApart, Counted
<1>4. /\ b \in free /\ b \in Blocks /\ b.size >= w
      /\ b.at \in Nat /\ b.size \in Nat /\ End(b) = b.at + b.size
      /\ FirstAddress <= b.at /\ End(b) <= EndAddress
      /\ b = [at |-> b.at, size |-> b.size]
  BY <1>2, Bounds DEF FirstFit, LeakInv, HeapInv, HeapTypeOK, Blocks, BlocksInside, End
<1> DEFINE blocks == free \ {b}
<1>5. IsFiniteSet(blocks) /\ Sum(free) = b.size + Sum(blocks) /\ Sum(blocks) \in Nat
  <2>1. \A c \in free : c.size \in Nat
    BY <1>3, Bounds DEF Blocks
  <2>2. IsFiniteSet(blocks)
    BY <1>3, FS_Subset
  <2> QED
    BY <1>3, <1>4, <2>1, <2>2, SumWithout, SumIsNatural
<1>6. CASE ~ Splits(b, w)
  <2>1. Taken(b, w) = b
    BY <1>4, <1>6 DEF Taken
  <2>2. free' = blocks /\ used' = used \cup {b} /\ remaining' = remaining - b.size
    BY <1>2, <1>6, <2>1
  <2>3. free' \cup used' = free \cup used
    BY <1>4, <2>2
  <2>4. Counted'
    <3> HIDE DEF blocks
    <3>1. remaining' = Sum(blocks)
      BY <1>3, <1>4, <1>5, <2>2
    <3> QED
      BY <1>2, <1>3, <1>5, <2>2, <3>1 DEF Counted
  <2> QED
    BY <1>3, <2>3, <2>4, MallocKeeps DEF LeakInv
<1>7. CASE Splits(b, w)
  <2> DEFINE taken == Taken(b, w)
             rest  == Rest(b, w)
             more  == used \cup {taken}
  <2>1. taken = [at |-> b.at, size |-> w] /\ rest = [at |-> b.at + w, size |-> b.size - w]
    BY <1>4, <1>7 DEF Taken, Rest
  <2>2. b.size - w > 2 * StructSize
    BY <1>7 DEF Splits, MinimumBlockSize
  <2>3. /\ taken.at = b.at /\ taken.size = w /\ End(taken) = b.at + w
        /\ rest.at = b.at + w /\ rest.size = b.size - w /\ End(rest) = End(b)
    BY <1>1, <1>4, <2>1 DEF End
  <2>4. taken \in Blocks /\ rest \in Blocks
    BY <1>1, <1>4, <2>1, <2>2, Bounds, HeapAssumption DEF Blocks
  <2>5. free' = InsertBlock(blocks, rest) /\ used' = more /\ remaining' = remaining - w
    BY <1>2, <1>7, <2>3
  <2>6. taken.size > StructSize /\ rest.size > StructSize
    BY <1>1, <1>4, <2>2, <2>3, HeapAssumption
  <2> HIDE DEF taken, rest
  \* What was apart from the block is apart from both parts of it.
  <2>7. ASSUME NEW c \in free \cup used, c /= b
        PROVE  /\ Apart(c, rest) /\ Apart(rest, c) /\ Apart(c, taken) /\ Apart(taken, c)
               /\ c /= rest /\ c /= taken
    <3>1. c.at \in Nat /\ c.size \in Nat /\ End(c) = c.at + c.size /\ c.size > 0
      BY <1>3, Bounds, HeapAssumption DEF Blocks, End
    <3>2. End(c) <= b.at \/ End(b) <= c.at
      BY <1>3, <1>4, <2>7 DEF Apart
    <3> QED
      BY <1>1, <1>4, <2>2, <2>3, <3>1, <3>2, HeapAssumption DEF Apart
  <2>8. Apart(rest, taken) /\ Apart(taken, rest) /\ rest /= taken
    BY <1>1, <1>4, <2>2, <2>3, HeapAssumption DEF Apart
  <2>9. b \notin used
    BY <1>3, <1>4
  <2>10. /\ blocks \in SUBSET Blocks /\ more \in SUBSET Blocks
         /\ rest \notin blocks /\ more \cap (blocks \cup {rest}) = {}
         /\ \A c \in blocks \cup {rest} \cup more : c.size > StructSize
    BY <1>3, <2>4, <2>6, <2>7, <2>8, <2>9
  <2>11. \A c, d \in blocks \cup {rest} \cup more : c /= d => Apart(c, d)
    BY <1>3, <2>7, <2>8, <2>9
  <2>12. Tiled(blocks \cup {rest} \cup more)
    <3> DEFINE all == free \cup used
               cut == blocks \cup {rest} \cup more
    <3>1. \A c : c \in cut <=> (c \in all /\ c /= b) \/ c \in {taken, rest}
      BY <2>9
    <3>2. Tiled(all) /\ b \in all
      BY <1>3, <1>4
    <3> HIDE DEF all, cut
    <3>3. ASSUME NEW c \in all
          PROVE  \E d \in cut : d.at = c.at
      BY <2>3, <3>1
    <3>4. ASSUME NEW c \in cut
          PROVE  End(c) = EndAddress \/ \E d \in cut : d.at = End(c)
      <4>1. CASE c = taken
        BY <2>3, <3>1, <4>1
      <4>2. CASE c = rest \/ c \in all
        <5>1. End(c) = EndAddress \/ \E d \in all : d.at = End(c)
          BY <2>3, <3>2, <4>2 DEF Tiled
        <5> QED
          BY <3>3, <5>1
      <4> QED
        BY <3>1, <4>1, <4>2
    <3>5. \E c \in cut : c.at = FirstAddress
      BY <3>2, <3>3 DEF Tiled
    <3>6. Tiled(cut)
      BY <3>4, <3>5 DEF Tiled
    <3> QED
      BY <3>6 DEF cut
  <2> HIDE DEF blocks, more
  <2>13. Tiled(free' \cup used')
    BY <2>4, <2>5, <2>10, <2>11, <2>12, InsertedTiles
  <2>14. IsFiniteSet(free') /\ Sum(free') = Sum(blocks) + (b.size - w)
    BY <1>5, <2>3, <2>4, <2>5, <2>10, <2>11, InsertedSum
  <2>15. remaining' = Sum(free')
    BY <1>1, <1>3, <1>4, <1>5, <2>5, <2>14
  <2>16. Counted'
    BY <1>1, <1>2, <1>3, <2>5, <2>14, <2>15 DEF Counted
  <2> QED
    BY <2>13, <2>16, MallocKeeps DEF LeakInv
<1> QED
  BY <1>6, <1>7

LEMMA LeakStep == LeakInv /\ [HeapNext]_heapVars => LeakInv'
<1> SUFFICES ASSUME LeakInv, [HeapNext]_heapVars PROVE LeakInv'
  OBVIOUS
<1>1. CASE UNCHANGED heapVars
  <2>1. HeapInv'
    BY <1>1 DEF heapVars, LeakInv, HeapInv, HeapTypeOK, BlocksInside, BlocksApart, FreeBlocksMerge
  <2> QED
    BY <1>1, <2>1 DEF heapVars, LeakInv, Counted
<1> QED
  BY <1>1, MallocCounts, FreeCounts DEF HeapNext

\* No byte is lost: the blocks cover the heap, and xFreeBytesRemaining is what the
\* free ones hold, however blocks are split, taken and merged
\* (heap_4.c:113-307, 378-436).
THEOREM NothingIsLost == HeapSpec => []NothingLeaks
<1>1. LeakInv => NothingLeaks
  BY DEF LeakInv, Tiled, Counted, NothingLeaks, Sum
<1> QED
  BY <1>1, LeakInit, LeakStep, PTL DEF HeapSpec

-----------------------------------------------------------------------------
\* The lists hold blocks of the heap (heap_4.c:113-307).
THEOREM HeapIsTyped == HeapSpec => []HeapTypeOK
<1>1. HeapInv => HeapTypeOK
  BY DEF HeapInv
<1> QED
  BY <1>1, HeapInvariant, PTL

\* No byte belongs to two blocks, and every block is aligned with room behind its
\* header (heap_4.c:170-215, 378-436).
THEOREM BlocksStayApart == HeapSpec => []BlocksApart
<1>1. HeapInv => BlocksApart
  BY DEF HeapInv
<1> QED
  BY <1>1, HeapInvariant, PTL

\* Free blocks never touch (heap_4.c:378-436).
THEOREM FreeBlocksStayMerged == HeapSpec => []FreeBlocksMerge
<1>1. HeapInv => FreeBlocksMerge
  BY DEF HeapInv
<1> QED
  BY <1>1, HeapInvariant, PTL
=============================================================================
