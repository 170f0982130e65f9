--------------------------- MODULE SnapshotProofs ---------------------------
(***************************************************************************)
(* Proofs about the book with its heaps and about the snapshots of it, for *)
(* any clients, integer prices and quantities, and any bounds.             *)
(*                                                                         *)
(* First the heaps: pushing, popping, emptying and rebuilding keep a heap  *)
(* of the elements there should be.  A statement about all cells of a heap *)
(* or all steps of a loop is shown at a least cell or step for which it    *)
(* fails.  Then HeapBook: the front of each heap is a best price, and the  *)
(* book implements the serial Exchange.  Last Snapshot: P95 is a quantile, *)
(* a dashboard reads back the six sections the server wrote, and so the    *)
(* order tables list the book, the totals count the tape, the average      *)
(* price is one, and the depth table agrees with the rest of the view.     *)
(***************************************************************************)
EXTENDS Snapshot, Totals, SequenceTheorems

-----------------------------------------------------------------------------
(* Induction over the natural numbers, without an operator parameter.      *)

LEMMA LeastNat ==
  ASSUME NEW T, T \subseteq Nat, T # {}
  PROVE  \E m \in T : \A k \in T : m <= k
<1> DEFINE R == OpToRel(<, Nat)
<1>1. \A k, m \in Nat : k < m => <<k, m>> \in R
  BY DEF OpToRel
<1>2. IsWellFoundedOn(R, Nat)
  BY NatLessThanWellFounded, Zenon
<1> HIDE DEF R
<1>3. PICK m \in T : \A k \in T : ~(<<k, m>> \in R)
  BY <1>2, WFMin
<1>4. ASSUME NEW k \in T PROVE m <= k
  <2>1. ~(k < m)
    BY <1>1, <1>3
  <2> QED
    BY <2>1
<1> QED
  BY <1>4

LEMMA UpTo ==
  ASSUME NEW n \in Nat, NEW S, 0 \in S, \A k \in 0 .. n - 1 : k \in S => k + 1 \in S
  PROVE  \A k \in 0 .. n : k \in S
<1> DEFINE T == {k \in 0 .. n : k \notin S}
<1> SUFFICES ASSUME T # {} PROVE FALSE
  OBVIOUS
<1>1. PICK m \in T : \A k \in T : m <= k
  <2>1. T \subseteq Nat
    OBVIOUS
  <2> HIDE DEF T
  <2> QED
    BY <2>1, LeastNat
<1>2. m # 0 /\ m \in 0 .. n /\ m \notin S
  OBVIOUS
<1>3. m - 1 \in 0 .. n - 1 /\ m - 1 \notin T /\ m - 1 + 1 = m
  BY <1>1, <1>2
<1> QED
  BY <1>2, <1>3

-----------------------------------------------------------------------------
(* The ancestors of a cell.                                                *)

\* T is closed under going from a cell to its parent.
LEMMA AncestorsOf ==
  /\ Ancestors[0] = {}
  /\ \A i \in Nat \ {0} : Ancestors[i] = {i} \cup Ancestors[i \div 2]
<1> DEFINE Closed(T) == \A k \in T : k \div 2 \in T
           W(i) == {j \in 1 .. i : \A T \in SUBSET Nat : i \in T /\ Closed(T) => j \in T}
           F == [i \in Nat |-> W(i)]
<1>1. ASSUME NEW i \in Nat, i # 0
      PROVE  W(i) = {i} \cup W(i \div 2)
  <2>1. i \div 2 \in Nat /\ i \div 2 < i
    BY <1>1
  <2>2. i \in W(i)
    BY <1>1
  <2>3. ASSUME NEW j \in W(i \div 2) PROVE j \in W(i)
    BY <2>1, <2>3
  <2>4. ASSUME NEW j \in W(i), j # i PROVE j \in W(i \div 2)
    <3>1. j \in 1 .. i \div 2
      <4> DEFINE T == {i} \cup 0 .. (i \div 2)
      <4>1. T \in SUBSET Nat /\ i \in T /\ Closed(T)
        BY <2>1
      <4> HIDE DEF T
      <4>2. j \in T
        BY <2>4, <4>1
      <4> QED
        BY <2>4, <4>2 DEF T
    <3>2. ASSUME NEW T \in SUBSET Nat, i \div 2 \in T, Closed(T)
          PROVE  j \in T
      <4>1. T \cup {i} \in SUBSET Nat /\ i \in T \cup {i} /\ Closed(T \cup {i})
        BY <3>2
      <4>2. j \in T \cup {i}
        BY <2>4, <4>1
      <4> QED
        BY <2>4, <4>2
    <3> QED
      BY <3>1, <3>2
  <2> HIDE DEF W
  <2> QED
    BY <2>2, <2>3, <2>4
<1>2. W(0) = {}
  OBVIOUS
<1> HIDE DEF W
<1>3. F = [i \in Nat |-> IF i = 0 THEN {} ELSE {i} \cup F[i \div 2]]
  <2>1. ASSUME NEW i \in Nat
        PROVE  F[i] = IF i = 0 THEN {} ELSE {i} \cup F[i \div 2]
    BY <1>1, <1>2
  <2> QED
    BY <2>1, Zenon
<1> HIDE DEF F
<1>4. Ancestors = [i \in Nat |-> IF i = 0 THEN {} ELSE {i} \cup Ancestors[i \div 2]]
  BY <1>3, Zenon DEF Ancestors
<1> QED
  BY <1>4

\* What the proofs need to know of the ancestors of a cell.
IsChain(i) ==
  /\ Ancestors[i] \subseteq 1 .. i
  /\ i > 0 => i \in Ancestors[i]
  /\ \A j \in Ancestors[i] : j > 1 => j \div 2 \in Ancestors[i]
  /\ \A j, k \in Ancestors[i] : j < k => j <= k \div 2
  /\ \A j \in Ancestors[i] : j < i => \E k \in Ancestors[i] : k \div 2 = j

LEMMA AncestorsAreChain == \A i \in Nat : IsChain(i)
<1> DEFINE T == {i \in Nat : ~IsChain(i)}
<1> SUFFICES ASSUME T # {} PROVE FALSE
  OBVIOUS
<1>1. PICK i \in T : \A k \in T : i <= k
  <2> HIDE DEF T
  <2>1. T \subseteq Nat
    BY DEF T
  <2> QED
    BY <2>1, LeastNat
<1>2. i # 0
  BY AncestorsOf DEF IsChain
<1> DEFINE h == i \div 2
<1>3. h \in Nat /\ h < i
  BY <1>2
<1>4. IsChain(h)
  BY <1>1, <1>3
<1>5. Ancestors[i] = {i} \cup Ancestors[h]
  BY <1>2, AncestorsOf
<1>6. h = 0 => Ancestors[h] = {}
  BY AncestorsOf
<1>7. IsChain(i)
  <2>1. Ancestors[i] \subseteq 1 .. i /\ i \in Ancestors[i]
    BY <1>2, <1>3, <1>4, <1>5 DEF IsChain
  <2>2. ASSUME NEW j \in Ancestors[i], j > 1 PROVE j \div 2 \in Ancestors[i]
    BY <1>2, <1>3, <1>4, <1>5, <2>2 DEF IsChain
  <2>3. ASSUME NEW j \in Ancestors[i], NEW k \in Ancestors[i], j < k
        PROVE  j <= k \div 2
    BY <1>2, <1>3, <1>4, <1>5, <2>3 DEF IsChain
  <2>4. ASSUME NEW j \in Ancestors[i], j < i
        PROVE  \E k \in Ancestors[i] : k \div 2 = j
    BY <1>2, <1>3, <1>4, <1>5, <2>4 DEF IsChain
  <2> QED
    BY <2>1, <2>2, <2>3, <2>4 DEF IsChain
<1> QED
  BY <1>7

-----------------------------------------------------------------------------
(* Heaps.                                                                  *)

\* What the comparators compare: a comes after b when its key is lower.
Key(type, o) == IF type = "BUY" THEN o.price ELSE -o.price

LEMMA ComesAfterByKey ==
  ASSUME NEW type, NEW a, NEW b, a.price \in Int, b.price \in Int
  PROVE  /\ Key(type, a) \in Int /\ Key(type, b) \in Int
         /\ ComesAfter(type, a, b) <=> Key(type, a) < Key(type, b)
<1>1. CASE type = "BUY"
  BY <1>1 DEF Key, ComesAfter, BuyComparator
<1>2. CASE type # "BUY"
  BY <1>2 DEF Key, ComesAfter, SellComparator
<1> QED
  BY <1>1, <1>2

\* key gives the keys of a vector of n cells, of which p may be out of order.
InOrder(key, n, p) ==
  /\ key \in [1 .. n -> Int]
  /\ \A i \in 2 .. n : i # p => key[i \div 2] >= key[i]

\* The cell at which an element with key x that rises from p comes to rest.
RestsAt(place, key, p, x) ==
  /\ place \in Ancestors[p]
  /\ \A i \in Ancestors[p] : i > place => key[i \div 2] < x
  /\ place > 1 => key[place \div 2] >= x

\* What the cells hold once it has risen there.
Shifted(key, n, p, place, x) ==
  [i \in 1 .. n |-> IF i = place THEN x
                    ELSE IF i \in Ancestors[p] /\ i > place THEN key[i \div 2]
                    ELSE key[i]]

LEMMA RestingPlace ==
  ASSUME NEW n \in Nat, NEW p \in 1 .. n, NEW x \in Int,
         NEW key \in [1 .. n -> Int]
  PROVE  RestsAt(Min({j \in Ancestors[p] :
                        \A i \in Ancestors[p] : i > j => key[i \div 2] < x}),
                 key, p, x)
<1> DEFINE S == {j \in Ancestors[p] :
                   \A i \in Ancestors[p] : i > j => key[i \div 2] < x}
<1>1. IsChain(p)
  BY AncestorsAreChain
<1>2. p \in S /\ S \subseteq Nat
  BY <1>1 DEF IsChain
<1>3. PICK m \in S : \A k \in S : m <= k
  <2> HIDE DEF S
  <2> QED
    BY <1>2, LeastNat
<1> DEFINE place == Min(S)
<1>4. place \in S /\ \A k \in S : place <= k
  <2> HIDE DEF S
  <2> QED
    BY <1>3, Zenon DEF Min
<1> HIDE DEF place
<1>5. /\ place \in Ancestors[p] /\ place \in 1 .. p
      /\ \A i \in Ancestors[p] : i > place => key[i \div 2] < x
  BY <1>1, <1>4 DEF IsChain
<1>6. ASSUME place > 1, key[place \div 2] < x
      PROVE  FALSE
  <2> DEFINE q == place \div 2
  <2>1. q \in Ancestors[p] /\ q < place
    <3>1. place \div 2 \in Ancestors[p]
      BY <1>1, <1>5, <1>6 DEF IsChain
    <3> QED
      BY <1>5, <1>6, <3>1
  <2>2. ASSUME NEW i \in Ancestors[p], i > q PROVE key[i \div 2] < x
    <3>1. CASE i > place
      BY <1>5, <3>1
    <3>2. CASE i = place
      BY <1>6, <3>2
    <3>3. CASE i < place
      <4>1. i <= place \div 2
        BY <1>1, <1>5, <3>3 DEF IsChain
      <4>2. i \in Int
        BY <1>1 DEF IsChain
      <4> QED
        BY <1>5, <2>2, <4>1, <4>2
    <3>4. i \in Int
      BY <1>1 DEF IsChain
    <3> QED
      BY <1>5, <3>1, <3>2, <3>3, <3>4
  <2>3. q \in S
    BY <2>1, <2>2
  <2> QED
    BY <1>4, <1>5, <2>1, <2>3
<1>7. place > 1 => place \div 2 \in 1 .. n /\ key[place \div 2] \in Int
  BY <1>5
<1> QED
  BY <1>5, <1>6, <1>7 DEF RestsAt, place

\* From a leaf p, the risen element leaves no cell out of order.
LEMMA ShiftedInOrder ==
  ASSUME NEW n \in Nat, NEW p \in 1 .. n, 2 * p > n, NEW x \in Int,
         NEW key, InOrder(key, n, p), NEW place, RestsAt(place, key, p, x)
  PROVE  \A i \in 2 .. n : Shifted(key, n, p, place, x)[i \div 2]
                             >= Shifted(key, n, p, place, x)[i]
<1> DEFINE A == Ancestors[p]
           new == Shifted(key, n, p, place, x)
<1> SUFFICES ASSUME NEW i \in 2 .. n PROVE new[i \div 2] >= new[i]
  OBVIOUS
<1> DEFINE q == i \div 2
<1>1. /\ A \subseteq 1 .. p /\ p \in A /\ place \in A
      /\ \A j \in A : j > 1 => j \div 2 \in A
      /\ \A j, k \in A : j < k => j <= k \div 2
      /\ \A j \in A : j < p => \E k \in A : k \div 2 = j
  BY AncestorsAreChain DEF IsChain, RestsAt
<1>2. /\ q \in 1 .. n /\ q < i /\ 2 * q <= n
  OBVIOUS
<1>3. key \in [1 .. n -> Int] /\ \A j \in 2 .. n : j # p => key[j \div 2] >= key[j]
  BY DEF InOrder
<1>4. /\ \A j \in A : j > place => key[j \div 2] < x
      /\ place > 1 => key[place \div 2] >= x
  BY DEF RestsAt
<1>5. \A j \in 1 .. n : new[j] = IF j = place THEN x
                                 ELSE IF j \in A /\ j > place THEN key[j \div 2]
                                 ELSE key[j]
  BY DEF Shifted
<1> HIDE DEF A, new
<1>6. CASE i = place
  <2>1. q \in A /\ q < place /\ key[q] >= x
    BY <1>1, <1>4, <1>6
  <2>2. new[q] = key[q] /\ new[i] = x
    BY <1>1, <1>2, <1>5, <1>6, <2>1
  <2> QED
    BY <2>1, <2>2
<1>7. CASE i \in A /\ i > place
  <2>1. q \in A /\ q >= place
    BY <1>1, <1>7
  <2>2. new[i] = key[q] /\ key[q] < x
    BY <1>1, <1>4, <1>5, <1>7
  <2>3. CASE q = place
    BY <1>2, <1>3, <1>5, <2>2, <2>3
  <2>4. CASE q > place
    <3>1. new[q] = key[q \div 2] /\ q # p /\ q \in 2 .. n
      BY <1>1, <1>2, <1>5, <1>7, <2>1, <2>4
    <3>2. key[q \div 2] >= key[q]
      BY <1>3, <3>1
    <3> QED
      BY <2>2, <3>1, <3>2
  <2> QED
    BY <1>1, <2>1, <2>3, <2>4
<1>8. CASE i # place /\ ~(i \in A /\ i > place)
  <2>1. new[i] = key[i] /\ i # p
    BY <1>1, <1>5, <1>8
  <2>2. key[q] >= key[i]
    BY <1>3, <2>1
  <2>3. key[q] \in Int /\ key[i] \in Int /\ q # p
    BY <1>2, <1>3
  <2>4. CASE q = place
    <3>1. PICK k \in A : k \div 2 = q
      BY <1>1, <2>3, <2>4
    <3>2. k > place
      BY <1>1, <2>4, <3>1
    <3>3. key[q] < x
      BY <1>4, <3>1, <3>2
    <3>4. new[q] = x
      BY <1>2, <1>5, <2>4
    <3> QED
      BY <2>1, <2>2, <2>3, <3>3, <3>4
  <2>5. CASE q \in A /\ q > place
    <3>1. new[q] = key[q \div 2] /\ q \in 2 .. n
      BY <1>1, <1>2, <1>5, <2>5
    <3>2. key[q \div 2] >= key[q] /\ key[q \div 2] \in Int
      BY <1>3, <2>3, <3>1
    <3> QED
      BY <2>1, <2>2, <2>3, <3>1, <3>2
  <2>6. CASE q # place /\ ~(q \in A /\ q > place)
    BY <1>2, <1>5, <2>1, <2>2, <2>6
  <2> QED
    BY <2>4, <2>5, <2>6
<1> QED
  BY <1>6, <1>7, <1>8

\* The cells of `heap` other than p hold each element of E once, and nothing
\* else; p = 0 leaves out no cell.
ListsBut(heap, n, p, E) ==
  /\ n \in Nat /\ DOMAIN heap = 1 .. n
  /\ \A i \in 1 .. n : i # p => heap[i] \in E
  /\ \A e \in E : \E i \in 1 .. n : i # p /\ heap[i] = e
  /\ \A i, j \in 1 .. n : i # p /\ j # p /\ heap[i] = heap[j] => i = j

\* No cell but p comes out before its parent.
OrderedBut(type, heap, n, p) ==
  \A i \in 2 .. n : i # p => ~ComesAfter(type, heap[i \div 2], heap[i])

\* The vector of a priority queue that holds each element of E once.
IsHeap(type, heap, E) ==
  /\ heap \in Seq(E)
  /\ ListsBut(heap, Len(heap), 0, E)
  /\ OrderedBut(type, heap, Len(heap), 0)

Priced(E) == \A e \in E : e.price \in Int

\* A new element x may rise from the leaf p of a vector that is a heap but for p.
MayRise(type, heap, n, p, E, x) ==
  /\ Priced(E) /\ x.price \in Int /\ x \notin E
  /\ p \in 1 .. n /\ 2 * p > n /\ heap[p].price \in Int
  /\ ListsBut(heap, n, p, E) /\ OrderedBut(type, heap, n, p)

\* Rising moves every element but x from a cell other than p to one other
\* than the place of x.
LEMMA ShiftedLists ==
  ASSUME NEW n, NEW p \in 1 .. n, NEW E, NEW heap, ListsBut(heap, n, p, E),
         NEW x, x \notin E, NEW place \in Ancestors[p]
  PROVE  ListsBut(Shifted(heap, n, p, place, x), n, 0, E \cup {x})
<1> DEFINE A == Ancestors[p]
           new == Shifted(heap, n, p, place, x)
           From(i) == IF i \in A /\ i > place THEN i \div 2 ELSE i
<1>1. /\ A \subseteq 1 .. p /\ p \in A /\ place \in A
      /\ \A j \in A : j > 1 => j \div 2 \in A
      /\ \A j, k \in A : j < k => j <= k \div 2
      /\ \A j \in A : j < p => \E k \in A : k \div 2 = j
  BY AncestorsAreChain DEF IsChain
<1>2. n \in Nat /\ place \in 1 .. n
  BY <1>1 DEF ListsBut
<1>3. /\ DOMAIN new = 1 .. n
      /\ new[place] = x
      /\ \A i \in 1 .. n : i # place => new[i] = heap[From(i)]
  BY <1>2 DEF Shifted
<1> HIDE DEF A, new
<1>4. ASSUME NEW i \in 1 .. n, i # place
      PROVE  From(i) \in 1 .. n /\ From(i) # p /\ (From(i) \in A /\ From(i) >= place <=> i \in A /\ i > place)
  <2>1. CASE i \in A /\ i > place
    <3>1. i \div 2 \in A /\ i \div 2 >= place /\ i \div 2 < i /\ i <= p
      BY <1>1, <1>2, <2>1
    <3> QED
      BY <1>1, <1>2, <2>1, <3>1
  <2>2. CASE ~(i \in A /\ i > place)
    BY <1>1, <1>2, <1>4, <2>2
  <2> QED
    BY <2>1, <2>2
<1>5. ASSUME NEW j \in 1 .. n, j # p
      PROVE  \E i \in 1 .. n : i # place /\ From(i) = j
  <2>1. CASE j \in A /\ j >= place
    <3>1. PICK k \in A : k \div 2 = j
      BY <1>1, <1>5, <2>1
    <3>2. k > place /\ k \in 1 .. n
      BY <1>1, <1>2, <2>1, <3>1
    <3> QED
      BY <3>1, <3>2
  <2>2. CASE ~(j \in A /\ j >= place)
    <3>1. j # place /\ From(j) = j
      BY <1>1, <1>2, <2>2
    <3> QED
      BY <3>1
  <2> QED
    BY <2>1, <2>2
<1>6. ASSUME NEW i \in 1 .. n, NEW j \in 1 .. n, i # place, j # place, From(i) = From(j)
      PROVE  i = j
  <2>1. i \in A /\ i > place <=> j \in A /\ j > place
    BY <1>4, <1>6
  <2>2. CASE i \in A /\ i > place
    <3>1. j \in A /\ i \div 2 = j \div 2
      BY <1>6, <2>1, <2>2
    <3>2. (i < j => i <= j \div 2) /\ (j < i => j <= i \div 2)
      BY <1>1, <2>2, <3>1
    <3> QED
      BY <3>1, <3>2
  <2>3. CASE ~(i \in A /\ i > place)
    BY <1>6, <2>1, <2>3
  <2> QED
    BY <2>2, <2>3
<1> HIDE DEF From
<1>7. /\ \A i \in 1 .. n : i # p => heap[i] \in E
      /\ \A e \in E : \E i \in 1 .. n : i # p /\ heap[i] = e
      /\ \A i, j \in 1 .. n : i # p /\ j # p /\ heap[i] = heap[j] => i = j
  BY DEF ListsBut
<1>8. \A i \in 1 .. n : new[i] \in E \cup {x}
  BY <1>3, <1>4, <1>7
<1>9. ASSUME NEW e \in E \cup {x}
      PROVE  \E i \in 1 .. n : i # 0 /\ new[i] = e
  <2>1. CASE e = x
    BY <1>2, <1>3, <2>1
  <2>2. CASE e \in E
    <3>1. PICK j \in 1 .. n : j # p /\ heap[j] = e
      BY <1>7, <2>2
    <3>2. PICK i \in 1 .. n : i # place /\ From(i) = j
      BY <1>5, <3>1
    <3>3. new[i] = e /\ i # 0
      BY <1>3, <3>1, <3>2
    <3> QED
      BY <3>3
  <2> QED
    BY <2>1, <2>2
<1>10. ASSUME NEW i \in 1 .. n, NEW j \in 1 .. n, new[i] = new[j]
       PROVE  i = j
  <2>1. CASE i = place \/ j = place
    BY <1>3, <1>4, <1>7, <1>10, <2>1
  <2>2. CASE i # place /\ j # place
    <3>1. heap[From(i)] = heap[From(j)]
      BY <1>3, <1>10, <2>2
    <3>2. From(i) = From(j)
      BY <1>4, <1>7, <2>2, <3>1
    <3> QED
      BY <1>6, <2>2, <3>2
  <2> QED
    BY <2>1, <2>2
<1> QED
  BY <1>2, <1>3, <1>8, <1>9, <1>10 DEF ListsBut, new

\* An element that rises from a leaf, where a new one was put or where the hole
\* of a pop came to the bottom, completes the heap.
LEMMA RisenIsHeap ==
  ASSUME NEW type, NEW heap, NEW n, NEW p, NEW E, NEW x,
         MayRise(type, heap, n, p, E, x)
  PROVE  /\ IsHeap(type, Risen(type, heap, p, x), E \cup {x})
         /\ Len(Risen(type, heap, p, x)) = n
<1> DEFINE key == [i \in 1 .. n |-> Key(type, heap[i])]
           place == Min({j \in Ancestors[p] :
                       \A i \in Ancestors[p] : i > j => key[i \div 2] < Key(type, x)})
           new == Shifted(heap, n, p, place, x)
<1>0. /\ Priced(E) /\ x.price \in Int /\ x \notin E
      /\ p \in 1 .. n /\ 2 * p > n /\ heap[p].price \in Int
      /\ ListsBut(heap, n, p, E) /\ OrderedBut(type, heap, n, p)
  BY DEF MayRise
<1>1. n \in Nat /\ DOMAIN heap = 1 .. n
  BY <1>0 DEF ListsBut
<1>2. \A i \in 1 .. n : heap[i].price \in Int
  BY <1>0 DEF ListsBut, Priced
<1>3. key \in [1 .. n -> Int] /\ Key(type, x) \in Int
  BY <1>0, <1>2, ComesAfterByKey
<1>4. InOrder(key, n, p)
  <2>1. ASSUME NEW i \in 2 .. n, i # p
        PROVE  key[i \div 2] >= key[i]
    <3>1. i \div 2 \in 1 .. n /\ i \in 1 .. n
      BY <1>0, <1>1
    <3>2. ~ComesAfter(type, heap[i \div 2], heap[i])
      BY <1>0, <2>1 DEF OrderedBut
    <3> QED
      BY <1>0, <1>2, <3>1, <3>2, ComesAfterByKey
  <2> HIDE DEF key
  <2> QED
    BY <1>0, <1>3, <2>1 DEF InOrder
<1>5. RestsAt(place, key, p, Key(type, x))
  <2> HIDE DEF key
  <2> QED
    BY <1>0, <1>1, <1>3, RestingPlace
<1>6. Risen(type, heap, p, x) = new
  <2>1. ASSUME NEW i \in Ancestors[p]
        PROVE  i \in Nat /\ (i > 1 => (ComesAfter(type, heap[i \div 2], x) <=> key[i \div 2] < Key(type, x)))
    <3>1. i \in 1 .. p
      BY <1>0, AncestorsAreChain DEF IsChain
    <3>2. CASE i > 1
      <4>1. i \div 2 \in 1 .. n
        BY <1>0, <1>1, <3>1, <3>2
      <4> QED
        BY <1>0, <1>2, <3>1, <4>1, ComesAfterByKey
    <3> QED
      BY <1>0, <3>1, <3>2
  <2>2. \A j \in Ancestors[p] :
          (\A i \in Ancestors[p] : i > j => ComesAfter(type, heap[i \div 2], x))
          <=> (\A i \in Ancestors[p] : i > j => key[i \div 2] < Key(type, x))
    <3>1. \A j \in Ancestors[p] : j \in 1 .. p
      BY <1>0, AncestorsAreChain DEF IsChain
    <3>2. \A i, j \in Ancestors[p] : i > j => i > 1
      BY <1>0, <3>1
    <3> HIDE DEF key
    <3> QED
      BY <1>0, <2>1, <3>2, Zenon
  <2> HIDE DEF key
  <2>3. place = Min({j \in Ancestors[p] :
                  \A i \in Ancestors[p] : i > j => ComesAfter(type, heap[i \div 2], x)})
    BY <1>0, <2>2, Zenon
  <2> HIDE DEF place
  <2> QED
    BY <1>0, <1>1, <2>3, Zenon DEF Risen, Shifted
<1>7. place \in Ancestors[p]
  BY <1>0, <1>5 DEF RestsAt
<1> HIDE DEF place
<1>8. ListsBut(new, n, 0, E \cup {x})
  BY <1>0, <1>7, ShiftedLists
<1>9. \A i \in 2 .. n : Shifted(key, n, p, place, Key(type, x))[i \div 2]
                          >= Shifted(key, n, p, place, Key(type, x))[i]
  <2> HIDE DEF key
  <2> QED
    BY <1>0, <1>1, <1>3, <1>4, <1>5, ShiftedInOrder
<1>10. \A i \in 1 .. n : Shifted(key, n, p, place, Key(type, x))[i] = Key(type, new[i])
  <2> SUFFICES ASSUME NEW i \in 1 .. n
               PROVE  Shifted(key, n, p, place, Key(type, x))[i] = Key(type, new[i])
    OBVIOUS
  <2>1. i \in Ancestors[p] /\ i > place => i \div 2 \in 1 .. n
    <3>1. place \in 1 .. p
      BY <1>0, <1>7, AncestorsAreChain DEF IsChain
    <3> QED
      BY <1>0, <1>1, <3>1
  <2> QED
    BY <1>0, <2>1 DEF Shifted
<1>11. OrderedBut(type, new, n, 0)
  <2> SUFFICES ASSUME NEW i \in 2 .. n PROVE ~ComesAfter(type, new[i \div 2], new[i])
    BY <1>0 DEF OrderedBut
  <2>1. i \in 1 .. n /\ i \div 2 \in 1 .. n
    BY <1>0, <1>1
  <2>2. Key(type, new[i \div 2]) >= Key(type, new[i])
    BY <1>0, <1>9, <1>10, <2>1
  <2>3. new[i].price \in Int /\ new[i \div 2].price \in Int
    <3>1. \A j \in 1 .. n : new[j] \in E \cup {x}
      BY <1>0, <1>1, <1>8 DEF ListsBut
    <3> QED
      BY <1>0, <2>1, <3>1 DEF Priced
  <2> HIDE DEF new
  <2> QED
    BY <1>0, <2>2, <2>3, ComesAfterByKey
<1>12. new \in Seq(E \cup {x}) /\ Len(new) = n
  <2>1. /\ DOMAIN new = 1 .. n
        /\ \A j \in 1 .. n : new[j] \in E \cup {x}
    BY <1>0, <1>1, <1>8 DEF ListsBut
  <2>2. new = [j \in 1 .. n |-> new[j]]
    BY <1>0 DEF Shifted
  <2> HIDE DEF new
  <2> QED
    BY <1>0, <1>1, <2>1, <2>2, IsASeq
<1> QED
  BY <1>0, <1>6, <1>8, <1>11, <1>12 DEF IsHeap

LEMMA PushIsHeap ==
  ASSUME NEW type, NEW E, Priced(E), NEW heap, IsHeap(type, heap, E),
         NEW x, x.price \in Int, x \notin E
  PROVE  IsHeap(type, Push(type, heap, x), E \cup {x})
<1> DEFINE n == Len(heap) + 1
           longer == Append(heap, x)
<1>1. /\ heap \in Seq(E) /\ Len(heap) \in Nat /\ n \in Nat
      /\ ListsBut(heap, Len(heap), 0, E) /\ OrderedBut(type, heap, Len(heap), 0)
  BY DEF IsHeap
<1>2. /\ DOMAIN longer = 1 .. n /\ longer[n] = x
      /\ \A i \in 1 .. Len(heap) : longer[i] = heap[i]
  BY <1>1
<1> HIDE DEF longer
<1>3. ListsBut(longer, n, n, E)
  <2>1. /\ \A i \in 1 .. Len(heap) : heap[i] \in E
        /\ \A e \in E : \E i \in 1 .. Len(heap) : heap[i] = e
        /\ \A i, j \in 1 .. Len(heap) : heap[i] = heap[j] => i = j
    BY <1>1 DEF ListsBut
  <2>2. \A i \in 1 .. n : i # n => i \in 1 .. Len(heap)
    BY <1>1
  <2>3. \A i \in 1 .. Len(heap) : i \in 1 .. n /\ i # n
    BY <1>1
  <2> QED
    BY <1>1, <1>2, <2>1, <2>2, <2>3 DEF ListsBut
<1>4. OrderedBut(type, longer, n, n)
  <2> SUFFICES ASSUME NEW i \in 2 .. n, i # n
               PROVE  ~ComesAfter(type, longer[i \div 2], longer[i])
    BY DEF OrderedBut
  <2>1. i \in 2 .. Len(heap) /\ i \in 1 .. Len(heap) /\ i \div 2 \in 1 .. Len(heap) /\ i # 0
    BY <1>1
  <2>2. ~ComesAfter(type, heap[i \div 2], heap[i])
    BY <1>1, <2>1 DEF OrderedBut
  <2> QED
    BY <1>2, <2>1, <2>2
<1>5. n \in 1 .. n /\ 2 * n > n
  BY <1>1
<1> HIDE DEF n
<1>6. IsHeap(type, Risen(type, longer, n, x), E \cup {x})
  BY <1>2, <1>3, <1>4, <1>5, RisenIsHeap DEF MayRise
<1> QED
  BY <1>6 DEF Push, longer, n

LEMMA TopOfHeap ==
  ASSUME NEW type, NEW E, Priced(E), NEW heap, IsHeap(type, heap, E), heap # <<>>
  PROVE  /\ Top(heap) \in E
         /\ \A e \in E : ~ComesAfter(type, Top(heap), e)
<1> DEFINE n == Len(heap)
           T == {i \in 1 .. n : ComesAfter(type, heap[1], heap[i])}
<1>1. /\ n \in Nat /\ n > 0
      /\ \A i \in 1 .. n : heap[i] \in E
      /\ \A e \in E : \E i \in 1 .. n : heap[i] = e
      /\ \A i \in 2 .. n : ~ComesAfter(type, heap[i \div 2], heap[i])
  BY DEF IsHeap, ListsBut, OrderedBut
<1>2. \A i, j \in 1 .. n :
        /\ Key(type, heap[i]) \in Int
        /\ ComesAfter(type, heap[i], heap[j]) <=> Key(type, heap[i]) < Key(type, heap[j])
  <2>1. \A i \in 1 .. n : heap[i].price \in Int
    BY <1>1 DEF Priced
  <2> QED
    BY <2>1, ComesAfterByKey
<1> HIDE DEF n
<1>3. ASSUME T # {} PROVE FALSE
  <2>1. T \subseteq Nat
    BY <1>1
  <2>2. PICK i \in T : \A k \in T : i <= k
    <3> HIDE DEF T
    <3> QED
      BY <1>3, <2>1, LeastNat
  <2>3. i \in 1 .. n /\ 1 \in 1 .. n /\ Key(type, heap[1]) < Key(type, heap[i])
    BY <1>1, <1>2
  <2>4. i \in 2 .. n /\ i \div 2 \in 1 .. n /\ i \div 2 < i
    BY <1>1, <1>2, <2>3
  <2>5. Key(type, heap[i \div 2]) >= Key(type, heap[i])
    BY <1>1, <1>2, <2>3, <2>4
  <2>6. Key(type, heap[1]) < Key(type, heap[i \div 2])
    BY <1>2, <2>3, <2>4, <2>5
  <2>7. i \div 2 \in T
    BY <1>2, <2>3, <2>4, <2>6
  <2> QED
    BY <2>2, <2>4, <2>7
<1>4. \A i \in 1 .. n : ~ComesAfter(type, heap[1], heap[i])
  BY <1>3
<1> QED
  BY <1>1, <1>4 DEF Top

-----------------------------------------------------------------------------
(* Popping.                                                                *)

\* The parent of an heir is the cell it fills.
LEMMA HeirOf ==
  ASSUME NEW type, NEW heap, Len(heap) \in Nat, NEW i \in Nat
  PROVE  /\ Heir(type, heap, i) \in {2 * i, 2 * i + 1}
         /\ Heir(type, heap, i) \in Nat
         /\ Heir(type, heap, i) \div 2 = i
         /\ 2 * i <= Len(heap) => Heir(type, heap, i) <= Len(heap)
<1>1. CASE 2 * i + 1 <= Len(heap) /\ ~ComesAfter(type, heap[2 * i + 1], heap[2 * i])
  BY <1>1 DEF Heir
<1>2. CASE ~(2 * i + 1 <= Len(heap) /\ ~ComesAfter(type, heap[2 * i + 1], heap[2 * i]))
  BY <1>2 DEF Heir
<1> QED
  BY <1>1, <1>2

\* `path` is the way of a hole from cell i along the heirs to a leaf.
IsPath(path, type, heap, i) ==
  /\ path \subseteq i .. Len(heap) /\ i \in path
  /\ \A k \in path : 2 * k <= Len(heap) => Heir(type, heap, k) \in path
  /\ \A j \in path : j > i => /\ j \div 2 \in path
                              /\ Heir(type, heap, j \div 2) = j
  /\ \A k, j \in path : k < j => 2 * k <= Len(heap) /\ Heir(type, heap, k) <= j

LEMMA SinkPathIsPath ==
  ASSUME NEW type, NEW heap, Len(heap) \in Nat \ {0}
  PROVE  IsPath(SinkPath(type, heap), type, heap, 1)
<1> DEFINE n == Len(heap)
           H(i) == Heir(type, heap, i)
           Closed(T) == \A k \in T : 2 * k <= n => H(k) \in T
           W(i) == {j \in Nat : \A T \in SUBSET Nat : i \in T /\ Closed(T) => j \in T}
           F == [i \in Nat |-> W(i)]
           from == CHOOSE f : f = [i \in Nat |-> {i} \cup (IF 2 * i > n THEN {} ELSE f[H(i)])]
<1>1. \A i \in Nat : /\ H(i) \in Nat /\ H(i) \div 2 = i
                     /\ 2 * i <= n => H(i) <= n
                     /\ H(i) = 2 * i \/ H(i) = 2 * i + 1
  BY HeirOf
<1>2. n \in Nat /\ n > 0
  OBVIOUS
<1> HIDE DEF H, n
<1>3. ASSUME NEW i \in Nat
      PROVE  W(i) = {i} \cup (IF 2 * i > n THEN {} ELSE W(H(i)))
  <2>1. i \in W(i)
    OBVIOUS
  <2>2. ASSUME 2 * i <= n, NEW j \in W(H(i)) PROVE j \in W(i)
    BY <1>1, <2>2
  <2>3. ASSUME 2 * i <= n, NEW j \in W(i), j # i PROVE j \in W(H(i))
    <3>1. ASSUME NEW T \in SUBSET Nat, H(i) \in T, Closed(T)
          PROVE  j \in T
      <4>1. T \cup {i} \in SUBSET Nat /\ i \in T \cup {i} /\ Closed(T \cup {i})
        BY <3>1
      <4>2. j \in T \cup {i}
        BY <2>3, <4>1
      <4> QED
        BY <2>3, <4>2
    <3> QED
      BY <2>3, <3>1
  <2>4. ASSUME 2 * i > n, NEW j \in W(i) PROVE j = i
    <3>1. {i} \in SUBSET Nat /\ i \in {i} /\ Closed({i})
      BY <1>2, <2>4
    <3>2. j \in {i}
      BY <2>4, <3>1
    <3> QED
      BY <3>2
  <2>5. 2 * i > n \/ 2 * i <= n
    BY <1>2
  <2> HIDE DEF W
  <2> QED
    BY <1>2, <2>1, <2>2, <2>3, <2>4, <2>5
<1> HIDE DEF W
<1>4. F = [i \in Nat |-> {i} \cup (IF 2 * i > n THEN {} ELSE F[H(i)])]
  <2>1. ASSUME NEW i \in Nat
        PROVE  F[i] = {i} \cup (IF 2 * i > n THEN {} ELSE F[H(i)])
    BY <1>1, <1>3
  <2> QED
    BY <2>1, Zenon
<1> HIDE DEF F
<1>5. from = [i \in Nat |-> {i} \cup (IF 2 * i > n THEN {} ELSE from[H(i)])]
  BY <1>4, Zenon
<1>6. SinkPath(type, heap) = from[1]
  BY Zenon DEF SinkPath, n, H
<1> HIDE DEF from
<1>7. \A i \in Nat : from[i] = {i} \cup (IF 2 * i > n THEN {} ELSE from[H(i)])
  BY <1>5
<1> DEFINE Path(i) ==
             /\ from[i] \subseteq i .. n /\ i \in from[i]
             /\ \A k \in from[i] : 2 * k <= n => H(k) \in from[i]
             /\ \A j \in from[i] : j > i => j \div 2 \in from[i] /\ H(j \div 2) = j
             /\ \A k, j \in from[i] : k < j => 2 * k <= n /\ H(k) <= j
           T == {d \in 0 .. n - 1 : ~Path(n - d)}
<1>8. ASSUME T # {} PROVE FALSE
  <2>1. PICK d \in T : \A k \in T : d <= k
    <3>1. T \subseteq Nat
      BY <1>2
    <3> HIDE DEF T
    <3> QED
      BY <1>8, <3>1, LeastNat
  <2> DEFINE i == n - d
  <2>2. i \in 1 .. n /\ d \in 0 .. n - 1
    BY <1>2
  <2>3. CASE 2 * i > n
    <3>1. from[i] = {i}
      BY <1>7, <2>2, <2>3
    <3>2. Path(i)
      <4> HIDE DEF i
      <4> QED
        BY <1>2, <2>2, <2>3, <3>1
    <3> QED
      BY <3>2
  <2>4. CASE 2 * i <= n
    <3> DEFINE h == H(i)
    <3>1. h \in i + 1 .. n /\ h \div 2 = i
      <4> HIDE DEF i
      <4>0. i \in Nat
        BY <1>2, <2>2
      <4>1. H(i) \in Nat /\ H(i) \div 2 = i /\ H(i) <= n /\ (H(i) = 2 * i \/ H(i) = 2 * i + 1)
        BY <1>1, <2>4, <4>0
      <4> QED
        BY <1>2, <2>2, <4>1
    <3>2. from[i] = {i} \cup from[h]
      BY <1>2, <1>7, <2>2, <2>4
    <3>3. Path(h)
      <4>1. n - h \in 0 .. n - 1 /\ n - h < d /\ n - (n - h) = h
        BY <1>2, <2>2, <3>1
      <4>2. n - h \notin T
        BY <2>1, <4>1
      <4> HIDE DEF h
      <4> HIDE DEF Path
      <4>3. Path(n - (n - h))
        BY <4>1, <4>2
      <4> QED
        BY <4>1, <4>3
    <3>4. i \in Nat /\ i < h
      BY <2>2, <3>1
    <3>5. h = H(i)
      OBVIOUS
    <3> HIDE DEF h, i, T
    <3>6. from[i] \subseteq i .. n /\ i \in from[i]
      BY <1>2, <2>2, <3>1, <3>2, <3>3
    <3>7. ASSUME NEW k \in from[i], 2 * k <= n PROVE H(k) \in from[i]
      BY <3>2, <3>3, <3>5, <3>7
    <3>8. ASSUME NEW j \in from[i], j > i PROVE j \div 2 \in from[i] /\ H(j \div 2) = j
      <4>1. j \in from[h]
        BY <3>2, <3>4, <3>8
      <4>2. CASE j = h
        BY <3>1, <3>5, <3>6, <4>2
      <4>3. CASE j # h
        <5>1. j > h
          BY <3>3, <4>1, <4>3, <3>1
        <5> QED
          BY <3>2, <3>3, <4>1, <5>1
      <4> QED
        BY <4>2, <4>3
    <3>9. ASSUME NEW k \in from[i], NEW j \in from[i], k < j
          PROVE  2 * k <= n /\ H(k) <= j
      <4>0. from[h] \subseteq h .. n
        BY <3>3
      <4>1. j \in from[h]
        BY <1>2, <3>1, <3>2, <3>4, <4>0, <3>6, <3>9
      <4>2. CASE k = i
        BY <1>2, <2>4, <3>1, <3>5, <4>0, <4>1, <4>2
      <4>3. CASE k # i
        <5>1. k \in from[h]
          BY <3>2, <4>3
        <5> QED
          BY <3>3, <3>9, <4>1, <5>1
      <4> QED
        BY <4>2, <4>3
    <3>10. Path(i)
      BY <3>6, <3>7, <3>8, <3>9
    <3> QED
      BY <3>10 DEF T, i
  <2> QED
    BY <1>2, <2>2, <2>3, <2>4
<1>9. Path(1)
  <2>1. n - 1 \in 0 .. n - 1 /\ n - (n - 1) = 1
    BY <1>2
  <2>2. n - 1 \notin T
    BY <1>8
  <2> HIDE DEF Path
  <2>3. Path(n - (n - 1))
    BY <2>1, <2>2
  <2> QED
    BY <2>1, <2>3
<1> QED
  BY <1>6, <1>9 DEF IsPath, n, H

LEMMA EmptyIsHeap ==
  ASSUME NEW type
  PROVE  IsHeap(type, <<>>, {})
<1>1. <<>> \in Seq({}) /\ Len(<<>>) = 0 /\ DOMAIN <<>> = 1 .. 0
  BY EmptySeq
<1> QED
  BY <1>1 DEF IsHeap, ListsBut, OrderedBut

LEMMA HeapOfOne ==
  ASSUME NEW type, NEW E, NEW heap, IsHeap(type, heap, E), Len(heap) = 1
  PROVE  E = {Top(heap)}
BY DEF IsHeap, ListsBut, Top

\* What a heap holds after its front has been filled from below: the hole is at
\* the bottom of the path, and that is a leaf.
SunkAlong(path, type, heap) ==
  [i \in DOMAIN heap |->
     IF i \in path /\ i # Max(path) THEN heap[Heir(type, heap, i)] ELSE heap[i]]

LEMMA BottomOfPath ==
  ASSUME NEW type, NEW heap, Len(heap) \in Nat \ {0},
         NEW path, IsPath(path, type, heap, 1)
  PROVE  /\ Max(path) \in path /\ Max(path) \in 1 .. Len(heap)
         /\ 2 * Max(path) > Len(heap)
         /\ \A k \in path : k # Max(path) => k < Max(path) /\ 2 * k <= Len(heap)
<1> DEFINE n == Len(heap)
           T == {d \in 0 .. n : n - d \in path}
<1>1. n \in Nat /\ path \subseteq 1 .. n /\ 1 \in path
  BY DEF IsPath
<1>2. PICK d \in T : \A k \in T : d <= k
  <2>1. n - 1 \in T /\ T \subseteq Nat
    BY <1>1
  <2> HIDE DEF T
  <2> QED
    BY <2>1, LeastNat
<1>3. n - d \in path /\ \A k \in path : n - d >= k
  <2>1. ASSUME NEW k \in path PROVE n - d >= k
    <3>1. n - k \in T /\ d \in 0 .. n /\ k \in 1 .. n
      BY <1>1
    <3> QED
      BY <1>1, <1>2, <3>1
  <2> QED
    BY <2>1
<1> DEFINE b == Max(path)
<1>4. b \in path /\ \A k \in path : b >= k
  BY <1>3, Zenon DEF Max
<1> HIDE DEF b, n
<1>5. b \in 1 .. n
  BY <1>1, <1>4
<1>6. ASSUME 2 * b <= n PROVE FALSE
  <2>1. Heir(type, heap, b) \in path
    BY <1>4, <1>6 DEF IsPath, n
  <2>2. Heir(type, heap, b) \in {2 * b, 2 * b + 1}
    BY <1>1, <1>5, HeirOf DEF n
  <2> QED
    BY <1>4, <1>5, <2>1, <2>2
<1>7. ASSUME NEW k \in path, k # b
      PROVE  k < b /\ 2 * k <= n
  <2>1. k < b
    BY <1>1, <1>4, <1>5, <1>7
  <2> QED
    BY <1>4, <2>1 DEF IsPath, n
<1> QED
  BY <1>1, <1>4, <1>5, <1>6, <1>7 DEF b, n

LEMMA SunkOrdered ==
  ASSUME NEW type, NEW heap, Len(heap) \in Nat \ {0}, DOMAIN heap = 1 .. Len(heap),
         \A i \in 1 .. Len(heap) : heap[i].price \in Int,
         OrderedBut(type, heap, Len(heap), 0),
         NEW path, IsPath(path, type, heap, 1)
  PROVE  OrderedBut(type, SunkAlong(path, type, heap), Len(heap), Max(path))
<1> DEFINE n == Len(heap)
           b == Max(path)
           sunk == SunkAlong(path, type, heap)
<1>1. /\ b \in path /\ b \in 1 .. n /\ 2 * b > n
      /\ \A k \in path : k # b => k < b /\ 2 * k <= n
  BY BottomOfPath
<1>2. n \in Nat /\ \A i \in 1 .. n : sunk[i] = IF i \in path /\ i # b
                                               THEN heap[Heir(type, heap, i)] ELSE heap[i]
  BY DEF SunkAlong
<1>3. \A i \in 2 .. n : ~ComesAfter(type, heap[i \div 2], heap[i])
  BY DEF OrderedBut
<1> HIDE DEF b, sunk
<1> SUFFICES ASSUME NEW i \in 2 .. n, i # b
             PROVE  ~ComesAfter(type, sunk[i \div 2], sunk[i])
  BY DEF OrderedBut, n, b, sunk
<1> DEFINE q == i \div 2
           h == Heir(type, heap, i)
           g == Heir(type, heap, q)
<1>4. i \in 1 .. n /\ q \in 1 .. n /\ q < i /\ 2 * q <= n /\ (i = 2 * q \/ i = 2 * q + 1)
  BY <1>2
<1>5. q # b
  BY <1>1, <1>4
<1>6. CASE i \in path
  <2>1. q \in path /\ g = i
    BY <1>4, <1>6 DEF IsPath
  <2>2. sunk[q] = heap[i] /\ sunk[i] = heap[h]
    BY <1>2, <1>4, <1>5, <1>6, <2>1
  <2>3. h \in 2 .. n /\ h \div 2 = i
    <3>1. 2 * i <= n /\ i \in Nat
      BY <1>1, <1>4, <1>6
    <3>2. h \in {2 * i, 2 * i + 1} /\ h \div 2 = i /\ h <= n
      BY <3>1, HeirOf
    <3>3. i >= 2 /\ n \in Nat
      BY <1>2
    <3> HIDE DEF h, n
    <3> QED
      BY <3>1, <3>2, <3>3
  <2> QED
    BY <1>3, <2>2, <2>3
<1>7. CASE i \notin path /\ q \in path
  <2>1. sunk[q] = heap[g] /\ sunk[i] = heap[i]
    BY <1>2, <1>4, <1>5, <1>7
  <2>2. g \in path /\ g # i
    BY <1>4, <1>7 DEF IsPath
  <2>3. CASE 2 * q + 1 <= n /\ ~ComesAfter(type, heap[2 * q + 1], heap[2 * q])
    <3>1. g = 2 * q + 1
      BY <2>3 DEF Heir
    <3> QED
      BY <1>4, <2>1, <2>2, <2>3, <3>1
  <2>4. CASE ~(2 * q + 1 <= n /\ ~ComesAfter(type, heap[2 * q + 1], heap[2 * q]))
    <3>1. g = 2 * q
      BY <2>4 DEF Heir
    <3>2. i = 2 * q + 1
      BY <1>4, <2>2, <3>1
    <3>3. ComesAfter(type, heap[i], heap[g])
      BY <1>4, <2>4, <3>1, <3>2
    <3>4. heap[i].price \in Int /\ heap[g].price \in Int
      <4>1. g \in 1 .. n
        BY <1>4, <3>1
      <4> QED
        BY <1>4, <4>1
    <3> QED
      BY <2>1, <3>3, <3>4, ComesAfterByKey
  <2> QED
    BY <2>3, <2>4
<1>8. CASE i \notin path /\ q \notin path
  BY <1>2, <1>3, <1>4, <1>8
<1> QED
  BY <1>6, <1>7, <1>8

\* Only the front is gone: every other element is in a cell other than the hole.
LEMMA SunkLists ==
  ASSUME NEW type, NEW heap, Len(heap) \in Nat \ {0}, NEW E,
         ListsBut(heap, Len(heap), 1, E),
         NEW path, IsPath(path, type, heap, 1)
  PROVE  ListsBut(SunkAlong(path, type, heap), Len(heap), Max(path), E)
<1> DEFINE n == Len(heap)
           b == Max(path)
           sunk == SunkAlong(path, type, heap)
           From(i) == IF i \in path THEN Heir(type, heap, i) ELSE i
<1>1. /\ b \in path /\ b \in 1 .. n
      /\ \A k \in path : k # b => k < b /\ 2 * k <= n
  BY BottomOfPath
<1>2. /\ n \in Nat /\ path \subseteq 1 .. n /\ 1 \in path
      /\ \A k \in path : 2 * k <= n => Heir(type, heap, k) \in path
      /\ \A j \in path : j > 1 => j \div 2 \in path /\ Heir(type, heap, j \div 2) = j
  BY DEF IsPath
<1>3. /\ DOMAIN heap = 1 .. n
      /\ \A i \in 1 .. n : i # 1 => heap[i] \in E
      /\ \A e \in E : \E i \in 1 .. n : i # 1 /\ heap[i] = e
      /\ \A i, j \in 1 .. n : i # 1 /\ j # 1 /\ heap[i] = heap[j] => i = j
  BY DEF ListsBut
<1>4. /\ DOMAIN sunk = 1 .. n
      /\ \A i \in 1 .. n : i # b => sunk[i] = heap[From(i)]
  BY <1>3 DEF SunkAlong
<1>5. \A i \in Nat : /\ Heir(type, heap, i) \in {2 * i, 2 * i + 1}
                     /\ Heir(type, heap, i) \div 2 = i
  BY HeirOf
<1> HIDE DEF b, sunk, n
<1>6. ASSUME NEW i \in 1 .. n, i # b
      PROVE  From(i) \in 1 .. n /\ From(i) # 1 /\ (From(i) \in path <=> i \in path)
  <2>1. CASE i \in path
    <3>1. From(i) \in path
      BY <1>1, <1>2, <1>6, <2>1
    <3>2. From(i) \in {2 * i, 2 * i + 1}
      BY <1>5, <2>1
    <3> QED
      BY <1>2, <2>1, <3>1, <3>2
  <2>2. CASE i \notin path
    BY <1>2, <2>2
  <2> QED
    BY <2>1, <2>2
<1>7. ASSUME NEW j \in 1 .. n, j # 1
      PROVE  \E i \in 1 .. n : i # b /\ From(i) = j
  <2>1. CASE j \in path
    <3>1. j \div 2 \in path /\ From(j \div 2) = j /\ j \div 2 < j /\ j \div 2 \in 1 .. n
      BY <1>2, <1>7, <2>1
    <3>2. j \div 2 # b
      BY <1>1, <2>1, <3>1
    <3> QED
      BY <3>1, <3>2
  <2>2. CASE j \notin path
    BY <1>1, <2>2
  <2> QED
    BY <2>1, <2>2
<1>8. ASSUME NEW i \in 1 .. n, NEW j \in 1 .. n, i # b, j # b, From(i) = From(j)
      PROVE  i = j
  <2>1. i \in path <=> j \in path
    BY <1>6, <1>8
  <2>2. CASE i \in path
    <3>1. Heir(type, heap, i) = Heir(type, heap, j) /\ i \in Nat /\ j \in Nat
      BY <1>8, <2>1, <2>2
    <3>2. Heir(type, heap, i) \div 2 = i /\ Heir(type, heap, j) \div 2 = j
      BY <1>5, <3>1
    <3> QED
      BY <3>1, <3>2
  <2>3. CASE i \notin path
    BY <1>8, <2>1, <2>3
  <2> QED
    BY <2>2, <2>3
<1> HIDE DEF From
<1>9. \A i \in 1 .. n : i # b => sunk[i] \in E
  BY <1>3, <1>4, <1>6
<1>10. ASSUME NEW e \in E
       PROVE  \E i \in 1 .. n : i # b /\ sunk[i] = e
  <2>1. PICK j \in 1 .. n : j # 1 /\ heap[j] = e
    BY <1>3
  <2>2. PICK i \in 1 .. n : i # b /\ From(i) = j
    BY <1>7, <2>1
  <2> QED
    BY <1>4, <2>1, <2>2
<1>11. ASSUME NEW i \in 1 .. n, NEW j \in 1 .. n, i # b, j # b, sunk[i] = sunk[j]
       PROVE  i = j
  <2>1. heap[From(i)] = heap[From(j)]
    BY <1>4, <1>11
  <2>2. From(i) = From(j)
    BY <1>3, <1>6, <1>11, <2>1
  <2> QED
    BY <1>8, <1>11, <2>2
<1> QED
  BY <1>2, <1>4, <1>9, <1>10, <1>11 DEF ListsBut, n, b, sunk

\* pop takes the front out and nothing else, and leaves a heap.
LEMMA PopIsHeap ==
  ASSUME NEW type, NEW E, Priced(E), NEW heap, IsHeap(type, heap, E), heap # <<>>
  PROVE  /\ IsHeap(type, Pop(type, heap), E \ {Top(heap)})
         /\ Len(Pop(type, heap)) = Len(heap) - 1
<1> DEFINE n == Len(heap)
<1>1. /\ heap \in Seq(E) /\ n \in Nat /\ n > 0
      /\ DOMAIN heap = 1 .. n
      /\ \A i \in 1 .. n : heap[i] \in E
      /\ \A e \in E : \E i \in 1 .. n : heap[i] = e
      /\ \A i, j \in 1 .. n : heap[i] = heap[j] => i = j
      /\ \A i \in 2 .. n : ~ComesAfter(type, heap[i \div 2], heap[i])
  BY DEF IsHeap, ListsBut, OrderedBut
<1>2. CASE n = 1
  <2>1. Pop(type, heap) = <<>> /\ Len(<<>>) = 0
    BY <1>2 DEF Pop
  <2>2. E \ {Top(heap)} = {}
    BY <1>2, HeapOfOne
  <2>3. IsHeap(type, <<>>, E \ {Top(heap)})
    BY <2>2, EmptyIsHeap, Zenon
  <2> QED
    BY <1>2, <2>1, <2>3
<1>3. CASE n # 1
  <2> DEFINE m == n - 1
             rest == SubSeq(heap, 1, m)
             path == SinkPath(type, rest)
             b == Max(path)
             sunk == SunkAlong(path, type, rest)
             last == heap[n]
             R == E \ {Top(heap), last}
  <2>0. /\ 1 \in 1 .. n /\ n \in 1 .. n /\ m \in Nat \ {0} /\ n = m + 1
        /\ \A i \in 1 .. n : i = n \/ i \in 1 .. m
        /\ \A i \in 1 .. m : i \in 1 .. n /\ i # n
    <3>1. n \in Nat /\ n > 0
      BY <1>1
    <3> HIDE DEF n
    <3> QED
      BY <1>3, <3>1
  <2>1. /\ Len(rest) = m /\ DOMAIN rest = 1 .. m
        /\ \A i \in 1 .. m : rest[i] = heap[i]
    BY <1>1, <1>3
  <2>2. \A i \in 1 .. n : heap[i].price \in Int
    BY <1>1 DEF Priced
  <2> HIDE DEF rest, m, n
  <2>3. OrderedBut(type, rest, Len(rest), 0)
    <3> SUFFICES ASSUME NEW i \in 2 .. m PROVE ~ComesAfter(type, rest[i \div 2], rest[i])
      BY <2>1 DEF OrderedBut
    <3>1. i \in 2 .. n /\ i \in 1 .. m /\ i \div 2 \in 1 .. m
      BY <2>0
    <3> QED
      BY <1>1, <2>1, <3>1
  <2>4. ListsBut(rest, Len(rest), 1, R)
    <3>2. ASSUME NEW i \in 1 .. m, i # 1 PROVE rest[i] \in R
      <4>1. rest[i] = heap[i] /\ i \in 1 .. n /\ i # n
        BY <2>0, <2>1
      <4>2. heap[i] \in E /\ heap[i] # heap[1] /\ heap[i] # heap[n]
        BY <1>1, <2>0, <3>2, <4>1
      <4> QED
        BY <4>1, <4>2 DEF Top
    <3>3. ASSUME NEW e \in R PROVE \E i \in 1 .. m : i # 1 /\ rest[i] = e
      <4>1. PICK i \in 1 .. n : heap[i] = e
        BY <1>1
      <4>2. i # 1 /\ i # n
        BY <4>1 DEF Top
      <4>3. i \in 1 .. m
        BY <2>0, <4>2
      <4> QED
        BY <2>1, <4>1, <4>2, <4>3
    <3>4. \A i, j \in 1 .. m : rest[i] = rest[j] => i = j
      BY <1>1, <2>0, <2>1
    <3> HIDE DEF R
    <3> QED
      BY <2>0, <2>1, <3>2, <3>3, <3>4 DEF ListsBut
  <2>5. IsPath(path, type, rest, 1)
    BY <2>0, <2>1, SinkPathIsPath
  <2> HIDE DEF path
  <2>6. /\ b \in 1 .. m /\ 2 * b > m
    BY <2>0, <2>1, <2>5, BottomOfPath
  <2>7. \A i \in 1 .. m : rest[i].price \in Int
    BY <2>0, <2>1, <2>2
  <2>8. OrderedBut(type, sunk, m, b)
    BY <2>0, <2>1, <2>3, <2>5, <2>7, SunkOrdered
  <2>9. ListsBut(sunk, m, b, R)
    <3> HIDE DEF R
    <3> QED
      BY <2>0, <2>1, <2>4, <2>5, SunkLists
  <2>10. sunk[b].price \in Int
    BY <2>1, <2>6, <2>7 DEF SunkAlong
  <2>11. Pop(type, heap) = Risen(type, sunk, b, last)
    BY <1>3, Zenon DEF Pop, SunkAlong, rest, path, m, n
  <2>12. last.price \in Int /\ last \notin R /\ Priced(R) /\ last \in E /\ last # Top(heap)
    BY <1>1, <1>3, <2>0, <2>2 DEF Priced, Top
  <2>13. R \cup {last} = E \ {Top(heap)}
    BY <2>12
  <2> HIDE DEF R, sunk, b, last
  <2>15. MayRise(type, sunk, m, b, R, last)
    BY <2>6, <2>8, <2>9, <2>10, <2>12 DEF MayRise
  <2>14. /\ IsHeap(type, Risen(type, sunk, b, last), R \cup {last})
         /\ Len(Risen(type, sunk, b, last)) = m
    BY <2>15, RisenIsHeap
  <2> QED
    BY <2>11, <2>13, <2>14 DEF m, n
<1> QED
  BY <1>2, <1>3

\* Emptying a heap from the top delivers each of its elements once, and none
\* before one that must come out earlier.
LEMMA DrainedLists ==
  ASSUME NEW type, NEW E, Priced(E), NEW heap, IsHeap(type, heap, E)
  PROVE  /\ Drained(type, heap) \in Seq(E)
         /\ Len(Drained(type, heap)) = Len(heap)
         /\ ListsBut(Drained(type, heap), Len(heap), 0, E)
         /\ \A i, j \in 1 .. Len(heap) :
              i < j => ~ComesAfter(type, Drained(type, heap)[i], Drained(type, heap)[j])
<1> DEFINE n == Len(heap)
           Steps(f, m) == f = [k \in 0 .. m |-> IF k = 0 THEN heap ELSE Pop(type, f[k - 1])]
           state == CHOOSE f : Steps(f, n)
           rows == [k \in 1 .. n |-> Top(state[k - 1])]
           Left(k) == E \ {rows[i] : i \in 1 .. k}
           Good(k) == IsHeap(type, state[k], Left(k)) /\ Len(state[k]) = n - k
<1>1. n \in Nat
  BY DEF IsHeap
<1>2. Drained(type, heap) = rows
  BY Zenon DEF Drained
<1> HIDE DEF n
<1>3. Steps(state, n)
  <2> DEFINE S == {m \in 0 .. n : \E f : Steps(f, m)}
  <2>1. 0 \in S
    <3>1. Steps([k \in 0 .. 0 |-> heap], 0)
      OBVIOUS
    <3> HIDE DEF Steps
    <3> QED
      BY <1>1, <3>1
  <2>2. ASSUME NEW m \in 0 .. n - 1, m \in S PROVE m + 1 \in S
    <3>1. PICK f : Steps(f, m)
      BY <2>2
    <3> DEFINE g == [k \in 0 .. m + 1 |-> IF k = m + 1 THEN Pop(type, f[m]) ELSE f[k]]
    <3>2. ASSUME NEW k \in 0 .. m + 1
          PROVE  g[k] = IF k = 0 THEN heap ELSE Pop(type, g[k - 1])
      <4>1. CASE k = m + 1
        <5>1. m \in 0 .. m + 1 /\ m # m + 1 /\ k # 0 /\ k - 1 = m
          BY <4>1
        <5> QED
          BY <4>1, <5>1
      <4>2. CASE k # m + 1
        <5>1. k \in 0 .. m /\ (k # 0 => k - 1 \in 0 .. m + 1 /\ k - 1 # m + 1)
          BY <4>2
        <5>2. f[k] = IF k = 0 THEN heap ELSE Pop(type, f[k - 1])
          BY <3>1, <5>1
        <5> QED
          BY <4>2, <5>1, <5>2
      <4> QED
        BY <4>1, <4>2
    <3>3. g = [k \in 0 .. m + 1 |-> g[k]]
      OBVIOUS
    <3> HIDE DEF g
    <3>4. Steps(g, m + 1)
      BY <3>2, <3>3, Zenon
    <3> HIDE DEF Steps
    <3> QED
      BY <1>1, <3>4
  <2>3. n \in S
    <3> HIDE DEF S
    <3>1. \A k \in 0 .. n : k \in S
      BY <1>1, <2>1, <2>2, UpTo
    <3> QED
      BY <1>1, <3>1
  <2>4. \E f : Steps(f, n)
    BY <2>3
  <2> HIDE DEF Steps
  <2> QED
    BY <2>4, Zenon
<1> HIDE DEF state
<1>4. /\ state[0] = heap
      /\ \A k \in 0 .. n - 1 : state[k + 1] = Pop(type, state[k])
  BY <1>1, <1>3
<1>5. \A k \in 0 .. n - 1 : rows[k + 1] = Top(state[k])
  BY <1>1
<1>6. ASSUME NEW k \in 0 .. n - 1, Good(k)
      PROVE  /\ Good(k + 1)
             /\ rows[k + 1] \in Left(k)
             /\ \A e \in Left(k) : ~ComesAfter(type, rows[k + 1], e)
  <2>1. Priced(Left(k)) /\ state[k] # <<>>
    <3>1. Len(state[k]) > 0
      BY <1>1, <1>6
    <3> HIDE DEF rows
    <3> QED
      BY <3>1, EmptySeq DEF Priced
  <2>2. Left(k + 1) = Left(k) \ {rows[k + 1]}
    <3>1. 1 .. k + 1 = 1 .. k \cup {k + 1}
      BY <1>1
    <3> HIDE DEF rows
    <3> QED
      BY <3>1
  <2> HIDE DEF rows, Left
  <2>3. /\ Top(state[k]) \in Left(k)
        /\ \A e \in Left(k) : ~ComesAfter(type, Top(state[k]), e)
    BY <1>6, <2>1, TopOfHeap
  <2>4. /\ IsHeap(type, Pop(type, state[k]), Left(k) \ {Top(state[k])})
        /\ Len(Pop(type, state[k])) = Len(state[k]) - 1
    BY <1>6, <2>1, PopIsHeap
  <2>5. n - k - 1 = n - (k + 1)
    BY <1>1
  <2> QED
    BY <1>4, <1>5, <1>6, <2>2, <2>3, <2>4, <2>5
<1>7. \A k \in 0 .. n : Good(k)
  <2> DEFINE S == {k \in 0 .. n : Good(k)}
  <2>1. 0 \in S
    <3>1. Left(0) = E
      BY <1>1
    <3> HIDE DEF Left
    <3> QED
      BY <1>1, <1>4, <3>1 DEF n
  <2>2. ASSUME NEW k \in 0 .. n - 1, k \in S PROVE k + 1 \in S
    <3>1. k + 1 \in 0 .. n
      BY <1>1
    <3>2. Good(k + 1)
      <4> HIDE DEF Good
      <4> QED
        BY <1>6, <2>2
    <3> HIDE DEF Good
    <3> QED
      BY <3>1, <3>2
  <2> HIDE DEF S
  <2>3. \A k \in 0 .. n : k \in S
    BY <1>1, <2>1, <2>2, UpTo
  <2> QED
    BY <2>3 DEF S
<1>8. \A k \in 0 .. n - 1 :
        /\ rows[k + 1] \in Left(k)
        /\ \A e \in Left(k) : ~ComesAfter(type, rows[k + 1], e)
  <2> HIDE DEF Good, rows, Left
  <2> QED
    BY <1>1, <1>6, <1>7
<1>9. \A i \in 1 .. n : /\ rows[i] \in Left(i - 1)
                        /\ \A e \in Left(i - 1) : ~ComesAfter(type, rows[i], e)
  <2>1. \A i \in 1 .. n : i - 1 \in 0 .. n - 1 /\ i - 1 + 1 = i
    BY <1>1
  <2> HIDE DEF rows, Left
  <2> QED
    BY <1>8, <2>1
<1>10. rows \in Seq(E) /\ Len(rows) = n /\ DOMAIN rows = 1 .. n
  <2>1. \A i \in 1 .. n : Top(state[i - 1]) \in E
    BY <1>9
  <2> QED
    BY <1>1, <2>1, IsASeq
<1>11. \A e \in E : \E i \in 1 .. n : rows[i] = e
  <2>1. IsHeap(type, state[n], Left(n)) /\ Len(state[n]) = 0
    <3>1. n \in 0 .. n /\ n - n = 0
      BY <1>1
    <3> HIDE DEF Left
    <3> QED
      BY <1>7, <3>1
  <2>2. Left(n) = {}
    <3> HIDE DEF Left
    <3> QED
      BY <2>1 DEF IsHeap, ListsBut
  <2> HIDE DEF rows
  <2> QED
    BY <2>2
<1> HIDE DEF rows
<1>12. ASSUME NEW i \in 1 .. n, NEW j \in 1 .. n, i < j
       PROVE  rows[j] # rows[i] /\ ~ComesAfter(type, rows[i], rows[j])
  <2>1. rows[j] \in Left(j - 1)
    BY <1>9
  <2>2. i \in 1 .. j - 1 /\ 1 .. i - 1 \subseteq 1 .. j - 1
    BY <1>1, <1>12
  <2>3. rows[j] \in Left(i - 1) /\ rows[j] # rows[i]
    BY <2>1, <2>2
  <2> HIDE DEF Left
  <2> QED
    BY <1>9, <2>3
<1>13. \A i, j \in 1 .. n : rows[i] = rows[j] => i = j
  <2>1. \A i, j \in 1 .. n : i = j \/ i < j \/ j < i
    BY <1>1
  <2> HIDE DEF Left
  <2> QED
    BY <1>12, <2>1
<1>14. \A i \in 1 .. n : rows[i] \in E
  BY <1>9
<1>15. ListsBut(rows, n, 0, E)
  BY <1>1, <1>10, <1>11, <1>13, <1>14 DEF ListsBut
<1> HIDE DEF Left
<1> QED
  BY <1>2, <1>10, <1>12, <1>15 DEF n

-----------------------------------------------------------------------------
(* The rebuild of cancelOrder.                                             *)

\* What a rebuild leaves: a heap of all orders but the one with the id.
LEMMA RebuiltIsHeap ==
  ASSUME NEW type, NEW E, Priced(E), NEW queue, IsHeap(type, queue, E), NEW orderId
  PROVE  IsHeap(type, Rebuilt(type, queue, orderId), {o \in E : o.id # orderId})
<1> DEFINE orders == Drained(type, queue)
           n == Len(orders)
           Steps(f, m) == f = [k \in 0 .. m |->
                                 IF k = 0 THEN <<>>
                                 ELSE Refilled(type, f[k - 1], orders[k], orderId)]
           temp == CHOOSE f : Steps(f, n)
           In(k) == {o \in {orders[i] : i \in 1 .. k} : o.id # orderId}
           Good(k) == IsHeap(type, temp[k], In(k))
<1>1. /\ n \in Nat
      /\ \A i \in 1 .. n : orders[i] \in E
      /\ \A e \in E : \E i \in 1 .. n : orders[i] = e
      /\ \A i, j \in 1 .. n : orders[i] = orders[j] => i = j
  <2>1. n = Len(queue) /\ ListsBut(orders, Len(queue), 0, E)
    BY DrainedLists
  <2>2. ListsBut(orders, n, 0, E)
    BY <2>1
  <2> HIDE DEF n, orders
  <2> QED
    BY <2>2 DEF ListsBut
<1>2. Rebuilt(type, queue, orderId) = temp[n]
  BY Zenon DEF Rebuilt
<1> HIDE DEF n, orders
<1>3. Steps(temp, n)
  <2> DEFINE S == {m \in 0 .. n : \E f : Steps(f, m)}
  <2>1. 0 \in S
    <3>1. Steps([k \in 0 .. 0 |-> <<>>], 0)
      OBVIOUS
    <3> HIDE DEF Steps
    <3> QED
      BY <1>1, <3>1
  <2>2. ASSUME NEW m \in 0 .. n - 1, m \in S PROVE m + 1 \in S
    <3>1. PICK f : Steps(f, m)
      BY <2>2
    <3> DEFINE g == [k \in 0 .. m + 1 |->
                       IF k = m + 1 THEN Refilled(type, f[m], orders[m + 1], orderId)
                                    ELSE f[k]]
    <3>2. ASSUME NEW k \in 0 .. m + 1
          PROVE  g[k] = IF k = 0 THEN <<>>
                        ELSE Refilled(type, g[k - 1], orders[k], orderId)
      <4>1. CASE k = m + 1
        <5>1. m \in 0 .. m + 1 /\ m # m + 1 /\ k # 0 /\ k - 1 = m
          BY <4>1
        <5> QED
          BY <4>1, <5>1
      <4>2. CASE k # m + 1
        <5>1. k \in 0 .. m /\ (k # 0 => k - 1 \in 0 .. m + 1 /\ k - 1 # m + 1)
          BY <4>2
        <5>2. f[k] = IF k = 0 THEN <<>> ELSE Refilled(type, f[k - 1], orders[k], orderId)
          BY <3>1, <5>1
        <5> QED
          BY <4>2, <5>1, <5>2
      <4> QED
        BY <4>1, <4>2
    <3>3. g = [k \in 0 .. m + 1 |-> g[k]]
      OBVIOUS
    <3> HIDE DEF g
    <3>4. Steps(g, m + 1)
      BY <3>2, <3>3, Zenon
    <3> HIDE DEF Steps
    <3> QED
      BY <1>1, <3>4
  <2>3. n \in S
    <3> HIDE DEF S
    <3>1. \A k \in 0 .. n : k \in S
      BY <1>1, <2>1, <2>2, UpTo
    <3> QED
      BY <1>1, <3>1
  <2>4. \E f : Steps(f, n)
    BY <2>3
  <2> HIDE DEF Steps
  <2> QED
    BY <2>4, Zenon
<1> HIDE DEF temp
<1>4. /\ temp[0] = <<>>
      /\ \A k \in 0 .. n - 1 :
           temp[k + 1] = Refilled(type, temp[k], orders[k + 1], orderId)
  BY <1>1, <1>3
<1>5. ASSUME NEW k \in 0 .. n - 1, Good(k)
      PROVE  Good(k + 1)
  <2> DEFINE o == orders[k + 1]
  <2>1. k + 1 \in 1 .. n /\ \A i \in 1 .. k : i \in 1 .. n /\ i # k + 1
    BY <1>1
  <2>2. 1 .. k + 1 = 1 .. k \cup {k + 1}
    BY <1>1
  <2>3. o \in E /\ o.price \in Int /\ o \notin In(k)
    BY <1>1, <2>1 DEF Priced
  <2>4. Priced(In(k))
    BY <1>1, <2>1 DEF Priced
  <2>5. CASE o.id = orderId
    <3>1. In(k + 1) = In(k)
      BY <2>2, <2>5
    <3>2. temp[k + 1] = temp[k]
      BY <1>4, <2>5 DEF Refilled
    <3> HIDE DEF In
    <3> QED
      BY <1>5, <3>1, <3>2
  <2>6. CASE o.id # orderId
    <3>1. In(k + 1) = In(k) \cup {o}
      BY <2>2, <2>6
    <3>2. temp[k + 1] = Push(type, temp[k], o)
      BY <1>4, <2>6 DEF Refilled
    <3> HIDE DEF In, o
    <3>3. IsHeap(type, Push(type, temp[k], o), In(k) \cup {o})
      BY <1>5, <2>3, <2>4, PushIsHeap
    <3> QED
      BY <3>1, <3>2, <3>3
  <2> QED
    BY <2>5, <2>6
<1>6. Good(n)
  <2> DEFINE S == {k \in 0 .. n : Good(k)}
  <2>1. 0 \in S
    <3>1. In(0) = {}
      OBVIOUS
    <3> HIDE DEF In
    <3> QED
      BY <1>1, <1>4, <3>1, EmptyIsHeap
  <2>2. ASSUME NEW k \in 0 .. n - 1, k \in S PROVE k + 1 \in S
    <3>1. k + 1 \in 0 .. n
      BY <1>1
    <3>2. Good(k + 1)
      <4> HIDE DEF Good
      <4> QED
        BY <1>5, <2>2
    <3> HIDE DEF Good
    <3> QED
      BY <3>1, <3>2
  <2> HIDE DEF S
  <2>3. \A k \in 0 .. n : k \in S
    BY <1>1, <2>1, <2>2, UpTo
  <2>4. n \in S
    BY <1>1, <2>3
  <2> HIDE DEF Good
  <2> QED
    BY <2>4 DEF S
<1>7. In(n) = {o \in E : o.id # orderId}
  BY <1>1
<1> HIDE DEF In
<1> QED
  BY <1>2, <1>6, <1>7

-----------------------------------------------------------------------------
(* The inductive invariant of the book.                                    *)

Buys  == ToSet(buyOrders)
Sells == ToSet(sellOrders)

BookedOrder ==
  [id : Nat, clientId : ClientIds, type : OrderType, price : Int, quantity : Int]

LedgerLine ==
  [clientId : ClientIds, type : OrderType, price : Int, quantity : Int, filled : Int]

\* An order rests with what is left of it, under the id it was given.
Recorded(o) ==
  /\ o \in BookedOrder
  /\ o.id \in DOMAIN ledger
  /\ ledger[o.id].type = o.type /\ ledger[o.id].price = o.price
  /\ o.quantity = ledger[o.id].quantity - ledger[o.id].filled

\* One side of the book.
SideInv(type, queue, held) ==
  /\ IsHeap(type, queue, held)
  /\ \A o \in held : o.type = type /\ Recorded(o)
  /\ \A o, p \in held : o.id = p.id => o = p

HeapInv ==
  /\ ledger \in Seq(LedgerLine) /\ nextOrderId = Len(ledger) + 1
  /\ SideInv("BUY", buyOrders, Buys)
  /\ SideInv("SELL", sellOrders, Sells)
  /\ ~matching => \A b \in Buys, s \in Sells : b.price < s.price

LEMMA HeldBy ==
  ASSUME NEW type, NEW heap, NEW E, IsHeap(type, heap, E)
  PROVE  ToSet(heap) = E
BY DEF IsHeap, ListsBut, ToSet

LEMMA SidePriced ==
  ASSUME NEW type, NEW queue, NEW held, SideInv(type, queue, held)
  PROVE  Priced(held)
BY DEF SideInv, Priced, Recorded, BookedOrder

\* What the executed order leaves behind: the pop and the push of its remainder.
LEMMA ReducedIsHeap ==
  ASSUME NEW type, NEW queue, NEW held, SideInv(type, queue, held), queue # <<>>,
         NEW q \in Int
  PROVE  LET rest == [Top(queue) EXCEPT !.quantity = @ - q]
         IN  IsHeap(type,
                    IF rest.quantity > 0 THEN Push(type, Pop(type, queue), rest)
                                         ELSE Pop(type, queue),
                    Reduced(held, Top(queue), q))
<1> DEFINE top == Top(queue)
           rest == [top EXCEPT !.quantity = top.quantity - q]
<1>1. Priced(held) /\ IsHeap(type, queue, held)
  BY SidePriced DEF SideInv
<1>2. top \in held /\ IsHeap(type, Pop(type, queue), held \ {top})
  BY <1>1, TopOfHeap, PopIsHeap
<1> HIDE DEF top
<1>3. top \in BookedOrder /\ \A o \in held : o.id = top.id => o = top
  BY <1>2 DEF SideInv, Recorded
<1>4. /\ rest.quantity = top.quantity - q
      /\ rest.id = top.id /\ rest.price \in Int
  BY <1>3 DEF BookedOrder
<1>5. rest \notin held \ {top} /\ Priced(held \ {top})
  BY <1>1, <1>3, <1>4 DEF Priced
<1> HIDE DEF rest
<1>6. Reduced(held, top, q) = (held \ {top}) \cup (IF rest.quantity > 0 THEN {rest} ELSE {})
  BY Zenon DEF Reduced, rest
<1>7. CASE rest.quantity > 0
  <2>1. IsHeap(type, Push(type, Pop(type, queue), rest), (held \ {top}) \cup {rest})
    BY <1>2, <1>4, <1>5, PushIsHeap
  <2> QED
    BY <1>6, <1>7, <2>1 DEF rest, top
<1>8. CASE ~(rest.quantity > 0)
  BY <1>2, <1>6, <1>8 DEF rest, top
<1> QED
  BY <1>7, <1>8

\* What an execution does to the two sides and to the ledger.
Trades(b, s, q) ==
  /\ b \in Buys /\ s \in Sells
  /\ q = TradedQty(b, s) /\ q \in Int
  /\ b.price >= s.price
  /\ \A o \in Buys : o.price <= b.price
  /\ \A o \in Sells : o.price >= s.price
  /\ IsHeap("BUY", buyOrders', Reduced(Buys, b, q))
  /\ IsHeap("SELL", sellOrders', Reduced(Sells, s, q))
  /\ trades' = Append(trades, [price |-> s.price, quantity |-> q])
  /\ ledger' = [ledger EXCEPT ![b.id].filled = @ + q, ![s.id].filled = @ + q]
  /\ UNCHANGED <<nextOrderId, matching>>

LEMMA BestOfSide ==
  ASSUME HeapInv
  PROVE  /\ buyOrders # <<>> => /\ Top(buyOrders) \in Buys
                                /\ \A o \in Buys : o.price <= Top(buyOrders).price
         /\ sellOrders # <<>> => /\ Top(sellOrders) \in Sells
                                 /\ \A o \in Sells : o.price >= Top(sellOrders).price
         /\ buyOrders = <<>> => Buys = {}
         /\ sellOrders = <<>> => Sells = {}
<1>1. /\ Priced(Buys) /\ IsHeap("BUY", buyOrders, Buys)
      /\ Priced(Sells) /\ IsHeap("SELL", sellOrders, Sells)
  BY SidePriced DEF HeapInv, SideInv
<1>2. ASSUME buyOrders # <<>>
      PROVE  /\ Top(buyOrders) \in Buys
             /\ \A o \in Buys : o.price <= Top(buyOrders).price
  <2>1. /\ Top(buyOrders) \in Buys
        /\ \A o \in Buys : ~ComesAfter("BUY", Top(buyOrders), o)
    BY <1>1, <1>2, TopOfHeap
  <2> QED
    BY <1>1, <2>1 DEF Priced, ComesAfter, BuyComparator
<1>3. ASSUME sellOrders # <<>>
      PROVE  /\ Top(sellOrders) \in Sells
             /\ \A o \in Sells : o.price >= Top(sellOrders).price
  <2>1. /\ Top(sellOrders) \in Sells
        /\ \A o \in Sells : ~ComesAfter("SELL", Top(sellOrders), o)
    BY <1>1, <1>3, TopOfHeap
  <2> QED
    BY <1>1, <2>1 DEF Priced, ComesAfter, SellComparator
<1>4. /\ buyOrders = <<>> => Buys = {}
      /\ sellOrders = <<>> => Sells = {}
  BY DEF Buys, Sells, ToSet
<1> QED
  BY <1>2, <1>3, <1>4

LEMMA TradeEffect ==
  ASSUME HeapInv, MatchOrders
  PROVE  \E b \in Buys, s \in Sells, q \in Int : Trades(b, s, q)
<1> DEFINE b == Top(buyOrders)
           s == Top(sellOrders)
           q == TradedQty(b, s)
<1>1. buyOrders # <<>> /\ sellOrders # <<>> /\ b.price >= s.price
  BY DEF MatchOrders, CanMatch, Crossing
<1>2. /\ b \in Buys /\ s \in Sells
      /\ \A o \in Buys : o.price <= b.price
      /\ \A o \in Sells : o.price >= s.price
  BY <1>1, BestOfSide
<1>3. q \in Int
  BY <1>2 DEF HeapInv, SideInv, Recorded, BookedOrder, TradedQty
<1>4. IsHeap("BUY", buyOrders', Reduced(Buys, b, q))
  BY <1>1, <1>3, ReducedIsHeap, Zenon DEF HeapInv, MatchOrders
<1>5. IsHeap("SELL", sellOrders', Reduced(Sells, s, q))
  BY <1>1, <1>3, ReducedIsHeap, Zenon DEF HeapInv, MatchOrders
<1>6. /\ trades' = Append(trades, [price |-> s.price, quantity |-> q])
      /\ ledger' = [ledger EXCEPT ![b.id].filled = @ + q, ![s.id].filled = @ + q]
      /\ UNCHANGED <<nextOrderId, matching>>
  BY Zenon DEF MatchOrders
<1>7. q = TradedQty(b, s)
  OBVIOUS
<1> HIDE DEF b, s, q
<1> QED
  BY <1>1, <1>2, <1>3, <1>4, <1>5, <1>6, <1>7, Zenon DEF Trades

\* What an acceptance does.
Adds(order, line) ==
  /\ order \in BookedOrder /\ order.id = Len(ledger) + 1
  /\ line \in LedgerLine
  /\ line.type = order.type /\ line.price = order.price
  /\ order.quantity = line.quantity - line.filled
  /\ ledger' = Append(ledger, line)

LEMMA AddRecords ==
  ASSUME ledger \in Seq(LedgerLine), NEW order, NEW line, Adds(order, line)
  PROVE  /\ DOMAIN ledger = 1 .. Len(ledger) /\ DOMAIN ledger' = 1 .. Len(ledger) + 1
         /\ ledger' \in Seq(LedgerLine) /\ Len(ledger') = Len(ledger) + 1
         /\ \A i \in DOMAIN ledger : i \in DOMAIN ledger' /\ ledger'[i] = ledger[i]
         /\ ledger'[order.id] = line
         /\ Recorded(order)'
         /\ \A o : Recorded(o) => Recorded(o)' /\ o.id # order.id
<1>1. /\ Len(ledger) \in Nat /\ DOMAIN ledger = 1 .. Len(ledger)
      /\ line \in LedgerLine /\ ledger' = Append(ledger, line)
      /\ order.id = Len(ledger) + 1
  BY LenProperties DEF Adds
<1>2. /\ ledger' \in Seq(LedgerLine) /\ Len(ledger') = Len(ledger) + 1
      /\ \A i \in 1 .. Len(ledger) : ledger'[i] = ledger[i]
      /\ ledger'[Len(ledger) + 1] = line
  BY <1>1, AppendProperties
<1>3. DOMAIN ledger' = 1 .. Len(ledger) + 1
  BY <1>2, LenProperties
<1>4. Recorded(order)'
  <2>1. order.id \in DOMAIN ledger'
    BY <1>1, <1>3
  <2> QED
    BY <1>1, <1>2, <2>1 DEF Recorded, Adds
<1>5. \A i \in DOMAIN ledger : i \in DOMAIN ledger' /\ ledger'[i] = ledger[i] /\ i # order.id
  BY <1>1, <1>2, <1>3
<1>6. ASSUME NEW o, Recorded(o) PROVE Recorded(o)' /\ o.id # order.id
  BY <1>5, <1>6 DEF Recorded
<1> QED
  BY <1>1, <1>2, <1>3, <1>4, <1>5, <1>6

LEMMA AddEffect ==
  ASSUME HeapInv,
         NEW c \in ClientIds, NEW type \in OrderType,
         NEW price \in Prices, NEW quantity \in Quantities,
         AddOrder(c, type, price, quantity)
  PROVE  LET order == [id |-> nextOrderId, clientId |-> c, type |-> type,
                       price |-> price, quantity |-> quantity]
             line == [clientId |-> c, type |-> type, price |-> price,
                      quantity |-> quantity, filled |-> 0]
         IN  /\ Adds(order, line)
             /\ nextOrderId' = nextOrderId + 1 /\ matching' = TRUE /\ UNCHANGED trades
             /\ IF type = "BUY" THEN Buys' = Buys \cup {order} /\ Sells' = Sells
                                ELSE Sells' = Sells \cup {order} /\ Buys' = Buys
             /\ HeapInv'
<1> PICK order : order = [id |-> nextOrderId, clientId |-> c, type |-> type,
                          price |-> price, quantity |-> quantity]
  OBVIOUS
<1> DEFINE line == [clientId |-> c, type |-> type, price |-> price,
                    quantity |-> quantity, filled |-> 0]
<1>1. /\ ledger \in Seq(LedgerLine) /\ nextOrderId = Len(ledger) + 1
      /\ SideInv("BUY", buyOrders, Buys) /\ SideInv("SELL", sellOrders, Sells)
  BY DEF HeapInv
<1>2. price \in Int /\ quantity \in Int /\ Len(ledger) \in Nat
  BY <1>1, NumbersAssumption, LenProperties
<1>3. order \in BookedOrder /\ line \in LedgerLine
  BY <1>1, <1>2 DEF BookedOrder, LedgerLine
<1>4. /\ order.id = nextOrderId /\ order.type = type /\ order.price = price
      /\ order.quantity = quantity
      /\ line.type = type /\ line.price = price /\ line.quantity = quantity /\ line.filled = 0
  OBVIOUS
<1>5. /\ nextOrderId' = nextOrderId + 1 /\ matching' = TRUE /\ UNCHANGED trades
      /\ ledger' = Append(ledger, line)
      /\ type = "BUY" => buyOrders' = Push("BUY", buyOrders, order) /\ sellOrders' = sellOrders
      /\ type # "BUY" => sellOrders' = Push("SELL", sellOrders, order) /\ buyOrders' = buyOrders
  BY Zenon DEF AddOrder
<1> HIDE DEF line
<1>6. Adds(order, line)
  BY <1>1, <1>2, <1>3, <1>4, <1>5 DEF Adds
<1>7. /\ ledger' \in Seq(LedgerLine) /\ Len(ledger') = Len(ledger) + 1
      /\ Recorded(order)'
      /\ \A o : Recorded(o) => Recorded(o)' /\ o.id # order.id
  BY <1>1, <1>6, AddRecords, Zenon
<1>8. ASSUME NEW t, NEW queue, NEW held, SideInv(t, queue, held)
      PROVE  \A o \in held : o.type = t /\ Recorded(o)' /\ o.id # order.id
  BY <1>7, <1>8 DEF SideInv
<1>9. ASSUME NEW t, NEW queue, NEW held, SideInv(t, queue, held), order.type = t
      PROVE  /\ IsHeap(t, Push(t, queue, order), held \cup {order})
             /\ \A o \in held \cup {order} : o.type = t /\ Recorded(o)'
  <2>1. order \notin held /\ \A o \in held : o.type = t /\ Recorded(o)' /\ o.id # order.id
    BY <1>8, <1>9
  <2>2. IsHeap(t, queue, held)
    BY <1>9 DEF SideInv
  <2>3. Priced(held)
    BY <1>9, SidePriced
  <2>4. order.price \in Int
    BY <1>2, <1>4
  <2>5. IsHeap(t, Push(t, queue, order), held \cup {order})
    BY <2>1, <2>2, <2>3, <2>4, PushIsHeap
  <2>6. \A o \in held \cup {order} : o.type = t /\ Recorded(o)'
    BY <1>7, <1>9, <2>1
  <2> QED
    BY <2>5, <2>6
<1>10. CASE type = "BUY"
  <2>1. buyOrders' = Push("BUY", buyOrders, order) /\ sellOrders' = sellOrders
    BY <1>5, <1>10
  <2>2. IsHeap("BUY", buyOrders', Buys \cup {order})
    BY <1>1, <1>4, <1>9, <1>10, <2>1
  <2>3. Buys' = Buys \cup {order} /\ Sells' = Sells
    BY <2>1, <2>2, HeldBy DEF Buys, Sells
  <2>4. SideInv("BUY", buyOrders, Buys)'
    <3>1. /\ \A o \in Buys \cup {order} : o.type = "BUY" /\ Recorded(o)'
          /\ \A o, p \in Buys \cup {order} : o.id = p.id => o = p
      <4> DEFINE held == Buys \cup {order}
      <4>1. order.type = "BUY" /\ SideInv("BUY", buyOrders, Buys)
        BY <1>1, <1>4, <1>10
      <4>2. \A o \in held : o.type = "BUY" /\ Recorded(o)'
        BY <1>9, <4>1
      <4>3. \A o, p \in held : o.id = p.id => o = p
        <5>1. \A o \in Buys : o.id # order.id
          BY <1>8, <4>1
        <5>2. \A o, p \in Buys : o.id = p.id => o = p
          BY <4>1 DEF SideInv
        <5> QED
          BY <5>1, <5>2
      <4> QED
        BY <4>2, <4>3
    <3> QED
      BY <2>2, <2>3, <3>1 DEF SideInv
  <2>5. SideInv("SELL", sellOrders, Sells)'
    BY <1>1, <1>8, <2>1, <2>3 DEF SideInv
  <2> QED
    BY <1>1, <1>5, <1>6, <1>7, <1>10, <2>3, <2>4, <2>5 DEF HeapInv, line
<1>11. CASE type = "SELL"
  <2>1. sellOrders' = Push("SELL", sellOrders, order) /\ buyOrders' = buyOrders
    BY <1>5, <1>11
  <2>2. IsHeap("SELL", sellOrders', Sells \cup {order})
    BY <1>1, <1>4, <1>9, <1>11, <2>1
  <2>3. Sells' = Sells \cup {order} /\ Buys' = Buys
    BY <2>1, <2>2, HeldBy DEF Buys, Sells
  <2>4. SideInv("SELL", sellOrders, Sells)'
    <3>1. /\ \A o \in Sells \cup {order} : o.type = "SELL" /\ Recorded(o)'
          /\ \A o, p \in Sells \cup {order} : o.id = p.id => o = p
      <4> DEFINE held == Sells \cup {order}
      <4>1. order.type = "SELL" /\ SideInv("SELL", sellOrders, Sells)
        BY <1>1, <1>4, <1>11
      <4>2. \A o \in held : o.type = "SELL" /\ Recorded(o)'
        BY <1>9, <4>1
      <4>3. \A o, p \in held : o.id = p.id => o = p
        <5>1. \A o \in Sells : o.id # order.id
          BY <1>8, <4>1
        <5>2. \A o, p \in Sells : o.id = p.id => o = p
          BY <4>1 DEF SideInv
        <5> QED
          BY <5>1, <5>2
      <4> QED
        BY <4>2, <4>3
    <3> QED
      BY <2>2, <2>3, <3>1 DEF SideInv
  <2>5. SideInv("BUY", buyOrders, Buys)'
    BY <1>1, <1>8, <2>1, <2>3 DEF SideInv
  <2> QED
    BY <1>1, <1>5, <1>6, <1>7, <1>11, <2>3, <2>4, <2>5 DEF HeapInv, line
<1> QED
  BY <1>10, <1>11 DEF OrderType, line

\* After an execution every order that rests is recorded with what is left of
\* it; only the two that traded changed.
LEMMA TradeRecords ==
  ASSUME HeapInv, NEW b \in Buys, NEW s \in Sells, NEW q \in Int, Trades(b, s, q)
  PROVE  /\ b.id # s.id /\ b.id \in DOMAIN ledger /\ s.id \in DOMAIN ledger
         /\ ledger' \in Seq(LedgerLine) /\ Len(ledger') = Len(ledger)
         /\ DOMAIN ledger' = DOMAIN ledger
         /\ \A i \in DOMAIN ledger :
              ledger'[i] = IF i \in {b.id, s.id}
                           THEN [ledger[i] EXCEPT !.filled = ledger[i].filled + q]
                           ELSE ledger[i]
<1>1. /\ ledger \in Seq(LedgerLine)
      /\ Recorded(b) /\ Recorded(s) /\ b.type = "BUY" /\ s.type = "SELL"
  BY DEF HeapInv, SideInv
<1>2. b.id # s.id /\ b.id \in DOMAIN ledger /\ s.id \in DOMAIN ledger
  BY <1>1 DEF Recorded
<1>3. \A i \in DOMAIN ledger : ledger[i] \in LedgerLine
  BY <1>1
<1> DEFINE i == b.id
           j == s.id
           At(k) == [ledger[k] EXCEPT !.filled = ledger[k].filled + q]
<1>4. ledger' = [ledger EXCEPT ![i] = At(i), ![j] = At(j)]
  BY <1>2, <1>1 DEF Trades
<1>5. \A k \in DOMAIN ledger : At(k) \in LedgerLine
  BY <1>3 DEF LedgerLine
<1> HIDE DEF i, j, At
<1>6. /\ DOMAIN ledger' = DOMAIN ledger
      /\ \A k \in DOMAIN ledger : ledger'[k] = IF k \in {i, j} THEN At(k) ELSE ledger[k]
  BY <1>4
<1>7. ledger' \in Seq(LedgerLine) /\ Len(ledger') = Len(ledger)
  <2>1. [ledger EXCEPT ![i] = At(i)] \in Seq(LedgerLine)
    BY <1>1, <1>2, <1>5 DEF i
  <2> QED
    BY <1>1, <1>2, <1>4, <1>5 DEF i, j
<1> QED
  BY <1>2, <1>6, <1>7 DEF i, j, At

LEMMA TradeKeepsBook ==
  ASSUME HeapInv, matching, NEW b \in Buys, NEW s \in Sells, NEW q \in Int, Trades(b, s, q)
  PROVE  /\ Buys' = Reduced(Buys, b, q) /\ Sells' = Reduced(Sells, s, q)
         /\ HeapInv'
<1>1. /\ b.id # s.id /\ b.id \in DOMAIN ledger /\ s.id \in DOMAIN ledger
      /\ ledger' \in Seq(LedgerLine) /\ Len(ledger') = Len(ledger)
      /\ DOMAIN ledger' = DOMAIN ledger
      /\ \A i \in DOMAIN ledger :
           ledger'[i] = IF i \in {b.id, s.id}
                        THEN [ledger[i] EXCEPT !.filled = ledger[i].filled + q]
                        ELSE ledger[i]
  BY TradeRecords
<1>2. /\ IsHeap("BUY", buyOrders', Reduced(Buys, b, q))
      /\ IsHeap("SELL", sellOrders', Reduced(Sells, s, q))
  BY DEF Trades
<1>3. Buys' = Reduced(Buys, b, q) /\ Sells' = Reduced(Sells, s, q)
  BY <1>2, HeldBy DEF Buys, Sells
<1>4. SideInv("BUY", buyOrders, Buys) /\ SideInv("SELL", sellOrders, Sells)
  BY DEF HeapInv
<1>5. \A i \in DOMAIN ledger : ledger[i] \in LedgerLine
  BY DEF HeapInv
<1>6. ASSUME NEW t, NEW queue, NEW held, SideInv(t, queue, held), NEW top \in held,
             NEW other, Recorded(other), other.type # t, {top.id, other.id} = {b.id, s.id}
      PROVE  /\ \A o \in Reduced(held, top, q) : o.type = t /\ Recorded(o)'
             /\ \A o, p \in Reduced(held, top, q) : o.id = p.id => o = p
  <2> DEFINE rest == [top EXCEPT !.quantity = top.quantity - q]
  <2>1. /\ \A o \in held : o.type = t /\ Recorded(o)
        /\ \A o, p \in held : o.id = p.id => o = p
    BY <1>6 DEF SideInv
  <2>2. top \in BookedOrder /\ Recorded(top) /\ top.type = t
    BY <2>1 DEF Recorded
  <2>3. /\ rest \in BookedOrder
        /\ rest.id = top.id /\ rest.type = top.type /\ rest.price = top.price
        /\ rest.quantity = top.quantity - q
    BY <2>2 DEF BookedOrder
  <2> HIDE DEF rest
  <2>4. \A o \in Reduced(held, top, q) : (o \in held /\ o # top) \/ o = rest
    BY Zenon DEF Reduced, rest
  <2>5. ASSUME NEW o \in held, o # top PROVE Recorded(o)' /\ o.id # top.id
    <3>1. Recorded(o) /\ o.type = t /\ o.id # top.id
      BY <2>1, <2>5
    <3>2. o.id # other.id
      BY <1>6, <3>1 DEF Recorded
    <3>3. o.id \in DOMAIN ledger /\ o.id \notin {b.id, s.id}
      BY <1>6, <3>1, <3>2 DEF Recorded
    <3>4. ledger'[o.id] = ledger[o.id]
      BY <1>1, <3>3
    <3> QED
      BY <1>1, <3>1, <3>4 DEF Recorded
  <2>6. Recorded(rest)'
    <3>1. top.id \in DOMAIN ledger /\ top.id \in {b.id, s.id}
      BY <1>6, <2>2 DEF Recorded
    <3>2. ledger'[top.id] = [ledger[top.id] EXCEPT !.filled = ledger[top.id].filled + q]
      BY <1>1, <3>1
    <3>3. /\ ledger'[top.id].type = ledger[top.id].type
          /\ ledger'[top.id].price = ledger[top.id].price
          /\ ledger'[top.id].quantity = ledger[top.id].quantity
          /\ ledger'[top.id].filled = ledger[top.id].filled + q
          /\ ledger[top.id].filled \in Int /\ ledger[top.id].quantity \in Int
      BY <1>5, <3>1, <3>2 DEF LedgerLine
    <3>4. /\ ledger[top.id].type = top.type /\ ledger[top.id].price = top.price
          /\ top.quantity = ledger[top.id].quantity - ledger[top.id].filled
      BY <2>2 DEF Recorded
    <3>5. rest.quantity = ledger'[top.id].quantity - ledger'[top.id].filled
      BY <2>3, <3>3, <3>4
    <3> QED
      BY <1>1, <2>3, <3>1, <3>3, <3>4, <3>5 DEF Recorded
  <2> QED
    BY <2>1, <2>2, <2>3, <2>4, <2>5, <2>6
<1>7. /\ Recorded(b) /\ Recorded(s) /\ b.type = "BUY" /\ s.type = "SELL"
  BY <1>4 DEF SideInv
<1>8. SideInv("BUY", buyOrders, Buys)'
  <2>1. /\ \A o \in Reduced(Buys, b, q) : o.type = "BUY" /\ Recorded(o)'
        /\ \A o, p \in Reduced(Buys, b, q) : o.id = p.id => o = p
    BY <1>4, <1>6, <1>7
  <2> QED
    BY <1>2, <1>3, <2>1 DEF SideInv
<1>9. SideInv("SELL", sellOrders, Sells)'
  <2>1. /\ \A o \in Reduced(Sells, s, q) : o.type = "SELL" /\ Recorded(o)'
        /\ \A o, p \in Reduced(Sells, s, q) : o.id = p.id => o = p
    BY <1>4, <1>6, <1>7
  <2> QED
    BY <1>2, <1>3, <2>1 DEF SideInv
<1>10. matching' = matching /\ nextOrderId' = nextOrderId /\ nextOrderId = Len(ledger) + 1
  BY DEF Trades, HeapInv
<1> QED
  BY <1>1, <1>3, <1>8, <1>9, <1>10 DEF HeapInv

LEMMA CancelKeepsBook ==
  ASSUME HeapInv, NEW orderId, CancelOrder(orderId)
  PROVE  /\ Buys' = {o \in Buys : o.id # orderId}
         /\ Sells' = {o \in Sells : o.id # orderId}
         /\ HeapInv'
<1>1. /\ SideInv("BUY", buyOrders, Buys) /\ SideInv("SELL", sellOrders, Sells)
      /\ ~matching /\ \A b \in Buys, s \in Sells : b.price < s.price
      /\ ledger \in Seq(LedgerLine) /\ nextOrderId = Len(ledger) + 1
  BY DEF HeapInv, CancelOrder
<1>2. /\ buyOrders' = Rebuilt("BUY", buyOrders, orderId)
      /\ sellOrders' = Rebuilt("SELL", sellOrders, orderId)
      /\ UNCHANGED <<trades, nextOrderId, matching, ledger>>
  BY DEF CancelOrder
<1>3. IsHeap("BUY", buyOrders', {o \in Buys : o.id # orderId})
  <2>1. Priced(Buys) /\ IsHeap("BUY", buyOrders, Buys)
    BY <1>1, SidePriced DEF SideInv
  <2> QED
    BY <1>2, <2>1, RebuiltIsHeap
<1>4. IsHeap("SELL", sellOrders', {o \in Sells : o.id # orderId})
  <2>1. Priced(Sells) /\ IsHeap("SELL", sellOrders, Sells)
    BY <1>1, SidePriced DEF SideInv
  <2> QED
    BY <1>2, <2>1, RebuiltIsHeap
<1>5. /\ Buys' = {o \in Buys : o.id # orderId}
      /\ Sells' = {o \in Sells : o.id # orderId}
  BY <1>3, <1>4, HeldBy DEF Buys, Sells
<1>6. \A o : Recorded(o) => Recorded(o)'
  BY <1>2 DEF Recorded
<1>7. SideInv("BUY", buyOrders, Buys)' /\ SideInv("SELL", sellOrders, Sells)'
  BY <1>1, <1>3, <1>4, <1>5, <1>6 DEF SideInv
<1> QED
  BY <1>1, <1>2, <1>5, <1>7 DEF HeapInv

LEMMA HeapInitInv == Init => HeapInv
<1> SUFFICES ASSUME Init PROVE HeapInv
  OBVIOUS
<1>1. Buys = {} /\ Sells = {}
  BY DEF Init, Buys, Sells, ToSet
<1>2. ledger \in Seq(LedgerLine) /\ nextOrderId = Len(ledger) + 1
  BY DEF Init
<1>3. IsHeap("BUY", buyOrders, Buys) /\ IsHeap("SELL", sellOrders, Sells)
  BY <1>1, EmptyIsHeap DEF Init
<1> QED
  BY <1>1, <1>2, <1>3 DEF HeapInv, SideInv

LEMMA HeapStepInv == HeapInv /\ [Next]_vars => HeapInv'
<1> SUFFICES ASSUME HeapInv, [Next]_vars PROVE HeapInv'
  OBVIOUS
<1>1. CASE \E c \in ClientIds, type \in OrderType, price \in Prices, quantity \in Quantities :
              AddOrder(c, type, price, quantity)
  BY <1>1, AddEffect, Zenon
<1>2. CASE MatchOrders
  <2>1. matching
    BY <1>2 DEF MatchOrders
  <2> QED
    BY <1>2, <2>1, TradeEffect, TradeKeepsBook, Zenon
<1>3. CASE EndMatch
  <2>1. UNCHANGED <<buyOrders, sellOrders, ledger, nextOrderId>>
    BY <1>3 DEF EndMatch
  <2>2. ASSUME NEW b \in Buys, NEW s \in Sells PROVE b.price < s.price
    <3>1. buyOrders # <<>> /\ sellOrders # <<>>
      BY BestOfSide
    <3>2. ~(Top(buyOrders).price >= Top(sellOrders).price)
      BY <1>3, <3>1 DEF EndMatch, CanMatch, Crossing
    <3>3. /\ b.price <= Top(buyOrders).price /\ Top(buyOrders) \in Buys
          /\ s.price >= Top(sellOrders).price /\ Top(sellOrders) \in Sells
      BY <3>1, BestOfSide
    <3>4. Priced(Buys) /\ Priced(Sells)
      BY SidePriced DEF HeapInv
    <3> QED
      BY <3>2, <3>3, <3>4 DEF Priced
  <2>3. Buys' = Buys /\ Sells' = Sells /\ \A o : Recorded(o)' <=> Recorded(o)
    BY <2>1 DEF Buys, Sells, Recorded
  <2> QED
    BY <2>1, <2>2, <2>3 DEF HeapInv, SideInv
<1>4. CASE \E orderId \in 0 .. nextOrderId : CancelOrder(orderId)
  BY <1>4, CancelKeepsBook, Zenon
<1>5. CASE UNCHANGED vars
  <2>1. UNCHANGED <<buyOrders, sellOrders, ledger, nextOrderId, matching>>
    BY <1>5 DEF vars
  <2>2. Buys' = Buys /\ Sells' = Sells /\ \A o : Recorded(o)' <=> Recorded(o)
    BY <2>1 DEF Buys, Sells, Recorded
  <2> QED
    BY <2>1, <2>2 DEF HeapInv, SideInv
<1> QED
  BY <1>1, <1>2, <1>3, <1>4, <1>5, Zenon DEF Next

LEMMA BookInvariant == Spec => []HeapInv
BY HeapInitInv, HeapStepInv, PTL DEF Spec

\* The front of each heap is a best price of all it holds, after any sequence of
\* acceptances, executions and rebuilds, for any number of orders.
THEOREM FrontIsBest == Spec => []TopIsBest
<1>1. HeapInv => TopIsBest
  <2> SUFFICES ASSUME HeapInv PROVE TopIsBest
    OBVIOUS
  <2> QED
    BY BestOfSide DEF TopIsBest, Buys, Sells
<1> QED
  BY <1>1, BookInvariant, PTL

-----------------------------------------------------------------------------
(* The heaps implement the serial exchange.                                *)

RegisterEntry ==
  [clientId : ClientIds, type : OrderType, price : Int, quantity : Int,
   filled : Int, open : BOOLEAN]

LEMMA OpenIn == OpenIds = {o.id : o \in Buys \cup Sells}
BY DEF OpenIds, Buys, Sells

LEMMA RegisterFields ==
  /\ DOMAIN Register = DOMAIN ledger
  /\ Register = [i \in DOMAIN ledger |-> Register[i]]
  /\ \A i \in DOMAIN ledger :
       Register[i] = [clientId |-> ledger[i].clientId, type |-> ledger[i].type,
                      price |-> ledger[i].price, quantity |-> ledger[i].quantity,
                      filled |-> ledger[i].filled, open |-> i \in OpenIds]
BY Zenon DEF Register

LEMMA RegisterType ==
  ledger \in Seq(LedgerLine) =>
    /\ Register \in Seq(RegisterEntry) /\ Len(Register) = Len(ledger)
    /\ \A i \in DOMAIN ledger : Register[i] \in RegisterEntry
<1> SUFFICES ASSUME ledger \in Seq(LedgerLine)
             PROVE  /\ Register \in Seq(RegisterEntry) /\ Len(Register) = Len(ledger)
                    /\ \A i \in DOMAIN ledger : Register[i] \in RegisterEntry
  OBVIOUS
<1>1. /\ Len(ledger) \in Nat /\ DOMAIN ledger = 1 .. Len(ledger)
      /\ \A i \in 1 .. Len(ledger) : ledger[i] \in LedgerLine
  BY LenProperties, ElementOfSeq
<1>2. ASSUME NEW i \in 1 .. Len(ledger) PROVE Register[i] \in RegisterEntry
  <2> DEFINE isOpen == i \in OpenIds
  <2>1. Register[i] = [clientId |-> ledger[i].clientId, type |-> ledger[i].type,
                       price |-> ledger[i].price, quantity |-> ledger[i].quantity,
                       filled |-> ledger[i].filled, open |-> isOpen]
    BY <1>1, RegisterFields, Zenon
  <2>2. isOpen \in BOOLEAN
    OBVIOUS
  <2> HIDE DEF isOpen
  <2> QED
    BY <1>1, <2>1, <2>2 DEF RegisterEntry, LedgerLine
<1>3. Register = [i \in 1 .. Len(ledger) |-> Register[i]]
  BY <1>1, RegisterFields
<1>4. Register \in Seq(RegisterEntry)
  BY <1>1, <1>2, <1>3, IsASeq
<1>5. Len(Register) = Len(ledger)
  BY <1>1, <1>4, RegisterFields, LenProperties
<1> QED
  BY <1>1, <1>2, <1>4, <1>5

\* An id is open in the register just when its order rests, on its side, with
\* its price and with what is left of its quantity.
LEMMA RegisterOfBook ==
  ASSUME HeapInv
  PROVE  /\ \A o \in Buys : o.id \in Abstract!Bids
         /\ \A o \in Sells : o.id \in Abstract!Asks
         /\ \A i \in Abstract!Bids : \E o \in Buys : o.id = i
         /\ \A i \in Abstract!Asks : \E o \in Sells : o.id = i
         /\ \A o \in Buys \cup Sells :
              /\ o.id \in DOMAIN ledger
              /\ Register[o.id].price = o.price
              /\ Register[o.id].quantity - Register[o.id].filled = o.quantity
<1>1. /\ DOMAIN Register = DOMAIN ledger
      /\ \A i \in DOMAIN ledger :
           /\ Register[i].type = ledger[i].type
           /\ Register[i].price = ledger[i].price
           /\ Register[i].quantity = ledger[i].quantity
           /\ Register[i].filled = ledger[i].filled
           /\ Register[i].open <=> i \in OpenIds
  BY DEF Register
<1>2. \A i : i \in OpenIds <=> \E o \in Buys \cup Sells : o.id = i
  BY OpenIn
<1>3. \A o \in Buys \cup Sells :
        /\ o.id \in DOMAIN ledger /\ ledger[o.id].type = o.type
        /\ ledger[o.id].price = o.price
        /\ o.quantity = ledger[o.id].quantity - ledger[o.id].filled
  BY DEF HeapInv, SideInv, Recorded
<1>4. /\ \A o \in Buys : o.type = "BUY"
      /\ \A o \in Sells : o.type = "SELL"
  BY DEF HeapInv, SideInv
<1>5. /\ \A i : i \in Abstract!Bids <=> i \in DOMAIN ledger /\ i \in OpenIds /\ ledger[i].type = "BUY"
      /\ \A i : i \in Abstract!Asks <=> i \in DOMAIN ledger /\ i \in OpenIds /\ ledger[i].type = "SELL"
  BY <1>1 DEF Abstract!Bids, Abstract!Asks, Abstract!OpenOf
<1> QED
  BY <1>1, <1>2, <1>3, <1>4, <1>5

LEMMA UncrossedRegister ==
  ASSUME HeapInv, ~matching
  PROVE  ~Abstract!Crossed
<1>1. SUFFICES ASSUME NEW b \in Buys, NEW s \in Sells
               PROVE  ~(Register[b.id].price >= Register[s.id].price)
  BY RegisterOfBook DEF Abstract!Crossed
<1>2. Register[b.id].price = b.price /\ Register[s.id].price = s.price
  BY RegisterOfBook
<1>3. b.price < s.price /\ b.price \in Int /\ s.price \in Int
  BY DEF HeapInv, SideInv, Recorded, BookedOrder
<1> QED
  BY <1>2, <1>3

LEMMA ExchangeAccepts ==
  ASSUME HeapInv,
         NEW c \in ClientIds, NEW type \in OrderType,
         NEW price \in Prices, NEW quantity \in Quantities,
         AddOrder(c, type, price, quantity)
  PROVE  Abstract!Next
<1> DEFINE entry == [clientId |-> c, type |-> type, price |-> price,
                     quantity |-> quantity, filled |-> 0, open |-> TRUE]
<1>1. PICK order, line :
        /\ Adds(order, line)
        /\ line = [clientId |-> c, type |-> type, price |-> price,
                   quantity |-> quantity, filled |-> 0]
        /\ Buys' \cup Sells' = Buys \cup Sells \cup {order}
        /\ HeapInv' /\ UNCHANGED trades
  <2> DEFINE order == [id |-> nextOrderId, clientId |-> c, type |-> type,
                       price |-> price, quantity |-> quantity]
             line == [clientId |-> c, type |-> type, price |-> price,
                      quantity |-> quantity, filled |-> 0]
  <2>1. /\ Adds(order, line) /\ UNCHANGED trades /\ HeapInv'
        /\ IF type = "BUY" THEN Buys' = Buys \cup {order} /\ Sells' = Sells
                           ELSE Sells' = Sells \cup {order} /\ Buys' = Buys
    BY AddEffect, Zenon
  <2>2. Buys' \cup Sells' = Buys \cup Sells \cup {order}
    <3> HIDE DEF order
    <3> QED
      BY <2>1
  <2>3. line = [clientId |-> c, type |-> type, price |-> price,
                quantity |-> quantity, filled |-> 0]
    OBVIOUS
  <2> HIDE DEF order, line
  <2> QED
    BY <2>1, <2>2, <2>3, Zenon
<1>2. ledger \in Seq(LedgerLine) /\ ledger' \in Seq(LedgerLine)
  BY <1>1 DEF HeapInv
<1>3. PICK n : n = Len(ledger) + 1 /\ n \in Nat \ {0} /\ n = order.id
  BY <1>1, <1>2, LenProperties DEF Adds
<1>4. /\ DOMAIN ledger = 1 .. Len(ledger) /\ DOMAIN ledger' = 1 .. n
      /\ Len(ledger') = n
      /\ \A i \in 1 .. Len(ledger) : ledger'[i] = ledger[i] /\ i \in 1 .. n /\ i # n
      /\ ledger'[n] = line /\ n \in 1 .. n
  BY <1>1, <1>2, <1>3, AddRecords
<1>5. \A i : i \in OpenIds' <=> i \in OpenIds \/ i = n
  <2>1. OpenIds' = {o.id : o \in Buys' \cup Sells'}
    <3>1. (OpenIds = {o.id : o \in Buys \cup Sells})'
      BY OpenIn, PTL
    <3> QED
      BY <3>1
  <2> QED
    BY <1>1, <1>3, <2>1, OpenIn
<1>6. /\ DOMAIN Register' = DOMAIN ledger'
      /\ \A i \in DOMAIN ledger' :
           Register'[i] = [clientId |-> ledger'[i].clientId, type |-> ledger'[i].type,
                           price |-> ledger'[i].price, quantity |-> ledger'[i].quantity,
                           filled |-> ledger'[i].filled, open |-> i \in OpenIds']
  BY Zenon DEF Register
<1>7. ASSUME NEW i \in 1 .. Len(ledger) PROVE Register'[i] = Register[i]
  <2>1. (i \in OpenIds') = (i \in OpenIds)
    BY <1>4, <1>5
  <2>2. i \in DOMAIN ledger /\ i \in DOMAIN ledger' /\ ledger'[i] = ledger[i]
    BY <1>4
  <2> QED
    BY <1>6, <2>1, <2>2, RegisterFields, Zenon
<1>8. Register'[n] = entry
  <2>1. (n \in OpenIds') = TRUE
    BY <1>5
  <2>2. n \in DOMAIN ledger' /\ ledger'[n] = line
    BY <1>4
  <2>3. /\ line.clientId = c /\ line.type = type /\ line.price = price
        /\ line.quantity = quantity /\ line.filled = 0
    BY <1>1
  <2> QED
    BY <1>6, <2>1, <2>2, <2>3, Zenon
<1>9. entry \in RegisterEntry
  BY NumbersAssumption DEF RegisterEntry
<1>10. Register' = Append(Register, entry)
  <2> HIDE DEF entry
  <2>1. /\ Register \in Seq(RegisterEntry) /\ Len(Register) = Len(ledger)
        /\ Register' \in Seq(RegisterEntry) /\ Len(Register') = n
    <3>1. (ledger \in Seq(LedgerLine) =>
             /\ Register \in Seq(RegisterEntry) /\ Len(Register) = Len(ledger)
             /\ \A i \in DOMAIN ledger : Register[i] \in RegisterEntry)'
      BY RegisterType, PTL
    <3> QED
      BY <1>2, <1>4, <3>1, RegisterType
  <2>2. /\ Append(Register, entry) \in Seq(RegisterEntry)
        /\ Len(Append(Register, entry)) = n
        /\ \A i \in 1 .. Len(ledger) : Append(Register, entry)[i] = Register[i]
        /\ Append(Register, entry)[n] = entry
    BY <1>3, <1>9, <2>1, AppendProperties
  <2>3. \A i \in 1 .. n : Register'[i] = Append(Register, entry)[i]
    <3>1. \A i \in 1 .. n : i = n \/ i \in 1 .. Len(ledger)
      BY <1>3
    <3> QED
      BY <1>7, <1>8, <2>2, <3>1
  <2> QED
    BY <2>1, <2>2, <2>3, SeqEqual
<1>11. ~Abstract!Crossed
  BY UncrossedRegister DEF AddOrder
<1>12. Abstract!Accept(c, type, price, quantity)
  BY <1>1, <1>10, <1>11 DEF Abstract!Accept
<1> QED
  BY <1>12 DEF Abstract!Next, OrderType

\* Which ids a side still holds once its front is reduced.
LEMMA ReducedIds ==
  ASSUME NEW held, NEW top \in held, top \in BookedOrder, NEW q \in Int,
         \A o \in held : o.id = top.id => o = top
  PROVE  /\ \A k : k # top.id => ((\E o \in Reduced(held, top, q) : o.id = k)
                                  <=> \E o \in held : o.id = k)
         /\ (\E o \in Reduced(held, top, q) : o.id = top.id) <=> top.quantity - q > 0
<1> DEFINE rest == [top EXCEPT !.quantity = top.quantity - q]
<1>1. rest.id = top.id /\ rest.quantity = top.quantity - q
  BY DEF BookedOrder
<1> HIDE DEF rest
<1>2. Reduced(held, top, q) = (held \ {top}) \cup (IF rest.quantity > 0 THEN {rest} ELSE {})
  BY Zenon DEF Reduced, rest
<1> QED
  BY <1>1, <1>2

LEMMA ExchangeExecutes ==
  ASSUME HeapInv, matching, NEW b \in Buys, NEW s \in Sells, NEW q \in Int, Trades(b, s, q)
  PROVE  Abstract!Next
<1> DEFINE i == b.id
           j == s.id
<1>1. /\ i # j /\ i \in DOMAIN ledger /\ j \in DOMAIN ledger
      /\ DOMAIN ledger' = DOMAIN ledger
      /\ \A k \in DOMAIN ledger :
           ledger'[k] = IF k \in {i, j}
                        THEN [ledger[k] EXCEPT !.filled = ledger[k].filled + q]
                        ELSE ledger[k]
  BY TradeRecords
<1>2. Buys' = Reduced(Buys, b, q) /\ Sells' = Reduced(Sells, s, q)
  BY TradeKeepsBook
<1>3. /\ \A o \in Buys : o.type = "BUY" /\ Recorded(o)
      /\ \A o \in Sells : o.type = "SELL" /\ Recorded(o)
      /\ \A o, p \in Buys : o.id = p.id => o = p
      /\ \A o, p \in Sells : o.id = p.id => o = p
      /\ ledger \in Seq(LedgerLine)
  BY DEF HeapInv, SideInv
<1>4. \A o \in Buys, p \in Sells : o.id # p.id
  BY <1>3 DEF Recorded
<1>5. /\ b \in BookedOrder /\ s \in BookedOrder
      /\ b.price \in Int /\ s.price \in Int /\ b.quantity \in Int /\ s.quantity \in Int
  BY <1>3 DEF Recorded, BookedOrder
\* What stays open.
<1>6. \A k : k \in OpenIds' <=> \E o \in Buys' \cup Sells' : o.id = k
  <2>1. (OpenIds = {o.id : o \in Buys \cup Sells})'
    BY OpenIn, PTL
  <2> QED
    BY <2>1
<1>7. /\ \A o \in Buys : o.id = b.id => o = b
      /\ \A o \in Sells : o.id = s.id => o = s
  BY <1>3
<1>8. /\ \A k : k # i => ((\E o \in Buys' : o.id = k) <=> \E o \in Buys : o.id = k)
      /\ (\E o \in Buys' : o.id = i) <=> b.quantity - q > 0
  <2>1. /\ \A k : k # b.id => ((\E o \in Reduced(Buys, b, q) : o.id = k)
                                    <=> \E o \in Buys : o.id = k)
        /\ (\E o \in Reduced(Buys, b, q) : o.id = b.id) <=> b.quantity - q > 0
    BY <1>5, <1>7, ReducedIds
  <2> QED
    BY <1>2, <2>1, Zenon
<1>9. /\ \A k : k # j => ((\E o \in Sells' : o.id = k) <=> \E o \in Sells : o.id = k)
      /\ (\E o \in Sells' : o.id = j) <=> s.quantity - q > 0
  <2>1. /\ \A k : k # s.id => ((\E o \in Reduced(Sells, s, q) : o.id = k)
                                    <=> \E o \in Sells : o.id = k)
        /\ (\E o \in Reduced(Sells, s, q) : o.id = s.id) <=> s.quantity - q > 0
    BY <1>5, <1>7, ReducedIds
  <2> QED
    BY <1>2, <2>1, Zenon
<1>10. /\ i \in OpenIds' <=> b.quantity - q > 0
       /\ j \in OpenIds' <=> s.quantity - q > 0
       /\ \A k : k # i /\ k # j => (k \in OpenIds' <=> k \in OpenIds)
  <2>1. \A k : k \in OpenIds <=> \E o \in Buys \cup Sells : o.id = k
    BY OpenIn
  <2>2. \A k : (\E o \in Buys' \cup Sells' : o.id = k)
                 <=> (\E o \in Buys' : o.id = k) \/ (\E o \in Sells' : o.id = k)
    OBVIOUS
  <2>3. ~(\E o \in Sells : o.id = i) /\ ~(\E o \in Buys : o.id = j)
    BY <1>4
  <2> QED
    BY <1>1, <1>6, <1>8, <1>9, <2>1, <2>2, <2>3
<1>11. /\ i \in Abstract!Bids /\ j \in Abstract!Asks
       /\ Register[i].price = b.price /\ Register[j].price = s.price
       /\ Register[i].quantity - Register[i].filled = b.quantity
       /\ Register[j].quantity - Register[j].filled = s.quantity
  BY RegisterOfBook
<1>12. i \in Abstract!BestBids
  <2> SUFFICES ASSUME NEW k \in Abstract!Bids PROVE Register[k].price <= Register[i].price
    BY <1>11 DEF Abstract!BestBids
  <2>1. PICK o \in Buys : o.id = k
    BY RegisterOfBook
  <2>2. Register[k].price = o.price /\ o.price <= b.price
    BY <2>1, RegisterOfBook DEF Trades
  <2> QED
    BY <1>11, <2>2
<1>13. j \in Abstract!BestAsks
  <2> SUFFICES ASSUME NEW k \in Abstract!Asks PROVE Register[k].price >= Register[j].price
    BY <1>11 DEF Abstract!BestAsks
  <2>1. PICK o \in Sells : o.id = k
    BY RegisterOfBook
  <2>2. Register[k].price = o.price /\ o.price >= s.price
    BY <2>1, RegisterOfBook DEF Trades
  <2> QED
    BY <1>11, <2>2
<1>14. /\ DOMAIN Register' = DOMAIN ledger
       /\ \A k \in DOMAIN ledger :
           Register'[k] = [clientId |-> ledger'[k].clientId, type |-> ledger'[k].type,
                           price |-> ledger'[k].price, quantity |-> ledger'[k].quantity,
                           filled |-> ledger'[k].filled, open |-> k \in OpenIds']
       /\ Register' = [k \in DOMAIN ledger |-> Register'[k]]
  BY <1>1, Zenon DEF Register
<1>15. ASSUME NEW top \in {b, s}
       PROVE  Register'[top.id] = Abstract!Executed(Register[top.id], q)
  <2>1. PICK k : k = top.id /\ k \in DOMAIN ledger /\ k \in {i, j}
    BY <1>1
  <2> DEFINE left == top.quantity - q > 0
             sum  == ledger[k].filled + q
  <2>2. (k \in OpenIds') = left
    BY <1>10, <2>1
  <2>3. Register[k].quantity - Register[k].filled = top.quantity
    BY <1>11, <2>1
  <2>4. ledger[k] \in LedgerLine /\ ledger'[k] = [ledger[k] EXCEPT !.filled = sum]
    BY <1>1, <1>3, <2>1
  <2>5. Abstract!Executed(Register[k], q) =
          [Register[k] EXCEPT !.filled = Register[k].filled + q, !.open = left]
    BY <2>3, Zenon DEF Abstract!Executed
  <2>6. /\ Register[k].clientId = ledger[k].clientId /\ Register[k].type = ledger[k].type
        /\ Register[k].price = ledger[k].price /\ Register[k].quantity = ledger[k].quantity
        /\ Register[k].filled = ledger[k].filled
    BY <2>1 DEF Register
  <2>7. Register[k] \in RegisterEntry
    BY <1>3, <2>1, RegisterType
  <2> HIDE DEF left, sum
  <2>8. /\ ledger'[k].clientId = ledger[k].clientId /\ ledger'[k].type = ledger[k].type
        /\ ledger'[k].price = ledger[k].price /\ ledger'[k].quantity = ledger[k].quantity
        /\ ledger'[k].filled = sum
    BY <2>4 DEF LedgerLine
  <2>9. Register'[k] = [clientId |-> ledger[k].clientId, type |-> ledger[k].type,
                        price |-> ledger[k].price, quantity |-> ledger[k].quantity,
                        filled |-> sum, open |-> left]
    BY <1>14, <2>1, <2>2, <2>8, Zenon
  <2>10. Abstract!Executed(Register[k], q) =
           [clientId |-> Register[k].clientId, type |-> Register[k].type,
            price |-> Register[k].price, quantity |-> Register[k].quantity,
            filled |-> sum, open |-> left]
    <3>1. Register[k].filled + q = sum
      BY <2>6 DEF sum
    <3>2. Abstract!Executed(Register[k], q) =
            [Register[k] EXCEPT !.filled = sum, !.open = left]
      BY <2>5, <3>1, Zenon
    <3> QED
      BY <2>7, <3>2 DEF RegisterEntry
  <2> QED
    BY <2>1, <2>6, <2>9, <2>10, Zenon
<1>16. ASSUME NEW k \in DOMAIN ledger \ {i, j} PROVE Register'[k] = Register[k]
  <2>1. (k \in OpenIds') = (k \in OpenIds)
    BY <1>10
  <2>2. k \in DOMAIN ledger /\ ledger'[k] = ledger[k]
    BY <1>1
  <2> QED
    BY <1>14, <2>1, <2>2, RegisterFields, Zenon
<1>17. Register' = [Register EXCEPT ![i] = Abstract!Executed(@, q),
                                    ![j] = Abstract!Executed(@, q)]
  <2>1. /\ Register'[i] = Abstract!Executed(Register[i], q)
        /\ Register'[j] = Abstract!Executed(Register[j], q)
    BY <1>15
  <2> HIDE DEF i, j
  <2> QED
    BY <1>1, <1>14, <1>16, <2>1, RegisterFields
<1>18. q = IF Abstract!Rest(i) <= Abstract!Rest(j) THEN Abstract!Rest(i) ELSE Abstract!Rest(j)
  BY <1>11 DEF Abstract!Rest, TradedQty, Trades
<1>19. /\ Register[i].price >= Register[j].price
       /\ trades' = Append(trades, [price |-> Register[j].price, quantity |-> q])
  BY <1>11 DEF Trades
<1> HIDE DEF i, j
<1>20. Abstract!Execute(i, j)
  BY <1>12, <1>13, <1>17, <1>18, <1>19 DEF Abstract!Execute
<1> QED
  BY <1>11, <1>20 DEF Abstract!Next

\* A cancel of an order that rests is the exchange's; any other is no step.
LEMMA ExchangeCancels ==
  ASSUME HeapInv, NEW orderId, CancelOrder(orderId)
  PROVE  [Abstract!Next]_(Abstract!evars)
<1>1. /\ Buys' = {o \in Buys : o.id # orderId} /\ Sells' = {o \in Sells : o.id # orderId}
      /\ UNCHANGED <<trades, ledger>>
  BY CancelKeepsBook DEF CancelOrder
<1>2. \A k : k \in OpenIds' <=> k \in OpenIds /\ k # orderId
  <2>1. (OpenIds = {o.id : o \in Buys \cup Sells})'
    BY OpenIn, PTL
  <2> QED
    BY <1>1, <2>1, OpenIn
<1>3. /\ \A k \in DOMAIN ledger :
           Register'[k] = [clientId |-> ledger[k].clientId, type |-> ledger[k].type,
                           price |-> ledger[k].price, quantity |-> ledger[k].quantity,
                           filled |-> ledger[k].filled, open |-> k \in OpenIds']
      /\ Register' = [k \in DOMAIN ledger |-> Register'[k]]
  BY <1>1, Zenon DEF Register
<1>4. ASSUME NEW k \in DOMAIN ledger, k # orderId \/ orderId \notin OpenIds
      PROVE  Register'[k] = Register[k]
  <2>1. (k \in OpenIds') = (k \in OpenIds)
    BY <1>2, <1>4
  <2> QED
    BY <1>3, <2>1, RegisterFields, Zenon
<1>5. CASE orderId \in OpenIds
  <2>1. PICK o \in Buys \cup Sells : o.id = orderId
    BY <1>5, OpenIn
  <2>2. orderId \in Abstract!Bids \cup Abstract!Asks /\ orderId \in DOMAIN ledger
    BY <2>1, RegisterOfBook
  <2>3. Register'[orderId] = [Register[orderId] EXCEPT !.open = FALSE]
    <3> DEFINE closed == FALSE
    <3>1. (orderId \in OpenIds') = closed
      BY <1>2
    <3>2. Register[orderId] \in RegisterEntry
      BY <2>2, RegisterType DEF HeapInv
    <3> HIDE DEF closed
    <3>3. Register'[orderId] =
            [clientId |-> ledger[orderId].clientId, type |-> ledger[orderId].type,
             price |-> ledger[orderId].price, quantity |-> ledger[orderId].quantity,
             filled |-> ledger[orderId].filled, open |-> closed]
      BY <1>3, <2>2, <3>1, Zenon
    <3>4. [Register[orderId] EXCEPT !.open = closed] =
            [clientId |-> Register[orderId].clientId, type |-> Register[orderId].type,
             price |-> Register[orderId].price, quantity |-> Register[orderId].quantity,
             filled |-> Register[orderId].filled, open |-> closed]
      BY <3>2 DEF RegisterEntry
    <3>5. /\ Register[orderId].clientId = ledger[orderId].clientId
          /\ Register[orderId].type = ledger[orderId].type
          /\ Register[orderId].price = ledger[orderId].price
          /\ Register[orderId].quantity = ledger[orderId].quantity
          /\ Register[orderId].filled = ledger[orderId].filled
      BY <2>2 DEF Register
    <3> QED
      BY <3>3, <3>4, <3>5, Zenon DEF closed
  <2>4. Register' = [Register EXCEPT ![orderId].open = FALSE]
    BY <1>3, <1>4, <2>2, <2>3, RegisterFields
  <2>5. ~Abstract!Crossed
    BY UncrossedRegister DEF CancelOrder
  <2>6. Abstract!Cancel(orderId)
    BY <1>1, <2>2, <2>4, <2>5 DEF Abstract!Cancel
  <2> QED
    BY <2>2, <2>6 DEF Abstract!Next
<1>6. CASE orderId \notin OpenIds
  <2>1. \A k \in DOMAIN ledger : Register'[k] = Register[k]
    BY <1>4, <1>6
  <2>2. Register' = Register
    BY <1>3, <2>1, RegisterFields
  <2> QED
    BY <1>1, <2>2 DEF Abstract!evars
<1> QED
  BY <1>5, <1>6

\* Sinking, rising and rebuilding lose no order, double none and never put a
\* worse price in front of a better one: with its two heaps the book does what
\* the serial exchange does.
THEOREM HeapsAreExchange == Spec => HeapsImplementExchange
<1>1. Init => Abstract!Init
  BY DEF Init, Register, Abstract!Init
<1>2. HeapInv /\ [Next]_vars => [Abstract!Next]_(Abstract!evars)
  <2> SUFFICES ASSUME HeapInv, [Next]_vars PROVE [Abstract!Next]_(Abstract!evars)
    OBVIOUS
  <2>1. CASE \E c \in ClientIds, type \in OrderType, price \in Prices, quantity \in Quantities :
                AddOrder(c, type, price, quantity)
    <3>1. Abstract!Next
      BY <2>1, ExchangeAccepts, Zenon
    <3> QED
      BY <3>1
  <2>2. CASE MatchOrders
    <3>1. matching
      BY <2>2 DEF MatchOrders
    <3>2. Abstract!Next
      BY <2>2, <3>1, TradeEffect, ExchangeExecutes, Zenon
    <3> QED
      BY <3>2
  <2>3. CASE EndMatch \/ UNCHANGED vars
    <3>1. UNCHANGED <<buyOrders, sellOrders, trades, ledger>>
      BY <2>3 DEF EndMatch, vars
    <3> QED
      BY <3>1 DEF Abstract!evars, Register, OpenIds
  <2>4. CASE \E orderId \in 0 .. nextOrderId : CancelOrder(orderId)
    BY <2>4, ExchangeCancels
  <2> QED
    BY <2>1, <2>2, <2>3, <2>4 DEF Next
<1> QED
  BY <1>1, <1>2, BookInvariant, PTL DEF Spec, HeapsImplementExchange, Abstract!Spec

-----------------------------------------------------------------------------
(* Sums, and the ends of a set.                                            *)

LEMMA SumFunctionIsTotal ==
  ASSUME NEW S, NEW g
  PROVE  SumFunctionOnSet(g, S) = Total(g, S)
BY DEF SumFunctionOnSet, FoldFunctionOnSet, MapThenFoldSet, Total, Adder, AddsUp, Picked

LEMMA SumIsTotal ==
  ASSUME NEW g
  PROVE  SumFunction(g) = Total(g, DOMAIN g)
BY SumFunctionIsTotal DEF SumFunction

IntegersOnly(S) == \A x \in S : x \in Int

\* A finite set of integers has a greatest and a least one.
LEMMA GreatestOf ==
  ASSUME NEW S, IsFiniteSet(S), IntegersOnly(S), S # {}
  PROVE  \E v \in S : \A w \in S : w <= v
<1> DEFINE Over(v) == {w \in S : w > v}
           T == {Over(v) : v \in S}
<1>1. PICK t \in T : \A u \in T : ~(u \subseteq t /\ u # t)
  <2>1. T \subseteq SUBSET S /\ T # {}
    OBVIOUS
  <2> HIDE DEF T
  <2> QED
    BY <2>1, SmallestSet
<1>2. PICK v \in S : t = Over(v)
  OBVIOUS
<1>3. ASSUME NEW x \in S, x > v PROVE FALSE
  <2>1. \A w \in S : w > x => w > v
    BY <1>3 DEF IntegersOnly
  <2>2. ~(x > x)
    BY DEF IntegersOnly
  <2>3. Over(x) \subseteq Over(v) /\ x \in Over(v) /\ x \notin Over(x)
    BY <1>3, <2>1, <2>2
  <2> QED
    BY <1>1, <1>2, <2>3
<1>4. \A x \in S : x <= v
  BY <1>3 DEF IntegersOnly
<1> QED
  BY <1>4

LEMMA LeastOf ==
  ASSUME NEW S, IsFiniteSet(S), IntegersOnly(S), S # {}
  PROVE  \E v \in S : \A w \in S : w >= v
<1> DEFINE Under(v) == {w \in S : w < v}
           T == {Under(v) : v \in S}
<1>1. PICK t \in T : \A u \in T : ~(u \subseteq t /\ u # t)
  <2>1. T \subseteq SUBSET S /\ T # {}
    OBVIOUS
  <2> HIDE DEF T
  <2> QED
    BY <2>1, SmallestSet
<1>2. PICK v \in S : t = Under(v)
  OBVIOUS
<1>3. ASSUME NEW x \in S, x < v PROVE FALSE
  <2>1. \A w \in S : w < x => w < v
    BY <1>3 DEF IntegersOnly
  <2>2. ~(x < x)
    BY DEF IntegersOnly
  <2>3. Under(x) \subseteq Under(v) /\ x \in Under(v) /\ x \notin Under(x)
    BY <1>3, <2>1, <2>2
  <2> QED
    BY <1>1, <1>2, <2>3
<1>4. \A x \in S : x >= v
  BY <1>3 DEF IntegersOnly
<1> QED
  BY <1>4

LEMMA ExtremesOf ==
  ASSUME NEW S, IsFiniteSet(S), IntegersOnly(S), S # {}
  PROVE  /\ Min(S) \in S /\ \A p \in S : Min(S) <= p
         /\ Max(S) \in S /\ \A p \in S : p <= Max(S)
<1>1. Max(S) \in S /\ \A p \in S : Max(S) >= p
  <2>1. \E v \in S : \A w \in S : v >= w
    BY GreatestOf DEF IntegersOnly
  <2> QED
    BY <2>1, Zenon DEF Max
<1>2. Min(S) \in S /\ \A p \in S : Min(S) <= p
  <2>1. \E v \in S : \A w \in S : v <= w
    BY LeastOf
  <2> QED
    BY <2>1, Zenon DEF Min
<1> QED
  BY <1>1, <1>2

LEMMA LesserOf ==
  ASSUME NEW a \in Int, NEW b \in Int
  PROVE  Min({a, b}) = IF a <= b THEN a ELSE b
BY DEF Min

LEMMA GreaterOf ==
  ASSUME NEW a \in Int, NEW b \in Int
  PROVE  Max({a, b}) = IF a >= b THEN a ELSE b
BY DEF Max

-----------------------------------------------------------------------------
(* The latency called P95.                                                 *)

\* A set of latencies has a greatest one.
LEMMA GreatestLatency ==
  ASSUME NEW S \in SUBSET Latencies, S # {}
  PROVE  \E v \in S : \A w \in S : w <= v
<1>1. IsFiniteSet(S)
  BY LatencyAssumption, FS_Subset
<1>2. IntegersOnly(S)
  BY LatencyAssumption DEF IntegersOnly
<1> QED
  BY <1>1, <1>2, GreatestOf

\* P95 is a sample that at least 95% of the samples do not exceed, and no more
\* than 95% of them lie under it, for any set of samples.
THEOREM P95IsAQuantile == AlwaysQuantile
<1> SUFFICES ASSUME NEW samples \in [Latencies -> 0 .. MaxSamples],
                    NumberOf(samples) > 0
             PROVE  LET p == GetP95Latency(samples)
                    IN  /\ 100 * Rank(samples, p) >= 95 * NumberOf(samples)
                        /\ 100 * (Rank(samples, p) - samples[p]) <= 95 * NumberOf(samples)
  BY DEF AlwaysQuantile
<1> DEFINE n == NumberOf(samples)
           k == Min({P95Index(n), n - 1})
           Enough == {v \in Latencies : Rank(samples, v) > k}
           p == GetP95Latency(samples)
<1>1. /\ IsFiniteSet(Latencies) /\ Latencies \subseteq Nat
      /\ \A v \in Latencies : samples[v] \in Nat /\ samples[v] \in Int
  BY LatencyAssumption
<1>2. n = Total(samples, Latencies)
  BY SumFunctionIsTotal DEF NumberOf, SumFunction
<1>3. \A v : Rank(samples, v) = Total(samples, {w \in Latencies : w <= v})
  BY SumFunctionIsTotal DEF Rank
<1>4. \A S \in SUBSET Latencies : Total(samples, S) \in Int
  BY <1>1, TotalType
<1>5. n \in Nat /\ n > 0
  BY <1>2, <1>4
<1>6. p = Min(Enough)
  BY <1>5 DEF GetP95Latency
<1>7. /\ k \in Nat /\ k <= n - 1
      /\ 100 * (k + 1) >= 95 * n /\ 100 * k <= 95 * n
  <2>1. P95Index(n) \in Int /\ n - 1 \in Int
    BY <1>5 DEF P95Index
  <2>2. k = IF P95Index(n) <= n - 1 THEN P95Index(n) ELSE n - 1
    BY <2>1, LesserOf
  <2> HIDE DEF k, n
  <2> QED
    BY <1>5, <2>1, <2>2 DEF P95Index
<1> HIDE DEF n, k
\* There are latencies that reach the index, the greatest one for instance.
<1>8. Enough # {} /\ Enough \subseteq Nat
  <2>1. Latencies # {}
    <3>1. IsFiniteSet({})
      BY FS_EmptySet
    <3> QED
      BY <1>2, <1>5, <3>1, TotalUnfolds
  <2>2. PICK v \in Latencies : \A w \in Latencies : w <= v
    BY <2>1, GreatestLatency
  <2>3. {w \in Latencies : w <= v} = Latencies
    BY <2>2
  <2>4. Rank(samples, v) = n
    BY <1>2, <1>3, <2>3
  <2>5. n > k
    BY <1>5, <1>7
  <2> QED
    BY <1>1, <2>4, <2>5
<1>9. p \in Latencies /\ Rank(samples, p) > k /\ \A v \in Enough : p <= v
  <2>1. \E m \in Enough : \A v \in Enough : m <= v
    BY <1>8, LeastNat
  <2>2. p \in Enough /\ \A v \in Enough : p <= v
    <3> HIDE DEF Enough, p
    <3> QED
      BY <1>6, <2>1 DEF Min
  <2> QED
    BY <2>2
<1> HIDE DEF p
<1> DEFINE below == {w \in Latencies : w <= p}
           under == {w \in Latencies : w < p}
<1>10. Rank(samples, p) - samples[p] = Total(samples, under)
  <2>1. IsFiniteSet(below)
    BY <1>1, FS_Subset
  <2>3. p \in below /\ below \ {p} = under
    <3>1. \A w \in Latencies : w < p <=> (w <= p /\ w # p)
      BY <1>1, <1>9
    <3>2. p <= p
      BY <1>1, <1>9
    <3> QED
      BY <1>9, <3>1, <3>2
  <2>2. \A v \in below : samples[v] \in Int
    BY <1>1
  <2>4. Total(samples, below) = samples[p] + Total(samples, under)
    <3> HIDE DEF below, under
    <3> QED
      BY <2>1, <2>2, <2>3, TotalRemoves
  <2> QED
    BY <1>1, <1>3, <1>4, <1>9, <2>4
\* What lies under it does not reach the index.
<1>11. Total(samples, under) <= k
  <2>1. CASE under = {}
    <3>1. IsFiniteSet({})
      BY FS_EmptySet
    <3> QED
      BY <1>7, <2>1, <3>1, TotalUnfolds
  <2>2. CASE under # {}
    <3>1. PICK q \in under : \A w \in under : w <= q
      BY <2>2, GreatestLatency
    <3>2. {w \in Latencies : w <= q} = under
      <4>1. q \in Latencies /\ q < p /\ \A w \in Latencies : w < p => w <= q
        BY <3>1
      <4>2. \A w \in Latencies : w <= q => w < p
        BY <1>1, <1>9, <4>1
      <4> QED
        BY <4>1, <4>2
    <3>3. q \notin Enough
      BY <1>1, <1>9, <3>1
    <3> QED
      BY <1>3, <1>4, <1>7, <3>1, <3>2, <3>3
  <2> QED
    BY <2>1, <2>2
<1>12. Rank(samples, p) \in Int /\ Total(samples, under) \in Int
  BY <1>3, <1>4
<1> QED
  BY <1>5, <1>7, <1>9, <1>10, <1>11, <1>12 DEF n, p

\* It is so whenever a snapshot is taken.
THEOREM SnapshotP95 == SnapshotSpec => []P95IsQuantile
<1>1. P95IsQuantile
  BY P95IsAQuantile DEF P95IsQuantile
<1> QED
  BY <1>1, PTL

-----------------------------------------------------------------------------
(* Reading a snapshot.                                                     *)

Marks(lines) == {lines[i].mark : i \in DOMAIN lines}

LEMMA MarksOfConcat ==
  ASSUME NEW L, NEW s \in Seq(L), NEW t \in Seq(L)
  PROVE  s \o t \in Seq(L) /\ Marks(s \o t) \subseteq Marks(s) \cup Marks(t)
<1>1. /\ s \o t \in Seq(L) /\ Len(s \o t) = Len(s) + Len(t)
      /\ \A i \in 1 .. Len(s) + Len(t) :
           (s \o t)[i] = IF i <= Len(s) THEN s[i] ELSE t[i - Len(s)]
  BY ConcatProperties
<1>2. /\ Len(s) \in Nat /\ DOMAIN s = 1 .. Len(s)
      /\ Len(t) \in Nat /\ DOMAIN t = 1 .. Len(t)
      /\ DOMAIN (s \o t) = 1 .. Len(s) + Len(t)
  BY <1>1, LenProperties
<1>3. ASSUME NEW i \in 1 .. Len(s) + Len(t)
      PROVE  (s \o t)[i].mark \in Marks(s) \cup Marks(t)
  <2>1. CASE i <= Len(s)
    <3>1. i \in DOMAIN s /\ (s \o t)[i] = s[i]
      BY <1>1, <1>2, <2>1
    <3> QED
      BY <3>1 DEF Marks
  <2>2. CASE ~(i <= Len(s))
    <3>1. i - Len(s) \in DOMAIN t /\ (s \o t)[i] = t[i - Len(s)]
      BY <1>1, <1>2, <2>2
    <3> QED
      BY <3>1 DEF Marks
  <2> QED
    BY <2>1, <2>2
<1> QED
  BY <1>1, <1>2, <1>3 DEF Marks

\* Where the lines of a framed section lie.
LEMMA FramedLines ==
  ASSUME NEW L, NEW rows \in Seq(L), NEW begin, NEW end, Mark(begin) \in L, Mark(end) \in L
  PROVE  /\ Framed(begin, rows, end) \in Seq(L)
         /\ Len(Framed(begin, rows, end)) = Len(rows) + 2
         /\ Framed(begin, rows, end)[1] = Mark(begin)
         /\ \A i \in 1 .. Len(rows) : Framed(begin, rows, end)[i + 1] = rows[i]
         /\ Framed(begin, rows, end)[Len(rows) + 2] = Mark(end)
<1> DEFINE b == <<Mark(begin)>>
           e == <<Mark(end)>>
<1>1. /\ b \in Seq(L) /\ Len(b) = 1 /\ b[1] = Mark(begin)
      /\ e \in Seq(L) /\ Len(e) = 1 /\ e[1] = Mark(end)
  OBVIOUS
<1>2. Framed(begin, rows, end) = (b \o rows) \o e
  BY DEF Framed
<1> HIDE DEF b, e
<1>3. Len(rows) \in Nat
  BY LenProperties
<1>4. /\ b \o rows \in Seq(L) /\ Len(b \o rows) = 1 + Len(rows)
      /\ \A i \in 1 .. 1 + Len(rows) : (b \o rows)[i] = IF i <= 1 THEN b[i] ELSE rows[i - 1]
  <2>1. /\ b \o rows \in Seq(L) /\ Len(b \o rows) = Len(b) + Len(rows)
        /\ \A i \in 1 .. Len(b) + Len(rows) :
             (b \o rows)[i] = IF i <= Len(b) THEN b[i] ELSE rows[i - Len(b)]
    BY <1>1, ConcatProperties
  <2> QED
    BY <1>1, <2>1
<1>5. /\ (b \o rows) \o e \in Seq(L) /\ Len((b \o rows) \o e) = 1 + Len(rows) + 1
      /\ \A i \in 1 .. 1 + Len(rows) + 1 :
           ((b \o rows) \o e)[i] = IF i <= 1 + Len(rows) THEN (b \o rows)[i]
                                                         ELSE e[i - (1 + Len(rows))]
  BY <1>1, <1>4, ConcatProperties
<1>6. ((b \o rows) \o e)[1] = Mark(begin)
  BY <1>1, <1>3, <1>4, <1>5
<1>7. ASSUME NEW i \in 1 .. Len(rows) PROVE ((b \o rows) \o e)[i + 1] = rows[i]
  <2>1. i + 1 \in 1 .. 1 + Len(rows) /\ i + 1 \in 1 .. 1 + Len(rows) + 1 /\ ~(i + 1 <= 1)
        /\ i + 1 <= 1 + Len(rows) /\ i + 1 - 1 = i
    BY <1>3
  <2> QED
    BY <1>4, <1>5, <2>1
<1>8. ((b \o rows) \o e)[Len(rows) + 2] = Mark(end)
  <2>1. /\ Len(rows) + 2 \in 1 .. 1 + Len(rows) + 1 /\ ~(Len(rows) + 2 <= 1 + Len(rows))
        /\ Len(rows) + 2 - (1 + Len(rows)) = 1
    BY <1>3
  <2> QED
    BY <1>1, <1>5, <2>1
<1>9. (b \o rows) \o e \in Seq(L) /\ Len((b \o rows) \o e) = Len(rows) + 2
  BY <1>3, <1>5
<1> DEFINE s == (b \o rows) \o e
<1> HIDE DEF s
<1>10. /\ Framed(begin, rows, end) = s /\ s \in Seq(L) /\ Len(s) = Len(rows) + 2
       /\ s[1] = Mark(begin) /\ s[Len(rows) + 2] = Mark(end)
       /\ \A i \in 1 .. Len(rows) : s[i + 1] = rows[i]
  BY <1>2, <1>6, <1>7, <1>8, <1>9 DEF s
<1> QED
  BY <1>10

\* A section framed by its marks, with lines before and behind it; a reader of
\* the section does not meet the marks before their place.
FrameAfter(L, pre, begin, rows, end, post) ==
  /\ pre \in Seq(L) /\ rows \in Seq(L) /\ post \in Seq(L)
  /\ Mark(begin) \in L /\ Mark(end) \in L /\ begin # end
  /\ begin \notin Marks(pre) \cup Marks(rows) /\ end \notin Marks(pre) \cup Marks(rows)

\* The reader gets the rows of its section, whatever the others look like.
LEMMA SectionOf ==
  ASSUME NEW L, NEW pre, NEW begin, NEW rows, NEW end, NEW post,
         FrameAfter(L, pre, begin, rows, end, post)
  PROVE  Section((pre \o Framed(begin, rows, end)) \o post, begin, end) = rows
<1>0. /\ pre \in Seq(L) /\ rows \in Seq(L) /\ post \in Seq(L)
      /\ Mark(begin) \in L /\ Mark(end) \in L /\ begin # end
      /\ begin \notin Marks(pre) /\ begin \notin Marks(rows)
      /\ end \notin Marks(pre) /\ end \notin Marks(rows)
  BY DEF FrameAfter
<1> USE <1>0
<1> DEFINE frame == Framed(begin, rows, end)
           lines == (pre \o frame) \o post
           p == Len(pre)
           m == Len(rows)
           n == Len(lines)
<1>1. /\ p \in Nat /\ m \in Nat /\ Len(post) \in Nat
      /\ DOMAIN pre = 1 .. p /\ DOMAIN rows = 1 .. m
  BY LenProperties
<1>2. /\ frame \in Seq(L) /\ Len(frame) = m + 2
      /\ frame[1] = Mark(begin) /\ frame[m + 2] = Mark(end)
      /\ \A i \in 1 .. m : frame[i + 1] = rows[i]
  BY FramedLines
<1> HIDE DEF frame
<1>3. /\ pre \o frame \in Seq(L) /\ Len(pre \o frame) = p + (m + 2)
      /\ \A i \in 1 .. p + (m + 2) :
           (pre \o frame)[i] = IF i <= p THEN pre[i] ELSE frame[i - p]
  <2>1. /\ pre \o frame \in Seq(L) /\ Len(pre \o frame) = Len(pre) + Len(frame)
        /\ \A i \in 1 .. Len(pre) + Len(frame) :
             (pre \o frame)[i] = IF i <= Len(pre) THEN pre[i] ELSE frame[i - Len(pre)]
    BY <1>2, ConcatProperties
  <2> QED
    BY <1>2, <2>1
<1>4. /\ n = p + m + 2 + Len(post)
      /\ \A i \in 1 .. p + m + 2 : lines[i] = (pre \o frame)[i]
  <2>1. /\ Len(lines) = Len(pre \o frame) + Len(post)
        /\ \A i \in 1 .. Len(pre \o frame) + Len(post) :
             lines[i] = IF i <= Len(pre \o frame) THEN (pre \o frame)[i]
                                                  ELSE post[i - Len(pre \o frame)]
    BY <1>3, ConcatProperties
  <2> HIDE DEF lines
  <2> QED
    BY <1>1, <1>3, <2>1
<1> HIDE DEF lines, n, p, m
<1>5. /\ \A i \in 1 .. p : lines[i] = pre[i]
      /\ lines[p + 1] = Mark(begin)
      /\ \A i \in 1 .. m : lines[p + 1 + i] = rows[i]
      /\ lines[p + m + 2] = Mark(end)
  <2>1. \A i \in 1 .. p : i \in 1 .. p + m + 2 /\ i \in 1 .. p + (m + 2) /\ i <= p
    BY <1>1
  <2>2. /\ p + 1 \in 1 .. p + m + 2 /\ p + 1 \in 1 .. p + (m + 2)
        /\ ~(p + 1 <= p) /\ p + 1 - p = 1
    BY <1>1
  <2>3. \A i \in 1 .. m :
          /\ p + 1 + i \in 1 .. p + m + 2 /\ p + 1 + i \in 1 .. p + (m + 2)
          /\ ~(p + 1 + i <= p) /\ p + 1 + i - p = i + 1
    BY <1>1
  <2>4. /\ p + m + 2 \in 1 .. p + m + 2 /\ p + m + 2 \in 1 .. p + (m + 2)
        /\ ~(p + m + 2 <= p) /\ p + m + 2 - p = m + 2
    BY <1>1
  <2>0. ASSUME NEW i \in 1 .. p + m + 2
        PROVE  lines[i] = IF i <= p THEN pre[i] ELSE frame[i - p]
    <3>1. i \in 1 .. p + (m + 2)
      BY <1>1
    <3> QED
      BY <1>3, <1>4, <3>1
  <2>5. \A i \in 1 .. p : lines[i] = pre[i]
    BY <2>0, <2>1
  <2>6. lines[p + 1] = frame[1]
    <3>1. \A i \in 1 .. p + m + 2 : i = p + 1 => lines[i] = frame[i - p] /\ i - p = 1
      BY <1>1, <2>0
    <3> QED
      BY <2>2, <3>1
  <2>7. \A i \in 1 .. m : lines[p + 1 + i] = frame[i + 1]
    <3>1. \A i \in 1 .. p + m + 2 : \A j \in 1 .. m :
            i = p + 1 + j => lines[i] = frame[i - p] /\ i - p = j + 1
      BY <1>1, <2>0
    <3> QED
      BY <2>3, <3>1
  <2>8. lines[p + m + 2] = frame[m + 2]
    <3>1. \A i \in 1 .. p + m + 2 :
            i = p + m + 2 => lines[i] = frame[i - p] /\ i - p = m + 2
      BY <1>1, <2>0
    <3> QED
      BY <2>4, <3>1
  <2> QED
    BY <1>2, <2>5, <2>6, <2>7, <2>8
\* What the reader has seen when it comes to a line.
<1> DEFINE Seen(mark, i) == \E j \in 1 .. i : lines[j].mark = mark
           Takes(i) == Seen(begin, i) /\ ~Seen(end, i) /\ lines[i].mark # begin
<1>6. /\ \A i \in 1 .. p : lines[i].mark # begin /\ lines[i].mark # end
      /\ lines[p + 1].mark = begin /\ lines[p + m + 2].mark = end
      /\ \A i \in 1 .. m : lines[p + 1 + i].mark # begin /\ lines[p + 1 + i].mark # end
  <2>1. \A i \in 1 .. p : pre[i].mark # begin /\ pre[i].mark # end
    BY <1>1 DEF Marks
  <2>2. \A i \in 1 .. m : rows[i].mark # begin /\ rows[i].mark # end
    BY <1>1 DEF Marks
  <2>3. Mark(begin).mark = begin /\ Mark(end).mark = end
    BY DEF Mark
  <2> QED
    BY <1>5, <2>1, <2>2, <2>3
<1>7. \A i \in 1 .. n : Takes(i) <=> p + 1 < i /\ i <= p + 1 + m
  <2>1. \A j \in 1 .. p + m + 1 : j \in 1 .. p \/ j = p + 1 \/ j - (p + 1) \in 1 .. m
    BY <1>1
  <2>2. \A j \in 1 .. p + m + 1 : j = p + 1 + (j - (p + 1))
    BY <1>1
  <2>3. \A j \in 1 .. p + m + 1 : lines[j].mark # end
    BY <1>6, <2>1, <2>2
  <2>4. ASSUME NEW i \in 1 .. n, i <= p + 1 PROVE ~Takes(i)
    <3>1. CASE i = p + 1
      BY <1>6, <3>1
    <3>2. CASE i # p + 1
      <4>1. \A j \in 1 .. i : j \in 1 .. p
        BY <1>1, <2>4, <3>2
      <4> QED
        BY <1>6, <4>1
    <3> QED
      BY <3>1, <3>2
  <2>5. ASSUME NEW i \in 1 .. n, i > p + 1 + m PROVE ~Takes(i)
    <3>1. p + m + 2 \in 1 .. i
      BY <1>1, <2>5
    <3> QED
      BY <1>6, <3>1
  <2>6. ASSUME NEW i \in 1 .. n, p + 1 < i, i <= p + 1 + m PROVE Takes(i)
    <3>1. p + 1 \in 1 .. i /\ \A j \in 1 .. i : j \in 1 .. p + m + 1
      BY <1>1, <2>6
    <3>2. i - (p + 1) \in 1 .. m /\ i = p + 1 + (i - (p + 1))
      BY <1>1, <2>6
    <3>3. lines[i].mark # begin
      BY <1>6, <3>2
    <3> QED
      BY <1>6, <2>3, <3>1, <3>3
  <2>7. \A i \in 1 .. n : i <= p + 1 \/ i > p + 1 + m \/ (p + 1 < i /\ i <= p + 1 + m)
    BY <1>1
  <2>8. \A i \in 1 .. n : ~(i <= p + 1 /\ p + 1 < i) /\ ~(i > p + 1 + m /\ i <= p + 1 + m)
    BY <1>1
  <2> HIDE DEF Takes
  <2> QED
    BY <2>4, <2>5, <2>6, <2>7, <2>8
<1> DEFINE Reads(f) == f = [i \in 0 .. n |->
                              IF i = 0 THEN <<>>
                              ELSE IF Takes(i) THEN Append(f[i - 1], lines[i]) ELSE f[i - 1]]
           read == CHOOSE f : Reads(f)
           F == [i \in 0 .. n |-> IF i <= p + 1 THEN <<>>
                                  ELSE IF i <= p + 1 + m THEN SubSeq(rows, 1, i - (p + 1))
                                  ELSE rows]
<1>8. Section(lines, begin, end) = read[n]
  BY Zenon DEF Section, n
<1> HIDE DEF Takes
<1>9. ASSUME NEW k \in 1 .. m
      PROVE  SubSeq(rows, 1, k) = Append(SubSeq(rows, 1, k - 1), rows[k])
  <2>1. k \in 1 .. Len(rows) /\ 1 \in 1 .. Len(rows) /\ Len(rows) \in Nat
    BY <1>1 DEF m
  <2>2. \A i \in 1 .. k : rows[i] \in L
    BY <2>1, ElementOfSeq
  <2>3. /\ SubSeq(rows, 1, k) \in Seq(L) /\ Len(SubSeq(rows, 1, k)) = k
        /\ \A i \in 1 .. k : SubSeq(rows, 1, k)[i] = rows[i]
    BY <2>1, <2>2, SubSeqProperties
  <2>4. /\ SubSeq(rows, 1, k - 1) \in Seq(L) /\ Len(SubSeq(rows, 1, k - 1)) = k - 1
        /\ \A i \in 1 .. k - 1 : SubSeq(rows, 1, k - 1)[i] = rows[i]
    BY <2>1, <2>2, SubSeqProperties
  <2> DEFINE s == SubSeq(rows, 1, k - 1)
  <2>5. /\ Append(s, rows[k]) \in Seq(L) /\ Len(Append(s, rows[k])) = k
        /\ \A i \in 1 .. k - 1 : Append(s, rows[k])[i] = s[i]
        /\ Append(s, rows[k])[k] = rows[k]
    BY <2>1, <2>2, <2>4, AppendProperties
  <2> HIDE DEF s
  <2>6. \A i \in 1 .. k : i = k \/ i \in 1 .. k - 1
    BY <2>1
  <2>7. \A i \in 1 .. k : SubSeq(rows, 1, k)[i] = Append(s, rows[k])[i]
    BY <2>3, <2>4, <2>5, <2>6 DEF s
  <2>8. SubSeq(rows, 1, k) = Append(s, rows[k])
    BY <2>3, <2>5, <2>7, SeqEqual
  <2> QED
    BY <2>8 DEF s
<1>10. SubSeq(rows, 1, 0) = <<>> /\ SubSeq(rows, 1, m) = rows
  BY SubSeqEmpty, SubSeqFull DEF m
<1>11. ASSUME NEW i \in 1 .. n
       PROVE  F[i] = IF Takes(i) THEN Append(F[i - 1], lines[i]) ELSE F[i - 1]
  <2>1. i \in 0 .. n /\ i - 1 \in 0 .. n /\ i \in Nat
    BY <1>1, <1>4
  <2>2. CASE i <= p + 1
    <3>1. ~(p + 1 < i) /\ i - 1 <= p + 1
      BY <1>1, <2>1, <2>2
    <3> QED
      BY <1>7, <2>1, <2>2, <3>1
  <2>3. CASE i = p + 2 /\ m > 0
    <3>1. /\ ~(i <= p + 1) /\ i <= p + 1 + m /\ i - 1 <= p + 1 /\ p + 1 < i
          /\ i - (p + 1) = 1 /\ i = p + 1 + 1 /\ 1 \in 1 .. m /\ 1 - 1 = 0
      BY <1>1, <2>3
    <3>2. Takes(i) /\ F[i - 1] = <<>> /\ F[i] = SubSeq(rows, 1, 1) /\ lines[i] = rows[1]
      BY <1>5, <1>7, <2>1, <3>1
    <3> QED
      BY <1>9, <1>10, <3>1, <3>2
  <2>4. CASE i > p + 2 /\ i <= p + 1 + m
    <3> DEFINE k == i - (p + 1)
    <3>1. /\ ~(i <= p + 1) /\ ~(i - 1 <= p + 1) /\ i - 1 <= p + 1 + m /\ p + 1 < i
          /\ k \in 1 .. m /\ i = p + 1 + k /\ i - 1 - (p + 1) = k - 1
      BY <1>1, <2>1, <2>4
    <3>2. Takes(i) /\ F[i] = SubSeq(rows, 1, k) /\ F[i - 1] = SubSeq(rows, 1, k - 1)
      BY <1>7, <2>1, <2>4, <3>1
    <3>3. lines[i] = rows[k]
      BY <1>5, <3>1
    <3> QED
      BY <1>9, <3>1, <3>2, <3>3
  <2>5. CASE i = p + 2 + m
    <3>1. /\ ~(i <= p + 1) /\ ~(i <= p + 1 + m) /\ i - 1 <= p + 1 + m
          /\ i - 1 - (p + 1) = m /\ (i - 1 <= p + 1 <=> m = 0)
      BY <1>1, <2>1, <2>5
    <3>2. ~Takes(i) /\ F[i] = rows
      BY <1>7, <2>1, <3>1
    <3>3. F[i - 1] = rows
      BY <1>10, <2>1, <3>1
    <3> QED
      BY <3>2, <3>3
  <2>6. CASE i > p + 2 + m
    <3>1. /\ ~(i <= p + 1) /\ ~(i <= p + 1 + m)
          /\ ~(i - 1 <= p + 1) /\ ~(i - 1 <= p + 1 + m)
      BY <1>1, <2>1, <2>6
    <3> QED
      BY <1>7, <2>1, <3>1
  <2>7. \/ i <= p + 1
        \/ i = p + 2 /\ m > 0
        \/ i > p + 2 /\ i <= p + 1 + m
        \/ i = p + 2 + m
        \/ i > p + 2 + m
    BY <1>1, <2>1
  <2> QED
    BY <2>2, <2>3, <2>4, <2>5, <2>6, <2>7
<1>12. n \in Nat /\ F[0] = <<>> /\ F[n] = rows
  <2>1. n \in Nat /\ 0 \in 0 .. n /\ n \in 0 .. n
        /\ 0 <= p + 1 /\ ~(n <= p + 1) /\ ~(n <= p + 1 + m)
    BY <1>1, <1>4
  <2> QED
    BY <2>1
<1>13. Reads(F)
  <2>1. F = [i \in 0 .. n |-> F[i]]
    OBVIOUS
  <2> HIDE DEF F
  <2>2. \A i \in 0 .. n : i = 0 \/ i \in 1 .. n
    BY <1>12
  <2>3. \A i \in 0 .. n :
          F[i] = IF i = 0 THEN <<>>
                 ELSE IF Takes(i) THEN Append(F[i - 1], lines[i]) ELSE F[i - 1]
    BY <1>11, <1>12, <2>2
  <2> QED
    BY <2>1, <2>3
<1>14. Reads(read)
  <2> HIDE DEF Reads, F
  <2> QED
    BY <1>13, Zenon
<1> HIDE DEF read
<1>15. \A i \in 0 .. n : read[i] = F[i]
  <2> DEFINE S == {i \in 0 .. n : read[i] = F[i]}
  <2>1. 0 \in S
    <3>1. 0 \in 0 .. n
      BY <1>12
    <3>2. read[0] = <<>>
      BY <1>14, <3>1
    <3> HIDE DEF F
    <3> QED
      BY <1>12, <3>1, <3>2
  <2>2. ASSUME NEW i \in 0 .. n - 1, i \in S PROVE i + 1 \in S
    <3>1. i + 1 \in 1 .. n /\ i + 1 \in 0 .. n /\ i + 1 # 0 /\ i + 1 - 1 = i
      BY <1>12
    <3>2. read[i + 1] = IF Takes(i + 1) THEN Append(read[i], lines[i + 1]) ELSE read[i]
      <4> HIDE DEF F
      <4>1. \A k \in 1 .. n : k \in 0 .. n /\ k # 0
        BY <1>12
      <4>2. \A k \in 1 .. n :
              read[k] = IF Takes(k) THEN Append(read[k - 1], lines[k]) ELSE read[k - 1]
        BY <1>14, <4>1
      <4> HIDE DEF Reads
      <4> QED
        BY <3>1, <4>2
    <3>3. F[i + 1] = IF Takes(i + 1) THEN Append(F[i], lines[i + 1]) ELSE F[i]
      <4> HIDE DEF F
      <4> QED
        BY <1>11, <3>1
    <3> HIDE DEF F
    <3> QED
      BY <2>2, <3>1, <3>2, <3>3
  <2> HIDE DEF S
  <2>3. \A i \in 0 .. n : i \in S
    BY <1>12, <2>1, <2>2, UpTo
  <2> QED
    BY <2>3 DEF S
<1>16. read[n] = rows
  <2> HIDE DEF F
  <2> QED
    BY <1>12, <1>15
<1> QED
  BY <1>8, <1>16 DEF lines, frame

LEMMA NoMarks ==
  ASSUME NEW L
  PROVE  <<>> \in Seq(L) /\ Marks(<<>>) = {}
<1> DEFINE s == <<>>
<1>1. s \in Seq(L) /\ Len(s) = 0
  BY EmptySeq
<1> HIDE DEF s
<1>2. DOMAIN s = 1 .. 0
  BY <1>1, LenProperties
<1>3. Marks(s) = {}
  BY <1>2 DEF Marks
<1> QED
  BY <1>1, <1>3 DEF s

LEMMA MarksOfOne ==
  ASSUME NEW L, NEW mark, Mark(mark) \in L
  PROVE  <<Mark(mark)>> \in Seq(L) /\ Marks(<<Mark(mark)>>) \subseteq {mark}
<1> DEFINE s == <<Mark(mark)>>
<1>1. s \in Seq(L) /\ Len(s) = 1 /\ s[1] = Mark(mark)
  OBVIOUS
<1> HIDE DEF s
<1>2. \A i \in DOMAIN s : s[i] = Mark(mark)
  BY <1>1, LenProperties
<1>3. Mark(mark).mark = mark
  BY DEF Mark
<1> QED
  BY <1>1, <1>2, <1>3 DEF Marks, s

LEMMA MarksOfFrame ==
  ASSUME NEW L, NEW rows \in Seq(L), Marks(rows) \subseteq {""},
         NEW begin, NEW end, Mark(begin) \in L, Mark(end) \in L
  PROVE  /\ Framed(begin, rows, end) \in Seq(L)
         /\ Marks(Framed(begin, rows, end)) \subseteq {"", begin, end}
<1> DEFINE b == <<Mark(begin)>>
           e == <<Mark(end)>>
<1>1. b \in Seq(L) /\ e \in Seq(L) /\ Marks(b) \subseteq {begin} /\ Marks(e) \subseteq {end}
  BY MarksOfOne
<1>2. Framed(begin, rows, end) = (b \o rows) \o e
  BY DEF Framed
<1> HIDE DEF b, e
<1>3. b \o rows \in Seq(L) /\ Marks(b \o rows) \subseteq Marks(b) \cup Marks(rows)
  BY <1>1, MarksOfConcat
<1>4. /\ (b \o rows) \o e \in Seq(L)
      /\ Marks((b \o rows) \o e) \subseteq Marks(b \o rows) \cup Marks(e)
  BY <1>1, <1>3, MarksOfConcat
<1> QED
  BY <1>1, <1>2, <1>3, <1>4

\* `lines` are x and y, one after the other.
Splits(L, lines, x, y) == x \in Seq(L) /\ y \in Seq(L) /\ lines = x \o y

LEMMA SplitsEarlier ==
  ASSUME NEW L, NEW lines, NEW x \in Seq(L), NEW f \in Seq(L), NEW y, Splits(L, lines, x \o f, y)
  PROVE  Splits(L, lines, x, f \o y)
<1>1. y \in Seq(L) /\ lines = (x \o f) \o y
  BY DEF Splits
<1>2. f \o y \in Seq(L)
  BY <1>1, ConcatProperties
<1>3. (x \o f) \o y = x \o (f \o y)
  BY <1>1, ConcatAssociative
<1> QED
  BY <1>1, <1>2, <1>3 DEF Splits

\* L has the marks of a snapshot among its lines.
HasMarks(L) ==
  /\ Mark("END_SNAPSHOT") \in L
  /\ Mark("BUY") \in L /\ Mark("END_BUY") \in L
  /\ Mark("SELL") \in L /\ Mark("END_SELL") \in L
  /\ Mark("TRADES") \in L /\ Mark("END_TRADES") \in L
  /\ Mark("STATS") \in L /\ Mark("END_STATS") \in L
  /\ Mark("MARKET") \in L /\ Mark("END_MARKET") \in L
  /\ Mark("DEPTH") \in L /\ Mark("END_DEPTH") \in L

\* Six framed sections one after the other, as a snapshot has them.
Sections(r1, r2, r3, r4, r5, r6) ==
  Framed("BUY", r1, "END_BUY")
  \o Framed("SELL", r2, "END_SELL")
  \o Framed("TRADES", r3, "END_TRADES")
  \o Framed("STATS", r4, "END_STATS")
  \o Framed("MARKET", r5, "END_MARKET")
  \o Framed("DEPTH", r6, "END_DEPTH")
  \o <<Mark("END_SNAPSHOT")>>

\* Lines of L without a mark.
Unmarked(L, rows) == rows \in Seq(L) /\ Marks(rows) \subseteq {""}

\* What a reader gets from each.
LEMMA SixSections ==
  ASSUME NEW L, HasMarks(L), NEW r1, NEW r2, NEW r3, NEW r4, NEW r5, NEW r6,
         Unmarked(L, r1), Unmarked(L, r2), Unmarked(L, r3),
         Unmarked(L, r4), Unmarked(L, r5), Unmarked(L, r6)
  PROVE  LET lines == Sections(r1, r2, r3, r4, r5, r6)
         IN  /\ Section(lines, "BUY", "END_BUY") = r1
             /\ Section(lines, "SELL", "END_SELL") = r2
             /\ Section(lines, "TRADES", "END_TRADES") = r3
             /\ Section(lines, "STATS", "END_STATS") = r4
             /\ Section(lines, "MARKET", "END_MARKET") = r5
             /\ Section(lines, "DEPTH", "END_DEPTH") = r6
<1> DEFINE lines == Sections(r1, r2, r3, r4, r5, r6)
           x1 == <<>>
           f1 == Framed("BUY", r1, "END_BUY")
           f2 == Framed("SELL", r2, "END_SELL")
           f3 == Framed("TRADES", r3, "END_TRADES")
           f4 == Framed("STATS", r4, "END_STATS")
           f5 == Framed("MARKET", r5, "END_MARKET")
           f6 == Framed("DEPTH", r6, "END_DEPTH")
           f7 == <<Mark("END_SNAPSHOT")>>
           x2 == x1 \o f1
           x3 == x2 \o f2
           x4 == x3 \o f3
           x5 == x4 \o f4
           x6 == x5 \o f5
           x7 == x6 \o f6
           y6 == f7
           y5 == f6 \o y6
           y4 == f5 \o y5
           y3 == f4 \o y4
           y2 == f3 \o y3
           y1 == f2 \o y2
<1>1. /\ Mark("END_SNAPSHOT") \in L
      /\ Mark("BUY") \in L /\ Mark("END_BUY") \in L
      /\ Mark("SELL") \in L /\ Mark("END_SELL") \in L
      /\ Mark("TRADES") \in L /\ Mark("END_TRADES") \in L
      /\ Mark("STATS") \in L /\ Mark("END_STATS") \in L
      /\ Mark("MARKET") \in L /\ Mark("END_MARKET") \in L
      /\ Mark("DEPTH") \in L /\ Mark("END_DEPTH") \in L
  BY DEF HasMarks
<1>0. /\ r1 \in Seq(L) /\ Marks(r1) \subseteq {""}
       /\ r2 \in Seq(L) /\ Marks(r2) \subseteq {""}
       /\ r3 \in Seq(L) /\ Marks(r3) \subseteq {""}
       /\ r4 \in Seq(L) /\ Marks(r4) \subseteq {""}
       /\ r5 \in Seq(L) /\ Marks(r5) \subseteq {""}
       /\ r6 \in Seq(L) /\ Marks(r6) \subseteq {""}
  BY DEF Unmarked
<1>2. f1 \in Seq(L) /\ Marks(f1) \subseteq {"", "BUY", "END_BUY"}
  BY <1>1, <1>0, MarksOfFrame
<1>3. f2 \in Seq(L) /\ Marks(f2) \subseteq {"", "SELL", "END_SELL"}
  BY <1>1, <1>0, MarksOfFrame
<1>4. f3 \in Seq(L) /\ Marks(f3) \subseteq {"", "TRADES", "END_TRADES"}
  BY <1>1, <1>0, MarksOfFrame
<1>5. f4 \in Seq(L) /\ Marks(f4) \subseteq {"", "STATS", "END_STATS"}
  BY <1>1, <1>0, MarksOfFrame
<1>6. f5 \in Seq(L) /\ Marks(f5) \subseteq {"", "MARKET", "END_MARKET"}
  BY <1>1, <1>0, MarksOfFrame
<1>7. f6 \in Seq(L) /\ Marks(f6) \subseteq {"", "DEPTH", "END_DEPTH"}
  BY <1>1, <1>0, MarksOfFrame
<1>8. f7 \in Seq(L)
  BY <1>1, MarksOfOne
<1>9. lines = x7 \o f7
  <2>3. lines = f1 \o f2 \o f3 \o f4 \o f5 \o f6 \o f7
    BY Zenon DEF Sections
  <2>1. x2 = f1
    <3>1. f1 \in Seq(L)
      BY <1>2
    <3> HIDE DEF f1
    <3> QED
      BY <3>1, ConcatEmptySeq
  <2> HIDE DEF x2, lines, f1, f2, f3, f4, f5, f6, f7
  <2> QED
    BY <2>1, <2>3
<1>10. x1 \in Seq(L) /\ Marks(x1) = {}
  BY NoMarks
<1> HIDE DEF lines, f1, f2, f3, f4, f5, f6, f7, x1
\* What lies before a frame.
<1>11. x2 \in Seq(L) /\ Marks(x2) \subseteq Marks(x1) \cup Marks(f1)
  BY <1>2, <1>10, MarksOfConcat
<1> HIDE DEF x2
<1>12. x3 \in Seq(L) /\ Marks(x3) \subseteq Marks(x2) \cup Marks(f2)
  BY <1>3, <1>11, MarksOfConcat
<1> HIDE DEF x3
<1>13. x4 \in Seq(L) /\ Marks(x4) \subseteq Marks(x3) \cup Marks(f3)
  BY <1>4, <1>12, MarksOfConcat
<1> HIDE DEF x4
<1>14. x5 \in Seq(L) /\ Marks(x5) \subseteq Marks(x4) \cup Marks(f4)
  BY <1>5, <1>13, MarksOfConcat
<1> HIDE DEF x5
<1>15. x6 \in Seq(L) /\ Marks(x6) \subseteq Marks(x5) \cup Marks(f5)
  BY <1>6, <1>14, MarksOfConcat
<1> HIDE DEF x6
<1>16. x7 \in Seq(L) /\ Marks(x7) \subseteq Marks(x6) \cup Marks(f6)
  BY <1>7, <1>15, MarksOfConcat
<1> HIDE DEF x7
\* Where a frame lies.
<1>17. Splits(L, lines, x6 \o f6, y6)
  BY <1>8, <1>9, <1>16 DEF Splits, x7
<1> HIDE DEF y6
<1>18. Splits(L, lines, x5 \o f5, y5)
  <2>1. Splits(L, lines, x6, y5)
    BY <1>7, <1>15, <1>17, SplitsEarlier
  <2> QED
    BY <2>1 DEF x6
<1> HIDE DEF y5
<1>19. Splits(L, lines, x4 \o f4, y4)
  <2>1. Splits(L, lines, x5, y4)
    BY <1>6, <1>14, <1>18, SplitsEarlier
  <2> QED
    BY <2>1 DEF x5
<1> HIDE DEF y4
<1>20. Splits(L, lines, x3 \o f3, y3)
  <2>1. Splits(L, lines, x4, y3)
    BY <1>5, <1>13, <1>19, SplitsEarlier
  <2> QED
    BY <2>1 DEF x4
<1> HIDE DEF y3
<1>21. Splits(L, lines, x2 \o f2, y2)
  <2>1. Splits(L, lines, x3, y2)
    BY <1>4, <1>12, <1>20, SplitsEarlier
  <2> QED
    BY <2>1 DEF x3
<1> HIDE DEF y2
<1>22. Splits(L, lines, x1 \o f1, y1)
  <2>1. Splits(L, lines, x2, y1)
    BY <1>3, <1>11, <1>21, SplitsEarlier
  <2> QED
    BY <2>1 DEF x2
<1> HIDE DEF y1
<1>23. Section(lines, "BUY", "END_BUY") = r1
  <2>1. Marks(x1) \subseteq {""}
    BY <1>10
  <2>2. lines = (x1 \o Framed("BUY", r1, "END_BUY")) \o y1 /\ y1 \in Seq(L)
    BY <1>22, Zenon DEF Splits, f1
  <2>3. "BUY" \notin Marks(x1) \cup Marks(r1) /\ "END_BUY" \notin Marks(x1) \cup Marks(r1)
    BY <1>0, <2>1
  <2>4. FrameAfter(L, x1, "BUY", r1, "END_BUY", y1)
    BY <1>1, <1>0, <1>10, <2>2, <2>3 DEF FrameAfter
  <2> QED
    BY <2>2, <2>4, SectionOf
<1>24. Section(lines, "SELL", "END_SELL") = r2
  <2>1. Marks(x2) \subseteq {"", "BUY", "END_BUY"}
    BY <1>2, <1>10, <1>11
  <2>2. lines = (x2 \o Framed("SELL", r2, "END_SELL")) \o y2 /\ y2 \in Seq(L)
    BY <1>21, Zenon DEF Splits, f2
  <2>3. "SELL" \notin Marks(x2) \cup Marks(r2) /\ "END_SELL" \notin Marks(x2) \cup Marks(r2)
    BY <1>0, <2>1
  <2>4. FrameAfter(L, x2, "SELL", r2, "END_SELL", y2)
    BY <1>1, <1>0, <1>11, <2>2, <2>3 DEF FrameAfter
  <2> QED
    BY <2>2, <2>4, SectionOf
<1>25. Section(lines, "TRADES", "END_TRADES") = r3
  <2>1. Marks(x3) \subseteq {"", "BUY", "END_BUY", "SELL", "END_SELL"}
    BY <1>2, <1>3, <1>10, <1>11, <1>12
  <2>2. lines = (x3 \o Framed("TRADES", r3, "END_TRADES")) \o y3 /\ y3 \in Seq(L)
    BY <1>20, Zenon DEF Splits, f3
  <2>3. "TRADES" \notin Marks(x3) \cup Marks(r3) /\ "END_TRADES" \notin Marks(x3) \cup Marks(r3)
    BY <1>0, <2>1
  <2>4. FrameAfter(L, x3, "TRADES", r3, "END_TRADES", y3)
    BY <1>1, <1>0, <1>12, <2>2, <2>3 DEF FrameAfter
  <2> QED
    BY <2>2, <2>4, SectionOf
<1>26. Section(lines, "STATS", "END_STATS") = r4
  <2>1. Marks(x4) \subseteq {"", "BUY", "END_BUY", "SELL", "END_SELL", "TRADES", "END_TRADES"}
    BY <1>2, <1>3, <1>4, <1>10, <1>11, <1>12, <1>13
  <2>2. lines = (x4 \o Framed("STATS", r4, "END_STATS")) \o y4 /\ y4 \in Seq(L)
    BY <1>19, Zenon DEF Splits, f4
  <2>3. "STATS" \notin Marks(x4) \cup Marks(r4) /\ "END_STATS" \notin Marks(x4) \cup Marks(r4)
    BY <1>0, <2>1
  <2>4. FrameAfter(L, x4, "STATS", r4, "END_STATS", y4)
    BY <1>1, <1>0, <1>13, <2>2, <2>3 DEF FrameAfter
  <2> QED
    BY <2>2, <2>4, SectionOf
<1>27. Section(lines, "MARKET", "END_MARKET") = r5
  <2>1. Marks(x5) \subseteq {"", "BUY", "END_BUY", "SELL", "END_SELL", "TRADES", "END_TRADES", "STATS",
                             "END_STATS"}
    BY <1>2, <1>3, <1>4, <1>5, <1>10, <1>11, <1>12, <1>13, <1>14
  <2>2. lines = (x5 \o Framed("MARKET", r5, "END_MARKET")) \o y5 /\ y5 \in Seq(L)
    BY <1>18, Zenon DEF Splits, f5
  <2>3. "MARKET" \notin Marks(x5) \cup Marks(r5) /\ "END_MARKET" \notin Marks(x5) \cup Marks(r5)
    BY <1>0, <2>1
  <2>4. FrameAfter(L, x5, "MARKET", r5, "END_MARKET", y5)
    BY <1>1, <1>0, <1>14, <2>2, <2>3 DEF FrameAfter
  <2> QED
    BY <2>2, <2>4, SectionOf
<1>28. Section(lines, "DEPTH", "END_DEPTH") = r6
  <2>1. Marks(x6) \subseteq {"", "BUY", "END_BUY", "SELL", "END_SELL", "TRADES", "END_TRADES", "STATS",
                             "END_STATS", "MARKET", "END_MARKET"}
    BY <1>2, <1>3, <1>4, <1>5, <1>6, <1>10, <1>11, <1>12, <1>13, <1>14, <1>15
  <2>2. lines = (x6 \o Framed("DEPTH", r6, "END_DEPTH")) \o y6 /\ y6 \in Seq(L)
    BY <1>17, Zenon DEF Splits, f6
  <2>3. "DEPTH" \notin Marks(x6) \cup Marks(r6) /\ "END_DEPTH" \notin Marks(x6) \cup Marks(r6)
    BY <1>0, <2>1
  <2>4. FrameAfter(L, x6, "DEPTH", r6, "END_DEPTH", y6)
    BY <1>1, <1>0, <1>15, <2>2, <2>3 DEF FrameAfter
  <2> QED
    BY <2>2, <2>4, SectionOf
<1> QED
  BY <1>23, <1>24, <1>25, <1>26, <1>27, <1>28 DEF lines

-----------------------------------------------------------------------------
(* What a snapshot is made of.                                             *)

Trade == [price : Int, quantity : Int]

TapeInv == trades \in Seq(Trade)

LEMMA SnapshotIsBook == SnapshotSpec => Spec
<1>1. SnapshotInit => Init
  BY DEF SnapshotInit
<1>2. [SnapshotNext]_snapshotVars => [Next]_vars
  BY DEF SnapshotNext, TradeAndPositions, BookOnly, Next, snapshotVars
<1> QED
  BY <1>1, <1>2, PTL DEF SnapshotSpec, Spec

LEMMA TapeInvariant == Spec => [](HeapInv /\ TapeInv)
<1>1. Init => TapeInv
  BY DEF Init, TapeInv
<1>2. HeapInv /\ TapeInv /\ [Next]_vars => TapeInv'
  <2> SUFFICES ASSUME HeapInv, TapeInv, [Next]_vars PROVE TapeInv'
    OBVIOUS
  <2>1. CASE MatchOrders
    <3>1. PICK b \in Buys, s \in Sells, q \in Int : Trades(b, s, q)
      BY <2>1, TradeEffect
    <3>2. s.price \in Int
      BY DEF HeapInv, SideInv, Recorded, BookedOrder
    <3>3. trades' = Append(trades, [price |-> s.price, quantity |-> q])
      BY <3>1 DEF Trades
    <3>4. [price |-> s.price, quantity |-> q] \in Trade
      BY <3>2 DEF Trade
    <3> QED
      BY <3>3, <3>4, AppendProperties DEF TapeInv
  <2>2. CASE trades' = trades
    BY <2>2 DEF TapeInv
  <2>3. MatchOrders \/ trades' = trades
    BY DEF Next, AddOrder, EndMatch, CancelOrder, vars
  <2> QED
    BY <2>1, <2>2, <2>3
<1> QED
  BY <1>1, <1>2, BookInvariant, PTL DEF Spec

\* Lines without a mark.
LEMMA PlainRows ==
  ASSUME NEW L, NEW n \in Nat, NEW rows, rows = [i \in 1 .. n |-> rows[i]],
         \A i \in 1 .. n : rows[i].mark = "" /\ rows[i] \in L
  PROVE  Unmarked(L, rows)
<1>1. DOMAIN rows = 1 .. n
  OBVIOUS
<1>2. rows \in [1 .. n -> L]
  OBVIOUS
<1>3. Seq(L) = UNION {[1 .. m -> L] : m \in Nat}
  BY SeqDef
<1>4. rows \in Seq(L)
  BY <1>2, <1>3, Zenon
<1> QED
  BY <1>1, <1>4 DEF Unmarked, Marks

\* n rows, all of them without a mark.
Plain(rows) == \E n \in Nat : /\ rows = [i \in 1 .. n |-> rows[i]]
                              /\ \A i \in 1 .. n : rows[i].mark = ""

LEMMA PlainIn ==
  ASSUME NEW L, NEW rows, Plain(rows), {rows[i] : i \in DOMAIN rows} \subseteq L
  PROVE  Unmarked(L, rows)
<1>1. PICK n \in Nat : /\ rows = [i \in 1 .. n |-> rows[i]]
                       /\ \A i \in 1 .. n : rows[i].mark = ""
  BY DEF Plain
<1>2. DOMAIN rows = 1 .. n
  BY <1>1
<1>3. \A i \in 1 .. n : rows[i] \in L
  BY <1>2
<1> QED
  BY <1>1, <1>3, PlainRows

\* Emptying the queues.
LEMMA DrainedSides ==
  ASSUME HeapInv
  PROVE  /\ BuyRows \in Seq(Buys) /\ ListsBut(BuyRows, Len(BuyRows), 0, Buys)
         /\ SellRows \in Seq(Sells) /\ ListsBut(SellRows, Len(SellRows), 0, Sells)
         /\ \A i, j \in 1 .. Len(BuyRows) : i < j => BuyRows[i].price >= BuyRows[j].price
         /\ \A i, j \in 1 .. Len(SellRows) : i < j => SellRows[i].price <= SellRows[j].price
<1>1. Priced(Buys) /\ IsHeap("BUY", buyOrders, Buys)
  BY SidePriced DEF HeapInv, SideInv
<1>2. Priced(Sells) /\ IsHeap("SELL", sellOrders, Sells)
  BY SidePriced DEF HeapInv, SideInv
<1>3. /\ BuyRows \in Seq(Buys) /\ Len(BuyRows) = Len(buyOrders)
      /\ ListsBut(BuyRows, Len(buyOrders), 0, Buys)
      /\ \A i, j \in 1 .. Len(buyOrders) :
           i < j => ~ComesAfter("BUY", BuyRows[i], BuyRows[j])
  BY <1>1, DrainedLists DEF BuyRows
<1>4. /\ SellRows \in Seq(Sells) /\ Len(SellRows) = Len(sellOrders)
      /\ ListsBut(SellRows, Len(sellOrders), 0, Sells)
      /\ \A i, j \in 1 .. Len(sellOrders) :
           i < j => ~ComesAfter("SELL", SellRows[i], SellRows[j])
  BY <1>2, DrainedLists DEF SellRows
<1>5. /\ \A i \in 1 .. Len(BuyRows) : BuyRows[i].price \in Int
      /\ \A i \in 1 .. Len(SellRows) : SellRows[i].price \in Int
  BY <1>1, <1>2, <1>3, <1>4, ElementOfSeq DEF Priced
<1>6. ASSUME NEW i \in 1 .. Len(BuyRows), NEW j \in 1 .. Len(BuyRows), i < j
      PROVE  BuyRows[i].price >= BuyRows[j].price
  BY <1>3, <1>5, <1>6 DEF ComesAfter, BuyComparator
<1>7. ASSUME NEW i \in 1 .. Len(SellRows), NEW j \in 1 .. Len(SellRows), i < j
      PROVE  SellRows[i].price <= SellRows[j].price
  BY <1>4, <1>5, <1>7 DEF ComesAfter, SellComparator
<1> QED
  BY <1>3, <1>4, <1>6, <1>7

LEMMA OrdersPlain ==
  ASSUME NEW E, NEW rows \in Seq(E)
  PROVE  Plain(PrintedOrders(rows))
<1> DEFINE s == PrintedOrders(rows)
<1>1. Len(rows) \in Nat /\ DOMAIN rows = 1 .. Len(rows)
  BY LenProperties
<1>2. /\ s = [i \in 1 .. Len(rows) |-> s[i]]
      /\ \A i \in 1 .. Len(rows) : s[i].mark = ""
  BY <1>1 DEF PrintedOrders, Row
<1> QED
  BY <1>1, <1>2 DEF Plain

\* The window of the latest trades.
LEMMA WindowOfTape ==
  ASSUME TapeInv
  PROVE  /\ Len(trades) \in Nat /\ RecentTrades \in Seq(Trade)
         /\ Len(RecentTrades) = IF Len(trades) <= TradeWindow THEN Len(trades) ELSE TradeWindow
         /\ \A i \in 1 .. Len(RecentTrades) :
              RecentTrades[i] = trades[Len(trades) - Len(RecentTrades) + i]
<1> DEFINE n == Len(trades)
           first == Max({1, n - TradeWindow + 1})
<1>1. n \in Nat /\ TradeWindow \in Nat
  BY WindowAssumption, LenProperties DEF TapeInv
<1>2. first = IF 1 >= n - TradeWindow + 1 THEN 1 ELSE n - TradeWindow + 1
  BY <1>1, GreaterOf
<1>3. first \in Int /\ first >= 1 /\ n - first + 1 = IF n <= TradeWindow THEN n ELSE TradeWindow
  BY <1>1, <1>2
<1>4. RecentTrades = SubSeq(trades, first, n)
  BY DEF RecentTrades
<1> HIDE DEF first
<1>5. \A i \in first .. n : trades[i] \in Trade
  BY <1>1, <1>3, ElementOfSeq DEF TapeInv
<1>6. /\ RecentTrades \in Seq(Trade)
      /\ Len(RecentTrades) = IF first <= n THEN n - first + 1 ELSE 0
      /\ \A i \in 1 .. n - first + 1 : RecentTrades[i] = trades[first + i - 1]
  BY <1>1, <1>3, <1>4, <1>5, SubSeqProperties
<1>7. Len(RecentTrades) = n - first + 1
  BY <1>1, <1>3, <1>6
<1>8. \A i \in 1 .. n - first + 1 : first + i - 1 = n - (n - first + 1) + i
  BY <1>1, <1>3
<1> QED
  BY <1>1, <1>3, <1>6, <1>7, <1>8

LEMMA TradesPlain ==
  ASSUME TapeInv
  PROVE  Plain(PrintedTrades)
<1>1. Len(RecentTrades) \in Nat /\ DOMAIN RecentTrades = 1 .. Len(RecentTrades)
  BY WindowOfTape, LenProperties
<1>2. /\ PrintedTrades = [i \in 1 .. Len(RecentTrades) |-> PrintedTrades[i]]
      /\ \A i \in 1 .. Len(RecentTrades) : PrintedTrades[i].mark = ""
  BY <1>1 DEF PrintedTrades, Row
<1> QED
  BY <1>1, <1>2 DEF Plain

LEMMA LevelsLong ==
  ASSUME NEW queue, NEW E, queue \in Seq(E), NEW sign
  PROVE  \E n \in Nat : n = Cardinality({o.price : o \in ToSet(queue)}) /\ DOMAIN Levels(queue, sign) = 1 .. n
<1> DEFINE prices == {o.price : o \in ToSet(queue)}
<1>1. IsFiniteSet(prices)
  <2>1. prices = {queue[i].price : i \in 1 .. Len(queue)} /\ Len(queue) \in Nat
    BY LenProperties DEF ToSet
  <2>2. IsFiniteSet(1 .. Len(queue))
    BY <2>1, FS_Interval
  <2>3. IsFiniteSet({queue[i].price : i \in 1 .. Len(queue)})
    <3> DEFINE f == [i \in 1 .. Len(queue) |-> queue[i].price]
    <3>1. f \in Surjection(1 .. Len(queue), {queue[i].price : i \in 1 .. Len(queue)})
      BY DEF Surjection
    <3> HIDE DEF f
    <3> QED
      BY <2>2, <3>1, FS_Surjection
  <2> QED
    BY <2>1, <2>3
<1>2. Cardinality(prices) \in Nat
  BY <1>1, FS_CardinalityType
<1>3. DOMAIN Levels(queue, sign) = 1 .. Cardinality(prices)
  BY DEF Levels
<1> QED
  BY <1>2, <1>3

LEMMA DepthPlain ==
  ASSUME HeapInv
  PROVE  Plain(GetMarketDepthSnapshot)
<1> DEFINE s == GetMarketDepthSnapshot
<1>1. PICK n \in Nat : DOMAIN Levels(buyOrders, -1) = 1 .. n
  BY LevelsLong DEF HeapInv, SideInv, IsHeap
<1>2. PICK m \in Nat : DOMAIN Levels(sellOrders, 1) = 1 .. m
  BY LevelsLong DEF HeapInv, SideInv, IsHeap
<1>3. \E k \in Nat : 1 .. n \cup 1 .. m = 1 .. k
  <2>1. CASE n <= m
    <3>1. 1 .. n \cup 1 .. m = 1 .. m
      BY <2>1
    <3> QED
      BY <3>1
  <2>2. CASE ~(n <= m)
    <3>1. 1 .. n \cup 1 .. m = 1 .. n
      BY <2>2
    <3> QED
      BY <3>1
  <2> QED
    BY <2>1, <2>2
<1>4. PICK k \in Nat : 1 .. n \cup 1 .. m = 1 .. k
  BY <1>3
<1>5. /\ DOMAIN s = 1 .. k /\ s = [i \in 1 .. k |-> s[i]]
      /\ \A i \in 1 .. k : s[i].mark = ""
  BY <1>1, <1>2, <1>4 DEF GetMarketDepthSnapshot, Row
<1> QED
  BY <1>5 DEF Plain

StatsRow(c) == Row(<<Cell(GetTotalTrades), Cell(GetTotalVolume), Cell(GetVWAP),
                     Cell(GetAveragePrice(c))>>)

MarketRow(c) == Row(<<Cell(GetBestBid), Cell(GetBestAsk), Cell(GetSpread),
                      Cell(GetCurrentPosition(c))>>)

LEMMA PlainRow ==
  ASSUME NEW L, NEW cells, Row(cells) \in L
  PROVE  Unmarked(L, <<Row(cells)>>)
<1>1. Row(cells).mark = ""
  BY DEF Row
<1> DEFINE row == Row(cells)
<1> HIDE DEF row
<1>2. Marks(<<row>>) = {row.mark}
  BY DEF Marks
<1>3. row \in L => <<row>> \in Seq(L)
  OBVIOUS
<1> QED
  BY <1>1, <1>2, <1>3 DEF Unmarked, row

\* The dashboard reads back each of the six sections the server wrote.
LEMMA SectionsRead ==
  ASSUME HeapInv, TapeInv, NEW c
  PROVE  LET lines == GetOrderBookSnapshot(c)
         IN  /\ Section(lines, "BUY", "END_BUY") = PrintedOrders(BuyRows)
             /\ Section(lines, "SELL", "END_SELL") = PrintedOrders(SellRows)
             /\ Section(lines, "TRADES", "END_TRADES") = PrintedTrades
             /\ Section(lines, "STATS", "END_STATS") = <<StatsRow(c)>>
             /\ Section(lines, "MARKET", "END_MARKET") = <<MarketRow(c)>>
             /\ Section(lines, "DEPTH", "END_DEPTH") = GetMarketDepthSnapshot
<1> DEFINE lines == GetOrderBookSnapshot(c)
           r1 == PrintedOrders(BuyRows)
           r2 == PrintedOrders(SellRows)
           r3 == PrintedTrades
           r4 == <<StatsRow(c)>>
           r5 == <<MarketRow(c)>>
           r6 == GetMarketDepthSnapshot
           Of(rows) == {rows[i] : i \in DOMAIN rows}
           marks == {Mark("END_SNAPSHOT"), Mark("BUY"), Mark("END_BUY"), Mark("SELL"),
                     Mark("END_SELL"), Mark("TRADES"), Mark("END_TRADES"), Mark("STATS"),
                     Mark("END_STATS"), Mark("MARKET"), Mark("END_MARKET"), Mark("DEPTH"),
                     Mark("END_DEPTH")}
           L == Of(r1) \cup Of(r2) \cup Of(r3) \cup Of(r6)
                \cup {StatsRow(c), MarketRow(c)} \cup marks
<1>1. HasMarks(L)
  <2>1. HasMarks(marks)
    BY DEF HasMarks
  <2>2. marks \subseteq L
    OBVIOUS
  <2> HIDE DEF marks, L
  <2> QED
    BY <2>1, <2>2 DEF HasMarks
<1>2. /\ Of(r1) \subseteq L /\ Of(r2) \subseteq L /\ Of(r3) \subseteq L /\ Of(r6) \subseteq L
      /\ StatsRow(c) \in L /\ MarketRow(c) \in L
  <2> HIDE DEF r1, r2, r3, r6, marks
  <2> QED
    OBVIOUS
<1>3. Plain(r1) /\ Plain(r2) /\ Plain(r3) /\ Plain(r6)
  BY DrainedSides, OrdersPlain, TradesPlain, DepthPlain
<1>4. lines = Sections(r1, r2, r3, r4, r5, r6)
  BY Zenon DEF GetOrderBookSnapshot, Sections, StatsRow, MarketRow
<1> HIDE DEF L, r1, r2, r3, r6, lines
<1>5. Unmarked(L, r1) /\ Unmarked(L, r2) /\ Unmarked(L, r3) /\ Unmarked(L, r6)
  BY <1>2, <1>3, PlainIn
<1>6. Unmarked(L, r4)
  BY <1>2, PlainRow DEF StatsRow
<1>7. Unmarked(L, r5)
  BY <1>2, PlainRow DEF MarketRow
<1> HIDE DEF r4, r5
<1>8. /\ Section(lines, "BUY", "END_BUY") = r1
      /\ Section(lines, "SELL", "END_SELL") = r2
      /\ Section(lines, "TRADES", "END_TRADES") = r3
      /\ Section(lines, "STATS", "END_STATS") = r4
      /\ Section(lines, "MARKET", "END_MARKET") = r5
      /\ Section(lines, "DEPTH", "END_DEPTH") = r6
  BY <1>1, <1>4, <1>5, <1>6, <1>7, SixSections
<1> QED
  BY <1>8, Zenon DEF lines, r1, r2, r3, r4, r5, r6

\* An order table and the orders printed into it.
LEMMA TableOfOrders ==
  ASSUME NEW E, NEW rows \in Seq(E)
  PROVE  LET table == OrderRows(PrintedOrders(rows))
         IN  /\ DOMAIN table = 1 .. Len(rows) /\ Len(table) = Len(rows)
             /\ \A i \in 1 .. Len(rows) :
                  table[i] = [id |-> rows[i].id, price |-> rows[i].price,
                              qty |-> rows[i].quantity]
<1> DEFINE s == PrintedOrders(rows)
           t == OrderRows(s)
<1>1. Len(rows) \in Nat /\ DOMAIN rows = 1 .. Len(rows)
  BY LenProperties
<1>2. DOMAIN s = 1 .. Len(rows)
      /\ \A i \in 1 .. Len(rows) :
           s[i].cells = <<Cell(rows[i].id), Cell(rows[i].price), Cell(rows[i].quantity)>>
  BY <1>1 DEF PrintedOrders, Row
<1> HIDE DEF s
<1>3. DOMAIN t = 1 .. Len(rows)
      /\ \A i \in 1 .. Len(rows) :
           t[i] = [id |-> s[i].cells[1][1], price |-> s[i].cells[2][1],
                   qty |-> s[i].cells[3][1]]
  BY <1>2 DEF OrderRows
<1>4. t = [i \in 1 .. Len(rows) |-> t[i]]
  BY <1>2 DEF OrderRows
<1> HIDE DEF t
<1>5. Len(t) = Len(rows)
  BY <1>1, <1>3, <1>4
<1>6. ASSUME NEW i \in 1 .. Len(rows)
      PROVE  t[i] = [id |-> rows[i].id, price |-> rows[i].price, qty |-> rows[i].quantity]
  <2>1. /\ s[i].cells[1][1] = rows[i].id
        /\ s[i].cells[2][1] = rows[i].price
        /\ s[i].cells[3][1] = rows[i].quantity
    BY <1>2 DEF Cell
  <2> QED
    BY <1>3, <2>1
<1> QED
  BY <1>3, <1>5, <1>6 DEF s, t

-----------------------------------------------------------------------------
(* The order tables.                                                       *)

\* The orders of one side, taken from the top, are what its table should show.
LEMMA ListsSide ==
  ASSUME NEW type, NEW held, NEW rows \in Seq(held),
         ListsBut(rows, Len(rows), 0, held),
         \A o \in held : o.type = type /\ Recorded(o),
         \A o, p \in held : o.id = p.id => o = p,
         {k \in OpenIds : ledger[k].type = type} = {o.id : o \in held},
         NEW sign,
         \A i, j \in 1 .. Len(rows) : i < j => sign * rows[i].price <= sign * rows[j].price
  PROVE  Lists(OrderRows(PrintedOrders(rows)), type, sign)
<1> DEFINE table == OrderRows(PrintedOrders(rows))
           n == Len(rows)
           open == {k \in OpenIds : ledger[k].type = type}
           Shown(k) == [id |-> k, price |-> ledger[k].price,
                        qty |-> ledger[k].quantity - ledger[k].filled]
<1>1. /\ DOMAIN table = 1 .. n /\ Len(table) = n
      /\ \A i \in 1 .. n : table[i] = [id |-> rows[i].id, price |-> rows[i].price,
                                       qty |-> rows[i].quantity]
  BY TableOfOrders
<1>2. /\ n \in Nat
      /\ \A i \in 1 .. n : rows[i] \in held
      /\ \A e \in held : \E i \in 1 .. n : rows[i] = e
      /\ \A i, j \in 1 .. n : rows[i] = rows[j] => i = j
  BY DEF ListsBut
<1> HIDE DEF table, n, open
<1>3. open = {o.id : o \in held}
  BY DEF open
<1>4. \A i \in 1 .. n : table[i] = Shown(rows[i].id)
  BY <1>1, <1>2 DEF Recorded
<1>5. n = Cardinality(open)
  <2> DEFINE f == [i \in 1 .. n |-> rows[i].id]
  <2>1. \A i, j \in 1 .. n : rows[i].id = rows[j].id => i = j
    BY <1>2
  <2>2. f \in Bijection(1 .. n, open)
    <3>1. f \in [1 .. n -> open]
      BY <1>2, <1>3
    <3>2. f \in Injection(1 .. n, open)
      BY <2>1, <3>1 DEF Injection, IsInjective
    <3>3. \A k \in open : \E i \in 1 .. n : f[i] = k
      BY <1>2, <1>3
    <3> QED
      BY <3>1, <3>2, <3>3 DEF Bijection, Surjection
  <2>3. IsFiniteSet(1 .. n) /\ Cardinality(1 .. n) = n
    BY <1>2, FS_Interval
  <2> HIDE DEF f
  <2> QED
    BY <2>2, <2>3, FS_Bijection DEF ExistsBijection
<1>6. {table[i] : i \in DOMAIN table} = {Shown(k) : k \in open}
  <2>1. \A i \in 1 .. n : rows[i].id \in open
    BY <1>2, <1>3
  <2>2. \A k \in open : \E i \in 1 .. n : rows[i].id = k
    BY <1>2, <1>3
  <2> HIDE DEF Shown
  <2> QED
    BY <1>1, <1>4, <2>1, <2>2
<1>7. \A i \in 2 .. n : sign * table[i - 1].price <= sign * table[i].price
  <2>1. ASSUME NEW i \in 2 .. n
        PROVE  sign * table[i - 1].price <= sign * table[i].price
    <3>1. i - 1 \in 1 .. n /\ i \in 1 .. n /\ i - 1 < i
      BY <1>2
    <3>2. sign * rows[i - 1].price <= sign * rows[i].price
      BY <3>1 DEF n
    <3> QED
      BY <1>1, <3>1, <3>2
  <2> QED
    BY <2>1
<1> QED
  BY <1>1, <1>5, <1>6, <1>7 DEF Lists, table, open

\* The open orders of a side are the ones its queue holds.
LEMMA OpenOfSide ==
  ASSUME HeapInv
  PROVE  /\ {k \in OpenIds : ledger[k].type = "BUY"} = {o.id : o \in Buys}
         /\ {k \in OpenIds : ledger[k].type = "SELL"} = {o.id : o \in Sells}
<1>1. /\ \A o \in Buys : ledger[o.id].type = "BUY"
      /\ \A o \in Sells : ledger[o.id].type = "SELL"
  BY DEF HeapInv, SideInv, Recorded
<1>2. \A k : k \in OpenIds <=> \E o \in Buys \cup Sells : k = o.id
  BY OpenIn
<1>3. "BUY" # "SELL"
  OBVIOUS
<1> QED
  BY <1>1, <1>2, <1>3

LEMMA TablesShow ==
  ASSUME HeapInv
  PROVE  /\ Lists(OrderRows(PrintedOrders(BuyRows)), "BUY", -1)
         /\ Lists(OrderRows(PrintedOrders(SellRows)), "SELL", 1)
<1>1. /\ BuyRows \in Seq(Buys) /\ ListsBut(BuyRows, Len(BuyRows), 0, Buys)
      /\ SellRows \in Seq(Sells) /\ ListsBut(SellRows, Len(SellRows), 0, Sells)
      /\ \A i, j \in 1 .. Len(BuyRows) : i < j => BuyRows[i].price >= BuyRows[j].price
      /\ \A i, j \in 1 .. Len(SellRows) : i < j => SellRows[i].price <= SellRows[j].price
  BY DrainedSides
<1>2. /\ \A o \in Buys : o.type = "BUY" /\ Recorded(o) /\ o.price \in Int
      /\ \A o \in Sells : o.type = "SELL" /\ Recorded(o) /\ o.price \in Int
      /\ \A o, p \in Buys : o.id = p.id => o = p
      /\ \A o, p \in Sells : o.id = p.id => o = p
  BY SidePriced DEF HeapInv, SideInv, Priced
<1>3. /\ \A i \in 1 .. Len(BuyRows) : BuyRows[i].price \in Int
      /\ \A i \in 1 .. Len(SellRows) : SellRows[i].price \in Int
  BY <1>1, <1>2 DEF ListsBut
<1>4. /\ \A i, j \in 1 .. Len(BuyRows) :
           i < j => (-1) * BuyRows[i].price <= (-1) * BuyRows[j].price
      /\ \A i, j \in 1 .. Len(SellRows) :
           i < j => 1 * SellRows[i].price <= 1 * SellRows[j].price
  BY <1>1, <1>3
<1>5. Lists(OrderRows(PrintedOrders(BuyRows)), "BUY", -1)
  BY <1>1, <1>2, <1>4, OpenOfSide, ListsSide
<1>6. Lists(OrderRows(PrintedOrders(SellRows)), "SELL", 1)
  BY <1>1, <1>2, <1>4, OpenOfSide, ListsSide
<1> QED
  BY <1>5, <1>6

LEMMA ViewOfBook ==
  ASSUME HeapInv, TapeInv, NEW c
  PROVE  /\ View(c).buy = OrderRows(PrintedOrders(BuyRows))
         /\ View(c).sell = OrderRows(PrintedOrders(SellRows))
<1> DEFINE lines == GetOrderBookSnapshot(c)
<1>1. /\ View(c).buy = UpdateBuyTable(lines)
      /\ View(c).sell = UpdateSellTable(lines)
  BY DEF View
<1>2. /\ Section(lines, "BUY", "END_BUY") = PrintedOrders(BuyRows)
      /\ Section(lines, "SELL", "END_SELL") = PrintedOrders(SellRows)
  BY SectionsRead
<1> QED
  BY <1>1, <1>2, Zenon DEF UpdateBuyTable, UpdateSellTable

\* Each order table lists the orders that rest on its side with what is left of
\* them, each once, the best prices first, whatever the heaps went through and
\* however many orders there are.
THEOREM TablesListTheBook == SnapshotSpec => []TablesListBook
<1>1. HeapInv /\ TapeInv => TablesListBook
  <2> SUFFICES ASSUME HeapInv, TapeInv, NEW c \in ClientIds
               PROVE  Lists(View(c).buy, "BUY", -1) /\ Lists(View(c).sell, "SELL", 1)
    BY DEF TablesListBook
  <2> QED
    BY TablesShow, ViewOfBook, Zenon
<1> QED
  BY <1>1, SnapshotIsBook, TapeInvariant, PTL

-----------------------------------------------------------------------------
(* The totals.                                                             *)

QuantitiesOf(t) == [i \in DOMAIN t |-> t[i].quantity]

FillsOf(l) == [i \in DOMAIN l |-> l[i].filled]

\* What the trades sum up to is what the orders executed, counted twice.
TotalsInv ==
  2 * Total(QuantitiesOf(trades), DOMAIN trades) = Total(FillsOf(ledger), DOMAIN ledger)

\* A total over a sequence that grows.
LEMMA TotalAppends ==
  ASSUME NEW n \in Nat, NEW g, NEW k, \A i \in 1 .. n : g[i] \in Int /\ k[i] = g[i],
         k[n + 1] \in Int
  PROVE  /\ Total(k, 1 .. n + 1) = Total(g, 1 .. n) + k[n + 1]
         /\ Total(g, 1 .. n) \in Int
<1>1. IsFiniteSet(1 .. n) /\ IsFiniteSet(1 .. n + 1)
  BY FS_Interval
<1>2. /\ n + 1 \in 1 .. n + 1 /\ (1 .. n + 1) \ {n + 1} = 1 .. n
      /\ \A z \in 1 .. n + 1 : k[z] \in Int
      /\ \A z \in (1 .. n + 1) \ {n + 1} : k[z] = g[z]
  OBVIOUS
<1> DEFINE S == 1 .. n + 1
           R == 1 .. n
<1> HIDE DEF S, R
<1>3. Total(k, S) = Total(g, S \ {n + 1}) + k[n + 1]
  BY <1>1, <1>2, TotalGrows DEF S
<1>4. \A z \in R : g[z] \in Int
  BY DEF R
<1>5. Total(g, R) \in Int
  BY <1>1, <1>4, TotalType DEF R
<1> QED
  BY <1>2, <1>3, <1>5 DEF S, R

LEMMA FillsAre ==
  ASSUME ledger \in Seq(LedgerLine)
  PROVE  /\ DOMAIN ledger = 1 .. Len(ledger) /\ Len(ledger) \in Nat
         /\ DOMAIN FillsOf(ledger) = DOMAIN ledger
         /\ \A i \in 1 .. Len(ledger) : FillsOf(ledger)[i] = ledger[i].filled
                                        /\ ledger[i].filled \in Int
<1>1. DOMAIN ledger = 1 .. Len(ledger) /\ Len(ledger) \in Nat
  BY LenProperties
<1>2. \A i \in 1 .. Len(ledger) : ledger[i] \in LedgerLine
  BY ElementOfSeq
<1> QED
  BY <1>1, <1>2 DEF FillsOf, LedgerLine

LEMMA QuantitiesAre ==
  ASSUME TapeInv
  PROVE  /\ DOMAIN trades = 1 .. Len(trades) /\ Len(trades) \in Nat
         /\ DOMAIN QuantitiesOf(trades) = DOMAIN trades
         /\ \A i \in 1 .. Len(trades) : QuantitiesOf(trades)[i] = trades[i].quantity
                                        /\ trades[i].quantity \in Int
<1>1. DOMAIN trades = 1 .. Len(trades) /\ Len(trades) \in Nat
  BY LenProperties DEF TapeInv
<1>2. \A i \in 1 .. Len(trades) : trades[i] \in Trade
  BY ElementOfSeq DEF TapeInv
<1> QED
  BY <1>1, <1>2 DEF QuantitiesOf, Trade

LEMMA TradeCounts ==
  ASSUME HeapInv, TapeInv, TotalsInv,
         NEW b \in Buys, NEW s \in Sells, NEW q \in Int, Trades(b, s, q)
  PROVE  TotalsInv'
<1>1. /\ b.id # s.id /\ b.id \in DOMAIN ledger /\ s.id \in DOMAIN ledger
      /\ ledger' \in Seq(LedgerLine) /\ Len(ledger') = Len(ledger)
      /\ DOMAIN ledger' = DOMAIN ledger
      /\ \A i \in DOMAIN ledger :
           ledger'[i] = IF i \in {b.id, s.id}
                        THEN [ledger[i] EXCEPT !.filled = ledger[i].filled + q]
                        ELSE ledger[i]
  BY TradeRecords
<1>2. ledger \in Seq(LedgerLine)
  BY DEF HeapInv
<1> DEFINE S == DOMAIN ledger
           g == FillsOf(ledger)
           k == FillsOf(ledger')
           h == [i \in S |-> IF i = b.id THEN g[i] + q ELSE g[i]]
<1>3. IsFiniteSet(S) /\ b.id \in S /\ s.id \in S /\ \A i \in S : g[i] \in Int
  <2>1. S = 1 .. Len(ledger) /\ Len(ledger) \in Nat
    BY <1>2, FillsAre
  <2>2. \A i \in S : g[i] \in Int
    BY <1>2, FillsAre
  <2> HIDE DEF S, g
  <2>3. IsFiniteSet(S)
    BY <2>1, FS_Interval
  <2> QED
    BY <1>1, <2>2, <2>3 DEF S
<1>4. \A i \in S : k[i] = IF i = s.id THEN h[i] + q ELSE h[i]
  <2>1. \A i \in S : k[i] = ledger'[i].filled /\ g[i] = ledger[i].filled
    BY <1>1 DEF FillsOf
  <2>2. \A i \in S : ledger[i] \in LedgerLine
    BY <1>2, ElementOfSeq, LenProperties
  <2>3. \A i \in S : [ledger[i] EXCEPT !.filled = ledger[i].filled + q].filled
                       = ledger[i].filled + q
    BY <2>2 DEF LedgerLine
  <2>4. ASSUME NEW i \in S
        PROVE  k[i] = IF i \in {b.id, s.id} THEN g[i] + q ELSE g[i]
    <3> HIDE DEF g, k, h
    <3>1. CASE i \in {b.id, s.id}
      <4>1. ledger'[i] = [ledger[i] EXCEPT !.filled = ledger[i].filled + q]
        BY <1>1, <3>1
      <4> QED
        BY <2>1, <2>3, <3>1, <4>1
    <3>2. CASE ~(i \in {b.id, s.id})
      BY <1>1, <2>1, <3>2
    <3> QED
      BY <3>1, <3>2
  <2> HIDE DEF g, k, S
  <2> QED
    BY <1>1, <2>4
<1>5. \A i \in S : h[i] \in Int /\ h[i] = IF i = b.id THEN g[i] + q ELSE g[i]
  <2> HIDE DEF g
  <2> QED
    BY <1>3
<1> HIDE DEF S, g, h, k
<1>6. Total(h, S) = Total(g, S) + q
  BY <1>3, <1>5, TotalMoves
<1>7. Total(k, S) = Total(h, S) + q
  BY <1>3, <1>4, <1>5, TotalMoves
<1>8. Total(g, S) \in Int
  BY <1>3, TotalType
<1>9. Total(k, S) = Total(g, S) + 2 * q
  BY <1>6, <1>7, <1>8
\* One more trade.
<1> DEFINE n == Len(trades)
           t == QuantitiesOf(trades)
           u == QuantitiesOf(trades')
<1>10. /\ trades' = Append(trades, [price |-> s.price, quantity |-> q])
       /\ s.price \in Int
  BY DEF Trades, HeapInv, SideInv, Recorded, BookedOrder
<1>11. /\ n \in Nat /\ DOMAIN trades = 1 .. n
       /\ \A i \in 1 .. n : t[i] = trades[i].quantity /\ t[i] \in Int
  BY QuantitiesAre
<1>12. /\ DOMAIN trades' = 1 .. n + 1
       /\ \A i \in 1 .. n : trades'[i] = trades[i]
       /\ trades'[n + 1].quantity = q
  BY <1>10, <1>11 DEF TapeInv
<1>13. \A i \in 1 .. n + 1 : u[i] = trades'[i].quantity
  BY <1>12 DEF QuantitiesOf
<1> HIDE DEF n, t, u
<1>14. (\A i \in 1 .. n : t[i] \in Int /\ u[i] = t[i]) /\ u[n + 1] = q
  BY <1>11, <1>12, <1>13
<1>15. Total(u, 1 .. n + 1) = Total(t, 1 .. n) + q /\ Total(t, 1 .. n) \in Int
  BY <1>11, <1>14, TotalAppends
<1>16. 2 * Total(t, 1 .. n) = Total(g, S)
  BY <1>11 DEF TotalsInv, t, n, g, S
<1>17. 2 * Total(u, 1 .. n + 1) = Total(k, S)
  BY <1>8, <1>9, <1>15, <1>16
<1> QED
  BY <1>1, <1>12, <1>17, Zenon DEF TotalsInv, u, k, S

LEMMA TotalsInvariant == Spec => [](HeapInv /\ TapeInv /\ TotalsInv)
<1>1. Init => TotalsInv
  <2> SUFFICES ASSUME Init PROVE TotalsInv
    OBVIOUS
  <2>1. DOMAIN trades = {} /\ DOMAIN ledger = {}
    BY DEF Init
  <2>2. IsFiniteSet({})
    BY FS_EmptySet
  <2>3. Total(QuantitiesOf(trades), {}) = 0 /\ Total(FillsOf(ledger), {}) = 0
    BY <2>2, TotalUnfolds
  <2> QED
    BY <2>1, <2>3 DEF TotalsInv
<1>2. HeapInv /\ TapeInv /\ TotalsInv /\ [Next]_vars => TotalsInv'
  <2> SUFFICES ASSUME HeapInv, TapeInv, TotalsInv, [Next]_vars PROVE TotalsInv'
    OBVIOUS
  <2>1. CASE MatchOrders
    <3>1. PICK b \in Buys, s \in Sells, q \in Int : Trades(b, s, q)
      BY <2>1, TradeEffect
    <3> QED
      BY <3>1, TradeCounts
  <2>2. CASE UNCHANGED <<trades, ledger>>
    BY <2>2 DEF TotalsInv
  <2>3. ASSUME NEW c \in ClientIds, NEW type \in OrderType,
               NEW price \in Prices, NEW quantity \in Quantities,
               AddOrder(c, type, price, quantity)
        PROVE  TotalsInv'
    <3>1. PICK order, line : Adds(order, line) /\ line.filled = 0 /\ trades' = trades
      <4> DEFINE line == [clientId |-> c, type |-> type, price |-> price,
                          quantity |-> quantity, filled |-> 0]
      <4>1. line.filled = 0
        OBVIOUS
      <4> QED
        BY <2>3, <4>1, AddEffect
    <3>2. /\ ledger \in Seq(LedgerLine) /\ Len(ledger) \in Nat
          /\ DOMAIN ledger = 1 .. Len(ledger) /\ DOMAIN ledger' = 1 .. Len(ledger) + 1
          /\ \A i \in DOMAIN ledger : ledger'[i] = ledger[i]
          /\ ledger'[Len(ledger) + 1] = line
      BY <3>1, AddRecords, LenProperties DEF HeapInv, Adds
    <3> DEFINE g == FillsOf(ledger)
               k == FillsOf(ledger')
               n == Len(ledger)
    <3>3. \A i \in 1 .. n : g[i] = ledger[i].filled /\ g[i] \in Int
      BY <3>2, FillsAre
    <3>4. \A i \in 1 .. n + 1 : k[i] = ledger'[i].filled
      BY <3>2 DEF FillsOf
    <3> HIDE DEF g, k
    <3>5. /\ \A i \in 1 .. n : g[i] \in Int /\ k[i] = g[i]
          /\ k[n + 1] = 0
      BY <3>1, <3>2, <3>3, <3>4
    <3> HIDE DEF n
    <3>6. n \in Nat /\ DOMAIN ledger = 1 .. n /\ DOMAIN ledger' = 1 .. n + 1
      BY <3>2 DEF n
    <3>8. k[n + 1] \in Int
      BY <3>5
    <3>9. Total(k, 1 .. n + 1) = Total(g, 1 .. n) + k[n + 1] /\ Total(g, 1 .. n) \in Int
      BY <3>5, <3>6, <3>8, TotalAppends
    <3>7. Total(k, DOMAIN ledger') = Total(g, DOMAIN ledger)
      BY <3>5, <3>6, <3>9
    <3> QED
      BY <3>1, <3>7 DEF TotalsInv, g, k
  <2>4. MatchOrders \/ UNCHANGED <<trades, ledger>>
        \/ \E c \in ClientIds, type \in OrderType, price \in Prices, quantity \in Quantities :
             AddOrder(c, type, price, quantity)
    BY DEF Next, EndMatch, CancelOrder, vars
  <2> QED
    BY <2>1, <2>2, <2>3, <2>4
<1> QED
  BY <1>1, <1>2, TapeInvariant, BookInvariant, PTL DEF Spec

LEMMA FirstRowOf ==
  ASSUME NEW lines, NEW begin, NEW end, NEW cells, Section(lines, begin, end) = <<Row(cells)>>
  PROVE  FirstRow(lines, begin, end) = cells
<1> DEFINE row == Row(cells)
<1>1. row.cells = cells
  BY DEF Row
<1> HIDE DEF row
<1>2. Head(<<row>>) = row
  OBVIOUS
<1> QED
  BY <1>1, <1>2 DEF FirstRow, row

LEMMA StatsShow ==
  ASSUME HeapInv, TapeInv, NEW c
  PROVE  /\ View(c).stats.totalTrades = GetTotalTrades
         /\ View(c).stats.totalVolume = GetTotalVolume
         /\ View(c).stats.vwap = GetVWAP
<1> DEFINE lines == GetOrderBookSnapshot(c)
           a == GetTotalTrades
           v == GetTotalVolume
           w == GetVWAP
           p == GetAveragePrice(c)
           row == <<Cell(a), Cell(v), Cell(w), Cell(p)>>
<1>1. View(c).stats = UpdateStats(lines)
  BY DEF View
<1>2. Section(lines, "STATS", "END_STATS") = <<Row(row)>>
  BY SectionsRead, Zenon DEF StatsRow
<1> HIDE DEF lines, a, v, w, p
<1>3. FirstRow(lines, "STATS", "END_STATS") = row
  BY <1>2, FirstRowOf
<1>4. row[1][1] = a /\ row[2][1] = v /\ row[3][1] = w
  BY DEF Cell
<1> HIDE DEF row
<1> QED
  BY <1>1, <1>3, <1>4 DEF UpdateStats, a, v, w

\* The trade table is the end of the tape.
LEMMA TradesShow ==
  ASSUME HeapInv, TapeInv, NEW c
  PROVE  /\ Len(View(c).trades) = Len(RecentTrades)
         /\ \A i \in 1 .. Len(RecentTrades) :
              View(c).trades[i].price = RecentTrades[i].price
<1> DEFINE lines == GetOrderBookSnapshot(c)
           n == Len(RecentTrades)
           rows == PrintedTrades
           table == View(c).trades
<1>1. table = UpdateTradeTable(lines)
  BY DEF View
<1>2. Section(lines, "TRADES", "END_TRADES") = rows
  BY SectionsRead, Zenon
<1>3. n \in Nat /\ DOMAIN RecentTrades = 1 .. n
  BY WindowOfTape, LenProperties
<1>4. /\ DOMAIN rows = 1 .. n
      /\ \A i \in 1 .. n : rows[i].cells[1][1] = RecentTrades[i].price
  <2>1. \A i \in 1 .. n : rows[i].cells = <<Cell(RecentTrades[i].price),
                                             Cell(RecentTrades[i].quantity)>>
    BY <1>3 DEF PrintedTrades, Row
  <2>2. \A x, y : <<Cell(x), Cell(y)>>[1][1] = x
    BY DEF Cell
  <2> HIDE DEF rows
  <2>3. DOMAIN rows = 1 .. n
    BY <1>3 DEF PrintedTrades, rows
  <2> QED
    BY <2>1, <2>2, <2>3
<1> HIDE DEF rows, lines, n, table
<1>5. table = [i \in 1 .. n |-> [price |-> rows[i].cells[1][1], qty |-> rows[i].cells[2][1]]]
  BY <1>1, <1>2, <1>4 DEF UpdateTradeTable
<1>6. Len(table) = n
  BY <1>3, <1>5
<1>7. \A i \in 1 .. n : table[i].price = RecentTrades[i].price
  BY <1>4, <1>5
<1> QED
  BY <1>6, <1>7 DEF table, n

\* The totals a dashboard shows count the whole tape, every execution once for
\* the buyer and once for the seller, and its trade table is the end of the
\* tape, for orders of any quantity: each total as long as its int can count it.
THEOREM TotalsCount == SnapshotSpec => []TotalsCountTheTape
<1>1. HeapInv /\ TapeInv /\ TotalsInv => TotalsCountTheTape
  <2> SUFFICES ASSUME HeapInv, TapeInv, TotalsInv, NEW c \in ClientIds
               PROVE  LET view == View(c)
                      IN  /\ Fits(Len(trades)) => view.stats.totalTrades = Len(trades)
                          /\ Fits(Volume) =>
                               2 * view.stats.totalVolume =
                                 SumFunction([i \in DOMAIN ledger |-> ledger[i].filled])
                          /\ \A i \in 0 .. Len(view.trades) - 1 :
                               view.trades[Len(view.trades) - i].price
                                 = trades[Len(trades) - i].price
                          /\ Len(view.trades) = Min({TradeWindow, Len(trades)})
    BY DEF TotalsCountTheTape
  <2> DEFINE view == View(c)
  <2>1. /\ Fits(Len(trades)) => view.stats.totalTrades = Len(trades)
        /\ Fits(Volume) => view.stats.totalVolume = Volume
    BY StatsShow DEF Fits, GetTotalTrades, GetTotalVolume
  <2>2. Volume = Total(QuantitiesOf(trades), DOMAIN trades)
    BY SumIsTotal, QuantitiesAre DEF Volume, QuantitiesOf
  <2>3. SumFunction([i \in DOMAIN ledger |-> ledger[i].filled])
          = Total(FillsOf(ledger), DOMAIN ledger)
    BY SumIsTotal, FillsAre DEF FillsOf, HeapInv
  <2>4. Fits(Volume) =>
          2 * view.stats.totalVolume = SumFunction([i \in DOMAIN ledger |-> ledger[i].filled])
    BY <2>1, <2>2, <2>3, Zenon DEF TotalsInv
  <2> DEFINE n == Len(trades)
             m == Len(RecentTrades)
             table == view.trades
  <2>5. /\ n \in Nat /\ m \in Nat
        /\ m = IF n <= TradeWindow THEN n ELSE TradeWindow
        /\ \A i \in 1 .. m : RecentTrades[i] = trades[n - m + i]
    BY WindowOfTape, LenProperties
  <2>6. Len(table) = m /\ \A i \in 1 .. m : table[i].price = RecentTrades[i].price
    BY TradesShow
  <2> HIDE DEF view, n, m, table
  <2>7. ASSUME NEW i \in 0 .. m - 1
        PROVE  table[m - i].price = trades[n - i].price
    <3>1. m - i \in 1 .. m /\ n - m + (m - i) = n - i
      BY <2>5
    <3> QED
      BY <2>5, <2>6, <3>1
  <2>8. m = Min({TradeWindow, n})
    BY <2>5, LesserOf, WindowAssumption
  <2> QED
    BY <2>1, <2>4, <2>6, <2>7, <2>8 DEF view, n, m, table
<1> QED
  BY <1>1, SnapshotIsBook, TotalsInvariant, PTL

-----------------------------------------------------------------------------
(* The average price.                                                      *)

\* A nonempty tape has a lowest and a highest price.
LEMMA TradedBetween ==
  ASSUME TapeInv, trades # <<>>
  PROVE  LET traded == {trades[i].price : i \in DOMAIN trades}
         IN  /\ Min(traded) \in Int /\ Max(traded) \in Int
             /\ \A i \in DOMAIN trades : /\ trades[i].price \in Int
                                         /\ Min(traded) <= trades[i].price
                                         /\ trades[i].price <= Max(traded)
<1> DEFINE traded == {trades[i].price : i \in DOMAIN trades}
           f == [i \in DOMAIN trades |-> trades[i].price]
<1>1. /\ DOMAIN trades = 1 .. Len(trades) /\ Len(trades) \in Nat /\ Len(trades) > 0
      /\ \A i \in 1 .. Len(trades) : trades[i].price \in Int
  <2>1. \A i \in 1 .. Len(trades) : trades[i] \in Trade
    BY ElementOfSeq DEF TapeInv
  <2> QED
    BY <2>1, LenProperties, EmptySeq DEF TapeInv, Trade
<1>2. IntegersOnly(traded) /\ traded # {}
  BY <1>1 DEF IntegersOnly
<1>3. IsFiniteSet(traded)
  <2>1. f \in Surjection(DOMAIN trades, traded)
    BY DEF Surjection
  <2>2. IsFiniteSet(DOMAIN trades)
    BY <1>1, FS_Interval
  <2> HIDE DEF f, traded
  <2> QED
    BY <2>1, <2>2, FS_Surjection
<1>4. \A i \in DOMAIN trades : trades[i].price \in traded
  OBVIOUS
<1> HIDE DEF traded
<1>5. /\ Min(traded) \in traded /\ \A p \in traded : Min(traded) <= p
      /\ Max(traded) \in traded /\ \A p \in traded : p <= Max(traded)
  BY <1>2, <1>3, ExtremesOf
<1> QED
  BY <1>1, <1>2, <1>4, <1>5 DEF traded

\* The average price lies between the lowest and the highest price traded, for
\* orders of any quantity: while no execution was of a negative one and the
\* volume fits its int, and but for a tape of executions of quantity 0 only.
THEOREM VwapIsAnAverage == SnapshotSpec => []VwapWithinPrices
<1>1. HeapInv /\ TapeInv => VwapWithinPrices
  <2> SUFFICES ASSUME HeapInv, TapeInv, trades # <<>>,
                      \A i \in DOMAIN trades : trades[i].quantity >= 0,
                      Fits(Volume), NEW c \in ClientIds
               PROVE  LET vwap == View(c).stats.vwap
                          traded == {trades[i].price : i \in DOMAIN trades}
                      IN  IF Volume > 0
                          THEN AtLeast(vwap, Min(traded)) /\ AtMost(vwap, Max(traded))
                          ELSE vwap = [num |-> 0, den |-> 0]
    BY DEF VwapWithinPrices
  <2> DEFINE traded == {trades[i].price : i \in DOMAIN trades}
             vwap == View(c).stats.vwap
             lo == Min(traded)
             hi == Max(traded)
             S == DOMAIN trades
             g == QuantitiesOf(trades)
             k == [i \in S |-> trades[i].price * trades[i].quantity]
             low == [i \in S |-> lo * g[i]]
             high == [i \in S |-> hi * g[i]]
             v == Total(g, S)
             paid == Total(k, S)
  <2>1. /\ IsFiniteSet(S)
        /\ \A i \in S : g[i] = trades[i].quantity /\ g[i] \in Nat
    <3>1. /\ S = 1 .. Len(trades) /\ Len(trades) \in Nat
          /\ \A i \in S : g[i] = trades[i].quantity /\ g[i] \in Int
      BY QuantitiesAre
    <3>2. IsFiniteSet(S)
      BY <3>1, FS_Interval
    <3> QED
      BY <3>1, <3>2
  <2>2. /\ lo \in Int /\ hi \in Int
        /\ \A i \in S : /\ trades[i].price \in Int
                        /\ lo <= trades[i].price /\ trades[i].price <= hi
    BY TradedBetween
  <2>3. vwap = GetVWAP
    BY StatsShow
  <2>4. Volume = v /\ AsInt(Volume) = v
    BY SumIsTotal, QuantitiesAre DEF Volume, QuantitiesOf, Fits
  <2>5. SumFunction(k) = paid
    BY SumIsTotal
  <2>6. vwap = DividedBy(Whole(paid), v)
    BY <2>3, <2>4, <2>5, Zenon DEF GetVWAP
  <2> HIDE DEF lo, hi, vwap, S, g
  <2>7. \A i \in S : k[i] = trades[i].price * g[i] /\ k[i] \in Int
    BY <2>1, <2>2
  <2>8. \A i \in S : low[i] = lo * g[i] /\ low[i] \in Int
    BY <2>1, <2>2
  <2>9. \A i \in S : high[i] = hi * g[i] /\ high[i] \in Int
    BY <2>1, <2>2
  <2> HIDE DEF k, low, high
  <2>10. v \in Nat
    BY <2>1, TotalNatural
  <2>11. Total(low, S) = lo * v /\ Total(high, S) = hi * v
    <3>1. IsFiniteSet(S) /\ \A i \in S : g[i] \in Int
      BY <2>1
    <3> HIDE DEF v
    <3>2. Total(low, S) = lo * v
      BY <2>2, <2>8, <3>1, TotalScaled DEF v
    <3>3. Total(high, S) = hi * v
      BY <2>2, <2>9, <3>1, TotalScaled DEF v
    <3> QED
      BY <3>2, <3>3
  <2>12. \A i \in S : low[i] <= k[i] /\ k[i] <= high[i]
    <3>1. \A x, y \in Int : \A n \in Nat : x <= y => x * n <= y * n
      OBVIOUS
    <3> QED
      BY <2>1, <2>2, <2>7, <2>8, <2>9, <3>1
  <2>13. Total(low, S) <= paid /\ paid <= Total(high, S)
    BY <2>1, <2>7, <2>8, <2>9, <2>12, TotalOrdered
  <2>14. paid \in Int
    BY <2>1, <2>7, TotalType
  <2> HIDE DEF v, paid
  <2>15. vwap = [num |-> paid, den |-> v]
    BY <2>6, <2>10 DEF DividedBy, Whole
  <2>16. CASE v > 0
    BY <2>2, <2>4, <2>11, <2>13, <2>14, <2>15, <2>16 DEF AtLeast, AtMost, lo, hi, vwap
  <2>17. CASE v = 0
    <3>1. paid = 0
      BY <2>2, <2>11, <2>13, <2>14, <2>17
    <3> QED
      BY <2>4, <2>15, <2>17, <3>1 DEF vwap
  <2> QED
    BY <2>10, <2>16, <2>17
<1> QED
  BY <1>1, SnapshotIsBook, TapeInvariant, PTL

-----------------------------------------------------------------------------
(* The levels of one side.                                                 *)

Before(P, sign, p) == {q \in P : sign * q < sign * p}

\* The price at level i.
NthPrice(P, sign, i) == CHOOSE p \in P : Cardinality(Before(P, sign, p)) = i - 1

LEMMA Ranks ==
  ASSUME NEW P, IsFiniteSet(P), IntegersOnly(P), NEW sign \in {1, -1}
  PROVE  /\ Cardinality(P) \in Nat
         /\ \A p \in P : Cardinality(Before(P, sign, p)) + 1 \in 1 .. Cardinality(P)
         /\ \A i \in 1 .. Cardinality(P) :
              /\ NthPrice(P, sign, i) \in P
              /\ Cardinality(Before(P, sign, NthPrice(P, sign, i))) = i - 1
         /\ \A p \in P : NthPrice(P, sign, Cardinality(Before(P, sign, p)) + 1) = p
<1> DEFINE n == Cardinality(P)
           B(p) == Before(P, sign, p)
           R(p) == Cardinality(B(p))
           f == [p \in P |-> R(p) + 1]
<1>1. n \in Nat
  BY FS_CardinalityType
<1>2. ASSUME NEW p \in P
      PROVE  R(p) \in Nat /\ R(p) < n
  <2>1. B(p) \in SUBSET P /\ p \notin B(p)
    BY DEF Before, IntegersOnly
  <2> HIDE DEF B
  <2>2. IsFiniteSet(B(p)) /\ Cardinality(B(p)) <= n /\ (n = Cardinality(B(p)) => P = B(p))
    BY <2>1, FS_Subset
  <2>3. Cardinality(B(p)) \in Nat
    BY <2>2, FS_CardinalityType
  <2> QED
    BY <1>1, <2>1, <2>2, <2>3
<1>3. ASSUME NEW p \in P, NEW q \in P, sign * p < sign * q
      PROVE  R(p) < R(q)
  <2>1. p \in Int /\ q \in Int /\ \A r \in P : r \in Int
    BY DEF IntegersOnly
  <2>2. B(p) \subseteq B(q)
    <3>1. \A r \in P : sign * r \in Int
      BY <2>1
    <3>2. \A r \in P : sign * r < sign * p => sign * r < sign * q
      BY <1>3, <3>1
    <3> QED
      BY <3>2 DEF Before
  <2>3. p \in B(q) /\ p \notin B(p)
    BY <1>3, <2>1 DEF Before
  <2>4. B(q) \subseteq P
    BY DEF Before
  <2> HIDE DEF B
  <2>5. IsFiniteSet(B(q))
    BY <2>4, FS_Subset
  <2>6. Cardinality(B(p)) <= Cardinality(B(q))
        /\ (Cardinality(B(q)) = Cardinality(B(p)) => B(q) = B(p))
    BY <2>2, <2>5, FS_Subset
  <2>7. R(p) \in Nat /\ R(q) \in Nat
    BY <1>2
  <2> QED
    BY <2>3, <2>6, <2>7
<1> HIDE DEF B, n
<1>4. ASSUME NEW p \in P, NEW q \in P, R(p) = R(q)
      PROVE  p = q
  <2>1. p \in Int /\ q \in Int /\ sign \in Int
    BY DEF IntegersOnly
  <2>2. ~(R(p) < R(q)) /\ ~(R(q) < R(p))
    BY <1>2, <1>4
  <2>3. ~(sign * p < sign * q) /\ ~(sign * q < sign * p)
    BY <1>3, <2>2
  <2> HIDE DEF R
  <2> QED
    BY <2>1, <2>3
<1>5. \A p \in P : f[p] = R(p) + 1 /\ R(p) + 1 \in 1 .. n
  BY <1>1, <1>2
<1>6. f \in Injection(P, 1 .. n)
  <2>1. f \in [P -> 1 .. n]
    BY <1>5
  <2>2. \A p, q \in P : f[p] = f[q] => p = q
    BY <1>2, <1>4, <1>5
  <2> HIDE DEF f
  <2> QED
    BY <2>1, <2>2 DEF Injection, IsInjective
<1>7. f \in Surjection(P, 1 .. n)
  <2>1. IsFiniteSet(1 .. n) /\ Cardinality(1 .. n) = n
    BY <1>1, FS_Interval
  <2> HIDE DEF f
  <2> QED
    BY <1>6, <2>1, FS_Injection DEF n
<1>8. \A i \in 1 .. n : \E p \in P : R(p) = i - 1
  <2>1. ASSUME NEW i \in 1 .. n PROVE \E p \in P : R(p) = i - 1
    <3>1. PICK p \in P : f[p] = i
      BY <1>7 DEF Surjection
    <3>2. R(p) \in Nat /\ R(p) + 1 = i
      BY <1>2, <1>5, <3>1
    <3> HIDE DEF R
    <3> QED
      BY <1>1, <3>2
  <2> QED
    BY <2>1
<1>9. ASSUME NEW i \in 1 .. n
      PROVE  NthPrice(P, sign, i) \in P /\ R(NthPrice(P, sign, i)) = i - 1
  BY <1>8, Zenon DEF NthPrice, B
<1>10. ASSUME NEW p \in P
       PROVE  NthPrice(P, sign, R(p) + 1) = p
  <2>1. PICK r \in Nat : r = R(p) /\ r < n
    BY <1>2
  <2> DEFINE q == NthPrice(P, sign, r + 1)
  <2>2. r + 1 \in 1 .. n /\ (r + 1) - 1 = r
    BY <1>1, <2>1
  <2>3. q \in P /\ R(q) = (r + 1) - 1
    <3> HIDE DEF R
    <3> QED
      BY <1>9, <2>2
  <2> HIDE DEF q, R
  <2>4. q = p
    BY <1>4, <2>1, <2>2, <2>3
  <2> QED
    BY <2>1, <2>4 DEF q
<1> QED
  BY <1>1, <1>5, <1>9, <1>10 DEF n, B

PricesOf(E) == {o.price : o \in E}

AtPrice(E, p) == {o \in E : o.price = p}

\* What rests on a side at one price.
LevelSum(E, p) == SumFunction([o \in AtPrice(E, p) |-> o.quantity])

\* A side holds finitely many orders, at finitely many prices.
LEMMA FiniteSide ==
  ASSUME NEW type, NEW queue, NEW E, SideInv(type, queue, E)
  PROVE  /\ IsFiniteSet(E) /\ IsFiniteSet(PricesOf(E)) /\ IntegersOnly(PricesOf(E))
         /\ \A o \in E : o.price \in Int /\ o.quantity \in Int
<1>1. \A o \in E : o.price \in Int /\ o.quantity \in Int
  BY DEF SideInv, Recorded, BookedOrder
<1>2. /\ queue \in Seq(E) /\ Len(queue) \in Nat /\ DOMAIN queue = 1 .. Len(queue)
      /\ \A i \in 1 .. Len(queue) : queue[i] \in E
      /\ \A e \in E : \E i \in 1 .. Len(queue) : queue[i] = e
  BY LenProperties DEF SideInv, IsHeap, ListsBut
<1>3. IsFiniteSet(E)
  <2>1. queue \in [1 .. Len(queue) -> E]
    BY <1>2, LenProperties
  <2>2. queue \in Surjection(1 .. Len(queue), E)
    BY <1>2, <2>1 DEF Surjection
  <2>3. IsFiniteSet(1 .. Len(queue))
    BY <1>2, FS_Interval
  <2> QED
    BY <2>2, <2>3, FS_Surjection
<1>4. IsFiniteSet(PricesOf(E))
  <2> DEFINE f == [o \in E |-> o.price]
  <2>1. f \in Surjection(E, PricesOf(E))
    BY DEF Surjection, PricesOf
  <2> HIDE DEF f
  <2> QED
    BY <1>3, <2>1, FS_Surjection
<1> QED
  BY <1>1, <1>3, <1>4 DEF IntegersOnly, PricesOf

LEMMA LevelsAre ==
  ASSUME NEW queue, NEW E, ToSet(queue) = E, NEW sign
  PROVE  /\ DOMAIN Levels(queue, sign) = 1 .. Cardinality(PricesOf(E))
         /\ \A i \in 1 .. Cardinality(PricesOf(E)) :
              /\ Levels(queue, sign)[i][1] = NthPrice(PricesOf(E), sign, i)
              /\ Levels(queue, sign)[i][2] = LevelQty(E, NthPrice(PricesOf(E), sign, i))
<1>1. Levels(queue, sign) =
        [i \in 1 .. Cardinality(PricesOf(E)) |->
           <<NthPrice(PricesOf(E), sign, i), LevelQty(E, NthPrice(PricesOf(E), sign, i))>>]
  <2> DEFINE F == ToSet(queue)
  <2>1. Levels(queue, sign) =
          [i \in 1 .. Cardinality(PricesOf(F)) |->
             <<NthPrice(PricesOf(F), sign, i), LevelQty(F, NthPrice(PricesOf(F), sign, i))>>]
    BY DEF Levels, PricesOf, NthPrice, Before
  <2> HIDE DEF F
  <2>2. F = E
    BY DEF F
  <2> QED
    BY <2>1, <2>2
<1> DEFINE nth(i) == NthPrice(PricesOf(E), sign, i)
           qty(i) == LevelQty(E, nth(i))
<1>2. Levels(queue, sign) = [i \in 1 .. Cardinality(PricesOf(E)) |-> <<nth(i), qty(i)>>]
  BY <1>1, Zenon
<1> HIDE DEF nth, qty
<1>3. /\ DOMAIN Levels(queue, sign) = 1 .. Cardinality(PricesOf(E))
      /\ \A i \in 1 .. Cardinality(PricesOf(E)) :
           /\ Levels(queue, sign)[i][1] = nth(i)
           /\ Levels(queue, sign)[i][2] = qty(i)
  BY <1>2
<1> QED
  BY <1>3 DEF nth, qty

\* A level of the depth table shows what rests at its price.
LEMMA LevelAdds ==
  ASSUME NEW E, IsFiniteSet(E), IsFiniteSet(PricesOf(E)), IntegersOnly(PricesOf(E)),
         \A o \in E : o.quantity \in Int,
         NEW sign \in {1, -1}, NEW p, LevelQty(E, p) = LevelSum(E, p), NEW g, NEW I,
         \A i : i \in I <=> /\ i \in 1 .. Cardinality(PricesOf(E))
                            /\ NthPrice(PricesOf(E), sign, i) = p,
         \A i \in I : g[i] = LevelQty(E, p)
  PROVE  Total(g, I) = LevelSum(E, p)
<1> DEFINE P == PricesOf(E)
           S == AtPrice(E, p)
           w == [o \in S |-> o.quantity]
<1>1. /\ Cardinality(P) \in Nat
      /\ \A q \in P : Cardinality(Before(P, sign, q)) + 1 \in 1 .. Cardinality(P)
      /\ \A i \in 1 .. Cardinality(P) :
           /\ NthPrice(P, sign, i) \in P
           /\ Cardinality(Before(P, sign, NthPrice(P, sign, i))) = i - 1
      /\ \A q \in P : NthPrice(P, sign, Cardinality(Before(P, sign, q)) + 1) = q
  BY Ranks
<1>2. LevelSum(E, p) = Total(w, S)
  BY SumIsTotal DEF LevelSum
<1>3. IsFiniteSet(S) /\ \A o \in S : w[o] \in Int
  <2>1. S \subseteq E
    BY DEF AtPrice
  <2> HIDE DEF S
  <2> QED
    BY <2>1, FS_Subset
<1>4. LevelSum(E, p) \in Int
  <2> HIDE DEF S, w
  <2> QED
    BY <1>2, <1>3, TotalType
<1>5. CASE p \in P
  <2> DEFINE j == Cardinality(Before(P, sign, p)) + 1
  <2>1. j \in 1 .. Cardinality(P) /\ NthPrice(P, sign, j) = p
    BY <1>1, <1>5
  <2>2. Cardinality(Before(P, sign, p)) = j - 1
    <3>1. Cardinality(Before(P, sign, NthPrice(P, sign, j))) = j - 1
      <4> HIDE DEF j
      <4> QED
        BY <1>1, <2>1
    <3> HIDE DEF j
    <3> QED
      BY <2>1, <3>1
  <2> HIDE DEF j, P
  <2>3. \A i \in 1 .. Cardinality(P) : NthPrice(P, sign, i) = p => i = j
    BY <1>1, <2>1, <2>2
  <2>4. I = {j}
    BY <2>1, <2>3 DEF P
  <2>5. IsFiniteSet(I) /\ IsFiniteSet({}) /\ I # {} /\ Picked(I) = j
    BY <2>4, FS_Singleton, FS_EmptySet DEF Picked
  <2>6. Total(g, I) = g[j] + Total(g, I \ {j}) /\ Total(g, {}) = 0
    BY <2>5, TotalUnfolds
  <2>7. I \ {j} = {} /\ g[j] = LevelSum(E, p)
    BY <2>4
  <2> QED
    BY <1>4, <2>6, <2>7
<1>6. CASE p \notin P
  <2>1. I = {}
    <3> HIDE DEF P
    <3> QED
      BY <1>1, <1>6 DEF P
  <2>2. S = {}
    BY <1>6 DEF PricesOf, AtPrice
  <2>3. IsFiniteSet({})
    BY FS_EmptySet
  <2>4. Total(g, {}) = 0 /\ Total(w, {}) = 0
    BY <2>3, TotalUnfolds
  <2> HIDE DEF S, w
  <2> QED
    BY <1>2, <2>1, <2>2, <2>4
<1> QED
  BY <1>5, <1>6

\* An order table shows what rests at a price.
LEMMA TableAdds ==
  ASSUME NEW E, IsFiniteSet(E), \A o \in E : o.quantity \in Int,
         NEW rows \in Seq(E), ListsBut(rows, Len(rows), 0, E), NEW p
  PROVE  SumAt(OrderRows(PrintedOrders(rows)), p) = LevelSum(E, p)
<1> DEFINE table == OrderRows(PrintedOrders(rows))
           n == Len(rows)
           I == {j \in DOMAIN table : table[j].price = p}
           k == [i \in I |-> table[i].qty]
           S == AtPrice(E, p)
           g == [o \in S |-> o.quantity]
<1>1. /\ DOMAIN table = 1 .. n
      /\ \A i \in 1 .. n : table[i].price = rows[i].price /\ table[i].qty = rows[i].quantity
  <2>1. /\ DOMAIN table = 1 .. n
        /\ \A i \in 1 .. n : table[i] = [id |-> rows[i].id, price |-> rows[i].price,
                                         qty |-> rows[i].quantity]
    BY TableOfOrders
  <2> HIDE DEF table
  <2> QED
    BY <2>1
<1> HIDE DEF table
<1>2. SumAt(table, p) = Total(k, I)
  BY SumIsTotal DEF SumAt
<1>3. LevelSum(E, p) = Total(g, S)
  BY SumIsTotal DEF LevelSum
<1>4. /\ n \in Nat
      /\ \A i \in 1 .. n : rows[i] \in E
      /\ \A e \in E : \E i \in 1 .. n : rows[i] = e
      /\ \A i, j \in 1 .. n : rows[i] = rows[j] => i = j
  BY DEF ListsBut
<1> HIDE DEF n
<1>5. I \subseteq 1 .. n /\ \A i \in 1 .. n : i \in I <=> rows[i].price = p
  BY <1>1
<1>6. Numbers(rows, I, S)
  BY <1>4, <1>5 DEF Numbers, AtPrice
<1>7. IsFiniteSet(S)
  <2>1. S \subseteq E
    BY DEF AtPrice
  <2> HIDE DEF S
  <2> QED
    BY <2>1, FS_Subset
<1>8. IsFiniteSet(I)
  <2> HIDE DEF I
  <2>1. IsFiniteSet(1 .. n)
    BY <1>4, FS_Interval
  <2> QED
    BY <1>5, <2>1, FS_Subset
<1>9. \A i \in I : k[i] = rows[i].quantity
  BY <1>1
<1>10. \A i \in I : k[i] = g[rows[i]] /\ k[i] \in Int
  <2>1. \A i \in I : rows[i] \in S
    BY <1>6 DEF Numbers
  <2>2. \A o \in S : g[o] = o.quantity /\ o.quantity \in Int
    BY DEF AtPrice
  <2> HIDE DEF I, S, g, k
  <2> QED
    BY <1>9, <2>1, <2>2
<1> HIDE DEF I, S, g, k
<1>11. Total(k, I) = Total(g, S)
  BY <1>6, <1>7, <1>8, <1>10, TotalNumbered
<1> QED
  BY <1>2, <1>3, <1>11 DEF table

BidAt(i) == NthPrice(PricesOf(Buys), -1, i)

AskAt(i) == NthPrice(PricesOf(Sells), 1, i)

BidLevels == 1 .. Cardinality(PricesOf(Buys))

AskLevels == 1 .. Cardinality(PricesOf(Sells))

\* The depth table shows the levels of both sides next to each other.
LEMMA DepthShow ==
  ASSUME HeapInv, TapeInv, NEW c
  PROVE  LET depth == View(c).depth
         IN  /\ DOMAIN depth = BidLevels \cup AskLevels
             /\ \A i \in DOMAIN depth :
                  /\ depth[i].bidPrice = IF i \in BidLevels THEN Cell(BidAt(i)) ELSE Blank
                  /\ depth[i].buyQty =
                       IF i \in BidLevels THEN Cell(LevelQty(Buys, BidAt(i))) ELSE Blank
                  /\ depth[i].askPrice = IF i \in AskLevels THEN Cell(AskAt(i)) ELSE Blank
                  /\ depth[i].sellQty =
                       IF i \in AskLevels THEN Cell(LevelQty(Sells, AskAt(i))) ELSE Blank
<1> DEFINE lines == GetOrderBookSnapshot(c)
           rows == GetMarketDepthSnapshot
           depth == View(c).depth
           bids == Levels(buyOrders, -1)
           asks == Levels(sellOrders, 1)
           bp(i) == IF i \in BidLevels THEN Cell(BidAt(i)) ELSE Blank
           bq(i) == IF i \in BidLevels THEN Cell(LevelQty(Buys, BidAt(i))) ELSE Blank
           ap(i) == IF i \in AskLevels THEN Cell(AskAt(i)) ELSE Blank
           aq(i) == IF i \in AskLevels THEN Cell(LevelQty(Sells, AskAt(i))) ELSE Blank
           D == BidLevels \cup AskLevels
<1>1. depth = UpdateDepthTable(lines)
  BY DEF View
<1>2. Section(lines, "DEPTH", "END_DEPTH") = rows
  BY SectionsRead, Zenon
<1>3. depth = DepthRows(rows)
  BY <1>1, <1>2 DEF UpdateDepthTable
<1>4. /\ DOMAIN bids = BidLevels
      /\ \A i \in BidLevels : bids[i][1] = BidAt(i) /\ bids[i][2] = LevelQty(Buys, BidAt(i))
  BY LevelsAre DEF Buys, BidLevels, BidAt
<1>5. /\ DOMAIN asks = AskLevels
      /\ \A i \in AskLevels : asks[i][1] = AskAt(i) /\ asks[i][2] = LevelQty(Sells, AskAt(i))
  BY LevelsAre DEF Sells, AskLevels, AskAt
<1> DEFINE CellOf(d, i, field) == IF i \in DOMAIN d THEN Cell(d[i][field]) ELSE Blank
<1>6. rows = [i \in DOMAIN bids \cup DOMAIN asks |->
                Row(<<CellOf(bids, i, 2), CellOf(bids, i, 1),
                      CellOf(asks, i, 1), CellOf(asks, i, 2)>>)]
  BY DEF GetMarketDepthSnapshot
<1> HIDE DEF lines, rows, depth, bids, asks
<1>7. \A i \in D : /\ CellOf(bids, i, 2) = bq(i) /\ CellOf(bids, i, 1) = bp(i)
                   /\ CellOf(asks, i, 1) = ap(i) /\ CellOf(asks, i, 2) = aq(i)
  BY <1>4, <1>5
<1>8. DOMAIN rows = D
  BY <1>4, <1>5, <1>6
<1> HIDE DEF CellOf, bp, bq, ap, aq
<1>9. \A i \in D : rows[i].cells = <<bq(i), bp(i), ap(i), aq(i)>>
  BY <1>4, <1>5, <1>6, <1>7 DEF Row
<1> HIDE DEF D
<1>10. \A i \in D : /\ rows[i].cells[1] = bq(i) /\ rows[i].cells[2] = bp(i)
                    /\ rows[i].cells[3] = ap(i) /\ rows[i].cells[4] = aq(i)
  BY <1>9
<1>11. /\ DOMAIN depth = D
       /\ \A i \in D : /\ depth[i].buyQty = bq(i) /\ depth[i].bidPrice = bp(i)
                       /\ depth[i].askPrice = ap(i) /\ depth[i].sellQty = aq(i)
  BY <1>3, <1>8, <1>10 DEF DepthRows
<1> QED
  BY <1>11, Zenon DEF depth, D, bp, bq, ap, aq

LEMMA MarketShow ==
  ASSUME HeapInv, TapeInv, NEW c
  PROVE  /\ View(c).market.bestBid = GetBestBid
         /\ View(c).market.bestAsk = GetBestAsk
         /\ View(c).market.spread = GetSpread
<1> DEFINE lines == GetOrderBookSnapshot(c)
           a == GetBestBid
           v == GetBestAsk
           w == GetSpread
           p == GetCurrentPosition(c)
           row == <<Cell(a), Cell(v), Cell(w), Cell(p)>>
<1>1. View(c).market = UpdateMarketInfo(lines)
  BY DEF View
<1>2. Section(lines, "MARKET", "END_MARKET") = <<Row(row)>>
  BY SectionsRead, Zenon DEF MarketRow
<1> HIDE DEF lines, a, v, w, p
<1>3. FirstRow(lines, "MARKET", "END_MARKET") = row
  BY <1>2, FirstRowOf
<1>4. row[1][1] = a /\ row[2][1] = v /\ row[3][1] = w
  BY DEF Cell
<1> HIDE DEF row
<1> QED
  BY <1>1, <1>3, <1>4 DEF UpdateMarketInfo, a, v, w

\* The first level of a side is its best price.
LEMMA FirstLevels ==
  ASSUME HeapInv
  PROVE  /\ buyOrders # <<>> => 1 \in BidLevels /\ BidAt(1) = Top(buyOrders).price
         /\ sellOrders # <<>> => 1 \in AskLevels /\ AskAt(1) = Top(sellOrders).price
<1>1. /\ IsFiniteSet(PricesOf(Buys)) /\ IntegersOnly(PricesOf(Buys))
      /\ IsFiniteSet(PricesOf(Sells)) /\ IntegersOnly(PricesOf(Sells))
  BY FiniteSide DEF HeapInv
<1>2. ASSUME NEW P, IsFiniteSet(P), IntegersOnly(P), NEW sign \in {1, -1},
             NEW best \in P, \A p \in P : sign * best <= sign * p
      PROVE  1 \in 1 .. Cardinality(P) /\ NthPrice(P, sign, 1) = best
  <2>1. best \in Int /\ \A p \in P : p \in Int
    BY <1>2 DEF IntegersOnly
  <2>2. Before(P, sign, best) = {}
    <3>1. sign * best \in Int /\ \A p \in P : sign * p \in Int
      BY <2>1
    <3>2. \A p \in P : ~(sign * p < sign * best)
      BY <1>2, <3>1
    <3> QED
      BY <3>2 DEF Before
  <2>3. Cardinality(Before(P, sign, best)) = 0
    BY <2>2, FS_EmptySet
  <2>4. Cardinality(Before(P, sign, best)) + 1 \in 1 .. Cardinality(P)
        /\ NthPrice(P, sign, Cardinality(Before(P, sign, best)) + 1) = best
    BY <1>2, Ranks
  <2> QED
    BY <2>3, <2>4
<1>3. ASSUME buyOrders # <<>>
      PROVE  1 \in BidLevels /\ BidAt(1) = Top(buyOrders).price
  <2> DEFINE P == PricesOf(Buys)
             best == Top(buyOrders).price
  <2>1. best \in P /\ \A p \in P : p <= best
    BY <1>3, BestOfSide DEF PricesOf
  <2> HIDE DEF P, best
  <2>2. \A p \in P : (-1) * best <= (-1) * p
    BY <1>1, <2>1 DEF IntegersOnly, P
  <2> QED
    BY <1>1, <1>2, <2>1, <2>2 DEF P, best, BidLevels, BidAt
<1>4. ASSUME sellOrders # <<>>
      PROVE  1 \in AskLevels /\ AskAt(1) = Top(sellOrders).price
  <2> DEFINE P == PricesOf(Sells)
             best == Top(sellOrders).price
  <2>1. best \in P /\ \A p \in P : best <= p
    BY <1>4, BestOfSide DEF PricesOf
  <2> HIDE DEF P, best
  <2>2. \A p \in P : 1 * best <= 1 * p
    BY <1>1, <2>1 DEF IntegersOnly, P
  <2> QED
    BY <1>1, <1>2, <2>1, <2>2 DEF P, best, AskLevels, AskAt
<1> QED
  BY <1>3, <1>4

LEMMA Spread ==
  ASSUME HeapInv, ~matching, buyOrders # <<>>, sellOrders # <<>>
  PROVE  GetSpread > 0
<1>1. /\ Top(buyOrders) \in Buys /\ Top(sellOrders) \in Sells
  BY BestOfSide
<1>2. Top(buyOrders).price < Top(sellOrders).price
      /\ Top(buyOrders).price \in Int /\ Top(sellOrders).price \in Int
  BY <1>1, FiniteSide DEF HeapInv
<1>3. GetSpread = Top(sellOrders).price - Top(buyOrders).price
  BY DEF GetSpread, GetBestAsk, GetBestBid
<1> QED
  BY <1>2, <1>3

LEMMA EmptyTable ==
  ASSUME NEW rows \in Seq({})
  PROVE  OrderRows(PrintedOrders(rows)) = <<>>
<1> DEFINE table == OrderRows(PrintedOrders(rows))
<1>1. Len(rows) = 0
  <2>1. Len(rows) \in Nat /\ \A i \in 1 .. Len(rows) : rows[i] \in {}
    BY LenProperties, ElementOfSeq
  <2> QED
    BY <2>1
<1>2. DOMAIN table = {}
  <2>1. DOMAIN table = 1 .. Len(rows)
    BY TableOfOrders
  <2> HIDE DEF table
  <2> QED
    BY <1>1, <2>1
<1>3. table = [i \in DOMAIN table |-> table[i]]
  BY DEF OrderRows
<1> HIDE DEF table
<1>4. table = <<>>
  BY <1>2, <1>3
<1> QED
  BY <1>4 DEF table

\* What one view shows of the two sides agrees.
LEMMA DepthsShow ==
  ASSUME HeapInv, TapeInv, NEW c, NEW p \in Prices
  PROVE  LET view  == View(c)
             depth == view.depth
         IN  /\ Fits(SumAt(view.buy, p)) =>
                  SumAt(view.buy, p) =
                    SumFunction([i \in {j \in DOMAIN depth : depth[j].bidPrice = Cell(p)} |->
                                   depth[i].buyQty[1]])
             /\ Fits(SumAt(view.sell, p)) =>
                  SumAt(view.sell, p) =
                    SumFunction([i \in {j \in DOMAIN depth : depth[j].askPrice = Cell(p)} |->
                                   depth[i].sellQty[1]])
<1> DEFINE depth == View(c).depth
           I == {j \in DOMAIN depth : depth[j].bidPrice = Cell(p)}
           J == {j \in DOMAIN depth : depth[j].askPrice = Cell(p)}
           g == [i \in I |-> depth[i].buyQty[1]]
           h == [i \in J |-> depth[i].sellQty[1]]
<1>1. /\ IsFiniteSet(Buys) /\ IsFiniteSet(PricesOf(Buys)) /\ IntegersOnly(PricesOf(Buys))
      /\ \A o \in Buys : o.quantity \in Int
      /\ IsFiniteSet(Sells) /\ IsFiniteSet(PricesOf(Sells)) /\ IntegersOnly(PricesOf(Sells))
      /\ \A o \in Sells : o.quantity \in Int
  BY FiniteSide DEF HeapInv
<1>2. /\ Fits(LevelSum(Buys, p)) => LevelQty(Buys, p) = LevelSum(Buys, p)
      /\ Fits(LevelSum(Sells, p)) => LevelQty(Sells, p) = LevelSum(Sells, p)
  BY DEF Fits, LevelQty, LevelSum, AtPrice
<1>3. /\ SumAt(View(c).buy, p) = LevelSum(Buys, p)
      /\ SumAt(View(c).sell, p) = LevelSum(Sells, p)
  <2>1. /\ BuyRows \in Seq(Buys) /\ ListsBut(BuyRows, Len(BuyRows), 0, Buys)
        /\ SellRows \in Seq(Sells) /\ ListsBut(SellRows, Len(SellRows), 0, Sells)
    BY DrainedSides
  <2>2. /\ SumAt(OrderRows(PrintedOrders(BuyRows)), p) = LevelSum(Buys, p)
        /\ SumAt(OrderRows(PrintedOrders(SellRows)), p) = LevelSum(Sells, p)
    BY <1>1, <2>1, TableAdds
  <2> QED
    BY <2>2, ViewOfBook
<1>4. /\ DOMAIN depth = BidLevels \cup AskLevels
      /\ \A i \in DOMAIN depth :
           /\ depth[i].bidPrice = IF i \in BidLevels THEN Cell(BidAt(i)) ELSE Blank
           /\ depth[i].buyQty =
                IF i \in BidLevels THEN Cell(LevelQty(Buys, BidAt(i))) ELSE Blank
           /\ depth[i].askPrice = IF i \in AskLevels THEN Cell(AskAt(i)) ELSE Blank
           /\ depth[i].sellQty =
                IF i \in AskLevels THEN Cell(LevelQty(Sells, AskAt(i))) ELSE Blank
  BY DepthShow
<1>5. \A x : /\ Cell(x) = Cell(p) <=> x = p
             /\ Cell(x)[1] = x
             /\ Blank # Cell(p)
  BY DEF Cell, Blank
<1> HIDE DEF depth
<1>6. \A i : i \in I <=> i \in BidLevels /\ BidAt(i) = p
  BY <1>4, <1>5
<1>7. \A i : i \in J <=> i \in AskLevels /\ AskAt(i) = p
  BY <1>4, <1>5
<1>8. \A i \in I : g[i] = LevelQty(Buys, p)
  <2>1. \A i \in I : i \in DOMAIN depth /\ i \in BidLevels /\ BidAt(i) = p
    BY <1>6
  <2>2. \A i \in I : depth[i].buyQty = Cell(LevelQty(Buys, p))
    BY <1>4, <2>1
  <2> QED
    BY <1>5, <2>2
<1>9. \A i \in J : h[i] = LevelQty(Sells, p)
  <2>1. \A i \in J : i \in DOMAIN depth /\ i \in AskLevels /\ AskAt(i) = p
    BY <1>7
  <2>2. \A i \in J : depth[i].sellQty = Cell(LevelQty(Sells, p))
    BY <1>4, <2>1
  <2> QED
    BY <1>5, <2>2
<1>10. SumFunction(g) = Total(g, I) /\ SumFunction(h) = Total(h, J)
  BY SumIsTotal
<1> HIDE DEF I, J, g, h
<1>11. Fits(LevelSum(Buys, p)) => Total(g, I) = LevelSum(Buys, p)
  BY <1>1, <1>2, <1>6, <1>8, LevelAdds DEF BidLevels, BidAt
<1>12. Fits(LevelSum(Sells, p)) => Total(h, J) = LevelSum(Sells, p)
  BY <1>1, <1>2, <1>7, <1>9, LevelAdds DEF AskLevels, AskAt
<1>13. /\ Fits(SumAt(View(c).buy, p)) => SumAt(View(c).buy, p) = SumFunction(g)
       /\ Fits(SumAt(View(c).sell, p)) => SumAt(View(c).sell, p) = SumFunction(h)
  BY <1>3, <1>10, <1>11, <1>12
<1> QED
  BY <1>13, Zenon DEF g, h, I, J, depth

\* The depth table, the order tables and the labels of one view agree, and the
\* spread is positive, whatever the quantities: a level adds up when its sum
\* fits an int.
THEOREM DepthsAgree == SnapshotSpec => []DepthAgrees
<1>1. HeapInv /\ TapeInv => DepthAgrees
  <2> SUFFICES ASSUME HeapInv, TapeInv, ~matching, NEW c \in ClientIds
               PROVE  LET view  == View(c)
                          depth == view.depth
                      IN  /\ \A p \in Prices :
                               /\ Fits(SumAt(view.buy, p)) =>
                                    SumAt(view.buy, p) =
                                      SumFunction([i \in {j \in DOMAIN depth :
                                                            depth[j].bidPrice = Cell(p)} |->
                                                     depth[i].buyQty[1]])
                               /\ Fits(SumAt(view.sell, p)) =>
                                    SumAt(view.sell, p) =
                                      SumFunction([i \in {j \in DOMAIN depth :
                                                            depth[j].askPrice = Cell(p)} |->
                                                     depth[i].sellQty[1]])
                          /\ view.buy # <<>>  => depth[1].bidPrice = Cell(view.market.bestBid)
                          /\ view.sell # <<>> => depth[1].askPrice = Cell(view.market.bestAsk)
                          /\ view.buy # <<>> /\ view.sell # <<>> => view.market.spread > 0
    BY Zenon DEF DepthAgrees, MayRead
  <2> DEFINE view == View(c)
             depth == view.depth
  <2>1. /\ view.buy # <<>> => buyOrders # <<>>
        /\ view.sell # <<>> => sellOrders # <<>>
    <3>1. /\ BuyRows \in Seq(Buys) /\ ListsBut(BuyRows, Len(BuyRows), 0, Buys)
          /\ SellRows \in Seq(Sells) /\ ListsBut(SellRows, Len(SellRows), 0, Sells)
      BY DrainedSides
    <3>2. /\ buyOrders = <<>> => Buys = {}
          /\ sellOrders = <<>> => Sells = {}
      BY BestOfSide
    <3>3. /\ Buys = {} => view.buy = <<>>
          /\ Sells = {} => view.sell = <<>>
      BY <3>1, ViewOfBook, EmptyTable
    <3> QED
      BY <3>2, <3>3
  <2>2. /\ DOMAIN depth = BidLevels \cup AskLevels
        /\ \A i \in BidLevels : depth[i].bidPrice = Cell(BidAt(i))
        /\ \A i \in AskLevels : depth[i].askPrice = Cell(AskAt(i))
    BY DepthShow
  <2>3. /\ view.market.bestBid = GetBestBid /\ view.market.bestAsk = GetBestAsk
        /\ view.market.spread = GetSpread
    BY MarketShow
  <2>4. /\ buyOrders # <<>> => 1 \in BidLevels /\ BidAt(1) = GetBestBid
        /\ sellOrders # <<>> => 1 \in AskLevels /\ AskAt(1) = GetBestAsk
    BY FirstLevels DEF GetBestBid, GetBestAsk
  <2>5. /\ view.buy # <<>>  => depth[1].bidPrice = Cell(view.market.bestBid)
        /\ view.sell # <<>> => depth[1].askPrice = Cell(view.market.bestAsk)
    <3> HIDE DEF view, depth
    <3> QED
      BY <2>1, <2>2, <2>3, <2>4
  <2>6. view.buy # <<>> /\ view.sell # <<>> => view.market.spread > 0
    <3> HIDE DEF view
    <3> QED
      BY <2>1, <2>3, Spread
  <2> QED
    BY <2>5, <2>6, DepthsShow, Zenon
<1> QED
  BY <1>1, SnapshotIsBook, TapeInvariant, PTL

=============================================================================
