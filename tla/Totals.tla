------------------------------- MODULE Totals -------------------------------
(***************************************************************************)
(* Sums over finite sets: what the proofs about positions, totals and      *)
(* quantiles need of them.  A total is the value of a function defined by  *)
(* recursion over subsets; that the function exists, that it is the only   *)
(* one, and that the order of adding up does not matter is shown by        *)
(* looking at a smallest set for which it fails.                           *)
(***************************************************************************)
EXTENDS Integers, FiniteSetsExt, FiniteSetTheorems, WellFoundedInduction, TLAPS

Picked(s) == CHOOSE x \in s : TRUE

\* h adds up g over every subset of S.
AddsUp(h, g, S) ==
  h = [s \in SUBSET S |-> IF s = {} THEN 0 ELSE g[Picked(s)] + h[s \ {Picked(s)}]]

Adder(g, S) == CHOOSE h : AddsUp(h, g, S)

Total(g, S) == Adder(g, S)[S]

LEMMA PickedIn ==
  ASSUME NEW s, s # {}
  PROVE  Picked(s) \in s
BY DEF Picked

LEMMA SmallestSet ==
  ASSUME NEW S, IsFiniteSet(S), NEW T, T \subseteq SUBSET S, T # {}
  PROVE  \E s \in T : \A t \in T : ~(t \subseteq s /\ t # s)
<1>1. IsWellFoundedOn(StrictSubsetOrdering(S), SUBSET S)
  BY FS_StrictSubsetOrderingWellFounded, FS_FiniteSubsetsOfFinite
<1>2. PICK s \in T : \A t \in T : ~(<<t, s>> \in StrictSubsetOrdering(S))
  <2> HIDE DEF StrictSubsetOrdering
  <2> QED
    BY <1>1, WFMin
<1>3. ASSUME NEW t \in T, t \subseteq s, t # s
      PROVE  FALSE
  <2>1. <<t, s>> \in (SUBSET S) \X (SUBSET S)
    BY <1>3
  <2>2. <<t, s>> \in StrictSubsetOrdering(S)
    BY <1>3, <2>1 DEF StrictSubsetOrdering
  <2> QED
    BY <1>2, <2>2
<1> QED
  BY <1>3

\* Two functions that add up the same values agree.
LEMMA AdderUnique ==
  ASSUME NEW S, IsFiniteSet(S), NEW U \in SUBSET S, NEW g, NEW k,
         \A x \in U : g[x] = k[x],
         NEW h, AddsUp(h, g, S), NEW f, AddsUp(f, k, U)
  PROVE  \A s \in SUBSET U : h[s] = f[s]
<1> DEFINE T == {s \in SUBSET U : h[s] # f[s]}
<1> SUFFICES ASSUME T # {} PROVE FALSE
  OBVIOUS
<1>1. PICK s \in T : \A t \in T : ~(t \subseteq s /\ t # s)
  <2>1. T \subseteq SUBSET S
    OBVIOUS
  <2> HIDE DEF T
  <2> QED
    BY <2>1, SmallestSet
<1>2. h[s] = IF s = {} THEN 0 ELSE g[Picked(s)] + h[s \ {Picked(s)}]
  BY DEF AddsUp
<1>3. f[s] = IF s = {} THEN 0 ELSE k[Picked(s)] + f[s \ {Picked(s)}]
  BY DEF AddsUp
<1>4. s # {}
  BY <1>2, <1>3
<1>5. Picked(s) \in s
  BY <1>4, PickedIn
<1>6. h[s \ {Picked(s)}] = f[s \ {Picked(s)}]
  BY <1>1, <1>5
<1>7. g[Picked(s)] = k[Picked(s)]
  BY <1>5
<1> QED
  BY <1>2, <1>3, <1>6, <1>7

LEMMA AdderExists ==
  ASSUME NEW S, IsFiniteSet(S), NEW g
  PROVE  AddsUp(Adder(g, S), g, S)
<1> DEFINE T == {s \in SUBSET S : ~ AddsUp(Adder(g, s), g, s)}
<1>1. SUFFICES ASSUME T # {} PROVE FALSE
  OBVIOUS
<1>2. PICK U \in T : \A t \in T : ~(t \subseteq U /\ t # U)
  <2>1. T \subseteq SUBSET S
    OBVIOUS
  <2> HIDE DEF T
  <2> QED
    BY <1>1, <2>1, SmallestSet
<1>3. \A t \in SUBSET U : t # U => AddsUp(Adder(g, t), g, t)
  BY <1>2
<1> DEFINE H == [s \in SUBSET U |->
                  IF s = {} THEN 0 ELSE g[Picked(s)] + Total(g, s \ {Picked(s)})]
<1>4. ASSUME NEW t \in SUBSET U, t # U
      PROVE  Total(g, t) = H[t]
  <2>1. AddsUp(Adder(g, t), g, t)
    BY <1>3, <1>4
  <2>2. Adder(g, t)[t] = IF t = {} THEN 0
                         ELSE g[Picked(t)] + Adder(g, t)[t \ {Picked(t)}]
    BY <2>1 DEF AddsUp
  <2>3. CASE t = {}
    BY <2>2, <2>3 DEF Total
  <2>4. CASE t # {}
    <3> DEFINE r == t \ {Picked(t)}
    <3>1. r \in SUBSET t /\ r \in SUBSET U /\ r # U /\ IsFiniteSet(t)
      BY <1>2, <1>4, FS_Subset
    <3>2. AddsUp(Adder(g, r), g, r)
      BY <1>3, <3>1
    <3>3. Adder(g, t)[r] = Adder(g, r)[r]
      <4> HIDE DEF r
      <4> QED
        BY <2>1, <3>1, <3>2, AdderUnique
    <3> QED
      BY <2>2, <2>4, <3>3 DEF Total
  <2> QED
    BY <2>3, <2>4
<1>5. AddsUp(H, g, U)
  <2>1. ASSUME NEW s \in SUBSET U, s # {}
        PROVE  H[s \ {Picked(s)}] = Total(g, s \ {Picked(s)})
    <3>1. Picked(s) \in s
      BY <2>1, PickedIn
    <3>2. s \ {Picked(s)} \in SUBSET U /\ s \ {Picked(s)} # U
      BY <3>1
    <3> HIDE DEF H
    <3> QED
      BY <1>4, <3>2
  <2>2. H = [s \in SUBSET U |-> IF s = {} THEN 0 ELSE g[Picked(s)] + H[s \ {Picked(s)}]]
    BY <2>1
  <2> HIDE DEF H
  <2> QED
    BY <2>2 DEF AddsUp
<1>6. AddsUp(Adder(g, U), g, U)
  <2> HIDE DEF H
  <2> QED
    BY <1>5, Zenon DEF Adder
<1> QED
  BY <1>2, <1>6

LEMMA TotalUnfolds ==
  ASSUME NEW S, IsFiniteSet(S), NEW g
  PROVE  Total(g, S) = IF S = {} THEN 0
                       ELSE g[Picked(S)] + Total(g, S \ {Picked(S)})
<1>1. AddsUp(Adder(g, S), g, S)
  BY AdderExists
<1>2. Adder(g, S)[S] = IF S = {} THEN 0
                       ELSE g[Picked(S)] + Adder(g, S)[S \ {Picked(S)}]
  BY <1>1 DEF AddsUp
<1> DEFINE R == S \ {Picked(S)}
<1>3. R \in SUBSET S /\ IsFiniteSet(R)
  BY FS_Subset
<1>4. AddsUp(Adder(g, R), g, R)
  BY <1>3, AdderExists
<1>5. Adder(g, S)[R] = Adder(g, R)[R]
  <2> HIDE DEF R
  <2> QED
    BY <1>1, <1>3, <1>4, AdderUnique
<1> QED
  BY <1>2, <1>5 DEF Total

\* A total depends on nothing but the values added up.
LEMMA TotalSame ==
  ASSUME NEW S, IsFiniteSet(S), NEW g, NEW k, \A x \in S : g[x] = k[x]
  PROVE  Total(g, S) = Total(k, S)
BY AdderExists, AdderUnique DEF Total

LEMMA TotalType ==
  ASSUME NEW S, IsFiniteSet(S), NEW g, \A x \in S : g[x] \in Int
  PROVE  \A s \in SUBSET S : Total(g, s) \in Int
<1> DEFINE T == {s \in SUBSET S : Total(g, s) \notin Int}
<1>1. SUFFICES ASSUME T # {} PROVE FALSE
  OBVIOUS
<1>2. PICK s \in T : \A t \in T : ~(t \subseteq s /\ t # s)
  <2>1. T \subseteq SUBSET S
    OBVIOUS
  <2> HIDE DEF T
  <2> QED
    BY <1>1, <2>1, SmallestSet
<1>3. Total(g, s) = IF s = {} THEN 0 ELSE g[Picked(s)] + Total(g, s \ {Picked(s)})
  <2>1. IsFiniteSet(s)
    BY FS_Subset
  <2> QED
    BY <2>1, TotalUnfolds
<1>4. s # {}
  BY <1>3
<1>5. Picked(s) \in s
  BY <1>4, PickedIn
<1>6. Total(g, s \ {Picked(s)}) \in Int
  BY <1>2, <1>5
<1> QED
  BY <1>3, <1>4, <1>5, <1>6

\* The order in which values are added up does not matter: any element may be
\* taken first.
LEMMA TotalRemoves ==
  ASSUME NEW S, IsFiniteSet(S), NEW g, \A x \in S : g[x] \in Int
  PROVE  \A x \in S : Total(g, S) = g[x] + Total(g, S \ {x})
<1> DEFINE T == {s \in SUBSET S : \E x \in s : Total(g, s) # g[x] + Total(g, s \ {x})}
<1>1. SUFFICES ASSUME T # {} PROVE FALSE
  OBVIOUS
<1>2. PICK s \in T : \A t \in T : ~(t \subseteq s /\ t # s)
  <2>1. T \subseteq SUBSET S
    OBVIOUS
  <2> HIDE DEF T
  <2> QED
    BY <1>1, <2>1, SmallestSet
<1>3. PICK x \in s : Total(g, s) # g[x] + Total(g, s \ {x})
  OBVIOUS
<1> DEFINE y == Picked(s)
<1>4. y \in s
  BY PickedIn
<1>5. Total(g, s) = g[y] + Total(g, s \ {y})
  BY TotalUnfolds, FS_Subset
<1> HIDE DEF y
<1>6. x # y
  BY <1>3, <1>5
<1>7. \A t \in SUBSET S : t \subseteq s /\ t # s =>
        \A z \in t : Total(g, t) = g[z] + Total(g, t \ {z})
  BY <1>2
<1>8. Total(g, s \ {y}) = g[x] + Total(g, (s \ {y}) \ {x})
  BY <1>4, <1>6, <1>7
<1>9. Total(g, s \ {x}) = g[y] + Total(g, (s \ {x}) \ {y})
  BY <1>4, <1>6, <1>7
<1>10. (s \ {y}) \ {x} = (s \ {x}) \ {y}
  OBVIOUS
<1>11. g[x] \in Int /\ g[y] \in Int /\ Total(g, (s \ {x}) \ {y}) \in Int
  <2>1. (s \ {x}) \ {y} \in SUBSET S
    OBVIOUS
  <2> QED
    BY <1>4, <2>1, TotalType
<1>12. PICK c \in Int : c = Total(g, (s \ {x}) \ {y})
  BY <1>11
<1>13. Total(g, s \ {x}) = g[y] + c /\ Total(g, s \ {y}) = g[x] + c
  BY <1>8, <1>9, <1>10, <1>12
<1> QED
  BY <1>3, <1>5, <1>11, <1>13

\* One value more.
LEMMA TotalGrows ==
  ASSUME NEW S, IsFiniteSet(S), NEW x \in S, NEW g, NEW k,
         \A z \in S : k[z] \in Int, \A z \in S \ {x} : k[z] = g[z]
  PROVE  Total(k, S) = Total(g, S \ {x}) + k[x]
<1>1. Total(k, S) = k[x] + Total(k, S \ {x})
  BY TotalRemoves
<1>2. IsFiniteSet(S \ {x})
  BY FS_Subset
<1>3. Total(k, S \ {x}) = Total(g, S \ {x})
  BY <1>2, TotalSame
<1>4. Total(k, S \ {x}) \in Int
  BY TotalType
<1> QED
  BY <1>1, <1>3, <1>4

\* One value changed.
LEMMA TotalMoves ==
  ASSUME NEW S, IsFiniteSet(S), NEW x \in S, NEW g, NEW k, NEW d \in Int,
         \A z \in S : g[z] \in Int /\ k[z] = IF z = x THEN g[z] + d ELSE g[z]
  PROVE  Total(k, S) = Total(g, S) + d
<1>1. Total(g, S) = g[x] + Total(g, S \ {x})
  BY TotalRemoves
<1>2. Total(k, S) = k[x] + Total(k, S \ {x})
  <2>1. \A z \in S : k[z] \in Int
    OBVIOUS
  <2> QED
    BY <2>1, TotalRemoves
<1>3. Total(k, S \ {x}) = Total(g, S \ {x})
  <2>1. IsFiniteSet(S \ {x}) /\ \A z \in S \ {x} : g[z] = k[z]
    BY FS_Subset
  <2> QED
    BY <2>1, TotalSame
<1>4. Total(g, S \ {x}) \in Int
  BY TotalType
<1> QED
  BY <1>1, <1>2, <1>3, <1>4

\* One value more, of 0.
LEMMA TotalOfZero ==
  ASSUME NEW S, IsFiniteSet(S), NEW x, x \notin S, NEW g, NEW k,
         \A z \in S : g[z] \in Int, \A z \in S : k[z] = g[z], k[x] = 0,
         NEW R, R = S \/ R = S \cup {x}
  PROVE  Total(k, R) = Total(g, S)
<1>1. CASE R = S
  BY <1>1, TotalSame
<1>2. CASE R = S \cup {x}
  <2>1. IsFiniteSet(R) /\ x \in R /\ R \ {x} = S
    BY <1>2, FS_AddElement
  <2>2. \A z \in R : k[z] \in Int
    BY <1>2
  <2>3. Total(k, R) = Total(g, S) + k[x]
    BY <2>1, <2>2, TotalGrows
  <2>4. Total(g, S) \in Int
    BY TotalType
  <2> QED
    BY <2>3, <2>4
<1> QED
  BY <1>1, <1>2

\* On S, k is g with d added at x, if x is there.
MovedAt(S, g, k, x, d) ==
  \A z \in S : g[z] \in Int /\ k[z] = IF z = x THEN g[z] + d ELSE g[z]

\* One value changed, if it is among those added up.
LEMMA TotalMayMove ==
  ASSUME NEW S, IsFiniteSet(S), NEW x, NEW g, NEW k, NEW d \in Int,
         MovedAt(S, g, k, x, d)
  PROVE  /\ Total(k, S) = Total(g, S) + (IF x \in S THEN d ELSE 0)
         /\ Total(g, S) \in Int
<1> USE DEF MovedAt
<1>1. Total(g, S) \in Int
  BY TotalType
<1>2. CASE x \in S
  <2>1. \A z \in S : g[z] \in Int /\ k[z] = IF z = x THEN g[z] + d ELSE g[z]
    OBVIOUS
  <2>2. Total(k, S) = Total(g, S) + d
    BY <1>2, <2>1, TotalMoves
  <2> QED
    BY <1>1, <1>2, <2>2
<1>3. CASE x \notin S
  <2>1. \A z \in S : k[z] = g[z]
    BY <1>3
  <2>2. Total(k, S) = Total(g, S)
    BY <2>1, TotalSame
  <2> QED
    BY <1>1, <1>3, <2>2
<1> QED
  BY <1>2, <1>3

\* One value changed in each of two totals.
LEMMA DifferenceMoves ==
  ASSUME NEW S, IsFiniteSet(S), NEW T, IsFiniteSet(T), NEW x, NEW y, NEW g, NEW k,
         NEW d \in Int, MovedAt(S, g, k, x, d), MovedAt(T, g, k, y, d)
  PROVE  Total(k, S) - Total(k, T) =
           Total(g, S) - Total(g, T) + (IF x \in S THEN d ELSE 0) - (IF y \in T THEN d ELSE 0)
<1>1. Total(k, S) = Total(g, S) + (IF x \in S THEN d ELSE 0) /\ Total(g, S) \in Int
  BY TotalMayMove
<1>2. Total(k, T) = Total(g, T) + (IF y \in T THEN d ELSE 0) /\ Total(g, T) \in Int
  BY TotalMayMove
<1> QED
  BY <1>1, <1>2

-----------------------------------------------------------------------------
(* Totals compared.                                                        *)

\* Totals of values in order are in order.
LEMMA TotalOrdered ==
  ASSUME NEW S, IsFiniteSet(S), NEW g, NEW k,
         \A x \in S : g[x] \in Int /\ k[x] \in Int /\ g[x] <= k[x]
  PROVE  Total(g, S) <= Total(k, S)
<1> DEFINE T == {s \in SUBSET S : ~(Total(g, s) <= Total(k, s))}
<1> SUFFICES ASSUME T # {} PROVE FALSE
  BY DEF T
<1>1. PICK s \in T : \A t \in T : ~(t \subseteq s /\ t # s)
  <2>1. T \subseteq SUBSET S
    OBVIOUS
  <2> HIDE DEF T
  <2> QED
    BY <2>1, SmallestSet
<1>2. IsFiniteSet(s) /\ s \subseteq S
  BY FS_Subset
<1>3. CASE s = {}
  <2>1. Total(g, s) = 0 /\ Total(k, s) = 0
    BY <1>2, <1>3, TotalUnfolds
  <2> QED
    BY <2>1
<1>4. CASE s # {}
  <2>1. PICK x \in s : TRUE
    BY <1>4
  <2> DEFINE r == s \ {x}
  <2>2. Total(g, s) = g[x] + Total(g, r) /\ Total(k, s) = k[x] + Total(k, r)
    BY <1>2, <2>1, TotalRemoves
  <2>3. Total(g, r) <= Total(k, r)
    BY <1>1, <2>1
  <2>4. Total(g, r) \in Int /\ Total(k, r) \in Int
    BY TotalType
  <2>5. g[x] \in Int /\ k[x] \in Int /\ g[x] <= k[x] /\ ~(Total(g, s) <= Total(k, s))
    BY <2>1
  <2> HIDE DEF r, T
  <2> QED
    BY <2>2, <2>3, <2>4, <2>5
<1> QED
  BY <1>3, <1>4

LEMMA TotalScaled ==
  ASSUME NEW S, IsFiniteSet(S), NEW c \in Int, NEW g, NEW k,
         \A x \in S : g[x] \in Int /\ k[x] = c * g[x]
  PROVE  Total(k, S) = c * Total(g, S)
<1> DEFINE T == {s \in SUBSET S : Total(k, s) # c * Total(g, s)}
<1> SUFFICES ASSUME T # {} PROVE FALSE
  BY DEF T
<1>1. PICK s \in T : \A t \in T : ~(t \subseteq s /\ t # s)
  <2>1. T \subseteq SUBSET S
    OBVIOUS
  <2> HIDE DEF T
  <2> QED
    BY <2>1, SmallestSet
<1>2. IsFiniteSet(s) /\ s \subseteq S
  BY FS_Subset
<1>3. CASE s = {}
  <2>1. Total(g, s) = 0 /\ Total(k, s) = 0
    BY <1>2, <1>3, TotalUnfolds
  <2> QED
    BY <2>1
<1>4. CASE s # {}
  <2>1. PICK x \in s : TRUE
    BY <1>4
  <2> DEFINE r == s \ {x}
  <2>2. \A z \in S : k[z] \in Int
    OBVIOUS
  <2>3. Total(g, s) = g[x] + Total(g, r) /\ Total(k, s) = k[x] + Total(k, r)
    BY <1>2, <2>1, <2>2, TotalRemoves
  <2>4. Total(k, r) = c * Total(g, r)
    BY <1>1, <2>1
  <2>5. Total(g, r) \in Int
    BY TotalType
  <2>6. g[x] \in Int /\ k[x] = c * g[x] /\ Total(k, s) # c * Total(g, s)
    BY <2>1
  <2> HIDE DEF r, T
  <2>7. \A a, b \in Int : c * a + c * b = c * (a + b)
    OBVIOUS
  <2> QED
    BY <2>3, <2>4, <2>5, <2>6, <2>7
<1> QED
  BY <1>3, <1>4

LEMMA TotalNatural ==
  ASSUME NEW S, IsFiniteSet(S), NEW g, \A x \in S : g[x] \in Nat
  PROVE  Total(g, S) \in Nat
<1> DEFINE k == [x \in S |-> 0 * g[x]]
<1>1. \A x \in S : g[x] \in Int /\ k[x] = 0 * g[x] /\ k[x] \in Int /\ k[x] <= g[x]
  OBVIOUS
<1> HIDE DEF k
<1>2. Total(g, S) \in Int
  BY <1>1, TotalType
<1>3. Total(k, S) = 0 * Total(g, S)
  BY <1>1, TotalScaled
<1>4. Total(k, S) <= Total(g, S)
  BY <1>1, TotalOrdered
<1> QED
  BY <1>2, <1>3, <1>4

\* f numbers the elements of S by those of I.
Numbers(f, I, S) ==
  /\ \A i \in I : f[i] \in S
  /\ \A i, j \in I : f[i] = f[j] => i = j
  /\ \A x \in S : \E i \in I : f[i] = x

\* A total does not depend on how its values are numbered.
LEMMA TotalNumbered ==
  ASSUME NEW I, IsFiniteSet(I), NEW S, IsFiniteSet(S), NEW f, Numbers(f, I, S),
         NEW g, NEW k, \A i \in I : k[i] = g[f[i]] /\ k[i] \in Int
  PROVE  Total(k, I) = Total(g, S)
<1> DEFINE Img(U) == {f[i] : i \in U}
           T == {U \in SUBSET I : Total(k, U) # Total(g, Img(U))}
<1>1. Img(I) = S
  BY DEF Numbers
<1> SUFFICES ASSUME T # {} PROVE FALSE
  <2>1. T = {} => Total(k, I) = Total(g, Img(I))
    OBVIOUS
  <2> HIDE DEF T, Img
  <2> QED
    BY <1>1, <2>1
<1>2. PICK U \in T : \A t \in T : ~(t \subseteq U /\ t # U)
  <2>1. T \subseteq SUBSET I
    OBVIOUS
  <2> HIDE DEF T
  <2> QED
    BY <2>1, SmallestSet
<1>3. IsFiniteSet(U) /\ U \subseteq I
  BY FS_Subset
<1>4. IsFiniteSet(Img(U)) /\ Img(U) \subseteq S
  <2>1. Img(U) \subseteq S
    BY <1>3 DEF Numbers
  <2> HIDE DEF Img
  <2> QED
    BY <2>1, FS_Subset
<1>5. \A x \in S : g[x] \in Int
  BY DEF Numbers
<1>6. CASE U = {}
  <2>1. Img(U) = {}
    BY <1>6
  <2>2. IsFiniteSet({}) /\ Total(k, {}) = 0 /\ Total(g, {}) = 0
    BY FS_EmptySet, TotalUnfolds
  <2> QED
    BY <1>2, <1>6, <2>1, <2>2
<1>7. CASE U # {}
  <2>1. PICK i \in U : TRUE
    BY <1>7
  <2> DEFINE V == U \ {i}
  <2>2. Img(U) \ {f[i]} = Img(V) /\ f[i] \in Img(U)
    <3>1. \A j \in U : f[j] = f[i] <=> j = i
      BY <1>3, <2>1 DEF Numbers
    <3> QED
      BY <2>1, <3>1
  <2>3. Total(k, V) = Total(g, Img(V))
    <3>1. V \in SUBSET I /\ V \subseteq U /\ V # U
      BY <1>3, <2>1
    <3> HIDE DEF V, Img
    <3> QED
      BY <1>2, <3>1
  <2>4. Total(k, U) = k[i] + Total(k, V)
    <3>1. \A j \in U : k[j] \in Int
      BY <1>3
    <3> QED
      BY <1>3, <2>1, <3>1, TotalRemoves
  <2> DEFINE W == Img(U)
             X == Img(V)
             x == f[i]
  <2>5. Total(g, W) = g[x] + Total(g, X)
    <3>1. \A y \in W : g[y] \in Int
      BY <1>4, <1>5
    <3>2. W \ {x} = X /\ x \in W /\ IsFiniteSet(W)
      BY <1>4, <2>2
    <3> HIDE DEF W, X, x
    <3> QED
      BY <3>1, <3>2, TotalRemoves
  <2>6. k[i] = g[x]
    BY <1>3, <2>1
  <2>7. Total(k, U) # Total(g, W)
    BY <1>2
  <2> HIDE DEF W, X, V, x
  <2> QED
    BY <2>3, <2>4, <2>5, <2>6, <2>7 DEF X
<1> QED
  BY <1>6, <1>7

=============================================================================
