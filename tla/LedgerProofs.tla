---------------------------- MODULE LedgerProofs ----------------------------
(***************************************************************************)
(* Proofs about Ledger for every set of members and transactions, every    *)
(* chain and every number of reorganisations and restarts.                 *)
(***************************************************************************)
EXTENDS Ledger, FiniteSetTheorems, WellFoundedInduction, TLAPS

-----------------------------------------------------------------------------
(***************************************************************************)
(* Sums over finite sets.  MapThenSumSet adds the elements in an order of  *)
(* its own; the lemmas below say that the order does not matter, and what  *)
(* a sum becomes when its set or its summands change.                      *)
(***************************************************************************)
Sum(f, S) == MapThenSumSet(LAMBDA x : f[x], S)

(* The element that the sum takes out of a set first, and the rest. *)
Picked(S) == CHOOSE x \in S : TRUE
Rest(S) == S \ {Picked(S)}

(* The recursive function the sum is defined by. *)
IsIter(g, f, S) ==
  g = [T \in SUBSET S |-> IF T = {} THEN 0 ELSE f[Picked(T)] + g[Rest(T)]]
Iter(f, S) == CHOOSE g : IsIter(g, f, S)

(* The sum is the value of the recursive function at the whole set. *)
LEMMA SumIter == ASSUME NEW f, NEW S PROVE Sum(f, S) = Iter(f, S)[S]
  BY DEF Sum, MapThenSumSet, MapThenFoldSet, Iter, IsIter, Picked, Rest

(* What is picked is an element. *)
LEMMA PickedIn == ASSUME NEW S, S # {} PROVE Picked(S) \in S
  BY DEF Picked

(* A family of subsets of a finite set has a smallest member. *)
LEMMA SmallestSet ==
  ASSUME NEW S, IsFiniteSet(S), NEW P \in SUBSET (SUBSET S), P # {}
  PROVE  \E T \in P : \A U \in P : U \subseteq T => U = T
<1> DEFINE C == {Cardinality(T) : T \in P}
<1>1. \A T \in P : IsFiniteSet(T) /\ Cardinality(T) \in Nat
  BY FS_Subset, FS_CardinalityType
<1>2. C \subseteq Nat /\ C # {}
  BY <1>1
<1>3. \E n \in C : \A m \in C : <<m, n>> \notin OpToRel(<, Nat)
  <2> HIDE DEF C
  <2> QED BY <1>2, WFMin, NatLessThanWellFounded, Zenon
<1>4. PICK n \in C : \A m \in C : <<m, n>> \notin OpToRel(<, Nat)
  BY <1>3
<1>5. PICK T \in P : Cardinality(T) = n
  BY <1>4
<1>6. ASSUME NEW U \in P, U \subseteq T PROVE U = T
  <2>1. IsFiniteSet(T) /\ Cardinality(T) \in Nat /\ Cardinality(U) \in Nat
    BY <1>1
  <2>2. Cardinality(U) <= Cardinality(T) /\ (Cardinality(T) = Cardinality(U) => T = U)
    BY <1>6, <2>1, FS_Subset
  <2>3. ~(Cardinality(U) < Cardinality(T))
    <3>1. Cardinality(U) \in C /\ n \in Nat
      BY <1>2, <1>4
    <3>2. <<Cardinality(U), n>> \notin OpToRel(<, Nat)
      BY <1>4, <3>1
    <3> QED BY <1>5, <2>1, <3>1, <3>2, Zenon DEF OpToRel
  <2> QED BY <2>1, <2>2, <2>3
<1> QED BY <1>5, <1>6

(* The recursive function exists, and its values are the sums of the subsets. *)
LEMMA IterExists ==
  ASSUME NEW f, NEW S, IsFiniteSet(S)
  PROVE  \A T \in SUBSET S : IsIter(Iter(f, T), f, T) /\ \A U \in SUBSET T : Iter(f, T)[U] = Sum(f, U)
<1> DEFINE Good(T) == IsIter(Iter(f, T), f, T) /\ \A U \in SUBSET T : Iter(f, T)[U] = Sum(f, U)
           Bad == {T \in SUBSET S : ~Good(T)}
<1>1. SUFFICES ASSUME Bad # {} PROVE FALSE
  OBVIOUS
<1>2. PICK T \in Bad : \A U \in Bad : U \subseteq T => U = T
  <2> HIDE DEF Good
  <2>1. Bad \in SUBSET (SUBSET S)
    OBVIOUS
  <2> HIDE DEF Bad
  <2> QED BY <1>1, <2>1, SmallestSet
<1>3. T \in SUBSET S /\ ~Good(T)
  OBVIOUS
<1>4. \A U \in SUBSET T : U # T => Good(U)
  <2> HIDE DEF Good
  <2> QED BY <1>2
<1> DEFINE F == [U \in SUBSET T |-> IF U = {} THEN 0 ELSE f[Picked(U)] + Sum(f, Rest(U))]
<1>5. ASSUME NEW U \in SUBSET T, U # T PROVE F[U] = Sum(f, U)
  <2>1. Good(U)
    BY <1>4, <1>5
  <2>2. Sum(f, U) = Iter(f, U)[U]
    BY SumIter
  <2> DEFINE g == Iter(f, U)
  <2>3. /\ g = [V \in SUBSET U |-> IF V = {} THEN 0 ELSE f[Picked(V)] + g[Rest(V)]]
        /\ g[Rest(U)] = Sum(f, Rest(U))
    <3>1. Rest(U) \in SUBSET U
      BY DEF Rest
    <3> QED BY <2>1, <3>1 DEF IsIter
  <2> HIDE DEF g
  <2>4. g[U] = IF U = {} THEN 0 ELSE f[Picked(U)] + Sum(f, Rest(U))
    BY <2>3
  <2> QED BY <2>2, <2>4 DEF g
<1>6. \A U \in SUBSET T : U # {} => Rest(U) \in SUBSET T /\ Rest(U) # T /\ Rest(U) # U
  BY PickedIn DEF Rest
<1>7. IsIter(F, f, T)
  <2>1. \A U \in SUBSET T : U # {} => F[Rest(U)] = Sum(f, Rest(U))
    BY <1>5, <1>6
  <2>2. F = [U \in SUBSET T |-> IF U = {} THEN 0 ELSE f[Picked(U)] + F[Rest(U)]]
    <3> DEFINE H == [U \in SUBSET T |-> IF U = {} THEN 0 ELSE f[Picked(U)] + F[Rest(U)]]
    <3>1. \A U \in SUBSET T : F[U] = H[U]
      BY <2>1
    <3>2. DOMAIN F = SUBSET T /\ DOMAIN H = SUBSET T
      OBVIOUS
    <3>3. F = [U \in SUBSET T |-> F[U]] /\ H = [U \in SUBSET T |-> H[U]]
      OBVIOUS
    <3> HIDE DEF H, F
    <3>4. F = H
      BY <3>1, <3>3
    <3> QED BY <3>4 DEF H
  <2> HIDE DEF F
  <2> QED BY <2>2 DEF IsIter
<1>8. IsIter(Iter(f, T), f, T)
  BY <1>7 DEF Iter
<1> DEFINE G == Iter(f, T)
<1>9. G = [U \in SUBSET T |-> IF U = {} THEN 0 ELSE f[Picked(U)] + G[Rest(U)]]
  BY <1>8 DEF IsIter
<1>10. \A U \in SUBSET T : G[U] = IF U = {} THEN 0 ELSE f[Picked(U)] + G[Rest(U)]
  <2> HIDE DEF G
  <2> QED BY <1>9
<1>11. \A U \in SUBSET T : F[U] = IF U = {} THEN 0 ELSE f[Picked(U)] + F[Rest(U)]
  BY <1>5, <1>6
<1> HIDE DEF F, G
<1>12. \A U \in SUBSET T : G[U] = F[U]
  <2> DEFINE Odd == {U \in SUBSET T : G[U] # F[U]}
  <2>1. SUFFICES ASSUME Odd # {} PROVE FALSE
    OBVIOUS
  <2>2. PICK U \in Odd : \A V \in Odd : V \subseteq U => V = U
    <3>1. Odd \in SUBSET (SUBSET T) /\ IsFiniteSet(T)
      BY <1>3, FS_Subset
    <3> HIDE DEF Odd
    <3> QED BY <2>1, <3>1, SmallestSet
  <2>3. U \in SUBSET T /\ G[U] # F[U]
    OBVIOUS
  <2>4. U # {}
    BY <1>10, <1>11, <2>3
  <2>5. G[Rest(U)] = F[Rest(U)]
    BY <1>6, <2>2, <2>3, <2>4 DEF Rest
  <2> QED BY <1>10, <1>11, <2>3, <2>5
<1>13. \A U \in SUBSET T : G[U] = Sum(f, U)
  <2>1. G[T] = Sum(f, T)
    BY SumIter DEF G
  <2> QED BY <1>5, <1>12, <2>1
<1> QED BY <1>3, <1>8, <1>13 DEF G

(* The empty sum is zero, and another sum starts with one element. *)
LEMMA SumUnfold ==
  ASSUME NEW f, NEW S, IsFiniteSet(S)
  PROVE  /\ Sum(f, {}) = 0
         /\ S # {} => Sum(f, S) = f[Picked(S)] + Sum(f, Rest(S))
<1> DEFINE g == Iter(f, S)
<1>1. /\ g = [U \in SUBSET S |-> IF U = {} THEN 0 ELSE f[Picked(U)] + g[Rest(U)]]
      /\ \A U \in SUBSET S : g[U] = Sum(f, U)
  BY IterExists DEF IsIter
<1>2. Rest(S) \in SUBSET S
  BY DEF Rest
<1> HIDE DEF g
<1> QED BY <1>1, <1>2

(* The empty sum. *)
LEMMA SumEmpty == \A f, S : S = {} => Sum(f, S) = 0
<1> SUFFICES ASSUME NEW f, NEW S, S = {} PROVE Sum(f, S) = 0
  OBVIOUS
<1>1. IsFiniteSet({})
  BY FS_EmptySet
<1>2. Sum(f, {}) = 0
  BY <1>1, SumUnfold
<1> QED BY <1>2

(* A sum of integers is one. *)
LEMMA SumInt ==
  ASSUME NEW f, NEW S, IsFiniteSet(S), \A x \in S : f[x] \in Int
  PROVE  Sum(f, S) \in Int
<1> DEFINE Bad == {T \in SUBSET S : Sum(f, T) \notin Int}
<1>1. SUFFICES ASSUME Bad # {} PROVE FALSE
  OBVIOUS
<1>2. PICK T \in Bad : \A U \in Bad : U \subseteq T => U = T
  <2>1. Bad \in SUBSET (SUBSET S)
    OBVIOUS
  <2> HIDE DEF Bad
  <2> QED BY <1>1, <2>1, SmallestSet
<1>3. T \in SUBSET S /\ Sum(f, T) \notin Int /\ IsFiniteSet(T)
  BY FS_Subset
<1>4. T # {}
  BY <1>3, SumEmpty
<1>5. Picked(T) \in T /\ Rest(T) \in SUBSET S /\ Rest(T) # T /\ Rest(T) \subseteq T
  BY <1>3, <1>4, PickedIn DEF Rest
<1>6. Sum(f, Rest(T)) \in Int
  BY <1>2, <1>5
<1>7. f[Picked(T)] \in Int
  BY <1>3, <1>5
<1> QED BY <1>3, <1>4, <1>6, <1>7, SumUnfold

(* An element can be taken out first. *)
LEMMA SumRemove ==
  ASSUME NEW f, NEW S, IsFiniteSet(S), \A x \in S : f[x] \in Int, NEW x \in S
  PROVE  Sum(f, S) = f[x] + Sum(f, S \ {x})
<1> DEFINE Bad == {T \in SUBSET S : \E y \in T : Sum(f, T) # f[y] + Sum(f, T \ {y})}
<1>1. SUFFICES ASSUME Bad # {} PROVE FALSE
  OBVIOUS
<1>2. PICK T \in Bad : \A U \in Bad : U \subseteq T => U = T
  <2>1. Bad \in SUBSET (SUBSET S)
    OBVIOUS
  <2> HIDE DEF Bad
  <2> QED BY <1>1, <2>1, SmallestSet
<1>3. PICK y \in T : Sum(f, T) # f[y] + Sum(f, T \ {y})
  OBVIOUS
<1>4. T \in SUBSET S /\ IsFiniteSet(T) /\ T # {}
  BY <1>3, FS_Subset
<1> DEFINE p == Picked(T)
<1>5. p \in T /\ Sum(f, T) = f[p] + Sum(f, T \ {p})
  BY <1>4, PickedIn, SumUnfold DEF Rest
<1>6. p # y
  BY <1>3, <1>5
<1> HIDE DEF p
<1> DEFINE U == T \ {p}
           V == T \ {y}
           W == T \ {p, y}
<1>7. U \notin Bad /\ V \notin Bad /\ U \in SUBSET S /\ V \in SUBSET S /\ y \in U /\ p \in V
  BY <1>2, <1>3, <1>4, <1>5, <1>6
<1>8. Sum(f, U) = f[y] + Sum(f, U \ {y}) /\ Sum(f, V) = f[p] + Sum(f, V \ {p})
  BY <1>7
<1>9. U \ {y} = W /\ V \ {p} = W
  OBVIOUS
<1>10. Sum(f, W) \in Int
  <2>1. IsFiniteSet(W) /\ \A z \in W : f[z] \in Int
    BY <1>4, FS_Subset
  <2> HIDE DEF W
  <2> QED BY <2>1, SumInt
<1>11. f[p] \in Int /\ f[y] \in Int
  BY <1>4, <1>5, <1>3
<1> HIDE DEF U, V, W
<1>12. Sum(f, T) = f[p] + Sum(f, U)
  BY <1>5 DEF U
<1>13. Sum(f, T) # f[y] + Sum(f, V)
  BY <1>3 DEF V
<1>14. Sum(f, U) = f[y] + Sum(f, W) /\ Sum(f, V) = f[p] + Sum(f, W)
  BY <1>8, <1>9
<1> DEFINE a == f[p]
           b == f[y]
           c == Sum(f, W)
<1>15. a \in Int /\ b \in Int /\ c \in Int
  BY <1>10, <1>11
<1>16. Sum(f, T) = a + (b + c) /\ Sum(f, T) # b + (a + c)
  BY <1>12, <1>13, <1>14
<1> HIDE DEF a, b, c
<1> QED BY <1>15, <1>16

(* An element is added. *)
LEMMA SumAdd ==
  ASSUME NEW f, NEW S, IsFiniteSet(S), NEW x, x \notin S, \A y \in S \cup {x} : f[y] \in Int
  PROVE  Sum(f, S \cup {x}) = f[x] + Sum(f, S)
<1>1. IsFiniteSet(S \cup {x}) /\ x \in S \cup {x} /\ (S \cup {x}) \ {x} = S
  BY FS_AddElement
<1> DEFINE T == S \cup {x}
<1> HIDE DEF T
<1>2. \A y \in T : f[y] \in Int
  BY DEF T
<1>3. Sum(f, T) = f[x] + Sum(f, T \ {x})
  BY <1>1, <1>2, SumRemove DEF T
<1> QED BY <1>1, <1>3 DEF T

(* A sum of natural numbers is one. *)
LEMMA SumNat ==
  ASSUME NEW f, NEW S, IsFiniteSet(S), \A x \in S : f[x] \in Nat
  PROVE  Sum(f, S) \in Nat
<1> DEFINE Bad == {T \in SUBSET S : Sum(f, T) \notin Nat}
<1>1. SUFFICES ASSUME Bad # {} PROVE FALSE
  OBVIOUS
<1>2. PICK T \in Bad : \A U \in Bad : U \subseteq T => U = T
  <2>1. Bad \in SUBSET (SUBSET S)
    OBVIOUS
  <2> HIDE DEF Bad
  <2> QED BY <1>1, <2>1, SmallestSet
<1>3. T \in SUBSET S /\ Sum(f, T) \notin Nat /\ IsFiniteSet(T)
  BY FS_Subset
<1>4. T # {}
  BY <1>3, SumEmpty
<1>5. Picked(T) \in T /\ Rest(T) \in SUBSET S /\ Rest(T) # T /\ Rest(T) \subseteq T
  BY <1>3, <1>4, PickedIn DEF Rest
<1>6. Sum(f, Rest(T)) \in Nat
  BY <1>2, <1>5
<1>7. f[Picked(T)] \in Nat
  BY <1>3, <1>5
<1> QED BY <1>3, <1>4, <1>6, <1>7, SumUnfold

(* The sum of pointwise sums. *)
LEMMA SumPlus ==
  ASSUME NEW f, NEW g, NEW h, NEW S, IsFiniteSet(S),
         \A x \in S : f[x] \in Int /\ g[x] \in Int /\ h[x] = f[x] + g[x]
  PROVE  Sum(h, S) = Sum(f, S) + Sum(g, S)
<1> DEFINE Bad == {T \in SUBSET S : Sum(h, T) # Sum(f, T) + Sum(g, T)}
<1>1. SUFFICES ASSUME Bad # {} PROVE FALSE
  OBVIOUS
<1>2. PICK T \in Bad : \A U \in Bad : U \subseteq T => U = T
  <2>1. Bad \in SUBSET (SUBSET S)
    OBVIOUS
  <2> HIDE DEF Bad
  <2> QED BY <1>1, <2>1, SmallestSet
<1>3. T \in SUBSET S /\ Sum(h, T) # Sum(f, T) + Sum(g, T) /\ IsFiniteSet(T)
  BY FS_Subset
<1>4. T # {}
  BY <1>3, SumEmpty
<1> DEFINE p == Picked(T)
           R == Rest(T)
<1>5. p \in T /\ R \in SUBSET S /\ R # T /\ R \subseteq T
  BY <1>3, <1>4, PickedIn DEF Rest
<1>6. Sum(h, R) = Sum(f, R) + Sum(g, R)
  BY <1>2, <1>5
<1>7. f[p] \in Int /\ g[p] \in Int /\ h[p] = f[p] + g[p]
  BY <1>3, <1>5
<1>8. Sum(f, R) \in Int /\ Sum(g, R) \in Int
  <2>1. IsFiniteSet(R) /\ \A x \in R : f[x] \in Int /\ g[x] \in Int
    BY <1>5, FS_Subset
  <2> HIDE DEF R
  <2> QED BY <2>1, SumInt
<1>9. /\ Sum(f, T) = f[p] + Sum(f, R)
      /\ Sum(g, T) = g[p] + Sum(g, R)
      /\ Sum(h, T) = h[p] + Sum(h, R)
  BY <1>3, <1>4, SumUnfold
<1> HIDE DEF p, R
<1> QED BY <1>3, <1>6, <1>7, <1>8, <1>9

(* Sums of functions that agree. *)
LEMMA SumSame ==
  ASSUME NEW f, NEW g, NEW S, IsFiniteSet(S), \A x \in S : f[x] = g[x]
  PROVE  Sum(f, S) = Sum(g, S)
<1> DEFINE Bad == {T \in SUBSET S : Sum(f, T) # Sum(g, T)}
<1>1. SUFFICES ASSUME Bad # {} PROVE FALSE
  OBVIOUS
<1>2. PICK T \in Bad : \A U \in Bad : U \subseteq T => U = T
  <2>1. Bad \in SUBSET (SUBSET S)
    OBVIOUS
  <2> HIDE DEF Bad
  <2> QED BY <1>1, <2>1, SmallestSet
<1>3. T \in SUBSET S /\ Sum(f, T) # Sum(g, T) /\ IsFiniteSet(T)
  BY FS_Subset
<1>4. T # {}
  BY <1>3, SumEmpty
<1>5. Picked(T) \in T /\ Rest(T) \in SUBSET S /\ Rest(T) # T /\ Rest(T) \subseteq T
  BY <1>3, <1>4, PickedIn DEF Rest
<1>6. Sum(f, Rest(T)) = Sum(g, Rest(T)) /\ f[Picked(T)] = g[Picked(T)]
  BY <1>2, <1>3, <1>5
<1> QED BY <1>3, <1>4, <1>6, SumUnfold

(* The sum over two disjoint sets. *)
LEMMA SumUnion ==
  ASSUME NEW f, NEW A, NEW B, IsFiniteSet(A), IsFiniteSet(B), A \cap B = {},
         \A x \in A \cup B : f[x] \in Int
  PROVE  Sum(f, A \cup B) = Sum(f, A) + Sum(f, B)
<1> DEFINE Bad == {T \in SUBSET B : Sum(f, A \cup T) # Sum(f, A) + Sum(f, T)}
<1>1. SUFFICES ASSUME Bad # {} PROVE FALSE
  OBVIOUS
<1>2. PICK T \in Bad : \A U \in Bad : U \subseteq T => U = T
  <2>1. Bad \in SUBSET (SUBSET B)
    OBVIOUS
  <2> HIDE DEF Bad
  <2> QED BY <1>1, <2>1, SmallestSet
<1>3. T \in SUBSET B /\ Sum(f, A \cup T) # Sum(f, A) + Sum(f, T) /\ IsFiniteSet(T)
  BY FS_Subset
<1>4. T # {}
  <2>1. A \cup {} = A /\ Sum(f, A) \in Int
    BY SumInt
  <2> QED BY <1>3, <2>1, SumEmpty
<1> DEFINE p == Picked(T)
           R == Rest(T)
<1>5. p \in T /\ R \in SUBSET B /\ R # T /\ R \subseteq T /\ T = R \cup {p} /\ p \notin R
  BY <1>3, <1>4, PickedIn DEF Rest
<1> HIDE DEF p, R
<1>6. Sum(f, A \cup R) = Sum(f, A) + Sum(f, R)
  BY <1>2, <1>5
<1>7. IsFiniteSet(R) /\ IsFiniteSet(A \cup R)
  BY <1>3, <1>5, FS_Subset, FS_Union
<1>8. Sum(f, T) = f[p] + Sum(f, R)
  BY <1>3, <1>5, <1>7, SumAdd
<1>9. Sum(f, A \cup T) = f[p] + Sum(f, A \cup R)
  <2> DEFINE Q == A \cup R
  <2>1. p \notin Q /\ A \cup T = Q \cup {p} /\ \A y \in Q \cup {p} : f[y] \in Int
    BY <1>3, <1>5
  <2>2. IsFiniteSet(Q)
    BY <1>7
  <2> HIDE DEF Q
  <2>3. Sum(f, Q \cup {p}) = f[p] + Sum(f, Q)
    BY <2>1, <2>2, SumAdd
  <2> QED BY <2>1, <2>3 DEF Q
<1>10. Sum(f, A) \in Int /\ Sum(f, R) \in Int /\ f[p] \in Int
  BY <1>3, <1>5, <1>7, SumInt
<1> QED BY <1>3, <1>6, <1>8, <1>9, <1>10

(* The sum of a function that is zero but for one element. *)
LEMMA SumSingle ==
  ASSUME NEW f, NEW S, IsFiniteSet(S), NEW x \in S, f[x] \in Int,
         \A y \in S \ {x} : f[y] = 0
  PROVE  Sum(f, S) = f[x]
<1> DEFINE R == S \ {x}
           zero == [y \in R |-> 0]
<1>1. IsFiniteSet(R) /\ \A y \in S : f[y] \in Int
  BY FS_RemoveElement
<1>2. Sum(f, S) = f[x] + Sum(f, R)
  BY <1>1, SumRemove
<1>3. Sum(f, R) = Sum(f, R) + Sum(f, R)
  <2>1. \A y \in R : f[y] \in Int /\ f[y] = f[y] + f[y]
    OBVIOUS
  <2> HIDE DEF R
  <2> QED BY <1>1, <2>1, SumPlus
<1>4. Sum(f, R) \in Int
  <2>1. \A y \in R : f[y] \in Int
    BY <1>1
  <2> HIDE DEF R
  <2> QED BY <1>1, <2>1, SumInt
<1> DEFINE c == Sum(f, R)
<1>5. Sum(f, S) = f[x] + c /\ c = c + c /\ c \in Int
  BY <1>2, <1>3, <1>4
<1> HIDE DEF c
<1>6. c = 0
  BY <1>5
<1> QED BY <1>5, <1>6

(* A finite set of numbers that is not empty has a largest one. *)
LEMMA HasLargest ==
  ASSUME NEW S, IsFiniteSet(S), \A n \in S : n \in Nat, S # {}
  PROVE  \E x \in S : \A y \in S : y <= x
<1> DEFINE Bad == {T \in SUBSET S : T # {} /\ ~\E x \in T : \A y \in T : y <= x}
<1>1. SUFFICES ASSUME Bad # {} PROVE FALSE
  OBVIOUS
<1>2. PICK T \in Bad : \A U \in Bad : U \subseteq T => U = T
  <2>1. Bad \in SUBSET (SUBSET S)
    OBVIOUS
  <2> HIDE DEF Bad
  <2>2. IsFiniteSet(S)
    OBVIOUS
  <2> QED BY <1>1, <2>1, <2>2, SmallestSet
<1>3. PICK p \in T : TRUE
  OBVIOUS
<1>4. CASE T = {p}
  BY <1>3, <1>4
<1>5. CASE T # {p}
  <2> DEFINE R == T \ {p}
  <2>1. R # {} /\ R \in SUBSET S /\ R # T /\ R \subseteq T
    BY <1>3, <1>5
  <2>2. PICK m \in R : \A y \in R : y <= m
    BY <1>2, <2>1
  <2>3. m \in Nat /\ p \in Nat /\ R \subseteq Nat
    BY <2>1, <2>2
  <2>4. CASE m <= p
    BY <1>2, <2>2, <2>3, <2>4
  <2>5. CASE p <= m
    BY <1>2, <2>2, <2>3, <2>5
  <2> QED BY <2>3, <2>4, <2>5
<1> QED BY <1>4, <1>5

(* One for each of the r first elements of a set of numbers. *)
First(S, r) == [m \in S |-> IF Cardinality({k \in S : k < m}) < r THEN 1 ELSE 0]

(* There are r of them, unless the set is smaller. *)
LEMMA SumFirst ==
  ASSUME NEW S, IsFiniteSet(S), \A n \in S : n \in Nat, NEW r \in Nat
  PROVE  Sum(First(S, r), S) = IF r < Cardinality(S) THEN r ELSE Cardinality(S)
<1> DEFINE least(n) == IF r < n THEN r ELSE n
<1> DEFINE Bad == {T \in SUBSET S : Sum(First(T, r), T) # least(Cardinality(T))}
<1>1. SUFFICES ASSUME Bad # {} PROVE FALSE
  OBVIOUS
<1>2. PICK T \in Bad : \A U \in Bad : U \subseteq T => U = T
  <2>1. Bad \in SUBSET (SUBSET S)
    OBVIOUS
  <2> HIDE DEF Bad
  <2>2. IsFiniteSet(S)
    OBVIOUS
  <2> QED BY <1>1, <2>1, <2>2, SmallestSet
<1>3. T \in SUBSET S /\ IsFiniteSet(T) /\ Sum(First(T, r), T) # least(Cardinality(T))
  BY FS_Subset
<1>4. T # {}
  <2>1. SUFFICES ASSUME T = {} PROVE FALSE
    OBVIOUS
  <2>2. Cardinality(T) = 0 /\ Sum(First(T, r), T) = 0
    BY <2>1, FS_EmptySet, SumEmpty
  <2> QED BY <1>3, <2>2
<1>5. PICK x \in T : \A y \in T : y <= x
  BY <1>3, <1>4, HasLargest
<1> DEFINE R == T \ {x}
           n == Cardinality(R)
<1>6. R \in SUBSET S /\ R # T /\ R \subseteq T /\ x \notin R /\ T = R \cup {x} /\ T \ {x} = R
  BY <1>3, <1>5
<1>7. IsFiniteSet(R) /\ n \in Nat /\ Cardinality(T) = n + 1
  <2>1. IsFiniteSet(R)
    BY <1>3, FS_Subset
  <2>2. n \in Nat
    BY <2>1, FS_CardinalityType
  <2>3. Cardinality(R \cup {x}) = n + 1
    BY <1>6, <2>1, FS_AddElement
  <2> QED BY <1>6, <2>1, <2>2, <2>3
<1>8. Sum(First(R, r), R) = least(n)
  BY <1>2, <1>6
<1>9. Sum(First(T, r), R) = Sum(First(R, r), R)
  <2>1. ASSUME NEW m \in R PROVE First(T, r)[m] = First(R, r)[m]
    <3>1. m \in Nat /\ x \in Nat /\ m <= x /\ m \in T
      BY <1>3, <1>5, <1>6, <2>1
    <3>2. {k \in T : k < m} = {k \in R : k < m}
      BY <1>6, <3>1
    <3> QED BY <3>1, <3>2 DEF First
  <2> HIDE DEF R
  <2> QED BY <1>7, <2>1, SumSame
<1>10. First(T, r)[x] = IF n < r THEN 1 ELSE 0
  <2>1. {k \in T : k < x} = R
    <3>1. \A k \in T : k \in Nat /\ x \in Nat /\ k <= x
      BY <1>3, <1>5
    <3>2. \A k \in T : k < x <=> k # x
      BY <3>1
    <3> QED BY <3>2
  <2> QED BY <1>5, <2>1 DEF First
<1> HIDE DEF R, n
<1>11. Sum(First(T, r), T) = First(T, r)[x] + Sum(First(T, r), R)
  <2>1. \A m \in T : First(T, r)[m] \in Int
    BY DEF First
  <2> DEFINE f == First(T, r)
  <2>2. \A m \in T : f[m] \in Int
    BY <2>1
  <2> HIDE DEF f
  <2>3. Sum(f, T) = f[x] + Sum(f, T \ {x})
    BY <1>3, <1>5, <2>2, SumRemove
  <2> QED BY <1>6, <2>3 DEF f
<1> DEFINE s == Sum(First(T, r), T)
<1>12. s = (IF n < r THEN 1 ELSE 0) + least(n)
  BY <1>8, <1>9, <1>10, <1>11
<1>13. s # least(n + 1)
  BY <1>3, <1>7
<1> HIDE DEF s
<1> QED BY <1>7, <1>12, <1>13

(* The same summand for every element. *)
LEMMA SumConstant ==
  ASSUME NEW f, NEW S, IsFiniteSet(S), NEW q \in Nat, \A x \in S : f[x] = q
  PROVE  Sum(f, S) = Cardinality(S) * q
<1> DEFINE Bad == {T \in SUBSET S : Sum(f, T) # Cardinality(T) * q}
<1>1. SUFFICES ASSUME Bad # {} PROVE FALSE
  OBVIOUS
<1>2. PICK T \in Bad : \A U \in Bad : U \subseteq T => U = T
  <2>1. Bad \in SUBSET (SUBSET S)
    OBVIOUS
  <2> HIDE DEF Bad
  <2> QED BY <1>1, <2>1, SmallestSet
<1>3. T \in SUBSET S /\ IsFiniteSet(T) /\ Sum(f, T) # Cardinality(T) * q
  BY FS_Subset
<1>4. T # {}
  <2>1. SUFFICES ASSUME T = {} PROVE FALSE
    OBVIOUS
  <2>2. Cardinality(T) = 0 /\ Sum(f, T) = 0
    BY <2>1, FS_EmptySet, SumEmpty
  <2> QED BY <1>3, <2>2
<1>5. PICK x \in T : TRUE
  BY <1>4
<1> DEFINE R == T \ {x}
           n == Cardinality(R)
<1>6. R \in SUBSET S /\ R # T /\ R \subseteq T /\ x \notin R /\ T = R \cup {x} /\ T \ {x} = R
  BY <1>3, <1>5
<1>7. n \in Nat /\ Cardinality(T) = n + 1
  <2>1. IsFiniteSet(R)
    BY <1>3, FS_Subset
  <2>2. n \in Nat
    BY <2>1, FS_CardinalityType
  <2>3. Cardinality(R \cup {x}) = n + 1
    BY <1>6, <2>1, FS_AddElement
  <2> QED BY <1>6, <2>2, <2>3
<1>8. Sum(f, R) = n * q
  BY <1>2, <1>6
<1>9. Sum(f, T) = f[x] + Sum(f, R)
  <2>1. \A y \in T : f[y] \in Int
    BY <1>3
  <2> QED BY <1>3, <1>5, <1>6, <2>1, SumRemove
<1>10. f[x] = q
  BY <1>3, <1>5
<1> HIDE DEF R, n
<1>11. q + n * q = (n + 1) * q
  BY <1>7
<1> QED BY <1>3, <1>7, <1>8, <1>9, <1>10, <1>11

-----------------------------------------------------------------------------
(***************************************************************************)
(* The transactions and what they move.                                    *)
(***************************************************************************)
(* The LBTC in finitely many outputs is a natural number. *)
LEMMA TotalType ==
  ASSUME NEW outs \in SUBSET Outpoint, IsFiniteSet(outs)
  PROVE  Total(outs) = Sum(Value, outs) /\ Total(outs) \in Nat
<1>1. Total(outs) = Sum(Value, outs)
  BY DEF Total, Sum
<1>2. \A o \in outs : Value[o] \in Nat
  BY TxAssumption
<1> QED BY <1>1, <1>2, SumNat

(* Part of the inputs or outputs of a transaction. *)
LEMMA PartFinite ==
  ASSUME NEW t \in Tx, NEW outs, outs \subseteq Ins[t] \/ outs \subseteq Outs[t]
  PROVE  outs \in SUBSET Outpoint /\ IsFiniteSet(outs)
  BY TxAssumption, FS_Subset

(* What a transaction takes from the Treasury is a natural number. *)
LEMMA TakenType == \A acc \in Accounts, t \in Tx : Taken(acc, t) \in Nat
<1> SUFFICES ASSUME NEW acc \in Accounts, NEW t \in Tx PROVE Taken(acc, t) \in Nat
  OBVIOUS
<1>1. Ins[t] \cap acc.treasury \subseteq Ins[t]
  OBVIOUS
<1> QED BY <1>1, PartFinite, TotalType DEF Taken

(* What a transaction gives to the Treasury is a natural number. *)
LEMMA GivenType == \A t \in Tx : Given(t) \in Nat
<1> SUFFICES ASSUME NEW t \in Tx PROVE Given(t) \in Nat
  OBVIOUS
<1>1. {o \in Outs[t] : Value[o] > 0} \subseteq Outs[t]
  OBVIOUS
<1> QED BY <1>1, PartFinite, TotalType DEF Given

(* The cost of an exchange is an integer. *)
LEMMA CostType == \A t \in Tx : Cost(t) \in Int
<1> SUFFICES ASSUME NEW t \in Tx PROVE Cost(t) \in Int
  OBVIOUS
<1>1. {o \in Ins[t] : Value[o] > 0} \subseteq Ins[t]
  OBVIOUS
<1>2. Total({o \in Ins[t] : Value[o] > 0}) \in Nat
  BY <1>1, PartFinite, TotalType
<1> QED BY <1>2, GivenType DEF Cost

(* The clamped difference of two natural numbers is one. *)
LEMMA LargerType ==
  \A a, b \in Nat : Larger(a, b) \in Nat /\ (a > b => Larger(a, b) = a - b)
  BY DEF Larger

(* credit_deposit gives every member a natural number. *)
LEMMA SharesType ==
  ASSUME NEW members \in {OldMembers, NewMembers}, NEW tag, NEW value \in Nat
  PROVE  Shares(members, tag, value) \in [Member -> Nat]
<1> DEFINE n == Cardinality(members)
<1>1. IsFiniteSet(members) /\ members # {}
  BY MemberAssumption, FS_Subset
<1>2. n \in Nat /\ n # 0
  BY <1>1, FS_CardinalityType, FS_EmptySet
<1> HIDE DEF n
<1>3. value \div n \in Nat /\ value % n \in Nat
  BY <1>2
<1> QED BY <1>3 DEF Shares, n

(* A lock whose exchange its member can pay for. *)
Covered(acc) ==
  \A m \in Member : acc.lock[m] # None => acc.amount[m] >= Cost(acc.lock[m].tx)

(* The cost of the exchange a member is locked for is an integer. *)
LEMMA LockCost ==
  ASSUME NEW acc \in Accounts, NEW m \in Member, acc.lock[m] # None
  PROVE  acc.lock[m].tx \in Tx /\ Cost(acc.lock[m].tx) \in Int
  BY CostType DEF Accounts, Lock

(* Moving Treasury outputs touches no balance and no lock. *)
LEMMA MovedCovered ==
  ASSUME NEW acc \in Accounts, NEW t \in Tx
  PROVE  /\ Moved(acc, t) \in Accounts
         /\ Moved(acc, t).amount = acc.amount
         /\ Moved(acc, t).deficit = acc.deficit
         /\ Moved(acc, t).lock = acc.lock
  BY TxAssumption DEF Moved, Accounts

(* A credit never lowers a balance and touches no lock. *)
LEMMA CreditedCovered ==
  ASSUME NEW acc \in Accounts, Covered(acc), NEW share \in [Member -> Nat]
  PROVE  Credited(acc, share) \in Accounts /\ Covered(Credited(acc, share))
<1> DEFINE new == Credited(acc, share)
<1> DEFINE amount == [m \in Member |-> acc.amount[m] + Larger(share[m], acc.deficit[m])]
           deficit == [m \in Member |-> Larger(acc.deficit[m], share[m])]
<1>1. new = [acc EXCEPT !.amount = amount, !.deficit = deficit]
  BY DEF Credited
<1> HIDE DEF amount, deficit
<1>2. new = [treasury |-> acc.treasury, amount |-> amount,
             deficit |-> deficit, lock |-> acc.lock]
  BY <1>1 DEF Accounts
<1>3. /\ new.lock = acc.lock
      /\ new.treasury = acc.treasury
      /\ new.amount = [m \in Member |-> acc.amount[m] + Larger(share[m], acc.deficit[m])]
      /\ new.deficit = [m \in Member |-> Larger(acc.deficit[m], share[m])]
      /\ new = [treasury |-> new.treasury, amount |-> new.amount,
                deficit |-> new.deficit, lock |-> new.lock]
  BY <1>2 DEF amount, deficit
<1>4. \A m \in Member : /\ Larger(share[m], acc.deficit[m]) \in Nat
                        /\ Larger(acc.deficit[m], share[m]) \in Nat
                        /\ acc.amount[m] \in Nat
  BY LargerType DEF Accounts
<1> HIDE DEF new
<1>5. new.amount \in [Member -> Nat] /\ new.deficit \in [Member -> Nat]
  BY <1>3, <1>4
<1>6. new \in Accounts
  BY <1>3, <1>5 DEF Accounts
<1>7. \A m \in Member : new.amount[m] >= acc.amount[m]
  BY <1>3, <1>4
<1>8. Covered(new)
  BY <1>3, <1>4, <1>5, <1>7, LockCost DEF Covered
<1> QED BY <1>6, <1>8 DEF new

(* A charge settles the lock of the member it charges. *)
LEMMA ChargedCovered ==
  ASSUME NEW acc \in Accounts, Covered(acc), NEW m \in Member, NEW cost \in Nat
  PROVE  Charged(acc, m, cost) \in Accounts /\ Covered(Charged(acc, m, cost))
<1> DEFINE new == Charged(acc, m, cost)
<1> DEFINE amount == [acc.amount EXCEPT ![m] = Larger(acc.amount[m], cost)]
           deficit == [acc.deficit EXCEPT ![m] = acc.deficit[m] + Larger(cost, acc.amount[m])]
           lock == [acc.lock EXCEPT ![m] = None]
<1>1. new = [acc EXCEPT !.amount = amount, !.deficit = deficit, !.lock = lock]
  BY DEF Charged, Accounts
<1> HIDE DEF amount, deficit, lock
<1>2. new = [treasury |-> acc.treasury, amount |-> amount,
             deficit |-> deficit, lock |-> lock]
  BY <1>1 DEF Accounts
<1>3. /\ new.treasury = acc.treasury
      /\ new.amount = [acc.amount EXCEPT ![m] = Larger(acc.amount[m], cost)]
      /\ new.deficit = [acc.deficit EXCEPT ![m] = acc.deficit[m] + Larger(cost, acc.amount[m])]
      /\ new.lock = [acc.lock EXCEPT ![m] = None]
      /\ new = [treasury |-> new.treasury, amount |-> new.amount,
                deficit |-> new.deficit, lock |-> new.lock]
  BY <1>2 DEF amount, deficit, lock
<1>4. /\ Larger(acc.amount[m], cost) \in Nat
      /\ Larger(cost, acc.amount[m]) \in Nat
      /\ acc.amount \in [Member -> Nat] /\ acc.deficit \in [Member -> Nat]
      /\ acc.lock \in [Member -> Lock \cup {None}]
      /\ acc.treasury \in SUBSET Outpoint
  BY LargerType DEF Accounts
<1> HIDE DEF new
<1>5. new \in Accounts
  BY <1>3, <1>4 DEF Accounts
<1>6. Covered(new)
  BY <1>3, <1>4 DEF Covered
<1> QED BY <1>5, <1>6 DEF new

(* apply_block_in keeps every lock covered. *)
LEMMA ApplyTxCovered ==
  ASSUME NEW acc \in Accounts, Covered(acc), NEW t \in Body,
         NEW members \in {OldMembers, NewMembers}, Accountable(acc, t, members)
  PROVE  ApplyTx(acc, t, members) \in Accounts /\ Covered(ApplyTx(acc, t, members))
<1>1. CASE t = NoTx
  BY <1>1 DEF ApplyTx
<1>2. CASE t # NoTx /\ Taken(acc, t) = 0
  <2>1. t \in Tx
    BY <1>2 DEF Body
  <2>2. Moved(acc, t) \in Accounts /\ Covered(Moved(acc, t))
    BY <2>1, MovedCovered DEF Covered
  <2>3. Shares(members, Tag[t], Given(t)) \in [Member -> Nat]
    BY <2>1, GivenType, SharesType
  <2> QED BY <1>2, <2>2, <2>3, CreditedCovered DEF ApplyTx
<1>3. CASE t # NoTx /\ Taken(acc, t) # 0
  <2>1. t \in Tx
    BY <1>3 DEF Body
  <2>2. Moved(acc, t) \in Accounts /\ Covered(Moved(acc, t))
    BY <2>1, MovedCovered DEF Covered
  <2>3. Marker[t] \in Member /\ Given(t) <= Taken(acc, t)
    BY <1>3, MemberAssumption DEF Accountable
  <2>4. Taken(acc, t) - Given(t) \in Nat
    BY <2>1, <2>3, GivenType, TakenType
  <2> QED BY <1>3, <2>2, <2>3, <2>4, ChargedCovered DEF ApplyTx
<1> QED BY <1>1, <1>2, <1>3

(* A block keeps every lock covered. *)
LEMMA ApplyBlockCovered ==
  ASSUME NEW acc \in Accounts, Covered(acc), NEW b \in Block,
         NEW members \in {OldMembers, NewMembers}, BlockAccountable(acc, b, members)
  PROVE  ApplyBlock(acc, b, members) \in Accounts /\ Covered(ApplyBlock(acc, b, members))
<1>1. b.txs[1] \in Body /\ b.txs[2] \in Body
  BY DEF Block
<1>2. /\ ApplyTx(acc, b.txs[1], members) \in Accounts
      /\ Covered(ApplyTx(acc, b.txs[1], members))
  BY <1>1, ApplyTxCovered DEF BlockAccountable
<1> QED BY <1>1, <1>2, ApplyTxCovered DEF BlockAccountable, ApplyBlock

(* Locking a member for an exchange it can pay for, or for none. *)
LEMMA LockedCovered ==
  ASSUME NEW acc \in Accounts, Covered(acc), NEW m \in Member,
         NEW l \in Lock \cup {None}, l # None => acc.amount[m] >= Cost(l.tx)
  PROVE  Locked(acc, m, l) \in Accounts /\ Covered(Locked(acc, m, l))
<1> DEFINE new == Locked(acc, m, l)
<1>1. /\ new.treasury = acc.treasury
      /\ new.amount = acc.amount
      /\ new.deficit = acc.deficit
      /\ new.lock = [acc.lock EXCEPT ![m] = l]
      /\ new = [treasury |-> new.treasury, amount |-> new.amount,
                deficit |-> new.deficit, lock |-> new.lock]
  BY DEF Locked, Accounts
<1>2. /\ acc.amount \in [Member -> Nat] /\ acc.deficit \in [Member -> Nat]
      /\ acc.lock \in [Member -> Lock \cup {None}]
      /\ acc.treasury \in SUBSET Outpoint
  BY DEF Accounts
<1> HIDE DEF new
<1>3. new \in Accounts
  BY <1>1, <1>2 DEF Accounts
<1>4. Covered(new)
  BY <1>1, <1>2 DEF Covered
<1> QED BY <1>3, <1>4 DEF new

-----------------------------------------------------------------------------
(* The journal has a highest block, and a running sync is above it. *)
JournalOrdered ==
  /\ journal # {} => \E k \in journal : \A j \in journal : j.height <= k.height
  /\ sync.pc = "index" => sync.next > 0 /\ \A k \in journal : k.height < sync.next

(* The indexed tip is the height of a journal entry, or zero. *)
LEMMA IndexedTipType ==
  ASSUME TypeOK, JournalOrdered
  PROVE  /\ IndexedTip \in Nat
         /\ \A k \in journal : k.height <= IndexedTip
         /\ journal # {} => JournalTip # {}
<1>1. CASE journal = {}
  BY <1>1 DEF IndexedTip
<1>2. CASE journal # {}
  <2> DEFINE H == {k.height : k \in journal}
  <2>1. PICK k \in journal : \A j \in journal : j.height <= k.height
    BY <1>2 DEF JournalOrdered
  <2>2. H \subseteq Nat /\ k.height \in H /\ \A h \in H : h <= k.height
    BY <2>1 DEF TypeOK, Mark
  <2>3. Max(H) \in H /\ \A h \in H : h <= Max(H)
    <3>1. \A h \in H : k.height >= h
      BY <2>2
    <3> HIDE DEF H
    <3>2. \E x \in H : \A y \in H : x >= y
      BY <2>2, <3>1
    <3>3. Max(H) \in H /\ \A y \in H : Max(H) >= y
      BY <3>2 DEF Max
    <3> QED BY <2>2, <3>3
  <2>4. IndexedTip = Max(H)
    BY <1>2 DEF IndexedTip
  <2>5. IndexedTip \in Nat /\ \A j \in journal : j.height <= IndexedTip
    BY <2>2, <2>3, <2>4
  <2>6. \E j \in journal : j.height = IndexedTip
    BY <2>3, <2>4
  <2> QED BY <2>5, <2>6 DEF JournalTip
<1> QED BY <1>1, <1>2

(* Every height of the chain holds a block. *)
LEMMA ChainType == ASSUME TypeOK PROVE \A h \in 1 .. Len(chain) : chain[h] \in Block
  BY DEF TypeOK

(* The hash at a height is a number, zero where there is no block. *)
LEMMA HashType == ASSUME TypeOK, NEW h PROVE HashAt(h) \in Nat
<1>1. CASE h \in 1 .. Len(chain)
  BY <1>1, ChainType DEF HashAt, Block
<1>2. CASE h \notin 1 .. Len(chain)
  BY <1>2 DEF HashAt
<1> QED BY <1>1, <1>2

Inv == TypeOK /\ JournalOrdered /\ LocksAreCovered

(* A node starts in a state that satisfies the invariant. *)
LEMMA InitInv == Init => Inv
<1> SUFFICES ASSUME Init PROVE Inv
  OBVIOUS
<1>1. Idle \in SyncState
  BY DEF Idle, SyncState
<1>2. EmptyAccounts \in Accounts
  BY DEF EmptyAccounts, Accounts
<1>3. /\ [m \in Member |-> None] \in [Member -> Lock \cup {None}]
      /\ [m \in Member |-> None] \in [Member -> Tx \cup {None}]
      /\ [m \in Member |-> None]
           \in [Member -> [tx : Tx, stage : {"validated", "locked"}] \cup {None}]
  OBVIOUS
<1>4. chain \in Seq(Block)
  BY DEF Init
<1>5. TypeOK
  BY <1>1, <1>2, <1>3, <1>4 DEF Init, TypeOK
<1>6. JournalOrdered
  BY DEF Init, JournalOrdered, Idle
<1>7. LocksAreCovered
  BY DEF Init, LocksAreCovered, EmptyAccounts
<1> QED BY <1>5, <1>6, <1>7 DEF Inv

(* Steps of the chain and of the rest of the node. *)
LEMMA EnvironmentInv ==
  ASSUME Inv, Environment \/ FinalizeMigration \/ Crash
  PROVE  Inv'
<1> USE DEF Inv
<1>1. ASSUME NEW first \in Body, NEW second \in Body, Mine(first, second)
      PROVE  Inv'
  <2>1. [id |-> mined + 1, txs |-> <<first, second>>] \in Block
    BY DEF Block, TypeOK
  <2>2. chain' \in Seq(Block) /\ mined' \in Nat
    BY <1>1, <2>1 DEF Mine, TypeOK
  <2>3. TypeOK'
    BY <1>1, <2>2 DEF Mine, TypeOK, dbVars, memVars
  <2> QED BY <1>1, <2>3 DEF Mine, dbVars, memVars, JournalOrdered, LocksAreCovered
<1>2. CASE Abandon
  <2>1. chain' \in Seq(Block)
    BY <1>2 DEF Abandon, TypeOK
  <2>2. TypeOK'
    BY <1>2, <2>1 DEF Abandon, TypeOK, dbVars, memVars
  <2> QED BY <1>2, <2>2 DEF Abandon, dbVars, memVars, JournalOrdered, LocksAreCovered
<1>3. CASE FinalizeMigration
  <2>1. PICK h \in DOMAIN chain : migrations' = {[height |-> h, id |-> chain[h].id]}
    BY <1>3 DEF FinalizeMigration
  <2>2. h \in 1 .. Len(chain) /\ h \in Nat
    BY <2>1 DEF TypeOK
  <2>3. chain[h].id \in Nat
    BY <2>2, ChainType DEF Block
  <2>4. migrations' \subseteq Mark
    BY <2>1, <2>2, <2>3 DEF Mark
  <2>5. TypeOK'
    BY <1>3, <2>4 DEF FinalizeMigration, TypeOK, chainVars, memVars
  <2> QED BY <1>3, <2>5 DEF FinalizeMigration, chainVars, memVars, JournalOrdered, LocksAreCovered
<1>4. CASE Crash
  <2>1. Idle \in SyncState /\ Idle.pc # "index"
    BY DEF Idle, SyncState
  <2>2. /\ exchange' \in [Member -> [tx : Tx, stage : {"validated", "locked"}] \cup {None}]
        /\ decided' \in [Member -> Tx \cup {None}]
    BY <1>4 DEF Crash
  <2>3. TypeOK'
    BY <1>4, <2>1, <2>2 DEF Crash, TypeOK, chainVars, dbVars
  <2> QED BY <1>4, <2>1, <2>3 DEF Crash, chainVars, dbVars, JournalOrdered, LocksAreCovered
<1> QED BY <1>1, <1>2, <1>3, <1>4 DEF Environment

(* Steps of an exchange. *)
LEMMA ExchangeInv ==
  ASSUME Inv, NEW m \in Member, ExchangeStep(m)
  PROVE  Inv'
<1> USE DEF Inv
<1> DEFINE Flow == [tx : Tx, stage : {"validated", "locked"}] \cup {None}
<1>0. ledger \in Accounts /\ Covered(ledger)
  BY DEF TypeOK, LocksAreCovered, Covered
<1>1. ASSUME NEW t \in Tx, ValidateExchange(m, t) PROVE Inv'
  <2>1. exchange' \in [Member -> Flow]
    BY <1>1 DEF ValidateExchange, TypeOK
  <2>2. TypeOK'
    BY <1>1, <2>1 DEF ValidateExchange, TypeOK, chainVars, dbVars
  <2> QED BY <1>1, <2>2 DEF ValidateExchange, chainVars, dbVars, JournalOrdered, LocksAreCovered
<1>2. CASE LockExchange(m)
  <2> DEFINE t == exchange[m].tx
             l == [tx |-> t, final |-> FALSE]
  <2>1. t \in Tx /\ l \in Lock /\ l.tx = t
    BY <1>2 DEF LockExchange, TypeOK, Lock
  <2>2. exchange' \in [Member -> Flow]
    BY <1>2 DEF LockExchange, TypeOK
  <2>3. ledger' \in Accounts /\ Covered(ledger')
    <3>1. CASE CanLock(ledger, m, t)
      <4>1. ledger' = Locked(ledger, m, l)
        BY <1>2, <3>1 DEF LockExchange
      <4>2. ledger.amount[m] >= Cost(l.tx)
        BY <3>1, <2>1 DEF CanLock
      <4> QED BY <1>0, <2>1, <4>1, <4>2, LockedCovered
    <3>2. CASE ~CanLock(ledger, m, t)
      BY <1>0, <1>2, <3>2 DEF LockExchange
    <3> QED BY <3>1, <3>2
  <2>4. TypeOK'
    BY <1>2, <2>2, <2>3 DEF LockExchange, TypeOK, chainVars
  <2> QED BY <1>2, <2>3, <2>4 DEF LockExchange, chainVars, JournalOrdered, LocksAreCovered, Covered
<1>3. CASE FinalizeExchange(m)
  <2> DEFINE t == exchange[m].tx
             l == [tx |-> t, final |-> TRUE]
  <2>1. t \in Tx /\ l \in Lock /\ l.tx = t
    BY <1>3 DEF FinalizeExchange, TypeOK, Lock
  <2>2. exchange' \in [Member -> Flow]
    BY <1>3 DEF FinalizeExchange, TypeOK
  <2>3. ledger' \in Accounts /\ Covered(ledger')
    <3>1. CASE ledger' = ledger
      BY <1>0, <3>1
    <3>2. CASE ledger.lock[m] = [tx |-> t, final |-> FALSE] /\ ledger' = Locked(ledger, m, l)
      <4>1. ledger.lock[m] # None => ledger.amount[m] >= Cost(ledger.lock[m].tx)
        BY <1>0 DEF Covered
      <4>2. ledger.lock[m].tx = t
        BY <3>2
      <4>3. [tx |-> t, final |-> FALSE] # None
        <5>1. [tx |-> t, final |-> FALSE] \in Lock
          BY <2>1 DEF Lock
        <5> QED BY <5>1, NoneAssumption
      <4>4. ledger.amount[m] >= Cost(l.tx)
        BY <3>2, <4>1, <4>2, <4>3, <2>1
      <4> QED BY <1>0, <2>1, <3>2, <4>4, LockedCovered
    <3> QED BY <1>3, <3>1, <3>2 DEF FinalizeExchange
  <2>4. TypeOK'
    BY <1>3, <2>2, <2>3 DEF FinalizeExchange, TypeOK, chainVars
  <2> QED BY <1>3, <2>3, <2>4 DEF FinalizeExchange, chainVars, JournalOrdered, LocksAreCovered, Covered
<1>4. CASE FailExchange(m)
  <2>1. ledger' \in Accounts /\ Covered(ledger')
    BY <1>0, <1>4, LockedCovered DEF FailExchange
  <2>2. exchange' \in [Member -> Flow]
    BY <1>4 DEF FailExchange, TypeOK
  <2>3. TypeOK'
    BY <1>4, <2>1, <2>2 DEF FailExchange, TypeOK, chainVars
  <2> QED BY <1>4, <2>1, <2>3 DEF FailExchange, chainVars, JournalOrdered, LocksAreCovered, Covered
<1>5. CASE DecideRelease(m)
  <2>1. ledger.lock[m].tx \in Tx
    BY <1>0, <1>5, LockCost DEF DecideRelease
  <2>2. decided' \in [Member -> Tx \cup {None}]
    BY <1>5, <2>1 DEF DecideRelease, TypeOK
  <2>3. TypeOK'
    BY <1>5, <2>2 DEF DecideRelease, TypeOK, chainVars, dbVars
  <2> QED BY <1>5, <2>3 DEF DecideRelease, chainVars, dbVars, JournalOrdered, LocksAreCovered
<1>6. CASE ReleaseLock(m)
  <2>1. ledger' \in Accounts /\ Covered(ledger')
    BY <1>0, <1>6, LockedCovered DEF ReleaseLock
  <2>2. decided' \in [Member -> Tx \cup {None}]
    BY <1>6 DEF ReleaseLock, TypeOK
  <2>3. TypeOK'
    BY <1>6, <2>1, <2>2 DEF ReleaseLock, TypeOK, chainVars
  <2> QED BY <1>6, <2>1, <2>3 DEF ReleaseLock, chainVars, JournalOrdered, LocksAreCovered, Covered
<1> QED BY <1>1, <1>2, <1>3, <1>4, <1>5, <1>6 DEF ExchangeStep

(* Steps of sync. *)
LEMMA SyncInv ==
  ASSUME Inv, SyncStep
  PROVE  Inv'
<1> USE DEF Inv
<1>0. Idle \in SyncState /\ Idle.pc # "index"
  BY DEF Idle, SyncState
<1>1. CASE SyncBegin
  <2> DEFINE begun == [Idle EXCEPT !.pc = "detect", !.tip = Tip, !.tipId = HashAt(Tip),
                                   !.eye = eye]
  <2>1. Tip \in Nat /\ HashAt(Tip) \in Nat
    BY HashType DEF Tip, TypeOK
  <2>2. begun \in SyncState /\ begun.pc # "index"
    BY <2>1 DEF Idle, SyncState, TypeOK
  <2>3. TypeOK'
    BY <1>1, <2>2 DEF SyncBegin, TypeOK, chainVars, dbVars
  <2> QED BY <1>1, <2>2, <2>3 DEF SyncBegin, chainVars, dbVars, JournalOrdered, LocksAreCovered
<1>2. CASE DetectRefused \/ DetectUnreadable \/ DetectDisplaced
  <2>1. sync' = Idle /\ journal' = journal /\ ledger' = ledger
    BY <1>2 DEF DetectRefused, DetectUnreadable, DetectDisplaced, SyncFailed, dbVars
  <2>2. TypeOK'
    BY <1>0, <1>2, <2>1
       DEF DetectRefused, DetectUnreadable, DetectDisplaced, TypeOK, chainVars, dbVars
  <2> QED BY <1>0, <2>1, <2>2 DEF JournalOrdered, LocksAreCovered
<1>3. CASE DetectRebuild
  <2>1. sync' \in SyncState /\ sync'.pc # "index"
    BY <1>3 DEF DetectRebuild, SyncState, TypeOK
  <2>2. TypeOK'
    BY <1>3, <2>1 DEF DetectRebuild, TypeOK, chainVars
  <2> QED BY <1>3, <2>1, <2>2 DEF DetectRebuild, chainVars, JournalOrdered, LocksAreCovered
<1>4. CASE DetectResume
  <2> DEFINE next == IndexedTip + 1
             prev == IF journal = {} THEN 0 ELSE (CHOOSE k \in JournalTip : TRUE).id
             droplets == halted = 0
             old == OldAt(next)
             resumed == [sync EXCEPT !.pc = "index", !.next = next, !.prev = prev,
                                     !.droplets = droplets, !.moves = migrations, !.old = old]
  <2>1. next \in Nat /\ next > 0 /\ \A k \in journal : k.height < next
    BY IndexedTipType DEF TypeOK, Mark
  <2>2. prev \in Nat
    <3>1. CASE journal = {}
      BY <3>1
    <3>2. CASE journal # {}
      <4>1. (CHOOSE k \in JournalTip : TRUE) \in JournalTip
        BY <3>2, IndexedTipType
      <4>2. JournalTip \subseteq Mark
        BY DEF JournalTip, TypeOK
      <4> QED BY <3>2, <4>1, <4>2 DEF Mark
    <3> QED BY <3>1, <3>2
  <2>3. droplets \in BOOLEAN /\ old \in BOOLEAN
    BY DEF OldAt
  <2>4. sync' = resumed
    BY <1>4 DEF DetectResume
  <2> HIDE DEF next, prev, droplets, old
  <2>5. resumed \in SyncState /\ resumed.next = next
    BY <2>1, <2>2, <2>3 DEF SyncState, TypeOK
  <2>6. TypeOK'
    BY <1>4, <2>4, <2>5 DEF DetectResume, TypeOK, chainVars, dbVars
  <2>7. journal' = journal /\ ledger' = ledger
    BY <1>4 DEF DetectResume, dbVars
  <2>8. sync'.next = next
    BY <2>4, <2>5
  <2>9. JournalOrdered'
    BY <2>1, <2>7, <2>8 DEF JournalOrdered
  <2> QED BY <2>6, <2>7, <2>9 DEF LocksAreCovered
<1>5. CASE ResetProjections
  <2>1. SetAside \in [Member -> Lock \cup {None}]
    BY DEF SetAside, TypeOK, Accounts
  <2>2. EmptyAccounts \in Accounts /\ Covered(EmptyAccounts)
    BY DEF EmptyAccounts, Accounts, Covered
  <2>3. sync' \in SyncState /\ sync'.next = 1
    BY <1>5 DEF ResetProjections, SyncState, TypeOK
  <2>4. TypeOK'
    BY <1>5, <2>1, <2>2, <2>3 DEF ResetProjections, TypeOK, chainVars
  <2>5. JournalOrdered'
    BY <1>5, <2>3 DEF ResetProjections, JournalOrdered
  <2>6. LocksAreCovered'
    BY <1>5, <2>2 DEF ResetProjections, LocksAreCovered, Covered
  <2> QED BY <2>4, <2>5, <2>6
<1>6. CASE IndexFails \/ FinishFails
  <2>1. sync' = Idle /\ journal' = journal /\ ledger' = ledger
    BY <1>6 DEF IndexFails, FinishFails, SyncFailed, dbVars
  <2>2. TypeOK'
    BY <1>0, <1>6, <2>1 DEF IndexFails, FinishFails, TypeOK, chainVars, dbVars
  <2> QED BY <1>0, <2>1, <2>2 DEF JournalOrdered, LocksAreCovered
<1>7. CASE IndexBlock
  <2> DEFINE here == [height |-> sync.next, id |-> Here.id]
             accounts == sync.droplets /\ BlockAccountable(ledger, Here, ActiveMembers)
             kept == {k \in journal : k.height + Retention > sync.next}
  <2>1. sync.next \in Nat /\ sync.next > 0 /\ sync.next <= Len(chain) /\ sync.pc = "index"
    BY <1>7 DEF IndexBlock, Indexing, Readable, TypeOK, SyncState, JournalOrdered
  <2>2. Here \in Block
    BY <2>1, ChainType DEF Here, TypeOK
  <2>3. Here.id \in Nat /\ here \in Mark
    BY <2>1, <2>2 DEF Block, Mark
  <2>4. ActiveMembers \in {OldMembers, NewMembers}
    BY DEF ActiveMembers
  <2>5. ledger \in Accounts /\ Covered(ledger)
    BY DEF TypeOK, LocksAreCovered, Covered
  <2>6. ledger' \in Accounts /\ Covered(ledger')
    <3>1. CASE accounts
      <4>1. ledger' = ApplyBlock(ledger, Here, ActiveMembers)
        BY <1>7, <3>1 DEF IndexBlock
      <4> QED BY <2>2, <2>4, <2>5, <3>1, <4>1, ApplyBlockCovered
    <3>2. CASE ~accounts
      BY <1>7, <2>5, <3>2 DEF IndexBlock
    <3> QED BY <3>1, <3>2
  <2>7. accounts \in BOOLEAN
    BY DEF BlockAccountable, TypeOK, SyncState
  <2>8. MigratesHere \in BOOLEAN
    BY DEF MigratesHere
  <2>9. /\ journal' = kept \cup {here}
        /\ cursor' = IF accounts THEN here ELSE cursor
        /\ halted' = IF sync.droplets /\ ~accounts THEN sync.next ELSE halted
        /\ eye' = IF MigratesHere THEN "next" ELSE eye
        /\ sync' = [sync EXCEPT !.next = sync.next + 1, !.prev = Here.id, !.droplets = accounts,
                                !.eye = IF MigratesHere THEN "next" ELSE sync.eye,
                                !.old = sync.old /\ ~MigratesHere]
    BY <1>7 DEF IndexBlock
  <2>10. UNCHANGED <<chain, mined, saved, recovering, safeHalted, migrations, suspect, exchange,
                     decided, checked, crashes>>
    BY <1>7 DEF IndexBlock, chainVars
  <2> HIDE DEF accounts
  <2>11. sync' \in SyncState /\ sync'.next = sync.next + 1
    <3> DEFINE parent == Here.id
               storm == IF MigratesHere THEN "next" ELSE sync.eye
               stay == sync.old /\ ~MigratesHere
               after == sync.next + 1
    <3>1. /\ parent \in Nat
          /\ storm \in {"previous", "next"}
          /\ stay \in BOOLEAN
          /\ after \in Nat
      BY <2>1, <2>3, <2>8 DEF TypeOK, SyncState
    <3>2. sync' = [sync EXCEPT !.next = after, !.prev = parent, !.droplets = accounts,
                               !.eye = storm, !.old = stay]
      BY <2>9
    <3> HIDE DEF parent, storm, stay, after
    <3>3. sync' \in SyncState /\ sync'.next = after
      BY <2>7, <3>1, <3>2 DEF SyncState, TypeOK
    <3> QED BY <3>3 DEF after
  <2>12. /\ journal' \subseteq Mark
         /\ cursor' \in Mark \cup {None}
         /\ halted' \in Nat
         /\ eye' \in {"previous", "next"}
    BY <2>1, <2>3, <2>7, <2>8, <2>9 DEF TypeOK
  <2>13. TypeOK'
    BY <2>6, <2>10, <2>11, <2>12 DEF TypeOK
  <2>14. JournalOrdered'
    <3>1. \A k \in journal : k.height < sync.next /\ k.height \in Nat
      BY <2>1 DEF JournalOrdered, TypeOK, Mark
    <3>2. here \in journal' /\ here.height = sync.next
      BY <2>9
    <3>3. \A j \in journal' : j.height <= here.height
      BY <2>1, <2>9, <3>1
    <3>4. \A j \in journal' : j.height < sync'.next
      BY <2>1, <2>9, <2>11, <3>1
    <3> QED BY <2>1, <2>11, <3>2, <3>3, <3>4 DEF JournalOrdered
  <2> QED BY <2>6, <2>13, <2>14 DEF LocksAreCovered, Covered
<1>8. CASE FinishSync
  <2>1. sync' \in SyncState /\ sync'.pc # "index"
    BY <1>0, <1>8 DEF FinishSync, SyncState, TypeOK
  <2>2. suspect' \in BOOLEAN
    BY <1>8 DEF FinishSync, TypeOK
  <2>3. TypeOK'
    BY <1>8, <2>1, <2>2 DEF FinishSync, TypeOK, chainVars, dbVars
  <2> QED BY <1>8, <2>1, <2>3 DEF FinishSync, chainVars, dbVars, JournalOrdered, LocksAreCovered
<1>9. CASE RestoreLock
  <2>1. PICK m \in sync.todo :
          /\ ledger' = IF /\ ledger.amount[m] >= Cost(saved[m].tx)
                          /\ ledger.lock[m] \in {None, saved[m]}
                         THEN Locked(ledger, m, saved[m])
                         ELSE ledger
          /\ sync' = [sync EXCEPT !.todo = @ \ {m}]
    BY <1>9 DEF RestoreLock
  <2>2. m \in Member /\ saved[m] \in Lock \cup {None}
    BY DEF TypeOK, SyncState
  <2>3. ledger' \in Accounts /\ Covered(ledger')
    <3>1. ledger \in Accounts /\ Covered(ledger)
      BY DEF TypeOK, LocksAreCovered, Covered
    <3> QED BY <2>1, <2>2, <3>1, LockedCovered
  <2>4. sync' \in SyncState /\ sync'.pc # "index"
    BY <1>9, <2>1 DEF RestoreLock, SyncState, TypeOK
  <2>5. TypeOK'
    BY <1>9, <2>3, <2>4 DEF RestoreLock, TypeOK, chainVars
  <2> QED BY <1>9, <2>3, <2>4, <2>5
          DEF RestoreLock, chainVars, JournalOrdered, LocksAreCovered, Covered
<1>10. CASE FinishRecovery
  <2>1. saved' \in [Member -> Lock \cup {None}]
    BY <1>10 DEF FinishRecovery
  <2>2. TypeOK'
    BY <1>0, <1>10, <2>1 DEF FinishRecovery, TypeOK, chainVars
  <2> QED BY <1>0, <1>10, <2>2 DEF FinishRecovery, chainVars, JournalOrdered, LocksAreCovered
<1> QED BY <1>1, <1>2, <1>3, <1>4, <1>5, <1>6, <1>7, <1>8, <1>9, <1>10 DEF SyncStep

(* Types, the order of the journal and the cover of every lock are inductive. *)
THEOREM InvInductive == Spec => []Inv
<1>1. Inv /\ [Next]_vars => Inv'
  <2> SUFFICES ASSUME Inv, [Next]_vars PROVE Inv'
    OBVIOUS
  <2>1. CASE UNCHANGED vars
    BY <2>1 DEF Inv, TypeOK, JournalOrdered, LocksAreCovered, vars, chainVars, dbVars, memVars
  <2>2. CASE Next
    BY <2>2, SyncInv, ExchangeInv, EnvironmentInv DEF Next
  <2> QED BY <2>1, <2>2
<1> QED BY <1>1, InitInv, PTL DEF Spec

(* Every reachable state of the ledger and of the indexer is well typed:   *)
(* no balance or deficit goes below zero, whatever is deposited, spent,    *)
(* reorganised, rebuilt or halted (apply_block_in, sync).                  *)
THEOREM TypeCorrect == Spec => []TypeOK
<1>1. Inv => TypeOK
  BY DEF Inv
<1> QED BY <1>1, InvInductive, PTL

(* A locked exchange is always covered by its member's balance: neither a  *)
(* check that is stale when the lock is taken, nor a block, a rebuild or a *)
(* restored lock breaks it (lock_exchange, apply_block_in, sync).          *)
THEOREM LockSafety == Spec => []LocksAreCovered
<1>1. Inv => LocksAreCovered
  BY DEF Inv
<1> QED BY <1>1, InvInductive, PTL
-----------------------------------------------------------------------------
(* The canonical chain.  A block knows its ancestors: if it is still on    *)
(* the chain, so is every indexed block below it.                          *)
Below(j, k) == j.height <= k.height /\ OnChain(k) => OnChain(j)

(* A mark of a block that was mined, or the empty chain. *)
Known(k) == k.id <= mined /\ (k.height = 0 <=> k.id = 0)

(* The tip a sync set out for. *)
Goal == [height |-> sync.tip, id |-> sync.tipId]

Marks == journal \cup ({cursor} \ {None})

ChainKnown == \A h \in 1 .. Len(chain) : chain[h].id \in 1 .. mined

(* Hashes are those of mined blocks: a new block has none of them. *)
MarksKnown ==
  /\ ChainKnown
  /\ \A k \in Marks \cup migrations : k.height > 0 /\ Known(k)
  /\ Known(Goal)

(* Indexed blocks descend from each other. *)
Linked ==
  /\ \A j \in Marks, k \in journal : Below(j, k)
  /\ cursor # None => \E k \in journal : cursor.height <= k.height

(* A sync goes for a tip that descends from what it indexed before. *)
Aimed ==
  /\ sync.pc = "index" =>
       /\ sync.next <= sync.tip + 1
       /\ sync.next > 1 => [height |-> sync.next - 1, id |-> sync.prev] \in journal
       /\ \A k \in journal : Below(k, Goal)
  /\ sync.pc \in {"reset", "index"} =>
       /\ \A k \in migrations : Below(k, Goal)
       /\ checked => \A k \in migrations : OnChain(k)

CanonInv == MarksKnown /\ Linked /\ Aimed /\ IndexIsCanonical

(* Marks are records of two numbers. *)
LEMMA MarksType ==
  ASSUME TypeOK
  PROVE  Marks \subseteq Mark /\ migrations \subseteq Mark /\ Goal \in Mark
  BY DEF TypeOK, Marks, Goal, Mark, SyncState

(* A new block is none of those that are known. *)
LEMMA MineKeeps ==
  ASSUME TypeOK, ChainKnown, NEW first \in Body, NEW second \in Body, Mine(first, second),
         NEW k \in Mark, Known(k)
  PROVE  OnChain(k)' <=> OnChain(k)
<1>1. chain' = Append(chain, [id |-> mined + 1, txs |-> <<first, second>>])
  BY DEF Mine
<1>2. /\ Len(chain') = Len(chain) + 1 /\ Len(chain) \in Nat
      /\ \A h \in 1 .. Len(chain) : chain'[h] = chain[h]
      /\ chain'[Len(chain) + 1] = [id |-> mined + 1, txs |-> <<first, second>>]
  BY <1>1 DEF TypeOK
<1>3. mined \in Nat /\ k.height \in Nat /\ k.id \in Nat
  BY DEF TypeOK, Mark
<1>4. CASE k.height \in 1 .. Len(chain)
  BY <1>2, <1>4 DEF OnChain, HashAt
<1>5. CASE k.height = Len(chain) + 1
  <2>1. HashAt(k.height)' = mined + 1
    BY <1>2, <1>5 DEF HashAt
  <2>2. HashAt(k.height) = 0
    BY <1>2, <1>5 DEF HashAt
  <2> QED BY <1>2, <1>3, <1>5, <2>1, <2>2 DEF OnChain, Known
<1>6. CASE k.height \notin 1 .. Len(chain) + 1
  BY <1>2, <1>6 DEF OnChain, HashAt
<1> QED BY <1>2, <1>3, <1>4, <1>5, <1>6

(* The chain without its last block. *)
LEMMA AbandonedChain ==
  ASSUME TypeOK, Abandon
  PROVE  /\ Len(chain') = Len(chain) - 1 /\ Len(chain) \in Nat /\ Len(chain) > 0
         /\ \A h \in 1 .. Len(chain) - 1 : chain'[h] = chain[h]
<1> DEFINE n == Len(chain) - 1
<1>1. Len(chain) \in Nat /\ Len(chain) > 0 /\ chain' = SubSeq(chain, 1, n)
  BY DEF Abandon, TypeOK
<1>2. n \in Nat /\ n = Len(chain) - 1
  BY <1>1
<1> HIDE DEF n
<1>3. chain \in Seq(Block)
  BY DEF TypeOK
<1>4. Len(SubSeq(chain, 1, n)) = n
  BY <1>1, <1>2, <1>3
<1>5. \A h \in 1 .. n : SubSeq(chain, 1, n)[h] = chain[h]
  BY <1>1, <1>2, <1>3
<1> QED BY <1>1, <1>2, <1>4, <1>5

(* A reorganisation takes the last block only. *)
LEMMA AbandonKeeps ==
  ASSUME TypeOK, Abandon, NEW k \in Mark, Known(k)
  PROVE  /\ OnChain(k)' => OnChain(k)
         /\ OnChain(k)' /\ k.height > 0 => k.height < Len(chain)
         /\ OnChain(k) /\ k.height < Len(chain) => OnChain(k)'
<1>1. /\ Len(chain') = Len(chain) - 1 /\ Len(chain) \in Nat /\ Len(chain) > 0
      /\ \A h \in 1 .. Len(chain) - 1 : chain'[h] = chain[h]
  BY AbandonedChain
<1>2. k.height \in Nat /\ k.id \in Nat
  BY DEF Mark
<1>3. CASE k.height \in 1 .. Len(chain) - 1
  BY <1>1, <1>3 DEF OnChain, HashAt
<1>4. CASE k.height = 0
  <2>1. k.id = 0
    BY <1>4 DEF Known
  <2> QED BY <1>1, <1>4, <2>1 DEF OnChain, HashAt
<1>5. CASE k.height >= Len(chain)
  <2>1. HashAt(k.height)' = 0
    BY <1>1, <1>2, <1>5 DEF HashAt
  <2>2. k.id # 0
    BY <1>1, <1>2, <1>5 DEF Known
  <2> QED BY <1>1, <1>2, <1>5, <2>1, <2>2 DEF OnChain
<1> QED BY <1>1, <1>2, <1>3, <1>4, <1>5

(* Descent is for ever. *)
LEMMA BelowKept ==
  ASSUME TypeOK, ChainKnown, NEW j \in Mark, NEW k \in Mark, Known(j), Known(k),
         Below(j, k), Environment \/ UNCHANGED chain
  PROVE  Below(j, k)'
<1>1. ASSUME NEW first \in Body, NEW second \in Body, Mine(first, second)
      PROVE  Below(j, k)'
  BY <1>1, MineKeeps DEF Below
<1>2. CASE Abandon
  <2>1. j.height \in Nat /\ k.height \in Nat /\ Len(chain) \in Nat
    BY DEF Mark, TypeOK
  <2>2. SUFFICES ASSUME j.height <= k.height, OnChain(k)' PROVE OnChain(j)'
    BY DEF Below
  <2>3. OnChain(j)
    BY <1>2, <2>2, AbandonKeeps DEF Below
  <2>4. CASE k.height > 0
    BY <1>2, <2>1, <2>2, <2>3, <2>4, AbandonKeeps
  <2>5. CASE k.height = 0
    <3>1. j.height < Len(chain)
      BY <1>2, <2>1, <2>2, <2>5 DEF Abandon
    <3> QED BY <1>2, <2>3, <3>1, AbandonKeeps
  <2> QED BY <2>1, <2>4, <2>5
<1>3. CASE UNCHANGED chain
  BY <1>3 DEF Below, OnChain, HashAt
<1> QED BY <1>1, <1>2, <1>3 DEF Environment
(* Steps that leave the chain, the index and the sync alone, or end it. *)
LEMMA CanonQuiet ==
  ASSUME Inv, CanonInv,
         UNCHANGED <<chain, mined, journal, cursor, migrations, checked>>,
         sync' = sync \/ (sync'.pc \notin {"reset", "index"} /\ Known(Goal)')
  PROVE  CanonInv'
<1>1. ChainKnown' /\ Marks' = Marks
  BY DEF CanonInv, MarksKnown, ChainKnown, Marks
<1>2. \A k : OnChain(k)' <=> OnChain(k)
  BY DEF OnChain, HashAt
<1>3. \A k : Known(k)' <=> Known(k)
  BY DEF Known
<1>4. Known(Goal)'
  BY DEF CanonInv, MarksKnown, Known, Goal
<1>5. MarksKnown'
  BY <1>1, <1>3, <1>4 DEF CanonInv, MarksKnown
<1>6. Linked'
  BY <1>1, <1>2 DEF CanonInv, Linked, Below
<1>7. Aimed'
  <2>1. CASE sync' = sync
    <3>1. Goal' = Goal
      BY <2>1 DEF Goal
    <3> QED BY <1>2, <2>1, <3>1 DEF CanonInv, Aimed, Below
  <2>2. CASE sync'.pc \notin {"reset", "index"}
    BY <2>2 DEF Aimed
  <2> QED BY <2>1, <2>2
<1>8. IndexIsCanonical'
  <2>1. IndexedTip' = IndexedTip
    BY DEF IndexedTip
  <2> QED BY <1>2, <2>1 DEF CanonInv, IndexIsCanonical
<1> QED BY <1>5, <1>6, <1>7, <1>8 DEF CanonInv

(* Ending a sync aims at nothing. *)
LEMMA IdleKnown ==
  ASSUME TypeOK, TypeOK', sync' = Idle
  PROVE  sync'.pc \notin {"reset", "index"} /\ Known(Goal)'
<1>1. sync'.tip = 0 /\ sync'.tipId = 0 /\ sync'.pc = "idle"
  BY DEF Idle
<1>2. mined' \in Nat
  BY DEF TypeOK
<1> QED BY <1>1, <1>2 DEF Known, Goal

(* The chain grows and shrinks. *)
LEMMA CanonChain ==
  ASSUME Inv, CanonInv, Environment
  PROVE  CanonInv'
<1> USE DEF Inv, CanonInv
<1>0. /\ UNCHANGED <<journal, cursor, migrations, sync>>
      /\ mined' >= mined /\ mined \in Nat /\ mined' \in Nat
      /\ checked' => checked
      /\ Marks' = Marks /\ Goal' = Goal /\ IndexedTip' = IndexedTip
  <2>1. mined \in Nat
    BY DEF TypeOK
  <2>2. /\ UNCHANGED <<journal, cursor, migrations, sync>>
        /\ mined' = mined + 1 \/ mined' = mined
        /\ checked' => checked
    <3>1. CASE Abandon
      BY <3>1 DEF Abandon, dbVars, memVars
    <3>2. CASE \E first, second \in Body : Mine(first, second)
      BY <3>2 DEF Mine, dbVars, memVars
    <3> QED BY <3>1, <3>2 DEF Environment
  <2>3. Marks' = Marks /\ Goal' = Goal /\ IndexedTip' = IndexedTip
    BY <2>2 DEF Marks, Goal, IndexedTip
  <2> QED BY <2>1, <2>2, <2>3
<1>1. \A k \in Mark : Known(k) => Known(k)'
  BY <1>0 DEF Known, Mark
<1>2. ChainKnown'
  <2>1. ASSUME NEW first \in Body, NEW second \in Body, Mine(first, second)
        PROVE  ChainKnown'
    <3>1. /\ Len(chain') = Len(chain) + 1 /\ Len(chain) \in Nat
          /\ \A h \in 1 .. Len(chain) : chain'[h] = chain[h]
          /\ chain'[Len(chain) + 1].id = mined + 1
          /\ mined' = mined + 1
      BY <2>1 DEF Mine, TypeOK
    <3>2. SUFFICES ASSUME NEW h \in 1 .. Len(chain'), h \in Nat PROVE chain'[h].id \in 1 .. mined'
      BY <3>1 DEF ChainKnown
    <3>3. CASE h = Len(chain) + 1
      BY <1>0, <3>1, <3>3
    <3>4. CASE h \in 1 .. Len(chain)
      BY <1>0, <3>1, <3>4 DEF MarksKnown, ChainKnown
    <3> QED BY <3>1, <3>3, <3>4
  <2>2. CASE Abandon
    <3>1. /\ Len(chain') = Len(chain) - 1 /\ Len(chain) \in Nat
          /\ \A h \in 1 .. Len(chain) - 1 : chain'[h] = chain[h]
          /\ mined' = mined
      BY <2>2, AbandonedChain DEF Abandon
    <3> QED BY <3>1 DEF MarksKnown, ChainKnown
  <2> QED BY <2>1, <2>2 DEF Environment
<1>3. MarksKnown'
  BY <1>0, <1>1, <1>2, MarksType DEF MarksKnown
<1>4. \A j, k \in Marks \cup migrations \cup {Goal} : Below(j, k) => Below(j, k)'
  <2>1. \A k \in Marks \cup migrations \cup {Goal} : k \in Mark /\ Known(k)
    BY MarksType DEF MarksKnown
  <2> QED BY <2>1, BelowKept DEF MarksKnown
<1>5. journal \subseteq Marks
  BY DEF Marks
<1>6. Linked'
  BY <1>0, <1>4, <1>5 DEF Linked
<1>7. checked' => \A k \in Marks \cup migrations : OnChain(k) => OnChain(k)'
  <2>1. SUFFICES ASSUME checked', NEW k \in Marks \cup migrations PROVE OnChain(k) => OnChain(k)'
    OBVIOUS
  <2>2. k \in Mark /\ Known(k)
    BY MarksType DEF MarksKnown
  <2>3. PICK first, second \in Body : Mine(first, second)
    BY <2>1 DEF Environment, Abandon
  <2> QED BY <2>2, <2>3, MineKeeps DEF MarksKnown
<1>8. Aimed'
  BY <1>0, <1>4, <1>5, <1>7 DEF Aimed
<1>9. IndexIsCanonical'
  <2>1. cursor # None => cursor \in Marks
    BY DEF Marks
  <2> QED BY <1>0, <1>5, <1>7, <2>1 DEF IndexIsCanonical
<1> QED BY <1>3, <1>6, <1>8, <1>9

(* apply_member_migration records a block of the chain. *)
LEMMA CanonMigration ==
  ASSUME Inv, CanonInv, FinalizeMigration
  PROVE  CanonInv'
<1> USE DEF Inv, CanonInv
<1>1. PICK h \in 1 .. Len(chain) : migrations' = {[height |-> h, id |-> chain[h].id]}
  BY DEF FinalizeMigration, TypeOK
<1>2. UNCHANGED <<chain, mined, journal, cursor, checked, sync>> /\ migrations = {}
  BY DEF FinalizeMigration, chainVars, memVars
<1> DEFINE new == [height |-> h, id |-> chain[h].id]
<1>3. new \in Mark /\ new.height > 0 /\ Known(new)
  <2>1. h \in Nat /\ h > 0 /\ chain[h].id \in Nat /\ chain[h].id > 0 /\ chain[h].id <= mined
    BY DEF MarksKnown, ChainKnown, TypeOK
  <2> QED BY <2>1 DEF Mark, Known
<1>4. OnChain(new)
  BY DEF OnChain, HashAt
<1>5. \A k : (OnChain(k)' <=> OnChain(k)) /\ (Known(k)' <=> Known(k))
  BY <1>2 DEF OnChain, HashAt, Known
<1>6. Marks' = Marks /\ Goal' = Goal /\ ChainKnown' /\ IndexedTip' = IndexedTip
  BY <1>2 DEF Marks, Goal, MarksKnown, ChainKnown, IndexedTip
<1>7. \A k \in migrations' : k = new
  BY <1>1
<1> HIDE DEF new
<1>8. MarksKnown'
  <2>1. \A k \in Marks : (k.height > 0 /\ Known(k))'
    BY <1>5, <1>6 DEF MarksKnown
  <2>2. Known(Goal)'
    BY <1>2 DEF MarksKnown, Known, Goal
  <2> QED BY <1>3, <1>5, <1>6, <1>7, <2>1, <2>2 DEF MarksKnown
<1>9. Linked'
  BY <1>2, <1>5, <1>6 DEF Linked, Below
<1>10. Aimed'
  BY <1>2, <1>4, <1>5, <1>6, <1>7 DEF Aimed, Below
<1>11. IndexIsCanonical'
  BY <1>2, <1>4, <1>5, <1>6, <1>7 DEF IndexIsCanonical
<1> QED BY <1>8, <1>9, <1>10, <1>11

(* The checks of a sync find the index on the chain. *)
LEMMA DetectCanonical ==
  ASSUME Inv, CanonInv, Comparable
  PROVE  /\ ~Mismatch(Cursors) => \A k \in journal : OnChain(k) /\ k.height <= sync.tip
         /\ \A k \in migrations : OnChain(k)
<1>1. ASSUME ~Mismatch(Cursors) PROVE \A k \in journal : OnChain(k) /\ k.height <= sync.tip
  <2>1. SUFFICES ASSUME NEW k \in journal PROVE OnChain(k) /\ k.height <= sync.tip
    OBVIOUS
  <2>2. PICK top \in JournalTip : TRUE
    BY IndexedTipType DEF Inv
  <2>3. top \in journal /\ top.height = IndexedTip /\ top \in Cursors
    BY <2>2 DEF JournalTip, Cursors
  <2>4. OnChain(top) /\ ~(top.height > sync.tip)
    BY <1>1, <2>3 DEF Mismatch
  <2>5. k.height <= top.height
    BY <2>3, IndexedTipType DEF Inv
  <2>6. k \in Marks /\ k \in Mark /\ top \in Mark
    BY <2>3 DEF Marks, Inv, TypeOK
  <2>7. OnChain(k)
    BY <2>3, <2>4, <2>5, <2>6 DEF CanonInv, Linked, Below
  <2>8. sync.tip \in Nat /\ k.height \in Nat /\ top.height \in Nat
    BY <2>6 DEF Inv, TypeOK, SyncState, Mark
  <2> QED BY <2>4, <2>5, <2>7, <2>8
<1>2. \A k \in migrations : OnChain(k)
  BY DEF Comparable, Displaced, Unreadable
<1> QED BY <1>1, <1>2

(* DetectResume starts above the indexed tip. *)
LEMMA CanonResume ==
  ASSUME Inv, CanonInv, DetectResume
  PROVE  CanonInv'
<1> USE DEF Inv, CanonInv
<1>1. UNCHANGED <<chain, mined, journal, cursor, migrations, checked>>
  BY DEF DetectResume, chainVars, dbVars
<1>2. /\ sync'.tip = sync.tip /\ sync'.tipId = sync.tipId
      /\ sync'.pc = "index"
      /\ sync'.next = IndexedTip + 1
      /\ sync'.prev = IF journal = {} THEN 0 ELSE (CHOOSE k \in JournalTip : TRUE).id
  BY DEF DetectResume, TypeOK, SyncState
<1>3. /\ \A k \in journal : OnChain(k) /\ k.height <= sync.tip
      /\ \A k \in migrations : OnChain(k)
  BY DetectCanonical DEF DetectResume, MustRebuild
<1>4. \A k : (OnChain(k)' <=> OnChain(k)) /\ (Known(k)' <=> Known(k))
  BY <1>1 DEF OnChain, HashAt, Known
<1>5. Marks' = Marks /\ Goal' = Goal /\ ChainKnown' /\ IndexedTip' = IndexedTip
  BY <1>1, <1>2 DEF Marks, Goal, MarksKnown, ChainKnown, IndexedTip
<1>6. MarksKnown'
  BY <1>1, <1>4, <1>5 DEF MarksKnown
<1>7. Linked'
  BY <1>1, <1>4, <1>5 DEF Linked, Below
<1>8. Aimed'
  <2>1. sync'.next <= sync'.tip + 1
    <3>1. CASE journal = {}
      BY <1>2, <3>1 DEF IndexedTip, TypeOK, SyncState
    <3>2. CASE journal # {}
      <4>1. PICK top \in JournalTip : TRUE
        BY <3>2, IndexedTipType
      <4>2. IndexedTip \in Nat /\ IndexedTip <= sync.tip
        BY <1>3, <4>1, IndexedTipType DEF JournalTip
      <4> QED BY <1>2, <4>2 DEF TypeOK, SyncState
    <3> QED BY <3>1, <3>2
  <2>2. sync'.next > 1 => [height |-> sync'.next - 1, id |-> sync'.prev] \in journal'
    <3>1. CASE journal = {}
      BY <1>2, <3>1 DEF IndexedTip
    <3>2. CASE journal # {}
      <4> DEFINE top == CHOOSE k \in JournalTip : TRUE
      <4>1. top \in JournalTip
        BY <3>2, IndexedTipType
      <4>2. sync'.prev = top.id /\ top \in journal /\ top.height = IndexedTip
        BY <1>2, <3>2, <4>1 DEF JournalTip
      <4> HIDE DEF top
      <4>3. IndexedTip \in Nat
        BY IndexedTipType
      <4>4. [height |-> sync'.next - 1, id |-> sync'.prev] = top
        BY <1>2, <4>2, <4>3 DEF TypeOK, Mark
      <4> QED BY <1>1, <4>2, <4>4
    <3> QED BY <3>1, <3>2
  <2> QED BY <1>1, <1>2, <1>3, <1>4, <1>5, <2>1, <2>2 DEF Aimed, Below
<1>9. IndexIsCanonical'
  BY <1>1, <1>4, <1>5 DEF IndexIsCanonical
<1> QED BY <1>6, <1>7, <1>8, <1>9

(* A block that is indexed extends what was indexed before. *)
LEMMA IndexedExtends ==
  ASSUME Inv, CanonInv, Indexing, Readable
  PROVE  /\ sync.next \in 1 .. Len(chain)
         /\ Here.id \in 1 .. mined
         /\ \A k \in journal : OnChain(k) /\ k.height < sync.next
<1> USE DEF Inv, CanonInv
<1>1. sync.next \in Nat /\ sync.next > 0 /\ sync.next <= Len(chain) /\ Len(chain) \in Nat
  BY DEF Indexing, Readable, TypeOK, SyncState, JournalOrdered
<1>2. Here.id \in 1 .. mined
  BY <1>1 DEF Here, MarksKnown, ChainKnown
<1>3. \A k \in journal : k.height < sync.next
  BY DEF Indexing, JournalOrdered
<1>4. SUFFICES ASSUME NEW k \in journal PROVE OnChain(k)
  BY <1>1, <1>2, <1>3
<1>5. k \in Marks /\ k \in Mark /\ k.height > 0 /\ k.height \in Nat
  BY DEF Marks, TypeOK, Mark, MarksKnown
<1>6. sync.next > 1
  BY <1>1, <1>3, <1>5
<1> DEFINE last == [height |-> sync.next - 1, id |-> sync.prev]
<1>7. last \in journal
  BY <1>6 DEF Aimed, Indexing
<1>8. last.id # 0 /\ last.height = sync.next - 1
  BY <1>6, <1>7, <1>1 DEF MarksKnown, Marks, Known
<1>9. OnChain(last)
  BY <1>1, <1>6, <1>8 DEF Readable, ParentHash, OnChain, HashAt
<1>10. k.height <= last.height
  BY <1>1, <1>3, <1>5, <1>8
<1> HIDE DEF last
<1> QED BY <1>5, <1>7, <1>9, <1>10 DEF Linked, Below

(* IndexBlock adds a block of the chain. *)
LEMMA CanonIndex ==
  ASSUME Inv, Inv', CanonInv, IndexBlock
  PROVE  CanonInv'
<1> USE DEF Inv, CanonInv
<1> DEFINE here == [height |-> sync.next, id |-> Here.id]
           accounts == sync.droplets /\ BlockAccountable(ledger, Here, ActiveMembers)
           kept == {k \in journal : k.height + Retention > sync.next}
<1>1. Indexing /\ Readable
  BY DEF IndexBlock
<1>2. /\ UNCHANGED <<chain, mined, migrations, checked>>
      /\ journal' = kept \cup {here}
      /\ cursor' = here \/ cursor' = cursor
      /\ sync'.pc = "index" /\ sync'.tip = sync.tip /\ sync'.tipId = sync.tipId
      /\ sync'.next = sync.next + 1 /\ sync'.prev = Here.id
  BY DEF IndexBlock, chainVars, Indexing, TypeOK, SyncState
<1>3. /\ sync.next \in Nat /\ sync.next > 0 /\ sync.next <= Len(chain) /\ Len(chain) \in Nat
      /\ Here.id \in Nat /\ Here.id > 0 /\ Here.id <= mined /\ mined \in Nat
      /\ sync.next <= sync.tip /\ sync.tip \in Nat
      /\ \A k \in journal : OnChain(k) /\ k.height < sync.next
  BY <1>1, IndexedExtends DEF Indexing, TypeOK, SyncState
<1>4. here \in Mark /\ here.height = sync.next /\ here.id = Here.id
  BY <1>3 DEF Mark
<1>5. Known(here) /\ here.height > 0 /\ OnChain(here)
  BY <1>3, <1>4 DEF Known, OnChain, HashAt, Here
<1>6. \A k : (OnChain(k)' <=> OnChain(k)) /\ (Known(k)' <=> Known(k))
  BY <1>2 DEF OnChain, HashAt, Known
<1>7. /\ Goal' = Goal /\ ChainKnown'
      /\ Marks' \subseteq Marks \cup {here}
      /\ journal' \subseteq journal \cup {here} /\ here \in journal'
  BY <1>2 DEF Goal, MarksKnown, ChainKnown, Marks
<1> HIDE DEF here, accounts, kept
<1>8. MarksKnown'
  BY <1>2, <1>5, <1>6, <1>7 DEF MarksKnown
<1>9. \A k \in journal' : OnChain(k)' /\ k.height <= here.height
  BY <1>3, <1>4, <1>5, <1>6, <1>7 DEF TypeOK, Mark
<1>10. cursor' # None => OnChain(cursor') /\ cursor'.height <= here.height
  <2>1. CASE cursor' = here
    BY <1>3, <1>4, <1>5, <2>1
  <2>2. CASE cursor' = cursor /\ cursor # None
    <3>1. PICK k \in journal : cursor.height <= k.height
      BY <2>2 DEF Linked
    <3>2. cursor \in Marks /\ cursor \in Mark /\ k \in Mark
      BY <2>2 DEF Marks, TypeOK
    <3>3. OnChain(cursor)
      BY <1>3, <3>1, <3>2 DEF Linked, Below
    <3> QED BY <1>3, <1>4, <2>2, <3>1, <3>2, <3>3 DEF Mark
  <2> QED BY <1>2, <2>1, <2>2
<1>11. \A k \in Marks' : OnChain(k)'
  BY <1>6, <1>9, <1>10 DEF Marks
<1>12. Linked'
  <2>1. \A j \in Marks', k \in journal' : Below(j, k)'
    BY <1>11 DEF Below
  <2>2. cursor' # None => \E k \in journal' : cursor'.height <= k.height
    BY <1>7, <1>10
  <2> QED BY <2>1, <2>2 DEF Linked
<1>13. Aimed'
  <2>1. sync'.next <= sync'.tip + 1
    BY <1>2, <1>3
  <2>2. [height |-> sync'.next - 1, id |-> sync'.prev] = here
    BY <1>2, <1>3, <1>4 DEF here
  <2>3. \A k \in journal' : Below(k, Goal)'
    BY <1>9 DEF Below
  <2>4. \A k \in migrations' : Below(k, Goal)'
    BY <1>1, <1>2, <1>6, <1>7 DEF Aimed, Below, Indexing
  <2>5. checked' => \A k \in migrations' : OnChain(k)'
    BY <1>1, <1>2, <1>6 DEF Aimed, Indexing
  <2> QED BY <1>7, <2>1, <2>2, <2>3, <2>4, <2>5 DEF Aimed
<1>14. IndexIsCanonical'
  <2>1. checked' => \A k \in migrations' : OnChain(k)'
    BY <1>1, <1>2, <1>6 DEF Aimed, Indexing
  <2> QED BY <1>6, <1>9, <1>10, <2>1 DEF IndexIsCanonical
<1> QED BY <1>8, <1>12, <1>13, <1>14

(* A sync that succeeds has indexed the canonical chain up to its tip. *)
LEMMA CanonFinish ==
  ASSUME Inv, CanonInv, FinishSync
  PROVE  CanonInv'
<1> USE DEF Inv, CanonInv
<1>1. UNCHANGED <<chain, mined, journal, cursor, migrations>>
  BY DEF FinishSync, chainVars, dbVars
<1>2. sync.pc = "index" /\ sync.next > sync.tip /\ sync.next = sync.tip + 1
  BY DEF FinishSync, Indexed, Aimed, TypeOK, SyncState
<1>3. OnChain(Goal) /\ Goal.height = sync.tip
  BY DEF FinishSync, TipIsCanonical, OnChain, Goal
<1>4. \A k \in journal : k.height < sync.next /\ k.height \in Nat /\ sync.tip \in Nat
  BY <1>2 DEF JournalOrdered, TypeOK, Mark, SyncState
<1>5. \A k \in journal : OnChain(k)
  BY <1>2, <1>3, <1>4 DEF Aimed, Below
<1>6. cursor # None => OnChain(cursor)
  <2>1. SUFFICES ASSUME cursor # None PROVE OnChain(cursor)
    OBVIOUS
  <2>2. PICK k \in journal : cursor.height <= k.height
    BY <2>1 DEF Linked
  <2> QED BY <1>5, <2>1, <2>2 DEF Linked, Below, Marks
<1>7. \A k \in migrations : k.height <= IndexedTip => OnChain(k)
  <2>1. IndexedTip <= sync.tip /\ IndexedTip \in Nat
    <3>1. CASE journal = {}
      BY <3>1 DEF IndexedTip, TypeOK, SyncState
    <3>2. CASE journal # {}
      <4>1. PICK top \in JournalTip : TRUE
        BY <3>2, IndexedTipType
      <4>2. top \in journal /\ top.height = IndexedTip
        BY <4>1 DEF JournalTip
      <4> QED BY <1>2, <1>4, <4>2
    <3> QED BY <3>1, <3>2
  <2>2. \A k \in migrations : k.height \in Nat
    BY DEF TypeOK, Mark
  <2> QED BY <1>2, <1>3, <1>4, <2>1, <2>2 DEF Aimed, Below, TypeOK, SyncState
<1>8. \A k : (OnChain(k)' <=> OnChain(k)) /\ (Known(k)' <=> Known(k))
  BY <1>1 DEF OnChain, HashAt, Known
<1>9. Marks' = Marks /\ ChainKnown' /\ IndexedTip' = IndexedTip
  BY <1>1 DEF Marks, MarksKnown, ChainKnown, IndexedTip
<1>10. Known(Goal)' /\ sync'.pc \notin {"reset", "index"}
  <2>1. CASE sync' = Idle
    <3>1. sync'.tip = 0 /\ sync'.tipId = 0 /\ sync'.pc = "idle"
      BY <2>1 DEF Idle
    <3>2. mined' \in Nat
      BY <1>1 DEF TypeOK
    <3> QED BY <3>1, <3>2 DEF Known, Goal
  <2>2. CASE sync' = [sync EXCEPT !.pc = "restore"]
    <3>1. sync'.tip = sync.tip /\ sync'.tipId = sync.tipId /\ sync'.pc = "restore"
      BY <2>2 DEF TypeOK, SyncState
    <3> QED BY <1>1, <3>1 DEF Known, Goal, MarksKnown
  <2> QED BY <2>1, <2>2 DEF FinishSync
<1>11. MarksKnown'
  BY <1>1, <1>8, <1>9, <1>10 DEF MarksKnown
<1>12. Linked'
  BY <1>1, <1>8, <1>9 DEF Linked, Below
<1>13. Aimed'
  BY <1>10 DEF Aimed
<1>14. IndexIsCanonical'
  BY <1>1, <1>5, <1>6, <1>7, <1>8, <1>9 DEF IndexIsCanonical
<1> QED BY <1>11, <1>12, <1>13, <1>14

(* Every step of sync keeps the index canonical. *)
LEMMA CanonSync ==
  ASSUME Inv, Inv', CanonInv, SyncStep
  PROVE  CanonInv'
<1> USE DEF Inv, CanonInv
<1>1. CASE SyncBegin
  <2>1. UNCHANGED <<chain, mined, journal, cursor, migrations, checked>>
    BY <1>1 DEF SyncBegin, chainVars, dbVars
  <2>2. /\ sync'.tip = Tip /\ sync'.tipId = HashAt(Tip) /\ sync'.pc = "detect"
    BY <1>1 DEF SyncBegin, Idle
  <2>3. Tip \in Nat /\ mined \in Nat /\ Tip = Len(chain)
    BY DEF Tip, TypeOK
  <2>4. CASE Tip = 0
    <3>1. HashAt(Tip) = 0
      BY <2>3, <2>4 DEF HashAt
    <3> QED BY <2>1, <2>2, <2>3, <2>4, <3>1, CanonQuiet DEF Known, Goal
  <2>5. CASE Tip > 0
    <3>1. HashAt(Tip) \in 1 .. mined
      BY <2>3, <2>5 DEF HashAt, MarksKnown, ChainKnown
    <3>2. Known(Goal)'
      BY <2>1, <2>2, <2>3, <2>5, <3>1 DEF Known, Goal
    <3> QED BY <2>1, <2>2, <3>2, CanonQuiet
  <2> QED BY <2>3, <2>4, <2>5
<1>2. CASE DetectRefused \/ DetectUnreadable \/ DetectDisplaced \/ IndexFails \/ FinishFails
  <2>1. /\ sync' = Idle
        /\ UNCHANGED <<chain, mined, journal, cursor, migrations, checked>>
    BY <1>2 DEF DetectRefused, DetectUnreadable, DetectDisplaced, IndexFails, FinishFails,
                SyncFailed, chainVars, dbVars
  <2> QED BY <2>1, CanonQuiet, IdleKnown
<1>3. CASE DetectRebuild
  <2>1. UNCHANGED <<chain, mined, journal, cursor, migrations, checked>>
    BY <1>3 DEF DetectRebuild, chainVars
  <2>2. sync'.pc = "reset" /\ sync'.tip = sync.tip /\ sync'.tipId = sync.tipId
    BY <1>3 DEF DetectRebuild, TypeOK, SyncState
  <2>3. \A k \in migrations : OnChain(k)
    BY <1>3, DetectCanonical DEF DetectRebuild
  <2>4. \A k : (OnChain(k)' <=> OnChain(k)) /\ (Known(k)' <=> Known(k))
    BY <2>1 DEF OnChain, HashAt, Known
  <2>5. Marks' = Marks /\ Goal' = Goal /\ ChainKnown' /\ IndexedTip' = IndexedTip
    BY <2>1, <2>2 DEF Marks, Goal, MarksKnown, ChainKnown, IndexedTip
  <2>6. MarksKnown'
    BY <2>1, <2>4, <2>5 DEF MarksKnown
  <2>7. Linked'
    BY <2>1, <2>4, <2>5 DEF Linked, Below
  <2>8. Aimed'
    BY <2>1, <2>2, <2>3, <2>4, <2>5 DEF Aimed, Below
  <2>9. IndexIsCanonical'
    BY <2>1, <2>4, <2>5 DEF IndexIsCanonical
  <2> QED BY <2>6, <2>7, <2>8, <2>9
<1>4. CASE DetectResume
  BY <1>4, CanonResume
<1>5. CASE ResetProjections
  <2>1. /\ UNCHANGED <<chain, mined, migrations, checked>>
        /\ journal' = {} /\ cursor' = None /\ sync.pc = "reset"
        /\ sync'.pc = "index" /\ sync'.tip = sync.tip /\ sync'.tipId = sync.tipId
        /\ sync'.next = 1
    BY <1>5 DEF ResetProjections, chainVars, TypeOK, SyncState
  <2>2. \A k : (OnChain(k)' <=> OnChain(k)) /\ (Known(k)' <=> Known(k))
    BY <2>1 DEF OnChain, HashAt, Known
  <2>3. Marks' = {} /\ Goal' = Goal /\ ChainKnown' /\ IndexedTip' = 0
    BY <2>1 DEF Marks, Goal, MarksKnown, ChainKnown, IndexedTip
  <2>4. MarksKnown'
    BY <2>1, <2>2, <2>3 DEF MarksKnown
  <2>5. Linked'
    BY <2>1, <2>3 DEF Linked
  <2>6. Aimed'
    BY <2>1, <2>2, <2>3 DEF Aimed, Below, TypeOK, SyncState
  <2>7. IndexIsCanonical'
    BY <2>1, <2>3 DEF IndexIsCanonical, MarksKnown, TypeOK, Mark
  <2> QED BY <2>4, <2>5, <2>6, <2>7
<1>6. CASE IndexBlock
  BY <1>6, CanonIndex
<1>7. CASE FinishSync
  BY <1>7, CanonFinish
<1>8. CASE RestoreLock
  <2>1. UNCHANGED <<chain, mined, journal, cursor, migrations, checked>>
    BY <1>8 DEF RestoreLock, chainVars
  <2>2. sync'.pc = "restore" /\ sync'.tip = sync.tip /\ sync'.tipId = sync.tipId
    BY <1>8 DEF RestoreLock, TypeOK, SyncState
  <2>3. Known(Goal)'
    BY <2>1, <2>2 DEF Known, Goal, MarksKnown
  <2> QED BY <2>1, <2>2, <2>3, CanonQuiet
<1>9. CASE FinishRecovery
  <2>1. sync' = Idle /\ UNCHANGED <<chain, mined, journal, cursor, migrations, checked>>
    BY <1>9 DEF FinishRecovery, chainVars
  <2> QED BY <2>1, CanonQuiet, IdleKnown
<1> QED BY <1>1, <1>2, <1>3, <1>4, <1>5, <1>6, <1>7, <1>8, <1>9 DEF SyncStep

(* Every step keeps the index canonical. *)
LEMMA CanonNext == Inv /\ Inv' /\ CanonInv /\ [Next]_vars => CanonInv'
<1> SUFFICES ASSUME Inv, Inv', CanonInv, [Next]_vars PROVE CanonInv'
  OBVIOUS
<1>1. CASE SyncStep
  BY <1>1, CanonSync
<1>2. ASSUME NEW m \in Member, ExchangeStep(m) PROVE CanonInv'
  <2>1. UNCHANGED <<chain, mined, journal, cursor, migrations, checked, sync>>
    BY <1>2 DEF ExchangeStep, ValidateExchange, LockExchange, FinalizeExchange, FailExchange,
                DecideRelease, ReleaseLock, chainVars, dbVars
  <2> QED BY <2>1, CanonQuiet
<1>3. CASE FinalizeMigration
  BY <1>3, CanonMigration
<1>4. CASE Crash
  <2>1. sync' = Idle /\ UNCHANGED <<chain, mined, journal, cursor, migrations, checked>>
    BY <1>4 DEF Crash, chainVars, dbVars
  <2> QED BY <2>1, CanonQuiet, IdleKnown DEF Inv
<1>5. CASE Environment
  BY <1>5, CanonChain
<1>6. CASE UNCHANGED vars
  BY <1>6, CanonQuiet DEF vars, chainVars, dbVars, memVars
<1> QED BY <1>1, <1>2, <1>3, <1>4, <1>5, <1>6 DEF Next

(* A node starts with an empty index. *)
LEMMA CanonInit == Init => CanonInv
<1> SUFFICES ASSUME Init PROVE CanonInv
  OBVIOUS
<1>1. Marks = {} /\ migrations = {} /\ journal = {} /\ sync = Idle /\ mined = 0 /\ ~checked
  BY DEF Init, Marks
<1>2. ChainKnown
  BY DEF Init, ChainKnown
<1>3. sync.tip = 0 /\ sync.tipId = 0 /\ sync.pc = "idle"
  BY <1>1 DEF Idle
<1> QED BY <1>1, <1>2, <1>3
        DEF CanonInv, MarksKnown, Known, Goal, Linked, Aimed, IndexIsCanonical, Init

(* After a sync that succeeded everything the node indexed, its cursor and *)
(* the migrations up to there are on the canonical chain, whatever the     *)
(* chain did while the sync ran (sync, require_parent_hash,                *)
(* target_tip_is_canonical).                                               *)
THEOREM IndexSafety == Spec => []IndexIsCanonical
<1>1. Spec => []CanonInv
  <2>1. CanonInv /\ Inv /\ Inv' /\ [Next]_vars => CanonInv'
    BY CanonNext
  <2> QED BY <2>1, CanonInit, InvInductive, PTL DEF Spec
<1>2. CanonInv => IndexIsCanonical
  BY DEF CanonInv
<1> QED BY <1>1, <1>2, PTL

-----------------------------------------------------------------------------
(* Exchange locks through rebuilds. *)

(* A rebuild is persisted until its last lock was restored. *)
RebuildInv == sync.rebuild \/ sync.pc \in {"reset", "restore"} => recovering

(* Every step keeps a rebuild persisted. *)
LEMMA RebuildNext == Inv /\ RebuildInv /\ [Next]_vars => RebuildInv'
<1> SUFFICES ASSUME Inv, RebuildInv, [Next]_vars PROVE RebuildInv'
  OBVIOUS
<1>0. Idle.pc = "idle" /\ ~Idle.rebuild /\ sync \in SyncState
  BY DEF Idle, Inv, TypeOK
<1>1. CASE SyncBegin
  <2>1. sync'.pc = "detect" /\ ~sync'.rebuild
    BY <1>1 DEF SyncBegin, Idle
  <2> QED BY <2>1 DEF RebuildInv
<1>2. CASE sync' = Idle
  BY <1>0, <1>2 DEF RebuildInv
<1>3. CASE DetectRebuild
  BY <1>3 DEF DetectRebuild, RebuildInv
<1>4. CASE DetectResume
  <2>1. sync'.pc = "index" /\ sync'.rebuild = sync.rebuild /\ recovering' = recovering
    BY <1>0, <1>4 DEF DetectResume, SyncState, dbVars
  <2> QED BY <2>1 DEF RebuildInv
<1>5. CASE ResetProjections
  BY <1>5 DEF ResetProjections, RebuildInv
<1>6. CASE IndexBlock
  <2>1. sync'.pc = sync.pc /\ sync'.rebuild = sync.rebuild /\ recovering' = recovering
    BY <1>0, <1>6 DEF IndexBlock, SyncState
  <2> QED BY <2>1 DEF RebuildInv
<1>7. CASE FinishSync
  <2>1. CASE sync.rebuild
    BY <1>7, <2>1 DEF FinishSync, RebuildInv, dbVars
  <2>2. CASE ~sync.rebuild
    BY <1>0, <1>7, <2>2 DEF FinishSync, RebuildInv
  <2> QED BY <2>1, <2>2
<1>8. CASE RestoreLock
  BY <1>8 DEF RestoreLock, RebuildInv
<1>9. CASE UNCHANGED <<sync, recovering>>
  BY <1>9 DEF RebuildInv
<1>10. CASE DetectRefused \/ DetectUnreadable \/ DetectDisplaced \/ IndexFails \/ FinishFails
            \/ FinishRecovery \/ Crash
  BY <1>2, <1>10 DEF DetectRefused, DetectUnreadable, DetectDisplaced, IndexFails, FinishFails,
                     FinishRecovery, Crash, SyncFailed
<1>11. ASSUME NEW m \in Member, ExchangeStep(m) PROVE UNCHANGED <<sync, recovering>>
  BY <1>11 DEF ExchangeStep, ValidateExchange, LockExchange, FinalizeExchange, FailExchange,
               DecideRelease, ReleaseLock, dbVars
<1>12. CASE Environment \/ FinalizeMigration
  <2>1. UNCHANGED <<sync, recovering>>
    BY <1>12 DEF Environment, Mine, Abandon, FinalizeMigration, dbVars, memVars
  <2> QED BY <1>9, <2>1
<1>13. CASE UNCHANGED vars
  BY <1>9, <1>13 DEF vars, dbVars, memVars
<1> QED BY <1>1, <1>3, <1>4, <1>5, <1>6, <1>7, <1>8, <1>9, <1>10, <1>11, <1>12, <1>13
        DEF Next, SyncStep

(* A transaction settles the lock of the member it is marked with only. *)
LEMMA ApplyTxLocks ==
  ASSUME NEW acc \in Accounts, NEW t \in Body, NEW members, NEW m \in Member,
         t = NoTx \/ Marker[t] # m
  PROVE  ApplyTx(acc, t, members).lock[m] = acc.lock[m]
<1>1. CASE t = NoTx
  BY <1>1 DEF ApplyTx
<1>2. CASE t # NoTx
  <2>1. t \in Tx
    BY <1>2 DEF Body
  <2> DEFINE mov == Moved(acc, t)
  <2>2. mov \in Accounts /\ mov.lock = acc.lock
    BY <2>1, MovedCovered
  <2> HIDE DEF mov
  <2>3. CASE Taken(acc, t) = 0
    <3>1. ApplyTx(acc, t, members) = Credited(mov, Shares(members, Tag[t], Given(t)))
      BY <1>2, <2>3 DEF ApplyTx, mov
    <3>2. \A share : Credited(mov, share).lock = mov.lock
      BY <2>2 DEF Credited, Accounts
    <3> QED BY <2>2, <3>1, <3>2
  <2>4. CASE Taken(acc, t) # 0
    <3>1. ApplyTx(acc, t, members) = Charged(mov, Marker[t], Taken(acc, t) - Given(t))
      BY <1>2, <2>4 DEF ApplyTx, mov
    <3>2. \A cost : Charged(mov, Marker[t], cost).lock[m] = mov.lock[m]
      BY <1>2, <2>2 DEF Charged, Accounts
    <3> QED BY <2>2, <3>1, <3>2
  <2> QED BY <2>3, <2>4
<1> QED BY <1>1, <1>2

(* A block settles the locks of the members its transactions are marked with only. *)
LEMMA ApplyBlockLocks ==
  ASSUME NEW acc \in Accounts, Covered(acc), NEW b \in Block,
         NEW members \in {OldMembers, NewMembers}, BlockAccountable(acc, b, members),
         NEW m \in Member, \A t \in Carried(b) : Marker[t] # m
  PROVE  ApplyBlock(acc, b, members).lock[m] = acc.lock[m]
<1> DEFINE mid == ApplyTx(acc, b.txs[1], members)
<1>1. b.txs[1] \in Body /\ b.txs[2] \in Body
  BY DEF Block
<1>2. mid \in Accounts
  BY <1>1, ApplyTxCovered DEF BlockAccountable
<1>3. mid.lock[m] = acc.lock[m]
  BY <1>1, ApplyTxLocks DEF Carried
<1>4. ApplyBlock(acc, b, members) = ApplyTx(mid, b.txs[2], members)
  BY DEF ApplyBlock
<1> HIDE DEF mid
<1>5. b.txs[2] = NoTx \/ Marker[b.txs[2]] # m
  BY DEF Carried
<1> QED BY <1>1, <1>2, <1>3, <1>4, <1>5, ApplyTxLocks

(* The transactions a member is locked for. *)
LEMMA HeldLocks ==
  ASSUME NEW m \in Member, NEW x \in HeldTxs(m)
  PROVE  \/ ledger.lock[m] # None /\ x = ledger.lock[m].tx
         \/ saved[m] # None /\ x = saved[m].tx
  BY DEF HeldTxs

(* A member with two different locks holds two transactions. *)
LEMMA TwoHeld ==
  ASSUME NEW m \in Member, ledger.lock[m] # None, saved[m] # None,
         ledger.lock[m].tx # saved[m].tx
  PROVE  Cardinality(HeldTxs(m)) > 1
<1>1. HeldTxs(m) = {ledger.lock[m].tx, saved[m].tx}
  BY DEF HeldTxs
<1>2. IsFiniteSet({saved[m].tx}) /\ Cardinality({saved[m].tx}) = 1
  BY FS_Singleton
<1>3. Cardinality({saved[m].tx} \cup {ledger.lock[m].tx}) = 2
  BY <1>2, FS_AddElement
<1>4. HeldTxs(m) = {saved[m].tx} \cup {ledger.lock[m].tx}
  BY <1>1
<1> QED BY <1>3, <1>4

(* A lock that goes was released. *)
LEMMA LockReleased ==
  ASSUME Inv, RebuildInv, [Next]_vars, NEW m \in Member, HeldTxs(m) \ HeldTxs(m)' # {}
  PROVE  Released(m)
<1> USE DEF Inv
<1>0. PICK x \in HeldTxs(m) : x \notin HeldTxs(m)'
  OBVIOUS
<1>a. /\ ledger.lock[m] # None /\ x = ledger.lock[m].tx =>
           ledger'.lock[m] = None \/ ledger'.lock[m].tx # x
      /\ saved[m] # None /\ x = saved[m].tx => saved'[m] = None \/ saved'[m].tx # x
      /\ ledger'.lock[m] # None => ledger'.lock[m].tx # x
      /\ saved'[m] # None => saved'[m].tx # x
  BY <1>0 DEF HeldTxs
<1>b. ~(ledger'.lock[m] = ledger.lock[m] /\ saved'[m] = saved[m])
  BY <1>0, <1>a, HeldLocks
<1>c. ledger \in Accounts /\ Covered(ledger) /\ saved \in [Member -> Lock \cup {None}]
  BY DEF TypeOK, LocksAreCovered, Covered
<1>1. CASE ledger' = ledger /\ saved' = saved
  BY <1>1, <1>b
<1>2. ASSUME NEW n \in Member, ExchangeStep(n) PROVE Released(m)
  <2>1. saved' = saved
    BY <1>2 DEF ExchangeStep, ValidateExchange, LockExchange, FinalizeExchange, FailExchange,
                DecideRelease, ReleaseLock, dbVars
  <2>2. \A l : n # m => Locked(ledger, n, l).lock[m] = ledger.lock[m]
    BY <1>c DEF Locked, Accounts
  <2>3. CASE (\E t \in Tx : ValidateExchange(n, t)) \/ DecideRelease(n)
    BY <1>1, <2>3 DEF ValidateExchange, DecideRelease, dbVars
  <2>4. CASE LockExchange(n)
    <3> DEFINE t == exchange[n].tx
               l == [tx |-> t, final |-> FALSE]
    <3>1. CASE ledger' = ledger
      BY <1>1, <2>1, <3>1
    <3>2. CASE CanLock(ledger, n, t) /\ ledger' = Locked(ledger, n, l)
      <4>1. n = m
        BY <1>b, <2>1, <2>2, <3>2
      <4>2. ledger'.lock[m] = l /\ l.tx = t
        BY <1>c, <3>2, <4>1 DEF Locked, Accounts
      <4>3. ledger.lock[m] = None \/ ledger.lock[m].tx = t
        BY <3>2, <4>1 DEF CanLock
      <4>4. l # None
        <5>1. t \in Tx
          BY <2>4 DEF LockExchange, TypeOK
        <5>2. l \in Lock
          BY <5>1 DEF Lock
        <5> QED BY <5>2, NoneAssumption
      <4> QED BY <1>0, <1>a, <2>1, <4>2, <4>3, <4>4, HeldLocks
    <3> QED BY <2>4, <3>1, <3>2 DEF LockExchange
  <2>5. CASE FinalizeExchange(n) \/ FailExchange(n)
    <3>1. CASE n = m
      <4>1. exchange[m] # None /\ exchange'[m] = None
        BY <2>5, <3>1 DEF FinalizeExchange, FailExchange, TypeOK
      <4> QED BY <4>1 DEF Released
    <3>2. CASE n # m
      BY <1>b, <2>1, <2>2, <2>5, <3>2 DEF FinalizeExchange, FailExchange
    <3> QED BY <3>1, <3>2
  <2>6. CASE ReleaseLock(n)
    <3>1. CASE n = m
      <4>1. decided[m] # None /\ decided'[m] = None
        BY <2>6, <3>1 DEF ReleaseLock, TypeOK
      <4> QED BY <4>1 DEF Released
    <3>2. CASE n # m
      BY <1>b, <2>1, <2>2, <2>6, <3>2 DEF ReleaseLock
    <3> QED BY <3>1, <3>2
  <2> QED BY <1>2, <2>3, <2>4, <2>5, <2>6 DEF ExchangeStep
<1>3. CASE ResetProjections
  <2>1. saved'[m] = IF saved[m] = None THEN ledger.lock[m] ELSE saved[m]
    BY <1>3 DEF ResetProjections, SetAside
  <2>2. CASE saved[m] = None
    BY <1>0, <1>a, <2>1, <2>2, HeldLocks
  <2>3. CASE saved[m] # None
    <3>1. saved'[m] = saved[m] /\ saved[m].tx # x
      BY <1>a, <2>1, <2>3
    <3>2. ledger.lock[m] # None /\ x = ledger.lock[m].tx
      BY <1>0, <3>1, HeldLocks
    <3>3. Cardinality(HeldTxs(m)) > 1
      BY <2>3, <3>1, <3>2, TwoHeld
    <3> QED BY <3>3 DEF Released
  <2> QED BY <2>2, <2>3
<1>4. CASE IndexBlock
  <2> DEFINE here == [height |-> sync.next, id |-> Here.id]
             accounts == sync.droplets /\ BlockAccountable(ledger, Here, ActiveMembers)
  <2>1. saved' = saved
    BY <1>4 DEF IndexBlock
  <2>2. accounts /\ ledger' = ApplyBlock(ledger, Here, ActiveMembers)
    BY <1>b, <1>4, <2>1 DEF IndexBlock
  <2>3. /\ sync.next \in Nat /\ sync.next > 0 /\ sync.next <= Len(chain) /\ sync.pc = "index"
        /\ Len(chain) \in Nat
    BY <1>4 DEF IndexBlock, Indexing, Readable, TypeOK, SyncState, JournalOrdered
  <2>4. Here \in Block
    BY <2>3, ChainType DEF Here
  <2>5. ActiveMembers \in {OldMembers, NewMembers}
    BY DEF ActiveMembers
  <2>6. \E t \in Carried(Here) : Marker[t] = m
    BY <1>b, <1>c, <2>1, <2>2, <2>4, <2>5, ApplyBlockLocks
  <2>7. here \in journal' /\ here.height = sync.next
    BY <1>4 DEF IndexBlock
  <2>8. here \notin journal
    BY <2>3, <2>7 DEF JournalOrdered
  <2>9. chain[here.height] = Here
    BY <2>7 DEF Here
  <2> HIDE DEF here
  <2>10. \E k \in journal' \ journal : \E t \in Carried(chain[k.height]) : Marker[t] = m
    BY <2>6, <2>7, <2>8, <2>9
  <2> QED BY <2>10 DEF Released
<1>5. CASE RestoreLock
  <2>1. PICK n \in sync.todo :
          ledger' = IF /\ ledger.amount[n] >= Cost(saved[n].tx)
                       /\ ledger.lock[n] \in {None, saved[n]}
                      THEN Locked(ledger, n, saved[n])
                      ELSE ledger
    BY <1>5 DEF RestoreLock
  <2>2. saved' = saved
    BY <1>5 DEF RestoreLock
  <2>3. /\ ledger.lock[n] \in {None, saved[n]}
        /\ ledger' = Locked(ledger, n, saved[n])
    BY <1>b, <2>1, <2>2
  <2>4. n = m
    BY <1>b, <1>c, <2>2, <2>3 DEF Locked, Accounts
  <2>5. ledger'.lock[m] = saved[m]
    BY <1>c, <2>3, <2>4 DEF Locked, Accounts
  <2> QED BY <1>0, <1>a, <2>2, <2>3, <2>4, <2>5, HeldLocks
<1>6. CASE FinishRecovery
  <2>1. recovering /\ ~recovering' /\ m \notin sync.todo
    BY <1>6 DEF FinishRecovery, RebuildInv
  <2> QED BY <2>1 DEF Released
<1>7. CASE SyncBegin \/ DetectRefused \/ DetectUnreadable \/ DetectDisplaced \/ DetectRebuild
           \/ DetectResume \/ IndexFails \/ FinishFails \/ FinishSync
  BY <1>1, <1>7 DEF SyncBegin, DetectRefused, DetectUnreadable, DetectDisplaced, DetectRebuild,
                    DetectResume, IndexFails, FinishFails, FinishSync, dbVars
<1>8. CASE FinalizeMigration \/ Crash \/ Environment
  <2>1. ledger' = ledger /\ saved' = saved
    BY <1>8 DEF FinalizeMigration, Crash, Environment, Mine, Abandon, dbVars
  <2> QED BY <1>1, <2>1
<1>9. CASE UNCHANGED vars
  BY <1>1, <1>9 DEF vars, dbVars
<1> QED BY <1>2, <1>3, <1>4, <1>5, <1>6, <1>7, <1>8, <1>9 DEF Next, SyncStep

(* No step ends a lock but a failed signing, a release, a block that       *)
(* spends for the member and the end of a rebuild: in particular no        *)
(* rebuild forgets one, however often it is interrupted and started over   *)
(* (reset_projections, restore of the locks).                              *)
THEOREM LocksSurvive == Spec => LocksSurviveRebuild
<1>1. Init => RebuildInv
  BY DEF Init, RebuildInv, Idle
<1>2. Spec => []RebuildInv
  <2>1. Inv /\ RebuildInv /\ [Next]_vars => RebuildInv'
    BY RebuildNext
  <2> QED BY <1>1, <2>1, InvInductive, PTL DEF Spec
<1> DEFINE Kept == \A m \in Member : HeldTxs(m) \ HeldTxs(m)' # {} => Released(m)
<1>3. Inv /\ RebuildInv /\ [Next]_vars => [Kept]_vars
  BY LockReleased
<1> HIDE DEF Kept
<1>4. Spec => [][Kept]_vars
  BY <1>2, <1>3, InvInductive, PTL DEF Spec
<1>5. [][Kept]_vars <=> LocksSurviveRebuild
  BY DEF Kept, LocksSurviveRebuild
<1> QED BY <1>4, <1>5

-----------------------------------------------------------------------------
(* The balance of the ledger. *)
Balanced(acc) == Sum(acc.amount, Member) = Total(acc.treasury) + Sum(acc.deficit, Member)

(* The sums of the balances are integers. *)
LEMMA SumsType ==
  ASSUME NEW f \in [Member -> Nat]
  PROVE  Sum(f, Member) \in Nat
<1>1. IsFiniteSet(Member) /\ \A m \in Member : f[m] \in Nat
  BY MemberAssumption
<1> QED BY <1>1, SumNat

(* Equal shares: quotient and remainder. *)
LEMMA Division ==
  ASSUME NEW value \in Nat, NEW n \in Nat, n # 0
  PROVE  /\ value \div n \in Nat /\ value % n \in Nat /\ value % n < n
         /\ value = n * (value \div n) + (value % n)
  OBVIOUS

(* credit_deposit gives away the whole deposit, and no satoshi more. *)
LEMMA SharesSum ==
  ASSUME NEW members \in {OldMembers, NewMembers}, NEW tag, NEW value \in Nat
  PROVE  Sum(Shares(members, tag, value), Member) = value
<1> DEFINE f == Shares(members, tag, value)
           n == Cardinality(members)
<1>0. /\ members \subseteq Member /\ members # {} /\ IsFiniteSet(Member)
      /\ IsFiniteSet(members) /\ \A m \in Member : m \in Nat
  BY MemberAssumption, FS_Subset
<1>1. f \in [Member -> Nat]
  BY SharesType
<1>2. CASE tag \in members
  <2>1. tag \in Member /\ f[tag] = value /\ \A m \in Member \ {tag} : f[m] = 0
    BY <1>0, <1>2 DEF Shares
  <2> HIDE DEF f
  <2>2. Sum(f, Member) = f[tag]
    BY <1>0, <2>1, SumSingle
  <2> QED BY <2>1, <2>2 DEF f
<1>3. CASE tag \notin members
  <2> DEFINE q == value \div n
             r == value % n
             others == Member \ members
             equal == [m \in members |-> q]
  <2>1. n \in Nat /\ n # 0
    BY <1>0, FS_CardinalityType, FS_EmptySet
  <2>2. \A m \in members : f[m] = q + First(members, r)[m]
    BY <1>0, <1>3 DEF Shares, First
  <2>3. \A m \in others : f[m] = 0
    BY <1>3 DEF Shares
  <2> HIDE DEF n
  <2>4. q \in Nat /\ r \in Nat /\ r < n /\ value = n * q + r
    BY <2>1, Division
  <2>5. \A m \in members : First(members, r)[m] \in Int
    BY DEF First
  <2> HIDE DEF f, q, r
  <2>6. Sum(equal, members) = n * q
    BY <1>0, <2>4, SumConstant DEF n
  <2>7. Sum(First(members, r), members) = r
    BY <1>0, <2>4, SumFirst DEF n
  <2>8. Sum(f, members) = Sum(equal, members) + Sum(First(members, r), members)
    <3> DEFINE g == First(members, r)
    <3>1. \A m \in members : equal[m] \in Int /\ g[m] \in Int /\ f[m] = equal[m] + g[m]
      BY <2>2, <2>4, <2>5
    <3> HIDE DEF g, equal
    <3>2. Sum(f, members) = Sum(equal, members) + Sum(g, members)
      BY <1>0, <3>1, SumPlus
    <3> QED BY <3>2 DEF g
  <2>9. Sum(f, others) = 0
    <3>1. IsFiniteSet(others)
      BY <1>0, FS_Subset
    <3>2. Sum(f, others) = Cardinality(others) * 0
      BY <2>3, <3>1, SumConstant
    <3> QED BY <3>1, <3>2, FS_CardinalityType
  <2>10. Sum(f, members \cup others) = Sum(f, members) + Sum(f, others)
    <3>1. IsFiniteSet(others) /\ members \cap others = {} /\ members \cup others = Member
      BY <1>0, FS_Subset
    <3>2. \A m \in members \cup others : f[m] \in Int
      BY <1>1, <3>1
    <3> HIDE DEF others
    <3> QED BY <1>0, <3>1, <3>2, SumUnion
  <2>11. members \cup others = Member
    BY <1>0
  <2>12. Sum(f, Member) = (n * q + r) + 0
    BY <2>6, <2>7, <2>8, <2>9, <2>10, <2>11
  <2>13. n * q \in Nat
    BY <2>1, <2>4
  <2>14. Sum(f, Member) = value
    BY <2>4, <2>12, <2>13
  <2> QED BY <2>14 DEF f
<1> QED BY <1>2, <1>3

(* A credit raises what is owed by the shares. *)
LEMMA CreditedSum ==
  ASSUME NEW acc \in Accounts, NEW share \in [Member -> Nat]
  PROVE  LET new == Credited(acc, share) IN
         Sum(new.amount, Member) + Sum(acc.deficit, Member)
           = Sum(acc.amount, Member) + Sum(share, Member) + Sum(new.deficit, Member)
<1> DEFINE a == acc.amount
           d == acc.deficit
           b == [m \in Member |-> acc.amount[m] + Larger(share[m], acc.deficit[m])]
           e == [m \in Member |-> Larger(acc.deficit[m], share[m])]
           both == [m \in Member |-> b[m] + d[m]]
           rest == [m \in Member |-> share[m] + e[m]]
<1>1. Credited(acc, share).amount = b /\ Credited(acc, share).deficit = e
  BY DEF Credited, Accounts
<1>2. a \in [Member -> Nat] /\ d \in [Member -> Nat]
  BY DEF Accounts
<1>3. \A m \in Member : /\ Larger(share[m], d[m]) \in Nat /\ Larger(d[m], share[m]) \in Nat
                        /\ Larger(share[m], d[m]) + d[m] = share[m] + Larger(d[m], share[m])
  BY <1>2 DEF Larger
<1>4. \A m \in Member :
        /\ a[m] \in Int /\ b[m] \in Int /\ d[m] \in Int /\ share[m] \in Int /\ e[m] \in Int
        /\ rest[m] \in Int
        /\ both[m] = b[m] + d[m] /\ rest[m] = share[m] + e[m] /\ both[m] = a[m] + rest[m]
  BY <1>2, <1>3
<1>5. IsFiniteSet(Member)
  BY MemberAssumption
<1> HIDE DEF a, b, d, e, both, rest
<1>6. Sum(both, Member) = Sum(b, Member) + Sum(d, Member)
  BY <1>4, <1>5, SumPlus
<1>7. Sum(rest, Member) = Sum(share, Member) + Sum(e, Member)
  BY <1>4, <1>5, SumPlus
<1>8. Sum(both, Member) = Sum(a, Member) + Sum(rest, Member)
  BY <1>4, <1>5, SumPlus
<1>9. /\ Sum(a, Member) \in Int /\ Sum(b, Member) \in Int /\ Sum(d, Member) \in Int
      /\ Sum(e, Member) \in Int /\ Sum(share, Member) \in Int
  BY <1>4, <1>5, SumInt
<1>10. Sum(b, Member) + Sum(d, Member) = Sum(a, Member) + Sum(share, Member) + Sum(e, Member)
  BY <1>6, <1>7, <1>8, <1>9
<1> QED BY <1>1, <1>10 DEF a, d

(* A charge lowers what is owed by the cost, through the overdraft too. *)
LEMMA ChargedSum ==
  ASSUME NEW acc \in Accounts, NEW m \in Member, NEW cost \in Nat
  PROVE  LET new == Charged(acc, m, cost) IN
         Sum(new.amount, Member) + Sum(acc.deficit, Member) + cost
           = Sum(acc.amount, Member) + Sum(new.deficit, Member)
<1> DEFINE a == acc.amount
           d == acc.deficit
           b == [acc.amount EXCEPT ![m] = Larger(acc.amount[m], cost)]
           e == [acc.deficit EXCEPT ![m] = acc.deficit[m] + Larger(cost, acc.amount[m])]
           paid == [k \in Member |-> IF k = m THEN cost ELSE 0]
           left == [k \in Member |-> b[k] + d[k]]
           both == [k \in Member |-> left[k] + paid[k]]
<1>1. Charged(acc, m, cost).amount = b /\ Charged(acc, m, cost).deficit = e
  BY DEF Charged, Accounts
<1>2. a \in [Member -> Nat] /\ d \in [Member -> Nat]
  BY DEF Accounts
<1>3. /\ Larger(a[m], cost) \in Nat /\ Larger(cost, a[m]) \in Nat
      /\ Larger(a[m], cost) + cost = a[m] + Larger(cost, a[m])
  BY <1>2 DEF Larger
<1>4. \A k \in Member :
        /\ a[k] \in Int /\ b[k] \in Int /\ d[k] \in Int /\ paid[k] \in Int /\ e[k] \in Int
        /\ left[k] \in Int
        /\ left[k] = b[k] + d[k] /\ both[k] = left[k] + paid[k] /\ both[k] = a[k] + e[k]
  BY <1>2, <1>3
<1>5. IsFiniteSet(Member)
  BY MemberAssumption
<1>6. paid[m] = cost /\ paid[m] \in Int /\ \A k \in Member \ {m} : paid[k] = 0
  OBVIOUS
<1> HIDE DEF a, b, d, e, paid, left, both
<1>7. Sum(paid, Member) = cost
  BY <1>5, <1>6, SumSingle
<1>8. Sum(left, Member) = Sum(b, Member) + Sum(d, Member)
  BY <1>4, <1>5, SumPlus
<1>9. Sum(both, Member) = Sum(left, Member) + Sum(paid, Member)
  BY <1>4, <1>5, SumPlus
<1>10. Sum(both, Member) = Sum(a, Member) + Sum(e, Member)
  BY <1>4, <1>5, SumPlus
<1>11. /\ Sum(a, Member) \in Int /\ Sum(b, Member) \in Int /\ Sum(d, Member) \in Int
       /\ Sum(e, Member) \in Int
  BY <1>4, <1>5, SumInt
<1>12. Sum(b, Member) + Sum(d, Member) + cost = Sum(a, Member) + Sum(e, Member)
  BY <1>7, <1>8, <1>9, <1>10, <1>11
<1> QED BY <1>1, <1>12 DEF a, d

(* What an outpoint set is worth without some of it. *)
LEMMA MovedTotal ==
  ASSUME NEW acc \in Accounts, IsFiniteSet(acc.treasury), NEW t \in Tx,
         Outs[t] \cap acc.treasury = {}
  PROVE  LET new == Moved(acc, t) IN
         /\ IsFiniteSet(new.treasury)
         /\ new.treasury \subseteq acc.treasury \cup Outs[t]
         /\ Total(new.treasury) + Taken(acc, t) = Total(acc.treasury) + Given(t)
         /\ Total(new.treasury) \in Nat /\ Total(acc.treasury) \in Nat
<1> DEFINE T == acc.treasury
           gone == Ins[t] \cap T
           kept == T \ Ins[t]
           made == {o \in Outs[t] : Value[o] > 0}
           after == kept \cup made
<1>1. Moved(acc, t).treasury = after
  BY DEF Moved, Accounts
<1>2. /\ T \in SUBSET Outpoint /\ IsFiniteSet(T)
      /\ gone \in SUBSET Outpoint /\ IsFiniteSet(gone)
      /\ kept \in SUBSET Outpoint /\ IsFiniteSet(kept)
      /\ made \in SUBSET Outpoint /\ IsFiniteSet(made)
  <2>1. T \in SUBSET Outpoint
    BY DEF Accounts
  <2>2. IsFiniteSet(gone) /\ IsFiniteSet(kept)
    BY FS_Subset
  <2>3. made \in SUBSET Outpoint /\ IsFiniteSet(made)
    BY PartFinite
  <2> QED BY <2>1, <2>2, <2>3
<1>3. after \in SUBSET Outpoint /\ IsFiniteSet(after)
  <2>1. after \in SUBSET Outpoint
    BY <1>2
  <2> HIDE DEF kept, made
  <2> QED BY <1>2, <2>1, FS_Union
<1>4. gone \cup kept = T /\ gone \cap kept = {} /\ kept \cap made = {}
  OBVIOUS
<1>5. \A o \in Outpoint : Value[o] \in Int
  BY TxAssumption
<1> HIDE DEF gone, kept, made
<1>6. Sum(Value, gone \cup kept) = Sum(Value, gone) + Sum(Value, kept)
  BY <1>2, <1>4, <1>5, SumUnion
<1>7. Sum(Value, kept \cup made) = Sum(Value, kept) + Sum(Value, made)
  BY <1>2, <1>4, <1>5, SumUnion
<1>8. /\ Total(gone) = Sum(Value, gone) /\ Total(gone) \in Nat
      /\ Total(kept) = Sum(Value, kept) /\ Total(kept) \in Nat
      /\ Total(made) = Sum(Value, made) /\ Total(made) \in Nat
      /\ Total(after) = Sum(Value, after) /\ Total(after) \in Nat
      /\ Total(T) = Sum(Value, T) /\ Total(T) \in Nat
  <2> HIDE DEF after, T
  <2> QED BY <1>2, <1>3, TotalType
<1>9. Total(after) + Total(gone) = Total(T) + Total(made)
  <2>1. Total(T) = Total(gone) + Total(kept)
    BY <1>4, <1>6, <1>8
  <2>2. Total(after) = Total(kept) + Total(made)
    BY <1>7, <1>8
  <2> HIDE DEF after, T
  <2> QED BY <1>8, <2>1, <2>2
<1>10. Taken(acc, t) = Total(gone) /\ Given(t) = Total(made)
  BY DEF Taken, Given, gone, made
<1>11. after \subseteq T \cup Outs[t]
  BY DEF kept, made
<1> QED BY <1>1, <1>3, <1>8, <1>9, <1>10, <1>11

(* apply_block_in accounts every satoshi of one transaction. *)
LEMMA ApplyTxBalanced ==
  ASSUME NEW acc \in Accounts, Balanced(acc), IsFiniteSet(acc.treasury), NEW t \in Body,
         NEW members \in {OldMembers, NewMembers}, Accountable(acc, t, members),
         t # NoTx => Outs[t] \cap acc.treasury = {}
  PROVE  LET new == ApplyTx(acc, t, members) IN
         /\ Balanced(new)
         /\ IsFiniteSet(new.treasury)
         /\ new.treasury \subseteq acc.treasury \cup (IF t = NoTx THEN {} ELSE Outs[t])
<1>1. CASE t = NoTx
  BY <1>1 DEF ApplyTx
<1>2. CASE t # NoTx
  <2>1. t \in Tx /\ Taken(acc, t) \in Nat /\ Given(t) \in Nat
    BY <1>2, TakenType, GivenType DEF Body
  <2> DEFINE mov == Moved(acc, t)
  <2>2. mov \in Accounts /\ mov.amount = acc.amount /\ mov.deficit = acc.deficit
    BY <2>1, MovedCovered
  <2>3. /\ IsFiniteSet(mov.treasury)
        /\ mov.treasury \subseteq acc.treasury \cup Outs[t]
        /\ Total(mov.treasury) + Taken(acc, t) = Total(acc.treasury) + Given(t)
        /\ Total(mov.treasury) \in Nat /\ Total(acc.treasury) \in Nat
    BY <1>2, <2>1, MovedTotal
  <2> HIDE DEF mov
  <2>4. /\ Sum(acc.amount, Member) = Total(acc.treasury) + Sum(acc.deficit, Member)
        /\ Sum(acc.amount, Member) \in Nat /\ Sum(acc.deficit, Member) \in Nat
    BY SumsType DEF Balanced, Accounts
  <2>5. CASE Taken(acc, t) = 0
    <3> DEFINE share == Shares(members, Tag[t], Given(t))
               new == Credited(mov, share)
    <3>1. share \in [Member -> Nat] /\ Sum(share, Member) = Given(t)
      BY <2>1, SharesType, SharesSum
    <3>2. ApplyTx(acc, t, members) = new
      BY <1>2, <2>5 DEF ApplyTx, mov
    <3> HIDE DEF share
    <3>3. Sum(new.amount, Member) + Sum(mov.deficit, Member)
            = Sum(mov.amount, Member) + Sum(share, Member) + Sum(new.deficit, Member)
      BY <2>2, <3>1, CreditedSum
    <3>4. new.treasury = mov.treasury
      BY <2>2 DEF Credited, Accounts
    <3>5. Sum(new.amount, Member) \in Nat /\ Sum(new.deficit, Member) \in Nat
      <4>1. new.amount \in [Member -> Nat] /\ new.deficit \in [Member -> Nat]
        <5>1. /\ new.amount = [m \in Member |-> mov.amount[m] + Larger(share[m], mov.deficit[m])]
              /\ new.deficit = [m \in Member |-> Larger(mov.deficit[m], share[m])]
          BY <2>2 DEF Credited, Accounts
        <5>2. mov.amount \in [Member -> Nat] /\ mov.deficit \in [Member -> Nat]
          BY <2>2 DEF Accounts
        <5>3. \A m \in Member : /\ mov.amount[m] \in Nat
                                /\ Larger(share[m], mov.deficit[m]) \in Nat
                                /\ Larger(mov.deficit[m], share[m]) \in Nat
          BY <3>1, <5>2, LargerType
        <5> HIDE DEF new
        <5> QED BY <5>1, <5>3
      <4> HIDE DEF new
      <4> QED BY <4>1, SumsType
    <3> HIDE DEF new
    <3>6. Sum(new.amount, Member) = Total(new.treasury) + Sum(new.deficit, Member)
      BY <2>1, <2>2, <2>3, <2>4, <2>5, <3>1, <3>3, <3>4, <3>5
    <3> QED BY <1>2, <2>3, <3>2, <3>4, <3>6 DEF Balanced
  <2>6. CASE Taken(acc, t) # 0
    <3> DEFINE m == Marker[t]
               cost == Taken(acc, t) - Given(t)
               new == Charged(mov, m, cost)
    <3>1. m \in Member /\ cost \in Nat /\ cost + Given(t) = Taken(acc, t)
      <4>1. Marker[t] \in members /\ Given(t) <= Taken(acc, t)
        BY <1>2, <2>6 DEF Accountable
      <4>2. m \in Member
        BY <4>1, MemberAssumption
      <4> QED BY <2>1, <4>1, <4>2
    <3>2. ApplyTx(acc, t, members) = new
      BY <1>2, <2>6 DEF ApplyTx, mov
    <3> HIDE DEF m, cost
    <3>3. Sum(new.amount, Member) + Sum(mov.deficit, Member) + cost
            = Sum(mov.amount, Member) + Sum(new.deficit, Member)
      BY <2>2, <3>1, ChargedSum
    <3>4. new.treasury = mov.treasury
      BY <2>2 DEF Charged, Accounts
    <3>5. Sum(new.amount, Member) \in Nat /\ Sum(new.deficit, Member) \in Nat
      <4>1. new.amount \in [Member -> Nat] /\ new.deficit \in [Member -> Nat]
        <5>1. /\ new.amount = [mov.amount EXCEPT ![m] = Larger(mov.amount[m], cost)]
              /\ new.deficit = [mov.deficit EXCEPT ![m] = mov.deficit[m] + Larger(cost, mov.amount[m])]
          BY <2>2 DEF Charged, Accounts
        <5>2. mov.amount \in [Member -> Nat] /\ mov.deficit \in [Member -> Nat]
          BY <2>2 DEF Accounts
        <5>3. Larger(mov.amount[m], cost) \in Nat /\ Larger(cost, mov.amount[m]) \in Nat
          BY <3>1, <5>2, LargerType
        <5> QED BY <3>1, <5>1, <5>2, <5>3
      <4> HIDE DEF new
      <4> QED BY <4>1, SumsType
    <3> HIDE DEF new
    <3>6. Sum(new.amount, Member) = Total(new.treasury) + Sum(new.deficit, Member)
      BY <2>1, <2>2, <2>3, <2>4, <3>1, <3>3, <3>4, <3>5
    <3> QED BY <1>2, <2>3, <3>2, <3>4, <3>6 DEF Balanced
  <2> QED BY <2>5, <2>6
<1> QED BY <1>1, <1>2

(* The outputs that the transactions of a block create. *)
Created(b) == UNION {Outs[t] : t \in Carried(b)}

(* apply_block_in accounts every satoshi of a block. *)
LEMMA ApplyBlockBalanced ==
  ASSUME NEW acc \in Accounts, Covered(acc), Balanced(acc), IsFiniteSet(acc.treasury),
         NEW b \in Block, NEW members \in {OldMembers, NewMembers},
         BlockAccountable(acc, b, members),
         Created(b) \cap acc.treasury = {},
         b.txs[1] = b.txs[2] => b.txs[1] = NoTx
  PROVE  LET new == ApplyBlock(acc, b, members) IN
         /\ Balanced(new)
         /\ IsFiniteSet(new.treasury)
         /\ new.treasury \subseteq acc.treasury \cup Created(b)
<1> DEFINE t == b.txs[1]
           u == b.txs[2]
           mid == ApplyTx(acc, t, members)
           new == ApplyTx(mid, u, members)
<1>1. t \in Body /\ u \in Body /\ Accountable(acc, t, members) /\ Accountable(mid, u, members)
  BY DEF Block, BlockAccountable
<1>2. /\ t # NoTx => t \in Tx /\ Outs[t] \subseteq Created(b)
      /\ u # NoTx => u \in Tx /\ Outs[u] \subseteq Created(b)
  BY <1>1 DEF Created, Carried, Body
<1>3. t # NoTx => Outs[t] \cap acc.treasury = {}
  BY <1>2
<1>4. mid \in Accounts /\ Covered(mid)
  BY <1>1, ApplyTxCovered
<1>5. /\ Balanced(mid) /\ IsFiniteSet(mid.treasury)
      /\ mid.treasury \subseteq acc.treasury \cup (IF t = NoTx THEN {} ELSE Outs[t])
  BY <1>1, <1>3, ApplyTxBalanced
<1>6. u # NoTx => Outs[u] \cap mid.treasury = {}
  <2>1. SUFFICES ASSUME u # NoTx, NEW o \in Outs[u], o \in mid.treasury PROVE FALSE
    OBVIOUS
  <2>2. o \notin acc.treasury
    BY <1>2, <2>1
  <2>3. t # NoTx /\ o \in Outs[t]
    <3> HIDE DEF mid, t
    <3> QED BY <1>5, <2>1, <2>2
  <2>4. t = u
    BY <1>2, <2>1, <2>3, OutpointAssumption
  <2> QED BY <2>1, <2>4
<1>7. ApplyBlock(acc, b, members) = new
  BY DEF ApplyBlock
<1> HIDE DEF t, u, mid
<1>8. /\ Balanced(new) /\ IsFiniteSet(new.treasury)
      /\ new.treasury \subseteq mid.treasury \cup (IF u = NoTx THEN {} ELSE Outs[u])
  BY <1>1, <1>4, <1>5, <1>6, ApplyTxBalanced
<1> HIDE DEF new
<1>9. new.treasury \subseteq acc.treasury \cup Created(b)
  BY <1>2, <1>5, <1>8
<1> QED BY <1>7, <1>8, <1>9

(* A transaction is confirmed once. *)
ChainOnce ==
  /\ \A h, i \in 1 .. Len(chain) : Carried(chain[h]) \cap Carried(chain[i]) # {} => h = i
  /\ \A h \in 1 .. Len(chain) : chain[h].txs[1] = chain[h].txs[2] => chain[h].txs[1] = NoTx

(* As long as the index is canonical, the Treasury outputs were created by *)
(* blocks that it holds.                                                   *)
Sourced ==
  (\A k \in journal : OnChain(k)) =>
    \A o \in ledger.treasury :
      \E h \in 1 .. Len(chain) : h <= IndexedTip /\ o \in Created(chain[h])

BalanceInv == Balanced(ledger) /\ IsFiniteSet(ledger.treasury) /\ ChainOnce /\ Sourced

(* The chain confirms no transaction twice. *)
LEMMA ChainOnceNext == ASSUME Inv, ChainOnce, Environment PROVE ChainOnce'
<1>1. ASSUME NEW first \in Body, NEW second \in Body, Mine(first, second)
      PROVE  ChainOnce'
  <2> DEFINE n == Len(chain)
             b == [id |-> mined + 1, txs |-> <<first, second>>]
  <2>1. /\ n \in Nat /\ Len(chain') = n + 1
        /\ \A h \in 1 .. n : chain'[h] = chain[h]
        /\ chain'[n + 1] = b
    BY <1>1 DEF Mine, Inv, TypeOK
  <2>2. Carried(b) = {first, second} \ {NoTx} /\ b.txs[1] = first /\ b.txs[2] = second
    BY DEF Carried
  <2>3. \A t \in Carried(b) : t \notin Confirmed
    BY <1>1, <2>2 DEF Mine, Fresh
  <2>4. \A h \in 1 .. n : Carried(chain[h]) \subseteq Confirmed
    BY <2>1 DEF Confirmed, Inv, TypeOK
  <2>5. first = second => first = NoTx
    BY <1>1 DEF Mine
  <2> HIDE DEF n, b
  <2>6. \A h \in 1 .. n + 1 : h = n + 1 \/ h \in 1 .. n
    BY <2>1
  <2>7. \A h \in 1 .. n : Carried(chain'[h]) \cap Carried(b) = {}
    BY <2>1, <2>3, <2>4
  <2>8. ASSUME NEW h \in 1 .. n + 1, NEW i \in 1 .. n + 1,
               Carried(chain'[h]) \cap Carried(chain'[i]) # {}
        PROVE  h = i
    BY <2>1, <2>6, <2>7, <2>8 DEF ChainOnce, n
  <2>9. ASSUME NEW h \in 1 .. n + 1, chain'[h].txs[1] = chain'[h].txs[2]
        PROVE  chain'[h].txs[1] = NoTx
    BY <2>1, <2>2, <2>5, <2>6, <2>9 DEF ChainOnce, n
  <2> QED BY <2>1, <2>8, <2>9 DEF ChainOnce, Carried
<1>2. CASE Abandon
  <2>1. /\ Len(chain') = Len(chain) - 1 /\ Len(chain) \in Nat /\ Len(chain) > 0
        /\ \A h \in 1 .. Len(chain) - 1 : chain'[h] = chain[h]
    BY <1>2, AbandonedChain DEF Inv
  <2>2. \A h \in 1 .. Len(chain') : h \in 1 .. Len(chain) /\ chain'[h] = chain[h]
    BY <2>1
  <2> QED BY <2>2 DEF ChainOnce, Carried
<1> QED BY <1>1, <1>2 DEF Environment

(* The chain takes no source of the Treasury away that the index relies on. *)
LEMMA SourcedChain ==
  ASSUME Inv, CanonInv, Sourced, Environment
  PROVE  Sourced'
<1> USE DEF Inv, CanonInv
<1>1. /\ journal' = journal /\ ledger' = ledger /\ IndexedTip' = IndexedTip
      /\ journal \subseteq Marks
  <2>1. journal' = journal /\ ledger' = ledger
    <3>1. CASE Abandon
      BY <3>1 DEF Abandon, dbVars
    <3>2. CASE \E first, second \in Body : Mine(first, second)
      BY <3>2 DEF Mine, dbVars
    <3> QED BY <3>1, <3>2 DEF Environment
  <2> QED BY <2>1 DEF IndexedTip, Marks
<1>2. \A k \in journal : k \in Mark /\ Known(k) /\ k.height > 0
  BY <1>1, MarksType DEF MarksKnown
<1>3. SUFFICES ASSUME \A k \in journal : OnChain(k)', NEW o \in ledger.treasury
               PROVE  \E h \in 1 .. Len(chain') : h <= IndexedTip /\ o \in Created(chain'[h])
  <2>1. \A b : Created(b)' = Created(b)
    BY DEF Created, Carried
  <2> QED BY <1>1, <2>1 DEF Sourced, Created, Carried
<1>4. ASSUME NEW first \in Body, NEW second \in Body, Mine(first, second)
      PROVE  \E h \in 1 .. Len(chain') : h <= IndexedTip /\ o \in Created(chain'[h])
  <2>1. \A k \in journal : OnChain(k)
    BY <1>2, <1>3, <1>4, MineKeeps DEF MarksKnown
  <2>2. PICK h \in 1 .. Len(chain) : h <= IndexedTip /\ o \in Created(chain[h])
    BY <2>1, <1>3 DEF Sourced
  <2>3. Len(chain') = Len(chain) + 1 /\ Len(chain) \in Nat /\ chain'[h] = chain[h]
    BY <1>4 DEF Mine, TypeOK
  <2> QED BY <2>2, <2>3
<1>5. CASE Abandon
  <2>1. \A k \in journal : OnChain(k) /\ k.height < Len(chain)
    BY <1>2, <1>3, <1>5, AbandonKeeps
  <2>2. PICK h \in 1 .. Len(chain) : h <= IndexedTip /\ o \in Created(chain[h])
    BY <2>1, <1>3 DEF Sourced
  <2>3. IndexedTip < Len(chain) /\ IndexedTip \in Nat
    <3>1. journal # {}
      BY <2>2 DEF IndexedTip
    <3>2. PICK top \in JournalTip : TRUE
      BY <3>1, IndexedTipType
    <3> QED BY <2>1, <3>2, IndexedTipType DEF JournalTip
  <2>4. h \in 1 .. Len(chain') /\ chain'[h] = chain[h]
    BY <1>5, <2>2, <2>3, AbandonedChain
  <2> QED BY <2>2, <2>4
<1> QED BY <1>4, <1>5 DEF Environment

(* Steps that touch no balance and leave the index alone. *)
LEMMA BalanceQuiet ==
  ASSUME BalanceInv, UNCHANGED <<chain, journal>>,
         ledger'.amount = ledger.amount, ledger'.deficit = ledger.deficit,
         ledger'.treasury = ledger.treasury
  PROVE  BalanceInv'
<1>1. Balanced(ledger)' /\ IsFiniteSet(ledger.treasury)'
  BY DEF BalanceInv, Balanced
<1>2. ChainOnce'
  BY DEF BalanceInv, ChainOnce, Carried
<1>3. Sourced'
  <2>1. IndexedTip' = IndexedTip /\ \A k : OnChain(k)' <=> OnChain(k)
    BY DEF IndexedTip, OnChain, HashAt
  <2> QED BY <2>1 DEF BalanceInv, Sourced, Created, Carried
<1> QED BY <1>1, <1>2, <1>3 DEF BalanceInv

(* Locking touches no balance. *)
LEMMA LockedBalance ==
  ASSUME NEW acc \in Accounts, NEW m, NEW l
  PROVE  /\ Locked(acc, m, l).amount = acc.amount
         /\ Locked(acc, m, l).deficit = acc.deficit
         /\ Locked(acc, m, l).treasury = acc.treasury
  BY DEF Locked, Accounts

(* Nothing is owed and nothing is held. *)
LEMMA EmptyBalanced == Balanced(EmptyAccounts) /\ IsFiniteSet(EmptyAccounts.treasury)
<1> DEFINE zero == [m \in Member |-> 0]
<1>1. /\ EmptyAccounts.amount = zero /\ EmptyAccounts.deficit = zero
      /\ EmptyAccounts.treasury = {}
  BY DEF EmptyAccounts
<1>2. zero \in [Member -> Nat]
  OBVIOUS
<1> HIDE DEF zero
<1>3. Sum(zero, Member) \in Nat
  BY <1>2, SumsType
<1>4. IsFiniteSet({}) /\ {} \in SUBSET Outpoint
  BY FS_EmptySet
<1>5. Total({}) = 0
  BY <1>4, TotalType, SumEmpty
<1> QED BY <1>1, <1>3, <1>4, <1>5 DEF Balanced

(* The height of the highest mark. *)
LEMMA MaxHeightOf ==
  ASSUME NEW J, J \subseteq Mark, NEW k \in J, \A j \in J : j.height <= k.height
  PROVE  Max({j.height : j \in J}) = k.height
<1> DEFINE H == {j.height : j \in J}
<1>1. H \subseteq Nat /\ k.height \in H /\ \A h \in H : h <= k.height
  BY DEF Mark
<1>2. \A h \in H : k.height >= h
  BY <1>1
<1> HIDE DEF H
<1>3. \E x \in H : \A y \in H : x >= y
  BY <1>1, <1>2
<1>4. Max(H) \in H /\ \A y \in H : Max(H) >= y
  BY <1>3 DEF Max
<1> DEFINE m == Max(H)
<1>5. m \in Nat /\ k.height \in Nat /\ m >= k.height /\ m <= k.height
  BY <1>1, <1>4
<1> HIDE DEF m
<1>6. m = k.height
  BY <1>5
<1> QED BY <1>6 DEF H, m

(* The indexed tip after a block. *)
LEMMA IndexedAfter ==
  ASSUME Inv, Inv', CanonInv, IndexBlock
  PROVE  IndexedTip' = sync.next
<1> USE DEF Inv
<1> DEFINE here == [height |-> sync.next, id |-> Here.id]
<1>0. sync.next \in Nat /\ \A k \in journal : k.height < sync.next
  BY IndexedExtends, IndexedExtends DEF IndexBlock, TypeOK, SyncState
<1>1. here \in journal' /\ here.height = sync.next
  BY DEF IndexBlock
<1>2. \A k \in journal' : k.height <= sync.next
  <2>1. journal' \subseteq journal \cup {here}
    BY DEF IndexBlock
  <2>2. \A k \in journal : k.height \in Nat
    BY DEF TypeOK, Mark
  <2> HIDE DEF here
  <2> QED BY <1>0, <1>1, <2>1, <2>2
<1>3. journal' \subseteq Mark
  BY DEF TypeOK
<1>4. IndexedTip' = Max({k.height : k \in journal'})
  BY <1>1 DEF IndexedTip
<1> HIDE DEF here
<1> QED BY <1>1, <1>2, <1>3, <1>4, MaxHeightOf

(* One block in one transaction. *)
LEMMA BalanceIndex ==
  ASSUME Inv, Inv', CanonInv, BalanceInv, IndexBlock
  PROVE  BalanceInv'
<1> USE DEF Inv, BalanceInv
<1> DEFINE accounts == sync.droplets /\ BlockAccountable(ledger, Here, ActiveMembers)
           here == [height |-> sync.next, id |-> Here.id]
<1>1. Indexing /\ Readable /\ UNCHANGED <<chain, mined>>
  BY DEF IndexBlock, chainVars
<1>2. /\ sync.next \in 1 .. Len(chain) /\ sync.next \in Nat
      /\ \A k \in journal : OnChain(k) /\ k.height < sync.next
  BY <1>1, IndexedExtends
<1>3. Here = chain[sync.next] /\ Here \in Block /\ ActiveMembers \in {OldMembers, NewMembers}
  BY <1>2, ChainType DEF Here, ActiveMembers
<1>4. IndexedTip \in Nat /\ IndexedTip < sync.next
  <2>1. IndexedTip \in Nat
    BY IndexedTipType
  <2>2. CASE journal = {}
    BY <1>2, <2>2 DEF IndexedTip
  <2>3. CASE journal # {}
    <3>1. PICK top \in JournalTip : TRUE
      BY <2>3, IndexedTipType
    <3> QED BY <1>2, <2>1, <3>1 DEF JournalTip
  <2> QED BY <2>1, <2>2, <2>3
<1>5. IndexedTip' = sync.next
  BY IndexedAfter
<1>6. \A o \in ledger.treasury :
        \E h \in 1 .. Len(chain) : h <= IndexedTip /\ o \in Created(chain[h])
  BY <1>2 DEF Sourced
<1>7. CASE ~accounts
  <2>1. ledger' = ledger
    BY <1>7 DEF IndexBlock
  <2>2. Balanced(ledger)' /\ IsFiniteSet(ledger.treasury)'
    BY <2>1 DEF Balanced
  <2>3. ChainOnce'
    BY <1>1 DEF ChainOnce, Carried
  <2>4. \A o \in ledger'.treasury :
          \E h \in 1 .. Len(chain') : h <= IndexedTip' /\ o \in Created(chain'[h])
    <3>1. \A h \in 1 .. Len(chain) : h <= IndexedTip => h <= sync.next
      BY <1>2, <1>4, TypeOK DEF TypeOK
    <3> QED BY <1>1, <1>5, <1>6, <2>1, <3>1
  <2>5. Sourced'
    BY <2>4 DEF Sourced, Created, Carried
  <2> QED BY <2>2, <2>3, <2>5
<1>8. CASE accounts
  <2> DEFINE new == ApplyBlock(ledger, Here, ActiveMembers)
  <2>1. ledger' = new
    BY <1>8 DEF IndexBlock
  <2>2. Created(Here) \cap ledger.treasury = {}
    <3>1. SUFFICES ASSUME NEW o \in Created(Here), o \in ledger.treasury PROVE FALSE
      OBVIOUS
    <3>2. PICK h \in 1 .. Len(chain) : h <= IndexedTip /\ o \in Created(chain[h])
      BY <1>6, <3>1
    <3>3. PICK t \in Carried(Here) : o \in Outs[t]
      BY <3>1 DEF Created
    <3>4. PICK u \in Carried(chain[h]) : o \in Outs[u]
      BY <3>2 DEF Created
    <3>5. t \in Tx /\ u \in Tx
      BY <1>2, <1>3, ChainType DEF Carried, Block, Body
    <3>6. t = u
      BY <3>3, <3>4, <3>5, OutpointAssumption
    <3>7. h = sync.next
      BY <1>2, <1>3, <3>3, <3>4, <3>6 DEF ChainOnce
    <3> QED BY <1>2, <1>4, <3>2, <3>7
  <2>3. Here.txs[1] = Here.txs[2] => Here.txs[1] = NoTx
    BY <1>2, <1>3 DEF ChainOnce
  <2>4. ledger \in Accounts /\ Covered(ledger)
    BY DEF TypeOK, LocksAreCovered, Covered
  <2>5. /\ Balanced(new) /\ IsFiniteSet(new.treasury)
        /\ new.treasury \subseteq ledger.treasury \cup Created(Here)
    BY <1>3, <1>8, <2>2, <2>3, <2>4, ApplyBlockBalanced
  <2> HIDE DEF new
  <2>6. Balanced(ledger)' /\ IsFiniteSet(ledger.treasury)'
    BY <2>1, <2>5 DEF Balanced
  <2>7. ChainOnce'
    BY <1>1 DEF ChainOnce, Carried
  <2>8. \A o \in ledger'.treasury :
          \E h \in 1 .. Len(chain') : h <= IndexedTip' /\ o \in Created(chain'[h])
    <3>1. SUFFICES ASSUME NEW o \in new.treasury
                   PROVE  \E h \in 1 .. Len(chain) : h <= sync.next /\ o \in Created(chain[h])
      BY <1>1, <1>5, <2>1
    <3>2. CASE o \in Created(Here)
      BY <1>2, <1>3, <3>2
    <3>3. CASE o \in ledger.treasury
      <4>1. PICK h \in 1 .. Len(chain) : h <= IndexedTip /\ o \in Created(chain[h])
        BY <1>6, <3>3
      <4> QED BY <1>2, <1>4, <4>1
    <3> QED BY <2>5, <3>1, <3>2, <3>3
  <2>9. Sourced'
    BY <2>8 DEF Sourced, Created, Carried
  <2> QED BY <2>6, <2>7, <2>9
<1> QED BY <1>7, <1>8

(* Every step keeps the ledger balanced. *)
LEMMA BalanceNext == Inv /\ Inv' /\ CanonInv /\ BalanceInv /\ [Next]_vars => BalanceInv'
<1> SUFFICES ASSUME Inv, Inv', CanonInv, BalanceInv, [Next]_vars PROVE BalanceInv'
  OBVIOUS
<1>0. ledger \in Accounts
  BY DEF Inv, TypeOK
<1>1. CASE UNCHANGED <<chain, journal, ledger>>
  BY <1>1, BalanceQuiet
<1>2. ASSUME NEW m \in Member, ExchangeStep(m) PROVE BalanceInv'
  <2>1. UNCHANGED <<chain, journal>>
    BY <1>2 DEF ExchangeStep, ValidateExchange, LockExchange, FinalizeExchange, FailExchange,
                DecideRelease, ReleaseLock, chainVars, dbVars
  <2>2. ledger' = ledger \/ \E l : ledger' = Locked(ledger, m, l)
    <3>1. CASE (\E t \in Tx : ValidateExchange(m, t)) \/ DecideRelease(m)
      BY <3>1 DEF ValidateExchange, DecideRelease, dbVars
    <3>2. CASE LockExchange(m)
      BY <3>2 DEF LockExchange
    <3>3. CASE FinalizeExchange(m)
      BY <3>3 DEF FinalizeExchange
    <3>4. CASE FailExchange(m) \/ ReleaseLock(m)
      BY <3>4 DEF FailExchange, ReleaseLock
    <3> QED BY <1>2, <3>1, <3>2, <3>3, <3>4 DEF ExchangeStep
  <2>3. /\ ledger'.amount = ledger.amount /\ ledger'.deficit = ledger.deficit
        /\ ledger'.treasury = ledger.treasury
    BY <1>0, <2>2, LockedBalance
  <2> QED BY <2>1, <2>3, BalanceQuiet
<1>3. CASE RestoreLock
  <2>1. UNCHANGED <<chain, journal>>
    BY <1>3 DEF RestoreLock, chainVars
  <2>2. ledger' = ledger \/ \E m, l : ledger' = Locked(ledger, m, l)
    BY <1>3 DEF RestoreLock
  <2>3. /\ ledger'.amount = ledger.amount /\ ledger'.deficit = ledger.deficit
        /\ ledger'.treasury = ledger.treasury
    BY <1>0, <2>2, LockedBalance
  <2> QED BY <2>1, <2>3, BalanceQuiet
<1>4. CASE ResetProjections
  <2>1. ledger' = EmptyAccounts /\ chain' = chain
    BY <1>4 DEF ResetProjections, chainVars
  <2>2. Balanced(ledger)' /\ IsFiniteSet(ledger.treasury)'
    BY <2>1, EmptyBalanced DEF Balanced
  <2>3. ChainOnce'
    BY <2>1 DEF BalanceInv, ChainOnce, Carried
  <2>4. Sourced'
    BY <2>1 DEF Sourced, EmptyAccounts
  <2> QED BY <2>2, <2>3, <2>4 DEF BalanceInv
<1>5. CASE IndexBlock
  BY <1>5, BalanceIndex
<1>6. CASE Environment
  <2>1. ledger' = ledger
    <3>1. CASE Abandon
      BY <3>1 DEF Abandon, dbVars
    <3>2. CASE \E first, second \in Body : Mine(first, second)
      BY <3>2 DEF Mine, dbVars
    <3> QED BY <1>6, <3>1, <3>2 DEF Environment
  <2>2. Balanced(ledger)' /\ IsFiniteSet(ledger.treasury)'
    BY <2>1 DEF BalanceInv, Balanced
  <2> QED BY <1>6, <2>2, ChainOnceNext, SourcedChain DEF BalanceInv
<1>7. CASE SyncBegin \/ DetectRefused \/ DetectUnreadable \/ DetectDisplaced \/ DetectRebuild
           \/ DetectResume \/ IndexFails \/ FinishFails \/ FinishSync \/ FinishRecovery
  <2>1. UNCHANGED <<chain, journal, ledger>>
    BY <1>7 DEF SyncBegin, DetectRefused, DetectUnreadable, DetectDisplaced, DetectRebuild,
                DetectResume, IndexFails, FinishFails, FinishSync, FinishRecovery,
                chainVars, dbVars
  <2> QED BY <1>1, <2>1
<1>8. CASE FinalizeMigration \/ Crash \/ UNCHANGED vars
  <2>1. UNCHANGED <<chain, journal, ledger>>
    BY <1>8 DEF FinalizeMigration, Crash, vars, chainVars, dbVars
  <2> QED BY <1>1, <2>1
<1> QED BY <1>2, <1>3, <1>4, <1>5, <1>6, <1>7, <1>8 DEF Next, SyncStep

(* The empty ledger is balanced. *)
LEMMA BalanceInit == Init => BalanceInv
<1> SUFFICES ASSUME Init PROVE BalanceInv
  OBVIOUS
<1>1. ledger = EmptyAccounts /\ Len(chain) = 0
  BY DEF Init
<1>2. ChainOnce
  BY <1>1 DEF ChainOnce
<1>3. Sourced
  BY <1>1 DEF Sourced, EmptyAccounts
<1> QED BY <1>1, <1>2, <1>3, EmptyBalanced DEF BalanceInv

(* Every satoshi of the Treasury is owed to somebody: through deposits     *)
(* that do not divide evenly, overdrafts, reorganisations, rebuilds, halts *)
(* and restarts, balances less deficits are the Treasury outputs           *)
(* (apply_block_in, reset_projections).                                    *)
THEOREM BalanceSafety == Spec => []LedgerBalanced
<1>1. Spec => []CanonInv
  <2>1. CanonInv /\ Inv /\ Inv' /\ [Next]_vars => CanonInv'
    BY CanonNext
  <2> QED BY <2>1, CanonInit, InvInductive, PTL DEF Spec
<1>2. Spec => []BalanceInv
  <2>1. BalanceInv /\ CanonInv /\ Inv /\ Inv' /\ [Next]_vars => BalanceInv'
    BY BalanceNext
  <2> QED BY <1>1, <2>1, BalanceInit, InvInductive, PTL DEF Spec
<1>3. BalanceInv => LedgerBalanced
  BY DEF BalanceInv, Balanced, LedgerBalanced, Sum
<1> QED BY <1>2, <1>3, PTL

-----------------------------------------------------------------------------
(* The ledger as one replay of the chain. *)

MembersAt(h, last) == IF h <= last THEN OldMembers ELSE NewMembers

(* The accounts after each block of a chain. *)
IsReplay(f, c, last) ==
  f = [h \in 0 .. MaxHeight |->
         IF h = 0 THEN EmptyAccounts ELSE ApplyBlock(f[h - 1], c[h], MembersAt(h, last))]
ReplayOf(c, last) == CHOOSE f : IsReplay(f, c, last)

(* The recursive function that Replayed is defined by. *)
LEMMA ReplayedIs == ASSUME NEW last PROVE Replayed(last) = ReplayOf(chain, last)[IndexedTip]
  BY DEF Replayed, ReplayOf, IsReplay, MembersAt

(* A set of natural numbers that is not empty has a least one. *)
LEMMA HasLeast ==
  ASSUME NEW S, S \subseteq Nat, S # {}
  PROVE  \E n \in S : \A m \in S : n <= m
<1>1. PICK n \in S : \A m \in S : <<m, n>> \notin OpToRel(<, Nat)
  BY WFMin, NatLessThanWellFounded, Zenon
<1>2. ASSUME NEW m \in S PROVE n <= m
  <2>1. <<m, n>> \notin OpToRel(<, Nat)
    BY <1>1
  <2>2. m \in Nat /\ n \in Nat
    OBVIOUS
  <2>3. ~(m < n)
    BY <2>1, <2>2, Zenon DEF OpToRel
  <2> QED BY <2>2, <2>3
<1> QED BY <1>2

(* A replay of every length exists. *)
LEMMA ReplayExists ==
  ASSUME NEW c, NEW last
  PROVE  \E f : IsReplay(f, c, last)
<1> DEFINE Step(g, h) == ApplyBlock(g[h - 1], c[h], MembersAt(h, last))
           Upto(g, n) == g = [h \in 0 .. n |-> IF h = 0 THEN EmptyAccounts ELSE Step(g, h)]
           Bad == {n \in Nat : ~\E g : Upto(g, n)}
<1>1. Bad = {}
  <2>1. SUFFICES ASSUME Bad # {} PROVE FALSE
    OBVIOUS
  <2>2. PICK n \in Bad : \A m \in Bad : n <= m
    <3>1. Bad \subseteq Nat
      OBVIOUS
    <3> HIDE DEF Bad
    <3> QED BY <2>1, <3>1, HasLeast
  <2>3. n \in Nat /\ ~\E g : Upto(g, n)
    OBVIOUS
  <2>4. CASE n = 0
    <3> DEFINE g == [h \in 0 .. 0 |-> EmptyAccounts]
    <3>1. g = [h \in 0 .. 0 |-> IF h = 0 THEN EmptyAccounts ELSE Step(g, h)]
      <4>1. \A h \in 0 .. 0 : h = 0
        OBVIOUS
      <4> HIDE DEF Step
      <4> QED BY <4>1
    <3> HIDE DEF g, Step
    <3>2. Upto(g, 0)
      BY <3>1
    <3> QED BY <2>3, <2>4, <3>2
  <2>5. CASE n # 0
    <3>1. n - 1 \in Nat /\ n - 1 \notin Bad
      <4>1. n - 1 \in Nat /\ ~(n <= n - 1)
        BY <2>3, <2>5
      <4> HIDE DEF Bad
      <4> QED BY <2>2, <4>1
    <3>2. PICK f : Upto(f, n - 1)
      BY <3>1
    <3> DEFINE g == [h \in 0 .. n |-> IF h = n THEN Step(f, n) ELSE f[h]]
    <3> HIDE DEF Step
    <3>3. \A h \in 0 .. n - 1 : f[h] = IF h = 0 THEN EmptyAccounts ELSE Step(f, h)
      BY <3>2
    <3>4. \A h \in 0 .. n - 1 : g[h] = f[h]
      BY <2>3, <2>5
    <3>5. g[n] = Step(f, n)
      BY <2>3
    <3>6. \A h \in 0 .. n : h # 0 => Step(g, h) = Step(f, h)
      <4>1. \A h \in 0 .. n : h # 0 => h - 1 \in 0 .. n - 1
        BY <2>3
      <4> HIDE DEF g
      <4> QED BY <3>4, <4>1 DEF Step
    <3>7. \A h \in 0 .. n : g[h] = IF h = 0 THEN EmptyAccounts ELSE Step(g, h)
      <4>1. \A h \in 0 .. n : h = n \/ h \in 0 .. n - 1
        BY <2>3
      <4> HIDE DEF g
      <4> QED BY <2>5, <3>3, <3>4, <3>5, <3>6, <4>1
    <3>8. g = [h \in 0 .. n |-> g[h]]
      OBVIOUS
    <3> HIDE DEF g
    <3>9. Upto(g, n)
      BY <3>7, <3>8
    <3> QED BY <2>3, <3>9
  <2> QED BY <2>4, <2>5
<1>2. MaxHeight \in Nat
  BY LedgerBounds
<1>3. PICK g : Upto(g, MaxHeight)
  BY <1>1, <1>2
<1> QED BY <1>3 DEF IsReplay

(* One block of a replay. *)
LEMMA ReplayUnfold ==
  ASSUME NEW c, NEW last
  PROVE  /\ ReplayOf(c, last)[0] = EmptyAccounts
         /\ \A h \in 1 .. MaxHeight :
              ReplayOf(c, last)[h] = ApplyBlock(ReplayOf(c, last)[h - 1], c[h], MembersAt(h, last))
<1> DEFINE f == ReplayOf(c, last)
<1>1. IsReplay(f, c, last)
  BY ReplayExists DEF ReplayOf
<1>2. MaxHeight \in Nat
  BY LedgerBounds
<1> HIDE DEF f
<1>3. f[0] = EmptyAccounts
  BY <1>1, <1>2 DEF IsReplay
<1>4. \A h \in 1 .. MaxHeight : f[h] = ApplyBlock(f[h - 1], c[h], MembersAt(h, last))
  BY <1>1, <1>2 DEF IsReplay
<1> QED BY <1>3, <1>4 DEF f

(* A replay depends on the blocks and members up to its height only. *)
LEMMA ReplayAgree ==
  ASSUME NEW c, NEW d, NEW last, NEW end, NEW n \in 0 .. MaxHeight,
         \A h \in 1 .. n : c[h] = d[h] /\ MembersAt(h, last) = MembersAt(h, end)
  PROVE  ReplayOf(c, last)[n] = ReplayOf(d, end)[n]
<1> DEFINE f == ReplayOf(c, last)
           g == ReplayOf(d, end)
           Bad == {h \in 0 .. n : f[h] # g[h]}
<1>0. MaxHeight \in Nat /\ n \in Nat
  BY LedgerBounds
<1>1. SUFFICES ASSUME Bad # {} PROVE FALSE
  BY <1>0
<1>2. PICK h \in Bad : \A m \in Bad : h <= m
  <2>1. Bad \subseteq Nat
    BY <1>0
  <2> HIDE DEF Bad
  <2> QED BY <1>1, <2>1, HasLeast
<1>3. h \in 0 .. n /\ f[h] # g[h]
  OBVIOUS
<1>4. h # 0
  BY <1>3, ReplayUnfold
<1>5. h \in 1 .. n /\ h \in 1 .. MaxHeight /\ h - 1 \in 0 .. n /\ ~(h <= h - 1)
  BY <1>0, <1>3, <1>4
<1>6. f[h - 1] = g[h - 1]
  BY <1>2, <1>5
<1>7. f[h] = ApplyBlock(f[h - 1], c[h], MembersAt(h, last))
  BY <1>5, ReplayUnfold
<1>8. g[h] = ApplyBlock(g[h - 1], d[h], MembersAt(h, end))
  BY <1>5, ReplayUnfold
<1> HIDE DEF f, g
<1> QED BY <1>3, <1>5, <1>6, <1>7, <1>8

(* The accounts without their locks, which no replay computes. *)
Unlocked(acc) == [acc EXCEPT !.lock = EmptyAccounts.lock]

Fields(T, A, D, L) == [treasury : T, amount : A, deficit : D, lock : L]
HasFields(acc) == \E T, A, D, L : acc \in Fields(T, A, D, L)

LEMMA SameFields ==
  ASSUME NEW x, NEW y, HasFields(x), HasFields(y), x.treasury = y.treasury,
         x.amount = y.amount, x.deficit = y.deficit, x.lock = y.lock
  PROVE  x = y
  BY DEF HasFields, Fields

LEMMA FieldsOf ==
  ASSUME NEW T, NEW A, NEW D, NEW L, NEW x \in Fields(T, A, D, L)
  PROVE  HasFields(x)
  BY DEF HasFields

(* What each part of the accounting does to each field. *)
LEMMA CreditedFields ==
  ASSUME NEW x, HasFields(x), NEW share
  PROVE  /\ HasFields(Credited(x, share))
         /\ Credited(x, share).treasury = x.treasury
         /\ Credited(x, share).amount
              = [m \in Member |-> x.amount[m] + Larger(share[m], x.deficit[m])]
         /\ Credited(x, share).deficit = [m \in Member |-> Larger(x.deficit[m], share[m])]
         /\ Credited(x, share).lock = x.lock
<1>1. PICK T, A, D, L : x \in Fields(T, A, D, L)
  BY DEF HasFields
<1> DEFINE more == [m \in Member |-> x.amount[m] + Larger(share[m], x.deficit[m])]
           less == [m \in Member |-> Larger(x.deficit[m], share[m])]
           y == [x EXCEPT !.amount = more, !.deficit = less]
<1>2. Credited(x, share) = y
  BY DEF Credited
<1> HIDE DEF more, less
<1>3. y \in Fields(T, {more}, {less}, L)
  BY <1>1 DEF Fields
<1>4. y.treasury = x.treasury /\ y.lock = x.lock /\ y.amount = more /\ y.deficit = less
  BY <1>1 DEF Fields
<1> HIDE DEF y
<1> QED BY <1>2, <1>3, <1>4, FieldsOf DEF more, less

LEMMA ChargedSame ==
  ASSUME NEW x, NEW y, HasFields(x), HasFields(y), NEW m, NEW cost,
         x.treasury = y.treasury, x.amount = y.amount, x.deficit = y.deficit,
         y.lock = [k \in Member |-> None]
  PROVE  /\ HasFields(Charged(x, m, cost)) /\ HasFields(Charged(y, m, cost))
         /\ Charged(x, m, cost).treasury = Charged(y, m, cost).treasury
         /\ Charged(x, m, cost).amount = Charged(y, m, cost).amount
         /\ Charged(x, m, cost).deficit = Charged(y, m, cost).deficit
         /\ Charged(y, m, cost).lock = [k \in Member |-> None]
<1> DEFINE left == [x.amount EXCEPT ![m] = Larger(@, cost)]
           owed == [x.deficit EXCEPT ![m] = @ + Larger(cost, x.amount[m])]
<1>1. ASSUME NEW z, HasFields(z), z.amount = x.amount, z.deficit = x.deficit
      PROVE  /\ HasFields(Charged(z, m, cost))
             /\ Charged(z, m, cost).treasury = z.treasury
             /\ Charged(z, m, cost).amount = left
             /\ Charged(z, m, cost).deficit = owed
  <2>1. PICK T, A, D, L : z \in Fields(T, A, D, L)
    BY <1>1 DEF HasFields
  <2> DEFINE free == [z.lock EXCEPT ![m] = None]
             w == [z EXCEPT !.amount = left, !.deficit = owed, !.lock = free]
  <2>2. Charged(z, m, cost) = w
    BY <1>1, <2>1 DEF Charged, Fields
  <2> HIDE DEF left, owed, free
  <2>3. w \in Fields(T, {left}, {owed}, {free})
    BY <2>1 DEF Fields
  <2>4. w.treasury = z.treasury /\ w.amount = left /\ w.deficit = owed
    BY <2>1 DEF Fields
  <2> HIDE DEF w
  <2> QED BY <2>2, <2>3, <2>4, FieldsOf
<1>2. Charged(y, m, cost).lock = [k \in Member |-> None]
  <2>1. PICK T, A, D, L : y \in Fields(T, A, D, L)
    BY DEF HasFields
  <2>2. Charged(y, m, cost).lock = [y.lock EXCEPT ![m] = None]
    BY <2>1 DEF Charged, Fields
  <2>3. [y.lock EXCEPT ![m] = None] = [k \in Member |-> None]
    OBVIOUS
  <2> QED BY <2>2, <2>3
<1> HIDE DEF left, owed
<1> QED BY <1>1, <1>2

LEMMA MovedFields ==
  ASSUME NEW x, HasFields(x), NEW t
  PROVE  /\ HasFields(Moved(x, t))
         /\ Moved(x, t).treasury = (x.treasury \ Ins[t]) \cup {o \in Outs[t] : Value[o] > 0}
         /\ Moved(x, t).amount = x.amount
         /\ Moved(x, t).deficit = x.deficit
         /\ Moved(x, t).lock = x.lock
<1>1. PICK T, A, D, L : x \in Fields(T, A, D, L)
  BY DEF HasFields
<1> DEFINE kept == (x.treasury \ Ins[t]) \cup {o \in Outs[t] : Value[o] > 0}
           y == [x EXCEPT !.treasury = kept]
<1>2. Moved(x, t) = y
  BY <1>1 DEF Moved, Fields
<1> HIDE DEF kept
<1>3. y \in Fields({kept}, A, D, L)
  BY <1>1 DEF Fields
<1>4. y.treasury = kept /\ y.lock = x.lock /\ y.amount = x.amount /\ y.deficit = x.deficit
  BY <1>1 DEF Fields
<1> HIDE DEF y
<1> QED BY <1>2, <1>3, <1>4, FieldsOf DEF kept

LEMMA UnlockedFields ==
  ASSUME NEW x, HasFields(x)
  PROVE  /\ HasFields(Unlocked(x))
         /\ Unlocked(x).treasury = x.treasury
         /\ Unlocked(x).amount = x.amount
         /\ Unlocked(x).deficit = x.deficit
         /\ Unlocked(x).lock = [m \in Member |-> None]
<1>1. PICK T, A, D, L : x \in Fields(T, A, D, L)
  BY DEF HasFields
<1> DEFINE free == [m \in Member |-> None]
           y == [x EXCEPT !.lock = free]
<1>2. Unlocked(x) = y
  BY DEF Unlocked, EmptyAccounts
<1> HIDE DEF free
<1>3. y \in Fields(T, A, D, {free})
  BY <1>1 DEF Fields
<1>4. y.treasury = x.treasury /\ y.lock = free /\ y.amount = x.amount /\ y.deficit = x.deficit
  BY <1>1 DEF Fields
<1> HIDE DEF y
<1> QED BY <1>2, <1>3, <1>4, FieldsOf DEF free

(* Accounting looks at no lock, and only ever takes locks away. *)
LEMMA ApplyTxUnlocked ==
  ASSUME NEW acc, HasFields(acc), NEW t, NEW members
  PROVE  /\ HasFields(ApplyTx(acc, t, members))
         /\ Unlocked(ApplyTx(acc, t, members)) = ApplyTx(Unlocked(acc), t, members)
<1> DEFINE free == Unlocked(acc)
           mov == Moved(acc, t)
           freed == Moved(free, t)
<1>1. /\ HasFields(free) /\ free.treasury = acc.treasury /\ free.amount = acc.amount
      /\ free.deficit = acc.deficit /\ free.lock = [m \in Member |-> None]
  BY UnlockedFields
<1>2. Taken(free, t) = Taken(acc, t)
  BY <1>1 DEF Taken
<1> HIDE DEF free
<1>3. /\ HasFields(mov) /\ HasFields(freed)
      /\ mov.treasury = freed.treasury /\ mov.amount = freed.amount
      /\ mov.deficit = freed.deficit /\ freed.lock = free.lock
  <2>1. /\ HasFields(mov) /\ mov.amount = acc.amount /\ mov.deficit = acc.deficit
        /\ mov.treasury = (acc.treasury \ Ins[t]) \cup {o \in Outs[t] : Value[o] > 0}
    BY MovedFields
  <2>2. /\ HasFields(freed) /\ freed.amount = free.amount /\ freed.deficit = free.deficit
        /\ freed.treasury = (free.treasury \ Ins[t]) \cup {o \in Outs[t] : Value[o] > 0}
        /\ freed.lock = free.lock
    BY <1>1, MovedFields
  <2> HIDE DEF mov, freed
  <2> QED BY <1>1, <2>1, <2>2
<1> HIDE DEF mov, freed
<1>4. ASSUME NEW x, NEW y, HasFields(x), HasFields(y), x.treasury = y.treasury,
             x.amount = y.amount, x.deficit = y.deficit, y.lock = [m \in Member |-> None]
      PROVE  Unlocked(x) = y
  BY <1>4, UnlockedFields, SameFields
<1>5. CASE t = NoTx
  BY <1>5 DEF ApplyTx, free
<1>6. CASE t # NoTx /\ Taken(acc, t) = 0
  <2> DEFINE share == Shares(members, Tag[t], Given(t))
  <2>1. ApplyTx(acc, t, members) = Credited(mov, share) /\ ApplyTx(free, t, members) = Credited(freed, share)
    BY <1>2, <1>6 DEF ApplyTx, mov, freed
  <2> HIDE DEF share
  <2>2. HasFields(Credited(mov, share)) /\ HasFields(Credited(freed, share))
    BY <1>3, CreditedFields
  <2>3. /\ Credited(mov, share).treasury = Credited(freed, share).treasury
        /\ Credited(mov, share).amount = Credited(freed, share).amount
        /\ Credited(mov, share).deficit = Credited(freed, share).deficit
    <3>1. /\ Credited(mov, share).treasury = mov.treasury
          /\ Credited(mov, share).amount
               = [m \in Member |-> mov.amount[m] + Larger(share[m], mov.deficit[m])]
          /\ Credited(mov, share).deficit = [m \in Member |-> Larger(mov.deficit[m], share[m])]
      BY <1>3, CreditedFields
    <3>2. /\ Credited(freed, share).treasury = freed.treasury
          /\ Credited(freed, share).amount
               = [m \in Member |-> freed.amount[m] + Larger(share[m], freed.deficit[m])]
          /\ Credited(freed, share).deficit = [m \in Member |-> Larger(freed.deficit[m], share[m])]
      BY <1>3, CreditedFields
    <3> QED BY <1>3, <3>1, <3>2
  <2>4. Credited(freed, share).lock = [m \in Member |-> None]
    BY <1>1, <1>3, CreditedFields
  <2> QED BY <1>4, <2>1, <2>2, <2>3, <2>4 DEF free
<1>7. CASE t # NoTx /\ Taken(acc, t) # 0
  <2> DEFINE m == Marker[t]
             cost == Taken(acc, t) - Given(t)
  <2>1. ApplyTx(acc, t, members) = Charged(mov, m, cost) /\ ApplyTx(free, t, members) = Charged(freed, m, cost)
    BY <1>2, <1>7 DEF ApplyTx, mov, freed
  <2> HIDE DEF m, cost
  <2>2. /\ HasFields(Charged(mov, m, cost)) /\ HasFields(Charged(freed, m, cost))
        /\ Charged(mov, m, cost).treasury = Charged(freed, m, cost).treasury
        /\ Charged(mov, m, cost).amount = Charged(freed, m, cost).amount
        /\ Charged(mov, m, cost).deficit = Charged(freed, m, cost).deficit
        /\ Charged(freed, m, cost).lock = [k \in Member |-> None]
    BY <1>1, <1>3, ChargedSame
  <2> QED BY <1>4, <2>1, <2>2 DEF free
<1> QED BY <1>5, <1>6, <1>7 DEF free

LEMMA ApplyBlockUnlocked ==
  ASSUME NEW acc, HasFields(acc), NEW b, NEW members
  PROVE  Unlocked(ApplyBlock(acc, b, members)) = ApplyBlock(Unlocked(acc), b, members)
<1> DEFINE mid == ApplyTx(acc, b.txs[1], members)
<1>1. HasFields(mid) /\ Unlocked(mid) = ApplyTx(Unlocked(acc), b.txs[1], members)
  BY ApplyTxUnlocked
<1> HIDE DEF mid
<1>2. Unlocked(ApplyTx(mid, b.txs[2], members)) = ApplyTx(Unlocked(mid), b.txs[2], members)
  BY <1>1, ApplyTxUnlocked
<1> QED BY <1>1, <1>2 DEF ApplyBlock, mid

LEMMA AccountsFields ==
  ASSUME NEW acc \in Accounts
  PROVE  /\ HasFields(acc) /\ Unlocked(Unlocked(acc)) = Unlocked(acc)
         /\ \A m, l : Unlocked(Locked(acc, m, l)) = Unlocked(acc)
<1>1. HasFields(acc)
  BY FieldsOf DEF Accounts, Fields
<1>2. Unlocked(Unlocked(acc)) = Unlocked(acc)
  BY <1>1, UnlockedFields, SameFields
<1>3. ASSUME NEW m, NEW l PROVE Unlocked(Locked(acc, m, l)) = Unlocked(acc)
  <2> DEFINE lock == [acc.lock EXCEPT ![m] = l]
             y == [acc EXCEPT !.lock = lock]
  <2>1. Locked(acc, m, l) = y
    BY DEF Locked, Accounts
  <2> HIDE DEF lock
  <2>2. y \in Fields(SUBSET Outpoint, [Member -> Nat], [Member -> Nat], {lock})
    BY DEF Accounts, Fields
  <2>3. y.treasury = acc.treasury /\ y.amount = acc.amount /\ y.deficit = acc.deficit
    BY DEF Accounts
  <2> HIDE DEF y
  <2>4. HasFields(y)
    BY <2>2, FieldsOf
  <2> QED BY <1>1, <2>1, <2>3, <2>4, UnlockedFields, SameFields
<1> QED BY <1>1, <1>2, <1>3

(* There is one migration at most, a sync knows of none but that one, and  *)
(* has changed the members only when it is behind it.                      *)
Migrating ==
  /\ \A j, k \in migrations : j = k
  /\ sync.pc \in {"reset", "index"} => sync.moves \subseteq migrations
  /\ sync.pc = "index" =>
       /\ sync.droplets <=> halted = 0
       /\ ~sync.old => \E k \in migrations : k.height <= IndexedTip

LedgerAt(last) == Unlocked(ledger) = ReplayOf(chain, last)[IndexedTip]

(* As long as the index is canonical the ledger is a replay, in which the  *)
(* members changed behind the migration; a sync that still works with the  *)
(* old members has seen no others.                                         *)
ReplayedSoFar ==
  halted = 0 /\ (\A k \in journal : OnChain(k)) =>
    /\ \E last \in 0 .. IndexedTip :
         /\ last = IndexedTip \/ \E k \in migrations : k.height <= last
         /\ LedgerAt(last)
    /\ sync.pc = "index" /\ sync.old => LedgerAt(IndexedTip)

ReplayInv == Len(chain) <= MaxHeight /\ Migrating /\ ReplayedSoFar

(* A running sync is one block above the indexed tip. *)
LEMMA NextIndexed ==
  ASSUME Inv, CanonInv, sync.pc = "index"
  PROVE  IndexedTip = sync.next - 1
<1> USE DEF Inv, CanonInv
<1>1. /\ IndexedTip \in Nat /\ sync.next \in Nat /\ sync.next > 0
      /\ \A k \in journal : k.height \in Nat /\ k.height > 0 /\ k.height < sync.next
                              /\ k.height <= IndexedTip
  BY IndexedTipType DEF TypeOK, SyncState, JournalOrdered, Mark, MarksKnown, Marks
<1>2. CASE sync.next = 1
  <2>1. journal = {}
    BY <1>1, <1>2
  <2> QED BY <1>2, <2>1 DEF IndexedTip
<1>3. CASE sync.next # 1
  <2>1. [height |-> sync.next - 1, id |-> sync.prev] \in journal
    BY <1>1, <1>3 DEF Aimed
  <2>2. sync.next - 1 <= IndexedTip
    BY <1>1, <2>1
  <2>3. PICK top \in JournalTip : TRUE
    BY <2>1, IndexedTipType
  <2>4. IndexedTip < sync.next
    BY <1>1, <2>3 DEF JournalTip
  <2> QED BY <1>1, <2>2, <2>4
<1> QED BY <1>2, <1>3

(* Steps that leave the chain, the index and the balances alone. *)
LEMMA ReplayQuiet ==
  ASSUME Inv, Inv', ReplayInv,
         UNCHANGED <<chain, journal, migrations, halted>>,
         Unlocked(ledger') = Unlocked(ledger),
         sync' = sync \/ sync'.pc \notin {"reset", "index"}
  PROVE  ReplayInv'
<1>1. IndexedTip' = IndexedTip /\ \A k : OnChain(k)' <=> OnChain(k)
  BY DEF IndexedTip, OnChain, HashAt
<1>2. \A last : Unlocked(ledger') = ReplayOf(chain', last)[IndexedTip'] <=> LedgerAt(last)
  BY <1>1 DEF LedgerAt
<1>3. Migrating'
  BY <1>1 DEF ReplayInv, Migrating
<1>4. ReplayedSoFar'
  BY <1>1, <1>2 DEF ReplayInv, ReplayedSoFar, LedgerAt
<1> QED BY <1>3, <1>4 DEF ReplayInv

(* The chain takes no block away that the index still relies on. *)
LEMMA ReplayChain ==
  ASSUME Inv, Inv', CanonInv, ReplayInv, Environment
  PROVE  ReplayInv'
<1> USE DEF Inv, CanonInv
<1>1. UNCHANGED <<journal, ledger, halted, migrations, sync>> /\ IndexedTip' = IndexedTip
  <2>1. UNCHANGED <<journal, ledger, halted, migrations, sync>>
    <3>1. CASE Abandon
      BY <3>1 DEF Abandon, dbVars, memVars
    <3>2. CASE \E first, second \in Body : Mine(first, second)
      BY <3>2 DEF Mine, dbVars, memVars
    <3> QED BY <3>1, <3>2 DEF Environment
  <2> QED BY <2>1 DEF IndexedTip
<1>2. \A k \in journal : k \in Mark /\ Known(k) /\ k.height > 0 /\ k.height \in Nat
  BY MarksType DEF MarksKnown, Marks, Mark
<1>3. Migrating'
  BY <1>1 DEF ReplayInv, Migrating
<1>4. Len(chain') <= MaxHeight
  <2>1. ASSUME NEW first \in Body, NEW second \in Body, Mine(first, second)
        PROVE  Len(chain') <= MaxHeight
    BY <2>1, LedgerBounds DEF Mine, TypeOK
  <2>2. CASE Abandon
    BY <2>2, AbandonedChain, LedgerBounds DEF ReplayInv
  <2> QED BY <2>1, <2>2 DEF Environment
<1>5. ASSUME \A k \in journal : OnChain(k)'
      PROVE  /\ \A k \in journal : OnChain(k)
             /\ \A h \in 1 .. IndexedTip : chain'[h] = chain[h]
  <2>1. journal # {} => \E top \in journal : top.height = IndexedTip
    BY IndexedTipType DEF JournalTip
  <2>2. IndexedTip \in Nat /\ Len(chain) \in Nat /\ (journal = {} => IndexedTip = 0)
    BY IndexedTipType DEF TypeOK, IndexedTip
  <2>3. ASSUME NEW first \in Body, NEW second \in Body, Mine(first, second)
        PROVE  /\ \A k \in journal : OnChain(k)
               /\ \A h \in 1 .. IndexedTip : chain'[h] = chain[h]
    <3>1. \A k \in journal : OnChain(k)
      BY <1>2, <1>5, <2>3, MineKeeps DEF MarksKnown
    <3>2. \A k \in journal : k.height <= Len(chain)
      <4>1. ASSUME NEW k \in journal PROVE k.height \in 1 .. Len(chain)
        BY <1>2, <3>1 DEF OnChain, HashAt, Known
      <4> QED BY <1>2, <2>2, <4>1
    <3>3. IndexedTip <= Len(chain)
      BY <2>1, <2>2, <3>2
    <3>4. \A h \in 1 .. Len(chain) : chain'[h] = chain[h]
      BY <2>3 DEF Mine, TypeOK
    <3> QED BY <2>2, <3>1, <3>3, <3>4
  <2>4. CASE Abandon
    <3>1. \A k \in journal : OnChain(k) /\ k.height < Len(chain)
      BY <1>2, <1>5, <2>4, AbandonKeeps
    <3>2. IndexedTip <= Len(chain) - 1
      BY <2>1, <2>2, <3>1, <2>4 DEF Abandon
    <3> QED BY <2>2, <2>4, <3>1, <3>2, AbandonedChain
  <2> QED BY <2>3, <2>4 DEF Environment
<1>6. ReplayedSoFar'
  <2>1. SUFFICES ASSUME halted = 0, \A k \in journal : OnChain(k)'
                 PROVE  ReplayedSoFar'
    BY <1>1 DEF ReplayedSoFar
  <2>2. (\A k \in journal : OnChain(k)) /\ \A h \in 1 .. IndexedTip : chain'[h] = chain[h]
    BY <1>5, <2>1
  <2>3. IndexedTip \in 0 .. MaxHeight
    <3>1. journal # {} => \E top \in journal : top.height = IndexedTip
      BY IndexedTipType DEF JournalTip
    <3>2. \A k \in journal : k.height <= Len(chain)
      BY <1>2, <2>2 DEF OnChain, HashAt, Known
    <3>3. journal = {} => IndexedTip = 0
      BY DEF IndexedTip
    <3> QED BY <3>1, <3>2, <3>3, IndexedTipType, LedgerBounds DEF ReplayInv, TypeOK
  <2>4. \A last : ReplayOf(chain', last)[IndexedTip] = ReplayOf(chain, last)[IndexedTip]
    BY <2>2, <2>3, ReplayAgree
  <2>5. \A last : LedgerAt(last)' <=> LedgerAt(last)
    BY <1>1, <2>4 DEF LedgerAt
  <2> QED BY <1>1, <2>1, <2>2, <2>5 DEF ReplayInv, ReplayedSoFar, LedgerAt
<1> QED BY <1>3, <1>4, <1>6 DEF ReplayInv

(* A sync that resumes has the old members if all it indexed was replayed  *)
(* with them.                                                              *)
LEMMA ReplayResume ==
  ASSUME Inv, Inv', ReplayInv, DetectResume
  PROVE  ReplayInv'
<1> USE DEF Inv
<1>1. /\ UNCHANGED <<chain, journal, ledger, halted, migrations>>
      /\ sync'.pc = "index" /\ (sync'.droplets <=> halted = 0) /\ sync'.moves = migrations
      /\ (sync'.old <=> OldAt(IndexedTip + 1))
  <2> DEFINE live == halted = 0
             old == OldAt(IndexedTip + 1)
             prev == IF journal = {} THEN 0 ELSE (CHOOSE k \in JournalTip : TRUE).id
             new == [sync EXCEPT !.pc = "index", !.next = IndexedTip + 1, !.prev = prev,
                                 !.droplets = live, !.moves = migrations, !.old = old]
  <2>1. UNCHANGED <<chain, journal, ledger, halted, migrations>> /\ sync' = new
    BY DEF DetectResume, chainVars, dbVars
  <2>2. sync \in SyncState
    BY DEF TypeOK
  <2> HIDE DEF live, old, prev
  <2>3. new.pc = "index" /\ new.droplets = live /\ new.moves = migrations /\ new.old = old
    BY <2>2 DEF SyncState
  <2> HIDE DEF new
  <2> QED BY <2>1, <2>3, Zenon DEF live, old
<1>2. IndexedTip' = IndexedTip /\ \A k : OnChain(k)' <=> OnChain(k)
  BY <1>1 DEF IndexedTip, OnChain, HashAt
<1>3. IndexedTip \in Nat /\ \A k \in migrations : k.height \in Nat
  BY IndexedTipType DEF TypeOK, Mark
<1>4. Migrating'
  <2>1. ~OldAt(IndexedTip + 1) => \E k \in migrations : k.height <= IndexedTip
    BY <1>3 DEF OldAt
  <2> QED BY <1>1, <1>2, <2>1 DEF ReplayInv, Migrating
<1>5. ReplayedSoFar'
  <2>1. ASSUME halted = 0, \A k \in journal : OnChain(k), OldAt(IndexedTip + 1)
        PROVE  LedgerAt(IndexedTip)
    <3>1. PICK last \in 0 .. IndexedTip :
            /\ last = IndexedTip \/ \E k \in migrations : k.height <= last
            /\ LedgerAt(last)
      BY <2>1 DEF ReplayInv, ReplayedSoFar
    <3>2. \A k \in migrations : ~(k.height <= last)
      BY <1>3, <2>1 DEF OldAt
    <3> QED BY <3>1, <3>2
  <2>2. \A last : LedgerAt(last)' <=> LedgerAt(last)
    BY <1>1, <1>2 DEF LedgerAt
  <2> QED BY <1>1, <1>2, <2>1, <2>2 DEF ReplayInv, ReplayedSoFar
<1> QED BY <1>1, <1>4, <1>5 DEF ReplayInv

(* A rebuild starts from the replay of no block. *)
LEMMA ReplayReset ==
  ASSUME Inv, Inv', ReplayInv, ResetProjections
  PROVE  ReplayInv'
<1>1. /\ journal' = {} /\ ledger' = EmptyAccounts /\ halted' = 0
      /\ UNCHANGED <<chain, migrations>>
      /\ sync'.pc = "index" /\ sync'.droplets /\ sync'.old /\ sync'.moves = sync.moves
  BY DEF ResetProjections, chainVars, Inv, TypeOK, SyncState
<1>2. IndexedTip' = 0
  BY <1>1 DEF IndexedTip
<1>3. Unlocked(EmptyAccounts) = EmptyAccounts
  BY DEF Unlocked, EmptyAccounts
<1>4. \A last : ReplayOf(chain', last)[0] = EmptyAccounts
  BY ReplayUnfold
<1>5. LedgerAt(0)'
  BY <1>1, <1>2, <1>3, <1>4 DEF LedgerAt
<1>6. Migrating'
  BY <1>1 DEF ReplayInv, Migrating, ResetProjections
<1>7. ReplayedSoFar'
  BY <1>1, <1>2, <1>5 DEF ReplayedSoFar
<1> QED BY <1>1, <1>6, <1>7 DEF ReplayInv

(* The migration is recorded. *)
LEMMA ReplayMigration ==
  ASSUME Inv, Inv', ReplayInv, FinalizeMigration
  PROVE  ReplayInv'
<1>1. /\ UNCHANGED <<chain, journal, ledger, halted, sync>> /\ migrations = {}
      /\ \A j, k \in migrations' : j = k
  BY DEF FinalizeMigration, memVars, chainVars
<1>2. IndexedTip' = IndexedTip /\ \A k : OnChain(k)' <=> OnChain(k)
  BY <1>1 DEF IndexedTip, OnChain, HashAt
<1>3. Migrating'
  BY <1>1, <1>2 DEF ReplayInv, Migrating
<1>4. \A last : LedgerAt(last)' <=> LedgerAt(last)
  BY <1>1, <1>2 DEF LedgerAt
<1>5. ReplayedSoFar'
  BY <1>1, <1>2, <1>4 DEF ReplayInv, ReplayedSoFar
<1> QED BY <1>1, <1>3, <1>5 DEF ReplayInv

(* One block more is one step more of the replay. *)
LEMMA ReplayIndex ==
  ASSUME Inv, Inv', CanonInv, BalanceInv, ReplayInv, IndexBlock
  PROVE  ReplayInv'
<1> USE DEF Inv
<1> DEFINE accounts == sync.droplets /\ BlockAccountable(ledger, Here, ActiveMembers)
           here == [height |-> sync.next, id |-> Here.id]
           n == sync.next
           After(last) == Unlocked(ledger') = ReplayOf(chain, last)[n]
<1>1. Indexing /\ Readable /\ UNCHANGED <<chain, migrations>>
  BY DEF IndexBlock, chainVars
<1>2. /\ n \in 1 .. Len(chain) /\ n \in Nat /\ \A k \in journal : OnChain(k) /\ k.height < n
      /\ n \in 1 .. MaxHeight
  BY <1>1, IndexedExtends, LedgerBounds DEF ReplayInv, TypeOK
<1>3. IndexedTip = n - 1
  BY <1>1, NextIndexed DEF Indexing
<1>4. sync'.pc = "index" /\ sync'.next = n + 1 /\ sync'.moves = sync.moves
  BY <1>1 DEF IndexBlock, Indexing, TypeOK, SyncState
<1>5. sync'.droplets <=> accounts
  <2>1. sync \in SyncState
    BY DEF TypeOK
  <2>2. sync'.droplets = accounts
    <3> HIDE DEF accounts
    <3>1. accounts <=> (sync.droplets /\ BlockAccountable(ledger, Here, ActiveMembers))
      BY Zenon DEF accounts
    <3> DEFINE to == IF MigratesHere THEN "next" ELSE sync.eye
               old == sync.old /\ ~MigratesHere
    <3>2. sync' = [sync EXCEPT !.next = @ + 1, !.prev = Here.id, !.droplets = accounts,
                               !.eye = to, !.old = old]
      BY Zenon DEF IndexBlock, accounts
    <3> HIDE DEF to, old
    <3> QED BY <2>1, <3>2 DEF SyncState
  <2> QED BY <2>2
<1>6. sync'.old <=> sync.old /\ ~MigratesHere
  <2>1. sync \in SyncState
    BY DEF TypeOK
  <2> DEFINE to == IF MigratesHere THEN "next" ELSE sync.eye
             old == sync.old /\ ~MigratesHere
  <2>2. sync' = [sync EXCEPT !.next = @ + 1, !.prev = Here.id, !.droplets = accounts,
                             !.eye = to, !.old = old]
    BY Zenon DEF IndexBlock
  <2> HIDE DEF to, old, accounts
  <2>3. sync'.old = old
    BY <2>1, <2>2 DEF SyncState
  <2> QED BY <2>3 DEF old
<1>7. /\ ledger' = (IF accounts THEN ApplyBlock(ledger, Here, ActiveMembers) ELSE ledger)
      /\ halted' = (IF sync.droplets /\ ~accounts THEN n ELSE halted)
  BY DEF IndexBlock
<1> HIDE DEF accounts
<1>8. accounts => sync.droplets
  BY DEF accounts
<1>9. IndexedTip' = n
  BY IndexedAfter
<1>10. Migrating'
  <2>1. sync'.droplets <=> halted' = 0
    BY <1>1, <1>2, <1>5, <1>7, <1>8 DEF ReplayInv, Migrating, Indexing
  <2>2. ASSUME ~sync'.old PROVE \E k \in migrations : k.height <= n
    <3>1. CASE ~sync.old
      <4>1. PICK k \in migrations : k.height <= n - 1
        BY <1>1, <1>3, <3>1 DEF ReplayInv, Migrating, Indexing
      <4> QED BY <1>2, <4>1 DEF TypeOK, Mark
    <3>2. CASE MigratesHere
      BY <1>1, <1>2, <3>2 DEF ReplayInv, Migrating, Indexing, MigratesHere
    <3> QED BY <1>6, <2>2, <3>1, <3>2
  <2> QED BY <1>1, <1>4, <1>9, <2>1, <2>2 DEF ReplayInv, Migrating, Indexing
<1>11. ASSUME halted' = 0 PROVE accounts /\ halted = 0
  BY <1>1, <1>2, <1>7, <1>11 DEF ReplayInv, Migrating, Indexing
<1>12. ASSUME halted' = 0, NEW last, ReplayOf(chain, last)[n - 1] = Unlocked(ledger),
              MembersAt(n, last) = ActiveMembers
       PROVE  After(last)
  <2>1. Unlocked(ledger') = ApplyBlock(Unlocked(ledger), Here, ActiveMembers)
    BY <1>7, <1>11, <1>12, AccountsFields, ApplyBlockUnlocked DEF TypeOK
  <2>2. ReplayOf(chain, last)[n]
          = ApplyBlock(ReplayOf(chain, last)[n - 1], chain[n], MembersAt(n, last))
    BY <1>2, ReplayUnfold
  <2> QED BY <1>12, <2>1, <2>2 DEF Here
<1>13. ASSUME halted' = 0, sync.old PROVE After(n)
  <2>1. Unlocked(ledger) = ReplayOf(chain, n - 1)[n - 1]
    BY <1>1, <1>2, <1>3, <1>11, <1>13 DEF ReplayInv, ReplayedSoFar, Indexing, LedgerAt
  <2>2. \A h \in 1 .. n - 1 : MembersAt(h, n - 1) = MembersAt(h, n)
    BY <1>2 DEF MembersAt
  <2>3. n - 1 \in 0 .. MaxHeight
    BY <1>2, LedgerBounds
  <2>4. ReplayOf(chain, n - 1)[n - 1] = ReplayOf(chain, n)[n - 1]
    <3> DEFINE m == n - 1
    <3>1. m \in 0 .. MaxHeight /\ \A h \in 1 .. m : MembersAt(h, m) = MembersAt(h, n)
      BY <2>2, <2>3
    <3> HIDE DEF m, n
    <3>2. ReplayOf(chain, m)[m] = ReplayOf(chain, n)[m]
      BY <3>1, ReplayAgree
    <3> QED BY <3>2 DEF m
  <2>5. MembersAt(n, n) = ActiveMembers
    BY <1>2, <1>13 DEF MembersAt, ActiveMembers
  <2> QED BY <1>12, <1>13, <2>1, <2>4, <2>5
<1>14. ASSUME halted' = 0, ~sync.old
       PROVE  \E last \in 0 .. n : (\E k \in migrations : k.height <= last) /\ After(last)
  <2>1. PICK last \in 0 .. IndexedTip :
          /\ last = IndexedTip \/ \E k \in migrations : k.height <= last
          /\ LedgerAt(last)
    BY <1>2, <1>11, <1>14 DEF ReplayInv, ReplayedSoFar
  <2>2. \E k \in migrations : k.height <= last
    BY <1>1, <1>14, <2>1 DEF ReplayInv, Migrating, Indexing
  <2>3. MembersAt(n, last) = ActiveMembers
    BY <1>2, <1>3, <1>14, <2>1 DEF MembersAt, ActiveMembers
  <2>4. After(last)
    BY <1>3, <1>12, <1>14, <2>1, <2>3 DEF LedgerAt
  <2> QED BY <1>2, <1>3, <2>1, <2>2, <2>4
<1>15. ReplayedSoFar'
  <2>1. SUFFICES ASSUME halted' = 0
                 PROVE  /\ \E last \in 0 .. n :
                             /\ last = n \/ \E k \in migrations : k.height <= last
                             /\ After(last)
                        /\ sync'.old => After(n)
    BY <1>1, <1>9 DEF ReplayedSoFar, LedgerAt
  <2> HIDE DEF After, n
  <2>2. n \in 0 .. n
    BY <1>2
  <2> QED BY <1>6, <1>13, <1>14, <2>1, <2>2
<1> QED BY <1>1, <1>10, <1>15 DEF ReplayInv

(* Every step keeps the ledger a replay of the chain. *)
LEMMA ReplayNext ==
  Inv /\ Inv' /\ CanonInv /\ BalanceInv /\ ReplayInv /\ [Next]_vars => ReplayInv'
<1> SUFFICES ASSUME Inv, Inv', CanonInv, BalanceInv, ReplayInv, [Next]_vars PROVE ReplayInv'
  OBVIOUS
<1> USE DEF Inv
<1>1. ledger \in Accounts /\ sync \in SyncState
  BY DEF TypeOK
<1>2. ASSUME UNCHANGED <<chain, journal, migrations, halted, sync>>,
             ledger' = ledger \/ \E m, l : ledger' = Locked(ledger, m, l)
      PROVE  ReplayInv'
  <2>1. Unlocked(ledger') = Unlocked(ledger)
    BY <1>1, <1>2, AccountsFields
  <2> QED BY <1>2, <2>1, ReplayQuiet
<1>3. ASSUME UNCHANGED <<chain, journal, migrations, halted, ledger>>,
             sync' = sync \/ sync'.pc \notin {"reset", "index"}
      PROVE  ReplayInv'
  BY <1>3, ReplayQuiet
<1>4. CASE \E m \in Member : ExchangeStep(m)
  <2>1. PICK m \in Member : ExchangeStep(m)
    BY <1>4
  <2>2. CASE \E t \in Tx : ValidateExchange(m, t)
    BY <1>2, <2>2 DEF ValidateExchange, chainVars, dbVars
  <2>3. CASE LockExchange(m)
    BY <1>2, <2>3 DEF LockExchange, chainVars
  <2>4. CASE FinalizeExchange(m)
    BY <1>2, <2>4 DEF FinalizeExchange, chainVars
  <2>5. CASE FailExchange(m)
    BY <1>2, <2>5 DEF FailExchange, chainVars
  <2>6. CASE DecideRelease(m)
    BY <1>2, <2>6 DEF DecideRelease, chainVars, dbVars
  <2>7. CASE ReleaseLock(m)
    BY <1>2, <2>7 DEF ReleaseLock, chainVars
  <2> QED BY <2>1, <2>2, <2>3, <2>4, <2>5, <2>6, <2>7 DEF ExchangeStep
<1>5. CASE SyncBegin \/ DetectRefused \/ DetectUnreadable \/ DetectDisplaced \/ IndexFails
           \/ FinishFails \/ FinishSync \/ FinishRecovery
  <2>1. UNCHANGED <<chain, journal, migrations, halted, ledger>>
    BY <1>5 DEF SyncBegin, DetectRefused, DetectUnreadable, DetectDisplaced, IndexFails,
                FinishFails, FinishSync, FinishRecovery, chainVars, dbVars
  <2>2. sync'.pc \notin {"reset", "index"}
    <3>1. Idle \in SyncState /\ Idle.pc = "idle"
      BY DEF Idle, SyncState
    <3> HIDE DEF Idle
    <3>2. CASE SyncBegin
      BY <3>1, <3>2 DEF SyncBegin, SyncState
    <3>3. CASE FinishSync
      BY <1>1, <3>1, <3>3 DEF FinishSync, SyncState
    <3> QED BY <1>5, <3>1, <3>2, <3>3 DEF DetectRefused, DetectUnreadable, DetectDisplaced,
                IndexFails, FinishFails, FinishRecovery, SyncFailed
  <2> QED BY <1>3, <2>1, <2>2
<1>6. CASE DetectRebuild
  <2>1. UNCHANGED <<chain, journal, migrations, halted, ledger>>
    BY <1>6 DEF DetectRebuild, chainVars
  <2>2. sync'.pc = "reset" /\ sync'.moves = migrations
    BY <1>1, <1>6 DEF DetectRebuild, SyncState
  <2>3. IndexedTip' = IndexedTip /\ \A k : OnChain(k)' <=> OnChain(k)
    BY <2>1 DEF IndexedTip, OnChain, HashAt
  <2>4. \A last : LedgerAt(last)' <=> LedgerAt(last)
    BY <2>1, <2>3 DEF LedgerAt
  <2>5. Migrating'
    BY <2>1, <2>2 DEF ReplayInv, Migrating
  <2>6. ReplayedSoFar'
    BY <2>1, <2>2, <2>3, <2>4 DEF ReplayInv, ReplayedSoFar
  <2> QED BY <2>1, <2>5, <2>6 DEF ReplayInv
<1>7. CASE RestoreLock
  <2>1. UNCHANGED <<chain, journal, migrations, halted>> /\ sync'.pc = "restore"
    BY <1>1, <1>7 DEF RestoreLock, chainVars, SyncState
  <2>2. ledger' = ledger \/ \E m, l : ledger' = Locked(ledger, m, l)
    BY <1>7 DEF RestoreLock
  <2>3. Unlocked(ledger') = Unlocked(ledger)
    BY <1>1, <2>2, AccountsFields
  <2> QED BY <2>1, <2>3, ReplayQuiet
<1>8. CASE Crash
  <2>1. UNCHANGED <<chain, journal, migrations, halted, ledger>> /\ sync' = Idle
    BY <1>8 DEF Crash, chainVars, dbVars
  <2>2. sync'.pc = "idle"
    BY <2>1 DEF Idle
  <2> QED BY <1>3, <2>1, <2>2
<1>9. CASE UNCHANGED vars
  BY <1>3, <1>9 DEF vars, chainVars, dbVars, memVars
<1> QED BY <1>4, <1>5, <1>6, <1>7, <1>8, <1>9, ReplayResume, ReplayReset, ReplayIndex,
           ReplayMigration, ReplayChain DEF Next, SyncStep

LEMMA ReplayInit == Init => ReplayInv
<1> SUFFICES ASSUME Init PROVE ReplayInv
  OBVIOUS
<1>1. /\ Len(chain) = 0 /\ journal = {} /\ ledger = EmptyAccounts /\ migrations = {}
      /\ sync.pc = "idle" /\ IndexedTip = 0
  BY DEF Init, Idle, IndexedTip
<1>2. Unlocked(EmptyAccounts) = EmptyAccounts
  BY DEF Unlocked, EmptyAccounts
<1>3. LedgerAt(0)
  BY <1>1, <1>2, ReplayUnfold DEF LedgerAt
<1>4. Migrating
  BY <1>1 DEF Migrating
<1>5. ReplayedSoFar
  BY <1>1, <1>3 DEF ReplayedSoFar
<1> QED BY <1>1, <1>4, <1>5, LedgerBounds DEF ReplayInv

(* The ledger of a canonical index is what one replay of the chain         *)
(* computes, however it was built, and its members changed once, behind    *)
(* the migration (sync, apply_block_in, reset_projections).                *)
THEOREM ReplaySafety == Spec => []LedgerIsReplay
<1>1. Spec => []CanonInv
  <2>1. CanonInv /\ Inv /\ Inv' /\ [Next]_vars => CanonInv'
    BY CanonNext
  <2> QED BY <2>1, CanonInit, InvInductive, PTL DEF Spec
<1>2. Spec => []BalanceInv
  <2>1. BalanceInv /\ CanonInv /\ Inv /\ Inv' /\ [Next]_vars => BalanceInv'
    BY BalanceNext
  <2> QED BY <1>1, <2>1, BalanceInit, InvInductive, PTL DEF Spec
<1>3. Spec => []ReplayInv
  <2>1. ReplayInv /\ BalanceInv /\ CanonInv /\ Inv /\ Inv' /\ [Next]_vars => ReplayInv'
    BY ReplayNext
  <2> QED BY <1>1, <1>2, <2>1, ReplayInit, InvInductive, PTL DEF Spec
<1>4. Inv /\ CanonInv /\ ReplayInv => LedgerIsReplay
  <2> SUFFICES ASSUME Inv, CanonInv, ReplayInv, checked, halted = 0
               PROVE  \E last \in 0 .. IndexedTip :
                        /\ migrations = {} => last = IndexedTip
                        /\ \A k \in migrations : last >= k.height \/ IndexedTip < k.height
                        /\ [ledger EXCEPT !.lock = EmptyAccounts.lock]
                             = [Replayed(last) EXCEPT !.lock = EmptyAccounts.lock]
    BY DEF LedgerIsReplay
  <2>1. \A k \in journal : OnChain(k)
    BY DEF CanonInv, IndexIsCanonical
  <2>2. PICK last \in 0 .. IndexedTip :
          /\ last = IndexedTip \/ \E k \in migrations : k.height <= last
          /\ LedgerAt(last)
    BY <2>1 DEF ReplayInv, ReplayedSoFar
  <2>3. Unlocked(ledger) = Unlocked(Replayed(last))
    <3>1. Unlocked(Unlocked(ledger)) = Unlocked(ledger)
      BY AccountsFields DEF Inv, TypeOK
    <3>2. Replayed(last) = Unlocked(ledger)
      BY <2>2, ReplayedIs DEF LedgerAt
    <3> QED BY <3>1, <3>2
  <2>4. IndexedTip \in Nat /\ \A k \in migrations : k.height \in Nat
    BY IndexedTipType DEF Inv, TypeOK, Mark
  <2>5. \A k \in migrations : last >= k.height \/ IndexedTip < k.height
    <3>1. \A j, k \in migrations : j = k
      BY DEF ReplayInv, Migrating
    <3> QED BY <2>2, <2>4, <3>1
  <2> QED BY <2>2, <2>3, <2>5 DEF Unlocked
<1> QED BY <1>1, <1>3, <1>4, InvInductive, PTL
=============================================================================
