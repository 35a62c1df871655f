---------------------------- MODULE SumTheorems -----------------------------
(***************************************************************************)
(* Sums of natural numbers over finite sets, as MapThenSumSet computes     *)
(* them: one element after the other.  The sum of f over S is the number   *)
(* of pairs <<x, k>> with x in S and k in 1 .. f[x]; everything else        *)
(* follows from what is known of cardinalities.                            *)
(*                                                                         *)
(* The summed operator is given as a function, SumOver(f, S); SumEqual is  *)
(* stated for functions too, and is proved again where a specification     *)
(* sums another expression.                                                *)
(***************************************************************************)
EXTENDS Integers, FiniteSets, FiniteSetsExt, FiniteSetTheorems, TLAPS

SumOver(f, S) == MapThenSumSet(LAMBDA x : f[x], S)

AnyOf(s) == CHOOSE x \in s : TRUE

\* One step of the fold.
Fold(f, S, h) ==
  [s \in SUBSET S |-> IF s = {} THEN 0 ELSE f[AnyOf(s)] + h[s \ {AnyOf(s)}]]

LEMMA SumIsFold ==
  ASSUME NEW f, NEW S
  PROVE  SumOver(f, S) = (CHOOSE h : h = Fold(f, S, h))[S]
BY DEF SumOver, MapThenSumSet, MapThenFoldSet, Fold, AnyOf

LEMMA AnyOfIn == ASSUME NEW s, s # {} PROVE AnyOf(s) \in s
BY DEF AnyOf

\* A sum depends on the values of f on S only.
THEOREM SumEqual ==
  ASSUME NEW S, NEW f, NEW g, \A x \in S : f[x] = g[x]
  PROVE  SumOver(f, S) = SumOver(g, S)
<1>1. ASSUME NEW h
      PROVE  Fold(f, S, h) = Fold(g, S, h)
  BY AnyOfIn DEF Fold
<1>2. (CHOOSE h : h = Fold(f, S, h)) = (CHOOSE h : h = Fold(g, S, h))
  BY <1>1, Zenon
<1> QED
  BY <1>2, SumIsFold
-----------------------------------------------------------------------------
\* Whatever the empty set has, and a set has if it has it without one of its elements, every
\* finite set has: B is the set of subsets of S that have it.
THEOREM SubsetInduction ==
  ASSUME NEW S, IsFiniteSet(S), NEW B,
         {} \in B,
         \A T \in SUBSET S : T # {} /\ (\A x \in T : T \ {x} \in B) => T \in B
  PROVE  \A T \in SUBSET S : T \in B
<1> DEFINE Bad == {T \in SUBSET S : T \notin B}
<1>1. SUFFICES ASSUME Bad # {}
               PROVE  FALSE
  OBVIOUS
<1>2. Bad \subseteq FiniteSubsetsOf(S)
  BY FS_FiniteSubsetsOfFinite
<1>3. IsWellFoundedOn(StrictSubsetOrdering(S), FiniteSubsetsOf(S))
  BY FS_StrictSubsetOrderingWellFounded
<1>4. \E T \in Bad : \A U \in Bad : ~(<<U, T>> \in StrictSubsetOrdering(S))
  <2> HIDE DEF Bad
  <2> QED
    BY <1>1, <1>2, <1>3, WFMin, Zenon
<1>5. PICK T \in Bad : \A U \in Bad : ~(<<U, T>> \in StrictSubsetOrdering(S))
  BY <1>4
<1>6. PICK x \in T : T \ {x} \notin B
  BY <1>5
<1>7. T \ {x} \in Bad
  BY <1>5, <1>6
<1>8. <<T \ {x}, T>> \in StrictSubsetOrdering(S)
  BY <1>5, <1>6 DEF StrictSubsetOrdering
<1> QED
  BY <1>5, <1>7, <1>8
-----------------------------------------------------------------------------
Units(f, S) == {u \in S \X Nat : u[2] \in 1 .. f[u[1]]}

LEMMA UnitsOf ==
  ASSUME NEW x, NEW f, f[x] \in Nat
  PROVE  IsFiniteSet({x} \X (1 .. f[x])) /\ Cardinality({x} \X (1 .. f[x])) = f[x]
<1>1. IsFiniteSet({x}) /\ Cardinality({x}) = 1
  BY FS_Singleton
<1>2. IsFiniteSet(1 .. f[x]) /\ Cardinality(1 .. f[x]) = f[x]
  BY FS_Interval
<1> DEFINE X == {x}
           K == 1 .. f[x]
<1>3. IsFiniteSet(X \X K) /\ Cardinality(X \X K) = Cardinality(X) * Cardinality(K)
  <2>1. IsFiniteSet(X) /\ IsFiniteSet(K)
    BY <1>1, <1>2
  <2> HIDE DEF X, K
  <2> QED
    BY <2>1, FS_Product
<1>4. Cardinality(X) * Cardinality(K) = 1 * f[x]
  BY <1>1, <1>2
<1> QED
  BY <1>3, <1>4

LEMMA UnitsSplit ==
  ASSUME NEW S, NEW f \in [S -> Nat], NEW T \in SUBSET S, NEW x \in T
  PROVE  /\ Units(f, T) = Units(f, T \ {x}) \cup ({x} \X (1 .. f[x]))
         /\ Units(f, T \ {x}) \cap ({x} \X (1 .. f[x])) = {}
BY DEF Units

LEMMA UnitsFinite ==
  ASSUME NEW S, IsFiniteSet(S), NEW f \in [S -> Nat]
  PROVE  \A T \in SUBSET S : IsFiniteSet(Units(f, T))
<1> DEFINE B == {T \in SUBSET S : IsFiniteSet(Units(f, T))}
<1>1. {} \in B
  <2>1. Units(f, {}) = {}
    BY DEF Units
  <2> QED
    BY <2>1, FS_EmptySet
<1>2. ASSUME NEW T \in SUBSET S, T # {}, \A x \in T : T \ {x} \in B
      PROVE  T \in B
  <2>1. PICK x \in T : TRUE
    BY <1>2
  <2>2. IsFiniteSet(Units(f, T \ {x}))
    BY <1>2
  <2>3. IsFiniteSet({x} \X (1 .. f[x]))
    BY UnitsOf
  <2>4. IsFiniteSet(Units(f, T \ {x}) \cup ({x} \X (1 .. f[x])))
    BY <2>2, <2>3, FS_Union
  <2> QED
    BY <2>4, UnitsSplit
<1>3. \A T \in SUBSET S : T \in B
  <2> HIDE DEF B
  <2> QED
    BY <1>1, <1>2, SubsetInduction
<1> QED
  BY <1>3

LEMMA UnitsPoint ==
  ASSUME NEW S, IsFiniteSet(S), NEW f \in [S -> Nat], NEW T \in SUBSET S, NEW x \in T
  PROVE  Cardinality(Units(f, T)) = f[x] + Cardinality(Units(f, T \ {x}))
<1>1. IsFiniteSet(Units(f, T \ {x})) /\ Cardinality(Units(f, T \ {x})) \in Nat
  BY UnitsFinite, FS_CardinalityType
<1>2. IsFiniteSet({x} \X (1 .. f[x])) /\ Cardinality({x} \X (1 .. f[x])) = f[x]
  BY UnitsOf
<1>3. Cardinality({}) = 0
  BY FS_EmptySet
<1> DEFINE A == Units(f, T \ {x})
           C == {x} \X (1 .. f[x])
<1>4. Units(f, T) = A \cup C /\ A \cap C = {}
  BY UnitsSplit
<1>5. IsFiniteSet(A) /\ Cardinality(A) \in Nat /\ IsFiniteSet(C) /\ Cardinality(C) = f[x]
  BY <1>1, <1>2
<1>6. f[x] \in Nat
  OBVIOUS
<1> HIDE DEF A, C
<1>7. Cardinality(A \cup C) = Cardinality(A) + Cardinality(C) - Cardinality(A \cap C)
  BY <1>5, FS_Union
<1>8. Cardinality(A \cap C) = 0
  BY <1>3, <1>4
<1>9. Cardinality(A \cup C) = f[x] + Cardinality(A)
  BY <1>5, <1>6, <1>7, <1>8
<1> QED
  BY <1>4, <1>9 DEF A

\* The fold counts the units.
THEOREM SumIsCount ==
  ASSUME NEW S, IsFiniteSet(S), NEW f \in [S -> Nat]
  PROVE  SumOver(f, S) = Cardinality(Units(f, S))
<1> DEFINE g == [T \in SUBSET S |-> Cardinality(Units(f, T))]
           h == CHOOSE k : k = Fold(f, S, k)
<1>1. Cardinality(Units(f, {})) = 0
  <2>1. Units(f, {}) = {}
    BY DEF Units
  <2> QED
    BY <2>1, FS_EmptySet
<1>2. g = Fold(f, S, g)
  <2>1. ASSUME NEW T \in SUBSET S, T # {}
        PROVE  g[T] = f[AnyOf(T)] + g[T \ {AnyOf(T)}]
    BY <2>1, AnyOfIn, UnitsPoint
  <2>2. g[{}] = 0
    BY <1>1
  <2>3. \A T \in SUBSET S : g[T] = IF T = {} THEN 0 ELSE f[AnyOf(T)] + g[T \ {AnyOf(T)}]
    BY <2>1, <2>2
  <2>4. g = [T \in SUBSET S |-> g[T]]
    OBVIOUS
  <2> HIDE DEF g
  <2> QED
    BY <2>3, <2>4 DEF Fold
<1>3. h = Fold(f, S, h)
  <2> HIDE DEF g
  <2> QED
    BY <1>2, Zenon
<1> HIDE DEF h
<1>4. /\ h[{}] = 0
      /\ \A T \in SUBSET S : T # {} => h[T] = f[AnyOf(T)] + h[T \ {AnyOf(T)}]
  BY <1>3 DEF Fold
<1> DEFINE B == {T \in SUBSET S : h[T] = g[T]}
<1>5. {} \in B
  BY <1>1, <1>4
<1>6. ASSUME NEW T \in SUBSET S, T # {}, \A x \in T : T \ {x} \in B
      PROVE  T \in B
  <2>1. AnyOf(T) \in T
    BY <1>6, AnyOfIn
  <2>2. h[T \ {AnyOf(T)}] = Cardinality(Units(f, T \ {AnyOf(T)}))
    BY <1>6, <2>1
  <2>3. h[T] = Cardinality(Units(f, T))
    BY <1>4, <1>6, <2>1, <2>2, UnitsPoint
  <2> QED
    BY <2>3
<1>7. S \in B
  <2> HIDE DEF B
  <2> QED
    BY <1>5, <1>6, SubsetInduction
<1>8. h[S] = Cardinality(Units(f, S))
  BY <1>7
<1> QED
  BY <1>8, SumIsFold DEF h
-----------------------------------------------------------------------------
\* Natural numbers sum up to a natural number.
THEOREM SumNat ==
  ASSUME NEW S, IsFiniteSet(S), NEW f, \A x \in S : f[x] \in Nat
  PROVE  SumOver(f, S) \in Nat
<1> DEFINE g == [x \in S |-> f[x]]
<1>1. g \in [S -> Nat] /\ SumOver(f, S) = SumOver(g, S)
  <2>1. \A x \in S : f[x] = g[x]
    OBVIOUS
  <2> HIDE DEF g
  <2>2. SumOver(f, S) = SumOver(g, S)
    BY <2>1, SumEqual
  <2> QED
    BY <2>2 DEF g
<1> HIDE DEF g
<1>2. SumOver(g, S) = Cardinality(Units(g, S))
  BY <1>1, SumIsCount
<1>3. IsFiniteSet(Units(g, S))
  BY <1>1, UnitsFinite
<1> QED
  BY <1>1, <1>2, <1>3, FS_CardinalityType

\* Nothing sums up to nothing.
THEOREM SumEmpty == \A f : SumOver(f, {}) = 0
<1>1. ASSUME NEW f
      PROVE  SumOver(f, {}) = 0
  <2> DEFINE g == [x \in {} |-> 0]
  <2>1. g \in [{} -> Nat]
    OBVIOUS
  <2>2. Units(g, {}) = {}
    BY DEF Units
  <2> HIDE DEF g
  <2>3. SumOver(g, {}) = 0
    BY <2>1, <2>2, FS_EmptySet, SumIsCount
  <2> QED
    BY <2>3, SumEqual
<1> QED
  BY <1>1

\* The sums over two disjoint sets add up to the sum over their union.
THEOREM SumUnion ==
  ASSUME NEW S, IsFiniteSet(S), NEW T, IsFiniteSet(T), S \cap T = {},
         NEW f, \A x \in S \cup T : f[x] \in Nat
  PROVE  SumOver(f, S \cup T) = SumOver(f, S) + SumOver(f, T)
<1> DEFINE g == [x \in S \cup T |-> f[x]]
           gs == [x \in S |-> f[x]]
           gt == [x \in T |-> f[x]]
<1>1. /\ g \in [S \cup T -> Nat] /\ gs \in [S -> Nat] /\ gt \in [T -> Nat]
      /\ \A x \in S \cup T : f[x] = g[x]
      /\ \A x \in S : f[x] = gs[x]
      /\ \A x \in T : f[x] = gt[x]
  OBVIOUS
<1> DEFINE U == Units(gs, S)
           V == Units(gt, T)
<1>2. Units(g, S \cup T) = U \cup V /\ U \cap V = {}
  BY DEF Units
<1> HIDE DEF g, gs, gt
<1>3. IsFiniteSet(S \cup T)
  BY FS_Union
<1>4. /\ SumOver(f, S \cup T) = Cardinality(Units(g, S \cup T))
      /\ SumOver(f, S) = Cardinality(U)
      /\ SumOver(f, T) = Cardinality(V)
  BY <1>1, <1>3, SumEqual, SumIsCount
<1>5. IsFiniteSet(U) /\ IsFiniteSet(V)
  BY <1>1, UnitsFinite
<1> HIDE DEF U, V
<1>6. Cardinality(U) \in Nat /\ Cardinality(V) \in Nat /\ Cardinality(U \cap V) = 0
  BY <1>2, <1>5, FS_CardinalityType, FS_EmptySet
<1>7. Cardinality(U \cup V) = Cardinality(U) + Cardinality(V) - Cardinality(U \cap V)
  BY <1>5, FS_Union
<1>8. Cardinality(U \cup V) = Cardinality(U) + Cardinality(V)
  BY <1>6, <1>7
<1> QED
  BY <1>2, <1>4, <1>8

\* One element sums up to its value.
THEOREM SumSingle ==
  ASSUME NEW f, NEW x, f[x] \in Nat
  PROVE  SumOver(f, {x}) = f[x]
<1> DEFINE g == [y \in {x} |-> f[x]]
<1>1. g \in [{x} -> Nat] /\ g[x] = f[x]
  OBVIOUS
<1>2. Units(g, {x}) = {x} \X (1 .. g[x])
  BY DEF Units
<1> HIDE DEF g
<1>3. SumOver(g, {x}) = g[x]
  <2>1. SumOver(g, {x}) = Cardinality(Units(g, {x}))
    BY <1>1, SumIsCount, FS_Singleton
  <2>2. Cardinality({x} \X (1 .. g[x])) = g[x]
    BY <1>1, UnitsOf
  <2> QED
    BY <1>2, <2>1, <2>2
<1>4. SumOver(f, {x}) = SumOver(g, {x})
  BY <1>1, SumEqual
<1> QED
  BY <1>1, <1>3, <1>4

\* One element apart.
THEOREM SumPoint ==
  ASSUME NEW S, IsFiniteSet(S), NEW x \in S, NEW f, \A y \in S : f[y] \in Nat
  PROVE  SumOver(f, S) = f[x] + SumOver(f, S \ {x})
<1>1. IsFiniteSet(S \ {x}) /\ IsFiniteSet({x}) /\ (S \ {x}) \cap {x} = {}
  BY FS_RemoveElement, FS_Singleton
<1>2. (S \ {x}) \cup {x} = S
  OBVIOUS
<1>3. SumOver(f, (S \ {x}) \cup {x}) = SumOver(f, S \ {x}) + SumOver(f, {x})
  BY <1>1, SumUnion
<1>4. SumOver(f, {x}) = f[x] /\ SumOver(f, S \ {x}) \in Nat
  BY <1>1, SumSingle, SumNat
<1>5. SumOver(f, S) = SumOver(f, S \ {x}) + f[x]
  BY <1>2, <1>3, <1>4
<1> QED
  BY <1>4, <1>5

\* Two functions that differ at one element only.
THEOREM SumChange ==
  ASSUME NEW S, IsFiniteSet(S), NEW x \in S,
         NEW f, \A y \in S : f[y] \in Nat, NEW g, \A y \in S : g[y] \in Nat,
         \A y \in S \ {x} : f[y] = g[y]
  PROVE  SumOver(g, S) = SumOver(f, S) - f[x] + g[x]
<1>1. SumOver(f, S) = f[x] + SumOver(f, S \ {x})
  BY SumPoint
<1>2. SumOver(g, S) = g[x] + SumOver(g, S \ {x})
  BY SumPoint
<1>3. SumOver(f, S \ {x}) = SumOver(g, S \ {x})
  BY SumEqual
<1>4. IsFiniteSet(S \ {x}) /\ SumOver(f, S \ {x}) \in Nat
  BY FS_RemoveElement, SumNat
<1> QED
  BY <1>1, <1>2, <1>3, <1>4

\* Fewer elements, no larger a sum.
THEOREM SumSubset ==
  ASSUME NEW S, IsFiniteSet(S), NEW T \in SUBSET S, NEW f, \A x \in S : f[x] \in Nat
  PROVE  SumOver(f, T) <= SumOver(f, S)
<1>1. IsFiniteSet(T) /\ IsFiniteSet(S \ T)
  BY FS_Subset
<1>2. T \cup (S \ T) = S /\ T \cap (S \ T) = {}
  OBVIOUS
<1>3. SumOver(f, T \cup (S \ T)) = SumOver(f, T) + SumOver(f, S \ T)
  BY <1>1, <1>2, SumUnion
<1>4. SumOver(f, T) \in Nat /\ SumOver(f, S \ T) \in Nat
  BY <1>1, SumNat
<1>5. SumOver(f, S) = SumOver(f, T) + SumOver(f, S \ T)
  BY <1>2, <1>3
<1> QED
  BY <1>4, <1>5

\* A sum does not depend on what its elements are called.
THEOREM SumBijection ==
  ASSUME NEW S, IsFiniteSet(S), NEW T, IsFiniteSet(T),
         NEW f \in [S -> Nat], NEW g \in [T -> Nat],
         NEW b \in Bijection(S, T), \A x \in S : g[b[x]] = f[x]
  PROVE  SumOver(f, S) = SumOver(g, T)
<1> DEFINE U == Units(f, S)
           V == Units(g, T)
           c == [u \in U |-> <<b[u[1]], u[2]>>]
<1>1. b \in [S -> T] /\ \A y \in T : \E x \in S : b[x] = y
  BY DEF Bijection, Surjection, Injection
<1>2. \A x, y \in S : b[x] = b[y] => x = y
  BY DEF Bijection, Injection, IsInjective
<1>3. c \in [U -> V]
  BY <1>1 DEF Units
<1>4. \A u, v \in U : c[u] = c[v] => u = v
  BY <1>2 DEF Units
<1>5. \A v \in V : \E u \in U : c[u] = v
  <2>1. SUFFICES ASSUME NEW v \in V PROVE \E u \in U : c[u] = v
    OBVIOUS
  <2>2. v \in T \X Nat /\ v[2] \in 1 .. g[v[1]]
    BY DEF Units
  <2>3. PICK x \in S : b[x] = v[1]
    BY <1>1, <2>2
  <2>4. <<x, v[2]>> \in U /\ c[<<x, v[2]>>] = v
    BY <2>2, <2>3 DEF Units
  <2> QED
    BY <2>4
<1>6. c \in Bijection(U, V)
  <2> HIDE DEF c, U, V
  <2> QED
    BY <1>3, <1>4, <1>5 DEF Bijection, Surjection, Injection, IsInjective
<1>7. IsFiniteSet(U)
  BY UnitsFinite
<1>8. Cardinality(U) = Cardinality(V)
  <2> HIDE DEF c, U, V
  <2> QED
    BY <1>6, <1>7, FS_Bijection DEF ExistsBijection
<1> QED
  BY <1>8, SumIsCount

\* Zeroes do not count.
THEOREM SumZero ==
  ASSUME NEW S, IsFiniteSet(S), NEW f, \A x \in S : f[x] = 0
  PROVE  SumOver(f, S) = 0
<1> DEFINE g == [x \in S |-> 0]
<1>1. g \in [S -> Nat] /\ \A x \in S : f[x] = g[x]
  OBVIOUS
<1>2. Units(g, S) = {}
  BY DEF Units
<1> HIDE DEF g
<1>3. SumOver(g, S) = 0
  BY <1>1, <1>2, SumIsCount, FS_EmptySet
<1> QED
  BY <1>1, <1>3, SumEqual

\* The sum over some elements is the sum over all, the others set to zero.
THEOREM SumFilter ==
  ASSUME NEW S, IsFiniteSet(S), NEW T \in SUBSET S,
         NEW f, \A x \in T : f[x] \in Nat,
         NEW g, \A x \in T : g[x] = f[x], \A x \in S \ T : g[x] = 0
  PROVE  SumOver(f, T) = SumOver(g, S)
<1>1. IsFiniteSet(T) /\ IsFiniteSet(S \ T)
  BY FS_Subset
<1>2. T \cup (S \ T) = S /\ T \cap (S \ T) = {}
  OBVIOUS
<1>3. \A x \in T \cup (S \ T) : g[x] \in Nat
  OBVIOUS
<1>4. SumOver(g, T \cup (S \ T)) = SumOver(g, T) + SumOver(g, S \ T)
  BY <1>1, <1>2, <1>3, SumUnion
<1>5. SumOver(g, S \ T) = 0 /\ SumOver(g, T) = SumOver(f, T)
  BY <1>1, SumZero, SumEqual
<1>6. SumOver(f, T) \in Nat
  BY <1>1, SumNat
<1>7. SumOver(g, S) = SumOver(g, T) + SumOver(g, S \ T)
  BY <1>2, <1>4
<1> QED
  BY <1>5, <1>6, <1>7

\* The sum of two numbers for each is the sum of both sums.
THEOREM SumAdd ==
  ASSUME NEW S, IsFiniteSet(S),
         NEW f, \A x \in S : f[x] \in Nat, NEW g, \A x \in S : g[x] \in Nat,
         NEW h, \A x \in S : h[x] = f[x] + g[x]
  PROVE  SumOver(h, S) = SumOver(f, S) + SumOver(g, S)
<1> DEFINE B == {T \in SUBSET S : SumOver(h, T) = SumOver(f, T) + SumOver(g, T)}
<1>1. {} \in B
  BY SumEmpty
<1>2. ASSUME NEW T \in SUBSET S, T # {}, \A x \in T : T \ {x} \in B
      PROVE  T \in B
  <2>1. PICK x \in T : TRUE
    BY <1>2
  <2>2. IsFiniteSet(T) /\ IsFiniteSet(T \ {x})
    BY FS_Subset
  <2>3. SumOver(h, T \ {x}) = SumOver(f, T \ {x}) + SumOver(g, T \ {x})
    BY <1>2
  <2>4. /\ SumOver(f, T) = f[x] + SumOver(f, T \ {x})
        /\ SumOver(g, T) = g[x] + SumOver(g, T \ {x})
    BY <2>2, SumPoint
  <2>5. \A y \in T : h[y] \in Nat
    OBVIOUS
  <2>6. SumOver(h, T) = h[x] + SumOver(h, T \ {x})
    BY <2>2, <2>5, SumPoint
  <2>7. SumOver(f, T \ {x}) \in Nat /\ SumOver(g, T \ {x}) \in Nat /\ f[x] \in Nat /\ g[x] \in Nat
    BY <2>2, SumNat
  <2>8. h[x] = f[x] + g[x]
    OBVIOUS
  <2>9. SumOver(h, T) = SumOver(f, T) + SumOver(g, T)
    BY <2>3, <2>4, <2>6, <2>7, <2>8
  <2> QED
    BY <2>9
<1> HIDE DEF B
<1>3. \A T \in SUBSET S : T \in B
  BY <1>1, <1>2, SubsetInduction
<1>4. S \in B
  BY <1>3
<1> QED
  BY <1>4 DEF B
=============================================================================
