---------------------------- MODULE SumTheorems ----------------------------
(***************************************************************************)
(* What MapThenSumSet of the community modules computes, for every finite  *)
(* set: it folds with a recursive function over the subsets of the set, in *)
(* an order that CHOOSE fixes. The order is shown not to matter, by taking *)
(* a least counterexample (WFMin) rather than by an induction rule.        *)
(***************************************************************************)
EXTENDS Integers, FiniteSetsExt, FiniteSetTheorems, WellFoundedInduction, TLAPS

-----------------------------------------------------------------------------
(* Least elements *)

\* A set of naturals that is not empty has a least element.
LEMMA NatLeast ==
  ASSUME NEW T \in SUBSET Nat, T # {}
  PROVE  \E n \in T : \A m \in T : n <= m
<1> DEFINE R == OpToRel(<, Nat)
<1>1. IsWellFoundedOn(R, Nat)
  BY NatLessThanWellFounded
<1>2. \A x, y \in Nat : <<y, x>> \in R <=> y < x
  BY DEF OpToRel
<1> HIDE DEF R
<1>3. PICK n \in T : \A m \in T : ~ (<<m, n>> \in R)
  BY <1>1, WFMin
<1>4. ASSUME NEW m \in T PROVE n <= m
  <2>1. ~ (m < n)
    BY <1>2, <1>3
  <2> QED
    BY <2>1
<1> QED
  BY <1>4

\* A set of naturals with zero and every successor is all of them.
LEMMA NatSet ==
  ASSUME NEW S \in SUBSET Nat, 0 \in S, \A n \in S : n + 1 \in S
  PROVE  S = Nat
<1> SUFFICES ASSUME Nat \ S # {} PROVE FALSE
  OBVIOUS
<1>1. PICK n \in Nat \ S : \A m \in Nat \ S : n <= m
  BY NatLeast
<1>2. n # 0 /\ n - 1 \in Nat /\ n - 1 \in S
  BY <1>1
<1> QED
  BY <1>1, <1>2

\* What holds of a set whenever it holds of the set without any one element holds of
\* every subset of a finite set.
LEMMA TakeAway ==
  ASSUME NEW S, IsFiniteSet(S), NEW G \in SUBSET SUBSET S,
         \A U \in SUBSET S : (\A x \in U : U \ {x} \in G) => U \in G
  PROVE  \A U \in SUBSET S : U \in G
<1> DEFINE N == {n \in Nat : \A U \in SUBSET S : Cardinality(U) = n => U \in G}
<1>1. \A U \in SUBSET S : IsFiniteSet(U) /\ Cardinality(U) \in Nat
  BY FS_Subset, FS_CardinalityType
<1>2. 0 \in N
  BY <1>1, FS_EmptySet
<1>3. ASSUME NEW n \in N PROVE n + 1 \in N
  <2> SUFFICES ASSUME NEW U \in SUBSET S, Cardinality(U) = n + 1 PROVE U \in G
    OBVIOUS
  <2>1. ASSUME NEW x \in U PROVE U \ {x} \in G
    <3>1. U \ {x} \in SUBSET S /\ IsFiniteSet(U)
      BY <1>1
    <3>2. Cardinality(U \ {x}) = Cardinality(U) - 1
      BY <3>1, FS_RemoveElement
    <3> QED
      BY <3>1, <3>2
  <2> QED
    BY <2>1
<1>4. N = Nat
  <2> HIDE DEF N
  <2>1. N \in SUBSET Nat
    BY DEF N
  <2> QED
    BY <1>2, <1>3, <2>1, NatSet
<1> QED
  BY <1>1, <1>4

-----------------------------------------------------------------------------
(* Folds over the subsets of a set *)

\* The element a fold takes first.
Pick(s) == CHOOSE x \in s : TRUE

\* F is the fold of f over the subsets of S.
FoldOf(F, f, S) ==
  F = [s \in SUBSET S |-> IF s = {} THEN 0 ELSE f[Pick(s)] + F[s \ {Pick(s)}]]

\* Pick takes an element of the set.
LEMMA PickIn == \A s : s # {} => Pick(s) \in s
BY DEF Pick

\* A finite set has a fold: the folds up to each size are built one from the other.
LEMMA FoldExists ==
  ASSUME NEW S, IsFiniteSet(S), NEW f
  PROVE  \E F : FoldOf(F, f, S)
<1> DEFINE Body(F, s) == IF s = {} THEN 0 ELSE f[Pick(s)] + F[s \ {Pick(s)}]
           Upto(n) == {s \in SUBSET S : Cardinality(s) <= n}
           N == {n \in Nat : \E F : F = [s \in SUBSET S |-> IF s \in Upto(n) THEN Body(F, s) ELSE 0]}
<1>1. \A U \in SUBSET S : IsFiniteSet(U) /\ Cardinality(U) \in Nat
  BY FS_Subset, FS_CardinalityType
<1>2. 0 \in N
  <2> DEFINE F == [s \in SUBSET S |-> 0]
  <2>1. \A s \in SUBSET S : s \in Upto(0) => s = {}
    BY <1>1, FS_EmptySet
  <2>2. F = [s \in SUBSET S |-> IF s \in Upto(0) THEN Body(F, s) ELSE 0]
    BY <2>1
  <2> QED
    BY <2>2
<1>3. ASSUME NEW n \in N PROVE n + 1 \in N
  <2>1. PICK F : F = [s \in SUBSET S |-> IF s \in Upto(n) THEN Body(F, s) ELSE 0]
    OBVIOUS
  <2>0. PICK H : H = [s \in SUBSET S |-> IF s \in Upto(n + 1) THEN Body(F, s) ELSE 0]
    OBVIOUS
  <2>2. \A s \in SUBSET S : s # {} /\ s \in Upto(n + 1) => s \ {Pick(s)} \in Upto(n)
    BY <1>1, PickIn, FS_RemoveElement
  <2>3. \A s \in SUBSET S : s \in Upto(n) => s \in Upto(n + 1)
    BY <1>1
  <2>4. \A s \in Upto(n) : H[s] = F[s]
    BY <2>0, <2>1, <2>3
  <2>5. \A s \in Upto(n + 1) : Body(F, s) = Body(H, s)
    BY <2>2, <2>4
  <2>6. H = [s \in SUBSET S |-> IF s \in Upto(n + 1) THEN Body(H, s) ELSE 0]
    BY <2>0, <2>5
  <2>7. n + 1 \in Nat
    OBVIOUS
  <2> HIDE DEF Body, Upto
  <2> QED
    BY <2>6, <2>7, Zenon
<1>4. N = Nat
  <2> HIDE DEF N
  <2>1. N \in SUBSET Nat
    BY DEF N
  <2> QED
    BY <1>2, <1>3, <2>1, NatSet
<1>5. PICK F : F = [s \in SUBSET S |-> IF s \in Upto(Cardinality(S)) THEN Body(F, s) ELSE 0]
  BY <1>1, <1>4
<1>6. \A s \in SUBSET S : s \in Upto(Cardinality(S))
  BY FS_Subset
<1>7. FoldOf(F, f, S)
  BY <1>5, <1>6 DEF FoldOf
<1> QED
  BY <1>7

-----------------------------------------------------------------------------
(* Totals *)

\* The values of f on S, added up.
Total(f, S) == MapThenSumSet(LAMBDA x : f[x], S)

\* A total over a finite set is what a fold gives.
LEMMA TotalFolds ==
  ASSUME NEW S, IsFiniteSet(S), NEW f
  PROVE  \E F : FoldOf(F, f, S) /\ Total(f, S) = F[S]
<1> DEFINE iter == CHOOSE F : FoldOf(F, f, S)
<1>1. FoldOf(iter, f, S)
  BY FoldExists
<1>2. Total(f, S) = iter[S]
  BY DEF Total, MapThenSumSet, MapThenFoldSet, FoldOf, Pick
<1> QED
  BY <1>1, <1>2

\* The fold of a function into a set closed under addition stays in it.
LEMMA FoldType ==
  ASSUME NEW S, IsFiniteSet(S), NEW f, NEW F, FoldOf(F, f, S), \A x \in S : f[x] \in Int
  PROVE  \A U \in SUBSET S : F[U] \in Int
<1> DEFINE G == {U \in SUBSET S : F[U] \in Int}
<1>1. ASSUME NEW U \in SUBSET S, \A x \in U : U \ {x} \in G PROVE U \in G
  <2>1. CASE U = {}
    BY <2>1 DEF FoldOf
  <2>2. CASE U # {}
    <3>1. Pick(U) \in U
      BY <2>2, PickIn
    <3>2. F[U \ {Pick(U)}] \in Int /\ f[Pick(U)] \in Int
      BY <1>1, <3>1
    <3>3. F[U] = f[Pick(U)] + F[U \ {Pick(U)}]
      BY <2>2 DEF FoldOf
    <3> QED
      BY <3>2, <3>3
  <2> QED
    BY <2>1, <2>2
<1>2. \A U \in SUBSET S : U \in G
  <2>1. G \in SUBSET SUBSET S
    OBVIOUS
  <2> HIDE DEF G
  <2> QED
    BY <1>1, <2>1, TakeAway
<1> QED
  BY <1>2

\* Two folds of one function over a finite set agree on every subset.
LEMMA FoldUnique ==
  ASSUME NEW S, NEW T, NEW f, NEW g, NEW F, NEW H, FoldOf(F, f, S), FoldOf(H, g, T),
         NEW V, IsFiniteSet(V), V \subseteq S, V \subseteq T, \A x \in V : f[x] = g[x]
  PROVE  F[V] = H[V]
<1> DEFINE G == {U \in SUBSET V : F[U] = H[U]}
<1>1. ASSUME NEW U \in SUBSET V, \A x \in U : U \ {x} \in G PROVE U \in G
  <2>1. U \in SUBSET S /\ U \in SUBSET T
    OBVIOUS
  <2>2. CASE U = {}
    BY <2>1, <2>2 DEF FoldOf
  <2>3. CASE U # {}
    <3>1. Pick(U) \in U /\ f[Pick(U)] = g[Pick(U)]
      BY <2>3, PickIn
    <3>2. F[U \ {Pick(U)}] = H[U \ {Pick(U)}]
      BY <1>1, <3>1
    <3>3. F[U] = f[Pick(U)] + F[U \ {Pick(U)}] /\ H[U] = g[Pick(U)] + H[U \ {Pick(U)}]
      BY <2>1, <2>3 DEF FoldOf
    <3> QED
      BY <3>1, <3>2, <3>3
  <2> QED
    BY <2>2, <2>3
<1>2. V \in G
  <2> HIDE DEF G
  <2>1. G \in SUBSET SUBSET V
    BY DEF G
  <2> QED
    BY <1>1, <2>1, TakeAway
<1> QED
  BY <1>2

\* Any element may be the one a fold takes first.
LEMMA FoldRemove ==
  ASSUME NEW S, IsFiniteSet(S), NEW f, NEW F, FoldOf(F, f, S), \A x \in S : f[x] \in Int
  PROVE  \A U \in SUBSET S : \A x \in U : F[U] = f[x] + F[U \ {x}]
<1> DEFINE G == {U \in SUBSET S : \A x \in U : F[U] = f[x] + F[U \ {x}]}
<1>1. ASSUME NEW U \in SUBSET S, \A x \in U : U \ {x} \in G PROVE U \in G
  <2> SUFFICES ASSUME NEW x \in U PROVE F[U] = f[x] + F[U \ {x}]
    OBVIOUS
  <2> DEFINE p == Pick(U)
  <2>1. p \in U /\ F[U] = f[p] + F[U \ {p}]
    BY PickIn DEF FoldOf
  <2> HIDE DEF p
  <2>2. CASE x = p
    BY <2>1, <2>2
  <2>3. CASE x # p
    <3>1. x \in U \ {p} /\ p \in U \ {x}
      BY <2>1, <2>3
    <3>2. F[U \ {p}] = f[x] + F[(U \ {p}) \ {x}]
      BY <1>1, <2>1, <3>1
    <3>3. F[U \ {x}] = f[p] + F[(U \ {x}) \ {p}]
      BY <1>1, <3>1
    <3>4. (U \ {p}) \ {x} = (U \ {x}) \ {p}
      OBVIOUS
    <3>5. f[x] \in Int /\ f[p] \in Int /\ F[(U \ {p}) \ {x}] \in Int
      BY <2>1, FoldType
    <3> DEFINE rest == F[(U \ {p}) \ {x}]
    <3>6. F[U] = f[p] + (f[x] + rest) /\ F[U \ {x}] = f[p] + rest
      BY <2>1, <3>2, <3>3, <3>4
    <3>7. f[x] \in Int /\ f[p] \in Int /\ rest \in Int
      BY <3>5
    <3> HIDE DEF rest
    <3> QED
      BY <3>6, <3>7
  <2> QED
    BY <2>2, <2>3
<1>2. \A U \in SUBSET S : U \in G
  <2>1. G \in SUBSET SUBSET S
    OBVIOUS
  <2> HIDE DEF G
  <2> QED
    BY <1>1, <2>1, TakeAway
<1> QED
  BY <1>2

-----------------------------------------------------------------------------

\* Nothing adds up to zero.
LEMMA TotalEmpty ==
  ASSUME NEW f
  PROVE  Total(f, {}) = 0
<1>1. PICK F : FoldOf(F, f, {}) /\ Total(f, {}) = F[{}]
  BY TotalFolds, FS_EmptySet
<1> QED
  BY <1>1 DEF FoldOf

\* A total depends only on the values over the set.
LEMMA TotalSame ==
  ASSUME NEW S, IsFiniteSet(S), NEW f, NEW g, \A x \in S : f[x] = g[x]
  PROVE  Total(f, S) = Total(g, S)
<1>1. PICK F : FoldOf(F, f, S) /\ Total(f, S) = F[S]
  BY TotalFolds
<1>2. PICK H : FoldOf(H, g, S) /\ Total(g, S) = H[S]
  BY TotalFolds
<1> QED
  BY <1>1, <1>2, FoldUnique

\* The total is the value of any one element and the total of the rest.
LEMMA TotalRemove ==
  ASSUME NEW S, IsFiniteSet(S), NEW f, \A x \in S : f[x] \in Int, NEW x \in S
  PROVE  Total(f, S) = f[x] + Total(f, S \ {x})
<1>0. IsFiniteSet(S \ {x})
  BY FS_RemoveElement
<1>1. PICK F : FoldOf(F, f, S) /\ Total(f, S) = F[S]
  BY TotalFolds
<1>2. PICK H : FoldOf(H, f, S \ {x}) /\ Total(f, S \ {x}) = H[S \ {x}]
  BY <1>0, TotalFolds
<1>3. F[S \ {x}] = H[S \ {x}]
  BY <1>0, <1>1, <1>2, FoldUnique
<1>4. F[S] = f[x] + F[S \ {x}]
  BY <1>1, FoldRemove
<1> QED
  BY <1>1, <1>2, <1>3, <1>4

\* Integers add up to an integer.
LEMMA TotalInt ==
  ASSUME NEW S, IsFiniteSet(S), NEW f, \A x \in S : f[x] \in Int
  PROVE  Total(f, S) \in Int
<1>1. PICK F : FoldOf(F, f, S) /\ Total(f, S) = F[S]
  BY TotalFolds
<1> QED
  BY <1>1, FoldType

\* An element that joins a set adds its value.
LEMMA TotalAdd ==
  ASSUME NEW S, IsFiniteSet(S), NEW x, x \notin S, NEW f,
         \A y \in S \cup {x} : f[y] \in Int
  PROVE  Total(f, S \cup {x}) = Total(f, S) + f[x]
<1>1. IsFiniteSet(S \cup {x}) /\ (S \cup {x}) \ {x} = S
  BY FS_AddElement
<1>2. Total(f, S \cup {x}) = f[x] + Total(f, S)
  BY <1>1, TotalRemove
<1> QED
  BY <1>2, TotalInt

\* Element by element, f is at most g.
LEMMA TotalMonotone ==
  ASSUME NEW S, IsFiniteSet(S), NEW f, NEW g,
         \A x \in S : f[x] \in Int /\ g[x] \in Int /\ f[x] <= g[x]
  PROVE  Total(f, S) <= Total(g, S)
<1> DEFINE G == {U \in SUBSET S : Total(f, U) <= Total(g, U)}
<1>1. ASSUME NEW U \in SUBSET S, \A x \in U : U \ {x} \in G PROVE U \in G
  <2>1. CASE U = {}
    BY <2>1, TotalEmpty
  <2>2. CASE U # {}
    <3>1. PICK x \in U : TRUE
      BY <2>2
    <3>2. IsFiniteSet(U) /\ IsFiniteSet(U \ {x})
      BY FS_Subset, FS_RemoveElement
    <3>3. Total(f, U) = f[x] + Total(f, U \ {x}) /\ Total(f, U \ {x}) \in Int
      BY <3>1, <3>2, TotalRemove, TotalInt
    <3>4. Total(g, U) = g[x] + Total(g, U \ {x}) /\ Total(g, U \ {x}) \in Int
      BY <3>1, <3>2, TotalRemove, TotalInt
    <3> QED
      BY <1>1, <3>1, <3>3, <3>4
  <2> QED
    BY <2>1, <2>2
<1>2. \A U \in SUBSET S : U \in G
  <2>1. G \in SUBSET SUBSET S
    OBVIOUS
  <2> HIDE DEF G
  <2> QED
    BY <1>1, <2>1, TakeAway
<1> QED
  BY <1>2

\* The totals of two functions add up element by element.
LEMMA TotalPlus ==
  ASSUME NEW S, IsFiniteSet(S), NEW f, NEW g, NEW h,
         \A x \in S : f[x] \in Int /\ g[x] \in Int /\ h[x] = f[x] + g[x]
  PROVE  Total(h, S) = Total(f, S) + Total(g, S)
<1> DEFINE G == {U \in SUBSET S : Total(h, U) = Total(f, U) + Total(g, U)}
<1>1. ASSUME NEW U \in SUBSET S, \A x \in U : U \ {x} \in G PROVE U \in G
  <2>1. CASE U = {}
    BY <2>1, TotalEmpty
  <2>2. CASE U # {}
    <3>1. PICK x \in U : TRUE
      BY <2>2
    <3>2. IsFiniteSet(U) /\ IsFiniteSet(U \ {x})
      BY FS_Subset, FS_RemoveElement
    <3>3. Total(f, U) = f[x] + Total(f, U \ {x}) /\ Total(f, U \ {x}) \in Int
      BY <3>1, <3>2, TotalRemove, TotalInt
    <3>4. Total(g, U) = g[x] + Total(g, U \ {x}) /\ Total(g, U \ {x}) \in Int
      BY <3>1, <3>2, TotalRemove, TotalInt
    <3>5. Total(h, U) = h[x] + Total(h, U \ {x})
      <4>1. \A y \in U : h[y] \in Int
        OBVIOUS
      <4> QED
        BY <3>1, <3>2, <4>1, TotalRemove
    <3>6. Total(h, U \ {x}) = Total(f, U \ {x}) + Total(g, U \ {x})
      BY <1>1, <3>1
    <3>7. f[x] \in Int /\ g[x] \in Int /\ h[x] = f[x] + g[x]
      BY <3>1
    <3> QED
      BY <3>3, <3>4, <3>5, <3>6, <3>7
  <2> QED
    BY <2>1, <2>2
<1>2. \A U \in SUBSET S : U \in G
  <2>1. G \in SUBSET SUBSET S
    OBVIOUS
  <2> HIDE DEF G
  <2> QED
    BY <1>1, <2>1, TakeAway
<1> QED
  BY <1>2

\* Disjoint sets.
LEMMA TotalUnion ==
  ASSUME NEW S, IsFiniteSet(S), NEW T, IsFiniteSet(T), S \cap T = {}, NEW f,
         \A x \in S \cup T : f[x] \in Int
  PROVE  Total(f, S \cup T) = Total(f, S) + Total(f, T)
<1> DEFINE G == {U \in SUBSET S : Total(f, U \cup T) = Total(f, U) + Total(f, T)}
<1>1. ASSUME NEW U \in SUBSET S, \A x \in U : U \ {x} \in G PROVE U \in G
  <2>0. Total(f, T) \in Int
    BY TotalInt
  <2>1. CASE U = {}
    BY <2>0, <2>1, TotalEmpty
  <2>2. CASE U # {}
    <3>1. PICK x \in U : TRUE
      BY <2>2
    <3>2. IsFiniteSet(U) /\ IsFiniteSet(U \ {x}) /\ IsFiniteSet(U \cup T)
      BY FS_Subset, FS_RemoveElement, FS_Union
    <3>3. Total(f, U) = f[x] + Total(f, U \ {x}) /\ Total(f, U \ {x}) \in Int
      BY <3>1, <3>2, TotalRemove, TotalInt
    <3>4. (U \cup T) \ {x} = (U \ {x}) \cup T
      BY <3>1
    <3>5. Total(f, U \cup T) = f[x] + Total(f, (U \cup T) \ {x})
      BY <3>1, <3>2, TotalRemove
    <3>6. f[x] \in Int /\ Total(f, (U \ {x}) \cup T) = Total(f, U \ {x}) + Total(f, T)
      BY <1>1, <3>1
    <3> DEFINE rest == Total(f, U \ {x})
    <3>7. /\ Total(f, U \cup T) = f[x] + (rest + Total(f, T))
          /\ Total(f, U) = f[x] + rest /\ rest \in Int
      BY <3>3, <3>4, <3>5, <3>6
    <3> HIDE DEF rest
    <3>8. Total(f, U \cup T) = Total(f, U) + Total(f, T)
      BY <2>0, <3>6, <3>7
    <3> QED
      BY <3>8
  <2> QED
    BY <2>1, <2>2
<1>2. \A U \in SUBSET S : U \in G
  <2>1. G \in SUBSET SUBSET S
    OBVIOUS
  <2> HIDE DEF G
  <2> QED
    BY <1>1, <2>1, TakeAway
<1> QED
  BY <1>2

\* Naturals add up to a natural.
LEMMA TotalNat ==
  ASSUME NEW S, IsFiniteSet(S), NEW f, \A x \in S : f[x] \in Nat
  PROVE  Total(f, S) \in Nat
<1> DEFINE zero == [x \in S |-> 0]
<1>1. \A x \in S : zero[x] \in Int /\ f[x] \in Int /\ zero[x] <= f[x]
  OBVIOUS
<1>2. \A x \in S : zero[x] = zero[x] + zero[x]
  OBVIOUS
<1> HIDE DEF zero
<1>3. Total(zero, S) \in Int /\ Total(f, S) \in Int
  BY <1>1, TotalInt
<1>4. Total(zero, S) = Total(zero, S) + Total(zero, S)
  BY <1>1, <1>2, TotalPlus
<1>5. Total(zero, S) <= Total(f, S)
  BY <1>1, TotalMonotone
<1> QED
  BY <1>3, <1>4, <1>5

\* The totals of the classes of a partition add up to the total of the whole.
LEMMA TotalByClass ==
  ASSUME NEW Y, IsFiniteSet(Y), NEW S, IsFiniteSet(S), NEW f, \A s \in S : f[s] \in Int,
         NEW key, \A s \in S : key[s] \in Y,
         NEW class, \A y \in Y : class[y] = {s \in S : key[s] = y},
         NEW h, \A y \in Y : h[y] = Total(f, class[y])
  PROVE  Total(h, Y) = Total(f, S)
<1> DEFINE At(U) == {s \in S : key[s] \in U}
           G == {U \in SUBSET Y : Total(h, U) = Total(f, At(U))}
<1>1. ASSUME NEW U \in SUBSET Y, \A y \in U : U \ {y} \in G PROVE U \in G
  <2>1. CASE U = {}
    <3>1. At(U) = {}
      BY <2>1
    <3> QED
      BY <2>1, <3>1, TotalEmpty
  <2>2. CASE U # {}
    <3>1. PICK y \in U : TRUE
      BY <2>2
    <3> DEFINE K == {s \in S : key[s] = y}
               R == At(U \ {y})
    <3>2. K \cup R = At(U) /\ K \cap R = {} /\ K \subseteq S /\ R \subseteq S
      OBVIOUS
    <3> HIDE DEF K, R
    <3>3. IsFiniteSet(K) /\ IsFiniteSet(R) /\ \A s \in K \cup R : f[s] \in Int
      BY <3>2, FS_Subset
    <3>4. Total(f, K \cup R) = Total(f, K) + Total(f, R)
      BY <3>2, <3>3, TotalUnion
    <3>5. h[y] = Total(f, K) /\ \A x \in U : h[x] \in Int
      <4>1. h[y] = Total(f, K)
        BY DEF K
      <4>2. ASSUME NEW x \in U PROVE h[x] \in Int
        <5>1. IsFiniteSet(class[x]) /\ \A s \in class[x] : f[s] \in Int
          BY FS_Subset
        <5>2. Total(f, class[x]) \in Int
          BY <5>1, TotalInt
        <5> QED
          BY <5>2
      <4> QED
        BY <4>1, <4>2
    <3>6. IsFiniteSet(U)
      BY FS_Subset
    <3>7. Total(h, U) = h[y] + Total(h, U \ {y})
      BY <3>5, <3>6, TotalRemove
    <3>8. Total(h, U \ {y}) = Total(f, R)
      BY <1>1 DEF R
    <3> QED
      BY <3>2, <3>4, <3>5, <3>7, <3>8
  <2> QED
    BY <2>1, <2>2
<1> HIDE DEF G
<1>2. G \in SUBSET SUBSET Y
  BY DEF G
<1>3. Y \in G
  BY <1>1, <1>2, TakeAway
<1>4. At(Y) = S
  OBVIOUS
<1> QED
  BY <1>3, <1>4 DEF G

=============================================================================
