-------------------------------- MODULE Sums --------------------------------
(***************************************************************************)
(* Facts about SumFunctionOnSet, the sum of a function over a finite set:  *)
(* what SUM(ItemCount) of the procedures in db/GameDatabase.sql is made of. *)
(*                                                                         *)
(* The induction is on the subsets of the set that is summed over: a set   *)
(* of subsets that is not empty has a smallest member (MinimalSubset), so  *)
(* a fact that has no smallest counterexample has none.                    *)
(***************************************************************************)
EXTENDS Integers, FiniteSets, Functions, FiniteSetTheorems, TLAPS

\* The recursive function that SumFunctionOnSet applies to S.
SumIter(f, S) ==
  CHOOSE iter : iter = [T \in SUBSET S |->
                          IF T = {} THEN 0
                          ELSE f[CHOOSE x \in T : TRUE] + iter[T \ {CHOOSE x \in T : TRUE}]]

\* Among the subsets of a finite set, every non-empty collection has a member
\* that contains no other.
LEMMA MinimalSubset ==
  ASSUME NEW S, IsFiniteSet(S), NEW X \in SUBSET SUBSET S, X # {}
  PROVE  \E T \in X : \A U \in X : U \subseteq T => U = T
  <1>1. IsWellFoundedOn(StrictSubsetOrdering(S), SUBSET S)
    BY FS_StrictSubsetOrderingWellFounded, FS_FiniteSubsetsOfFinite
  <1>2. PICK T \in X : \A U \in X : ~ (<<U, T>> \in StrictSubsetOrdering(S))
    BY <1>1, WFMin
  <1>3. ASSUME NEW U \in X, U \subseteq T
        PROVE  U = T
    BY <1>2, <1>3 DEF StrictSubsetOrdering
  <1> QED
    BY <1>3

\* SumFunctionOnSet applies SumIter.
LEMMA SumIsIter ==
  ASSUME NEW f, NEW S
  PROVE  SumFunctionOnSet(f, S) = SumIter(f, S)[S]
  BY DEF SumFunctionOnSet, FoldFunctionOnSet, MapThenFoldSet, SumIter

\* The member of T that comes first.
First(T) == CHOOSE x \in T : TRUE

\* h satisfies the recursion on the subsets of S that have at most n members.
SumsUpTo(h, f, S, n) ==
  h = [T \in {U \in SUBSET S : Cardinality(U) <= n} |->
         IF T = {} THEN 0 ELSE f[First(T)] + h[T \ {First(T)}]]

\* The least natural number with a property, for a property given as a set.
LEMMA LeastNumber ==
  ASSUME NEW m \in Nat, NEW N \in SUBSET (0 .. m), N # {}
  PROVE  \E n \in N : \A k \in N : n <= k
  <1> DEFINE X == {1 .. n : n \in N}
  <1>1. PICK T \in X : \A U \in X : U \subseteq T => U = T
    <2> DEFINE M == 1 .. m
    <2>1. IsFiniteSet(M)
      BY FS_Interval
    <2>2. ASSUME NEW n \in N
          PROVE  1 .. n \subseteq M
      BY n \in 0 .. m
    <2>3. X \in SUBSET SUBSET M
      BY <2>2
    <2>4. X # {}
      OBVIOUS
    <2> HIDE DEF X, M
    <2> QED BY <2>1, <2>3, <2>4, MinimalSubset
  <1>3. PICK n \in N : T = 1 .. n
    OBVIOUS
  <1>4. ASSUME NEW k \in N, k < n
        PROVE  FALSE
    <2>1. 1 .. k \in X /\ 1 .. k \subseteq 1 .. n /\ 1 .. k # 1 .. n
      <3>1. n \in 1 .. n /\ n \notin 1 .. k
        BY <1>4
      <3> QED BY <1>4, <3>1
    <2> QED BY <1>1, <1>3, <2>1
  <1> QED
    BY <1>4

\* Induction on numbers, for a property given as the set Good.
LEMMA NumberInduction ==
  ASSUME NEW m \in Nat, NEW Good, 0 \in Good,
         \A n \in 1 .. m : n - 1 \in Good => n \in Good
  PROVE  \A n \in 0 .. m : n \in Good
  <1> DEFINE Bad == {n \in 0 .. m : n \notin Good}
  <1> SUFFICES ASSUME Bad # {} PROVE FALSE
    OBVIOUS
  <1>1. PICK n \in Bad : \A k \in Bad : n <= k
    <2>1. Bad \in SUBSET (0 .. m)
      OBVIOUS
    <2> HIDE DEF Bad
    <2> QED BY <2>1, LeastNumber
  <1>2. n \in 1 .. m /\ n \notin Good
    OBVIOUS
  <1>3. n - 1 \in 0 .. m /\ n - 1 < n
    BY <1>2
  <1>4. n - 1 \in Good
    BY <1>1, <1>3
  <1> QED
    BY <1>2, <1>4

\* The recursion has a solution up to every size.
LEMMA SumsExist ==
  ASSUME NEW f, NEW S, IsFiniteSet(S), NEW m \in Nat
  PROVE  \E h : SumsUpTo(h, f, S, m)
  <1> DEFINE Upto(n) == {U \in SUBSET S : Cardinality(U) <= n}
  <1> DEFINE Bad == {n \in 0 .. m : ~ \E h : SumsUpTo(h, f, S, n)}
  <1> SUFFICES ASSUME Bad # {} PROVE FALSE
    OBVIOUS
  <1>1. PICK n \in Bad : \A k \in Bad : n <= k
    <2>1. Bad \in SUBSET (0 .. m)
      OBVIOUS
    <2> HIDE DEF Bad
    <2> QED BY <2>1, LeastNumber
  <1>card. \A U \in SUBSET S : IsFiniteSet(U) /\ Cardinality(U) \in Nat
                              /\ (Cardinality(U) = 0 <=> U = {})
    BY FS_Subset, FS_CardinalityType, FS_EmptySet
  <1>2. CASE n = 0
    <2>1. \A T \in Upto(0) : T = {}
      BY <1>card
    <2>2. SumsUpTo([T \in Upto(0) |-> 0], f, S, 0)
      BY <2>1 DEF SumsUpTo
    <2> QED BY <1>2, <2>2
  <1>3. CASE n # 0
    <2>0. n - 1 \in 0 .. m /\ n - 1 < n /\ n - 1 \notin Bad
      BY <1>1, <1>3
    <2>1. PICK h : SumsUpTo(h, f, S, n - 1)
      BY <2>0
    <2> DEFINE g == [T \in Upto(n) |-> IF T = {} THEN 0 ELSE f[First(T)] + h[T \ {First(T)}]]
    <2>2. \A T \in Upto(n - 1) : g[T] = h[T]
      <3>1. Upto(n - 1) \subseteq Upto(n)
        BY <1>card, <2>0
      <3> QED BY <2>1, <3>1 DEF SumsUpTo
    <2>3. \A T \in Upto(n) : T # {} => T \ {First(T)} \in Upto(n - 1)
      <3> SUFFICES ASSUME NEW T \in Upto(n), T # {}
                   PROVE  T \ {First(T)} \in Upto(n - 1)
        OBVIOUS
      <3>1. First(T) \in T
        BY DEF First
      <3>2. Cardinality(T \ {First(T)}) = Cardinality(T) - 1
        BY <3>1, <1>card, FS_RemoveElement
      <3> QED BY <3>2, <1>card
    <2>4. g = [T \in Upto(n) |-> IF T = {} THEN 0 ELSE f[First(T)] + g[T \ {First(T)}]]
      BY <2>2, <2>3
    <2>5. SumsUpTo(g, f, S, n)
      BY <2>4 DEF SumsUpTo
    <2> QED BY <2>5
  <1> QED
    BY <1>2, <1>3

\* SumIter satisfies its recursion.
LEMMA SumIterEquation ==
  ASSUME NEW f, NEW S, IsFiniteSet(S)
  PROVE  \A T \in SUBSET S :
            SumIter(f, S)[T] = IF T = {} THEN 0
                               ELSE f[First(T)] + SumIter(f, S)[T \ {First(T)}]
  <1> Cardinality(S) \in Nat /\ \A U \in SUBSET S : Cardinality(U) <= Cardinality(S)
    BY FS_Subset, FS_CardinalityType
  <1>1. PICK h : SumsUpTo(h, f, S, Cardinality(S))
    BY SumsExist
  <1>2. {U \in SUBSET S : Cardinality(U) <= Cardinality(S)} = SUBSET S
    OBVIOUS
  <1>3. h = [T \in SUBSET S |-> IF T = {} THEN 0 ELSE f[First(T)] + h[T \ {First(T)}]]
    BY <1>1, <1>2 DEF SumsUpTo
  <1>4. SumIter(f, S) = [T \in SUBSET S |-> IF T = {} THEN 0
                           ELSE f[First(T)] + SumIter(f, S)[T \ {First(T)}]]
    BY <1>3 DEF SumIter, First
  <1> HIDE DEF SumIter
  <1> QED
    BY <1>4

\* F gives the sum of f over every subset of S.
IsSums(F, f, S) ==
  /\ F[{}] = 0
  /\ \A T \in SUBSET S : T # {} => F[T] = f[First(T)] + F[T \ {First(T)}]

\* There is such a function, and SumFunctionOnSet takes its value at S.
LEMMA SumsOf ==
  ASSUME NEW f, NEW S, IsFiniteSet(S)
  PROVE  \E F : IsSums(F, f, S) /\ F[S] = SumFunctionOnSet(f, S)
  <1>1. IsSums(SumIter(f, S), f, S)
    <2> DEFINE F == SumIter(f, S)
    <2>1. \A T \in SUBSET S : F[T] = IF T = {} THEN 0 ELSE f[First(T)] + F[T \ {First(T)}]
      BY SumIterEquation
    <2> HIDE DEF F
    <2>2. F[{}] = 0
      BY <2>1
    <2>3. \A T \in SUBSET S : T # {} => F[T] = f[First(T)] + F[T \ {First(T)}]
      BY <2>1
    <2>4. IsSums(F, f, S)
      BY <2>2, <2>3 DEF IsSums
    <2> QED BY <2>4 DEF F
  <1> QED
    BY <1>1, SumIsIter

\* What the induction leaves of a smallest counterexample.
LEMMA FirstRemoved ==
  ASSUME NEW S, NEW T \in SUBSET S, T # {}
  PROVE  /\ First(T) \in T /\ First(T) \in S
         /\ T \ {First(T)} \in SUBSET S
         /\ T \ {First(T)} \subseteq T /\ T \ {First(T)} # T
  <1>1. First(T) \in T
    BY DEF First
  <1> QED
    BY <1>1

\* Induction on the subsets of S, for a property given as the set Good.
LEMMA SubsetInduction ==
  ASSUME NEW S, IsFiniteSet(S), NEW Good, {} \in Good,
         \A T \in SUBSET S : T # {} /\ T \ {First(T)} \in Good => T \in Good
  PROVE  S \in Good
  <1> DEFINE Bad == {T \in SUBSET S : T \notin Good}
  <1> SUFFICES ASSUME Bad # {} PROVE FALSE
    OBVIOUS
  <1>1. PICK T \in Bad : \A U \in Bad : U \subseteq T => U = T
    <2> Bad \in SUBSET SUBSET S
      OBVIOUS
    <2> HIDE DEF Bad
    <2> QED BY MinimalSubset
  <1>2. T \in SUBSET S /\ T # {} /\ T \notin Good
    OBVIOUS
  <1>3. T \ {First(T)} \in SUBSET S /\ T \ {First(T)} \subseteq T /\ T \ {First(T)} # T
    BY <1>2, FirstRemoved
  <1>4. T \ {First(T)} \in Good
    BY <1>1, <1>3
  <1> QED
    BY <1>2, <1>4

-----------------------------------------------------------------------------

\* The sum of integers is one.
LEMMA SumInt ==
  ASSUME NEW S, IsFiniteSet(S), NEW f, \A x \in S : f[x] \in Int
  PROVE  SumFunctionOnSet(f, S) \in Int
  <1>1. PICK F : IsSums(F, f, S) /\ F[S] = SumFunctionOnSet(f, S)
    BY SumsOf
  <1> DEFINE Good == {T \in SUBSET S : F[T] \in Int}
  <1>2. {} \in Good
    BY <1>1 DEF IsSums
  <1>3. ASSUME NEW T \in SUBSET S, T # {}, T \ {First(T)} \in Good
        PROVE  T \in Good
    <2>1. F[T] = f[First(T)] + F[T \ {First(T)}]
      BY <1>1, <1>3 DEF IsSums
    <2>2. f[First(T)] \in Int
      BY <1>3, FirstRemoved
    <2> QED BY <1>3, <2>1, <2>2
  <1>4. S \in Good
    <2> HIDE DEF Good
    <2> QED BY <1>2, <1>3, SubsetInduction
  <1> QED
    BY <1>1, <1>4

\* The sum of sums.
LEMMA SumPlus ==
  ASSUME NEW S, IsFiniteSet(S), NEW f, NEW e, NEW h,
         \A x \in S : f[x] \in Int /\ e[x] \in Int /\ h[x] = f[x] + e[x]
  PROVE  SumFunctionOnSet(h, S) = SumFunctionOnSet(f, S) + SumFunctionOnSet(e, S)
  <1>1. PICK F : IsSums(F, f, S) /\ F[S] = SumFunctionOnSet(f, S)
    BY SumsOf
  <1>2. PICK E : IsSums(E, e, S) /\ E[S] = SumFunctionOnSet(e, S)
    BY SumsOf
  <1>3. PICK H : IsSums(H, h, S) /\ H[S] = SumFunctionOnSet(h, S)
    BY SumsOf
  <1> DEFINE Good == {T \in SUBSET S : F[T] \in Int /\ E[T] \in Int /\ H[T] = F[T] + E[T]}
  <1>4. {} \in Good
    BY <1>1, <1>2, <1>3 DEF IsSums
  <1>5. ASSUME NEW T \in SUBSET S, T # {}, T \ {First(T)} \in Good
        PROVE  T \in Good
    <2> DEFINE x == First(T)
               U == T \ {First(T)}
    <2>1. F[T] = f[x] + F[U] /\ E[T] = e[x] + E[U] /\ H[T] = h[x] + H[U]
      BY <1>1, <1>2, <1>3, <1>5 DEF IsSums
    <2>2. f[x] \in Int /\ e[x] \in Int /\ h[x] = f[x] + e[x]
      BY <1>5, FirstRemoved
    <2>3. F[U] \in Int /\ E[U] \in Int /\ H[U] = F[U] + E[U]
      BY <1>5
    <2> HIDE DEF x, U
    <2>4. F[T] \in Int /\ E[T] \in Int /\ H[T] = F[T] + E[T]
      BY <2>1, <2>2, <2>3
    <2> QED BY <2>4
  <1>6. S \in Good
    <2> HIDE DEF Good
    <2> QED BY <1>4, <1>5, SubsetInduction
  <1> QED
    BY <1>1, <1>2, <1>3, <1>6

\* The sum of a function that is 0 except at one place.
LEMMA SumSingle ==
  ASSUME NEW S, IsFiniteSet(S), NEW f, NEW y, NEW k \in Int,
         \A x \in S : f[x] = IF x = y THEN k ELSE 0
  PROVE  SumFunctionOnSet(f, S) = IF y \in S THEN k ELSE 0
  <1>1. PICK F : IsSums(F, f, S) /\ F[S] = SumFunctionOnSet(f, S)
    BY SumsOf
  <1> DEFINE Good == {T \in SUBSET S : F[T] = IF y \in T THEN k ELSE 0}
  <1>2. {} \in Good
    BY <1>1 DEF IsSums
  <1>3. ASSUME NEW T \in SUBSET S, T # {}, T \ {First(T)} \in Good
        PROVE  T \in Good
    <2> DEFINE x == First(T)
               U == T \ {First(T)}
    <2>1. F[T] = f[x] + F[U] /\ x \in T /\ f[x] = IF x = y THEN k ELSE 0
      BY <1>1, <1>3, FirstRemoved DEF IsSums
    <2>2. F[U] = IF y \in U THEN k ELSE 0
      BY <1>3
    <2>3. y \in U <=> y \in T /\ y # x
      OBVIOUS
    <2> HIDE DEF x, U
    <2>4. F[T] = IF y \in T THEN k ELSE 0
      BY <2>1, <2>2, <2>3
    <2> QED BY <2>4
  <1>4. S \in Good
    <2> HIDE DEF Good
    <2> QED BY <1>2, <1>3, SubsetInduction
  <1> QED
    BY <1>1, <1>4

\* Changing the function at one place of S changes the sum by as much.
LEMMA SumChange ==
  ASSUME NEW S, IsFiniteSet(S), NEW f, NEW h, NEW y, NEW k \in Int,
         \A x \in S : f[x] \in Int /\ h[x] = IF x = y THEN f[x] + k ELSE f[x]
  PROVE  SumFunctionOnSet(h, S) = SumFunctionOnSet(f, S) + IF y \in S THEN k ELSE 0
  <1> DEFINE e == [x \in S |-> IF x = y THEN k ELSE 0]
  <1>1. SumFunctionOnSet(e, S) = IF y \in S THEN k ELSE 0
    BY SumSingle
  <1>2. \A x \in S : f[x] \in Int /\ e[x] \in Int /\ h[x] = f[x] + e[x]
    OBVIOUS
  <1> HIDE DEF e
  <1>3. SumFunctionOnSet(h, S) = SumFunctionOnSet(f, S) + SumFunctionOnSet(e, S)
    BY <1>2, SumPlus
  <1> QED
    BY <1>1, <1>3

\* The sum depends on the values in S only.
LEMMA SumSame ==
  ASSUME NEW S, IsFiniteSet(S), NEW f, NEW h, \A x \in S : h[x] = f[x]
  PROVE  SumFunctionOnSet(h, S) = SumFunctionOnSet(f, S)
  <1>1. PICK F : IsSums(F, f, S) /\ F[S] = SumFunctionOnSet(f, S)
    BY SumsOf
  <1>2. PICK H : IsSums(H, h, S) /\ H[S] = SumFunctionOnSet(h, S)
    BY SumsOf
  <1> DEFINE Good == {T \in SUBSET S : H[T] = F[T]}
  <1>3. {} \in Good
    BY <1>1, <1>2 DEF IsSums
  <1>4. ASSUME NEW T \in SUBSET S, T # {}, T \ {First(T)} \in Good
        PROVE  T \in Good
    <2>1. F[T] = f[First(T)] + F[T \ {First(T)}] /\ H[T] = h[First(T)] + H[T \ {First(T)}]
      BY <1>1, <1>2, <1>4 DEF IsSums
    <2>2. h[First(T)] = f[First(T)]
      BY <1>4, FirstRemoved
    <2> QED BY <1>4, <2>1, <2>2
  <1>5. S \in Good
    <2> HIDE DEF Good
    <2> QED BY <1>3, <1>4, SubsetInduction
  <1> QED
    BY <1>1, <1>2, <1>5

\* A sum of natural numbers is one, and none of them exceeds it.
LEMMA SumNat ==
  ASSUME NEW S, IsFiniteSet(S), NEW f, \A x \in S : f[x] \in Nat
  PROVE  /\ SumFunctionOnSet(f, S) \in Nat
         /\ \A x \in S : f[x] <= SumFunctionOnSet(f, S)
  <1>1. PICK F : IsSums(F, f, S) /\ F[S] = SumFunctionOnSet(f, S)
    BY SumsOf
  <1> DEFINE Good == {T \in SUBSET S : F[T] \in Nat /\ \A x \in T : f[x] <= F[T]}
  <1>2. {} \in Good
    BY <1>1 DEF IsSums
  <1>3. ASSUME NEW T \in SUBSET S, T # {}, T \ {First(T)} \in Good
        PROVE  T \in Good
    <2> DEFINE y == First(T)
               U == T \ {First(T)}
    <2>1. F[T] = f[y] + F[U] /\ f[y] \in Nat
      BY <1>1, <1>3, FirstRemoved DEF IsSums
    <2>2. F[U] \in Nat /\ \A x \in U : f[x] \in Nat /\ f[x] <= F[U]
      BY <1>3
    <2>3. \A x \in T : x \in U \/ x = y
      OBVIOUS
    <2> HIDE DEF y, U
    <2>4. F[T] \in Nat /\ f[y] <= F[T] /\ F[U] <= F[T]
      BY <2>1, <2>2
    <2>5. ASSUME NEW x \in T
          PROVE  f[x] <= F[T]
      BY <2>2, <2>3, <2>4
    <2> QED BY <2>4, <2>5
  <1>4. S \in Good
    <2> HIDE DEF Good
    <2> QED BY <1>2, <1>3, SubsetInduction
  <1> QED
    BY <1>1, <1>4

\* The sum of a constant.
LEMMA SumConst ==
  ASSUME NEW S, IsFiniteSet(S), NEW k \in Int, NEW f, \A x \in S : f[x] = k
  PROVE  SumFunctionOnSet(f, S) = k * Cardinality(S)
  <1>1. PICK F : IsSums(F, f, S) /\ F[S] = SumFunctionOnSet(f, S)
    BY SumsOf
  <1> DEFINE Good == {T \in SUBSET S : F[T] = k * Cardinality(T)}
  <1>2. {} \in Good
    BY <1>1, FS_EmptySet DEF IsSums
  <1>3. ASSUME NEW T \in SUBSET S, T # {}, T \ {First(T)} \in Good
        PROVE  T \in Good
    <2> DEFINE U == T \ {First(T)}
               n == Cardinality(U)
    <2>1. F[T] = f[First(T)] + F[U]
      BY <1>1, <1>3 DEF IsSums
    <2>2. f[First(T)] = k /\ F[U] = k * n
      BY <1>3, FirstRemoved
    <2>3. IsFiniteSet(T) /\ First(T) \in T
      BY <1>3, FS_Subset, FirstRemoved
    <2>4. Cardinality(T) \in Nat /\ n \in Nat /\ n = Cardinality(T) - 1
      BY <2>3, FS_RemoveElement, FS_CardinalityType
    <2> HIDE DEF U, n
    <2>5. Cardinality(T) = n + 1
      BY <2>4
    <2>6. k + k * n = k * (n + 1)
      BY <2>4
    <2>7. F[T] = k * Cardinality(T)
      BY <2>1, <2>2, <2>5, <2>6
    <2> QED BY <2>7
  <1>4. S \in Good
    <2> HIDE DEF Good
    <2> QED BY <1>2, <1>3, SubsetInduction
  <1> QED
    BY <1>1, <1>4

\* A sum of numbers that are at most k.
LEMMA SumAtMost ==
  ASSUME NEW S, IsFiniteSet(S), NEW k \in Int, NEW f, \A x \in S : f[x] \in Int /\ f[x] <= k
  PROVE  SumFunctionOnSet(f, S) <= k * Cardinality(S)
  <1> DEFINE e == [x \in S |-> k - f[x]]
             h == [x \in S |-> k]
  <1>1. \A x \in S : e[x] \in Nat /\ f[x] \in Int /\ e[x] \in Int /\ h[x] = f[x] + e[x]
    OBVIOUS
  <1>2. \A x \in S : h[x] = k
    OBVIOUS
  <1> HIDE DEF e, h
  <1>3. SumFunctionOnSet(h, S) = SumFunctionOnSet(f, S) + SumFunctionOnSet(e, S)
    BY <1>1, SumPlus
  <1>4. SumFunctionOnSet(h, S) = k * Cardinality(S)
    BY <1>2, SumConst
  <1>5. SumFunctionOnSet(e, S) \in Nat /\ SumFunctionOnSet(f, S) \in Int
    BY <1>1, SumNat, SumInt
  <1> DEFINE c == k * Cardinality(S)
  <1> HIDE DEF c
  <1> QED
    BY <1>3, <1>4, <1>5 DEF c
=============================================================================
