---------------------------- MODULE MetricsProofs ----------------------------
(***************************************************************************)
(* What Metrics promises for every number of servers, visitors, pages and  *)
(* ticks, in six parts: its variables keep their shape, a visitor's hash   *)
(* never outlives its day and the visitors of a closed day never change;   *)
(* memory is bounded; every count is kept once; if a batch is written      *)
(* within the grace, no flush reaches a closed day, and a closed day has   *)
(* each of its visitors once; and what is read of a period agrees.         *)
(*                                                                         *)
(* The argument of the first: whatever a batch recognised, it also counted *)
(* a view of (Backed), so the transaction that writes a hash has just      *)
(* written the row of its day; that row is open, or the hash is refused;   *)
(* and the transaction that closes a row deletes every hash of an ended    *)
(* day.  Each other part begins with its own.                              *)
(***************************************************************************)
EXTENDS Metrics, FiniteSetTheorems, TLAPS

\* Every hash in a batch comes with a view of the same day and route.
Backed(b) == \A v \in b.visitors : b.views[v.day][v.route] > 0

Sound(b) == b \in Batch /\ Backed(b) /\ IsFiniteSet(b.visitors)

\* The inductive invariant.
IInv ==
  /\ TypeOK
  /\ IsFiniteSet(visitor_hashes)
  /\ \A s \in Servers : Sound(batch[s])
  /\ \A s \in Servers, k \in Flushes : flight[s][k] # None => Sound(flight[s][k].batch)
  /\ HashesDieWithTheirDay

-----------------------------------------------------------------------------
(***************************************************************************)
(* Sums.  A fold over a set takes an element that CHOOSE picks, and goes   *)
(* on with the rest.  What holds of a sum is shown of the sums over the    *)
(* subsets, of which one of the least for which it failed would have a     *)
(* lesser one.                                                             *)
(***************************************************************************)
Pick(T) == CHOOSE x \in T : TRUE

Rest(T) == T \ {Pick(T)}

\* What a set with an element picks, and leaves.
LEMMA PickAndRest ==
  ASSUME NEW S, IsFiniteSet(S), NEW T \in SUBSET S, T # {}
  PROVE  /\ Pick(T) \in T /\ Pick(T) \in S /\ Rest(T) \in SUBSET S /\ T = Rest(T) \union {Pick(T)}
         /\ Cardinality(T) \in Nat /\ Cardinality(Rest(T)) \in Nat
         /\ Cardinality(Rest(T)) = Cardinality(T) - 1
<1>1. Pick(T) \in T
  BY DEF Pick
<1>2. IsFiniteSet(T) /\ IsFiniteSet(Rest(T))
  BY FS_Subset DEF Rest
<1>3. Cardinality(Rest(T)) = Cardinality(T) - 1
  BY <1>1, <1>2, FS_RemoveElement DEF Rest
<1> QED
  BY <1>1, <1>2, <1>3, FS_CardinalityType DEF Rest

\* A set of numbers has its least.
LEMMA LeastNumber ==
  ASSUME NEW N \in SUBSET Nat, N # {}
  PROVE  \E n \in N : \A m \in N : n <= m
<1> DEFINE Less == {p \in Nat \X Nat : p[1] < p[2]}
<1>1. IsWellFoundedOn(Less, Nat)
  BY NatLessThanWellFounded DEF OpToRel
<1>2. PICK n \in N : \A m \in N : <<m, n>> \notin Less
  <2> HIDE DEF Less
  <2> QED
    BY <1>1, WFMin
<1>3. ASSUME NEW m \in N
      PROVE  n <= m
  <2>1. m \in Nat /\ n \in Nat
    OBVIOUS
  <2>2. ~(m < n)
    BY <1>2, <2>1
  <2> QED
    BY <2>1, <2>2
<1> QED
  BY <1>3

\* Of the subsets for which something fails, one is empty, or what it leaves
\* does not fail.
LEMMA LeastSubset ==
  ASSUME NEW S, IsFiniteSet(S), NEW B \in SUBSET SUBSET S, B # {}
  PROVE  \E T \in B : T = {} \/ Rest(T) \notin B
<1> DEFINE N == {Cardinality(T) : T \in B}
<1>1. N \in SUBSET Nat /\ N # {}
  <2>1. \A T \in B : Cardinality(T) \in Nat
    BY FS_Subset, FS_CardinalityType
  <2> QED
    BY <2>1
<1>2. PICK n \in N : \A m \in N : n <= m
  <2> HIDE DEF N
  <2> QED
    BY <1>1, LeastNumber
<1>3. PICK T \in B : Cardinality(T) = n
  OBVIOUS
<1>4. ASSUME T # {}, Rest(T) \in B
      PROVE  FALSE
  <2>1. Cardinality(T) \in Nat /\ Cardinality(Rest(T)) = Cardinality(T) - 1
    BY <1>4, PickAndRest
  <2>2. n <= Cardinality(Rest(T))
    BY <1>2, <1>4
  <2> QED
    BY <1>3, <2>1, <2>2
<1> QED
  BY <1>4

\* g folds the subsets of S, by what F makes of an element and of the rest.
IsFold(g, S, V, base, F) ==
  /\ g \in [SUBSET S -> V]
  /\ \A T \in SUBSET S : g[T] = IF T = {} THEN base ELSE F[Pick(T)][g[Rest(T)]]

\* There is a fold.
LEMMA FoldExists ==
  ASSUME NEW S, IsFiniteSet(S), NEW V, NEW base \in V, NEW F \in [S -> [V -> V]]
  PROVE  \E g : IsFold(g, S, V, base, F)
<1> DEFINE Level(n) == {T \in SUBSET S : Cardinality(T) <= n}
           Folds(g, n) == /\ g \in [Level(n) -> V]
                          /\ \A T \in Level(n) :
                               g[T] = IF T = {} THEN base ELSE F[Pick(T)][g[Rest(T)]]
           Bad == {n \in Nat : ~ \E g : Folds(g, n)}
<1>1. ASSUME Bad # {}
      PROVE  FALSE
  <2>1. PICK n \in Bad : \A m \in Bad : n <= m
    <3>1. Bad \in SUBSET Nat
      OBVIOUS
    <3> HIDE DEF Bad
    <3> QED
      BY <1>1, <3>1, LeastNumber
  <2>2. CASE n = 0
    <3>1. \A T \in Level(0) : T = {}
      <4>1. ASSUME NEW T \in Level(0), T # {}
            PROVE  FALSE
        <5>1. Cardinality(T) <= 0 /\ T \in SUBSET S
          BY <4>1
        <5>2. Cardinality(T) \in Nat /\ Cardinality(Rest(T)) \in Nat
              /\ Cardinality(Rest(T)) = Cardinality(T) - 1
          BY <4>1, <5>1, PickAndRest
        <5> QED
          BY <5>1, <5>2
      <4> QED
        BY <4>1
    <3>2. Folds([T \in Level(0) |-> base], 0)
      BY <3>1
    <3> QED
      BY <2>1, <2>2, <3>2
  <2>3. CASE n # 0
    <3>1. n - 1 \in Nat /\ n - 1 \notin Bad /\ n \in Nat
      <4>1. n \in Nat
        BY <2>1
      <4>2. n - 1 \in Nat /\ ~(n <= n - 1)
        BY <2>3, <4>1
      <4> HIDE DEF Bad
      <4> QED
        BY <2>1, <4>1, <4>2
    <3>2. PICK h : Folds(h, n - 1)
      BY <3>1
    <3> DEFINE g == [T \in Level(n) |-> IF Cardinality(T) <= n - 1 THEN h[T]
                                        ELSE F[Pick(T)][h[Rest(T)]]]
    <3>3. ASSUME NEW T \in Level(n), T # {}
          PROVE  /\ Rest(T) \in Level(n - 1) /\ Rest(T) \in Level(n) /\ g[Rest(T)] = h[Rest(T)]
                 /\ Pick(T) \in S
      <4>1. /\ Cardinality(T) \in Nat /\ Cardinality(T) <= n /\ Cardinality(Rest(T)) \in Nat
            /\ Cardinality(Rest(T)) = Cardinality(T) - 1
            /\ Pick(T) \in S /\ Rest(T) \in SUBSET S
        BY <3>3, PickAndRest
      <4>2. Cardinality(Rest(T)) <= n - 1 /\ Cardinality(Rest(T)) <= n
        BY <3>1, <4>1
      <4> QED
        BY <4>1, <4>2
    <3>4. ASSUME NEW T \in Level(n)
          PROVE  g[T] \in V /\ g[T] = IF T = {} THEN base ELSE F[Pick(T)][g[Rest(T)]]
      <4>1. CASE T = {}
        <5>1. Cardinality(T) <= n - 1
          BY <3>1, <4>1, FS_EmptySet
        <5>2. T \in Level(n - 1)
          BY <5>1
        <5> QED
          BY <3>2, <4>1, <5>1, <5>2
      <4>2. CASE T # {} /\ Cardinality(T) <= n - 1
        <5>1. T \in Level(n - 1)
          BY <4>2
        <5>2. g[T] = h[T] /\ h[T] \in V /\ h[T] = F[Pick(T)][h[Rest(T)]]
          BY <3>2, <4>2, <5>1
        <5> QED
          BY <3>3, <4>2, <5>2
      <4>3. CASE T # {} /\ ~(Cardinality(T) <= n - 1)
        <5>1. g[T] = F[Pick(T)][h[Rest(T)]]
          BY <4>3
        <5>2. h[Rest(T)] \in V
          BY <3>2, <3>3, <4>3
        <5> QED
          BY <3>3, <4>3, <5>1, <5>2
      <4> QED
        BY <4>1, <4>2, <4>3
    <3>5. g = [T \in Level(n) |-> g[T]]
      OBVIOUS
    <3> HIDE DEF g
    <3>6. Folds(g, n)
      BY <3>4, <3>5
    <3> QED
      BY <2>1, <3>6
  <2> QED
    BY <2>2, <2>3
<1>2. Cardinality(S) \in Nat
  BY FS_CardinalityType
<1>3. PICK g : Folds(g, Cardinality(S))
  BY <1>1, <1>2
<1>4. Level(Cardinality(S)) = SUBSET S
  BY FS_Subset
<1> QED
  BY <1>3, <1>4 DEF IsFold

\* The sum of f over S, which MapThenSumSet folds.
IsSum(g, f, S) ==
  g = [T \in SUBSET S |-> IF T = {} THEN 0 ELSE f[Pick(T)] + g[T \ {Pick(T)}]]

SumOver(f, S) == (CHOOSE g : IsSum(g, f, S))[S]

\* g holds the sums of f over the subsets of S, that over S among them.
Sums(g, f, S) ==
  /\ g \in [SUBSET S -> Nat]
  /\ g[S] = SumOver(f, S) /\ g[{}] = 0
  /\ \A T \in SUBSET S : T # {} => g[T] = f[Pick(T)] + g[Rest(T)]

\* A sum is made of the sums over subsets.
LEMMA SumUnfolds ==
  ASSUME NEW S, IsFiniteSet(S), NEW f, \A x \in S : f[x] \in Nat
  PROVE  \E g : Sums(g, f, S)
<1> DEFINE h == CHOOSE g : IsSum(g, f, S)
<1>1. PICK F : F = [x \in S |-> [n \in Nat |-> f[x] + n]]
  OBVIOUS
<1>2. F \in [S -> [Nat -> Nat]] /\ \A x \in S, n \in Nat : F[x][n] = f[x] + n
  BY <1>1
<1>0. PICK k : IsFold(k, S, Nat, 0, F)
  BY <1>2, FoldExists
<1>3. /\ k \in [SUBSET S -> Nat]
      /\ \A T \in SUBSET S : k[T] = IF T = {} THEN 0 ELSE f[Pick(T)] + k[Rest(T)]
  <2>1. k \in [SUBSET S -> Nat]
    BY <1>0 DEF IsFold
  <2>2. ASSUME NEW T \in SUBSET S, T # {}
        PROVE  k[T] = f[Pick(T)] + k[Rest(T)]
    <3>1. Pick(T) \in S /\ Rest(T) \in SUBSET S
      BY <2>2, PickAndRest
    <3>2. k[Rest(T)] \in Nat
      BY <2>1, <3>1
    <3>3. k[T] = F[Pick(T)][k[Rest(T)]]
      BY <1>0, <2>2 DEF IsFold
    <3> QED
      BY <1>2, <3>1, <3>2, <3>3
  <2>3. k[{}] = 0
    BY <1>0 DEF IsFold
  <2> QED
    BY <2>1, <2>2, <2>3
<1>4. IsSum(k, f, S)
  BY <1>3 DEF IsSum, Rest
<1>5. IsSum(h, f, S)
  BY <1>4
<1> HIDE DEF h
<1>6. \A T \in SUBSET S : h[T] = IF T = {} THEN 0 ELSE f[Pick(T)] + h[Rest(T)]
  BY <1>5 DEF IsSum, Rest
<1>7. \A T \in SUBSET S : h[T] \in Nat
  <2> DEFINE B == {T \in SUBSET S : h[T] \notin Nat}
  <2>1. ASSUME B # {}
        PROVE  FALSE
    <3>1. PICK T \in B : T = {} \/ Rest(T) \notin B
      <4>1. B \in SUBSET SUBSET S
        OBVIOUS
      <4> HIDE DEF B
      <4> QED
        BY <2>1, <4>1, LeastSubset
    <3>2. CASE T # {}
      <4>1. Pick(T) \in S /\ Rest(T) \in SUBSET S
        BY <3>1, <3>2, PickAndRest
      <4>2. h[Rest(T)] \in Nat /\ f[Pick(T)] \in Nat
        BY <3>1, <3>2, <4>1
      <4>3. T \in SUBSET S /\ h[T] \notin Nat
        BY <3>1
      <4>4. h[T] = f[Pick(T)] + h[Rest(T)]
        BY <1>6, <3>2, <4>3
      <4>5. \A m, n \in Nat : m + n \in Nat
        OBVIOUS
      <4> QED
        BY <4>2, <4>3, <4>4, <4>5
    <3>3. CASE T = {}
      BY <1>6, <3>1, <3>3
    <3> QED
      BY <3>2, <3>3
  <2> QED
    BY <2>1
<1>8. h \in [SUBSET S -> Nat] /\ h[S] = SumOver(f, S)
  BY <1>5, <1>7 DEF IsSum, SumOver, h
<1> QED
  BY <1>6, <1>8 DEF Sums

\* A sum of numbers is a number, and a sum of nothing is none.
LEMMA SumType ==
  ASSUME NEW S, IsFiniteSet(S), NEW f, \A x \in S : f[x] \in Nat
  PROVE  SumOver(f, S) \in Nat
<1>1. PICK g : Sums(g, f, S)
  BY SumUnfolds
<1> QED
  BY <1>1 DEF Sums

\* A sum of zeros is zero.
LEMMA SumOfNone ==
  ASSUME NEW S, IsFiniteSet(S), NEW f, \A x \in S : f[x] \in Nat, \A x \in S : f[x] = 0
  PROVE  SumOver(f, S) = 0
<1>1. PICK g : Sums(g, f, S)
  BY SumUnfolds
<1> DEFINE B == {T \in SUBSET S : g[T] # 0}
<1>0. /\ g \in [SUBSET S -> Nat] /\ g[S] = SumOver(f, S) /\ g[{}] = 0
      /\ \A T \in SUBSET S : T # {} => g[T] = f[Pick(T)] + g[Rest(T)]
  BY <1>1 DEF Sums
<1>2. ASSUME B # {}
      PROVE  FALSE
  <2>1. PICK T \in B : T = {} \/ Rest(T) \notin B
    <3>1. B \in SUBSET SUBSET S
      OBVIOUS
    <3> HIDE DEF B
    <3> QED
      BY <1>2, <3>1, LeastSubset
  <2>2. T \in SUBSET S /\ g[T] # 0 /\ T # {}
    BY <1>0, <2>1
  <2>3. Pick(T) \in S /\ Rest(T) \in SUBSET S
    BY <2>2, PickAndRest
  <2>4. g[Rest(T)] = 0 /\ f[Pick(T)] = 0
    BY <2>1, <2>2, <2>3
  <2> QED
    BY <1>0, <2>2, <2>4
<1> QED
  BY <1>0, <1>2

\* A sum moves with the one of its terms that does.
LEMMA SumMoves ==
  ASSUME NEW S, IsFiniteSet(S), NEW s \in S, NEW f, NEW g,
         \A x \in S : f[x] \in Nat /\ g[x] \in Nat,
         \A x \in S : x # s => f[x] = g[x]
  PROVE  SumOver(f, S) + g[s] = SumOver(g, S) + f[s]
<1>1. PICK F : Sums(F, f, S)
  BY SumUnfolds
<1>2. PICK G : Sums(G, g, S)
  BY SumUnfolds
<1>0. /\ F \in [SUBSET S -> Nat] /\ F[S] = SumOver(f, S) /\ F[{}] = 0
      /\ G \in [SUBSET S -> Nat] /\ G[S] = SumOver(g, S) /\ G[{}] = 0
      /\ \A T \in SUBSET S : T # {} => F[T] = f[Pick(T)] + F[Rest(T)]
      /\ \A T \in SUBSET S : T # {} => G[T] = g[Pick(T)] + G[Rest(T)]
  BY <1>1, <1>2 DEF Sums
<1> DEFINE at(h, T) == IF s \in T THEN h[s] ELSE 0
           Moved(T) == F[T] + at(g, T) = G[T] + at(f, T)
           B == {T \in SUBSET S : ~Moved(T)}
<1>3. ASSUME B # {}
      PROVE  FALSE
  <2>1. PICK T \in B : T = {} \/ Rest(T) \notin B
    <3>1. B \in SUBSET SUBSET S
      OBVIOUS
    <3> HIDE DEF B
    <3> QED
      BY <1>3, <3>1, LeastSubset
  <2>2. T \in SUBSET S /\ ~Moved(T)
    BY <2>1
  <2>3. T # {}
    BY <1>0, <2>2
  <2> DEFINE p == Pick(T)
             R == Rest(T)
  <2>4. p \in T /\ p \in S /\ R \in SUBSET S /\ R = T \ {p}
    BY <2>2, <2>3, PickAndRest DEF Rest
  <2>5. Moved(R)
    BY <2>1, <2>3, <2>4
  <2>6. F[T] = f[p] + F[R] /\ G[T] = g[p] + G[R]
    BY <1>0, <2>2, <2>3
  <2> HIDE DEF p, R
  <2>7. /\ F[R] \in Nat /\ G[R] \in Nat /\ f[p] \in Nat /\ g[p] \in Nat
        /\ f[s] \in Nat /\ g[s] \in Nat
    BY <1>0, <2>4
  <2>8. CASE p = s
    <3>1. F[R] = G[R]
      BY <2>4, <2>5, <2>7, <2>8
    <3>2. at(g, T) = g[s] /\ at(f, T) = f[s]
      BY <2>4, <2>8
    <3>3. f[s] + F[R] + g[s] = g[s] + G[R] + f[s]
      BY <2>7, <3>1
    <3> QED
      BY <2>2, <2>6, <2>8, <3>2, <3>3
  <2>9. CASE p # s
    <3>1. at(g, T) = at(g, R) /\ at(f, T) = at(f, R) /\ f[p] = g[p]
      BY <2>4, <2>9
    <3>2. at(g, R) \in Nat /\ at(f, R) \in Nat
      BY <2>7
    <3> HIDE DEF at
    <3>3. f[p] + F[R] + at(g, R) = g[p] + G[R] + at(f, R)
      BY <2>5, <2>7, <3>1, <3>2
    <3> QED
      BY <2>2, <2>6, <3>1, <3>3
  <2> QED
    BY <2>8, <2>9
<1>4. Moved(S)
  BY <1>3
<1> QED
  BY <1>0, <1>4

\* The sum of a function is that over its domain.
LEMMA SumOfFunction == \A f : SumFunction(f) = SumOver(f, DOMAIN f)
  BY DEF SumFunction, SumFunctionOnSet, FoldFunctionOnSet, MapThenFoldSet, SumOver, Pick, IsSum

\* Of the subsets for which something fails, one has the fewest elements.
LEMMA SmallestSubset ==
  ASSUME NEW S, IsFiniteSet(S), NEW B \in SUBSET SUBSET S, B # {}
  PROVE  \E T \in B : \A U \in B : Cardinality(T) <= Cardinality(U)
<1> DEFINE N == {Cardinality(T) : T \in B}
<1>1. N \in SUBSET Nat /\ N # {}
  <2>1. \A T \in B : Cardinality(T) \in Nat
    BY FS_Subset, FS_CardinalityType
  <2> QED
    BY <2>1
<1>2. PICK n \in N : \A m \in N : n <= m
  <2> HIDE DEF N
  <2> QED
    BY <1>1, LeastNumber
<1> QED
  BY <1>2

\* The sums of a set take any element first.
LEMMA SumsTake ==
  ASSUME NEW S, IsFiniteSet(S), NEW f, \A x \in S : f[x] \in Nat, NEW g, Sums(g, f, S)
  PROVE  \A T \in SUBSET S : \A x \in T : g[T] = f[x] + g[T \ {x}]
<1>0. /\ g \in [SUBSET S -> Nat] /\ g[S] = SumOver(f, S) /\ g[{}] = 0
      /\ \A T \in SUBSET S : T # {} => g[T] = f[Pick(T)] + g[Rest(T)]
  BY DEF Sums
<1> DEFINE Takes(T) == \A x \in T : g[T] = f[x] + g[T \ {x}]
           B == {T \in SUBSET S : ~Takes(T)}
<1>1. ASSUME B # {}
      PROVE  FALSE
  <2>1. PICK T \in B : \A U \in B : Cardinality(T) <= Cardinality(U)
    <3>1. B \in SUBSET SUBSET S
      OBVIOUS
    <3> HIDE DEF B
    <3> QED
      BY <1>1, <3>1, SmallestSubset
  <2>2. PICK x \in T : T \in SUBSET S /\ g[T] # f[x] + g[T \ {x}]
    BY <2>1
  <2>3. PICK p : p = Pick(T)
    OBVIOUS
  <2>4. /\ p \in T /\ p \in S /\ x \in S /\ x \in T
        /\ T \ {p} \in SUBSET S /\ T \ {x} \in SUBSET S /\ (T \ {x}) \ {p} \in SUBSET S
        /\ Rest(T) = T \ {p} /\ g[T] = f[p] + g[T \ {p}]
    BY <1>0, <2>2, <2>3, PickAndRest DEF Rest
  <2>5. p # x
    BY <2>2, <2>4
  <2>6. ASSUME NEW y \in T
        PROVE  T \ {y} \notin B
    <3>1. /\ IsFiniteSet(T) /\ Cardinality(T) \in Nat
          /\ Cardinality(T \ {y}) = Cardinality(T) - 1
      BY <2>2, FS_Subset, FS_RemoveElement, FS_CardinalityType
    <3>2. ~(Cardinality(T) <= Cardinality(T \ {y}))
      BY <3>1
    <3> HIDE DEF B
    <3> QED
      BY <2>1, <3>2
  <2>7. g[T \ {p}] = f[x] + g[(T \ {p}) \ {x}]
    <3>1. Takes(T \ {p})
      BY <2>4, <2>6
    <3> QED
      BY <2>4, <2>5, <3>1
  <2>8. g[T \ {x}] = f[p] + g[(T \ {x}) \ {p}]
    <3>1. Takes(T \ {x})
      BY <2>4, <2>6
    <3> QED
      BY <2>4, <2>5, <3>1
  <2>9. (T \ {p}) \ {x} = (T \ {x}) \ {p}
    OBVIOUS
  <2>10. PICK a, b, c : a = f[p] /\ b = f[x] /\ c = g[(T \ {x}) \ {p}]
    OBVIOUS
  <2>11. a \in Nat /\ b \in Nat /\ c \in Nat
    BY <1>0, <2>4, <2>10
  <2>12. a + (b + c) = b + (a + c)
    BY <2>11
  <2> QED
    BY <2>2, <2>4, <2>7, <2>8, <2>9, <2>10, <2>12
<1> QED
  BY <1>1

\* The sums of a set are the sums of its subsets.
LEMMA SumsAreOfSubsets ==
  ASSUME NEW S, IsFiniteSet(S), NEW f, \A x \in S : f[x] \in Nat, NEW g, Sums(g, f, S),
         NEW T \in SUBSET S
  PROVE  g[T] = SumOver(f, T)
<1>1. IsFiniteSet(T) /\ \A x \in T : f[x] \in Nat
  BY FS_Subset
<1>2. PICK h : Sums(h, f, T)
  BY <1>1, SumUnfolds
<1>0. /\ g \in [SUBSET S -> Nat] /\ g[{}] = 0
      /\ \A U \in SUBSET S : U # {} => g[U] = f[Pick(U)] + g[Rest(U)]
      /\ h \in [SUBSET T -> Nat] /\ h[{}] = 0 /\ h[T] = SumOver(f, T)
      /\ \A U \in SUBSET T : U # {} => h[U] = f[Pick(U)] + h[Rest(U)]
  BY <1>2 DEF Sums
<1> DEFINE B == {U \in SUBSET T : g[U] # h[U]}
<1>3. ASSUME B # {}
      PROVE  FALSE
  <2>1. PICK U \in B : U = {} \/ Rest(U) \notin B
    <3>1. B \in SUBSET SUBSET T
      OBVIOUS
    <3> HIDE DEF B
    <3> QED
      BY <1>1, <1>3, <3>1, LeastSubset
  <2>2. U \in SUBSET T /\ g[U] # h[U]
    BY <2>1
  <2>3. U # {}
    BY <1>0, <2>2
  <2>4. Rest(U) \in SUBSET T /\ U \in SUBSET S
    BY DEF Rest
  <2>5. g[Rest(U)] = h[Rest(U)]
    BY <2>1, <2>3, <2>4
  <2> QED
    BY <1>0, <2>2, <2>3, <2>4, <2>5
<1> QED
  BY <1>0, <1>3

\* A sum is a term and the sum of the others.
LEMMA SumTakes ==
  ASSUME NEW S, IsFiniteSet(S), NEW f, \A x \in S : f[x] \in Nat, NEW s \in S
  PROVE  /\ SumOver(f, S) = f[s] + SumOver(f, S \ {s})
         /\ SumOver(f, S) \in Nat /\ SumOver(f, S \ {s}) \in Nat /\ f[s] \in Nat
<1>1. PICK g : Sums(g, f, S)
  BY SumUnfolds
<1>2. S \ {s} \in SUBSET S /\ S \in SUBSET S
  OBVIOUS
<1>3. g[S] = f[s] + g[S \ {s}]
  BY <1>1, <1>2, SumsTake
<1>4. g[S \ {s}] = SumOver(f, S \ {s}) /\ g[S] = SumOver(f, S)
  BY <1>1, <1>2, SumsAreOfSubsets
<1>5. g[S] \in Nat /\ g[S \ {s}] \in Nat
  BY <1>1, <1>2 DEF Sums
<1> QED
  BY <1>3, <1>4, <1>5

\* The sum of a subset takes what CHOOSE picks, and nothing of it is zero.
LEMMA SumPicks ==
  ASSUME NEW S, IsFiniteSet(S), NEW f, \A x \in S : f[x] \in Nat, NEW T \in SUBSET S
  PROVE  /\ SumOver(f, T) \in Nat /\ SumOver(f, {}) = 0
         /\ T # {} => /\ SumOver(f, T) = f[Pick(T)] + SumOver(f, Rest(T))
                      /\ f[Pick(T)] \in Nat /\ SumOver(f, Rest(T)) \in Nat
<1>1. IsFiniteSet(T) /\ \A x \in T : f[x] \in Nat
  BY FS_Subset
<1>2. SumOver(f, T) \in Nat
  BY <1>1, SumType
<1>3. SumOver(f, {}) = 0
  BY FS_EmptySet, SumOfNone
<1>4. ASSUME T # {}
      PROVE  /\ SumOver(f, T) = f[Pick(T)] + SumOver(f, Rest(T))
             /\ f[Pick(T)] \in Nat /\ SumOver(f, Rest(T)) \in Nat
  <2>1. Pick(T) \in T
    BY <1>4, PickAndRest
  <2> QED
    BY <1>1, <2>1, SumTakes DEF Rest
<1> QED
  BY <1>2, <1>3, <1>4

\* A sum of no greater terms is no greater, and one of the same is the same.
LEMMA SumGrows ==
  ASSUME NEW S, IsFiniteSet(S), NEW f, NEW g, \A x \in S : f[x] \in Nat /\ g[x] \in Nat,
         \A x \in S : f[x] <= g[x]
  PROVE  SumOver(f, S) <= SumOver(g, S)
<1> DEFINE B == {T \in SUBSET S : ~(SumOver(f, T) <= SumOver(g, T))}
<1>1. ASSUME B # {}
      PROVE  FALSE
  <2>1. PICK T \in B : T = {} \/ Rest(T) \notin B
    <3>1. B \in SUBSET SUBSET S
      OBVIOUS
    <3> HIDE DEF B
    <3> QED
      BY <1>1, <3>1, LeastSubset
  <2>2. T \in SUBSET S /\ ~(SumOver(f, T) <= SumOver(g, T))
    BY <2>1
  <2>3. SumOver(f, {}) = 0 /\ SumOver(g, {}) = 0
    BY <2>2, SumPicks
  <2>4. T # {}
    BY <2>2, <2>3
  <2>5. Pick(T) \in S /\ Rest(T) \in SUBSET S
    BY <2>2, <2>4, PickAndRest
  <2>6. /\ SumOver(f, T) = f[Pick(T)] + SumOver(f, Rest(T)) /\ SumOver(f, Rest(T)) \in Nat
        /\ SumOver(g, T) = g[Pick(T)] + SumOver(g, Rest(T)) /\ SumOver(g, Rest(T)) \in Nat
    BY <2>2, <2>4, SumPicks
  <2>7. SumOver(f, Rest(T)) <= SumOver(g, Rest(T))
    BY <2>1, <2>4, <2>5
  <2>8. f[Pick(T)] \in Nat /\ g[Pick(T)] \in Nat /\ f[Pick(T)] <= g[Pick(T)]
    BY <2>5
  <2>9. PICK a, b, m, n : a = f[Pick(T)] /\ b = g[Pick(T)]
                          /\ m = SumOver(f, Rest(T)) /\ n = SumOver(g, Rest(T))
    OBVIOUS
  <2>10. a + m <= b + n
    BY <2>6, <2>7, <2>8, <2>9
  <2> QED
    BY <2>2, <2>6, <2>9, <2>10
<1> QED
  BY <1>1

LEMMA SumOfSame ==
  ASSUME NEW S, IsFiniteSet(S), NEW f, NEW g, \A x \in S : f[x] \in Nat /\ f[x] = g[x]
  PROVE  SumOver(f, S) = SumOver(g, S)
<1>1. \A x \in S : f[x] \in Nat /\ g[x] \in Nat /\ f[x] <= g[x] /\ g[x] <= f[x]
  OBVIOUS
<1>2. SumOver(f, S) <= SumOver(g, S)
  BY <1>1, SumGrows
<1>3. SumOver(g, S) <= SumOver(f, S)
  BY <1>1, SumGrows
<1>4. SumOver(f, S) \in Nat /\ SumOver(g, S) \in Nat
  BY <1>1, SumType
<1> QED
  BY <1>2, <1>3, <1>4

\* A sum of sums is the sum of both.
LEMMA SumAdds ==
  ASSUME NEW S, IsFiniteSet(S), NEW f, NEW g, NEW h,
         \A x \in S : f[x] \in Nat /\ g[x] \in Nat /\ h[x] = f[x] + g[x]
  PROVE  SumOver(h, S) = SumOver(f, S) + SumOver(g, S)
<1>0. \A x \in S : f[x] \in Nat /\ g[x] \in Nat /\ h[x] \in Nat
  BY SMT
<1> DEFINE Adding(T) == SumOver(h, T) = SumOver(f, T) + SumOver(g, T)
           B == {T \in SUBSET S : ~Adding(T)}
<1>1. ASSUME B # {}
      PROVE  FALSE
  <2>1. PICK T \in B : T = {} \/ Rest(T) \notin B
    <3>1. B \in SUBSET SUBSET S
      OBVIOUS
    <3> HIDE DEF B
    <3> QED
      BY <1>1, <3>1, LeastSubset
  <2>2. T \in SUBSET S /\ ~Adding(T)
    BY <2>1
  <2>3. SumOver(f, {}) = 0 /\ SumOver(g, {}) = 0 /\ SumOver(h, {}) = 0
    BY <1>0, <2>2, SumPicks
  <2>4. T # {}
    <3>1. CASE T = {}
      <4>1. SumOver(f, T) = 0 /\ SumOver(g, T) = 0 /\ SumOver(h, T) = 0
        BY <2>3, <3>1
      <4> QED
        BY <2>2, <4>1
    <3> QED
      BY <3>1
  <2>5. Pick(T) \in S /\ Rest(T) \in SUBSET S
    BY <2>2, <2>4, PickAndRest
  <2>6. /\ SumOver(f, T) = f[Pick(T)] + SumOver(f, Rest(T)) /\ SumOver(f, Rest(T)) \in Nat
        /\ SumOver(g, T) = g[Pick(T)] + SumOver(g, Rest(T)) /\ SumOver(g, Rest(T)) \in Nat
        /\ SumOver(h, T) = h[Pick(T)] + SumOver(h, Rest(T))
    BY <1>0, <2>2, <2>4, SumPicks
  <2>7. Adding(Rest(T))
    BY <2>1, <2>4, <2>5
  <2>8. f[Pick(T)] \in Nat /\ g[Pick(T)] \in Nat /\ h[Pick(T)] = f[Pick(T)] + g[Pick(T)]
    BY <2>5
  <2>9. PICK a, b, m, n : a = f[Pick(T)] /\ b = g[Pick(T)]
                          /\ m = SumOver(f, Rest(T)) /\ n = SumOver(g, Rest(T))
    OBVIOUS
  <2>10. (a + b) + (m + n) = (a + m) + (b + n)
    BY <2>6, <2>8, <2>9
  <2> QED
    BY <2>2, <2>6, <2>7, <2>8, <2>9, <2>10
<1> QED
  BY <1>1

\* Terms that are zero may be left out of a sum.
LEMMA SumWithin ==
  ASSUME NEW S, IsFiniteSet(S), NEW f, \A x \in S : f[x] \in Nat,
         NEW D \in SUBSET S, \A x \in S : x \notin D => f[x] = 0
  PROVE  SumOver(f, S) = SumOver(f, D)
<1> DEFINE Same(T) == SumOver(f, T) = SumOver(f, T \intersect D)
           B == {T \in SUBSET S : ~Same(T)}
<1>1. ASSUME B # {}
      PROVE  FALSE
  <2>1. PICK T \in B : T = {} \/ Rest(T) \notin B
    <3>1. B \in SUBSET SUBSET S
      OBVIOUS
    <3> HIDE DEF B
    <3> QED
      BY <1>1, <3>1, LeastSubset
  <2>2. T \in SUBSET S /\ ~Same(T)
    BY <2>1
  <2>3. T # {}
    <3>1. CASE T = {}
      <4>1. T \intersect D = T
        BY <3>1
      <4> QED
        BY <2>2, <4>1
    <3> QED
      BY <3>1
  <2>4. PICK p, R : p = Pick(T) /\ R = Rest(T)
    OBVIOUS
  <2>5. /\ p \in S /\ p \in T /\ R \in SUBSET S /\ R = T \ {p}
        /\ SumOver(f, T) = f[p] + SumOver(f, R) /\ f[p] \in Nat /\ SumOver(f, R) \in Nat
    <3>1. p \in S /\ p \in T /\ R \in SUBSET S /\ R = T \ {p}
      BY <2>2, <2>3, <2>4, PickAndRest DEF Rest
    <3>2. /\ SumOver(f, T) = f[Pick(T)] + SumOver(f, Rest(T))
          /\ f[Pick(T)] \in Nat /\ SumOver(f, Rest(T)) \in Nat
      BY <2>2, <2>3, SumPicks
    <3> QED
      BY <2>4, <3>1, <3>2
  <2>6. SumOver(f, R) = SumOver(f, R \intersect D)
    BY <2>1, <2>3, <2>4, <2>5
  <2>7. CASE p \notin D
    <3>1. PICK C : C = T \intersect D
      OBVIOUS
    <3>2. C = R \intersect D
      BY <2>5, <2>7, <3>1
    <3>3. f[p] = 0
      BY <2>5, <2>7
    <3>4. SumOver(f, T) = SumOver(f, R) /\ SumOver(f, R) = SumOver(f, C)
      BY <2>5, <2>6, <3>2, <3>3
    <3> QED
      BY <2>2, <3>1, <3>4
  <2>8. CASE p \in D
    <3>1. PICK C : C = T \intersect D
      OBVIOUS
    <3>2. /\ IsFiniteSet(C) /\ \A x \in C : f[x] \in Nat
          /\ p \in C /\ C \ {p} = R \intersect D
      BY <2>2, <2>5, <2>8, <3>1, FS_Subset
    <3>3. SumOver(f, C) = f[p] + SumOver(f, C \ {p})
      BY <3>2, SumTakes
    <3> QED
      BY <2>2, <2>5, <2>6, <3>1, <3>2, <3>3
  <2> QED
    BY <2>7, <2>8
<1>2. Same(S) /\ S \intersect D = D
  BY <1>1
<1> QED
  BY <1>2

\* The sum of each row of F, and of each column, over the rows of U.
RowSums(F, S, T) == [s \in S |-> SumOver(F[s], T)]

ColumnSums(F, U, T) == [t \in T |-> SumOver([s \in U |-> F[s][t]], U)]

\* A table is summed by rows or by columns.
LEMMA SumSwaps ==
  ASSUME NEW S, IsFiniteSet(S), NEW T, IsFiniteSet(T), NEW F \in [S -> [T -> Nat]]
  PROVE  SumOver(RowSums(F, S, T), S) = SumOver(ColumnSums(F, S, T), T)
<1>1. PICK rows : rows = RowSums(F, S, T)
  OBVIOUS
<1>2. \A s \in S : rows[s] \in Nat /\ rows[s] = SumOver(F[s], T)
  <2> SUFFICES ASSUME NEW s \in S
               PROVE  rows[s] \in Nat /\ rows[s] = SumOver(F[s], T)
    OBVIOUS
  <2>1. PICK f : f = F[s]
    OBVIOUS
  <2>2. \A t \in T : f[t] \in Nat
    BY <2>1
  <2>3. SumOver(f, T) \in Nat
    BY <2>2, SumType
  <2> QED
    BY <1>1, <2>1, <2>3 DEF RowSums
<1>3. ASSUME NEW U \in SUBSET S, NEW t \in T, NEW f, f = [s \in U |-> F[s][t]]
      PROVE  /\ ColumnSums(F, U, T)[t] = SumOver(f, U) /\ SumOver(f, U) \in Nat
             /\ IsFiniteSet(U) /\ \A s \in U : f[s] \in Nat
  <2>1. IsFiniteSet(U) /\ \A s \in U : f[s] \in Nat
    BY <1>3, FS_Subset
  <2>2. SumOver(f, U) \in Nat
    BY <2>1, SumType
  <2> QED
    BY <1>3, <2>1, <2>2 DEF ColumnSums
<1> DEFINE Swaps(U) == SumOver(rows, U) = SumOver(ColumnSums(F, U, T), T)
           B == {U \in SUBSET S : ~Swaps(U)}
<1>4. ASSUME B # {}
      PROVE  FALSE
  <2>1. PICK U \in B : U = {} \/ Rest(U) \notin B
    <3>1. B \in SUBSET SUBSET S
      OBVIOUS
    <3> HIDE DEF B
    <3> QED
      BY <1>4, <3>1, LeastSubset
  <2>2. U \in SUBSET S /\ ~Swaps(U)
    BY <2>1
  <2>3. PICK all : all = ColumnSums(F, U, T)
    OBVIOUS
  <2>4. U # {}
    <3>1. CASE U = {}
      <4>1. \A t \in T : all[t] \in Nat /\ all[t] = 0
        <5> SUFFICES ASSUME NEW t \in T
                     PROVE  all[t] = 0
          OBVIOUS
        <5>1. PICK f : f = [s \in U |-> F[s][t]]
          OBVIOUS
        <5>2. SumOver(f, {}) = 0
          BY FS_EmptySet, SumOfNone
        <5> QED
          BY <2>3, <3>1, <5>1, <5>2 DEF ColumnSums
      <4>2. SumOver(all, T) = 0
        BY <4>1, SumOfNone
      <4>3. SumOver(rows, {}) = 0
        BY FS_EmptySet, SumOfNone
      <4> QED
        BY <2>2, <2>3, <3>1, <4>2, <4>3
    <3> QED
      BY <3>1
  <2>5. PICK p, R : p = Pick(U) /\ R = Rest(U)
    OBVIOUS
  <2>6. /\ p \in S /\ p \in U /\ R \in SUBSET S /\ R = U \ {p}
        /\ SumOver(rows, U) = rows[p] + SumOver(rows, R)
    <3>1. p \in S /\ p \in U /\ R \in SUBSET S /\ R = U \ {p}
      BY <2>2, <2>4, <2>5, PickAndRest DEF Rest
    <3>2. \A s \in S : rows[s] \in Nat
      BY <1>2
    <3>3. SumOver(rows, U) = rows[Pick(U)] + SumOver(rows, Rest(U))
      BY <2>2, <2>4, <3>2, SumPicks
    <3> QED
      BY <2>5, <3>1, <3>3
  <2>7. PICK others, row : others = ColumnSums(F, R, T) /\ row = F[p]
    OBVIOUS
  <2>8. SumOver(rows, R) = SumOver(others, T)
    BY <2>1, <2>4, <2>5, <2>6, <2>7
  <2>9. \A t \in T : others[t] \in Nat /\ row[t] \in Nat /\ all[t] = row[t] + others[t]
    <3> SUFFICES ASSUME NEW t \in T
                 PROVE  others[t] \in Nat /\ row[t] \in Nat /\ all[t] = row[t] + others[t]
      OBVIOUS
    <3>1. PICK f, g : f = [s \in U |-> F[s][t]] /\ g = [s \in R |-> F[s][t]]
      OBVIOUS
    <3>2. /\ all[t] = SumOver(f, U) /\ IsFiniteSet(U) /\ \A s \in U : f[s] \in Nat
      BY <1>3, <2>2, <2>3, <3>1
    <3>3. /\ others[t] = SumOver(g, R) /\ SumOver(g, R) \in Nat
          /\ IsFiniteSet(R) /\ \A s \in R : g[s] \in Nat
      BY <1>3, <2>6, <2>7, <3>1
    <3>4. SumOver(f, U) = f[p] + SumOver(f, U \ {p})
      <4>1. IsFiniteSet(U) /\ p \in U /\ \A s \in U : f[s] \in Nat
        BY <2>6, <3>2
      <4> QED
        BY <4>1, SumTakes
    <3>5. \A s \in R : g[s] \in Nat /\ g[s] = f[s]
      BY <2>6, <3>1, <3>3
    <3>6. SumOver(g, R) = SumOver(f, R)
      BY <3>3, <3>5, SumOfSame
    <3>7. f[p] = row[t] /\ row[t] \in Nat
      BY <2>6, <2>7, <3>1
    <3> QED
      BY <2>6, <3>2, <3>3, <3>4, <3>6, <3>7
  <2>10. SumOver(all, T) = SumOver(row, T) + SumOver(others, T)
    BY <2>9, SumAdds
  <2>11. rows[p] = SumOver(row, T)
    BY <1>2, <2>6, <2>7
  <2> QED
    BY <2>2, <2>3, <2>6, <2>8, <2>10, <2>11
<1>5. Swaps(S)
  BY <1>4
<1> QED
  BY <1>1, <1>5

\* A union has at most as many elements as its sets together.
LEMMA UnionIsAtMostSum ==
  ASSUME NEW S, IsFiniteSet(S), NEW H, \A x \in S : IsFiniteSet(H[x]),
         NEW f, \A x \in S : f[x] = Cardinality(H[x])
  PROVE  /\ IsFiniteSet(UNION {H[x] : x \in S})
         /\ Cardinality(UNION {H[x] : x \in S}) <= SumOver(f, S)
<1> DEFINE All_(T) == UNION {H[x] : x \in T}
           AtMost(T) == IsFiniteSet(All_(T)) /\ Cardinality(All_(T)) <= SumOver(f, T)
           B == {T \in SUBSET S : ~AtMost(T)}
<1>1. \A x \in S : f[x] \in Nat
  BY FS_CardinalityType
<1>2. ASSUME B # {}
      PROVE  FALSE
  <2>1. PICK T \in B : T = {} \/ Rest(T) \notin B
    <3>1. B \in SUBSET SUBSET S
      OBVIOUS
    <3> HIDE DEF B
    <3> QED
      BY <1>2, <3>1, LeastSubset
  <2>2. T \in SUBSET S /\ ~AtMost(T)
    BY <2>1
  <2>3. T # {}
    <3>1. CASE T = {}
      <4>1. All_(T) = {}
        BY <3>1
      <4>2. SumOver(f, {}) = 0
        BY FS_EmptySet, SumOfNone
      <4> QED
        BY <2>2, <3>1, <4>1, <4>2, FS_EmptySet
    <3> QED
      BY <3>1
  <2>4. PICK p, R : p = Pick(T) /\ R = Rest(T)
    OBVIOUS
  <2>5. /\ p \in S /\ p \in T /\ R \in SUBSET S /\ R = T \ {p}
        /\ SumOver(f, T) = f[p] + SumOver(f, R) /\ f[p] \in Nat /\ SumOver(f, R) \in Nat
    <3>1. p \in S /\ p \in T /\ R \in SUBSET S /\ R = T \ {p}
      BY <2>2, <2>3, <2>4, PickAndRest DEF Rest
    <3>2. /\ SumOver(f, T) = f[Pick(T)] + SumOver(f, Rest(T))
          /\ f[Pick(T)] \in Nat /\ SumOver(f, Rest(T)) \in Nat
      BY <1>1, <2>2, <2>3, SumPicks
    <3> QED
      BY <2>4, <3>1, <3>2
  <2>6. AtMost(R)
    BY <2>1, <2>3, <2>4, <2>5
  <2>7. All_(T) = H[p] \union All_(R)
    BY <2>5
  <2>8. IsFiniteSet(H[p]) /\ Cardinality(H[p]) = f[p]
    BY <2>5
  <2> HIDE DEF All_
  <2>9. PICK A, C : A = H[p] /\ C = All_(R)
    OBVIOUS
  <2>10. IsFiniteSet(A) /\ IsFiniteSet(C)
    BY <2>6, <2>8, <2>9
  <2>11. /\ IsFiniteSet(A \union C) /\ Cardinality(A \intersect C) \in Nat
         /\ Cardinality(A) \in Nat /\ Cardinality(C) \in Nat
         /\ Cardinality(A \union C) = Cardinality(A) + Cardinality(C) - Cardinality(A \intersect C)
    BY <2>10, FS_Union, FS_Intersection, FS_CardinalityType
  <2>12. Cardinality(A) = f[p] /\ Cardinality(C) <= SumOver(f, R)
    BY <2>6, <2>8, <2>9
  <2>13. PICK u, i, a, c, m : u = Cardinality(A \union C) /\ i = Cardinality(A \intersect C)
                              /\ a = Cardinality(A) /\ c = Cardinality(C) /\ m = SumOver(f, R)
    OBVIOUS
  <2>14. u <= a + m
    BY <2>5, <2>11, <2>12, <2>13
  <2>15. Cardinality(All_(T)) <= SumOver(f, T) /\ IsFiniteSet(All_(T))
    BY <2>5, <2>7, <2>9, <2>11, <2>12, <2>13, <2>14
  <2> QED
    BY <2>2, <2>15
<1>3. AtMost(S)
  BY <1>2
<1> QED
  BY <1>3

-----------------------------------------------------------------------------
(***************************************************************************)
(* Batches.                                                                *)
(***************************************************************************)

\* A batch starts sound.
LEMMA EmptyIsSound == Sound(EmptyBatch)
  BY FS_EmptySet DEF Sound, Backed, EmptyBatch, NoViews, Batch

\* Adding two tables of counts gives a table of counts.
LEMMA PlusType ==
  ASSUME NEW S, NEW f \in [S -> Nat], NEW g \in [S -> Nat]
  PROVE  /\ Plus(f, g) \in [S -> Nat]
         /\ \A x \in S : Plus(f, g)[x] = f[x] + g[x]
  BY DEF Plus

\* The same, one level deeper.
LEMMA PlusPlusType ==
  ASSUME NEW S, NEW T, NEW f \in [S -> [T -> Nat]], NEW g \in [S -> [T -> Nat]]
  PROVE  /\ PlusPlus(f, g) \in [S -> [T -> Nat]]
         /\ \A x \in S, y \in T : PlusPlus(f, g)[x][y] = f[x][y] + g[x][y]
<1>1. \A x \in S : Plus(f[x], g[x]) \in [T -> Nat]
  BY PlusType
<1>2. \A x \in S, y \in T : Plus(f[x], g[x])[y] = f[x][y] + g[x][y]
  BY PlusType
<1>3. QED
  BY <1>1, <1>2 DEF PlusPlus

\* Merging a failed flush back keeps a batch sound.
LEMMA MergeIsSound ==
  ASSUME NEW b, Sound(b), NEW c, Sound(c)
  PROVE  Sound(Merge(b, c))
<1> DEFINE m == Merge(b, c)
<1>1. /\ b \in Batch /\ c \in Batch
      /\ Backed(b) /\ Backed(c)
      /\ IsFiniteSet(b.visitors) /\ IsFiniteSet(c.visitors)
  BY DEF Sound
<1>0. /\ b.views \in [Days -> [Routes -> Nat]] /\ c.views \in [Days -> [Routes -> Nat]]
      /\ b.referrers \in [Days -> [Hosts -> Nat]] /\ c.referrers \in [Days -> [Hosts -> Nat]]
      /\ b.bots \in [Days -> Nat] /\ c.bots \in [Days -> Nat]
      /\ b.visitors \subseteq Sighting /\ c.visitors \subseteq Sighting
  BY <1>1 DEF Batch
<1>2. /\ m.views = PlusPlus(b.views, c.views)
      /\ m.referrers = PlusPlus(b.referrers, c.referrers)
      /\ m.bots = Plus(b.bots, c.bots)
      /\ m.visitors = b.visitors \union c.visitors
  BY DEF Merge
<1>3. /\ PlusPlus(b.views, c.views) \in [Days -> [Routes -> Nat]]
      /\ \A d \in Days, r \in Routes :
           PlusPlus(b.views, c.views)[d][r] = b.views[d][r] + c.views[d][r]
  <2>1. PlusPlus(b.views, c.views) \in [Days -> [Routes -> Nat]]
    BY <1>0, PlusPlusType
  <2>2. ASSUME NEW d \in Days, NEW r \in Routes
        PROVE  PlusPlus(b.views, c.views)[d][r] = b.views[d][r] + c.views[d][r]
    BY <1>0, <2>2 DEF PlusPlus, Plus
  <2>3. QED
    BY <2>1, <2>2
<1>4. PlusPlus(b.referrers, c.referrers) \in [Days -> [Hosts -> Nat]]
  BY <1>0, PlusPlusType
<1>5. Plus(b.bots, c.bots) \in [Days -> Nat]
  BY <1>0, PlusType
<1>6. m \in Batch
  BY <1>0, <1>3, <1>4, <1>5 DEF Batch, Merge
<1>7. Backed(m)
  <2> SUFFICES ASSUME NEW v \in b.visitors \union c.visitors
               PROVE  m.views[v.day][v.route] > 0
    BY <1>2 DEF Backed
  <2>1. v.day \in Days /\ v.route \in Routes
    BY <1>0 DEF Sighting
  <2>2. b.views[v.day][v.route] \in Nat /\ c.views[v.day][v.route] \in Nat
    BY <1>0, <2>1
  <2>3. b.views[v.day][v.route] > 0 \/ c.views[v.day][v.route] > 0
    BY <1>1 DEF Backed
  <2>4. m.views[v.day][v.route] = b.views[v.day][v.route] + c.views[v.day][v.route]
    BY <1>2, <1>3, <2>1
  <2>5. QED
    BY <2>2, <2>3, <2>4
<1>8. IsFiniteSet(m.visitors)
  BY <1>1, <1>2, FS_Union
<1>9. QED
  BY <1>6, <1>7, <1>8 DEF Sound

\* Counting one view keeps a batch sound: the hash comes with its view.
LEMMA WithViewIsSound ==
  ASSUME NEW b, Sound(b), NEW q \in Request, NEW hash \in Hash \union {None},
         q.who \in Visitors
  PROVE  Sound(WithView(b, q, hash))
<1> DEFINE m == WithView(b, q, hash)
<1>1. /\ b.views \in [Days -> [Routes -> Nat]]
      /\ b.referrers \in [Days -> [Hosts -> Nat]]
      /\ b.bots \in [Days -> Nat]
      /\ b.visitors \subseteq Sighting
      /\ Backed(b) /\ IsFiniteSet(b.visitors)
      /\ b = [views |-> b.views, referrers |-> b.referrers, bots |-> b.bots,
              visitors |-> b.visitors]
  BY DEF Sound, Batch
<1>2. q.day \in Days /\ q.route \in Routes /\ q.host \in Hosts \union {NoHost}
  BY DEF Request
<1>3. /\ m.views = [b.views EXCEPT ![q.day][q.route] = @ + 1]
      /\ m.bots = b.bots
      /\ m.referrers = IF KeepsReferrer(b, q.day, q.host)
                         THEN [b.referrers EXCEPT ![q.day][q.host] = @ + 1]
                         ELSE b.referrers
      /\ m.visitors = IF hash # None /\ Cardinality(b.visitors) < MAX_VISITORS
                        THEN b.visitors \union {WithHash(q, hash)} ELSE b.visitors
      /\ m = [views |-> m.views, referrers |-> m.referrers, bots |-> m.bots,
              visitors |-> m.visitors]
  BY DEF WithView
<1>4. /\ m.views \in [Days -> [Routes -> Nat]]
      /\ m.views[q.day][q.route] > 0
      /\ \A d \in Days, r \in Routes : b.views[d][r] > 0 => m.views[d][r] > 0
  BY <1>1, <1>2, <1>3
<1>5. m.referrers \in [Days -> [Hosts -> Nat]]
  <2>1. CASE KeepsReferrer(b, q.day, q.host)
    <3>1. q.host \in Hosts
      BY <2>1, <1>2 DEF KeepsReferrer
    <3>2. QED
      BY <1>1, <1>2, <1>3, <2>1, <3>1
  <2>2. CASE ~KeepsReferrer(b, q.day, q.host)
    BY <1>1, <1>3, <2>2
  <2>3. QED
    BY <2>1, <2>2
<1>6. /\ m.visitors \subseteq Sighting
      /\ \A v \in m.visitors : v \in b.visitors \/ (v.day = q.day /\ v.route = q.route)
  <2>1. hash # None => WithHash(q, hash) \in Sighting
    BY <1>2 DEF WithHash, Sighting
  <2>2. WithHash(q, hash).day = q.day /\ WithHash(q, hash).route = q.route
    BY DEF WithHash
  <2>3. QED
    BY <1>1, <1>3, <2>1, <2>2
<1>7. IsFiniteSet(m.visitors)
  <2>1. IsFiniteSet(b.visitors \union {WithHash(q, hash)})
    BY <1>1, FS_AddElement
  <2>2. QED
    BY <1>1, <1>3, <2>1
<1>8. Backed(m)
  BY <1>1, <1>4, <1>6 DEF Backed, Sighting
<1>9. m \in Batch
  BY <1>1, <1>3, <1>4, <1>5, <1>6 DEF Batch
<1>10. QED
  BY <1>7, <1>8, <1>9 DEF Sound

-----------------------------------------------------------------------------
(***************************************************************************)
(* The transaction of a flush.                                             *)
(***************************************************************************)

\* Adding to a row of daily leaves it a row, as closed and as visited as it was,
\* and adds.
LEMMA RowPlusIsRow ==
  ASSUME NEW row, IsDailyRow(row), NEW x \in Nat, NEW n \in Nat
  PROVE  /\ IsDailyRow(RowPlus(row, x, n))
         /\ RowPlus(row, x, n).closed = row.closed
         /\ RowPlus(row, x, n).visitors = row.visitors
         /\ RowPlus(row, x, n).views = row.views + x
         /\ RowPlus(row, x, n).bots = row.bots + n
<1> DEFINE new == RowPlus(row, x, n)
<1>1. /\ row = [c \in DailyColumns |-> row[c]]
      /\ row.views \in Nat /\ row.visitors \in Nat /\ row.bots \in Nat /\ row.closed \in BOOLEAN
  BY DEF IsDailyRow
<1>2. /\ new = [c \in DailyColumns |-> new[c]]
      /\ new.bots = row.bots + n
      /\ new.views = row.views + x
      /\ new.closed = row.closed
      /\ new.visitors = row.visitors
  BY <1>1 DEF DailyColumns, RowPlus
<1> HIDE DEF new
<1>3. new.views \in Nat /\ new.visitors \in Nat /\ new.bots \in Nat /\ new.closed \in BOOLEAN
  BY <1>1, <1>2
<1>4. IsDailyRow(new)
  BY <1>2, <1>3, Zenon DEF IsDailyRow
<1>5. QED
  BY <1>2, <1>4 DEF new

\* Closing a row keeps it a row, and its counts.
LEMMA RowClosedIsRow ==
  ASSUME NEW row, IsDailyRow(row), NEW n \in Nat
  PROVE  /\ IsDailyRow(RowClosed(row, n)) /\ RowClosed(row, n).closed
         /\ RowClosed(row, n).views = row.views /\ RowClosed(row, n).bots = row.bots
         /\ RowClosed(row, n).visitors = n
<1> DEFINE new == RowClosed(row, n)
<1>1. row = [c \in DailyColumns |-> row[c]] /\ row.views \in Nat /\ row.bots \in Nat
  BY DEF IsDailyRow
<1>2. /\ new = [c \in DailyColumns |-> new[c]]
      /\ new.views = row.views /\ new.bots = row.bots
      /\ new.closed = TRUE /\ new.visitors = n
  BY <1>1 DEF DailyColumns, RowClosed
<1> HIDE DEF new
<1>3. new.views \in Nat /\ new.visitors \in Nat /\ new.bots \in Nat /\ new.closed \in BOOLEAN
  BY <1>1, <1>2
<1>4. IsDailyRow(new)
  BY <1>2, <1>3, Zenon DEF IsDailyRow
<1>5. QED
  BY <1>2, <1>4 DEF new

\* A day without a row starts open and unvisited.
LEMMA NewDayIsRow == IsDailyRow(NewDay) /\ ~NewDay.closed /\ NewDay.visitors = 0
  BY DEF NewDay, IsDailyRow, DailyColumns

\* The views a batch adds to a day are a sum.
LEMMA PagesServedIsSum ==
  ASSUME NEW b \in Batch, NEW d \in Days
  PROVE  /\ PagesServed(b, d) = SumOver(b.views[d], Routes \ {NOT_FOUND})
         /\ PagesServed(b, d) \in Nat
<1>1. PagesServed(b, d) = SumOver(b.views[d], Routes \ {NOT_FOUND})
  BY DEF PagesServed, MapThenSumSet, MapThenFoldSet, SumOver, Pick, IsSum
<1>2. PICK S : S = Routes \ {NOT_FOUND}
  OBVIOUS
<1>3. IsFiniteSet(S)
  BY <1>2, MetricsAssumption, FS_Difference DEF MetricsAssumption
<1>4. PICK f : f = b.views[d]
  OBVIOUS
<1>5. \A r \in S : f[r] \in Nat
  BY <1>2, <1>4 DEF Batch
<1>6. SumOver(f, S) \in Nat
  BY <1>3, <1>5, SumType
<1> QED
  BY <1>1, <1>2, <1>4, <1>6

\* What a day has before a batch is written.
Before(d) == IF d \in DOMAIN daily THEN daily[d] ELSE NewDay

\* The upserts of a batch add to every row and keep its state, and give each
\* day the batch recognised someone on a row.
LEMMA DailyPlusRows ==
  ASSUME TypeOK, NEW b, Sound(b)
  PROVE  LET rows == DailyPlus(daily, b)
         IN  /\ rows = [d \in DOMAIN rows |-> rows[d]]
             /\ DOMAIN daily \subseteq DOMAIN rows
             /\ DOMAIN rows \subseteq Days
             /\ \A d \in DOMAIN rows : IsDailyRow(rows[d])
             /\ \A d \in DOMAIN daily :
                  /\ rows[d].closed = daily[d].closed
                  /\ rows[d].visitors = daily[d].visitors
             /\ \A d \in DOMAIN rows : d \notin DOMAIN daily => ~rows[d].closed
             /\ \A d \in DOMAIN rows :
                  /\ rows[d].views = Before(d).views + PagesServed(b, d)
                  /\ rows[d].bots = Before(d).bots + b.bots[d]
             /\ \A v \in b.visitors : v.day \in DOMAIN rows
<1> DEFINE rows == DailyPlus(daily, b)
<1>1. /\ DOMAIN daily \subseteq Days
      /\ \A d \in DOMAIN daily : IsDailyRow(daily[d])
  BY DEF TypeOK
<1>2. TouchedDays(b) \subseteq Days
  BY DEF TouchedDays
<1>3. DOMAIN rows = DOMAIN daily \union TouchedDays(b)
  BY DEF DailyPlus
<1>4. ASSUME NEW d \in DOMAIN rows
      PROVE  /\ IsDailyRow(rows[d])
             /\ rows[d].closed = Before(d).closed
             /\ rows[d].visitors = Before(d).visitors
             /\ rows[d].views = Before(d).views + PagesServed(b, d)
             /\ rows[d].bots = Before(d).bots + b.bots[d]
  <2>1. IsDailyRow(Before(d))
    BY <1>1, NewDayIsRow DEF Before
  <2>2. d \in Days /\ b \in Batch /\ b.bots[d] \in Nat
    BY <1>1, <1>2, <1>3, <1>4 DEF Sound, Batch
  <2>3. PICK row, x, n : row = Before(d) /\ x = PagesServed(b, d) /\ n = b.bots[d]
    OBVIOUS
  <2>4. IsDailyRow(row) /\ x \in Nat /\ n \in Nat
    BY <2>1, <2>2, <2>3, PagesServedIsSum
  <2>5. rows[d] = RowPlus(row, x, n)
    BY <1>3, <1>4, <2>3 DEF DailyPlus, Before
  <2> HIDE DEF rows
  <2>6. /\ IsDailyRow(rows[d])
        /\ rows[d].closed = row.closed /\ rows[d].visitors = row.visitors
        /\ rows[d].views = row.views + x
        /\ rows[d].bots = row.bots + n
    <3>1. /\ IsDailyRow(RowPlus(row, x, n))
          /\ RowPlus(row, x, n).closed = row.closed
          /\ RowPlus(row, x, n).visitors = row.visitors
          /\ RowPlus(row, x, n).views = row.views + x
          /\ RowPlus(row, x, n).bots = row.bots + n
      BY <2>4, RowPlusIsRow, Zenon
    <3> QED
      BY <2>5, <3>1, Zenon
  <2>7. QED
    BY <2>3, <2>6
<1>5. ASSUME NEW v \in b.visitors
      PROVE  v.day \in DOMAIN rows
  <2>1. v.day \in Days /\ v.route \in Routes /\ b.views[v.day][v.route] > 0
    BY <1>5 DEF Sound, Backed, Batch, Sighting
  <2>2. v.day \in TouchedDays(b)
    BY <2>1 DEF TouchedDays
  <2>3. QED
    BY <2>2, <1>3
<1>6. rows = [d \in DOMAIN rows |-> rows[d]]
  BY DEF DailyPlus
<1>7. QED
  BY <1>1, <1>2, <1>3, <1>4, <1>5, <1>6, NewDayIsRow DEF Before

\* Counting the distinct hashes of a day gives a number.
LEMMA HashesCountable ==
  ASSUME NEW seen, IsFiniteSet(seen), NEW d, NEW routes
  PROVE  Cardinality(HashesOf(seen, d, routes)) \in Nat
<1> DEFINE S == {v \in seen : v.day = d /\ v.route \in routes}
<1> DEFINE T == HashesOf(seen, d, routes)
<1> DEFINE f == [v \in S |-> v.hash]
<1>1. IsFiniteSet(S)
  BY FS_Subset
<1>2. f \in Surjection(S, T)
  BY DEF Surjection, HashesOf
<1>3. IsFiniteSet(T)
  <2> HIDE DEF f, S, T
  <2>1. QED
    BY <1>1, <1>2, FS_Surjection
<1>4. QED
  BY <1>3, FS_CardinalityType

\* What the transaction of a flush leaves behind: tables of the same shape,
\* hashes of open days only, and the visitors of closed days as they were.
LEMMA WriteKeeps ==
  ASSUME TypeOK, IsFiniteSet(visitor_hashes), HashesDieWithTheirDay,
         NEW f \in Flush, Sound(f.batch), Write(f)
  PROVE  /\ page_views' \in [Days -> [Routes -> PageRow]]
         /\ daily' = [d \in DOMAIN daily' |-> daily'[d]] /\ DOMAIN daily' \subseteq Days
         /\ \A d \in DOMAIN daily' : IsDailyRow(daily'[d])
         /\ referrers' \in [Days -> [Hosts -> Nat]]
         /\ visitor_hashes' \subseteq Sighting
         /\ IsFiniteSet(visitor_hashes')
         /\ metrics_salt' \in [Days -> Nat \union {None}]
         /\ \A v \in visitor_hashes' : IsOpen(daily', v.day)
         /\ \A d \in Days : IsClosed(daily, d) =>
              /\ IsClosed(daily', d)
              /\ daily'[d].visitors = daily[d].visitors
              /\ \A r \in Routes :
                   page_views'[d][r].visitors = page_views[d][r].visitors
<1> DEFINE b == f.batch
<1> DEFINE open == OpenUntil(f.now)
<1> DEFINE rows == DailyPlus(daily, b)
<1> DEFINE pages == PagesPlus(page_views, b)
<1> DEFINE seen == visitor_hashes \union Recorded(rows, b)
<1> DEFINE closing == Closing(rows, open)
<1> DEFINE pageSeen(d, r) == Cardinality(HashesOf(seen, d, {r}))
<1> DEFINE daySeen(d) == Cardinality(HashesOf(seen, d, Routes \ {NOT_FOUND}))
<1>1. /\ page_views' = [d \in Days |-> [r \in Routes |->
           IF d \in closing THEN [pages[d][r] EXCEPT !.visitors = pageSeen(d, r)]
                            ELSE pages[d][r]]]
      /\ daily' = [d \in DOMAIN rows |->
           IF d \in closing THEN RowClosed(rows[d], daySeen(d)) ELSE rows[d]]
      /\ referrers' = PlusPlus(referrers, b.referrers)
      /\ visitor_hashes' = {v \in seen : ~(v.day < open)}
      /\ metrics_salt' = [d \in Days |-> IF d < open THEN None ELSE metrics_salt[d]]
  BY DEF Write
<1>2. /\ b.views \in [Days -> [Routes -> Nat]]
      /\ b.referrers \in [Days -> [Hosts -> Nat]]
      /\ b.visitors \subseteq Sighting /\ IsFiniteSet(b.visitors)
  BY DEF Sound, Batch
<1>3. /\ rows = [d \in DOMAIN rows |-> rows[d]]
      /\ DOMAIN daily \subseteq DOMAIN rows
      /\ DOMAIN rows \subseteq Days
      /\ \A d \in DOMAIN rows : IsDailyRow(rows[d])
      /\ \A d \in DOMAIN daily :
           /\ rows[d].closed = daily[d].closed
           /\ rows[d].visitors = daily[d].visitors
      /\ \A d \in DOMAIN rows : d \notin DOMAIN daily => ~rows[d].closed
      /\ \A v \in b.visitors : v.day \in DOMAIN rows
  BY DailyPlusRows, Zenon
<1>4. seen \subseteq Sighting /\ IsFiniteSet(seen)
  <2>1. Recorded(rows, b) \subseteq b.visitors
    BY DEF Recorded
  <2>2. IsFiniteSet(Recorded(rows, b))
    BY <1>2, <2>1, FS_Subset
  <2>3. IsFiniteSet(seen)
    BY <2>2, FS_Union
  <2>4. seen \subseteq Sighting
    BY <1>2, <2>1 DEF TypeOK
  <2>5. QED
    BY <2>3, <2>4
<1>5. \A d \in Days, r \in Routes : pageSeen(d, r) \in Nat /\ daySeen(d) \in Nat
  <2> HIDE DEF seen
  <2>1. QED
    BY <1>4, HashesCountable
<1>6. /\ pages \in [Days -> [Routes -> PageRow]]
      /\ \A d \in Days, r \in Routes : pages[d][r].visitors = page_views[d][r].visitors
  <2>1. ASSUME NEW d \in Days, NEW r \in Routes
        PROVE  /\ pages[d][r] \in PageRow
               /\ pages[d][r].visitors = page_views[d][r].visitors
    <3>1. page_views[d][r] \in PageRow /\ b.views[d][r] \in Nat
      BY <1>2, <2>1 DEF TypeOK
    <3>2. pages[d][r] = [page_views[d][r] EXCEPT !.views = @ + b.views[d][r]]
      BY <2>1 DEF PagesPlus
    <3>3. QED
      BY <3>1, <3>2 DEF PageRow
  <2>2. QED
    BY <2>1 DEF PagesPlus
<1>7. page_views' \in [Days -> [Routes -> PageRow]]
  <2>1. ASSUME NEW d \in Days, NEW r \in Routes
        PROVE  [pages[d][r] EXCEPT !.visitors = pageSeen(d, r)] \in PageRow
    <3> HIDE DEF pages, pageSeen, daySeen
    <3>1. pages[d][r] \in PageRow /\ pageSeen(d, r) \in Nat
      BY <1>5, <1>6, <2>1
    <3>2. QED
      BY <3>1 DEF PageRow
  <2> HIDE DEF pages, pageSeen, closing
  <2>2. QED
    BY <1>1, <1>6, <2>1
<1> HIDE DEF rows, pages, seen, closing, pageSeen, daySeen
<1>8. /\ DOMAIN daily' = DOMAIN rows
      /\ daily' = [d \in DOMAIN daily' |-> daily'[d]]
  BY <1>1
<1>9. \A d \in DOMAIN daily' : IsDailyRow(daily'[d])
  <2> SUFFICES ASSUME NEW d \in DOMAIN rows
               PROVE  IsDailyRow(IF d \in closing THEN RowClosed(rows[d], daySeen(d))
                                                  ELSE rows[d])
    BY <1>1, <1>8
  <2>1. IsDailyRow(rows[d])
    BY <1>3
  <2>2. CASE closing # {} /\ Routes # {}
    <3>1. daySeen(d) \in Nat
      BY <1>3, <1>5, <2>2
    <3>2. QED
      BY <2>1, <3>1, RowClosedIsRow
  <2>3. CASE closing = {}
    BY <2>1, <2>3
  <2>4. QED
    BY <2>2, <2>3, MetricsAssumption DEF MetricsAssumption
<1>10. referrers' \in [Days -> [Hosts -> Nat]]
  BY <1>1, <1>2, PlusPlusType DEF TypeOK
<1>11. visitor_hashes' \subseteq Sighting /\ IsFiniteSet(visitor_hashes')
  <2>1. visitor_hashes' \subseteq seen
    BY <1>1
  <2>2. QED
    BY <1>4, <2>1, FS_Subset
<1>12. metrics_salt' \in [Days -> Nat \union {None}]
  BY <1>1 DEF TypeOK
<1>13. ASSUME NEW v \in visitor_hashes'
       PROVE  IsOpen(daily', v.day)
  <2>1. v \in seen /\ ~(v.day < open)
    BY <1>1, <1>13
  <2>2. v.day \in DOMAIN rows /\ ~rows[v.day].closed
    <3>1. CASE v \in visitor_hashes
      BY <1>3, <3>1 DEF HashesDieWithTheirDay, IsOpen
    <3>2. CASE v \in Recorded(rows, b)
      BY <1>3, <3>2 DEF Recorded, IsClosed
    <3>3. QED
      BY <2>1, <3>1, <3>2 DEF seen
  <2>3. v.day \notin closing
    BY <2>1 DEF closing, Closing
  <2>4. daily'[v.day] = rows[v.day]
    BY <1>1, <2>2, <2>3
  <2>5. QED
    BY <1>8, <2>2, <2>4 DEF IsOpen
<1>14. ASSUME NEW d \in Days, IsClosed(daily, d)
       PROVE  /\ IsClosed(daily', d)
              /\ daily'[d].visitors = daily[d].visitors
              /\ \A r \in Routes :
                   page_views'[d][r].visitors = page_views[d][r].visitors
  <2>1. d \in DOMAIN daily /\ daily[d].closed
    BY <1>14 DEF IsClosed
  <2>2. d \in DOMAIN rows /\ rows[d].closed /\ rows[d].visitors = daily[d].visitors
    BY <1>3, <2>1
  <2>3. d \notin closing
    BY <2>2 DEF closing, Closing, IsOpen
  <2>4. daily'[d] = rows[d]
    BY <1>1, <2>2, <2>3
  <2>5. \A r \in Routes : page_views'[d][r] = pages[d][r]
    BY <1>1, <2>3
  <2>6. QED
    BY <1>6, <1>8, <2>2, <2>4, <2>5 DEF IsClosed
<1>15. QED
  BY <1>3, <1>7, <1>8, <1>9, <1>10, <1>11, <1>12, <1>13, <1>14

-----------------------------------------------------------------------------
(***************************************************************************)
(* The steps that leave the tables alone.                                  *)
(***************************************************************************)

\* What every step but the commit of a flush has to show: only memory, the
\* clock, the history and the salts have moved, and memory is still sound.
LEMMA MemoryStep ==
  ASSUME IInv,
         UNCHANGED <<page_views, daily, referrers, visitor_hashes>>,
         metrics_salt' \in [Days -> Nat \union {None}],
         clock' \in 0 .. MaxClock,
         phase' \in [Servers -> {"up", "draining", "stopping", "down"}],
         request' \in [Servers -> Request \union {None}],
         batch' \in [Servers -> Batch],
         \A s \in Servers : Sound(batch'[s]),
         cache' \in [Servers -> Salt \union {None}],
         flight' \in [Servers -> [Flushes -> Flush \union {None}]],
         \A s \in Servers, k \in Flushes :
           flight'[s][k] # None => Sound(flight'[s][k].batch),
         idle' \in [Servers -> Nat],
         counted' \in Counts,
         lost' \in Counts,
         came' \in [Days -> SUBSET (Routes \X Visitors)],
         visits' \in Nat, salts' \in Nat, fails' \in Nat, stops' \in Nat
  PROVE  IInv'
<1>1. TypeOK'
  BY DEF IInv, TypeOK
<1>2. IsFiniteSet(visitor_hashes') /\ HashesDieWithTheirDay'
  BY DEF IInv, HashesDieWithTheirDay
<1>3. QED
  BY <1>1, <1>2 DEF IInv

\* The initial state satisfies the invariant.
LEMMA InitSound == Init => IInv
<1> SUFFICES ASSUME Init PROVE IInv
  OBVIOUS
<1>1. Sound(EmptyBatch) /\ EmptyBatch \in Batch
  BY EmptyIsSound DEF Sound
<1>2. NoCounts \in Counts
  BY DEF NoViews, EmptyBatch, NoCounts, Counts
<1>3. clock \in 0 .. MaxClock
  BY MetricsAssumption DEF MetricsAssumption, Init
<1>4. TypeOK
  <2>1. daily = [d \in DOMAIN daily |-> daily[d]] /\ DOMAIN daily = {}
    BY DEF Init
  <2>2. page_views \in [Days -> [Routes -> PageRow]]
    BY DEF Init, PageRow
  <2>3. referrers \in [Days -> [Hosts -> Nat]]
    BY DEF Init, EmptyBatch
  <2>4. QED
    BY <1>1, <1>2, <1>3, <2>1, <2>2, <2>3 DEF Init, TypeOK
<1>5. IsFiniteSet(visitor_hashes)
  BY FS_EmptySet DEF Init
<1>6. QED
  BY <1>1, <1>4, <1>5 DEF IInv, Init, HashesDieWithTheirDay

\* Counting a view leaves the batch sound and the history typed.
LEMMA CountViewKeeps ==
  ASSUME IInv, NEW s \in Servers, request[s] # None, request[s].who \notin Bots,
         NEW hash \in Hash \union {None}, CountView(s, hash)
  PROVE  /\ batch' \in [Servers -> Batch]
         /\ \A t \in Servers : Sound(batch'[t])
         /\ request' \in [Servers -> Request \union {None}]
         /\ counted' \in Counts
         /\ came' \in [Days -> SUBSET (Routes \X Visitors)]
<1> DEFINE q == request[s]
<1>1. /\ q \in Request /\ q.who \in Visitors
      /\ q.day \in Days /\ q.route \in Routes
  <2>1. q \in Request
    BY DEF IInv, TypeOK
  <2>2. QED
    BY <2>1 DEF Request
<1>2. Sound(WithView(batch[s], q, hash))
  <2>1. Sound(batch[s])
    BY DEF IInv
  <2> HIDE DEF q
  <2>2. QED
    BY <1>1, <2>1, WithViewIsSound
<1>3. /\ batch' = [batch EXCEPT ![s] = WithView(batch[s], q, hash)]
      /\ batch \in [Servers -> Batch]
      /\ \A t \in Servers : Sound(batch[t])
  BY DEF CountView, IInv, TypeOK
<1>4. WithView(batch[s], q, hash) \in Batch
  BY <1>2, Zenon DEF Sound
<1>5. batch' \in [Servers -> Batch] /\ \A t \in Servers : Sound(batch'[t])
  <2> HIDE DEF q
  <2>1. QED
    BY <1>2, <1>3, <1>4
<1>6. request' \in [Servers -> Request \union {None}]
  BY DEF CountView, IInv, TypeOK
<1>7. counted' \in Counts
  <2>1. /\ counted.views \in [Days -> [Routes -> Nat]]
        /\ counted.referrers \in [Days -> [Hosts -> Nat]]
        /\ counted.bots \in [Days -> Nat]
    BY DEF IInv, TypeOK, Counts
  <2>2. /\ counted' = [views |-> counted'.views, referrers |-> counted'.referrers,
                       bots |-> counted'.bots]
        /\ counted'.bots = counted.bots
        /\ counted'.views = [counted.views EXCEPT ![q.day][q.route] = @ + 1]
        /\ counted'.referrers =
             IF KeepsReferrer(batch[s], q.day, q.host)
               THEN [counted.referrers EXCEPT ![q.day][q.host] = @ + 1]
               ELSE counted.referrers
    BY DEF CountView
  <2>3. KeepsReferrer(batch[s], q.day, q.host) => q.host \in Hosts
    BY <1>1 DEF KeepsReferrer, Request
  <2> HIDE DEF q
  <2>4. counted'.views \in [Days -> [Routes -> Nat]]
    BY <1>1, <2>1, <2>2
  <2>5. counted'.referrers \in [Days -> [Hosts -> Nat]]
    BY <1>1, <2>1, <2>2, <2>3
  <2>6. QED
    BY <2>1, <2>2, <2>4, <2>5 DEF Counts
<1>8. came' \in [Days -> SUBSET (Routes \X Visitors)]
  <2>1. came \in [Days -> SUBSET (Routes \X Visitors)]
    BY DEF IInv, TypeOK
  <2>2. came' = [came EXCEPT ![q.day] = @ \union {<<q.route, q.who>>}] \/ came' = came
    BY DEF CountView
  <2>3. <<q.route, q.who>> \in Routes \X Visitors
    BY <1>1
  <2> HIDE DEF q
  <2>4. QED
    BY <1>1, <2>1, <2>2, <2>3
<1>9. QED
  BY <1>5, <1>6, <1>7, <1>8

\* Taking a batch for a flush moves it, and leaves an empty one.
LEMMA TakeBatchKeeps ==
  ASSUME IInv, NEW s \in Servers, NEW k \in Flushes, TakeBatch(s, k)
  PROVE  /\ batch' \in [Servers -> Batch]
         /\ \A t \in Servers : Sound(batch'[t])
         /\ flight' \in [Servers -> [Flushes -> Flush \union {None}]]
         /\ \A t \in Servers, j \in Flushes :
              flight'[t][j] # None => Sound(flight'[t][j].batch)
<1> DEFINE taken == [batch |-> batch[s], now |-> clock, ticks |-> 0]
<1>1. /\ batch \in [Servers -> Batch] /\ \A t \in Servers : Sound(batch[t])
      /\ flight \in [Servers -> [Flushes -> Flush \union {None}]]
      /\ \A t \in Servers, j \in Flushes :
           flight[t][j] # None => Sound(flight[t][j].batch)
      /\ clock \in 0 .. MaxClock
  BY DEF IInv, TypeOK
<1>2. taken \in Flush /\ Sound(taken.batch)
  BY <1>1 DEF Flush
<1>3. /\ flight' = [flight EXCEPT ![s][k] = taken]
      /\ batch' = [batch EXCEPT ![s] = EmptyBatch]
  BY DEF TakeBatch
<1>4. Sound(EmptyBatch) /\ EmptyBatch \in Batch
  BY EmptyIsSound DEF Sound
<1> HIDE DEF taken
<1>5. QED
  BY <1>1, <1>2, <1>3, <1>4

\* What a process holds is sound, taken together.
LEMMA HeldIsSound ==
  ASSUME IInv, NEW s \in Servers
  PROVE  Sound(Held(s))
<1> DEFINE in(k) == IF flight[s][k] = None THEN EmptyBatch ELSE flight[s][k].batch
<1>1. \A k \in Flushes : Sound(in(k))
  BY EmptyIsSound DEF IInv
<1>2. Sound(in("periodic")) /\ Sound(in("final"))
  BY <1>1 DEF Flushes
<1>3. Sound(batch[s])
  BY DEF IInv
<1> HIDE DEF in
<1>4. Sound(Merge(in("periodic"), in("final")))
  BY <1>2, MergeIsSound
<1>5. Sound(Merge(batch[s], Merge(in("periodic"), in("final"))))
  BY <1>3, <1>4, MergeIsSound
<1>6. QED
  BY <1>5 DEF Held, in

\* The end of a process empties its memory.
LEMMA DiesKeeps ==
  ASSUME IInv, NEW s \in Servers, Dies(s)
  PROVE  /\ phase' \in [Servers -> {"up", "draining", "stopping", "down"}]
         /\ lost' \in Counts
         /\ request' \in [Servers -> Request \union {None}]
         /\ batch' \in [Servers -> Batch]
         /\ \A t \in Servers : Sound(batch'[t])
         /\ cache' \in [Servers -> Salt \union {None}]
         /\ flight' \in [Servers -> [Flushes -> Flush \union {None}]]
         /\ \A t \in Servers, j \in Flushes :
              flight'[t][j] # None => Sound(flight'[t][j].batch)
         /\ idle' \in [Servers -> Nat]
<1>1. lost' \in Counts
  <2>1. /\ Held(s).views \in [Days -> [Routes -> Nat]]
        /\ Held(s).referrers \in [Days -> [Hosts -> Nat]]
        /\ Held(s).bots \in [Days -> Nat]
    BY HeldIsSound DEF Sound, Batch
  <2>2. /\ lost.views \in [Days -> [Routes -> Nat]]
        /\ lost.referrers \in [Days -> [Hosts -> Nat]]
        /\ lost.bots \in [Days -> Nat]
    BY DEF IInv, TypeOK, Counts
  <2>3. /\ PlusPlus(lost.views, Held(s).views) \in [Days -> [Routes -> Nat]]
        /\ PlusPlus(lost.referrers, Held(s).referrers) \in [Days -> [Hosts -> Nat]]
    BY <2>1, <2>2, PlusPlusType
  <2>4. Plus(lost.bots, Held(s).bots) \in [Days -> Nat]
    BY <2>1, <2>2, PlusType
  <2>5. lost' = [views     |-> PlusPlus(lost.views, Held(s).views),
                 referrers |-> PlusPlus(lost.referrers, Held(s).referrers),
                 bots      |-> Plus(lost.bots, Held(s).bots)]
    BY DEF Dies
  <2>6. QED
    BY <2>3, <2>4, <2>5 DEF Counts
<1>2. Sound(EmptyBatch) /\ EmptyBatch \in Batch
  BY EmptyIsSound DEF Sound
<1>3. /\ batch' \in [Servers -> Batch]
      /\ \A t \in Servers : Sound(batch'[t])
  BY <1>2 DEF Dies, IInv, TypeOK
<1>4. /\ flight' \in [Servers -> [Flushes -> Flush \union {None}]]
      /\ \A t \in Servers, j \in Flushes :
           flight'[t][j] # None => Sound(flight'[t][j].batch)
  BY DEF Dies, IInv, TypeOK
<1>5. QED
  BY <1>1, <1>3, <1>4 DEF Dies, IInv, TypeOK

-----------------------------------------------------------------------------
(***************************************************************************)
(* The invariant is inductive.                                             *)
(***************************************************************************)

\* Counting, answering and dropping requests.
LEMMA RequestSteps ==
  ASSUME IInv, NEW s \in Servers,
         \/ Arrive(s) \/ Abandon(s) \/ CountBot(s) \/ CountKnown(s)
         \/ InsertSalt(s) \/ SelectSalt(s) \/ SaltFails(s)
  PROVE  IInv'
<1> USE DEF vars, tables, memory, history
<1>1. CASE Arrive(s)
  <2>1. request' \in [Servers -> Request \union {None}]
    <3>1. PICK v \in Visits : request' = [request EXCEPT ![s] =
            [day |-> day(clock), route |-> v.route, who |-> v.who, host |-> v.host,
             step |-> "respond", ticks |-> 0]]
      BY <1>1 DEF Arrive
    <3>2. v.route \in Routes /\ v.who \in Visitors \union Bots
            /\ v.host \in Hosts \union {NoHost}
      BY MetricsAssumption DEF MetricsAssumption, Visits
    <3>3. day(clock) \in Days
      BY DEF Days, IInv, TypeOK
    <3>4. [day |-> day(clock), route |-> v.route, who |-> v.who, host |-> v.host,
           step |-> "respond", ticks |-> 0] \in Request
      BY <3>2, <3>3 DEF Request
    <3>5. request \in [Servers -> Request \union {None}]
      BY DEF IInv, TypeOK
    <3>6. QED
      BY <3>1, <3>4, <3>5
  <2>2. visits' \in Nat
    BY <1>1 DEF Arrive, IInv, TypeOK
  <2>3. QED
    BY <1>1, <2>1, <2>2, MemoryStep DEF Arrive, IInv, TypeOK
<1>2. CASE Abandon(s)
  <2>1. request' \in [Servers -> Request \union {None}]
    BY <1>2 DEF Abandon, IInv, TypeOK
  <2>2. QED
    BY <1>2, <2>1, MemoryStep DEF Abandon, IInv, TypeOK
<1>3. CASE CountBot(s)
  <2> DEFINE d == request[s].day
  <2> DEFINE b == batch[s]
  <2>1. d \in Days
    BY <1>3 DEF CountBot, IInv, TypeOK, Request
  <2>2. Sound(b) /\ b \in Batch
    BY DEF IInv, Sound
  <2>3. Sound([b EXCEPT !.bots[d] = @ + 1])
    <3>1. b.bots \in [Days -> Nat] /\ Backed(b) /\ IsFiniteSet(b.visitors)
      BY <2>2 DEF Sound, Batch
    <3> DEFINE plus == [b.bots EXCEPT ![d] = @ + 1]
    <3>2. plus \in [Days -> Nat]
      BY <2>1, <3>1
    <3> DEFINE new == [b EXCEPT !.bots = plus]
    <3> HIDE DEF plus, b
    <3>3. new \in Batch /\ new.views = b.views /\ new.visitors = b.visitors
      BY <2>2, <3>2 DEF Batch
    <3>4. Sound(new)
      BY <3>1, <3>3 DEF Sound, Backed
    <3>5. QED
      BY <3>4 DEF plus
  <2>4. batch' = [batch EXCEPT ![s] = [b EXCEPT !.bots[d] = @ + 1]]
    BY <1>3 DEF CountBot
  <2>5. batch' \in [Servers -> Batch] /\ \A t \in Servers : Sound(batch'[t])
    <3>1. batch \in [Servers -> Batch] /\ \A t \in Servers : Sound(batch[t])
      BY DEF IInv, TypeOK
    <3> DEFINE new == [b EXCEPT !.bots[d] = @ + 1]
    <3>2. Sound(new) /\ new \in Batch
      BY <2>3 DEF Sound
    <3> HIDE DEF new
    <3>3. batch' = [batch EXCEPT ![s] = new]
      BY <2>4 DEF new
    <3>4. QED
      BY <3>1, <3>2, <3>3
  <2>6. counted' \in Counts
    <3> DEFINE plus == [counted.bots EXCEPT ![d] = @ + 1]
    <3>1. counted \in Counts /\ counted.bots \in [Days -> Nat]
      BY DEF IInv, TypeOK, Counts
    <3>2. counted' = [counted EXCEPT !.bots = plus]
      BY <1>3 DEF CountBot
    <3>3. plus \in [Days -> Nat]
      BY <2>1, <3>1
    <3> HIDE DEF plus
    <3>4. QED
      BY <3>1, <3>2, <3>3 DEF Counts
  <2>7. request' \in [Servers -> Request \union {None}]
    BY <1>3 DEF CountBot, IInv, TypeOK
  <2>8. QED
    BY <1>3, <2>5, <2>6, <2>7, MemoryStep DEF CountBot, IInv, TypeOK
<1>4. CASE CountKnown(s)
  <2> DEFINE hash == [who |-> request[s].who, salt |-> cache[s].salt]
  <2>1. hash \in Hash
    BY <1>4 DEF CountKnown, HasSalt, Hash, IInv, TypeOK, Request, Salt
  <2>2. CountView(s, hash) /\ request[s] # None /\ request[s].who \notin Bots
    BY <1>4 DEF CountKnown
  <2>3. /\ batch' \in [Servers -> Batch] /\ \A t \in Servers : Sound(batch'[t])
        /\ request' \in [Servers -> Request \union {None}]
        /\ counted' \in Counts
        /\ came' \in [Days -> SUBSET (Routes \X Visitors)]
    <3> HIDE DEF hash
    <3>1. QED
      BY <2>1, <2>2, CountViewKeeps
  <2>4. QED
    BY <1>4, <2>3, MemoryStep DEF CountKnown, IInv, TypeOK
<1>5. CASE InsertSalt(s)
  <2> DEFINE q == request[s]
  <2>1. /\ q \in Request /\ q.who \notin Bots
        /\ request \in [Servers -> Request \union {None}]
        /\ request' = [request EXCEPT ![s] = [q EXCEPT !.step = "select"]]
    BY <1>5 DEF InsertSalt, IInv, TypeOK
  <2>2. [q EXCEPT !.step = "select"] \in Request /\ q.day \in Days
    BY <2>1 DEF Request
  <2>3. request' \in [Servers -> Request \union {None}]
    <3> HIDE DEF q
    <3>1. QED
      BY <2>1, <2>2
  <2>4. metrics_salt \in [Days -> Nat \union {None}] /\ salts \in Nat
    BY DEF IInv, TypeOK
  <2>5. \/ /\ metrics_salt' = [metrics_salt EXCEPT ![q.day] = salts + 1]
           /\ salts' = salts + 1
        \/ metrics_salt' = metrics_salt /\ salts' = salts
    BY <1>5, Zenon DEF InsertSalt
  <2>6. metrics_salt' \in [Days -> Nat \union {None}] /\ salts' \in Nat
    <3> HIDE DEF q
    <3>1. QED
      BY <2>2, <2>4, <2>5
  <2>7. QED
    BY <1>5, <2>3, <2>6, MemoryStep DEF InsertSalt, IInv, TypeOK
<1>6. CASE SelectSalt(s)
  <2> DEFINE d == request[s].day
  <2> DEFINE salt == metrics_salt[d]
  <2> DEFINE hash == IF salt = None THEN None ELSE [who |-> request[s].who, salt |-> salt]
  <2>1. request[s] \in Request
    BY <1>6 DEF SelectSalt, IInv, TypeOK
  <2>2. salt \in Nat \union {None} /\ d \in Days
    BY <2>1 DEF IInv, TypeOK, Request
  <2>3. request[s] # None /\ request[s].who \in Visitors /\ request[s].who \notin Bots
    BY <1>6, <2>1, MetricsAssumption DEF SelectSalt, Request, MetricsAssumption
  <2>4. hash \in Hash \union {None}
    BY <2>1, <2>2, <2>3 DEF Request, Hash
  <2>5. CountView(s, hash)
    <3>1. CASE salt = None
      BY <1>6, <3>1 DEF SelectSalt
    <3>2. CASE salt # None
      BY <1>6, <3>2 DEF SelectSalt
    <3>3. QED
      BY <3>1, <3>2
  <2>6. cache' \in [Servers -> Salt \union {None}]
    <3>1. cache \in [Servers -> Salt \union {None}]
      BY DEF IInv, TypeOK
    <3>2. CASE salt = None
      BY <1>6, <3>1, <3>2 DEF SelectSalt
    <3>3. CASE salt # None
      <4>1. cache' = [cache EXCEPT ![s] = [day |-> d, salt |-> salt]]
        BY <1>6, <3>3 DEF SelectSalt
      <4> HIDE DEF d, salt
      <4>2. QED
        BY <2>2, <3>1, <3>3, <4>1 DEF Salt
    <3>4. QED
      BY <3>2, <3>3
  <2>7. /\ batch' \in [Servers -> Batch] /\ \A t \in Servers : Sound(batch'[t])
        /\ request' \in [Servers -> Request \union {None}]
        /\ counted' \in Counts
        /\ came' \in [Days -> SUBSET (Routes \X Visitors)]
    <3> HIDE DEF hash
    <3>1. QED
      BY <2>3, <2>4, <2>5, CountViewKeeps
  <2>8. QED
    BY <1>6, <2>6, <2>7, MemoryStep DEF SelectSalt, IInv, TypeOK
<1>7. CASE SaltFails(s)
  <2>1. CountView(s, None) /\ request[s] # None /\ request[s].who \notin Bots
    BY <1>7 DEF SaltFails
  <2>2. /\ batch' \in [Servers -> Batch] /\ \A t \in Servers : Sound(batch'[t])
        /\ request' \in [Servers -> Request \union {None}]
        /\ counted' \in Counts
        /\ came' \in [Days -> SUBSET (Routes \X Visitors)]
    BY <2>1, CountViewKeeps
  <2>3. QED
    BY <1>7, <2>2, MemoryStep DEF SaltFails, IInv, TypeOK
<1>8. QED
  BY <1>1, <1>2, <1>3, <1>4, <1>5, <1>6, <1>7

\* Beginning, failing and ending flushes without a commit.
LEMMA FlushSteps ==
  ASSUME IInv, NEW s \in Servers,
         \/ PeriodicFlush(s) \/ FinalFlush(s)
         \/ \E k \in Flushes : FlushFails(s, k)
  PROVE  IInv'
<1> USE DEF vars, tables, memory, history
<1>1. CASE PeriodicFlush(s)
  <2>1. TakeBatch(s, "periodic") /\ "periodic" \in Flushes
    BY <1>1 DEF PeriodicFlush, Flushes
  <2>2. /\ batch' \in [Servers -> Batch] /\ \A t \in Servers : Sound(batch'[t])
        /\ flight' \in [Servers -> [Flushes -> Flush \union {None}]]
        /\ \A t \in Servers, j \in Flushes :
             flight'[t][j] # None => Sound(flight'[t][j].batch)
    BY <2>1, TakeBatchKeeps
  <2>3. idle' \in [Servers -> Nat]
    BY <1>1 DEF PeriodicFlush, IInv, TypeOK
  <2>4. QED
    BY <1>1, <2>2, <2>3, MemoryStep DEF PeriodicFlush, IInv, TypeOK
<1>2. CASE FinalFlush(s)
  <2>1. TakeBatch(s, "final") /\ "final" \in Flushes
    BY <1>2 DEF FinalFlush, Flushes
  <2>2. /\ batch' \in [Servers -> Batch] /\ \A t \in Servers : Sound(batch'[t])
        /\ flight' \in [Servers -> [Flushes -> Flush \union {None}]]
        /\ \A t \in Servers, j \in Flushes :
             flight'[t][j] # None => Sound(flight'[t][j].batch)
    BY <2>1, TakeBatchKeeps
  <2>3. phase' \in [Servers -> {"up", "draining", "stopping", "down"}]
    BY <1>2 DEF FinalFlush, IInv, TypeOK
  <2>4. QED
    BY <1>2, <2>2, <2>3, MemoryStep DEF FinalFlush, IInv, TypeOK
<1>3. ASSUME NEW k \in Flushes, FlushFails(s, k)
      PROVE  IInv'
  <2> DEFINE merged == Merge(batch[s], flight[s][k].batch)
  <2>1. Sound(batch[s]) /\ Sound(flight[s][k].batch)
    BY <1>3 DEF FlushFails, IInv
  <2>2. Sound(merged) /\ merged \in Batch
    <3>1. Sound(merged)
      BY <2>1, MergeIsSound
    <3>2. QED
      BY <3>1 DEF Sound
  <2>3. /\ batch' \in [Servers -> Batch] /\ \A t \in Servers : Sound(batch'[t])
    <3>1. /\ batch \in [Servers -> Batch] /\ \A t \in Servers : Sound(batch[t])
          /\ batch' = [batch EXCEPT ![s] = merged]
      BY <1>3 DEF FlushFails, IInv, TypeOK
    <3> HIDE DEF merged
    <3>2. QED
      BY <2>2, <3>1
  <2>4. /\ flight' \in [Servers -> [Flushes -> Flush \union {None}]]
        /\ \A t \in Servers, j \in Flushes :
             flight'[t][j] # None => Sound(flight'[t][j].batch)
    BY <1>3 DEF FlushFails, IInv, TypeOK
  <2>5. fails' \in Nat
    BY <1>3 DEF FlushFails, IInv, TypeOK
  <2>6. QED
    BY <1>3, <2>3, <2>4, <2>5, MemoryStep DEF FlushFails, IInv, TypeOK
<1>4. QED
  BY <1>1, <1>2, <1>3

\* The life of a process, and the passing of time.
LEMMA LifeSteps ==
  ASSUME IInv,
         \/ Tick
         \/ \E s \in Servers : Terminate(s) \/ Exit(s) \/ Crash(s) \/ Boot(s)
  PROVE  IInv'
<1> USE DEF vars, tables, memory, history
<1>1. ASSUME NEW s \in Servers, Terminate(s) \/ Boot(s)
      PROVE  IInv'
  <2>1. phase' \in [Servers -> {"up", "draining", "stopping", "down"}]
    BY <1>1 DEF Terminate, Boot, IInv, TypeOK
  <2>2. stops' \in Nat
    BY <1>1 DEF Terminate, Boot, IInv, TypeOK
  <2>3. QED
    BY <1>1, <2>1, <2>2, MemoryStep DEF Terminate, Boot, IInv, TypeOK
<1>2. ASSUME NEW s \in Servers, Exit(s) \/ Crash(s)
      PROVE  IInv'
  <2>1. Dies(s)
    BY <1>2 DEF Exit, Crash
  <2>2. /\ phase' \in [Servers -> {"up", "draining", "stopping", "down"}]
        /\ lost' \in Counts
        /\ request' \in [Servers -> Request \union {None}]
        /\ batch' \in [Servers -> Batch]
        /\ \A t \in Servers : Sound(batch'[t])
        /\ cache' \in [Servers -> Salt \union {None}]
        /\ flight' \in [Servers -> [Flushes -> Flush \union {None}]]
        /\ \A t \in Servers, j \in Flushes :
             flight'[t][j] # None => Sound(flight'[t][j].batch)
        /\ idle' \in [Servers -> Nat]
    BY <2>1, DiesKeeps
  <2>3. stops' \in Nat
    BY <1>2 DEF Exit, Crash, IInv, TypeOK
  <2>4. QED
    BY <1>2, <2>2, <2>3, MemoryStep DEF Exit, Crash, IInv, TypeOK
<1>3. CASE Tick
  <2>1. clock' \in 0 .. MaxClock
    BY <1>3, MetricsAssumption DEF Tick, IInv, TypeOK, MetricsAssumption
  <2>2. idle' \in [Servers -> Nat]
    BY <1>3 DEF Tick, IInv, TypeOK
  <2>3. request' \in [Servers -> Request \union {None}]
    <3>1. ASSUME NEW s \in Servers, request[s] # None
          PROVE  [request[s] EXCEPT !.ticks = @ + 1] \in Request
      <4>1. request[s] \in Request
        BY <3>1 DEF IInv, TypeOK
      <4>2. QED
        BY <4>1 DEF Request
    <3>2. QED
      BY <1>3, <3>1 DEF Tick
  <2>4. /\ flight' \in [Servers -> [Flushes -> Flush \union {None}]]
        /\ \A t \in Servers, j \in Flushes :
             flight'[t][j] # None => Sound(flight'[t][j].batch)
    <3> DEFINE older(t, j) == [flight[t][j] EXCEPT !.ticks = @ + 1]
    <3>1. ASSUME NEW t \in Servers, NEW j \in Flushes, flight[t][j] # None
          PROVE  /\ older(t, j) \in Flush
                 /\ Sound(older(t, j).batch)
      <4>1. flight[t][j] \in Flush /\ Sound(flight[t][j].batch)
        BY <3>1 DEF IInv, TypeOK
      <4>2. older(t, j) \in Flush /\ older(t, j).batch = flight[t][j].batch
        BY <4>1 DEF Flush
      <4>3. QED
        BY <4>1, <4>2
    <3>2. flight' = [t \in Servers |-> [j \in Flushes |->
            IF flight[t][j] = None THEN None ELSE older(t, j)]]
      BY <1>3 DEF Tick
    <3> HIDE DEF older
    <3>3. QED
      BY <3>1, <3>2
  <2>5. QED
    BY <1>3, <2>1, <2>2, <2>3, <2>4, MemoryStep DEF Tick, IInv, TypeOK
<1>4. QED
  BY <1>1, <1>2, <1>3

\* The commit of a flush.
LEMMA CommitStep ==
  ASSUME IInv, NEW s \in Servers, NEW k \in Flushes, FlushCommits(s, k)
  PROVE  /\ IInv'
         /\ \A d \in Days : IsClosed(daily, d) =>
              /\ IsClosed(daily', d)
              /\ daily'[d].visitors = daily[d].visitors
              /\ \A r \in Routes :
                   page_views'[d][r].visitors = page_views[d][r].visitors
<1> DEFINE f == flight[s][k]
<1>1. f \in Flush /\ Sound(f.batch) /\ Write(f)
  BY DEF FlushCommits, IInv, TypeOK
<1>2. TypeOK /\ IsFiniteSet(visitor_hashes) /\ HashesDieWithTheirDay
  BY DEF IInv
<1> HIDE DEF f
<1>3. /\ page_views' \in [Days -> [Routes -> PageRow]]
      /\ daily' = [d \in DOMAIN daily' |-> daily'[d]] /\ DOMAIN daily' \subseteq Days
      /\ \A d \in DOMAIN daily' : IsDailyRow(daily'[d])
      /\ referrers' \in [Days -> [Hosts -> Nat]]
      /\ visitor_hashes' \subseteq Sighting
      /\ IsFiniteSet(visitor_hashes')
      /\ metrics_salt' \in [Days -> Nat \union {None}]
      /\ \A v \in visitor_hashes' : IsOpen(daily', v.day)
      /\ \A d \in Days : IsClosed(daily, d) =>
           /\ IsClosed(daily', d)
           /\ daily'[d].visitors = daily[d].visitors
           /\ \A r \in Routes :
                page_views'[d][r].visitors = page_views[d][r].visitors
  BY <1>1, <1>2, WriteKeeps
<1>4. /\ flight' \in [Servers -> [Flushes -> Flush \union {None}]]
      /\ \A t \in Servers, j \in Flushes :
           flight'[t][j] # None => Sound(flight'[t][j].batch)
  BY DEF FlushCommits, IInv, TypeOK
<1>5. UNCHANGED <<clock, phase, request, batch, cache, idle,
                  counted, lost, came, visits, salts, fails, stops>>
  BY DEF FlushCommits, history
<1>6. TypeOK'
  BY <1>2, <1>3, <1>4, <1>5 DEF TypeOK
<1>7. HashesDieWithTheirDay'
  BY <1>3 DEF HashesDieWithTheirDay
<1>8. \A t \in Servers : Sound(batch'[t])
  BY <1>5 DEF IInv
<1>9. QED
  BY <1>3, <1>4, <1>6, <1>7, <1>8 DEF IInv

\* Only a commit touches the tables that state a day.
LEMMA OnlyCommitsWrite ==
  ASSUME [Next]_vars,
         ~ \E s \in Servers, k \in Flushes : FlushCommits(s, k)
  PROVE  UNCHANGED <<page_views, daily, referrers>>
<1> USE DEF vars, tables, memory, history
<1>1. CASE Tick
  BY <1>1 DEF Tick
<1>2. ASSUME NEW s \in Servers, Owed(s)
      PROVE  UNCHANGED <<page_views, daily, referrers>>
  BY <1>2 DEF Owed, CountBot, CountKnown, InsertSalt, SelectSalt, PeriodicFlush,
              FinalFlush, Exit, Boot, Flushes
<1>3. ASSUME NEW s \in Servers, Environment(s)
      PROVE  UNCHANGED <<page_views, daily, referrers>>
  BY <1>3 DEF Environment, Arrive, Abandon, SaltFails, FlushFails, Terminate, Crash
<1>4. CASE UNCHANGED vars
  BY <1>4
<1>5. QED
  BY <1>1, <1>2, <1>3, <1>4 DEF Next

\* Every step keeps the invariant.
LEMMA StepSound == IInv /\ [Next]_vars => IInv'
<1> SUFFICES ASSUME IInv, [Next]_vars PROVE IInv'
  OBVIOUS
<1>1. CASE Tick
  BY <1>1, LifeSteps
<1>2. ASSUME NEW s \in Servers, Owed(s)
      PROVE  IInv'
  <2>1. CASE CountBot(s) \/ CountKnown(s) \/ InsertSalt(s) \/ SelectSalt(s)
    BY <2>1, RequestSteps
  <2>2. CASE PeriodicFlush(s) \/ FinalFlush(s)
    BY <2>2, FlushSteps
  <2>3. CASE FlushCommits(s, "periodic") \/ FlushCommits(s, "final")
    BY <2>3, CommitStep DEF Flushes
  <2>4. CASE Exit(s) \/ Boot(s)
    BY <2>4, LifeSteps
  <2>5. QED
    BY <1>2, <2>1, <2>2, <2>3, <2>4 DEF Owed
<1>3. ASSUME NEW s \in Servers, Environment(s)
      PROVE  IInv'
  <2>1. CASE Arrive(s) \/ Abandon(s) \/ SaltFails(s)
    BY <2>1, RequestSteps
  <2>2. CASE FlushFails(s, "periodic") \/ FlushFails(s, "final")
    BY <2>2, FlushSteps DEF Flushes
  <2>3. CASE Terminate(s) \/ Crash(s)
    BY <2>3, LifeSteps
  <2>4. QED
    BY <1>3, <2>1, <2>2, <2>3 DEF Environment
<1>4. CASE UNCHANGED vars
  BY <1>4, MemoryStep DEF vars, tables, memory, history, IInv, TypeOK
<1>5. QED
  BY <1>1, <1>2, <1>3, <1>4 DEF Next

-----------------------------------------------------------------------------
(***************************************************************************)
(* The theorems.                                                           *)
(***************************************************************************)

\* Every behaviour keeps the inductive invariant.
THEOREM Invariance == Spec => []IInv
  BY InitSound, StepSound, PTL DEF Spec

\* The variables keep their shape, however many servers write at once.
THEOREM TypeCorrect == Spec => []TypeOK
<1>1. IInv => TypeOK
  BY DEF IInv
<1>2. QED
  BY <1>1, Invariance, PTL

\* No visitor's hash is kept once its day is closed, whatever flush of
\* whatever server comes late, fails, is tried again or dies.
THEOREM HashesDie == Spec => []HashesDieWithTheirDay
<1>1. IInv => HashesDieWithTheirDay
  BY DEF IInv
<1>2. QED
  BY <1>1, Invariance, PTL

\* A closed day stays closed, and its visitors are never counted again.
THEOREM VisitorsFrozen == Spec => ClosedVisitorsFrozen
<1> DEFINE Frozen == \A d \in Days : IsClosed(daily, d) =>
       /\ IsClosed(daily', d)
       /\ daily'[d].visitors = daily[d].visitors
       /\ \A r \in Routes : page_views'[d][r].visitors = page_views[d][r].visitors
<1>1. IInv /\ [Next]_vars => [Frozen]_vars
  <2> SUFFICES ASSUME IInv, [Next]_vars PROVE Frozen
    OBVIOUS
  <2>1. CASE \E s \in Servers, k \in Flushes : FlushCommits(s, k)
    BY <2>1, CommitStep
  <2>2. CASE ~ \E s \in Servers, k \in Flushes : FlushCommits(s, k)
    BY <2>2, OnlyCommitsWrite DEF IsClosed
  <2>3. QED
    BY <2>1, <2>2
<1>2. QED
  BY <1>1, Invariance, PTL DEF Spec, ClosedVisitorsFrozen

-----------------------------------------------------------------------------
(***************************************************************************)
(* What a server may hold.  A batch that counting keeps to the caps holds  *)
(* one unit, and so does, while there is none, each of the two flushes; a  *)
(* batch taken brings its units to the flush, and leaves one; a commit     *)
(* leaves one of them; a merge adds up.  Only a merge makes the units a    *)
(* server has more than three, by one for the write that failed, and two   *)
(* of them are never the batch's.                                          *)
(***************************************************************************)
\* The referring hosts a batch names, of its days.
Referred(b) == {p \in Days \X Hosts : b.referrers[p[1]][p[2]] > 0}

\* A batch that holds no more than u batches that are cut to the caps.
Within(b, u) ==
  /\ IsFiniteSet(Referred(b)) /\ Cardinality(Referred(b)) <= MAX_REFERRERS * u
  /\ IsFiniteSet(b.visitors) /\ Cardinality(b.visitors) <= MAX_VISITORS * u

\* How many a flush holds, if it is under way.
InFlight(s, k, u) == IF flight[s][k] = None THEN u = 1 ELSE Within(flight[s][k].batch, u)

\* A server holds as many as writes failed, and one, and one for each flush.
Budget(s) ==
  \E u, p, f \in Nat \ {0} :
    /\ Within(batch[s], u) /\ InFlight(s, "periodic", p) /\ InFlight(s, "final", f)
    /\ u + p + f <= fails + 3

\* The last flush is the last thing a process begins.
FinalIsLast == \A s \in Servers : phase[s] # "stopping" => flight[s]["final"] = None

\* The inductive invariant, over IInv.
MemoryInv == IInv /\ FinalIsLast /\ \A s \in Servers : Budget(s)

\* Two batches together hold as many as both.
LEMMA MergeWithin ==
  ASSUME NEW b \in Batch, NEW c \in Batch, NEW u \in Nat, NEW w \in Nat,
         Within(b, u), Within(c, w)
  PROVE  Within(Merge(b, c), u + w)
<1> DEFINE m == Merge(b, c)
<1>1. /\ b.referrers \in [Days -> [Hosts -> Nat]] /\ c.referrers \in [Days -> [Hosts -> Nat]]
      /\ m.visitors = b.visitors \union c.visitors
      /\ m.referrers = PlusPlus(b.referrers, c.referrers)
  BY DEF Batch, Merge
<1>2. \A d \in Days, h \in Hosts :
        m.referrers[d][h] = b.referrers[d][h] + c.referrers[d][h]
  BY <1>1 DEF PlusPlus, Plus
<1> HIDE DEF m
<1>3. Referred(m) \subseteq Referred(b) \union Referred(c)
  <2> SUFFICES ASSUME NEW d \in Days, NEW h \in Hosts, m.referrers[d][h] > 0
               PROVE  b.referrers[d][h] > 0 \/ c.referrers[d][h] > 0
    BY DEF Referred
  <2>1. b.referrers[d][h] \in Nat /\ c.referrers[d][h] \in Nat
    BY <1>1
  <2> QED
    BY <1>2, <2>1
<1>4. ASSUME NEW S, NEW T, NEW R, IsFiniteSet(S), IsFiniteSet(T), R \subseteq S \union T,
             NEW cap \in Nat, Cardinality(S) <= cap * u, Cardinality(T) <= cap * w
      PROVE  IsFiniteSet(R) /\ Cardinality(R) <= cap * (u + w)
  <2>1. /\ IsFiniteSet(S \union T)
        /\ Cardinality(S \union T) = Cardinality(S) + Cardinality(T) - Cardinality(S \cap T)
    BY <1>4, FS_Union
  <2>2. /\ IsFiniteSet(R) /\ Cardinality(R) <= Cardinality(S \union T)
    BY <1>4, <2>1, FS_Subset
  <2>3. /\ Cardinality(S) \in Nat /\ Cardinality(T) \in Nat /\ Cardinality(S \cap T) \in Nat
        /\ Cardinality(R) \in Nat /\ Cardinality(S \union T) \in Nat
    BY <1>4, <2>1, <2>2, FS_CardinalityType, FS_Intersection
  <2>4. cap * (u + w) = cap * u + cap * w /\ cap * u \in Nat /\ cap * w \in Nat
    BY <1>4
  <2> QED
    BY <1>4, <2>1, <2>2, <2>3, <2>4
<1>5. MAX_REFERRERS \in Nat /\ MAX_VISITORS \in Nat
  BY MetricsAssumption DEF MetricsAssumption
<1>6. IsFiniteSet(Referred(m)) /\ Cardinality(Referred(m)) <= MAX_REFERRERS * (u + w)
  BY <1>3, <1>4, <1>5 DEF Within
<1>7. IsFiniteSet(m.visitors) /\ Cardinality(m.visitors) <= MAX_VISITORS * (u + w)
  BY <1>1, <1>4, <1>5 DEF Within
<1> QED
  BY <1>6, <1>7 DEF Within, m

\* An empty batch holds less than one that is cut.
LEMMA EmptyWithin == Within(EmptyBatch, 1)
<1>1. Referred(EmptyBatch) = {} /\ EmptyBatch.visitors = {}
  BY DEF Referred, EmptyBatch
<1> QED
  BY <1>1, FS_EmptySet, MetricsAssumption DEF Within, MetricsAssumption

\* A cap that is kept to is kept.
LEMMA AddWithin ==
  ASSUME NEW S, IsFiniteSet(S), NEW x, NEW R, R \subseteq S \union {x},
         NEW cap \in Nat, NEW u \in Nat \ {0}, Cardinality(S) <= cap * u,
         R \subseteq S \/ Cardinality(S) < cap
  PROVE  IsFiniteSet(R) /\ Cardinality(R) <= cap * u
<1>1. /\ IsFiniteSet(S \union {x}) /\ Cardinality(S \union {x}) <= Cardinality(S) + 1
      /\ Cardinality(S) \in Nat
  <2>1. Cardinality(S) \in Nat
    BY FS_CardinalityType
  <2> QED
    BY <2>1, FS_AddElement
<1>2. CASE R \subseteq S
  <2>1. IsFiniteSet(R) /\ Cardinality(R) <= Cardinality(S) /\ Cardinality(R) \in Nat
    BY <1>2, FS_Subset, FS_CardinalityType
  <2>2. cap * u \in Nat
    OBVIOUS
  <2> QED
    BY <1>1, <2>1, <2>2
<1>3. CASE Cardinality(S) < cap
  <2>1. /\ IsFiniteSet(R) /\ Cardinality(R) <= Cardinality(S \union {x})
        /\ Cardinality(R) \in Nat /\ Cardinality(S \union {x}) \in Nat
    BY <1>1, FS_Subset, FS_CardinalityType
  <2>2. cap <= cap * u /\ cap * u \in Nat
    <3>1. PICK v \in Nat : u = v + 1
      <4>1. u - 1 \in Nat
        OBVIOUS
      <4> QED
        BY <4>1
    <3>2. cap * u = cap * v + cap /\ cap * v \in Nat
      BY <3>1
    <3> QED
      BY <3>2
  <2> QED
    BY <1>1, <1>3, <2>1, <2>2
<1> QED
  BY <1>2, <1>3

\* One more view leaves a batch within what it was.
LEMMA ViewWithin ==
  ASSUME NEW b \in Batch, NEW q, NEW hash, q.day \in Days, q.host \in Hosts \union {NoHost},
         NEW u \in Nat \ {0}, Within(b, u)
  PROVE  Within(WithView(b, q, hash), u)
<1> DEFINE m == WithView(b, q, hash)
<1>1. /\ MAX_REFERRERS \in Nat /\ MAX_VISITORS \in Nat /\ b.referrers \in [Days -> [Hosts -> Nat]]
      /\ DistinctReferrers(b) = Cardinality(Referred(b))
  BY MetricsAssumption DEF MetricsAssumption, Batch, DistinctReferrers, Referred
<1>2. /\ m.referrers = IF KeepsReferrer(b, q.day, q.host)
                         THEN [b.referrers EXCEPT ![q.day][q.host] = @ + 1]
                         ELSE b.referrers
      /\ m.visitors = IF hash # None /\ Cardinality(b.visitors) < MAX_VISITORS
                        THEN b.visitors \union {WithHash(q, hash)} ELSE b.visitors
  BY DEF WithView
<1> HIDE DEF m
<1>3. /\ Referred(m) \subseteq Referred(b) \union {<<q.day, q.host>>}
      /\ Referred(m) \subseteq Referred(b) \/ Cardinality(Referred(b)) < MAX_REFERRERS
  <2>1. CASE ~KeepsReferrer(b, q.day, q.host)
    BY <1>2, <2>1 DEF Referred
  <2>2. CASE KeepsReferrer(b, q.day, q.host)
    <3>1. q.host \in Hosts
      BY <2>2 DEF KeepsReferrer
    <3>2. \A d \in Days, h \in Hosts :
            <<d, h>> # <<q.day, q.host>> => m.referrers[d][h] = b.referrers[d][h]
      BY <1>1, <1>2, <2>2, <3>1
    <3>3. Referred(m) \subseteq Referred(b) \union {<<q.day, q.host>>}
      BY <3>2 DEF Referred
    <3>4. b.referrers[q.day][q.host] > 0 => <<q.day, q.host>> \in Referred(b)
      BY <3>1 DEF Referred
    <3> QED
      BY <1>1, <2>2, <3>3, <3>4 DEF KeepsReferrer
  <2> QED
    BY <2>1, <2>2
<1>4. IsFiniteSet(Referred(m)) /\ Cardinality(Referred(m)) <= MAX_REFERRERS * u
  BY <1>1, <1>3, AddWithin DEF Within
<1>5. IsFiniteSet(m.visitors) /\ Cardinality(m.visitors) <= MAX_VISITORS * u
  BY <1>1, <1>2, AddWithin DEF Within
<1> QED
  BY <1>4, <1>5 DEF Within, m

\* A server whose flushes stay, and whose batch holds no more.
LEMMA BatchSpends ==
  ASSUME IInv, NEW s \in Servers, Budget(s), fails' \in Nat, fails <= fails',
         \A k \in Flushes : IF flight[s][k] = None THEN flight'[s][k] = None
                            ELSE flight'[s][k] # None /\ flight'[s][k].batch = flight[s][k].batch,
         \A u \in Nat \ {0} : Within(batch[s], u) => Within(batch[s], u)'
  PROVE  Budget(s)'
<1>1. PICK u, p, f \in Nat \ {0} :
        /\ Within(batch[s], u) /\ InFlight(s, "periodic", p) /\ InFlight(s, "final", f)
        /\ u + p + f <= fails + 3
  BY DEF Budget
<1>2. fails \in Nat
  BY DEF IInv, TypeOK
<1>3. \A k \in Flushes, n \in Nat : InFlight(s, k, n) => InFlight(s, k, n)'
  BY DEF InFlight, Within, Referred
<1>4. InFlight(s, "periodic", p)' /\ InFlight(s, "final", f)'
  BY <1>1, <1>3 DEF Flushes
<1>5. u + p + f <= fails' + 3
  BY <1>1, <1>2
<1> QED
  BY <1>1, <1>4, <1>5 DEF Budget

\* The batch leaves memory: what it held is held by the flush.
LEMMA TakeSpends ==
  ASSUME IInv, NEW s \in Servers, Budget(s), NEW k \in Flushes, flight[s][k] = None,
         TakeBatch(s, k), fails' = fails
  PROVE  Budget(s)'
<1>1. PICK u, p, f \in Nat \ {0} :
        /\ Within(batch[s], u) /\ InFlight(s, "periodic", p) /\ InFlight(s, "final", f)
        /\ u + p + f <= fails + 3
  BY DEF Budget
<1>2. /\ batch'[s] = EmptyBatch /\ flight'[s][k].batch = batch[s] /\ flight'[s][k] # None
      /\ \A j \in Flushes : j # k => flight'[s][j] = flight[s][j]
  <2>1. [batch |-> batch[s], now |-> clock, ticks |-> 0] # None
    BY NoneAssumption DEF NoneAssumption, IInv, TypeOK, Flush
  <2> QED
    BY <2>1 DEF TakeBatch, IInv, TypeOK
<1>3. Within(batch[s], 1)'
  BY <1>2, EmptyWithin DEF Within, Referred, EmptyBatch
<1>4. InFlight(s, k, u)'
  BY <1>1, <1>2, <1>3 DEF InFlight, Within, Referred
<1>5. \A j \in Flushes, n \in Nat : j # k /\ InFlight(s, j, n) => InFlight(s, j, n)'
  BY <1>2 DEF InFlight, Within, Referred
<1>6. CASE k = "periodic"
  <2>1. p = 1 /\ 1 \in Nat \ {0}
    BY <1>1, <1>6 DEF InFlight
  <2>2. InFlight(s, "periodic", u)' /\ InFlight(s, "final", f)' /\ 1 + u + f <= fails' + 3
    BY <1>1, <1>4, <1>5, <1>6, <2>1 DEF Flushes
  <2> QED
    BY <1>3, <2>1, <2>2 DEF Budget
<1>7. CASE k = "final"
  <2>1. f = 1 /\ 1 \in Nat \ {0}
    BY <1>1, <1>7 DEF InFlight
  <2>2. InFlight(s, "periodic", p)' /\ InFlight(s, "final", u)' /\ 1 + p + u <= fails' + 3
    BY <1>1, <1>4, <1>5, <1>7, <2>1 DEF Flushes
  <2> QED
    BY <1>3, <2>1, <2>2 DEF Budget
<1> QED
  BY <1>6, <1>7 DEF Flushes

\* A flush ends: its transaction committed, or a failed write brings it back.
LEMMA EndSpends ==
  ASSUME IInv, NEW s \in Servers, Budget(s), NEW k \in Flushes, flight[s][k] # None,
         flight' = [flight EXCEPT ![s][k] = None],
         \/ batch' = batch /\ fails' = fails
         \/ /\ batch' = [batch EXCEPT ![s] = Merge(batch[s], flight[s][k].batch)]
            /\ fails' = fails + 1
  PROVE  Budget(s)'
<1>1. PICK u, p, f \in Nat \ {0} :
        /\ Within(batch[s], u) /\ InFlight(s, "periodic", p) /\ InFlight(s, "final", f)
        /\ u + p + f <= fails + 3
  BY DEF Budget
<1>2. /\ flight'[s][k] = None /\ \A j \in Flushes : j # k => flight'[s][j] = flight[s][j]
      /\ batch \in [Servers -> Batch] /\ flight[s][k].batch \in Batch /\ fails \in Nat
  BY DEF IInv, TypeOK, Flush
<1>3. \A j \in Flushes, n \in Nat : j # k /\ InFlight(s, j, n) => InFlight(s, j, n)'
  BY <1>2 DEF InFlight, Within, Referred
<1>4. InFlight(s, k, 1)'
  BY <1>2 DEF InFlight
<1>5. ASSUME NEW w \in Nat \ {0}, InFlight(s, k, w)
      PROVE  \E n \in Nat \ {0} : Within(batch[s], n)' /\ n + 1 <= u + w + (fails' - fails)
  <2>1. CASE batch' = batch /\ fails' = fails
    <3>1. Within(batch[s], u)'
      BY <1>1, <2>1 DEF Within, Referred
    <3>2. u + 1 <= u + w + (fails' - fails)
      BY <1>2, <2>1
    <3> QED
      BY <3>1, <3>2
  <2>2. CASE /\ batch' = [batch EXCEPT ![s] = Merge(batch[s], flight[s][k].batch)]
             /\ fails' = fails + 1
    <3>1. Within(flight[s][k].batch, w)
      BY <1>5 DEF InFlight
    <3>2. Within(Merge(batch[s], flight[s][k].batch), u + w)
      BY <1>1, <1>2, <3>1, MergeWithin
    <3>3. batch'[s] = Merge(batch[s], flight[s][k].batch)
      BY <1>2, <2>2
    <3>4. Within(batch[s], u + w)'
      BY <3>2, <3>3 DEF Within, Referred
    <3>5. u + w \in Nat \ {0} /\ (u + w) + 1 <= u + w + (fails' - fails)
      BY <1>2, <2>2
    <3> QED
      BY <3>4, <3>5
  <2> QED
    BY <2>1, <2>2
<1>6. fails' \in Nat
  BY <1>2
<1>7. CASE k = "periodic"
  <2>1. PICK n \in Nat \ {0} : Within(batch[s], n)' /\ n + 1 <= u + p + (fails' - fails)
    BY <1>1, <1>5, <1>7
  <2>2. n + 1 + f <= fails' + 3
    BY <1>1, <1>2, <1>6, <2>1
  <2>3. InFlight(s, "final", f)'
    BY <1>1, <1>3, <1>7 DEF Flushes
  <2> QED
    BY <1>4, <1>7, <2>1, <2>2, <2>3 DEF Budget
<1>8. CASE k = "final"
  <2>1. PICK n \in Nat \ {0} : Within(batch[s], n)' /\ n + 1 <= u + f + (fails' - fails)
    BY <1>1, <1>5, <1>8
  <2>2. n + p + 1 <= fails' + 3
    BY <1>1, <1>2, <1>6, <2>1
  <2>3. InFlight(s, "periodic", p)'
    BY <1>1, <1>3, <1>8 DEF Flushes
  <2> QED
    BY <1>4, <1>8, <2>1, <2>2, <2>3 DEF Budget
<1> QED
  BY <1>7, <1>8 DEF Flushes

\* A server that has just started, or has just died, holds nothing.
LEMMA NothingSpends ==
  ASSUME NEW s, batch[s] = EmptyBatch, flight[s] = [k \in Flushes |-> None], fails \in Nat
  PROVE  Budget(s)
<1>1. InFlight(s, "periodic", 1) /\ InFlight(s, "final", 1)
  BY DEF InFlight, Flushes
<1>2. 1 \in Nat \ {0} /\ 1 + 1 + 1 <= fails + 3
  OBVIOUS
<1> QED
  BY <1>1, <1>2, EmptyWithin DEF Budget

\* Counting a request leaves a batch as large as it was, up to the caps.
LEMMA CountWithin ==
  ASSUME IInv, NEW s \in Servers,
         CountBot(s) \/ CountKnown(s) \/ SelectSalt(s) \/ SaltFails(s),
         NEW u \in Nat \ {0}, Within(batch[s], u)
  PROVE  Within(batch[s], u)'
<1>1. batch \in [Servers -> Batch] /\ batch[s] \in Batch
  BY DEF IInv, TypeOK
<1>2. request[s] # None /\ request[s].day \in Days /\ request[s].host \in Hosts \union {NoHost}
  BY DEF CountBot, CountKnown, SelectSalt, SaltFails, IInv, TypeOK, Request
<1>3. CASE CountBot(s)
  <2>1. /\ batch'[s].referrers = batch[s].referrers /\ batch'[s].visitors = batch[s].visitors
    BY <1>1, <1>3 DEF CountBot, Batch
  <2> QED
    BY <2>1 DEF Within, Referred
<1>4. CASE \E hash : CountView(s, hash)
  <2>1. PICK hash : batch' = [batch EXCEPT ![s] = WithView(batch[s], request[s], hash)]
    BY <1>4 DEF CountView
  <2>2. Within(WithView(batch[s], request[s], hash), u)
    BY <1>1, <1>2, ViewWithin
  <2>3. batch'[s] = WithView(batch[s], request[s], hash)
    BY <1>1, <2>1
  <2> QED
    BY <2>2, <2>3 DEF Within, Referred
<1>5. CountKnown(s) \/ SelectSalt(s) \/ SaltFails(s) => \E hash : CountView(s, hash)
  BY DEF CountKnown, SelectSalt, SaltFails
<1> QED
  BY <1>3, <1>4, <1>5

\* What a server does leaves alone the others and the time, and takes no failure
\* back.
LEMMA OthersStay ==
  ASSUME IInv, NEW s \in Servers, Owed(s) \/ Environment(s)
  PROVE  /\ fails <= fails' /\ clock' = clock
         /\ \A t \in Servers : t # s =>
              /\ batch'[t] = batch[t] /\ flight'[t] = flight[t]
              /\ phase'[t] = phase[t] /\ request'[t] = request[t] /\ idle'[t] = idle[t]
<1> USE DEF vars, tables, memory, history
<1> DEFINE Stay == /\ fails <= fails' /\ clock' = clock
                   /\ \A t \in Servers : t # s =>
                        /\ batch'[t] = batch[t] /\ flight'[t] = flight[t]
                        /\ phase'[t] = phase[t] /\ request'[t] = request[t] /\ idle'[t] = idle[t]
<1>1. fails \in Nat
  BY DEF IInv, TypeOK
<1>2. CASE InsertSalt(s) \/ Boot(s) \/ Arrive(s) \/ Abandon(s) \/ Terminate(s)
  BY <1>1, <1>2 DEF InsertSalt, Boot, Arrive, Abandon, Terminate, IInv, TypeOK
<1>3. ASSUME NEW hash, CountView(s, hash), UNCHANGED <<clock, phase, flight, idle>>,
             fails' \in {fails, fails + 1}
      PROVE  Stay
  BY <1>1, <1>3 DEF CountView, IInv, TypeOK
<1>4. CASE CountBot(s)
  BY <1>1, <1>4 DEF CountBot, IInv, TypeOK
<1>5. CASE CountKnown(s) \/ SelectSalt(s) \/ SaltFails(s)
  BY <1>3, <1>5 DEF CountKnown, SelectSalt, SaltFails
<1>6. CASE PeriodicFlush(s) \/ FinalFlush(s)
  BY <1>1, <1>6 DEF PeriodicFlush, FinalFlush, TakeBatch, IInv, TypeOK
<1>7. ASSUME NEW k \in Flushes, FlushCommits(s, k) \/ FlushFails(s, k)
      PROVE  Stay
  BY <1>1, <1>7 DEF FlushCommits, FlushFails, IInv, TypeOK
<1>8. CASE Exit(s) \/ Crash(s)
  BY <1>1, <1>8 DEF Exit, Crash, Dies, IInv, TypeOK
<1> QED
  BY <1>2, <1>3, <1>4, <1>5, <1>6, <1>7, <1>8 DEF Owed, Environment, Flushes

\* Every step of a server keeps the budget of each.
LEMMA StepSpends ==
  ASSUME MemoryInv, IInv', NEW s \in Servers, Owed(s) \/ Environment(s)
  PROVE  \A t \in Servers : Budget(t)'
<1> USE DEF vars, tables, memory, history
<1>1. /\ \A t \in Servers : Budget(t)
      /\ IInv /\ fails \in Nat /\ fails' \in Nat
      /\ batch \in [Servers -> Batch] /\ flight \in [Servers -> [Flushes -> Flush \union {None}]]
  BY DEF MemoryInv, IInv, TypeOK
<1>2. ASSUME NEW t \in Servers, batch'[t] = batch[t], flight'[t] = flight[t], fails <= fails'
      PROVE  Budget(t)'
  <2>1. \A u \in Nat \ {0} : Within(batch[t], u) => Within(batch[t], u)'
    BY <1>2 DEF Within, Referred
  <2> QED
    BY <1>1, <1>2, <2>1, BatchSpends
<1>3. fails <= fails' /\ \A t \in Servers : t # s => batch'[t] = batch[t] /\ flight'[t] = flight[t]
  BY <1>1, OthersStay
<1>4. ASSUME batch' = batch, flight' = flight
      PROVE  Budget(s)'
  BY <1>2, <1>3, <1>4
<1>5. ASSUME CountBot(s) \/ CountKnown(s) \/ SelectSalt(s) \/ SaltFails(s)
      PROVE  Budget(s)'
  <2>1. flight' = flight
    BY <1>5 DEF CountBot, CountKnown, SelectSalt, SaltFails
  <2>2. \A u \in Nat \ {0} : Within(batch[s], u) => Within(batch[s], u)'
    BY <1>1, <1>5, CountWithin
  <2> QED
    BY <1>1, <1>3, <2>1, <2>2, BatchSpends
<1>12. ASSUME NEW k \in Flushes, flight[s][k] = None, TakeBatch(s, k), fails' = fails
       PROVE  Budget(s)'
  BY <1>1, <1>12, TakeSpends
<1>6. ASSUME PeriodicFlush(s)
      PROVE  Budget(s)'
  <2>1. TakeBatch(s, "periodic") /\ flight[s]["periodic"] = None /\ fails' = fails
    BY <1>6 DEF PeriodicFlush
  <2>2. "periodic" \in Flushes
    BY DEF Flushes
  <2> QED
    BY <1>12, <2>1, <2>2
<1>7. ASSUME FinalFlush(s)
      PROVE  Budget(s)'
  <2>1. TakeBatch(s, "final") /\ fails' = fails
    BY <1>7 DEF FinalFlush
  <2>2. flight[s]["final"] = None /\ "final" \in Flushes
    BY <1>7 DEF FinalFlush, MemoryInv, FinalIsLast, Flushes
  <2> QED
    BY <1>12, <2>1, <2>2
<1>8. ASSUME NEW k \in Flushes, FlushCommits(s, k) \/ FlushFails(s, k)
      PROVE  Budget(s)'
  <2>1. /\ flight[s][k] # None /\ flight' = [flight EXCEPT ![s][k] = None]
        /\ \/ batch' = batch /\ fails' = fails
           \/ /\ batch' = [batch EXCEPT ![s] = Merge(batch[s], flight[s][k].batch)]
              /\ fails' = fails + 1
    BY <1>8 DEF FlushCommits, FlushFails
  <2> QED
    BY <1>1, <2>1, EndSpends
<1>9. ASSUME Exit(s) \/ Crash(s)
      PROVE  Budget(s)'
  <2>1. batch'[s] = EmptyBatch /\ flight'[s] = [k \in Flushes |-> None]
    BY <1>1, <1>9 DEF Exit, Crash, Dies
  <2>2. InFlight(s, "periodic", 1)' /\ InFlight(s, "final", 1)'
    BY <2>1 DEF InFlight, Flushes
  <2>3. Within(batch[s], 1)'
    BY <2>1, EmptyWithin DEF Within, Referred, EmptyBatch
  <2>4. 1 \in Nat \ {0} /\ 1 + 1 + 1 <= fails' + 3
    <3>1. fails' \in Nat
      BY DEF IInv, TypeOK
    <3>2. \A n \in Nat : 1 \in Nat \ {0} /\ 1 + 1 + 1 <= n + 3
      OBVIOUS
    <3> QED
      BY <3>1, <3>2
  <2> QED
    BY <1>1, <2>2, <2>3, <2>4 DEF Budget
<1>10. ASSUME InsertSalt(s) \/ Boot(s) \/ Arrive(s) \/ Abandon(s) \/ Terminate(s)
       PROVE  Budget(s)'
  BY <1>4, <1>10 DEF InsertSalt, Boot, Arrive, Abandon, Terminate
<1>11. Budget(s)'
  BY <1>5, <1>6, <1>7, <1>8, <1>9, <1>10 DEF Owed, Environment, Flushes
<1> QED
  BY <1>2, <1>3, <1>11

\* The last flush stays the last.
LEMMA FinalStaysLast ==
  ASSUME IInv, FinalIsLast, NEW s \in Servers, Owed(s) \/ Environment(s)
  PROVE  FinalIsLast'
<1> USE DEF vars, tables, memory, history
<1>1. /\ phase \in [Servers -> {"up", "draining", "stopping", "down"}]
      /\ flight \in [Servers -> [Flushes -> Flush \union {None}]]
      /\ "periodic" \in Flushes /\ "final" \in Flushes
  BY DEF IInv, TypeOK, Flushes
<1>2. CASE UNCHANGED <<phase, flight>>
  BY <1>2 DEF FinalIsLast
<1>3. CASE PeriodicFlush(s)
  BY <1>1, <1>3 DEF PeriodicFlush, TakeBatch, FinalIsLast
<1>4. CASE FinalFlush(s)
  BY <1>1, <1>4 DEF FinalFlush, TakeBatch, FinalIsLast
<1>5. ASSUME NEW k \in Flushes, FlushCommits(s, k) \/ FlushFails(s, k)
      PROVE  FinalIsLast'
  BY <1>1, <1>5 DEF FlushCommits, FlushFails, FinalIsLast
<1>6. CASE Exit(s) \/ Crash(s)
  BY <1>1, <1>6 DEF Exit, Crash, Dies, FinalIsLast
<1>7. CASE Terminate(s) \/ Boot(s)
  BY <1>1, <1>7 DEF Terminate, Boot, FinalIsLast
<1>8. CountBot(s) \/ CountKnown(s) \/ InsertSalt(s) \/ SelectSalt(s) \/ SaltFails(s)
        \/ Arrive(s) \/ Abandon(s) => UNCHANGED <<phase, flight>>
  BY DEF CountBot, CountKnown, InsertSalt, SelectSalt, SaltFails, Arrive, Abandon
<1> QED
  BY <1>1, <1>2, <1>3, <1>4, <1>5, <1>6, <1>7, <1>8 DEF Owed, Environment

\* Time changes nothing of what is held.
LEMMA TickSpends ==
  ASSUME MemoryInv, Tick
  PROVE  FinalIsLast' /\ \A s \in Servers : Budget(s)'
<1> USE DEF vars, tables, memory, history
<1>1. ASSUME NEW s \in Servers, NEW k \in Flushes
      PROVE  IF flight[s][k] = None THEN flight'[s][k] = None
             ELSE flight'[s][k] # None /\ flight'[s][k].batch = flight[s][k].batch
  <2>1. CASE flight[s][k] = None
    BY <2>1 DEF Tick
  <2>2. CASE flight[s][k] # None
    <3>1. flight[s][k] \in Flush
      BY <2>2 DEF MemoryInv, IInv, TypeOK
    <3> DEFINE older == [flight[s][k] EXCEPT !.ticks = @ + 1]
    <3>2. older \in Flush /\ older.batch = flight[s][k].batch
      BY <3>1 DEF Flush
    <3>3. flight'[s][k] = older
      BY <2>2 DEF Tick
    <3> HIDE DEF older
    <3> QED
      BY <2>2, <3>2, <3>3, NoneAssumption DEF NoneAssumption
  <2> QED
    BY <2>1, <2>2
<1>2. UNCHANGED <<phase, batch, fails>> /\ fails \in Nat
  BY DEF Tick, MemoryInv, IInv, TypeOK
<1>3. FinalIsLast'
  BY <1>1, <1>2 DEF MemoryInv, FinalIsLast, Flushes
<1>4. ASSUME NEW s \in Servers
      PROVE  Budget(s)'
  <2>1. \A u \in Nat \ {0} : Within(batch[s], u) => Within(batch[s], u)'
    BY <1>2 DEF Within, Referred
  <2>2. IInv /\ Budget(s) /\ fails' \in Nat /\ fails <= fails'
    BY <1>2 DEF MemoryInv
  <2> QED
    BY <1>1, <2>1, <2>2, BatchSpends
<1> QED
  BY <1>3, <1>4

\* Nothing changes.
LEMMA UnchangedSpends ==
  ASSUME IInv, NEW s \in Servers, Budget(s), UNCHANGED <<batch, flight, fails>>
  PROVE  Budget(s)'
<1>1. fails' \in Nat /\ fails <= fails'
  BY DEF IInv, TypeOK
<1>2. \A u \in Nat \ {0} : Within(batch[s], u) => Within(batch[s], u)'
  BY DEF Within, Referred
<1> QED
  BY <1>1, <1>2, BatchSpends

\* What a server may hold.
THEOREM MemoryInvariance == Spec => []MemoryInv
<1>1. Init => MemoryInv
  <2> SUFFICES ASSUME Init PROVE MemoryInv
    OBVIOUS
  <2>1. FinalIsLast
    BY DEF Init, FinalIsLast, Flushes
  <2>2. \A s \in Servers : Budget(s)
    BY NothingSpends DEF Init
  <2> QED
    BY <2>1, <2>2, InitSound DEF MemoryInv
<1>2. MemoryInv /\ IInv' /\ [Next]_vars => MemoryInv'
  <2> SUFFICES ASSUME MemoryInv, IInv', [Next]_vars PROVE MemoryInv'
    OBVIOUS
  <2>1. ASSUME NEW s \in Servers, Owed(s) \/ Environment(s)
        PROVE  MemoryInv'
    BY <2>1, StepSpends, FinalStaysLast DEF MemoryInv
  <2>2. CASE Tick
    BY <2>2, TickSpends DEF MemoryInv
  <2>3. CASE UNCHANGED vars
    <3>1. UNCHANGED <<phase, batch, flight, fails>>
      BY <2>3 DEF vars, memory, history
    <3> QED
      BY <3>1, UnchangedSpends DEF MemoryInv, FinalIsLast
  <2> QED
    BY <2>1, <2>2, <2>3 DEF Next
<1> QED
  BY <1>1, <1>2, Invariance, PTL DEF Spec

\* What a server keeps between flushes is bounded by the caps, and by as much
\* again for every write that failed, however many flushes were under way when
\* their writes failed.
THEOREM MemoryIsBounded == Spec => []MemoryBounded
<1>1. MemoryInv => MemoryBounded
  <2> SUFFICES ASSUME MemoryInv, NEW s \in Servers
               PROVE  /\ DistinctReferrers(batch[s]) <= MAX_REFERRERS * (1 + fails)
                      /\ Cardinality(batch[s].visitors) <= MAX_VISITORS * (1 + fails)
    BY DEF MemoryBounded
  <2>1. PICK u, p, f \in Nat \ {0} : Within(batch[s], u) /\ u + p + f <= fails + 3
    <3>1. Budget(s)
      BY DEF MemoryInv
    <3> QED
      BY <3>1 DEF Budget
  <2>2. fails \in Nat /\ u <= 1 + fails
    <3>1. fails \in Nat
      BY DEF MemoryInv, IInv, TypeOK
    <3> QED
      BY <2>1, <3>1
  <2>3. ASSUME NEW cap \in Nat, NEW n \in Nat, n <= cap * u
        PROVE  n <= cap * (1 + fails)
    <3>1. PICK more \in Nat : 1 + fails = u + more
      <4>1. 1 + fails - u \in Nat
        BY <2>1, <2>2
      <4> QED
        BY <2>1, <2>2, <4>1
    <3>2. cap * (u + more) = cap * u + cap * more /\ cap * u \in Nat /\ cap * more \in Nat
      BY <2>1, <3>1
    <3>3. n <= cap * u + cap * more
      BY <2>3, <3>2
    <3> QED
      BY <3>1, <3>2, <3>3
  <2>4. /\ Cardinality(Referred(batch[s])) \in Nat /\ Cardinality(batch[s].visitors) \in Nat
        /\ MAX_REFERRERS \in Nat /\ MAX_VISITORS \in Nat
    BY <2>1, FS_CardinalityType, MetricsAssumption DEF Within, MetricsAssumption
  <2> QED
    BY <2>1, <2>3, <2>4 DEF Within, DistinctReferrers, Referred
<1> QED
  BY <1>1, MemoryInvariance, PTL

-----------------------------------------------------------------------------
(***************************************************************************)
(* Every count is kept once.  The counts of a batch are cells: of a route, *)
(* of a host or of the bots of a day.                                      *)
(***************************************************************************)
Cells == [of : {"views"}, day : Days, key : Routes]
           \union [of : {"referrers"}, day : Days, key : Hosts]
           \union [of : {"bots"}, day : Days, key : {None}]

Count(b, c) == IF c.of = "views" THEN b.views[c.day][c.key]
               ELSE IF c.of = "referrers" THEN b.referrers[c.day][c.key]
               ELSE b.bots[c.day]

\* Whatever has the counts of a batch: a batch, a history, the tables.
Counting(b) == /\ b.views \in [Days -> [Routes -> Nat]]
               /\ b.referrers \in [Days -> [Hosts -> Nat]]
               /\ b.bots \in [Days -> Nat]

\* m counts what b and t count.
Adds(m, b, t) == /\ m.views = PlusPlus(b.views, t.views)
                 /\ m.referrers = PlusPlus(b.referrers, t.referrers)
                 /\ m.bots = Plus(b.bots, t.bots)

\* What the tables count.
Stored == [views     |-> [d \in Days |-> [r \in Routes |-> page_views[d][r].views]],
           referrers |-> referrers,
           bots      |-> [d \in Days |-> IF d \in DOMAIN daily THEN daily[d].bots ELSE 0]]

\* What a flush counts, if it is under way.
Flown(s, k, c) == IF flight[s][k] = None THEN 0 ELSE Count(flight[s][k].batch, c)

\* What a server counts.
Load(s, c) == Count(batch[s], c) + Flown(s, "periodic", c) + Flown(s, "final", c)

Loads(c) == [s \in Servers |-> Load(s, c)]

Conserved ==
  \A c \in Cells :
    Count(counted, c) = Count(lost, c) + Count(Stored, c) + SumOver(Loads(c), Servers)

\* A cell holds a number.
LEMMA CountType ==
  ASSUME NEW b, Counting(b), NEW c \in Cells
  PROVE  Count(b, c) \in Nat
<1>1. CASE c.of = "views"
  <2>1. c.day \in Days /\ c.key \in Routes
    BY <1>1 DEF Cells
  <2> QED
    BY <1>1, <2>1 DEF Count, Counting
<1>2. CASE c.of = "referrers"
  <2>1. c.day \in Days /\ c.key \in Hosts
    BY <1>2 DEF Cells
  <2> QED
    BY <1>2, <2>1 DEF Count, Counting
<1>3. CASE c.of \notin {"views", "referrers"}
  <2>1. c.day \in Days
    BY DEF Cells
  <2> QED
    BY <1>3, <2>1 DEF Count, Counting
<1> QED
  BY <1>1, <1>2, <1>3

\* Adding adds in every cell.
LEMMA CountAdds ==
  ASSUME NEW b, Counting(b), NEW t, Counting(t), NEW m, Adds(m, b, t)
  PROVE  Counting(m) /\ \A c \in Cells : Count(m, c) = Count(b, c) + Count(t, c)
<1>1. /\ \A d \in Days, r \in Routes : m.views[d][r] = b.views[d][r] + t.views[d][r]
      /\ \A d \in Days, h \in Hosts : m.referrers[d][h] = b.referrers[d][h] + t.referrers[d][h]
      /\ \A d \in Days : m.bots[d] = b.bots[d] + t.bots[d]
  BY DEF Adds, Counting, PlusPlus, Plus
<1>2. Counting(m)
  <2>1. PlusPlus(b.views, t.views) \in [Days -> [Routes -> Nat]]
    BY PlusPlusType DEF Counting
  <2>2. PlusPlus(b.referrers, t.referrers) \in [Days -> [Hosts -> Nat]]
    BY PlusPlusType DEF Counting
  <2>3. Plus(b.bots, t.bots) \in [Days -> Nat]
    BY PlusType DEF Counting
  <2> QED
    BY <2>1, <2>2, <2>3 DEF Adds, Counting
<1>3. ASSUME NEW c \in Cells
      PROVE  Count(m, c) = Count(b, c) + Count(t, c)
  <2>1. CASE c.of = "views"
    <3>1. c.day \in Days /\ c.key \in Routes
      BY <2>1 DEF Cells
    <3> QED
      BY <1>1, <2>1, <3>1 DEF Count
  <2>2. CASE c.of = "referrers"
    <3>1. c.day \in Days /\ c.key \in Hosts
      BY <2>2 DEF Cells
    <3> QED
      BY <1>1, <2>2, <3>1 DEF Count
  <2>3. CASE c.of \notin {"views", "referrers"}
    <3>1. c.day \in Days
      BY DEF Cells
    <3> QED
      BY <1>1, <2>3, <3>1 DEF Count
  <2> QED
    BY <2>1, <2>2, <2>3
<1> QED
  BY <1>2, <1>3

\* Counts that agree in every cell are the same counts.
LEMMA SameCounts ==
  ASSUME NEW b, Counting(b), NEW t, Counting(t), \A c \in Cells : Count(b, c) = Count(t, c)
  PROVE  b.views = t.views /\ b.referrers = t.referrers /\ b.bots = t.bots
<1>1. ASSUME NEW d \in Days, NEW r \in Routes
      PROVE  b.views[d][r] = t.views[d][r]
  <2>1. [of |-> "views", day |-> d, key |-> r] \in Cells
    BY DEF Cells
  <2> QED
    BY <2>1 DEF Count
<1>2. ASSUME NEW d \in Days, NEW h \in Hosts
      PROVE  b.referrers[d][h] = t.referrers[d][h]
  <2>1. [of |-> "referrers", day |-> d, key |-> h] \in Cells
    BY DEF Cells
  <2> QED
    BY <2>1 DEF Count
<1>3. ASSUME NEW d \in Days
      PROVE  b.bots[d] = t.bots[d]
  <2>1. [of |-> "bots", day |-> d, key |-> None] \in Cells
    BY DEF Cells
  <2> QED
    BY <2>1 DEF Count
<1>4. /\ \A d \in Days : b.views[d] \in [Routes -> Nat] /\ t.views[d] \in [Routes -> Nat]
      /\ \A d \in Days : b.referrers[d] \in [Hosts -> Nat] /\ t.referrers[d] \in [Hosts -> Nat]
  BY DEF Counting
<1>5. \A d \in Days : b.views[d] = t.views[d]
  BY <1>1, <1>4
<1>6. \A d \in Days : b.referrers[d] = t.referrers[d]
  BY <1>2, <1>4
<1> QED
  BY <1>3, <1>5, <1>6 DEF Counting

\* An empty batch counts nothing.
LEMMA CountOfEmpty ==
  /\ Counting(EmptyBatch) /\ Counting(NoCounts)
  /\ \A c \in Cells : Count(EmptyBatch, c) = 0 /\ Count(NoCounts, c) = 0
<1>1. Counting(EmptyBatch) /\ Counting(NoCounts)
  BY DEF EmptyBatch, NoCounts, NoViews, Counting
<1>2. ASSUME NEW c \in Cells
      PROVE  Count(EmptyBatch, c) = 0 /\ Count(NoCounts, c) = 0
  <2>1. CASE c.of = "views"
    <3>1. c.day \in Days /\ c.key \in Routes
      BY <2>1 DEF Cells
    <3> QED
      BY <2>1, <3>1 DEF Count, EmptyBatch, NoCounts, NoViews
  <2>2. CASE c.of = "referrers"
    <3>1. c.day \in Days /\ c.key \in Hosts
      BY <2>2 DEF Cells
    <3> QED
      BY <2>2, <3>1 DEF Count, EmptyBatch, NoCounts, NoViews
  <2>3. CASE c.of \notin {"views", "referrers"}
    <3>1. c.day \in Days
      BY DEF Cells
    <3> QED
      BY <2>3, <3>1 DEF Count, EmptyBatch, NoCounts, NoViews
  <2> QED
    BY <2>1, <2>2, <2>3
<1> QED
  BY <1>1, <1>2

\* The variables count, and what a process holds is what its load counts.
AllCounting ==
  /\ Counting(counted) /\ Counting(lost) /\ Counting(Stored)
  /\ \A s \in Servers : Counting(batch[s]) /\ Counting(Held(s))
  /\ \A s \in Servers, k \in Flushes : flight[s][k] # None => Counting(flight[s][k].batch)
  /\ \A s \in Servers, c \in Cells :
       /\ Load(s, c) \in Nat /\ Count(batch[s], c) \in Nat
       /\ \A k \in Flushes : Flown(s, k, c) \in Nat
       /\ Count(Held(s), c) = Load(s, c)

LEMMA AllCount == IInv => AllCounting
<1> SUFFICES ASSUME IInv PROVE AllCounting
  OBVIOUS
<1>1. Counting(counted) /\ Counting(lost)
  BY DEF IInv, TypeOK, Counts, Counting
<1>2. Counting(Stored)
  <2>1. \A d \in Days, r \in Routes : page_views[d][r].views \in Nat
    BY DEF IInv, TypeOK, PageRow
  <2>2. \A d \in DOMAIN daily : daily[d].bots \in Nat
    BY DEF IInv, TypeOK, IsDailyRow
  <2>3. referrers \in [Days -> [Hosts -> Nat]]
    BY DEF IInv, TypeOK
  <2> QED
    BY <2>1, <2>2, <2>3 DEF Stored, Counting
<1>3. \A b \in Batch : Counting(b)
  BY DEF Batch, Counting
<1>4. \A s \in Servers : batch[s] \in Batch /\ Held(s) \in Batch
  BY HeldIsSound DEF IInv, Sound
<1>5. \A s \in Servers, k \in Flushes : flight[s][k] # None => Counting(flight[s][k].batch)
  BY <1>3 DEF IInv, Sound
<1>6. ASSUME NEW s \in Servers, NEW c \in Cells
      PROVE  /\ Load(s, c) \in Nat /\ Count(batch[s], c) \in Nat
             /\ \A k \in Flushes : Flown(s, k, c) \in Nat
             /\ Count(Held(s), c) = Load(s, c)
  <2> DEFINE in(k) == IF flight[s][k] = None THEN EmptyBatch ELSE flight[s][k].batch
  <2>1. ASSUME NEW k \in Flushes
        PROVE  Counting(in(k)) /\ Flown(s, k, c) = Count(in(k), c) /\ Flown(s, k, c) \in Nat
    <3>1. CASE flight[s][k] = None
      BY <3>1, CountOfEmpty DEF Flown
    <3>2. CASE flight[s][k] # None
      BY <1>5, <3>2, CountType DEF Flown
    <3> QED
      BY <3>1, <3>2
  <2>2. "periodic" \in Flushes /\ "final" \in Flushes
    BY DEF Flushes
  <2> DEFINE both == Merge(in("periodic"), in("final"))
  <2>3. Adds(both, in("periodic"), in("final"))
    BY DEF Merge, Adds
  <2>4. Adds(Held(s), batch[s], both)
    BY DEF Held, Merge, Adds
  <2>5. /\ Counting(in("periodic")) /\ Counting(in("final")) /\ Counting(batch[s])
        /\ Flown(s, "periodic", c) = Count(in("periodic"), c)
        /\ Flown(s, "final", c) = Count(in("final"), c)
    BY <1>3, <1>4, <2>1, <2>2
  <2> HIDE DEF in
  <2>6. Counting(both) /\ Count(both, c) = Count(in("periodic"), c) + Count(in("final"), c)
    BY <2>3, <2>5, CountAdds
  <2> HIDE DEF both
  <2>7. Count(Held(s), c) = Count(batch[s], c) + Count(both, c)
    BY <2>4, <2>5, <2>6, CountAdds
  <2>8. /\ Count(batch[s], c) \in Nat
        /\ Flown(s, "periodic", c) \in Nat /\ Flown(s, "final", c) \in Nat
    BY <2>1, <2>2, <2>5, CountType
  <2> QED
    BY <2>1, <2>5, <2>6, <2>7, <2>8 DEF Load
<1> QED
  BY <1>1, <1>2, <1>3, <1>4, <1>5, <1>6 DEF AllCounting

\* What one server does keeps every count once, if its cells balance.
LEMMA Balances ==
  ASSUME IInv, IInv', Conserved, NEW s \in Servers,
         \A t \in Servers : t # s => batch'[t] = batch[t] /\ flight'[t] = flight[t],
         \A c \in Cells :
           Count(counted, c)' + Count(lost, c) + Count(Stored, c) + Load(s, c)
             = Count(counted, c) + Count(lost, c)' + Count(Stored, c)' + Load(s, c)'
  PROVE  Conserved'
<1>1. AllCounting /\ AllCounting'
  BY AllCount, PTL
<1>2. IsFiniteSet(Servers)
  BY MetricsAssumption DEF MetricsAssumption
<1> SUFFICES ASSUME NEW c \in Cells
             PROVE  Count(counted, c)'
                      = Count(lost, c)' + Count(Stored, c)' + SumOver(Loads(c), Servers)'
  BY DEF Conserved
<1>3. PICK f, g : f = Loads(c) /\ g = Loads(c)'
  OBVIOUS
<1>4. f \in [Servers -> Nat] /\ g \in [Servers -> Nat] /\ f[s] = Load(s, c) /\ g[s] = Load(s, c)'
  BY <1>1, <1>3 DEF AllCounting, Loads
<1>5. \A t \in Servers : t # s => f[t] = g[t]
  BY <1>3 DEF Loads, Load, Flown
<1>6. SumOver(f, Servers) + g[s] = SumOver(g, Servers) + f[s]
  BY <1>2, <1>4, <1>5, SumMoves
<1>7. SumOver(f, Servers) \in Nat /\ SumOver(g, Servers) \in Nat
  BY <1>2, <1>4, SumType
<1>8. /\ Count(counted, c) \in Nat /\ Count(lost, c) \in Nat /\ Count(Stored, c) \in Nat
      /\ Count(counted, c)' \in Nat /\ Count(lost, c)' \in Nat /\ Count(Stored, c)' \in Nat
  <2>1. \A b : Counting(b) => Count(b, c) \in Nat
    BY CountType
  <2> QED
    BY <1>1, <2>1 DEF AllCounting
<1>9. Count(counted, c) = Count(lost, c) + Count(Stored, c) + SumOver(f, Servers)
  BY <1>3 DEF Conserved
<1>10. Count(counted, c)' + Count(lost, c) + Count(Stored, c) + f[s]
         = Count(counted, c) + Count(lost, c)' + Count(Stored, c)' + g[s]
  BY <1>4
<1>11. PICK a, l, t, b, m, u, x, y, v, w :
         /\ a = Count(counted, c) /\ l = Count(lost, c) /\ t = Count(Stored, c)
         /\ b = Count(counted, c)' /\ m = Count(lost, c)' /\ u = Count(Stored, c)'
         /\ x = SumOver(f, Servers) /\ y = SumOver(g, Servers) /\ v = f[s] /\ w = g[s]
  OBVIOUS
<1>12. /\ a \in Nat /\ l \in Nat /\ t \in Nat /\ b \in Nat /\ m \in Nat /\ u \in Nat
       /\ x \in Nat /\ y \in Nat /\ v \in Nat /\ w \in Nat
  BY <1>4, <1>7, <1>8, <1>11
<1>13. a = l + t + x /\ b + l + t + v = a + m + u + w /\ x + w = y + v
  BY <1>6, <1>9, <1>10, <1>11
<1>14. b = m + u + y
  <2>1. b + l + t + v = l + t + x + m + u + w
    BY <1>13
  <2>2. b + v = x + m + u + w
    BY <1>12, <2>1
  <2>3. b + v = y + v + m + u
    BY <1>12, <1>13, <2>2
  <2> QED
    BY <1>12, <2>3
<1> QED
  BY <1>3, <1>11, <1>14

\* Counting adds one to a cell of a batch and of the history.
LEMMA CountMoves ==
  ASSUME IInv, NEW s \in Servers, NEW c \in Cells,
         CountBot(s) \/ CountKnown(s) \/ SelectSalt(s) \/ SaltFails(s)
  PROVE  Count(counted, c)' + Count(batch[s], c) = Count(counted, c) + Count(batch[s], c)'
<1> DEFINE q == request[s]
<1>1. /\ Counting(counted) /\ Counting(batch[s])
      /\ batch \in [Servers -> Batch] /\ batch[s] \in Batch /\ counted \in Counts
  BY AllCount DEF AllCounting, IInv, TypeOK
<1>2. q # None /\ q.day \in Days /\ q.route \in Routes /\ q.host \in Hosts \union {NoHost}
  BY DEF CountBot, CountKnown, SelectSalt, SaltFails, IInv, TypeOK, Request
<1>3. CASE CountBot(s)
  <2>1. /\ batch'[s] = [batch[s] EXCEPT !.bots = [batch[s].bots EXCEPT ![q.day] = @ + 1]]
        /\ counted' = [counted EXCEPT !.bots = [counted.bots EXCEPT ![q.day] = @ + 1]]
    BY <1>1, <1>3 DEF CountBot
  <2>2. /\ batch'[s].views = batch[s].views /\ batch'[s].referrers = batch[s].referrers
        /\ batch'[s].bots = [batch[s].bots EXCEPT ![q.day] = @ + 1]
        /\ counted'.views = counted.views /\ counted'.referrers = counted.referrers
        /\ counted'.bots = [counted.bots EXCEPT ![q.day] = @ + 1]
    BY <1>1, <2>1 DEF Batch, Counts
  <2>3. CASE c.of \in {"views", "referrers"}
    <3>1. Count(counted, c)' = Count(counted, c) /\ Count(batch[s], c)' = Count(batch[s], c)
      BY <2>2, <2>3 DEF Count
    <3> QED
      BY <3>1, <1>1, CountType
  <2>4. CASE c.of \notin {"views", "referrers"}
    <3>1. c.day \in Days
      BY DEF Cells
    <3>2. \A d \in Days : batch[s].bots[d] \in Nat /\ counted.bots[d] \in Nat
      BY <1>1 DEF Counting
    <3>3. \A d \in Days : batch'[s].bots[d] =
            (IF d = q.day THEN batch[s].bots[d] + 1 ELSE batch[s].bots[d])
      BY <1>1, <2>2 DEF Counting
    <3>4. \A d \in Days : counted'.bots[d] =
            (IF d = q.day THEN counted.bots[d] + 1 ELSE counted.bots[d])
      BY <1>1, <2>2 DEF Counting
    <3>5. counted'.bots[c.day] + batch[s].bots[c.day] = counted.bots[c.day] + batch'[s].bots[c.day]
      BY <3>1, <3>2, <3>3, <3>4
    <3> QED
      BY <2>4, <3>5 DEF Count
  <2> QED
    BY <2>3, <2>4
<1>4. CASE \E hash : CountView(s, hash)
  <2> DEFINE kept == KeepsReferrer(batch[s], q.day, q.host)
  <2>1. PICK hash : CountView(s, hash)
    BY <1>4
  <2>2. batch' = [batch EXCEPT ![s] = WithView(batch[s], q, hash)]
    BY <2>1 DEF CountView
  <2>3. /\ batch'[s].views = [batch[s].views EXCEPT ![q.day][q.route] = @ + 1]
        /\ batch'[s].referrers = IF kept THEN [batch[s].referrers EXCEPT ![q.day][q.host] = @ + 1]
                                 ELSE batch[s].referrers
        /\ batch'[s].bots = batch[s].bots
    BY <1>1, <2>2 DEF WithView
  <2>4. /\ counted'.views = [counted.views EXCEPT ![q.day][q.route] = @ + 1]
        /\ counted'.referrers = IF kept THEN [counted.referrers EXCEPT ![q.day][q.host] = @ + 1]
                                ELSE counted.referrers
        /\ counted'.bots = counted.bots
    BY <2>1 DEF CountView
  <2>5. kept => q.host \in Hosts
    BY <1>2 DEF KeepsReferrer
  <2> HIDE DEF kept, q
  <2>6. CASE c.of = "views"
    <3>1. c.day \in Days /\ c.key \in Routes
      BY <2>6 DEF Cells
    <3>2. batch[s].views[c.day][c.key] \in Nat /\ counted.views[c.day][c.key] \in Nat
      BY <1>1, <3>1 DEF Counting
    <3>3. batch'[s].views[c.day][c.key] = IF c.day = q.day /\ c.key = q.route
            THEN batch[s].views[c.day][c.key] + 1 ELSE batch[s].views[c.day][c.key]
      BY <1>1, <1>2, <2>3, <3>1 DEF Counting
    <3>4. counted'.views[c.day][c.key] = IF c.day = q.day /\ c.key = q.route
            THEN counted.views[c.day][c.key] + 1 ELSE counted.views[c.day][c.key]
      BY <1>1, <1>2, <2>4, <3>1 DEF Counting
    <3>5. counted'.views[c.day][c.key] + batch[s].views[c.day][c.key]
            = counted.views[c.day][c.key] + batch'[s].views[c.day][c.key]
      BY <3>2, <3>3, <3>4
    <3> QED
      BY <2>6, <3>5 DEF Count
  <2>7. CASE c.of = "referrers"
    <3>1. c.day \in Days /\ c.key \in Hosts
      BY <2>7 DEF Cells
    <3>2. batch[s].referrers[c.day][c.key] \in Nat /\ counted.referrers[c.day][c.key] \in Nat
      BY <1>1, <3>1 DEF Counting
    <3>3. batch'[s].referrers[c.day][c.key] = IF kept /\ c.day = q.day /\ c.key = q.host
            THEN batch[s].referrers[c.day][c.key] + 1 ELSE batch[s].referrers[c.day][c.key]
      BY <1>1, <1>2, <2>3, <2>5, <3>1 DEF Counting
    <3>4. counted'.referrers[c.day][c.key] = IF kept /\ c.day = q.day /\ c.key = q.host
            THEN counted.referrers[c.day][c.key] + 1 ELSE counted.referrers[c.day][c.key]
      BY <1>1, <1>2, <2>4, <2>5, <3>1 DEF Counting
    <3>5. counted'.referrers[c.day][c.key] + batch[s].referrers[c.day][c.key]
            = counted.referrers[c.day][c.key] + batch'[s].referrers[c.day][c.key]
      BY <3>2, <3>3, <3>4
    <3> QED
      BY <2>7, <3>5 DEF Count
  <2>8. CASE c.of \notin {"views", "referrers"}
    <3>1. Count(counted, c)' = Count(counted, c) /\ Count(batch[s], c)' = Count(batch[s], c)
      BY <2>3, <2>4, <2>8 DEF Count
    <3> QED
      BY <3>1, <1>1, CountType
  <2> QED
    BY <2>6, <2>7, <2>8
<1>5. CountKnown(s) \/ SelectSalt(s) \/ SaltFails(s) => \E hash : CountView(s, hash)
  BY DEF CountKnown, SelectSalt, SaltFails
<1> QED
  BY <1>3, <1>4, <1>5

\* The transaction of a flush adds its batch to the tables.
LEMMA WriteStores ==
  ASSUME IInv, NEW f \in Flush, Sound(f.batch), Write(f), NEW c \in Cells
  PROVE  Count(Stored, c)' = Count(Stored, c) + Count(f.batch, c)
<1> DEFINE b == f.batch
           open == OpenUntil(f.now)
           rows == DailyPlus(daily, b)
           pages == PagesPlus(page_views, b)
           seen == visitor_hashes \union Recorded(rows, b)
           closing == Closing(rows, open)
           pageSeen(d, r) == Cardinality(HashesOf(seen, d, {r}))
           daySeen(d) == Cardinality(HashesOf(seen, d, Routes \ {NOT_FOUND}))
<1>1. /\ page_views' = [d \in Days |-> [r \in Routes |->
           IF d \in closing THEN [pages[d][r] EXCEPT !.visitors = pageSeen(d, r)]
                            ELSE pages[d][r]]]
      /\ daily' = [d \in DOMAIN rows |->
           IF d \in closing THEN RowClosed(rows[d], daySeen(d)) ELSE rows[d]]
      /\ referrers' = PlusPlus(referrers, b.referrers)
  BY DEF Write
<1>2. /\ Counting(b) /\ Counting(Stored) /\ b \in Batch /\ IsFiniteSet(seen)
      /\ page_views \in [Days -> [Routes -> PageRow]]
      /\ referrers \in [Days -> [Hosts -> Nat]]
      /\ DOMAIN daily \subseteq Days /\ \A d \in DOMAIN daily : IsDailyRow(daily[d])
  <2>1. IsFiniteSet(b.visitors) /\ Recorded(rows, b) \subseteq b.visitors
    BY DEF Sound, Recorded
  <2>2. IsFiniteSet(seen)
    BY <2>1, FS_Subset, FS_Union DEF IInv
  <2> QED
    BY <2>2, AllCount DEF AllCounting, Sound, Batch, Counting, IInv, TypeOK
<1>3. ASSUME NEW d \in Days, NEW r \in Routes
      PROVE  page_views'[d][r].views = page_views[d][r].views + b.views[d][r]
  <2>1. page_views[d][r] \in PageRow
    BY <1>2
  <2>2. /\ pages[d][r] = [page_views[d][r] EXCEPT !.views = @ + b.views[d][r]]
        /\ page_views'[d][r] = IF d \in closing
                                 THEN [pages[d][r] EXCEPT !.visitors = pageSeen(d, r)]
                                 ELSE pages[d][r]
    BY <1>1 DEF PagesPlus
  <2> HIDE DEF closing, pageSeen, pages
  <2>3. /\ pages[d][r].views = page_views[d][r].views + b.views[d][r]
        /\ pages[d][r] = [views |-> pages[d][r].views, visitors |-> pages[d][r].visitors]
    BY <2>1, <2>2 DEF PageRow
  <2> QED
    BY <2>2, <2>3
<1>4. ASSUME NEW d \in DOMAIN rows
      PROVE  daily'[d].bots = (IF d \in DOMAIN daily THEN daily[d].bots ELSE 0) + b.bots[d]
  <2>1. IsDailyRow(rows[d]) /\ rows[d].bots = Before(d).bots + b.bots[d]
    BY DailyPlusRows DEF IInv
  <2>2. Before(d).bots = IF d \in DOMAIN daily THEN daily[d].bots ELSE 0
    BY DEF Before, NewDay
  <2>3. daySeen(d) \in Nat
    BY <1>2, HashesCountable
  <2>4. daily'[d] = IF d \in closing THEN RowClosed(rows[d], daySeen(d)) ELSE rows[d]
    BY <1>1
  <2> HIDE DEF rows, closing, daySeen
  <2>5. daily'[d].bots = rows[d].bots
    BY <2>1, <2>3, <2>4, RowClosedIsRow
  <2> QED
    BY <2>1, <2>2, <2>5
<1>5. ASSUME NEW d \in Days, d \notin DOMAIN rows
      PROVE  d \notin DOMAIN daily /\ b.bots[d] = 0
  <2>1. d \notin DOMAIN daily /\ d \notin TouchedDays(b)
    BY <1>5 DEF DailyPlus
  <2>2. b.bots[d] \in Nat /\ ~(b.bots[d] > 0)
    BY <1>2, <2>1 DEF Counting, TouchedDays
  <2> QED
    BY <2>1, <2>2
<1>6. DOMAIN daily' = DOMAIN rows
  BY <1>1
<1> HIDE DEF b, rows
<1>7. CASE c.of = "views"
  <2>1. c.day \in Days /\ c.key \in Routes
    BY <1>7 DEF Cells
  <2>2. /\ Stored.views[c.day][c.key] = page_views[c.day][c.key].views
        /\ Stored'.views[c.day][c.key] = page_views'[c.day][c.key].views
    BY <2>1 DEF Stored
  <2> QED
    BY <1>3, <1>7, <2>1, <2>2 DEF Count, b
<1>8. CASE c.of = "referrers"
  <2>1. c.day \in Days /\ c.key \in Hosts
    BY <1>8 DEF Cells
  <2>2. referrers'[c.day][c.key] = referrers[c.day][c.key] + b.referrers[c.day][c.key]
    BY <1>1, <1>2, <2>1 DEF PlusPlus, Plus, Counting
  <2>3. Stored.referrers = referrers /\ Stored'.referrers = referrers'
    BY DEF Stored
  <2> QED
    BY <1>8, <2>2, <2>3 DEF Count, b
<1>9. CASE c.of \notin {"views", "referrers"}
  <2>1. c.day \in Days
    BY DEF Cells
  <2>2. /\ Stored.bots[c.day] = IF c.day \in DOMAIN daily THEN daily[c.day].bots ELSE 0
        /\ Stored'.bots[c.day] = IF c.day \in DOMAIN daily' THEN daily'[c.day].bots ELSE 0
    BY <2>1 DEF Stored
  <2>3. Stored'.bots[c.day] = Stored.bots[c.day] + b.bots[c.day]
    <3>1. CASE c.day \in DOMAIN rows
      BY <1>4, <1>6, <2>2, <3>1
    <3>2. CASE c.day \notin DOMAIN rows
      BY <1>5, <1>6, <2>1, <2>2, <3>2
    <3> QED
      BY <3>1, <3>2
  <2> QED
    BY <1>9, <2>3 DEF Count, b
<1> QED
  BY <1>7, <1>8, <1>9

\* What moves between the batch of a server and one of its flushes.
LEMMA OneFlightMoves ==
  ASSUME IInv, IInv', NEW s \in Servers, NEW k \in Flushes, NEW c \in Cells, NEW n \in Nat,
         \A j \in Flushes : j # k => flight'[s][j] = flight[s][j],
         Count(batch[s], c)' + Flown(s, k, c)' + n = Count(batch[s], c) + Flown(s, k, c)
  PROVE  Load(s, c)' + n = Load(s, c)
<1>1. AllCounting /\ AllCounting'
  BY AllCount, PTL
<1>2. /\ Count(batch[s], c) \in Nat /\ Count(batch[s], c)' \in Nat
      /\ \A j \in Flushes : Flown(s, j, c) \in Nat /\ Flown(s, j, c)' \in Nat
  BY <1>1 DEF AllCounting
<1>3. \A j \in Flushes : j # k => Flown(s, j, c)' = Flown(s, j, c)
  BY DEF Flown
<1>4. PICK x, y, p, q, u, w :
        /\ x = Count(batch[s], c) /\ y = Count(batch[s], c)'
        /\ p = Flown(s, "periodic", c) /\ q = Flown(s, "periodic", c)'
        /\ u = Flown(s, "final", c) /\ w = Flown(s, "final", c)'
  OBVIOUS
<1>5. "periodic" \in Flushes /\ "final" \in Flushes
  BY DEF Flushes
<1>6. /\ x \in Nat /\ y \in Nat /\ p \in Nat /\ q \in Nat /\ u \in Nat /\ w \in Nat
      /\ Load(s, c) = x + p + u /\ Load(s, c)' = y + q + w
  BY <1>2, <1>4, <1>5 DEF Load
<1>7. CASE k = "periodic"
  <2>1. w = u /\ y + q + n = x + p
    BY <1>3, <1>4, <1>5, <1>7
  <2>2. y + q + w + n = x + p + u
    BY <1>6, <2>1
  <2> QED
    BY <1>6, <2>2
<1>8. CASE k = "final"
  <2>1. q = p /\ y + w + n = x + u
    BY <1>3, <1>4, <1>5, <1>8
  <2>2. y + q + w + n = x + p + u
    BY <1>6, <2>1
  <2> QED
    BY <1>6, <2>2
<1> QED
  BY <1>7, <1>8 DEF Flushes

\* Nothing is counted or lost, and the tables stay.
LEMMA SameStored ==
  ASSUME NEW c \in Cells
  PROVE  /\ counted' = counted => Count(counted, c)' = Count(counted, c)
         /\ lost' = lost => Count(lost, c)' = Count(lost, c)
         /\ UNCHANGED <<page_views, daily, referrers>> => Count(Stored, c)' = Count(Stored, c)
<1>1. counted' = counted => Count(counted, c)' = Count(counted, c)
  BY DEF Count
<1>2. lost' = lost => Count(lost, c)' = Count(lost, c)
  BY DEF Count
<1>3. ASSUME UNCHANGED <<page_views, daily, referrers>>
      PROVE  Count(Stored, c)' = Count(Stored, c)
  <2>1. Stored' = Stored
    BY <1>3 DEF Stored
  <2> QED
    BY <2>1 DEF Count
<1> QED
  BY <1>1, <1>2, <1>3

\* What a server does, its cells balance.
LEMMA StepBalances ==
  ASSUME IInv, IInv', FinalIsLast, NEW s \in Servers, Owed(s) \/ Environment(s), NEW c \in Cells
  PROVE  Count(counted, c)' + Count(lost, c) + Count(Stored, c) + Load(s, c)
           = Count(counted, c) + Count(lost, c)' + Count(Stored, c)' + Load(s, c)'
<1> USE DEF vars, tables, memory, history
<1>1. AllCounting /\ AllCounting'
  BY AllCount, PTL
<1>2. /\ \A b : Counting(b) => Count(b, c) \in Nat
      /\ batch \in [Servers -> Batch] /\ flight \in [Servers -> [Flushes -> Flush \union {None}]]
      /\ clock \in 0 .. MaxClock
  BY CountType DEF IInv, TypeOK
<1>3. /\ Count(counted, c) \in Nat /\ Count(lost, c) \in Nat /\ Count(Stored, c) \in Nat
      /\ Count(counted, c)' \in Nat /\ Count(lost, c)' \in Nat /\ Count(Stored, c)' \in Nat
      /\ Load(s, c) \in Nat /\ Load(s, c)' \in Nat
      /\ Count(batch[s], c) \in Nat /\ Count(batch[s], c)' \in Nat
  BY <1>1, <1>2 DEF AllCounting
<1>4. ASSUME UNCHANGED <<batch, flight, counted, lost, page_views, daily, referrers>>
      PROVE  /\ Count(counted, c)' = Count(counted, c) /\ Count(lost, c)' = Count(lost, c)
             /\ Count(Stored, c)' = Count(Stored, c) /\ Load(s, c)' = Load(s, c)
  BY <1>4, SameStored DEF Load, Flown
<1>5. CASE InsertSalt(s) \/ Boot(s) \/ Arrive(s) \/ Abandon(s) \/ Terminate(s)
  <2>1. UNCHANGED <<batch, flight, counted, lost, page_views, daily, referrers>>
    BY <1>5 DEF InsertSalt, Boot, Arrive, Abandon, Terminate
  <2> QED
    BY <1>3, <1>4, <2>1
<1>6. CASE CountBot(s) \/ CountKnown(s) \/ SelectSalt(s) \/ SaltFails(s)
  <2>1. flight' = flight /\ lost' = lost /\ UNCHANGED <<page_views, daily, referrers>>
    BY <1>6 DEF CountBot, CountKnown, SelectSalt, SaltFails
  <2>2. /\ Count(lost, c)' = Count(lost, c) /\ Count(Stored, c)' = Count(Stored, c)
        /\ \A k \in Flushes : Flown(s, k, c)' = Flown(s, k, c)
    BY <2>1, SameStored DEF Flown
  <2>3. Count(counted, c)' + Count(batch[s], c) = Count(counted, c) + Count(batch[s], c)'
    BY <1>6, CountMoves
  <2>4. Count(counted, c)' + Load(s, c) = Count(counted, c) + Load(s, c)'
    <3>1. PICK p, f : p = Flown(s, "periodic", c) /\ f = Flown(s, "final", c)
      OBVIOUS
    <3>2. p \in Nat /\ f \in Nat
      BY <1>1, <3>1 DEF AllCounting, Flushes
    <3>3. /\ Load(s, c) = Count(batch[s], c) + p + f
          /\ Load(s, c)' = Count(batch[s], c)' + p + f
      BY <2>2, <3>1 DEF Load, Flushes
    <3>4. Count(counted, c)' + (Count(batch[s], c) + p + f)
            = Count(counted, c) + (Count(batch[s], c)' + p + f)
      BY <1>3, <2>3, <3>2
    <3> QED
      BY <3>3, <3>4
  <2> QED
    BY <1>3, <2>2, <2>4
<1>7. ASSUME NEW k \in Flushes, flight[s][k] = None, TakeBatch(s, k),
             UNCHANGED <<counted, lost, page_views, daily, referrers>>
      PROVE  /\ Count(counted, c)' = Count(counted, c) /\ Count(lost, c)' = Count(lost, c)
             /\ Count(Stored, c)' = Count(Stored, c) /\ Load(s, c)' + 0 = Load(s, c)
  <2>1. /\ batch'[s] = EmptyBatch /\ flight'[s][k].batch = batch[s] /\ flight'[s][k] # None
        /\ \A j \in Flushes : j # k => flight'[s][j] = flight[s][j]
    <3>1. [batch |-> batch[s], now |-> clock, ticks |-> 0] # None
      BY <1>2, NoneAssumption DEF NoneAssumption, Flush
    <3> QED
      BY <1>2, <1>7, <3>1 DEF TakeBatch
  <2>2. /\ Flown(s, k, c) = 0 /\ Flown(s, k, c)' = Count(batch[s], c)
        /\ Count(batch[s], c)' = 0
    BY <1>7, <2>1, CountOfEmpty DEF Flown, Count
  <2>3. Count(batch[s], c)' + Flown(s, k, c)' + 0 = Count(batch[s], c) + Flown(s, k, c)
    BY <1>3, <2>2
  <2>4. Load(s, c)' + 0 = Load(s, c)
    BY <2>1, <2>3, OneFlightMoves
  <2> QED
    BY <1>7, <2>4, SameStored
<1>8. CASE PeriodicFlush(s)
  <2>1. "periodic" \in Flushes
    BY DEF Flushes
  <2>2. /\ flight[s]["periodic"] = None /\ TakeBatch(s, "periodic")
        /\ UNCHANGED <<counted, lost, page_views, daily, referrers>>
    BY <1>8 DEF PeriodicFlush
  <2> QED
    BY <1>3, <1>7, <2>1, <2>2
<1>9. CASE FinalFlush(s)
  <2>1. "final" \in Flushes
    BY DEF Flushes
  <2>2. /\ flight[s]["final"] = None /\ TakeBatch(s, "final")
        /\ UNCHANGED <<counted, lost, page_views, daily, referrers>>
    BY <1>9 DEF FinalFlush, FinalIsLast
  <2> QED
    BY <1>3, <1>7, <2>1, <2>2
<1>10. ASSUME NEW k \in Flushes, FlushCommits(s, k)
       PROVE  /\ Count(counted, c)' = Count(counted, c) /\ Count(lost, c)' = Count(lost, c)
              /\ Count(Stored, c)' + Load(s, c)' = Count(Stored, c) + Load(s, c)
  <2>1. PICK f : f = flight[s][k]
    OBVIOUS
  <2>2. /\ f # None /\ Write(f) /\ flight' = [flight EXCEPT ![s][k] = None]
        /\ batch' = batch /\ counted' = counted /\ lost' = lost
    BY <1>10, <2>1 DEF FlushCommits
  <2>3. f \in Flush /\ Sound(f.batch)
    BY <2>1, <2>2 DEF IInv, TypeOK
  <2>4. Count(Stored, c)' = Count(Stored, c) + Count(f.batch, c)
    BY <2>2, <2>3, WriteStores
  <2>5. /\ flight'[s][k] = None /\ \A j \in Flushes : j # k => flight'[s][j] = flight[s][j]
    BY <1>2, <2>2
  <2>6. /\ Flown(s, k, c) = Count(f.batch, c) /\ Flown(s, k, c)' = 0
        /\ Count(batch[s], c)' = Count(batch[s], c)
    BY <2>1, <2>2, <2>5 DEF Flown, Count
  <2>7. PICK n : n = Count(f.batch, c)
    OBVIOUS
  <2>8. n \in Nat
    BY <1>1, <2>1, <2>2, <2>7, <1>2 DEF AllCounting
  <2>9. Count(batch[s], c)' + Flown(s, k, c)' + n = Count(batch[s], c) + Flown(s, k, c)
    BY <1>3, <2>6, <2>7, <2>8
  <2>10. Load(s, c)' + n = Load(s, c)
    BY <2>5, <2>8, <2>9, OneFlightMoves
  <2>11. Count(Stored, c)' + Load(s, c)' = Count(Stored, c) + Load(s, c)
    BY <1>3, <2>4, <2>7, <2>8, <2>10
  <2> QED
    BY <2>2, <2>11, SameStored
<1>11. ASSUME NEW k \in Flushes, FlushFails(s, k)
       PROVE  /\ Count(counted, c)' = Count(counted, c) /\ Count(lost, c)' = Count(lost, c)
              /\ Count(Stored, c)' = Count(Stored, c) /\ Load(s, c)' + 0 = Load(s, c)
  <2>1. /\ flight[s][k] # None /\ flight' = [flight EXCEPT ![s][k] = None]
        /\ batch' = [batch EXCEPT ![s] = Merge(batch[s], flight[s][k].batch)]
        /\ UNCHANGED <<counted, lost, page_views, daily, referrers>>
    BY <1>11 DEF FlushFails
  <2>2. /\ flight'[s][k] = None /\ \A j \in Flushes : j # k => flight'[s][j] = flight[s][j]
        /\ batch'[s] = Merge(batch[s], flight[s][k].batch)
    BY <1>2, <2>1
  <2>3. Adds(batch'[s], batch[s], flight[s][k].batch)
    BY <2>2 DEF Merge, Adds
  <2>4. Counting(batch[s]) /\ Counting(flight[s][k].batch)
    BY <1>1, <2>1 DEF AllCounting
  <2>5. Count(batch'[s], c) = Count(batch[s], c) + Count(flight[s][k].batch, c)
    BY <2>3, <2>4, CountAdds
  <2>6. /\ Flown(s, k, c) = Count(flight[s][k].batch, c) /\ Flown(s, k, c)' = 0
        /\ Count(batch[s], c)' = Count(batch'[s], c)
    BY <2>1, <2>2 DEF Flown, Count
  <2>7. Count(batch[s], c)' + Flown(s, k, c)' + 0 = Count(batch[s], c) + Flown(s, k, c)
    BY <1>3, <2>5, <2>6
  <2>8. Load(s, c)' + 0 = Load(s, c)
    BY <2>2, <2>7, OneFlightMoves
  <2> QED
    BY <2>1, <2>8, SameStored
<1>12. CASE Exit(s) \/ Crash(s)
  <2>1. Dies(s) /\ UNCHANGED <<counted, page_views, daily, referrers>>
    BY <1>12 DEF Exit, Crash
  <2>2. Adds(lost', lost, Held(s))
    BY <2>1 DEF Dies, Adds
  <2>3. Counting(lost) /\ Counting(Held(s)) /\ Count(Held(s), c) = Load(s, c)
    BY <1>1 DEF AllCounting
  <2>4. Count(lost', c) = Count(lost, c) + Load(s, c)
    BY <2>2, <2>3, CountAdds
  <2>5. Count(lost, c)' = Count(lost, c) + Load(s, c)
    BY <2>4 DEF Count
  <2>6. /\ batch'[s] = EmptyBatch /\ \A k \in Flushes : flight'[s][k] = None
    BY <1>2, <2>1 DEF Dies
  <2>7. /\ Count(batch[s], c)' = 0
        /\ Flown(s, "periodic", c)' = 0 /\ Flown(s, "final", c)' = 0
    BY <2>6, CountOfEmpty DEF Flown, Count, Flushes
  <2>8. Load(s, c)' = 0
    BY <2>7 DEF Load
  <2>9. Count(counted, c)' = Count(counted, c) /\ Count(Stored, c)' = Count(Stored, c)
    BY <2>1, SameStored
  <2> QED
    BY <1>3, <2>5, <2>8, <2>9
<1>13. CASE \E k \in Flushes : FlushCommits(s, k)
  BY <1>3, <1>10, <1>13
<1>14. CASE \E k \in Flushes : FlushFails(s, k)
  BY <1>3, <1>11, <1>14
<1> QED
  BY <1>5, <1>6, <1>8, <1>9, <1>12, <1>13, <1>14 DEF Owed, Environment, Flushes

\* What all servers hold, merged one after the other.
IsMerged(g) ==
  g = [T \in SUBSET Servers |->
         IF T = {} THEN EmptyBatch ELSE Merge(Held(Pick(T)), g[T \ {Pick(T)}])]

AllHeld == (CHOOSE g : IsMerged(g))[Servers]

\* What all servers hold together counts what each of them does.
LEMMA AllHeldCounts ==
  ASSUME IInv
  PROVE  Counting(AllHeld) /\ \A c \in Cells : Count(AllHeld, c) = SumOver(Loads(c), Servers)
<1> DEFINE V == {b \in Batch : Sound(b)}
           h == CHOOSE g : IsMerged(g)
<1>1. IsFiniteSet(Servers) /\ AllCounting
  BY MetricsAssumption, AllCount DEF MetricsAssumption
<1>2. EmptyBatch \in V /\ \A s \in Servers, b \in V : Merge(Held(s), b) \in V
  BY EmptyIsSound, HeldIsSound, MergeIsSound DEF Sound
<1>3. PICK F : F = [s \in Servers |-> [b \in V |-> Merge(Held(s), b)]]
  OBVIOUS
<1> HIDE DEF V
<1>4. F \in [Servers -> [V -> V]] /\ \A s \in Servers, b \in V : F[s][b] = Merge(Held(s), b)
  BY <1>2, <1>3
<1>5. PICK k : IsFold(k, Servers, V, EmptyBatch, F)
  BY <1>1, <1>2, <1>4, FoldExists
<1>6. IsMerged(k)
  <2>1. k \in [SUBSET Servers -> V] /\ k[{}] = EmptyBatch
    BY <1>5 DEF IsFold
  <2>2. ASSUME NEW T \in SUBSET Servers, T # {}
        PROVE  k[T] = Merge(Held(Pick(T)), k[Rest(T)])
    <3>1. Pick(T) \in Servers /\ Rest(T) \in SUBSET Servers
      BY <1>1, <2>2, PickAndRest
    <3>2. k[Rest(T)] \in V
      BY <2>1, <3>1
    <3>3. k[T] = F[Pick(T)][k[Rest(T)]]
      BY <1>5, <2>2 DEF IsFold
    <3> QED
      BY <1>4, <3>1, <3>2, <3>3
  <2> QED
    BY <2>1, <2>2 DEF IsMerged, Rest
<1>7. IsMerged(h)
  BY <1>6
<1>8. AllHeld = h[Servers]
  BY DEF AllHeld
<1> HIDE DEF h
<1>9. \A T \in SUBSET Servers :
        h[T] = IF T = {} THEN EmptyBatch ELSE Merge(Held(Pick(T)), h[Rest(T)])
  BY <1>7 DEF IsMerged, Rest
<1>10. ASSUME NEW c \in Cells
       PROVE  h[Servers] \in V /\ Count(h[Servers], c) = SumOver(Loads(c), Servers)
  <2>1. PICK f : f = Loads(c)
    OBVIOUS
  <2>2. f \in [Servers -> Nat] /\ \A s \in Servers : f[s] = Count(Held(s), c)
    BY <1>1, <2>1 DEF AllCounting, Loads
  <2>3. PICK g : Sums(g, f, Servers)
    BY <1>1, <2>2, SumUnfolds
  <2>4. /\ g[Servers] = SumOver(f, Servers) /\ g[{}] = 0
        /\ \A T \in SUBSET Servers : T # {} => g[T] = f[Pick(T)] + g[Rest(T)]
    BY <2>3 DEF Sums
  <2> DEFINE Fine(T) == h[T] \in V /\ Count(h[T], c) = g[T]
             B == {T \in SUBSET Servers : ~Fine(T)}
  <2>5. ASSUME B # {}
        PROVE  FALSE
    <3>1. PICK T \in B : T = {} \/ Rest(T) \notin B
      <4>1. B \in SUBSET SUBSET Servers
        OBVIOUS
      <4> HIDE DEF B
      <4> QED
        BY <1>1, <2>5, <4>1, LeastSubset
    <3>2. T \in SUBSET Servers /\ ~Fine(T)
      BY <3>1
    <3>3. CASE T = {}
      <4>1. h[T] = EmptyBatch /\ g[T] = 0
        BY <1>9, <2>4, <3>2, <3>3
      <4> QED
        BY <1>2, <3>2, <4>1, CountOfEmpty
    <3>4. CASE T # {}
      <4>1. Pick(T) \in Servers /\ Rest(T) \in SUBSET Servers
        BY <1>1, <3>2, <3>4, PickAndRest
      <4>2. Fine(Rest(T))
        BY <3>1, <3>4, <4>1
      <4>3. h[T] = Merge(Held(Pick(T)), h[Rest(T)])
        BY <1>9, <3>2, <3>4
      <4>4. Counting(Held(Pick(T))) /\ Counting(h[Rest(T)])
        BY <1>1, <4>1, <4>2 DEF AllCounting, V, Batch, Counting
      <4>5. Adds(h[T], Held(Pick(T)), h[Rest(T)])
        BY <4>3 DEF Merge, Adds
      <4>6. Count(h[T], c) = Count(Held(Pick(T)), c) + Count(h[Rest(T)], c)
        BY <4>4, <4>5, CountAdds
      <4>7. g[T] = f[Pick(T)] + g[Rest(T)]
        BY <2>4, <3>2, <3>4
      <4>8. Count(h[T], c) = g[T]
        BY <2>2, <4>1, <4>2, <4>6, <4>7
      <4>9. h[T] \in V
        BY <1>2, <4>1, <4>2, <4>3
      <4> QED
        BY <3>2, <4>8, <4>9
    <3> QED
      BY <3>3, <3>4
  <2>6. Fine(Servers)
    BY <2>5
  <2> QED
    BY <2>1, <2>4, <2>6
<1>11. Counting(h[Servers])
  <2>1. DAY_TICKS \in Nat \ {0} /\ MaxClock \in Nat /\ NOT_FOUND \in Routes
    BY MetricsAssumption DEF MetricsAssumption
  <2>2. \E c : c \in Cells
    <3>1. day(0) \in Days
      BY <2>1 DEF Days
    <3>2. [of |-> "views", day |-> day(0), key |-> NOT_FOUND] \in Cells
      BY <2>1, <3>1 DEF Cells
    <3> QED
      BY <3>2
  <2>3. h[Servers] \in V
    BY <1>10, <2>2
  <2> QED
    BY <2>3 DEF V, Batch, Counting
<1> QED
  BY <1>8, <1>10, <1>11

\* Counts that are conserved in every cell are conserved.
LEMMA ConservedCounts ==
  ASSUME IInv, Conserved
  PROVE  CountsConserved
<1> DEFINE held == FoldSet(LAMBDA s, b : Merge(Held(s), b), EmptyBatch, Servers)
           bots == [d \in Days |-> IF d \in DOMAIN daily THEN daily[d].bots ELSE 0]
           views == [d \in Days |-> [r \in Routes |-> page_views[d][r].views]]
           kept == [views     |-> PlusPlus(views, held.views),
                    referrers |-> PlusPlus(referrers, held.referrers),
                    bots      |-> Plus(bots, held.bots)]
           all == [views     |-> PlusPlus(lost.views, kept.views),
                   referrers |-> PlusPlus(lost.referrers, kept.referrers),
                   bots      |-> Plus(lost.bots, kept.bots)]
<1>1. held = AllHeld
  BY Zenon DEF FoldSet, MapThenFoldSet, IsMerged, AllHeld, Pick
<1> HIDE DEF held
<1>2. /\ Counting(held) /\ \A c \in Cells : Count(held, c) = SumOver(Loads(c), Servers)
      /\ Counting(Stored) /\ Counting(lost) /\ Counting(counted)
  BY <1>1, AllHeldCounts, AllCount DEF AllCounting
<1>3. Adds(kept, Stored, held)
  BY DEF Adds, Stored
<1>4. Counting(kept) /\ \A c \in Cells : Count(kept, c) = Count(Stored, c) + Count(held, c)
  BY <1>2, <1>3, CountAdds
<1> HIDE DEF kept
<1>5. Adds(all, lost, kept)
  BY DEF Adds
<1>6. Counting(all) /\ \A c \in Cells : Count(all, c) = Count(lost, c) + Count(kept, c)
  BY <1>2, <1>4, <1>5, CountAdds
<1> HIDE DEF all
<1>7. ASSUME NEW c \in Cells
      PROVE  Count(counted, c) = Count(all, c)
  <2>1. PICK l, t, h : l = Count(lost, c) /\ t = Count(Stored, c) /\ h = Count(held, c)
    OBVIOUS
  <2>2. l \in Nat /\ t \in Nat /\ h \in Nat
    BY <1>2, <2>1, CountType
  <2>3. Count(counted, c) = l + t + h /\ Count(all, c) = l + (t + h)
    BY <1>2, <1>4, <1>6, <2>1 DEF Conserved
  <2> QED
    BY <2>2, <2>3
<1>8. counted.views = all.views /\ counted.referrers = all.referrers /\ counted.bots = all.bots
  BY <1>2, <1>6, <1>7, SameCounts
<1>9. counted = [views |-> counted.views, referrers |-> counted.referrers, bots |-> counted.bots]
  BY DEF IInv, TypeOK, Counts
<1>10. counted = all
  <2>1. all = [views |-> all.views, referrers |-> all.referrers, bots |-> all.bots]
    BY DEF all
  <2> QED
    BY <1>8, <1>9, <2>1
<1> QED
  BY <1>10, Zenon DEF CountsConserved, all, kept, held

\* Time moves no count.
LEMMA TickConserves ==
  ASSUME IInv, Conserved, Tick \/ UNCHANGED vars
  PROVE  Conserved'
<1> USE DEF vars, tables, memory, history
<1>1. /\ UNCHANGED <<batch, counted, lost, page_views, daily, referrers>>
  BY DEF Tick
<1>2. ASSUME NEW s \in Servers, NEW k \in Flushes, NEW c \in Cells
      PROVE  Flown(s, k, c)' = Flown(s, k, c)
  <2>1. CASE UNCHANGED vars
    BY <2>1 DEF Flown
  <2>2. CASE Tick /\ flight[s][k] = None
    <3>1. flight'[s][k] = None
      BY <2>2 DEF Tick
    <3> QED
      BY <2>2, <3>1 DEF Flown
  <2>3. CASE Tick /\ flight[s][k] # None
    <3>1. flight[s][k] \in Flush
      BY <2>3 DEF IInv, TypeOK
    <3> DEFINE older == [flight[s][k] EXCEPT !.ticks = @ + 1]
    <3>2. older \in Flush /\ older.batch = flight[s][k].batch
      BY <3>1 DEF Flush
    <3>3. flight'[s][k] = older
      BY <2>3 DEF Tick
    <3>4. older # None
      BY <3>2, NoneAssumption DEF NoneAssumption
    <3> HIDE DEF older
    <3> QED
      BY <2>3, <3>2, <3>3, <3>4 DEF Flown, Count
  <2> QED
    BY <2>1, <2>2, <2>3
<1>3. ASSUME NEW c \in Cells
      PROVE  Loads(c)' = Loads(c)
  <2>1. \A s \in Servers : Load(s, c)' = Load(s, c)
    <3>1. \A s \in Servers : Count(batch[s], c)' = Count(batch[s], c)
      BY <1>1 DEF Count
    <3> QED
      BY <1>2, <3>1 DEF Load, Flushes
  <2> QED
    BY <2>1 DEF Loads
<1>4. ASSUME NEW c \in Cells
      PROVE  /\ Count(counted, c)' = Count(counted, c) /\ Count(lost, c)' = Count(lost, c)
             /\ Count(Stored, c)' = Count(Stored, c)
             /\ SumOver(Loads(c), Servers)' = SumOver(Loads(c), Servers)
  BY <1>1, <1>3, SameStored DEF SumOver, IsSum
<1> QED
  BY <1>4 DEF Conserved

\* Nothing is counted at first.
LEMMA InitConserves ==
  ASSUME Init
  PROVE  Conserved
<1> SUFFICES ASSUME NEW c \in Cells
             PROVE  Count(counted, c) =
                      Count(lost, c) + Count(Stored, c) + SumOver(Loads(c), Servers)
  BY DEF Conserved
<1>1. counted = NoCounts /\ lost = NoCounts /\ Stored = NoCounts
  BY DEF Init, Stored, NoCounts, NoViews, EmptyBatch
<1>2. Count(counted, c) = 0 /\ Count(lost, c) = 0 /\ Count(Stored, c) = 0
  BY <1>1, CountOfEmpty
<1>3. \A s \in Servers : Load(s, c) = 0
  BY CountOfEmpty DEF Init, Load, Flown, Flushes
<1>4. PICK f : f = Loads(c)
  OBVIOUS
<1>5. f \in [Servers -> Nat] /\ \A s \in Servers : f[s] = 0
  BY <1>3, <1>4 DEF Loads
<1>6. SumOver(f, Servers) = 0
  BY <1>5, SumOfNone, MetricsAssumption DEF MetricsAssumption
<1> QED
  BY <1>2, <1>4, <1>6

\* No view, bot or referral that was counted is kept twice or not at all, with
\* any number of servers, flushes under way and writes that fail.
THEOREM EveryCountIsKeptOnce == Spec => []CountsConserved
<1>1. Init => Conserved
  BY InitConserves
<1>2. Conserved /\ MemoryInv /\ MemoryInv' /\ [Next]_vars => Conserved'
  <2> SUFFICES ASSUME Conserved, MemoryInv, MemoryInv', [Next]_vars PROVE Conserved'
    OBVIOUS
  <2>0. IInv /\ IInv' /\ FinalIsLast
    BY DEF MemoryInv
  <2>1. ASSUME NEW s \in Servers, Owed(s) \/ Environment(s)
        PROVE  Conserved'
    <3>1. \A t \in Servers : t # s => batch'[t] = batch[t] /\ flight'[t] = flight[t]
      BY <2>0, <2>1, OthersStay
    <3>2. \A c \in Cells :
            Count(counted, c)' + Count(lost, c) + Count(Stored, c) + Load(s, c)
              = Count(counted, c) + Count(lost, c)' + Count(Stored, c)' + Load(s, c)'
      BY <2>0, <2>1, StepBalances
    <3> QED
      BY <2>0, <3>1, <3>2, Balances
  <2>2. CASE Tick \/ UNCHANGED vars
    BY <2>0, <2>2, TickConserves
  <2> QED
    BY <2>1, <2>2 DEF Next
<1>3. MemoryInv /\ Conserved => CountsConserved
  BY ConservedCounts DEF MemoryInv
<1> QED
  BY <1>1, <1>2, <1>3, MemoryInvariance, PTL DEF Spec

-----------------------------------------------------------------------------
(***************************************************************************)
(* Nothing reaches a closed day, if a request, as many flushes as writes   *)
(* fail and one more, and a write take no longer than the grace.  What is  *)
(* in a memory is of a day that ended no longer ago than that: a batch     *)
(* grows older with the time since the last flush began, a flush with the  *)
(* time it takes, and a merge brings to the batch, for one more failure,   *)
(* what is as old as the time since that flush began.                      *)
(***************************************************************************)
Timely == REQUEST_TICKS + FLUSH_WITHIN * (1 + MaxFails) + WRITE_TICKS <= GRACE

\* A request, and the flushes that n failures put off.
Late(n) == REQUEST_TICKS + FLUSH_WITHIN * n

\* The oldest that anything in a memory may be.
Oldest(n) == Late(1 + n) + WRITE_TICKS

\* The days a batch has something of.
Touches(b, d) ==
  \/ \E r \in Routes : b.views[d][r] > 0
  \/ \E h \in Hosts : b.referrers[d][h] > 0
  \/ b.bots[d] > 0

\* All of a batch is of days that were not over n ticks before t.
Aged(b, n, t) == \A d \in Days : Touches(b, d) => day(t - n) <= d

\* A shutdown that waits for nothing: the time stands still until it is done.
Gone(p, fl) == p = "stopping" /\ fl["final"] = None

\* A server in phase p that answers q, keeps b and fl, and began a flush i ticks
\* ago, is in time at t, when n writes have failed.
InTime(p, q, b, fl, i, n, t) ==
  /\ i <= FLUSH_WITHIN
  /\ q # None => q.ticks <= REQUEST_TICKS /\ day(t - q.ticks) <= q.day
  /\ Aged(b, IF Gone(p, fl) THEN Oldest(n) ELSE Late(n) + i, t)
  /\ \A k \in Flushes : fl[k] # None =>
       /\ fl[k].ticks <= WRITE_TICKS /\ fl[k].now <= t
       /\ Aged(fl[k].batch, IF Gone(p, fl) THEN Oldest(n) ELSE Late(1 + n) + fl[k].ticks, t)
  /\ fl["periodic"] # None => fl["periodic"].ticks = i
  /\ p = "down" => q = None /\ b = EmptyBatch /\ \A k \in Flushes : fl[k] = None

ServerInTime(s) == InTime(phase[s], request[s], batch[s], flight[s], idle[s], fails, clock)

GraceInv ==
  /\ fails <= MaxFails
  /\ \A s \in Servers : ServerInTime(s)
  /\ \A d \in Days : IsClosed(daily, d) => d < day(clock - GRACE)

\* A later moment is not of an earlier day.
LEMMA DayMonotone ==
  ASSUME NEW t \in Int, NEW u \in Int, t <= u
  PROVE  day(t) \in Int /\ day(u) \in Int /\ day(t) <= day(u)
<1>1. DAY_TICKS \in Nat \ {0}
  BY MetricsAssumption DEF MetricsAssumption
<1> QED
  BY <1>1 DEF day

\* Every failure puts off by a flush.
LEMMA LateGrows ==
  ASSUME NEW m \in Nat, NEW n \in Nat, m <= n
  PROVE  /\ Late(m) \in Nat /\ Late(n) \in Nat /\ Late(m) <= Late(n) /\ REQUEST_TICKS <= Late(m)
         /\ Late(1 + n) = Late(n) + FLUSH_WITHIN /\ Late(1 + n) \in Nat
         /\ FLUSH_WITHIN \in Nat /\ WRITE_TICKS \in Nat /\ REQUEST_TICKS \in Nat /\ GRACE \in Nat
<1>1. /\ FLUSH_WITHIN \in Nat /\ WRITE_TICKS \in Nat /\ REQUEST_TICKS \in Nat /\ GRACE \in Nat
  BY MetricsAssumption DEF MetricsAssumption
<1>2. PICK k \in Nat : n = m + k
  <2>1. n - m \in Nat
    OBVIOUS
  <2> QED
    BY <2>1
<1>3. FLUSH_WITHIN * n = FLUSH_WITHIN * m + FLUSH_WITHIN * k
  BY <1>1, <1>2
<1>4. FLUSH_WITHIN * (1 + n) = FLUSH_WITHIN * n + FLUSH_WITHIN
  BY <1>1
<1>5. FLUSH_WITHIN * m \in Nat /\ FLUSH_WITHIN * k \in Nat /\ FLUSH_WITHIN * n \in Nat
  BY <1>1
<1> QED
  BY <1>1, <1>3, <1>4, <1>5 DEF Late

\* What is of days not long over still is, a while later and for a longer while.
LEMMA AgedMore ==
  ASSUME NEW b, NEW n \in Int, NEW m \in Int, NEW t \in Int, NEW u \in Int,
         u - m <= t - n, Aged(b, n, t)
  PROVE  Aged(b, m, u)
<1> SUFFICES ASSUME NEW d \in Days, Touches(b, d)
             PROVE  day(u - m) <= d
  BY DEF Aged
<1>1. day(t - n) <= d
  BY DEF Aged
<1>2. day(u - m) \in Int /\ day(t - n) \in Int /\ day(u - m) <= day(t - n)
  <2>1. u - m \in Int /\ t - n \in Int
    OBVIOUS
  <2> QED
    BY <2>1, DayMonotone
<1>3. d \in Int
  <2>1. PICK w \in 0 .. MaxClock : d = day(w)
    BY DEF Days
  <2>2. w \in Int
    BY MetricsAssumption DEF MetricsAssumption
  <2> QED
    BY <2>1, <2>2, DayMonotone
<1> QED
  BY <1>1, <1>2, <1>3

\* There is nothing old in an empty batch.
LEMMA AgedEmpty == \A n, t : Aged(EmptyBatch, n, t)
  BY DEF Aged, Touches, EmptyBatch, NoViews

\* Two batches together touch what both touch.
LEMMA MergeTouches ==
  ASSUME NEW b \in Batch, NEW c \in Batch, NEW d \in Days, Touches(Merge(b, c), d)
  PROVE  Touches(b, d) \/ Touches(c, d)
<1>1. Counting(b) /\ Counting(c)
  BY DEF Batch, Counting
<1>2. PICK m : m = Merge(b, c)
  OBVIOUS
<1>3. /\ \A r \in Routes : m.views[d][r] = b.views[d][r] + c.views[d][r]
      /\ \A h \in Hosts : m.referrers[d][h] = b.referrers[d][h] + c.referrers[d][h]
      /\ m.bots[d] = b.bots[d] + c.bots[d]
  BY <1>1, <1>2 DEF Merge, Counting, PlusPlus, Plus
<1>4. \A x, y \in Nat : x + y > 0 => x > 0 \/ y > 0
  OBVIOUS
<1>5. Touches(m, d)
  BY <1>2
<1>6. CASE \E r \in Routes : m.views[d][r] > 0
  BY <1>1, <1>3, <1>4, <1>6 DEF Touches, Counting
<1>7. CASE \E h \in Hosts : m.referrers[d][h] > 0
  BY <1>1, <1>3, <1>4, <1>7 DEF Touches, Counting
<1>8. CASE m.bots[d] > 0
  BY <1>1, <1>3, <1>4, <1>8 DEF Touches, Counting
<1> QED
  BY <1>5, <1>6, <1>7, <1>8 DEF Touches

\* Two batches together are as old as both.
LEMMA AgedMerge ==
  ASSUME NEW b \in Batch, NEW c \in Batch, NEW n, NEW t, Aged(b, n, t), Aged(c, n, t)
  PROVE  Aged(Merge(b, c), n, t)
  BY MergeTouches DEF Aged

\* Counting touches the day of the request.
LEMMA CountTouches ==
  ASSUME IInv, NEW s \in Servers,
         CountBot(s) \/ CountKnown(s) \/ SelectSalt(s) \/ SaltFails(s),
         NEW d \in Days, Touches(batch'[s], d)
  PROVE  Touches(batch[s], d) \/ d = request[s].day
<1> DEFINE q == request[s]
<1>1. Counting(batch[s]) /\ batch \in [Servers -> Batch] /\ batch[s] \in Batch
  BY AllCount DEF AllCounting, IInv, TypeOK
<1>2. CASE CountBot(s)
  <2>1. batch'[s] = [batch[s] EXCEPT !.bots = [batch[s].bots EXCEPT ![q.day] = @ + 1]]
    BY <1>1, <1>2 DEF CountBot
  <2>2. /\ batch'[s].views = batch[s].views /\ batch'[s].referrers = batch[s].referrers
        /\ d # q.day => batch'[s].bots[d] = batch[s].bots[d]
    BY <1>1, <2>1 DEF Batch
  <2> QED
    BY <2>2 DEF Touches
<1>3. CASE \E hash : CountView(s, hash)
  <2>1. PICK hash : batch' = [batch EXCEPT ![s] = WithView(batch[s], q, hash)]
    BY <1>3 DEF CountView
  <2>2. /\ batch'[s].views = [batch[s].views EXCEPT ![q.day][q.route] = @ + 1]
        /\ batch'[s].referrers = IF KeepsReferrer(batch[s], q.day, q.host)
                                 THEN [batch[s].referrers EXCEPT ![q.day][q.host] = @ + 1]
                                 ELSE batch[s].referrers
        /\ batch'[s].bots = batch[s].bots
    BY <1>1, <2>1 DEF WithView
  <2>3. d # q.day => /\ batch'[s].views[d] = batch[s].views[d]
                     /\ batch'[s].referrers[d] = batch[s].referrers[d]
    BY <1>1, <2>2 DEF Batch
  <2> QED
    BY <2>2, <2>3 DEF Touches
<1>4. CountKnown(s) \/ SelectSalt(s) \/ SaltFails(s) => \E hash : CountView(s, hash)
  BY DEF CountKnown, SelectSalt, SaltFails
<1> QED
  BY <1>2, <1>3, <1>4

\* The flushes of a server.
AreFlights(fl) == fl \in [Flushes -> Flush \union {None}]

\* What a server in time keeps is no older than the oldest.
LEMMA NoneIsOlder ==
  ASSUME NEW p, NEW q, NEW b, NEW fl, NEW i \in Nat, NEW n \in Nat, NEW t \in Int,
         AreFlights(fl), InTime(p, q, b, fl, i, n, t)
  PROVE  /\ Aged(b, Oldest(n), t) /\ Oldest(n) \in Nat
         /\ \A k \in Flushes : fl[k] # None => Aged(fl[k].batch, Oldest(n), t)
<1>1. /\ Late(n) \in Nat /\ Late(1 + n) = Late(n) + FLUSH_WITHIN /\ Late(1 + n) \in Nat
      /\ FLUSH_WITHIN \in Nat /\ WRITE_TICKS \in Nat
  BY LateGrows
<1>2. Oldest(n) \in Nat /\ Oldest(n) = Late(n) + FLUSH_WITHIN + WRITE_TICKS
  BY <1>1 DEF Oldest
<1>3. i <= FLUSH_WITHIN
  BY DEF InTime
<1>4. ASSUME NEW a, NEW m \in Nat, Aged(a, m, t), m <= Oldest(n)
      PROVE  Aged(a, Oldest(n), t)
  <2>1. m \in Int /\ Oldest(n) \in Int /\ t - Oldest(n) <= t - m
    BY <1>2, <1>4
  <2> QED
    BY <1>4, <2>1, AgedMore
<1>5. Aged(b, Oldest(n), t)
  <2>1. CASE Gone(p, fl)
    BY <2>1 DEF InTime
  <2>2. CASE ~Gone(p, fl)
    <3>1. Aged(b, Late(n) + i, t)
      BY <2>2 DEF InTime
    <3>2. Late(n) + i \in Nat /\ Late(n) + i <= Oldest(n)
      BY <1>1, <1>2, <1>3
    <3> QED
      BY <1>4, <3>1, <3>2
  <2> QED
    BY <2>1, <2>2
<1>6. ASSUME NEW k \in Flushes, fl[k] # None
      PROVE  Aged(fl[k].batch, Oldest(n), t)
  <2>1. CASE Gone(p, fl)
    BY <1>6, <2>1 DEF InTime
  <2>2. CASE ~Gone(p, fl)
    <3>1. Aged(fl[k].batch, Late(1 + n) + fl[k].ticks, t) /\ fl[k].ticks <= WRITE_TICKS
      BY <1>6, <2>2 DEF InTime
    <3>2. fl[k].ticks \in Nat
      BY <1>6 DEF AreFlights, Flush
    <3>3. Late(1 + n) + fl[k].ticks \in Nat /\ Late(1 + n) + fl[k].ticks <= Oldest(n)
      BY <1>1, <3>1, <3>2 DEF Oldest
    <3> QED
      BY <1>4, <3>1, <3>3
  <2> QED
    BY <2>1, <2>2
<1> QED
  BY <1>2, <1>5, <1>6

\* A server that does nothing stays in time, whoever's writes fail.
LEMMA IdleInTime ==
  ASSUME NEW p, NEW q, NEW b, NEW fl, NEW i \in Nat, NEW n \in Nat, NEW m \in Nat, NEW t \in Int,
         AreFlights(fl), InTime(p, q, b, fl, i, n, t), n <= m
  PROVE  InTime(p, q, b, fl, i, m, t)
<1>1. /\ Late(n) \in Nat /\ Late(m) \in Nat /\ Late(n) <= Late(m)
      /\ Late(1 + n) = Late(n) + FLUSH_WITHIN /\ Late(1 + m) = Late(m) + FLUSH_WITHIN
      /\ Late(1 + n) \in Nat /\ Late(1 + m) \in Nat
      /\ FLUSH_WITHIN \in Nat /\ WRITE_TICKS \in Nat
  <2>1. n <= n /\ m <= m
    OBVIOUS
  <2>2. /\ Late(n) \in Nat /\ Late(1 + n) = Late(n) + FLUSH_WITHIN /\ Late(1 + n) \in Nat
        /\ FLUSH_WITHIN \in Nat /\ WRITE_TICKS \in Nat
    BY <2>1, LateGrows
  <2>3. Late(m) \in Nat /\ Late(1 + m) = Late(m) + FLUSH_WITHIN /\ Late(1 + m) \in Nat
    BY <2>1, LateGrows
  <2>4. Late(n) <= Late(m)
    BY LateGrows
  <2> QED
    BY <2>2, <2>3, <2>4
<1>2. Late(1 + n) <= Late(1 + m) /\ Oldest(n) \in Nat /\ Oldest(m) \in Nat /\ Oldest(n) <= Oldest(m)
  BY <1>1 DEF Oldest
<1>3. ASSUME NEW a, NEW x \in Nat, NEW y \in Nat, Aged(a, x, t), x <= y
      PROVE  Aged(a, y, t)
  <2>1. x \in Int /\ y \in Int /\ t - y <= t - x
    BY <1>3
  <2> QED
    BY <1>3, <2>1, AgedMore
<1>4. Aged(b, IF Gone(p, fl) THEN Oldest(m) ELSE Late(m) + i, t)
  <2>1. Late(n) + i \in Nat /\ Late(m) + i \in Nat /\ Late(n) + i <= Late(m) + i
    BY <1>1
  <2> QED
    BY <1>2, <1>3, <2>1 DEF InTime
<1>5. ASSUME NEW k \in Flushes, fl[k] # None
      PROVE  Aged(fl[k].batch, IF Gone(p, fl) THEN Oldest(m) ELSE Late(1 + m) + fl[k].ticks, t)
  <2>1. fl[k].ticks \in Nat
    BY <1>5 DEF AreFlights, Flush
  <2>2. /\ Late(1 + n) + fl[k].ticks \in Nat /\ Late(1 + m) + fl[k].ticks \in Nat
        /\ Late(1 + n) + fl[k].ticks <= Late(1 + m) + fl[k].ticks
    BY <1>1, <1>2, <2>1
  <2> QED
    BY <1>2, <1>3, <1>5, <2>2 DEF InTime
<1> QED
  BY <1>4, <1>5 DEF InTime

\* A request counted in time leaves its server in time.
LEMMA CountInTime ==
  ASSUME NEW p, NEW q \in Request, NEW b, NEW c, NEW fl,
         NEW i \in Nat, NEW n \in Nat, NEW t \in Int,
         AreFlights(fl), InTime(p, q, b, fl, i, n, t), q # None,
         \A d \in Days : Touches(c, d) => Touches(b, d) \/ d = q.day
  PROVE  InTime(p, None, c, fl, i, n, t)
<1> DEFINE most == IF Gone(p, fl) THEN Oldest(n) ELSE Late(n) + i
<1>1. /\ Late(n) \in Nat /\ REQUEST_TICKS <= Late(n) /\ Oldest(n) \in Nat
      /\ Oldest(n) = Late(n) + FLUSH_WITHIN + WRITE_TICKS
      /\ FLUSH_WITHIN \in Nat /\ WRITE_TICKS \in Nat /\ REQUEST_TICKS \in Nat
  <2>1. n <= n
    OBVIOUS
  <2>2. /\ Late(n) \in Nat /\ REQUEST_TICKS <= Late(n)
        /\ Late(1 + n) = Late(n) + FLUSH_WITHIN /\ Late(1 + n) \in Nat
        /\ FLUSH_WITHIN \in Nat /\ WRITE_TICKS \in Nat /\ REQUEST_TICKS \in Nat
    BY <2>1, LateGrows
  <2> QED
    BY <2>2 DEF Oldest
<1>2. /\ q.ticks \in Nat /\ q.ticks <= REQUEST_TICKS /\ day(t - q.ticks) <= q.day
      /\ q.day \in Days
  BY DEF InTime, Request
<1>3. most \in Int /\ q.ticks <= most
  BY <1>1, <1>2
<1> HIDE DEF most
<1>4. day(t - most) <= q.day
  <2>1. /\ t - most \in Int /\ t - q.ticks \in Int /\ t - most <= t - q.ticks
    BY <1>2, <1>3
  <2>2. day(t - most) \in Int /\ day(t - q.ticks) \in Int /\ day(t - most) <= day(t - q.ticks)
    BY <2>1, DayMonotone
  <2>3. q.day \in Int
    <3>1. PICK w \in 0 .. MaxClock : q.day = day(w)
      BY <1>2 DEF Days
    <3>2. w \in Int
      BY MetricsAssumption DEF MetricsAssumption
    <3> QED
      BY <3>1, <3>2, DayMonotone
  <2> QED
    BY <1>2, <2>2, <2>3
<1>5. Aged(b, most, t)
  BY DEF InTime, most
<1>6. Aged(c, most, t)
  BY <1>4, <1>5 DEF Aged
<1>7. p # "down"
  BY DEF InTime
<1> QED
  BY <1>6, <1>7 DEF InTime, most

\* A batch taken is as old as it was, of a flush that begins now.
LEMMA TakeInTime ==
  ASSUME NEW p, NEW q, NEW b, NEW fl, NEW i \in Nat, NEW n \in Nat, NEW t \in 0 .. MaxClock,
         AreFlights(fl), InTime(p, q, b, fl, i, n, t), NEW k \in Flushes, fl[k] = None, b \in Batch,
         NEW o, o = [p |-> IF k = "final" THEN "stopping" ELSE p,
                     i |-> IF k = "final" THEN i ELSE 0],
         p # "down", k = "final" => p # "stopping"
  PROVE  InTime(o.p, q, EmptyBatch, [fl EXCEPT ![k] = [batch |-> b, now |-> t, ticks |-> 0]],
                o.i, n, t)
<1> DEFINE taken == [batch |-> b, now |-> t, ticks |-> 0]
           gl == [fl EXCEPT ![k] = taken]
<1>1. /\ Late(n) \in Nat /\ Late(1 + n) \in Nat /\ Late(1 + n) = Late(n) + FLUSH_WITHIN
      /\ FLUSH_WITHIN \in Nat /\ WRITE_TICKS \in Nat /\ t \in Int
  BY LateGrows, MetricsAssumption DEF MetricsAssumption
<1>2. taken \in Flush /\ taken # None
  <2>1. taken \in Flush
    BY DEF Flush
  <2> QED
    BY <2>1, NoneAssumption DEF NoneAssumption
<1>3. taken.batch = b /\ taken.now = t /\ taken.ticks = 0
  OBVIOUS
<1> HIDE DEF taken
<1>4. gl[k] = taken /\ \A j \in Flushes : j # k => gl[j] = fl[j]
  BY DEF AreFlights
<1> HIDE DEF gl
<1>5. "periodic" \in Flushes /\ "final" \in Flushes
  BY DEF Flushes
<1>6. Gone(o.p, gl) <=> (k = "periodic" /\ Gone(p, fl))
  BY <1>2, <1>4, <1>5 DEF Gone, Flushes
<1>7. Aged(b, IF Gone(o.p, gl) THEN Oldest(n) ELSE Late(1 + n) + 0, t)
  <2>1. CASE Gone(o.p, gl)
    BY <1>6, <2>1 DEF InTime
  <2>2. CASE ~Gone(o.p, gl)
    <3>1. Aged(b, Late(n) + i, t)
      BY <1>6, <2>2 DEF InTime, Gone, Flushes
    <3>2. /\ Late(n) + i \in Int /\ Late(1 + n) + 0 \in Int
          /\ t - (Late(1 + n) + 0) <= t - (Late(n) + i)
      <4>1. i <= FLUSH_WITHIN
        BY DEF InTime
      <4> QED
        BY <1>1, <4>1
    <3>3. Aged(b, Late(1 + n) + 0, t)
      BY <1>1, <3>1, <3>2, AgedMore
    <3> QED
      BY <2>2, <3>3
  <2> QED
    BY <2>1, <2>2
<1>8. ASSUME NEW j \in Flushes, gl[j] # None
      PROVE  /\ gl[j].ticks <= WRITE_TICKS /\ gl[j].now <= t
             /\ Aged(gl[j].batch,
                     IF Gone(o.p, gl) THEN Oldest(n) ELSE Late(1 + n) + gl[j].ticks, t)
  <2>1. CASE j = k
    BY <1>1, <1>3, <1>4, <1>7, <2>1
  <2>2. CASE j # k
    <3>1. gl[j] = fl[j]
      BY <1>4, <2>2
    <3>2. Gone(o.p, gl) <=> Gone(p, fl)
      BY <1>6 , <1>8, <2>2, <3>1 DEF Gone, Flushes
    <3> QED
      BY <1>8, <3>1, <3>2 DEF InTime
  <2> QED
    BY <2>1, <2>2
<1>9. gl["periodic"] # None => gl["periodic"].ticks = o.i
  <2>1. CASE k = "periodic"
    BY <1>3, <1>4, <2>1
  <2>2. CASE k = "final"
    BY <1>4, <1>5, <2>2 DEF InTime
  <2> QED
    BY <2>1, <2>2 DEF Flushes
<1>10. o.i <= FLUSH_WITHIN /\ o.p # "down"
  BY <1>1 DEF InTime
<1>11. q # None => q.ticks <= REQUEST_TICKS /\ day(t - q.ticks) <= q.day
  BY DEF InTime
<1> QED
  BY <1>8, <1>9, <1>10, <1>11, AgedEmpty DEF InTime, gl, taken

\* A flush that ends leaves its server in time, its batch merged back or not.
LEMMA EndInTime ==
  ASSUME NEW p, NEW q, NEW b \in Batch, NEW fl, NEW i \in Nat, NEW n \in Nat, NEW t \in Int,
         AreFlights(fl), InTime(p, q, b, fl, i, n, t), NEW k \in Flushes, fl[k] # None,
         k = "final" => p = "stopping"
  PROVE  LET gl == [fl EXCEPT ![k] = None]
         IN  /\ InTime(p, q, b, gl, i, n, t)
             /\ InTime(p, q, Merge(b, fl[k].batch), gl, i, n + 1, t)
<1> DEFINE gl == [fl EXCEPT ![k] = None]
<1>1. gl[k] = None /\ \A j \in Flushes : j # k => gl[j] = fl[j]
  BY DEF AreFlights
<1>0. AreFlights(gl)
  BY DEF AreFlights
<1> HIDE DEF gl
<1>2. "periodic" \in Flushes /\ "final" \in Flushes
  BY DEF Flushes
<1>3. /\ Aged(b, Oldest(n), t) /\ Oldest(n) \in Nat
      /\ \A j \in Flushes : fl[j] # None => Aged(fl[j].batch, Oldest(n), t)
  BY NoneIsOlder
<1>4. Gone(p, fl) \/ k = "final" <=> Gone(p, gl)
  BY <1>1, <1>2 DEF Gone, Flushes
<1>5. /\ i <= FLUSH_WITHIN /\ p # "down"
      /\ q # None => q.ticks <= REQUEST_TICKS /\ day(t - q.ticks) <= q.day
      /\ gl["periodic"] # None => gl["periodic"].ticks = i
  BY <1>1, <1>2 DEF InTime
<1>6. ASSUME NEW j \in Flushes, gl[j] # None
      PROVE  /\ gl[j].ticks <= WRITE_TICKS /\ gl[j].now <= t
             /\ Aged(gl[j].batch, IF Gone(p, gl) THEN Oldest(n) ELSE Late(1 + n) + gl[j].ticks, t)
  <2>1. j # k /\ gl[j] = fl[j]
    BY <1>1, <1>6
  <2>2. fl[j].ticks <= WRITE_TICKS /\ fl[j].now <= t
    BY <1>6, <2>1 DEF InTime
  <2>3. CASE Gone(p, gl)
    BY <1>3, <1>6, <2>1, <2>2, <2>3
  <2>4. CASE ~Gone(p, gl)
    BY <1>4, <1>6, <2>1, <2>2, <2>4 DEF InTime
  <2> QED
    BY <2>3, <2>4
<1>7. InTime(p, q, b, gl, i, n, t)
  <2>1. Aged(b, IF Gone(p, gl) THEN Oldest(n) ELSE Late(n) + i, t)
    <3>1. CASE Gone(p, gl)
      BY <1>3, <3>1
    <3>2. CASE ~Gone(p, gl)
      BY <1>4, <3>2 DEF InTime
    <3> QED
      BY <3>1, <3>2
  <2> QED
    BY <1>5, <1>6, <2>1 DEF InTime
<1>8. InTime(p, q, b, gl, i, n + 1, t)
  BY <1>0, <1>7, IdleInTime
<1>9. InTime(p, q, Merge(b, fl[k].batch), gl, i, n + 1, t)
  <2> DEFINE most == IF Gone(p, gl) THEN Oldest(n + 1) ELSE Late(n + 1) + i
  <2>1. Aged(b, most, t)
    BY <1>8 DEF InTime
  <2>2. Aged(fl[k].batch, most, t)
    <3>1. CASE Gone(p, gl)
      <4>1. Oldest(n + 1) \in Int /\ t - Oldest(n + 1) <= t - Oldest(n)
        <5>1. n <= n + 1 /\ n + 1 <= n + 1 /\ n + 1 \in Nat /\ 1 + n = n + 1
          OBVIOUS
        <5>2. /\ Late(n + 1) \in Nat /\ Late(1 + (n + 1)) = Late(n + 1) + FLUSH_WITHIN
              /\ FLUSH_WITHIN \in Nat /\ WRITE_TICKS \in Nat
          BY <5>1, LateGrows
        <5>3. Oldest(n) = Late(n + 1) + WRITE_TICKS
              /\ Oldest(n + 1) = Late(n + 1) + FLUSH_WITHIN + WRITE_TICKS
          BY <5>1, <5>2 DEF Oldest
        <5> QED
          BY <5>2, <5>3
      <4>2. Aged(fl[k].batch, Oldest(n + 1), t)
        BY <1>3, <4>1, AgedMore
      <4> QED
        BY <3>1, <4>2
    <3>2. CASE ~Gone(p, gl)
      <4>1. k = "periodic" /\ ~Gone(p, fl)
        BY <1>4, <3>2 DEF Flushes
      <4>2. Aged(fl[k].batch, Late(1 + n) + fl[k].ticks, t) /\ fl[k].ticks = i
        BY <4>1 DEF InTime
      <4>3. 1 + n = n + 1
        OBVIOUS
      <4> QED
        BY <3>2, <4>2, <4>3
    <3> QED
      BY <3>1, <3>2
  <2>3. fl[k].batch \in Batch
    BY DEF AreFlights, Flush
  <2> HIDE DEF most
  <2>4. Aged(Merge(b, fl[k].batch), most, t)
    BY <2>1, <2>2, <2>3, AgedMerge
  <2> QED
    BY <1>5, <1>8, <2>4 DEF InTime, most
<1> QED
  BY <1>7, <1>9 DEF gl

\* A tick, that every deadline allows, leaves a server in time.
LEMMA TickInTime ==
  ASSUME NEW p, NEW q, NEW b, NEW fl,
         NEW i \in Nat, NEW n \in Nat, NEW t \in Int, NEW u \in Int,
         AreFlights(fl), InTime(p, q, b, fl, i, n, t), q \in Request \union {None},
         t <= u, u <= t + 1,
         ~Gone(p, fl), p # "down" => i < FLUSH_WITHIN,
         q # None => q.ticks < REQUEST_TICKS,
         \A k \in Flushes : fl[k] # None => fl[k].ticks < WRITE_TICKS,
         NEW r, r = IF q = None THEN None ELSE [q EXCEPT !.ticks = @ + 1],
         NEW gl, gl = [k \in Flushes |->
                        IF fl[k] = None THEN None ELSE [fl[k] EXCEPT !.ticks = @ + 1]],
         NEW j, j = IF p = "down" THEN 0 ELSE i + 1
  PROVE  InTime(p, r, b, gl, j, n, u)
<1>1. /\ Late(n) \in Nat /\ Late(1 + n) \in Nat
      /\ FLUSH_WITHIN \in Nat /\ WRITE_TICKS \in Nat /\ REQUEST_TICKS \in Nat
  <2>1. n <= n
    OBVIOUS
  <2> QED
    BY <2>1, LateGrows
<1>2. j \in Nat /\ j <= FLUSH_WITHIN /\ (p # "down" => j = i + 1)
  BY <1>1
<1>3. ASSUME q # None
      PROVE  /\ r \in Request /\ r # None /\ r.day = q.day
             /\ r.ticks = q.ticks + 1 /\ q.ticks \in Nat
  <2>1. q \in Request
    BY <1>3
  <2>2. r = [q EXCEPT !.ticks = @ + 1]
    BY <1>3
  <2>3. r \in Request /\ r.day = q.day /\ r.ticks = q.ticks + 1 /\ q.ticks \in Nat
    BY <2>1, <2>2 DEF Request
  <2> QED
    BY <2>3, NoneAssumption DEF NoneAssumption
<1>4. ASSUME NEW k \in Flushes, fl[k] # None
      PROVE  /\ gl[k] # None /\ gl[k].batch = fl[k].batch /\ gl[k].now = fl[k].now
             /\ gl[k].ticks = fl[k].ticks + 1 /\ fl[k].ticks \in Nat /\ fl[k].now \in Int
  <2>1. fl[k] \in Flush
    BY <1>4 DEF AreFlights
  <2>2. gl[k] = [fl[k] EXCEPT !.ticks = @ + 1]
    BY <1>4
  <2>3. /\ gl[k] \in Flush /\ gl[k].batch = fl[k].batch /\ gl[k].now = fl[k].now
        /\ gl[k].ticks = fl[k].ticks + 1 /\ fl[k].ticks \in Nat
    BY <2>1, <2>2 DEF Flush
  <2>4. fl[k].now \in 0 .. MaxClock
    BY <2>1 DEF Flush
  <2>5. fl[k].now \in Int
    BY <2>4, MetricsAssumption DEF MetricsAssumption
  <2> QED
    BY <2>3, <2>5, NoneAssumption DEF NoneAssumption
<1>5. \A k \in Flushes : gl[k] # None => fl[k] # None
  OBVIOUS
<1>6. "periodic" \in Flushes /\ "final" \in Flushes
  BY DEF Flushes
<1>7. ~Gone(p, gl)
  BY <1>4, <1>6 DEF Gone
<1>8. r # None => r.ticks <= REQUEST_TICKS /\ day(u - r.ticks) <= r.day
  <2> SUFFICES ASSUME q # None
               PROVE  r.ticks <= REQUEST_TICKS /\ day(u - r.ticks) <= r.day
    OBVIOUS
  <2>1. /\ r.day = q.day /\ r.ticks = q.ticks + 1 /\ q.ticks \in Nat /\ r.day \in Days
        /\ q.ticks < REQUEST_TICKS /\ day(t - q.ticks) <= q.day
    BY <1>3 DEF InTime, Request
  <2>2. u - r.ticks \in Int /\ t - q.ticks \in Int /\ u - r.ticks <= t - q.ticks
    BY <2>1
  <2>3. day(u - r.ticks) \in Int /\ day(t - q.ticks) \in Int /\ day(u - r.ticks) <= day(t - q.ticks)
    BY <2>2, DayMonotone
  <2>4. r.day \in Int
    <3>1. PICK w \in 0 .. MaxClock : r.day = day(w)
      BY <2>1 DEF Days
    <3>2. w \in Int
      BY MetricsAssumption DEF MetricsAssumption
    <3> QED
      BY <3>1, <3>2, DayMonotone
  <2>5. r.ticks <= REQUEST_TICKS
    BY <1>1, <2>1
  <2> QED
    BY <2>1, <2>3, <2>4, <2>5
<1>9. Aged(b, Late(n) + j, u)
  <2>1. CASE p = "down"
    BY <2>1, AgedEmpty DEF InTime
  <2>2. CASE p # "down"
    <3>1. Aged(b, Late(n) + i, t)
      BY DEF InTime
    <3>2. Late(n) + i \in Int /\ Late(n) + j \in Int /\ u - (Late(n) + j) <= t - (Late(n) + i)
      BY <1>1, <1>2, <2>2
    <3> QED
      BY <3>1, <3>2, AgedMore
  <2> QED
    BY <2>1, <2>2
<1>10. ASSUME NEW k \in Flushes, gl[k] # None
       PROVE  /\ gl[k].ticks <= WRITE_TICKS /\ gl[k].now <= u
              /\ Aged(gl[k].batch, Late(1 + n) + gl[k].ticks, u)
  <2>1. /\ fl[k] # None /\ gl[k].batch = fl[k].batch /\ gl[k].now = fl[k].now
        /\ gl[k].ticks = fl[k].ticks + 1 /\ fl[k].ticks \in Nat /\ fl[k].now \in Int
    BY <1>4, <1>5, <1>10
  <2>2. /\ fl[k].ticks < WRITE_TICKS /\ fl[k].now <= t
        /\ Aged(fl[k].batch, Late(1 + n) + fl[k].ticks, t)
    BY <2>1 DEF InTime
  <2>3. gl[k].ticks <= WRITE_TICKS /\ gl[k].now <= u
    BY <1>1, <2>1, <2>2
  <2>4. /\ Late(1 + n) + fl[k].ticks \in Int /\ Late(1 + n) + gl[k].ticks \in Int
        /\ u - (Late(1 + n) + gl[k].ticks) <= t - (Late(1 + n) + fl[k].ticks)
    BY <1>1, <2>1
  <2>5. Aged(fl[k].batch, Late(1 + n) + gl[k].ticks, u)
    BY <2>2, <2>4, AgedMore
  <2> QED
    BY <2>1, <2>3, <2>5
<1>11. gl["periodic"] # None => gl["periodic"].ticks = j
  <2> SUFFICES ASSUME gl["periodic"] # None
               PROVE  gl["periodic"].ticks = j
    OBVIOUS
  <2>1. fl["periodic"] # None /\ gl["periodic"].ticks = fl["periodic"].ticks + 1
    BY <1>4, <1>5, <1>6
  <2>2. fl["periodic"].ticks = i /\ p # "down"
    BY <1>6, <2>1 DEF InTime
  <2> QED
    BY <1>2, <2>1, <2>2
<1>12. p = "down" => r = None /\ b = EmptyBatch /\ \A k \in Flushes : gl[k] = None
  BY <1>5 DEF InTime
<1> QED
  BY <1>2, <1>7, <1>8, <1>9, <1>10, <1>11, <1>12 DEF InTime

\* A server in time stays in time with every step of its own.
LEMMA StepInTime ==
  ASSUME MemoryInv, IInv', NEW s \in Servers, ServerInTime(s), Owed(s) \/ Environment(s)
  PROVE  ServerInTime(s)'
<1> USE DEF vars, tables, memory, history
<1>1. /\ IInv /\ TypeOK /\ FinalIsLast /\ fails \in Nat /\ clock \in 0 .. MaxClock
      /\ batch \in [Servers -> Batch] /\ flight \in [Servers -> [Flushes -> Flush \union {None}]]
      /\ request \in [Servers -> Request \union {None}] /\ idle \in [Servers -> Nat]
      /\ phase \in [Servers -> {"up", "draining", "stopping", "down"}]
  BY DEF MemoryInv, IInv, TypeOK
<1>2. clock \in Int /\ AreFlights(flight[s]) /\ idle[s] \in Nat /\ batch[s] \in Batch
  BY <1>1, MetricsAssumption DEF AreFlights, MetricsAssumption
<1>3. InTime(phase[s], request[s], batch[s], flight[s], idle[s], fails, clock)
  BY DEF ServerInTime
<1>4. CASE CountBot(s) \/ CountKnown(s) \/ SelectSalt(s) \/ SaltFails(s)
  <2>1. /\ UNCHANGED <<clock, phase, flight, idle>> /\ fails' \in {fails, fails + 1}
        /\ request[s] # None /\ request'[s] = None
    BY <1>1, <1>4 DEF CountBot, CountKnown, SelectSalt, SaltFails, CountView
  <2>2. \A d \in Days : Touches(batch'[s], d) => Touches(batch[s], d) \/ d = request[s].day
    BY <1>1, <1>4, CountTouches
  <2>3. request[s] \in Request
    BY <1>1, <2>1
  <2>4. InTime(phase[s], None, batch'[s], flight[s], idle[s], fails, clock)
    BY <1>1, <1>2, <1>3, <2>1, <2>2, <2>3, CountInTime
  <2>5. fails' \in Nat /\ fails <= fails'
    BY <1>1, <2>1
  <2>6. InTime(phase[s], None, batch'[s], flight[s], idle[s], fails', clock)
    BY <1>1, <1>2, <2>4, <2>5, IdleInTime
  <2> QED
    BY <2>1, <2>6 DEF ServerInTime
<1>5. CASE Arrive(s)
  <2>1. PICK q : /\ q \in Request /\ q.day = day(clock) /\ q.ticks = 0 /\ request'[s] = q
                 /\ UNCHANGED <<clock, phase, batch, flight, idle, fails>>
    <3>1. /\ UNCHANGED <<clock, phase, batch, flight, idle, fails>>
          /\ \E v \in Visits : request'[s] = [day |-> day(clock), route |-> v.route, who |-> v.who,
                                  host |-> v.host, step |-> "respond", ticks |-> 0]
      BY <1>1, <1>5 DEF Arrive
    <3>2. request'[s] # None
      <4>1. PICK v \in Visits : request'[s] = [day |-> day(clock), route |-> v.route, who |-> v.who,
                                    host |-> v.host, step |-> "respond", ticks |-> 0]
        BY <3>1
      <4>2. v.route \in Routes /\ v.who \in Visitors \union Bots /\ v.host \in Hosts \union {NoHost}
        BY MetricsAssumption DEF Visits, MetricsAssumption
      <4>3. day(clock) \in Days
        BY <1>1 DEF Days
      <4>4. request'[s] \in Request
        BY <4>1, <4>2, <4>3 DEF Request
      <4> QED
        BY <4>4, NoneAssumption DEF NoneAssumption
    <3>3. request'[s] \in Request
      BY <3>2 DEF IInv, TypeOK
    <3> QED
      BY <3>1, <3>3
  <2>2. clock - 0 = clock /\ day(clock) \in Int /\ REQUEST_TICKS \in Nat
    BY <1>2, MetricsAssumption, DayMonotone DEF MetricsAssumption
  <2>3. q.ticks <= REQUEST_TICKS /\ day(clock - q.ticks) <= q.day
    BY <2>1, <2>2
  <2>4. phase[s] # "down"
    BY <1>5 DEF Arrive
  <2>5. InTime(phase[s], q, batch[s], flight[s], idle[s], fails, clock)
    BY <1>3, <2>3, <2>4 DEF InTime
  <2> QED
    BY <2>1, <2>5 DEF ServerInTime
<1>6. CASE Abandon(s)
  <2>1. request'[s] = None /\ UNCHANGED <<clock, phase, batch, flight, idle, fails>>
    BY <1>1, <1>6 DEF Abandon
  <2>2. InTime(phase[s], None, batch[s], flight[s], idle[s], fails, clock)
    BY <1>3 DEF InTime
  <2> QED
    BY <2>1, <2>2 DEF ServerInTime
<1>7. CASE InsertSalt(s)
  <2>1. /\ request[s] # None /\ request'[s] = [request[s] EXCEPT !.step = "select"]
        /\ UNCHANGED <<clock, phase, batch, flight, idle, fails>>
    BY <1>1, <1>7 DEF InsertSalt
  <2>2. request[s] \in Request
    BY <1>1, <2>1
  <2>3. request'[s].ticks = request[s].ticks /\ request'[s].day = request[s].day
    BY <2>1, <2>2 DEF Request
  <2>4. PICK q : q = request'[s]
    OBVIOUS
  <2>5. InTime(phase[s], q, batch[s], flight[s], idle[s], fails, clock)
    BY <1>3, <2>1, <2>3, <2>4 DEF InTime
  <2> QED
    BY <2>1, <2>4, <2>5 DEF ServerInTime
<1>8. CASE PeriodicFlush(s)
  <2>1. /\ phase[s] # "down" /\ flight[s]["periodic"] = None /\ idle'[s] = 0
        /\ batch'[s] = EmptyBatch
        /\ flight'[s] = [flight[s] EXCEPT !["periodic"] =
                           [batch |-> batch[s], now |-> clock, ticks |-> 0]]
        /\ UNCHANGED <<clock, phase, request, fails>>
    BY <1>1, <1>8 DEF PeriodicFlush, TakeBatch
  <2>2. PICK o : o = [p |-> IF "periodic" = "final" THEN "stopping" ELSE phase[s],
                      i |-> IF "periodic" = "final" THEN idle[s] ELSE 0]
    OBVIOUS
  <2>3. "periodic" \in Flushes /\ o.p = phase[s] /\ o.i = 0
    BY <2>2 DEF Flushes
  <2>4. InTime(o.p, request[s], EmptyBatch,
               [flight[s] EXCEPT !["periodic"] = [batch |-> batch[s], now |-> clock, ticks |-> 0]],
               o.i, fails, clock)
    BY <1>1, <1>2, <1>3, <2>1, <2>2, <2>3, TakeInTime
  <2> QED
    BY <2>1, <2>3, <2>4 DEF ServerInTime
<1>9. CASE FinalFlush(s)
  <2>1. /\ phase[s] = "draining" /\ phase'[s] = "stopping"
        /\ batch'[s] = EmptyBatch
        /\ flight'[s] = [flight[s] EXCEPT !["final"] =
                           [batch |-> batch[s], now |-> clock, ticks |-> 0]]
        /\ UNCHANGED <<clock, request, idle, fails>>
    BY <1>1, <1>9 DEF FinalFlush, TakeBatch
  <2>2. PICK o : o = [p |-> IF "final" = "final" THEN "stopping" ELSE phase[s],
                      i |-> IF "final" = "final" THEN idle[s] ELSE 0]
    OBVIOUS
  <2>3. "final" \in Flushes /\ o.p = "stopping" /\ o.i = idle[s]
    BY <2>2 DEF Flushes
  <2>4. flight[s]["final"] = None
    BY <1>1, <2>1 DEF FinalIsLast
  <2>5. InTime(o.p, request[s], EmptyBatch,
               [flight[s] EXCEPT !["final"] = [batch |-> batch[s], now |-> clock, ticks |-> 0]],
               o.i, fails, clock)
    BY <1>1, <1>2, <1>3, <2>1, <2>2, <2>3, <2>4, TakeInTime
  <2> QED
    BY <2>1, <2>3, <2>5 DEF ServerInTime
<1>10. ASSUME NEW k \in Flushes, FlushCommits(s, k) \/ FlushFails(s, k)
       PROVE  ServerInTime(s)'
  <2>1. /\ flight[s][k] # None /\ flight'[s] = [flight[s] EXCEPT ![k] = None]
        /\ UNCHANGED <<clock, phase, request, idle>>
        /\ \/ UNCHANGED <<batch, fails>>
           \/ batch'[s] = Merge(batch[s], flight[s][k].batch) /\ fails' = fails + 1
    BY <1>1, <1>10 DEF FlushCommits, FlushFails
  <2>2. k = "final" => phase[s] = "stopping"
    BY <1>1, <2>1 DEF FinalIsLast
  <2>3. PICK gl : gl = [flight[s] EXCEPT ![k] = None]
    OBVIOUS
  <2>4. /\ InTime(phase[s], request[s], batch[s], gl, idle[s], fails, clock)
        /\ InTime(phase[s], request[s], Merge(batch[s], flight[s][k].batch), gl, idle[s],
                  fails + 1, clock)
    BY <1>1, <1>2, <1>3, <2>1, <2>2, <2>3, EndInTime
  <2> QED
    BY <2>1, <2>3, <2>4 DEF ServerInTime
<1>11. CASE Terminate(s)
  <2>1. /\ phase[s] = "up" /\ phase'[s] = "draining"
        /\ UNCHANGED <<clock, request, batch, flight, idle, fails>>
    BY <1>1, <1>11 DEF Terminate
  <2>2. InTime("draining", request[s], batch[s], flight[s], idle[s], fails, clock)
    BY <1>3, <2>1 DEF InTime, Gone
  <2> QED
    BY <2>1, <2>2 DEF ServerInTime
<1>12. CASE Boot(s)
  <2>1. /\ phase[s] = "down" /\ phase'[s] = "up"
        /\ UNCHANGED <<clock, request, batch, flight, idle, fails>>
    BY <1>1, <1>12 DEF Boot
  <2>2. InTime("up", request[s], batch[s], flight[s], idle[s], fails, clock)
    BY <1>3, <2>1 DEF InTime, Gone
  <2> QED
    BY <2>1, <2>2 DEF ServerInTime
<1>13. CASE Exit(s) \/ Crash(s)
  <2>1. /\ phase'[s] = "down" /\ request'[s] = None /\ batch'[s] = EmptyBatch
        /\ flight'[s] = [k \in Flushes |-> None] /\ idle'[s] = 0
    BY <1>1, <1>13 DEF Exit, Crash, Dies
  <2>2. \A k \in Flushes : flight'[s][k] = None
    BY <2>1
  <2>3. "periodic" \in Flushes /\ FLUSH_WITHIN \in Nat /\ 0 <= FLUSH_WITHIN
    BY MetricsAssumption DEF Flushes, MetricsAssumption
  <2>4. InTime("down", None, EmptyBatch, flight'[s], 0, fails', clock')
    BY <2>2, <2>3, AgedEmpty DEF InTime
  <2> QED
    BY <2>1, <2>4 DEF ServerInTime
<1> QED
  BY <1>4, <1>5, <1>6, <1>7, <1>8, <1>9, <1>10, <1>11, <1>12, <1>13 DEF Owed, Environment, Flushes

\* Time leaves every server in time.
LEMMA TickKeepsTime ==
  ASSUME IInv, Tick, NEW s \in Servers, ServerInTime(s)
  PROVE  ServerInTime(s)'
<1> USE DEF vars, tables, memory, history
<1>1. /\ fails \in Nat /\ clock \in 0 .. MaxClock /\ MaxClock \in Nat
      /\ flight \in [Servers -> [Flushes -> Flush \union {None}]]
      /\ request \in [Servers -> Request \union {None}] /\ idle \in [Servers -> Nat]
      /\ phase \in [Servers -> {"up", "draining", "stopping", "down"}]
  BY MetricsAssumption DEF IInv, TypeOK, MetricsAssumption
<1>2. /\ clock \in Int /\ clock' \in Int /\ clock <= clock' /\ clock' <= clock + 1
      /\ UNCHANGED <<phase, batch, fails>>
  <2>1. clock \in Int /\ clock' = (IF clock < MaxClock THEN clock + 1 ELSE clock)
        /\ UNCHANGED <<phase, batch, fails>>
    BY <1>1 DEF Tick
  <2> QED
    BY <2>1
<1>3. AreFlights(flight[s]) /\ idle[s] \in Nat /\ request[s] \in Request \union {None}
  BY <1>1 DEF AreFlights
<1>4. Punctual(s)
  BY DEF Tick
<1>5. /\ ~Gone(phase[s], flight[s]) /\ (phase[s] # "down" => idle[s] < FLUSH_WITHIN)
      /\ request[s] # None => request[s].ticks < REQUEST_TICKS
      /\ \A k \in Flushes : flight[s][k] # None => flight[s][k].ticks < WRITE_TICKS
  BY <1>4 DEF Punctual, Leaving, Gone
<1>6. PICK r : r = IF request[s] = None THEN None ELSE [request[s] EXCEPT !.ticks = @ + 1]
  OBVIOUS
<1>7. PICK gl : gl = [k \in Flushes |-> IF flight[s][k] = None THEN None
                                        ELSE [flight[s][k] EXCEPT !.ticks = @ + 1]]
  OBVIOUS
<1>8. PICK j : j = IF phase[s] = "down" THEN 0 ELSE idle[s] + 1
  OBVIOUS
<1>9. request'[s] = r /\ flight'[s] = gl /\ idle'[s] = j
  BY <1>6, <1>7, <1>8 DEF Tick
<1>10. InTime(phase[s], request[s], batch[s], flight[s], idle[s], fails, clock)
  BY DEF ServerInTime
<1>11. InTime(phase[s], r, batch[s], gl, j, fails, clock')
  BY <1>1, <1>2, <1>3, <1>5, <1>6, <1>7, <1>8, <1>10, TickInTime
<1> QED
  BY <1>2, <1>9, <1>11 DEF ServerInTime

\* No more writes fail than may.
LEMMA FailsAreFew ==
  ASSUME IInv, fails <= MaxFails, [Next]_vars
  PROVE  fails' <= MaxFails
<1> USE DEF vars, tables, memory, history
<1>1. fails \in Nat /\ MaxFails \in Nat
  BY MetricsAssumption DEF IInv, TypeOK, MetricsAssumption
<1>2. CASE UNCHANGED fails
  BY <1>2
<1>3. CASE fails < MaxFails /\ fails' = fails + 1
  BY <1>1, <1>3
<1>4. ASSUME NEW s \in Servers, Owed(s)
      PROVE  UNCHANGED fails
  BY <1>4 DEF Owed, CountBot, CountKnown, InsertSalt, SelectSalt, PeriodicFlush, FlushCommits,
              FinalFlush, Exit, Boot
<1>5. ASSUME NEW s \in Servers, Environment(s)
      PROVE  UNCHANGED fails \/ (fails < MaxFails /\ fails' = fails + 1)
  BY <1>5 DEF Environment, Arrive, Abandon, SaltFails, FlushFails, Terminate, Crash
<1>6. Tick \/ UNCHANGED vars => UNCHANGED fails
  BY DEF Tick
<1> QED
  BY <1>2, <1>3, <1>4, <1>5, <1>6 DEF Next

\* A commit closes no day that is not over for as long as the grace.
LEMMA CommitClosesOver ==
  ASSUME IInv, NEW s \in Servers, ServerInTime(s), NEW k \in Flushes, FlushCommits(s, k),
         NEW d \in Days, IsClosed(daily', d)
  PROVE  IsClosed(daily, d) \/ d < day(clock - GRACE)
<1> DEFINE f == flight[s][k]
           rows == DailyPlus(daily, f.batch)
           open == OpenUntil(f.now)
<1>1. TypeOK /\ Sound(f.batch) /\ f \in Flush
  BY DEF FlushCommits, IInv, TypeOK
<1>2. DOMAIN daily' = DOMAIN rows
  BY DEF FlushCommits, Write
<1>3. \A e \in DOMAIN rows : e \notin Closing(rows, open) => daily'[e] = rows[e]
  BY DEF FlushCommits, Write
<1>4. /\ DOMAIN rows \subseteq Days
      /\ \A e \in DOMAIN rows :
           rows[e].closed = IF e \in DOMAIN daily THEN daily[e].closed ELSE FALSE
  <2>1. PICK b : b = f.batch
    OBVIOUS
  <2>2. /\ DOMAIN DailyPlus(daily, b) \subseteq Days
        /\ \A e \in DOMAIN daily : DailyPlus(daily, b)[e].closed = daily[e].closed
        /\ \A e \in DOMAIN DailyPlus(daily, b) :
             e \notin DOMAIN daily => ~DailyPlus(daily, b)[e].closed
        /\ \A e \in DOMAIN DailyPlus(daily, b) : IsDailyRow(DailyPlus(daily, b)[e])
    BY <1>1, <2>1, DailyPlusRows
  <2>3. \A e \in DOMAIN DailyPlus(daily, b) : DailyPlus(daily, b)[e].closed \in BOOLEAN
    BY <2>2 DEF IsDailyRow
  <2> QED
    BY <2>1, <2>2, <2>3
<1>5. CASE d \in Closing(rows, open)
  <2>1. f.now \in 0 .. MaxClock /\ f.now <= clock /\ clock \in 0 .. MaxClock
    BY <1>1 DEF FlushCommits, ServerInTime, InTime, Flush, TypeOK
  <2> HIDE DEF f
  <2>2. /\ f.now - GRACE \in Int /\ clock - GRACE \in Int /\ f.now - GRACE <= clock - GRACE
    BY <2>1, MetricsAssumption DEF MetricsAssumption
  <2>3. /\ day(f.now - GRACE) \in Int /\ day(clock - GRACE) \in Int
        /\ day(f.now - GRACE) <= day(clock - GRACE)
    BY <2>2, DayMonotone
  <2>4. d < day(f.now - GRACE)
    BY <1>5 DEF Closing, OpenUntil
  <2>5. d \in Int
    <3>1. PICK w \in 0 .. MaxClock : d = day(w)
      BY DEF Days
    <3>2. w \in Int
      BY MetricsAssumption DEF MetricsAssumption
    <3> QED
      BY <3>1, <3>2, DayMonotone
  <2> QED
    BY <2>3, <2>4, <2>5
<1>6. CASE d \notin Closing(rows, open)
  <2>1. d \in DOMAIN rows /\ daily'[d] = rows[d] /\ daily'[d].closed
    BY <1>2, <1>3, <1>6 DEF IsClosed
  <2> QED
    BY <1>4, <2>1 DEF IsClosed
<1> QED
  BY <1>5, <1>6

\* Every step keeps what is closed over for as long as the grace.
LEMMA ClosedAreOver ==
  ASSUME IInv, GraceInv, [Next]_vars, IInv'
  PROVE  \A d \in Days : IsClosed(daily', d) => d < day(clock' - GRACE)
<1> USE DEF vars, tables, memory, history
<1>1. clock \in Int /\ clock' \in Int /\ GRACE \in Nat
  BY MetricsAssumption DEF MetricsAssumption, IInv, TypeOK
<1>2. clock <= clock'
  <2>1. CASE Tick
    <3>1. clock' = (IF clock < MaxClock THEN clock + 1 ELSE clock)
      BY <2>1 DEF Tick
    <3> QED
      BY <1>1, <3>1
  <2>2. ASSUME NEW s \in Servers, Owed(s) \/ Environment(s)
        PROVE  clock' = clock
    BY <2>2, OthersStay
  <2>3. CASE UNCHANGED vars
    BY <1>1, <2>3
  <2> QED
    BY <1>1, <2>1, <2>2, <2>3 DEF Next
<1>3. ASSUME NEW d \in Days, d < day(clock - GRACE)
      PROVE  d < day(clock' - GRACE)
  <2>1. clock - GRACE \in Int /\ clock' - GRACE \in Int /\ clock - GRACE <= clock' - GRACE
    <3>1. \A t, u \in Int, g \in Nat : t <= u => t - g \in Int /\ u - g \in Int /\ t - g <= u - g
      OBVIOUS
    <3> QED
      BY <1>1, <1>2, <3>1
  <2>2. /\ day(clock - GRACE) \in Int /\ day(clock' - GRACE) \in Int
        /\ day(clock - GRACE) <= day(clock' - GRACE)
    BY <2>1, DayMonotone
  <2>3. d \in Int
    <3>1. PICK w \in 0 .. MaxClock : d = day(w)
      BY DEF Days
    <3>2. w \in Int
      BY MetricsAssumption DEF MetricsAssumption
    <3> QED
      BY <3>1, <3>2, DayMonotone
  <2> QED
    BY <1>3, <2>2, <2>3
<1>4. CASE \E s \in Servers, k \in Flushes : FlushCommits(s, k)
  <2>1. PICK s \in Servers, k \in Flushes : FlushCommits(s, k)
    BY <1>4
  <2>2. ServerInTime(s)
    BY DEF GraceInv
  <2>3. \A d \in Days : IsClosed(daily', d) => IsClosed(daily, d) \/ d < day(clock - GRACE)
    BY <2>1, <2>2, CommitClosesOver
  <2> QED
    BY <1>3, <2>3 DEF GraceInv
<1>5. CASE ~ \E s \in Servers, k \in Flushes : FlushCommits(s, k)
  <2>1. daily' = daily
    BY <1>5, OnlyCommitsWrite
  <2> QED
    BY <1>3, <2>1 DEF GraceInv
<1> QED
  BY <1>4, <1>5

\* Every behaviour keeps the servers in time, and closes days that are over.
THEOREM GraceInvariance == Spec => []GraceInv
<1>1. Init => GraceInv
  <2> SUFFICES ASSUME Init PROVE GraceInv
    OBVIOUS
  <2>1. /\ fails = 0 /\ 0 <= MaxFails /\ 0 <= FLUSH_WITHIN
    BY MetricsAssumption DEF Init, MetricsAssumption
  <2>2. ASSUME NEW s \in Servers
        PROVE  ServerInTime(s)
    <3>1. /\ phase[s] = "up" /\ request[s] = None /\ batch[s] = EmptyBatch /\ idle[s] = 0
          /\ \A k \in Flushes : flight[s][k] = None
      BY DEF Init
    <3>2. "periodic" \in Flushes
      BY DEF Flushes
    <3> QED
      BY <2>1, <3>1, <3>2, AgedEmpty DEF ServerInTime, InTime
  <2>3. \A d \in Days : ~IsClosed(daily, d)
    BY DEF Init, IsClosed
  <2> QED
    BY <2>1, <2>2, <2>3 DEF GraceInv
<1>2. MemoryInv /\ IInv' /\ GraceInv /\ [Next]_vars => GraceInv'
  <2> SUFFICES ASSUME MemoryInv, IInv', GraceInv, [Next]_vars PROVE GraceInv'
    OBVIOUS
  <2>1. IInv /\ fails' <= MaxFails /\ \A s \in Servers : ServerInTime(s)
    BY FailsAreFew DEF MemoryInv, GraceInv
  <2>2. \A d \in Days : IsClosed(daily', d) => d < day(clock' - GRACE)
    BY <2>1, ClosedAreOver
  <2>3. ASSUME NEW s \in Servers
        PROVE  ServerInTime(s)'
    <3>1. CASE Tick
      BY <2>1, <3>1, TickKeepsTime
    <3>2. ASSUME NEW t \in Servers, Owed(t) \/ Environment(t)
          PROVE  ServerInTime(s)'
      <4>1. CASE t = s
        BY <2>1, <3>2, <4>1, StepInTime
      <4>2. CASE t # s
        <5>1. /\ fails <= fails' /\ clock' = clock
              /\ batch'[s] = batch[s] /\ flight'[s] = flight[s]
              /\ phase'[s] = phase[s] /\ request'[s] = request[s] /\ idle'[s] = idle[s]
          BY <2>1, <3>2, <4>2, OthersStay
        <5>2. /\ AreFlights(flight[s]) /\ idle[s] \in Nat /\ fails \in Nat /\ fails' \in Nat
              /\ clock \in Int
          BY <2>1, MetricsAssumption DEF AreFlights, IInv, TypeOK, MetricsAssumption
        <5>3. InTime(phase[s], request[s], batch[s], flight[s], idle[s], fails, clock)
          BY <2>1 DEF ServerInTime
        <5>4. InTime(phase[s], request[s], batch[s], flight[s], idle[s], fails', clock)
          BY <5>1, <5>2, <5>3, IdleInTime
        <5> QED
          BY <5>1, <5>4 DEF ServerInTime
      <4> QED
        BY <4>1, <4>2
    <3>3. CASE UNCHANGED vars
      BY <2>1, <3>3 DEF ServerInTime, vars, memory, history
    <3> QED
      BY <3>1, <3>2, <3>3 DEF Next
  <2> QED
    BY <2>1, <2>2, <2>3 DEF GraceInv
<1> QED
  BY <1>1, <1>2, Invariance, MemoryInvariance, PTL DEF Spec

\* A batch that touches nothing of a closed day leaves its rows as they are.
LEMMA UntouchedStays ==
  ASSUME TypeOK, NEW f \in Flush, Sound(f.batch), Write(f),
         NEW d \in Days, IsClosed(daily, d), ~Touches(f.batch, d)
  PROVE  /\ daily'[d] = daily[d] /\ page_views'[d] = page_views[d]
         /\ referrers'[d] = referrers[d]
<1>1. PICK b : b = f.batch
  OBVIOUS
<1>2. PICK closing : closing = Closing(DailyPlus(daily, b), OpenUntil(f.now))
  OBVIOUS
<1>3. PICK rows : rows = DailyPlus(daily, b)
  OBVIOUS
<1>4. /\ b \in Batch /\ b.views \in [Days -> [Routes -> Nat]]
      /\ b.referrers \in [Days -> [Hosts -> Nat]] /\ b.bots \in [Days -> Nat]
  BY <1>1 DEF Sound, Batch
<1>5. /\ \A r \in Routes : b.views[d][r] = 0
      /\ \A h \in Hosts : b.referrers[d][h] = 0
      /\ b.bots[d] = 0
  <2>1. \A n \in Nat : ~(n > 0) => n = 0
    OBVIOUS
  <2> QED
    BY <1>1, <1>4, <2>1 DEF Touches
<1>6. d \in DOMAIN daily /\ daily[d].closed /\ IsDailyRow(daily[d])
  BY DEF IsClosed, TypeOK
<1>7. PagesServed(b, d) = 0
  <2>1. PICK g : g = b.views[d]
    OBVIOUS
  <2>2. IsFiniteSet(Routes \ {NOT_FOUND})
    BY MetricsAssumption, FS_Subset DEF MetricsAssumption
  <2>3. \A r \in Routes \ {NOT_FOUND} : g[r] \in Nat /\ g[r] = 0
    BY <1>5, <2>1
  <2>4. SumOver(g, Routes \ {NOT_FOUND}) = 0
    BY <2>2, <2>3, SumOfNone
  <2> QED
    BY <1>4, <2>1, <2>4, PagesServedIsSum
<1>8. rows[d] = daily[d] /\ d \in DOMAIN rows
  <2>1. d \in DOMAIN rows /\ rows[d] = RowPlus(daily[d], 0, 0)
    BY <1>3, <1>5, <1>6, <1>7 DEF DailyPlus
  <2>2. PICK row : row = daily[d]
    OBVIOUS
  <2>3. IsDailyRow(row)
    BY <1>6, <2>2
  <2>4. RowPlus(row, 0, 0) = row
    <3>1. row = [c \in DailyColumns |-> row[c]] /\ row.views \in Nat /\ row.bots \in Nat
      BY <2>3 DEF IsDailyRow
    <3>2. row.views + 0 = row.views /\ row.bots + 0 = row.bots
      BY <3>1
    <3> QED
      BY <3>1, <3>2 DEF RowPlus
  <2> QED
    BY <2>1, <2>2, <2>4
<1>9. d \notin closing
  BY <1>2, <1>3, <1>6, <1>8 DEF Closing, IsOpen
<1>10. daily'[d] = daily[d]
  <2>1. daily' = [e \in DOMAIN rows |->
          IF e \in closing
            THEN RowClosed(rows[e], Cardinality(HashesOf(visitor_hashes \union Recorded(rows, b),
                                                         e, Routes \ {NOT_FOUND})))
            ELSE rows[e]]
    BY <1>1, <1>2, <1>3 DEF Write
  <2> QED
    BY <1>8, <1>9, <2>1
<1>11. page_views'[d] = page_views[d]
  <2>1. page_views'[d] = [r \in Routes |-> PagesPlus(page_views, b)[d][r]]
    BY <1>1, <1>2, <1>3, <1>9 DEF Write
  <2>2. page_views[d] \in [Routes -> PageRow]
    BY DEF TypeOK
  <2>3. ASSUME NEW r \in Routes
        PROVE  PagesPlus(page_views, b)[d][r] = page_views[d][r]
    <3>1. PagesPlus(page_views, b)[d][r] = [page_views[d][r] EXCEPT !.views = @ + b.views[d][r]]
      BY DEF PagesPlus
    <3>2. PICK row : row = page_views[d][r]
      OBVIOUS
    <3>3. row \in PageRow /\ row.views + 0 = row.views
      BY <2>2, <3>2 DEF PageRow
    <3>4. [row EXCEPT !.views = @ + 0] = row
      BY <3>3 DEF PageRow
    <3> QED
      BY <1>5, <3>1, <3>2, <3>4
  <2> QED
    BY <2>1, <2>2, <2>3
<1>12. referrers'[d] = referrers[d]
  <2>1. referrers' = PlusPlus(referrers, b.referrers) /\ referrers \in [Days -> [Hosts -> Nat]]
    BY <1>1 DEF Write, TypeOK
  <2>2. referrers'[d] = [h \in Hosts |-> referrers[d][h] + b.referrers[d][h]]
    BY <2>1 DEF PlusPlus, Plus
  <2>3. \A h \in Hosts : referrers[d][h] + b.referrers[d][h] = referrers[d][h]
    BY <1>5, <2>1
  <2> QED
    BY <2>1, <2>2, <2>3
<1> QED
  BY <1>10, <1>11, <1>12

\* A flush that ends in time holds nothing of a day that is closed.
LEMMA NothingLate ==
  ASSUME Timely, IInv, GraceInv, NEW s \in Servers, NEW k \in Flushes, flight[s][k] # None,
         NEW d \in Days, IsClosed(daily, d)
  PROVE  ~Touches(flight[s][k].batch, d)
<1>1. /\ fails \in Nat /\ fails <= MaxFails /\ MaxFails \in Nat /\ clock \in Int
      /\ AreFlights(flight[s]) /\ idle[s] \in Nat
      /\ InTime(phase[s], request[s], batch[s], flight[s], idle[s], fails, clock)
  BY MetricsAssumption
  DEF GraceInv, ServerInTime, AreFlights, IInv, TypeOK, MetricsAssumption
<1>2. Aged(flight[s][k].batch, Oldest(fails), clock) /\ Oldest(fails) \in Nat
  BY <1>1, NoneIsOlder
<1>3. Oldest(fails) <= GRACE /\ GRACE \in Nat
  <2>1. 1 + fails \in Nat /\ 1 + MaxFails \in Nat /\ 1 + fails <= 1 + MaxFails
    BY <1>1
  <2>2. /\ Late(1 + fails) <= Late(1 + MaxFails) /\ Late(1 + fails) \in Nat
        /\ Late(1 + MaxFails) \in Nat /\ WRITE_TICKS \in Nat /\ GRACE \in Nat
    BY <2>1, LateGrows
  <2>3. Late(1 + MaxFails) + WRITE_TICKS <= GRACE
    BY DEF Timely, Late
  <2> QED
    BY <2>2, <2>3 DEF Oldest
<1>4. Aged(flight[s][k].batch, GRACE, clock)
  <2>1. /\ Oldest(fails) \in Int /\ GRACE \in Int /\ clock - GRACE <= clock - Oldest(fails)
    BY <1>1, <1>2, <1>3
  <2> QED
    BY <1>1, <1>2, <2>1, AgedMore
<1>5. d < day(clock - GRACE)
  BY DEF GraceInv
<1>6. day(clock - GRACE) \in Int /\ d \in Int
  <2>1. clock - GRACE \in Int /\ clock - GRACE <= clock - GRACE
    BY <1>1, <1>3
  <2>2. PICK w \in 0 .. MaxClock : d = day(w)
    BY DEF Days
  <2>3. w \in Int /\ w <= w
    BY MetricsAssumption DEF MetricsAssumption
  <2> QED
    BY <2>1, <2>2, <2>3, DayMonotone
<1> QED
  BY <1>4, <1>5, <1>6 DEF Aged

\* Where a request, the flushes that failing writes put off and a write take no
\* longer than the grace, nothing reaches a day that is closed.
THEOREM ClosedDaysStay == Timely => (Spec => NothingReachesClosedDay)
<1> SUFFICES ASSUME Timely
             PROVE  Spec => NothingReachesClosedDay
  OBVIOUS
<1> DEFINE Stays == \A d \in Days : IsClosed(daily, d) =>
                      /\ daily'[d] = daily[d]
                      /\ page_views'[d] = page_views[d]
                      /\ referrers'[d] = referrers[d]
<1>1. IInv /\ GraceInv /\ [Next]_vars => [Stays]_vars
  <2> SUFFICES ASSUME IInv, GraceInv, [Next]_vars, NEW d \in Days, IsClosed(daily, d)
               PROVE  /\ daily'[d] = daily[d] /\ page_views'[d] = page_views[d]
                      /\ referrers'[d] = referrers[d]
    OBVIOUS
  <2>1. CASE \E s \in Servers, k \in Flushes : FlushCommits(s, k)
    <3>1. PICK s \in Servers, k \in Flushes : FlushCommits(s, k)
      BY <2>1
    <3>2. PICK f : f = flight[s][k]
      OBVIOUS
    <3>3. f # None /\ f \in Flush /\ Sound(f.batch) /\ Write(f) /\ TypeOK
      BY <3>1, <3>2 DEF FlushCommits, IInv, TypeOK
    <3>4. ~Touches(f.batch, d)
      BY <3>2, <3>3, NothingLate
    <3> QED
      BY <3>3, <3>4, UntouchedStays
  <2>2. CASE ~ \E s \in Servers, k \in Flushes : FlushCommits(s, k)
    <3>1. UNCHANGED <<page_views, daily, referrers>>
      BY <2>2, OnlyCommitsWrite
    <3> QED
      BY <3>1
  <2> QED
    BY <2>1, <2>2
<1>2. QED
  BY <1>1, Invariance, GraceInvariance, PTL DEF Spec, NothingReachesClosedDay

-----------------------------------------------------------------------------
(***************************************************************************)
(* Visitors are counted once, under the same timing.  Whatever recognises  *)
(* anyone has the salt that the database has of its day: a salt goes only  *)
(* when its day is over for as long as the grace, and then no memory holds *)
(* anything of that day any more.  So when a day is closed its hashes are  *)
(* all in the tables, and are as many as the visitors they hide.           *)
(***************************************************************************)
\* What a server knows of whom it recognised, and what anything does.
Remembers(s, v) ==
  \/ v \in batch[s].visitors
  \/ \E k \in Flushes : flight[s][k] # None /\ v \in flight[s][k].batch.visitors

Known(v) == v \in visitor_hashes \/ \E s \in Servers : Remembers(s, v)

\* Every hash is of the salt its day has, and of one who came.
KnownFit ==
  \A v \in Sighting : Known(v) =>
    metrics_salt[v.day] = v.hash.salt /\ <<v.route, v.hash.who>> \in came[v.day]

\* A salt that is kept is the one its day has, while the day may be counted on.
CachesFit ==
  \A s \in Servers : cache[s] # None /\ day(clock - GRACE) <= cache[s].day =>
    metrics_salt[cache[s].day] = cache[s].salt

\* Who came on a day that is open is known, unless a memory went down with it.
CameKnown ==
  \A d \in Days : lost.views[d] = NoViews[d] /\ ~IsClosed(daily, d) =>
    \A r \in Routes, w \in Visitors : <<r, w>> \in came[d] =>
      \E v \in Sighting : Known(v) /\ v.day = d /\ v.route = r /\ v.hash.who = w

VisitorsInv ==
  /\ KnownFit /\ CachesFit /\ CameKnown /\ VisitorsCountedOnce
  /\ \A d \in Days : IsFiniteSet(came[d])

\* What a flush that commits makes of the days: a day it closes has the hashes
\* of both, and one it leaves open keeps them.
LEMMA CommitCounts ==
  ASSUME TypeOK, IsFiniteSet(visitor_hashes), HashesDieWithTheirDay,
         NEW f \in Flush, Sound(f.batch), Write(f)
  PROVE  LET both == visitor_hashes \union f.batch.visitors
         IN  /\ both \subseteq Sighting /\ IsFiniteSet(both)
             /\ visitor_hashes' \subseteq both
             /\ \A d \in Days : IsClosed(daily', d) /\ ~IsClosed(daily, d) =>
                  /\ d < OpenUntil(f.now)
                  /\ daily'[d].visitors = Cardinality(HashesOf(both, d, Routes \ {NOT_FOUND}))
                  /\ \A r \in Routes :
                       page_views'[d][r].visitors = Cardinality(HashesOf(both, d, {r}))
             /\ \A d \in Days : ~IsClosed(daily', d) =>
                  \A v \in both : v.day = d => v \in visitor_hashes'
             /\ metrics_salt' =
                  [d \in Days |-> IF d < OpenUntil(f.now) THEN None ELSE metrics_salt[d]]
             /\ \A v \in visitor_hashes' : ~(v.day < OpenUntil(f.now))
<1> DEFINE both == visitor_hashes \union f.batch.visitors
<1>1. PICK b : b = f.batch
  OBVIOUS
<1>2. PICK open : open = OpenUntil(f.now)
  OBVIOUS
<1>3. PICK rows : rows = DailyPlus(daily, b)
  OBVIOUS
<1>4. PICK seen : seen = visitor_hashes \union Recorded(rows, b)
  OBVIOUS
<1>5. PICK closing : closing = Closing(rows, open)
  OBVIOUS
<1>6. /\ page_views' = [d \in Days |-> [r \in Routes |->
           IF d \in closing
             THEN [PagesPlus(page_views, b)[d][r] EXCEPT
                     !.visitors = Cardinality(HashesOf(seen, d, {r}))]
             ELSE PagesPlus(page_views, b)[d][r]]]
      /\ daily' = [d \in DOMAIN rows |->
           IF d \in closing
             THEN RowClosed(rows[d], Cardinality(HashesOf(seen, d, Routes \ {NOT_FOUND})))
             ELSE rows[d]]
      /\ visitor_hashes' = {v \in seen : ~(v.day < open)}
      /\ metrics_salt' = [d \in Days |-> IF d < open THEN None ELSE metrics_salt[d]]
  BY <1>1, <1>2, <1>3, <1>4, <1>5 DEF Write
<1>7. /\ DOMAIN daily \subseteq DOMAIN rows /\ DOMAIN rows \subseteq Days
      /\ \A d \in DOMAIN rows : IsDailyRow(rows[d])
      /\ \A d \in DOMAIN daily : rows[d].closed = daily[d].closed
      /\ \A d \in DOMAIN rows : d \notin DOMAIN daily => ~rows[d].closed
      /\ \A v \in b.visitors : v.day \in DOMAIN rows
  <2>1. Sound(b)
    BY <1>1
  <2> QED
    BY <1>3, <2>1, DailyPlusRows, Zenon
<1>8. both \subseteq Sighting /\ IsFiniteSet(both)
  <2>1. f.batch.visitors \subseteq Sighting /\ IsFiniteSet(f.batch.visitors)
    BY DEF Sound, Batch
  <2> QED
    BY <2>1, FS_Union DEF TypeOK
<1>9. /\ seen \subseteq both
      /\ \A v \in both : v \notin seen => v \in b.visitors /\ IsClosed(rows, v.day)
  BY <1>1, <1>4 DEF Recorded
<1>10. \A d \in Days : \A routes : (~IsClosed(rows, d)) =>
         HashesOf(seen, d, routes) = HashesOf(both, d, routes)
  <2> SUFFICES ASSUME NEW d \in Days, NEW routes, ~IsClosed(rows, d)
               PROVE  HashesOf(seen, d, routes) = HashesOf(both, d, routes)
    OBVIOUS
  <2> HIDE DEF both
  <2>1. {v \in seen : v.day = d /\ v.route \in routes} =
          {v \in both : v.day = d /\ v.route \in routes}
    BY <1>9
  <2> QED
    BY <2>1 DEF HashesOf
<1> HIDE DEF both
<1>11. ASSUME NEW d \in Days, IsClosed(daily', d), ~IsClosed(daily, d)
       PROVE  /\ d < open
              /\ daily'[d].visitors = Cardinality(HashesOf(both, d, Routes \ {NOT_FOUND}))
              /\ \A r \in Routes :
                   page_views'[d][r].visitors = Cardinality(HashesOf(both, d, {r}))
  <2>1. d \in DOMAIN rows /\ daily'[d].closed
    BY <1>6, <1>11 DEF IsClosed
  <2>2. ~rows[d].closed
    BY <1>7, <1>11, <2>1 DEF IsClosed
  <2>3. d \in closing
    BY <1>6, <2>1, <2>2
  <2>4. d < open
    BY <1>5, <2>3 DEF Closing
  <2>5. ~IsClosed(rows, d)
    BY <2>2 DEF IsClosed
  <2>6. daily'[d].visitors = Cardinality(HashesOf(both, d, Routes \ {NOT_FOUND}))
    <3>1. daily'[d] = RowClosed(rows[d], Cardinality(HashesOf(both, d, Routes \ {NOT_FOUND})))
      BY <1>6, <1>10, <2>1, <2>3, <2>5
    <3>2. PICK row, n : row = rows[d] /\ n = Cardinality(HashesOf(both, d, Routes \ {NOT_FOUND}))
      OBVIOUS
    <3>3. row = [c \in DailyColumns |-> row[c]] /\ daily'[d] = RowClosed(row, n)
      BY <1>7, <2>1, <3>1, <3>2 DEF IsDailyRow
    <3>4. RowClosed(row, n).visitors = n
      BY <3>3 DEF RowClosed, DailyColumns
    <3> QED
      BY <3>2, <3>3, <3>4
  <2>7. ASSUME NEW r \in Routes
        PROVE  page_views'[d][r].visitors = Cardinality(HashesOf(both, d, {r}))
    <3>1. page_views'[d][r] = [PagesPlus(page_views, b)[d][r] EXCEPT
                                 !.visitors = Cardinality(HashesOf(both, d, {r}))]
      BY <1>6, <1>10, <2>3, <2>5
    <3>2. PICK row : row = page_views[d][r]
      OBVIOUS
    <3>3. row \in PageRow
      BY <3>2 DEF TypeOK
    <3>4. PICK n, x : n = Cardinality(HashesOf(both, d, {r})) /\ x = b.views[d][r]
      OBVIOUS
    <3>5. PagesPlus(page_views, b)[d][r] = [row EXCEPT !.views = @ + x]
      BY <3>2, <3>4 DEF PagesPlus
    <3>6. page_views'[d][r] = [[row EXCEPT !.views = @ + x] EXCEPT !.visitors = n]
      BY <3>1, <3>4, <3>5
    <3> QED
      BY <3>3, <3>4, <3>6 DEF PageRow
  <2> QED
    BY <2>4, <2>6, <2>7
<1>12. ASSUME NEW d \in Days, ~IsClosed(daily', d), NEW v \in both, v.day = d
       PROVE  v \in visitor_hashes'
  <2>1. d \in DOMAIN rows
    <3>1. CASE v \in visitor_hashes
      BY <1>7, <1>12, <3>1 DEF HashesDieWithTheirDay, IsOpen
    <3>2. CASE v \in b.visitors
      BY <1>7, <1>12, <3>2
    <3> QED
      BY <1>1, <3>1, <3>2 DEF both
  <2>2. ~IsClosed(rows, d) /\ d \notin closing
    <3>1. CASE d \in closing
      <4>1. daily'[d] = RowClosed(rows[d], Cardinality(HashesOf(seen, d, Routes \ {NOT_FOUND})))
        BY <1>6, <2>1, <3>1
      <4>2. PICK row, n : row = rows[d] /\ n = Cardinality(HashesOf(seen, d, Routes \ {NOT_FOUND}))
        OBVIOUS
      <4>3. row = [c \in DailyColumns |-> row[c]] /\ daily'[d] = RowClosed(row, n)
        BY <1>7, <2>1, <4>1, <4>2 DEF IsDailyRow
      <4>4. RowClosed(row, n).closed
        BY <4>3 DEF RowClosed, DailyColumns
      <4> QED
        BY <1>6, <1>12, <2>1, <4>3, <4>4 DEF IsClosed
    <3>2. CASE d \notin closing
      BY <1>6, <1>12, <2>1, <3>2 DEF IsClosed
    <3> QED
      BY <3>1, <3>2
  <2>3. ~(d < open)
    BY <1>5, <2>1, <2>2 DEF Closing, IsOpen, IsClosed
  <2>4. v \in seen
    BY <1>9, <1>12, <2>2
  <2> QED
    BY <1>6, <1>12, <2>3, <2>4
<1>13. visitor_hashes' \subseteq both /\ \A v \in visitor_hashes' : ~(v.day < open)
  BY <1>6, <1>9
<1> QED
  BY <1>2, <1>6, <1>8, <1>11, <1>12, <1>13 DEF both

\* What a server holds, and what it is about to count, is of days that are not
\* over for longer than the grace.
LEMMA HeldIsFresh ==
  ASSUME Timely, IInv, GraceInv, NEW s \in Servers
  PROVE  /\ \A v : Remembers(s, v) => v \in Sighting /\ day(clock - GRACE) <= v.day
         /\ request[s] # None => day(clock - GRACE) <= request[s].day
<1>1. /\ fails \in Nat /\ fails <= MaxFails /\ MaxFails \in Nat /\ clock \in Int
      /\ AreFlights(flight[s]) /\ idle[s] \in Nat
      /\ InTime(phase[s], request[s], batch[s], flight[s], idle[s], fails, clock)
  BY MetricsAssumption
  DEF GraceInv, ServerInTime, AreFlights, IInv, TypeOK, MetricsAssumption
<1>2. /\ Aged(batch[s], Oldest(fails), clock) /\ Oldest(fails) \in Nat
      /\ \A k \in Flushes : flight[s][k] # None => Aged(flight[s][k].batch, Oldest(fails), clock)
  BY <1>1, NoneIsOlder
<1>3. Oldest(fails) <= GRACE /\ GRACE \in Nat /\ REQUEST_TICKS <= GRACE /\ REQUEST_TICKS \in Nat
  <2>1. 1 + fails \in Nat /\ 1 + MaxFails \in Nat /\ 1 + fails <= 1 + MaxFails
    BY <1>1
  <2>2. /\ Late(1 + fails) <= Late(1 + MaxFails) /\ Late(1 + fails) \in Nat
        /\ REQUEST_TICKS <= Late(1 + fails) /\ REQUEST_TICKS \in Nat
        /\ Late(1 + MaxFails) \in Nat /\ WRITE_TICKS \in Nat /\ GRACE \in Nat
    BY <2>1, LateGrows
  <2>3. Late(1 + MaxFails) + WRITE_TICKS <= GRACE
    BY DEF Timely, Late
  <2> QED
    BY <2>2, <2>3 DEF Oldest
<1>4. \A b : Aged(b, Oldest(fails), clock) => Aged(b, GRACE, clock)
  <2>1. /\ Oldest(fails) \in Int /\ GRACE \in Int /\ clock - GRACE <= clock - Oldest(fails)
    BY <1>1, <1>2, <1>3
  <2> QED
    BY <1>1, <2>1, AgedMore
<1>5. \A b : Sound(b) => \A v \in b.visitors : v \in Sighting /\ v.day \in Days /\ Touches(b, v.day)
  BY DEF Sound, Backed, Batch, Sighting, Touches
<1>6. ASSUME NEW v, Remembers(s, v)
      PROVE  v \in Sighting /\ day(clock - GRACE) <= v.day
  <2>1. CASE v \in batch[s].visitors
    BY <1>2, <1>4, <1>5, <2>1 DEF IInv, Aged
  <2>2. CASE \E k \in Flushes : flight[s][k] # None /\ v \in flight[s][k].batch.visitors
    BY <1>2, <1>4, <1>5, <2>2 DEF IInv, Aged
  <2> QED
    BY <1>6, <2>1, <2>2 DEF Remembers
<1>7. ASSUME request[s] # None
      PROVE  day(clock - GRACE) <= request[s].day
  <2>1. /\ request[s].ticks \in Nat /\ request[s].ticks <= REQUEST_TICKS
        /\ day(clock - request[s].ticks) <= request[s].day /\ request[s].day \in Days
    <3>1. request[s] \in Request
      BY <1>7 DEF IInv, TypeOK
    <3> QED
      BY <1>1, <1>7, <3>1 DEF InTime, Request
  <2>2. /\ clock - GRACE \in Int /\ clock - request[s].ticks \in Int
        /\ clock - GRACE <= clock - request[s].ticks
    BY <1>1, <1>3, <2>1
  <2>3. /\ day(clock - GRACE) \in Int /\ day(clock - request[s].ticks) \in Int
        /\ day(clock - GRACE) <= day(clock - request[s].ticks)
    BY <2>2, DayMonotone
  <2>4. request[s].day \in Int
    <3>1. PICK w \in 0 .. MaxClock : request[s].day = day(w)
      BY <2>1 DEF Days
    <3>2. w \in Int /\ w <= w
      BY MetricsAssumption DEF MetricsAssumption
    <3> QED
      BY <3>1, <3>2, DayMonotone
  <2> QED
    BY <2>1, <2>3, <2>4
<1> QED
  BY <1>6, <1>7

\* Days are numbers, and a clock that goes on begins no earlier one.
LEMMA GraceMovesOn ==
  ASSUME IInv, IInv', clock <= clock'
  PROVE  /\ Days \subseteq Int /\ day(clock - GRACE) \in Int /\ day(clock' - GRACE) \in Int
         /\ day(clock - GRACE) <= day(clock' - GRACE)
<1>1. clock \in Int /\ clock' \in Int /\ GRACE \in Nat
  BY MetricsAssumption DEF MetricsAssumption, IInv, TypeOK
<1>2. \A t, u \in Int, g \in Nat : t <= u => t - g \in Int /\ u - g \in Int /\ t - g <= u - g
  OBVIOUS
<1>3. clock - GRACE \in Int /\ clock' - GRACE \in Int /\ clock - GRACE <= clock' - GRACE
  BY <1>1, <1>2
<1>4. ASSUME NEW d \in Days
      PROVE  d \in Int
  <2>1. PICK w \in 0 .. MaxClock : d = day(w)
    BY DEF Days
  <2>2. w \in Int /\ w <= w
    BY MetricsAssumption DEF MetricsAssumption
  <2> QED
    BY <2>1, <2>2, DayMonotone
<1> QED
  BY <1>3, <1>4, DayMonotone

\* Whatever only moves what is known leaves visitors counted once.
LEMMA NothingLearnt ==
  ASSUME IInv, IInv', VisitorsInv, clock <= clock',
         UNCHANGED <<daily, visitor_hashes, lost, came>>,
         \A d \in Days : metrics_salt[d] # None => metrics_salt'[d] = metrics_salt[d],
         \A s \in Servers : cache'[s] \in {cache[s], None},
         \A s \in Servers, v \in Sighting : Remembers(s, v)' <=> Remembers(s, v)
  PROVE  VisitorsInv'
<1>1. \A v \in Sighting : Known(v)' <=> Known(v)
  BY DEF Known
<1>2. /\ Days \subseteq Int /\ day(clock - GRACE) \in Int /\ day(clock' - GRACE) \in Int
      /\ day(clock - GRACE) <= day(clock' - GRACE)
  BY GraceMovesOn
<1>3. KnownFit'
  <2>1. \A v \in Sighting : v.day \in Days /\ v.hash.salt # None
    BY NoneAssumption DEF Sighting, Hash, NoneAssumption
  <2> QED
    BY <1>1, <2>1 DEF VisitorsInv, KnownFit
<1>4. CachesFit'
  <2> SUFFICES ASSUME NEW s \in Servers, cache'[s] # None, day(clock' - GRACE) <= cache'[s].day
               PROVE  metrics_salt'[cache'[s].day] = cache'[s].salt
    BY DEF CachesFit
  <2>1. cache'[s] = cache[s] /\ cache[s].day \in Days /\ cache[s].salt # None
    <3>1. cache'[s] = cache[s]
      OBVIOUS
    <3>2. cache[s] \in Salt
      BY <3>1 DEF IInv, TypeOK
    <3> QED
      BY <3>1, <3>2, NoneAssumption DEF Salt, NoneAssumption
  <2>2. day(clock - GRACE) <= cache[s].day
    <3>1. cache[s].day \in Int /\ day(clock' - GRACE) <= cache[s].day
      BY <1>2, <2>1
    <3> QED
      BY <1>2, <3>1
  <2>3. metrics_salt[cache[s].day] = cache[s].salt
    BY <2>1, <2>2 DEF VisitorsInv, CachesFit
  <2> QED
    BY <2>1, <2>3
<1>5. CameKnown'
  BY <1>1 DEF VisitorsInv, CameKnown, IsClosed
<1>6. VisitorsCountedOnce'
  BY DEF VisitorsInv, VisitorsCountedOnce, IsClosed, Came
<1> QED
  BY <1>3, <1>4, <1>5, <1>6 DEF VisitorsInv

\* A view that is counted makes known whom it is of, of a day that is open.
LEMMA CountLearns ==
  ASSUME Timely, IInv, IInv', GraceInv, VisitorsInv, NEW s \in Servers,
         CountKnown(s) \/ SelectSalt(s) \/ SaltFails(s)
  PROVE  VisitorsInv'
<1> USE DEF vars, tables, memory, history
<1> DEFINE q == request[s]
<1>1. /\ request[s] # None /\ request[s].who \notin Bots
      /\ UNCHANGED <<clock, daily, visitor_hashes, lost, metrics_salt, flight>>
  <2>1. CASE SelectSalt(s)
    <3>1. request[s] \in Request /\ request[s].step = "select"
      BY <2>1 DEF SelectSalt, IInv, TypeOK
    <3>2. request[s].who \in Visitors
      BY <3>1 DEF Request
    <3> QED
      BY <2>1, <3>2, MetricsAssumption DEF SelectSalt, CountView, MetricsAssumption
  <2> QED
    BY <2>1 DEF CountKnown, SaltFails, CountView
<1>2. /\ q \in Request /\ q.who \in Visitors /\ q.day \in Days /\ q.route \in Routes
  <2>1. q \in Request
    BY <1>1 DEF IInv, TypeOK
  <2> QED
    BY <1>1, <2>1 DEF Request
<1>3. day(clock - GRACE) <= q.day
  BY <1>1, HeldIsFresh
<1> HIDE DEF q
<1>4. PICK hash :
        /\ batch' = [batch EXCEPT ![s] = WithView(batch[s], q, hash)]
        /\ came' = IF hash # None /\ WithHash(q, hash) \in batch'[s].visitors
                     THEN [came EXCEPT ![q.day] = @ \union {<<q.route, q.who>>}]
                     ELSE came
        /\ \/ hash = None
           \/ hash = [who |-> q.who, salt |-> metrics_salt[q.day]] /\ hash \in Hash
  <2>1. CASE CountKnown(s)
    <3>1. cache[s] \in Salt /\ cache[s] # None /\ cache[s].day = q.day
      BY <2>1 DEF CountKnown, HasSalt, IInv, TypeOK, q
    <3>2. metrics_salt[q.day] = cache[s].salt /\ cache[s].salt \in Nat
      BY <1>3, <3>1 DEF VisitorsInv, CachesFit, Salt
    <3>3. PICK h : h = [who |-> q.who, salt |-> metrics_salt[q.day]]
      OBVIOUS
    <3>4. h \in Hash
      BY <1>2, <3>2, <3>3 DEF Hash
    <3>5. CountView(s, h)
      BY <2>1, <3>1, <3>2, <3>3 DEF CountKnown, q
    <3> QED
      BY <3>3, <3>4, <3>5 DEF CountView, q
  <2>2. CASE SelectSalt(s)
    <3>1. metrics_salt[q.day] \in Nat \union {None}
      BY <1>2 DEF IInv, TypeOK
    <3>2. CASE metrics_salt[q.day] = None
      <4>1. CountView(s, None)
        BY <2>2, <3>2 DEF SelectSalt, q
      <4> QED
        BY <4>1 DEF CountView, q
    <3>3. CASE metrics_salt[q.day] # None
      <4>1. PICK h : h = [who |-> q.who, salt |-> metrics_salt[q.day]]
        OBVIOUS
      <4>2. h \in Hash
        BY <1>2, <3>1, <3>3, <4>1 DEF Hash
      <4>3. CountView(s, h)
        BY <2>2, <3>3, <4>1 DEF SelectSalt, q
      <4> QED
        BY <4>1, <4>2, <4>3 DEF CountView, q
    <3> QED
      BY <3>2, <3>3
  <2>3. CASE SaltFails(s)
    BY <2>3 DEF SaltFails, CountView, q
  <2> QED
    BY <2>1, <2>2, <2>3
<1>5. PICK known : known = WithHash(q, hash)
  OBVIOUS
<1>6. hash # None => /\ known \in Sighting /\ known.day = q.day /\ known.route = q.route
                     /\ known.hash.who = q.who /\ known.hash.salt = metrics_salt[q.day]
  BY <1>2, <1>4, <1>5 DEF WithHash, Sighting
<1>7. /\ batch[s].visitors \subseteq batch'[s].visitors
      /\ \A v \in batch'[s].visitors : v \in batch[s].visitors \/ (hash # None /\ v = known)
      /\ \A t \in Servers : t # s => batch'[t] = batch[t]
  <2>1. batch \in [Servers -> Batch]
    BY DEF IInv, TypeOK
  <2>2. batch'[s].visitors = IF hash # None /\ Cardinality(batch[s].visitors) < MAX_VISITORS
                               THEN batch[s].visitors \union {known} ELSE batch[s].visitors
    BY <1>4, <1>5, <2>1 DEF WithView
  <2> QED
    BY <1>4, <2>1, <2>2
<1>8. /\ \A v : Known(v) => Known(v)'
      /\ \A v : Known(v)' => Known(v) \/ (hash # None /\ v = known /\ known \in batch'[s].visitors)
      /\ known \in batch'[s].visitors => Known(known)'
  <2>1. \A t \in Servers : \A v : Remembers(t, v) => Remembers(t, v)'
    BY <1>1, <1>7 DEF Remembers
  <2>2. \A t \in Servers : \A v : Remembers(t, v)' =>
          Remembers(t, v) \/ (hash # None /\ v = known /\ known \in batch'[s].visitors)
    BY <1>1, <1>7 DEF Remembers
  <2>3. known \in batch'[s].visitors => Remembers(s, known)'
    BY DEF Remembers
  <2> QED
    BY <1>1, <2>1, <2>2, <2>3 DEF Known
<1>9. came \in [Days -> SUBSET (Routes \X Visitors)]
  BY DEF IInv, TypeOK
<1>10. KnownFit'
  <2> SUFFICES ASSUME NEW v \in Sighting, Known(v)'
               PROVE  metrics_salt'[v.day] = v.hash.salt /\ <<v.route, v.hash.who>> \in came'[v.day]
    BY DEF KnownFit
  <2>1. v.day \in Days
    BY DEF Sighting
  <2>2. CASE Known(v)
    <3>1. metrics_salt[v.day] = v.hash.salt /\ <<v.route, v.hash.who>> \in came[v.day]
      BY <2>2 DEF VisitorsInv, KnownFit
    <3> QED
      BY <1>1, <1>2, <1>4, <1>9, <2>1, <3>1
  <2>3. CASE hash # None /\ v = known /\ known \in batch'[s].visitors
    BY <1>1, <1>2, <1>4, <1>5, <1>6, <1>9, <2>3
  <2> QED
    BY <1>8, <2>2, <2>3
<1>11. CachesFit'
  <2>1. cache' = cache \/ (metrics_salt[q.day] # None /\ cache' = [cache EXCEPT ![s] =
                             [day |-> q.day, salt |-> metrics_salt[q.day]]])
    BY DEF CountKnown, SelectSalt, SaltFails, q
  <2>2. cache \in [Servers -> Salt \union {None}]
    BY DEF IInv, TypeOK
  <2> QED
    BY <1>1, <2>1, <2>2 DEF VisitorsInv, CachesFit
<1>12. CameKnown'
  <2> SUFFICES ASSUME NEW d \in Days, lost.views[d] = NoViews[d], ~IsClosed(daily, d),
                      NEW r \in Routes, NEW w \in Visitors, <<r, w>> \in came'[d]
               PROVE  \E v \in Sighting : Known(v)' /\ v.day = d /\ v.route = r /\ v.hash.who = w
    BY <1>1 DEF CameKnown, IsClosed
  <2>1. CASE <<r, w>> \in came[d]
    <3>1. PICK v \in Sighting : Known(v) /\ v.day = d /\ v.route = r /\ v.hash.who = w
      BY <2>1 DEF VisitorsInv, CameKnown
    <3> QED
      BY <1>8, <3>1
  <2>2. CASE <<r, w>> \notin came[d]
    <3>1. /\ hash # None /\ known \in batch'[s].visitors /\ d = q.day
          /\ r = q.route /\ w = q.who
      BY <1>2, <1>4, <1>5, <1>9, <2>2
    <3> QED
      BY <1>6, <1>8, <3>1
  <2> QED
    BY <2>1, <2>2
<1>13. VisitorsCountedOnce'
  <2>1. ASSUME NEW d \in Days, IsClosed(daily, d)
        PROVE  came'[d] = came[d]
    <3>1. d < day(clock - GRACE)
      BY <2>1 DEF GraceInv
    <3>2. clock <= clock' /\ d \in Int /\ q.day \in Int /\ day(clock - GRACE) \in Int
      <4>1. clock \in Int
        BY MetricsAssumption DEF IInv, TypeOK, MetricsAssumption
      <4>2. clock <= clock'
        BY <1>1, <4>1
      <4> QED
        BY <1>2, <4>2, GraceMovesOn
    <3>3. d # q.day
      BY <1>3, <3>1, <3>2
    <3> QED
      BY <1>4, <1>9, <3>3
  <2> QED
    BY <1>1, <2>1 DEF VisitorsInv, VisitorsCountedOnce, IsClosed, Came
<1>14. \A d \in Days : IsFiniteSet(came'[d])
  <2> SUFFICES ASSUME NEW d \in Days
               PROVE  IsFiniteSet(came'[d])
    OBVIOUS
  <2>1. IsFiniteSet(came[d])
    BY DEF VisitorsInv
  <2>2. IsFiniteSet(came[d] \union {<<q.route, q.who>>})
    BY <2>1, FS_AddElement
  <2>3. came'[d] = came[d] \/ came'[d] = came[d] \union {<<q.route, q.who>>}
    BY <1>2, <1>4, <1>9
  <2> QED
    BY <2>1, <2>2, <2>3
<1> QED
  BY <1>10, <1>11, <1>12, <1>13, <1>14 DEF VisitorsInv

\* What goes down with a server was of days it takes views of along.
LEMMA DiesForgets ==
  ASSUME IInv, IInv', VisitorsInv, NEW s \in Servers, Dies(s),
         UNCHANGED <<clock, tables, came>>
  PROVE  VisitorsInv'
<1> USE DEF tables
<1>1. /\ batch'[s] = EmptyBatch /\ \A k \in Flushes : flight'[s][k] = None
      /\ \A t \in Servers : t # s => batch'[t] = batch[t] /\ flight'[t] = flight[t]
      /\ \A t \in Servers : cache'[t] \in {cache[t], None}
  BY DEF Dies, IInv, TypeOK
<1>2. \A v : Remembers(s, v)' => FALSE
  BY <1>1 DEF Remembers, EmptyBatch
<1>3. \A t \in Servers : \A v : t # s => (Remembers(t, v)' <=> Remembers(t, v))
  BY <1>1 DEF Remembers
<1>4. \A v : Known(v)' => Known(v)
  BY <1>2, <1>3 DEF Known
<1>5. KnownFit'
  BY <1>4 DEF VisitorsInv, KnownFit
<1>6. CachesFit'
  BY <1>1 DEF VisitorsInv, CachesFit
<1>7. ASSUME NEW d \in Days, lost'.views[d] = NoViews[d]
      PROVE  /\ lost.views[d] = NoViews[d]
             /\ \A v \in Sighting : Remembers(s, v) => v.day # d
  <2> DEFINE in(k) == IF flight[s][k] = None THEN EmptyBatch ELSE flight[s][k].batch
  <2>0. Sound(in("periodic")) /\ Sound(in("final")) /\ Sound(batch[s])
    BY EmptyIsSound DEF IInv, Flushes
  <2>1. PICK b, x, y, l : b = batch[s].views /\ x = in("periodic").views /\ y = in("final").views
                          /\ l = lost.views
    OBVIOUS
  <2>2. /\ b \in [Days -> [Routes -> Nat]] /\ x \in [Days -> [Routes -> Nat]]
        /\ y \in [Days -> [Routes -> Nat]] /\ l \in [Days -> [Routes -> Nat]]
    BY <2>0, <2>1 DEF Sound, Batch, IInv, TypeOK, Counts
  <2>3. lost'.views = PlusPlus(l, PlusPlus(b, PlusPlus(x, y)))
    <3>1. Held(s).views = PlusPlus(b, PlusPlus(x, y))
      BY <2>1 DEF Held, Merge
    <3> QED
      BY <2>1, <3>1 DEF Dies
  <2>4. ASSUME NEW r \in Routes
        PROVE  l[d][r] = 0 /\ b[d][r] = 0 /\ x[d][r] = 0 /\ y[d][r] = 0
    <3>1. PICK h, i, j, k \in Nat : h = l[d][r] /\ i = b[d][r] /\ j = x[d][r] /\ k = y[d][r]
      BY <2>2
    <3>2. lost'.views[d][r] = h + (i + (j + k))
      <4>1. PICK p, m : p = PlusPlus(x, y) /\ m = PlusPlus(b, p)
        OBVIOUS
      <4>2. p[d][r] = j + k /\ DOMAIN p = Days /\ DOMAIN p[d] = Routes
        BY <2>2, <3>1, <4>1 DEF PlusPlus, Plus
      <4>3. m[d][r] = i + p[d][r]
        BY <2>2, <3>1, <4>1 DEF PlusPlus, Plus
      <4>4. PlusPlus(l, m)[d][r] = h + m[d][r]
        BY <2>2, <3>1 DEF PlusPlus, Plus
      <4> QED
        BY <2>3, <4>1, <4>2, <4>3, <4>4
    <3>3. lost'.views[d][r] = 0
      BY <1>7 DEF NoViews
    <3>4. h + (i + (j + k)) = 0
      BY <3>2, <3>3
    <3>5. h = 0 /\ i = 0 /\ j = 0 /\ k = 0
      BY <3>4
    <3> QED
      BY <3>1, <3>5
  <2>5. lost.views[d] = NoViews[d]
    BY <2>1, <2>2, <2>4 DEF NoViews
  <2>6. ASSUME NEW v \in Sighting, Remembers(s, v), v.day = d
        PROVE  FALSE
    <3>1. v.route \in Routes
      BY DEF Sighting
    <3>2. CASE v \in batch[s].visitors
      <4>1. b[d][v.route] > 0
        BY <2>0, <2>1, <2>6, <3>2 DEF Sound, Backed
      <4> QED
        BY <2>4, <3>1, <4>1
    <3>3. CASE \E k \in Flushes : flight[s][k] # None /\ v \in flight[s][k].batch.visitors
      <4>1. PICK k \in Flushes : flight[s][k] # None /\ v \in flight[s][k].batch.visitors
        BY <3>3
      <4>2. flight[s][k].batch.views[d][v.route] > 0
        BY <2>6, <4>1 DEF IInv, Sound, Backed
      <4>3. x[d][v.route] > 0 \/ y[d][v.route] > 0
        BY <2>1, <4>1, <4>2 DEF Flushes
      <4> QED
        BY <2>4, <3>1, <4>3
    <3> QED
      BY <2>6, <3>2, <3>3 DEF Remembers
  <2> QED
    BY <2>5, <2>6
<1>8. CameKnown'
  <2> SUFFICES ASSUME NEW d \in Days, lost'.views[d] = NoViews[d], ~IsClosed(daily, d),
                      NEW r \in Routes, NEW w \in Visitors, <<r, w>> \in came[d]
               PROVE  \E v \in Sighting : Known(v)' /\ v.day = d /\ v.route = r /\ v.hash.who = w
    BY DEF CameKnown, IsClosed
  <2>1. lost.views[d] = NoViews[d] /\ \A v \in Sighting : Remembers(s, v) => v.day # d
    BY <1>7
  <2>2. PICK v \in Sighting : Known(v) /\ v.day = d /\ v.route = r /\ v.hash.who = w
    BY <2>1 DEF VisitorsInv, CameKnown
  <2>3. Known(v)'
    BY <1>3, <2>1, <2>2 DEF Known
  <2> QED
    BY <2>2, <2>3
<1>9. VisitorsCountedOnce'
  BY <1>7 DEF VisitorsInv, VisitorsCountedOnce, IsClosed, Came
<1> QED
  BY <1>5, <1>6, <1>8, <1>9 DEF VisitorsInv

\* Who of these was on one of the routes.
Who(S, routes) == {p[2] : p \in {p \in S : p[1] \in routes}}

\* The hashes of a day are of one salt and hide some of these, or each of them.
Hide(both, d, salt, S) ==
  \A v \in both : v.day = d => v.hash.salt = salt /\ <<v.route, v.hash.who>> \in S

HideEach(both, d, S) ==
  \A p \in S : \E v \in both : v.day = d /\ <<v.route, v.hash.who>> = p

\* Hashes of one salt are as many as those they hide: at most those who came,
\* and exactly those if each who came is known by one.
LEMMA HashesHideVisitors ==
  ASSUME NEW both, IsFiniteSet(both), both \subseteq Sighting, NEW d \in Days,
         NEW S, IsFiniteSet(S), NEW salt, NEW routes, Hide(both, d, salt, S)
  PROVE  /\ Cardinality(HashesOf(both, d, routes)) <= Cardinality(Who(S, routes))
         /\ HideEach(both, d, S) =>
              Cardinality(HashesOf(both, d, routes)) = Cardinality(Who(S, routes))
<1> DEFINE there == {p \in S : p[1] \in routes}
           came_ == {p[2] : p \in there}
           hashes == HashesOf(both, d, routes)
           f == [h \in hashes |-> h.who]
<1>1. IsFiniteSet(came_)
  <2>1. IsFiniteSet(there)
    BY FS_Subset
  <2> DEFINE g == [p \in there |-> p[2]]
  <2>2. g \in Surjection(there, came_)
    BY DEF Surjection
  <2> HIDE DEF g, there, came_
  <2> QED
    BY <2>1, <2>2, FS_Surjection
<1>2. \A h \in hashes : \E v \in both : v.day = d /\ v.route \in routes /\ v.hash = h
  BY DEF HashesOf
<1>3. \A v \in both : v.day = d /\ v.route \in routes => v.hash \in hashes
  BY DEF HashesOf
<1> HIDE DEF hashes
<1>4. \A h \in hashes : h \in Hash /\ h.salt = salt /\ h.who \in came_
  <2> SUFFICES ASSUME NEW h \in hashes
               PROVE  h \in Hash /\ h.salt = salt /\ h.who \in came_
    OBVIOUS
  <2>1. PICK v \in both : v.day = d /\ v.route \in routes /\ v.hash = h
    BY <1>2
  <2>2. h \in Hash /\ h.salt = salt /\ <<v.route, h.who>> \in there
    BY <2>1 DEF Sighting, Hide
  <2>3. PICK p \in there : p = <<v.route, h.who>>
    BY <2>2
  <2>4. p[2] = h.who
    BY <2>3
  <2>5. p[2] \in came_
    OBVIOUS
  <2> QED
    BY <2>2, <2>4, <2>5
<1>5. f \in Injection(hashes, came_)
  <2>1. \A h \in hashes : f[h] \in came_
    BY <1>4
  <2>2. \A g, h \in hashes : f[g] = f[h] => g = h
    BY <1>4 DEF Hash
  <2> HIDE DEF came_
  <2> QED
    BY <2>1, <2>2 DEF Injection, IsInjective
<1>6. ASSUME HideEach(both, d, S)
      PROVE  f \in Surjection(hashes, came_)
  <2>1. ASSUME NEW w \in came_
        PROVE  \E h \in hashes : f[h] = w
    <3>1. PICK p \in S : p[1] \in routes /\ p[2] = w
      OBVIOUS
    <3>2. PICK v \in both : v.day = d /\ <<v.route, v.hash.who>> = p
      BY <1>6 DEF HideEach
    <3>3. v.route = p[1] /\ v.hash.who = p[2]
      BY <3>2
    <3>4. v.hash \in hashes /\ f[v.hash] = w
      BY <1>3, <3>1, <3>2, <3>3
    <3> QED
      BY <3>4
  <2>2. \A h \in hashes : f[h] \in came_
    BY <1>4
  <2> HIDE DEF came_
  <2> QED
    BY <2>1, <2>2 DEF Surjection
<1> HIDE DEF f, came_
<1>7. /\ Cardinality(hashes) <= Cardinality(came_)
      /\ Cardinality(hashes) = Cardinality(came_) <=> f \in Surjection(hashes, came_)
  BY <1>1, <1>5, FS_Injection
<1> QED
  BY <1>6, <1>7 DEF hashes, came_, Who

\* A flush that commits closes days that are wholly in the tables.
LEMMA CommitCountsOnce ==
  ASSUME Timely, IInv, IInv', GraceInv, VisitorsInv, NEW s \in Servers, NEW k \in Flushes,
         FlushCommits(s, k)
  PROVE  VisitorsInv'
<1>1. PICK f : f = flight[s][k]
  OBVIOUS
<1>2. /\ f # None /\ f \in Flush /\ Sound(f.batch) /\ Write(f) /\ TypeOK
      /\ IsFiniteSet(visitor_hashes) /\ HashesDieWithTheirDay
      /\ flight' = [flight EXCEPT ![s][k] = None]
      /\ UNCHANGED <<clock, batch, cache, lost, came>>
  BY <1>1 DEF FlushCommits, IInv, TypeOK, history
<1>3. PICK both, open : both = visitor_hashes \union f.batch.visitors /\ open = OpenUntil(f.now)
  OBVIOUS
<1>4. /\ both \subseteq Sighting /\ IsFiniteSet(both)
      /\ visitor_hashes' \subseteq both
      /\ \A d \in Days : IsClosed(daily', d) /\ ~IsClosed(daily, d) =>
           /\ d < open
           /\ daily'[d].visitors = Cardinality(HashesOf(both, d, Routes \ {NOT_FOUND}))
      /\ \A d \in Days : ~IsClosed(daily', d) =>
           \A v \in both : v.day = d => v \in visitor_hashes'
      /\ metrics_salt' = [d \in Days |-> IF d < open THEN None ELSE metrics_salt[d]]
      /\ \A v \in visitor_hashes' : ~(v.day < open)
  <2>1. /\ TypeOK /\ IsFiniteSet(visitor_hashes) /\ HashesDieWithTheirDay
        /\ f \in Flush /\ Sound(f.batch) /\ Write(f)
    BY <1>2
  <2> QED
    BY <2>1, <1>3, CommitCounts, ZenonT(30)
<1>5. \A d \in Days : IsClosed(daily, d) =>
        IsClosed(daily', d) /\ daily'[d].visitors = daily[d].visitors
  BY CommitStep
<1>6. /\ open \in Int /\ day(clock - GRACE) \in Int /\ open <= day(clock - GRACE)
      /\ Days \subseteq Int
  <2>1. f.now \in 0 .. MaxClock /\ f.now <= clock /\ clock \in 0 .. MaxClock
    BY <1>1, <1>2 DEF GraceInv, ServerInTime, InTime, Flush, TypeOK
  <2>2. /\ f.now - GRACE \in Int /\ clock - GRACE \in Int /\ f.now - GRACE <= clock - GRACE
    BY <2>1, MetricsAssumption DEF MetricsAssumption
  <2>3. /\ day(f.now - GRACE) \in Int /\ day(clock - GRACE) \in Int
        /\ day(f.now - GRACE) <= day(clock - GRACE)
    BY <2>2, DayMonotone
  <2>4. clock <= clock'
    BY <1>2, <2>1
  <2>5. Days \subseteq Int
    BY <2>4, GraceMovesOn
  <2> QED
    BY <1>3, <2>3, <2>5 DEF OpenUntil
<1>7. ASSUME NEW d \in Days, day(clock - GRACE) <= d
      PROVE  ~(d < open)
  BY <1>6, <1>7
<1>8. \A t \in Servers : \A v : Remembers(t, v)' => Remembers(t, v)
  BY <1>2 DEF Remembers, IInv, TypeOK
<1>9. \A t \in Servers : \A v : Remembers(t, v) => Remembers(t, v)' \/ v \in f.batch.visitors
  <2> SUFFICES ASSUME NEW t \in Servers, NEW v, Remembers(t, v), v \notin f.batch.visitors
               PROVE  Remembers(t, v)'
    OBVIOUS
  <2>1. CASE v \in batch[t].visitors
    BY <1>2, <2>1 DEF Remembers
  <2>2. CASE \E j \in Flushes : flight[t][j] # None /\ v \in flight[t][j].batch.visitors
    <3>1. PICK j \in Flushes : flight[t][j] # None /\ v \in flight[t][j].batch.visitors
      BY <2>2
    <3>2. flight'[t][j] = flight[t][j]
      BY <1>1, <1>2, <3>1 DEF TypeOK
    <3> QED
      BY <3>1, <3>2 DEF Remembers
  <2> QED
    BY <2>1, <2>2 DEF Remembers
<1>10. \A v \in both : v \in Sighting /\ Known(v)
  BY <1>1, <1>2, <1>3, <1>4 DEF Known, Remembers
<1>11. \A v : Known(v)' => Known(v)
  BY <1>4, <1>8, <1>10 DEF Known
<1>12. \A v : Known(v) => v \in both \/ \E t \in Servers : Remembers(t, v)'
  BY <1>3, <1>9 DEF Known
<1>13. \A t \in Servers : \A v : Remembers(t, v) => v \in Sighting /\ day(clock - GRACE) <= v.day
  BY HeldIsFresh
<1>14. KnownFit'
  <2> SUFFICES ASSUME NEW v \in Sighting, Known(v)'
               PROVE  metrics_salt'[v.day] = v.hash.salt /\ <<v.route, v.hash.who>> \in came[v.day]
    BY <1>2 DEF KnownFit
  <2>1. metrics_salt[v.day] = v.hash.salt /\ <<v.route, v.hash.who>> \in came[v.day]
    BY <1>11 DEF VisitorsInv, KnownFit
  <2>2. v.day \in Days
    BY DEF Sighting
  <2>3. ~(v.day < open)
    <3>1. CASE v \in visitor_hashes'
      BY <1>4, <3>1
    <3>2. CASE \E t \in Servers : Remembers(t, v)'
      BY <1>7, <1>8, <1>13, <2>2, <3>2
    <3> QED
      BY <3>1, <3>2 DEF Known
  <2> QED
    BY <1>4, <2>1, <2>2, <2>3
<1>15. CachesFit'
  <2> SUFFICES ASSUME NEW t \in Servers, cache[t] # None, day(clock - GRACE) <= cache[t].day
               PROVE  metrics_salt'[cache[t].day] = cache[t].salt
    BY <1>2 DEF CachesFit
  <2>1. cache[t].day \in Days
    BY <1>2 DEF TypeOK, Salt
  <2> QED
    BY <1>4, <1>7, <2>1 DEF VisitorsInv, CachesFit
<1>16. CameKnown'
  <2> SUFFICES ASSUME NEW d \in Days, lost.views[d] = NoViews[d], ~IsClosed(daily', d),
                      NEW r \in Routes, NEW w \in Visitors, <<r, w>> \in came[d]
               PROVE  \E v \in Sighting : Known(v)' /\ v.day = d /\ v.route = r /\ v.hash.who = w
    BY <1>2 DEF CameKnown
  <2>1. PICK v \in Sighting : Known(v) /\ v.day = d /\ v.route = r /\ v.hash.who = w
    BY <1>5 DEF VisitorsInv, CameKnown
  <2>2. Known(v)'
    BY <1>4, <1>12, <2>1 DEF Known
  <2> QED
    BY <2>1, <2>2
<1>17. VisitorsCountedOnce'
  <2> DEFINE pages == Routes \ {NOT_FOUND}
  <2> SUFFICES ASSUME NEW d \in Days, IsClosed(daily', d)
               PROVE  /\ daily'[d].visitors <= Cardinality(Came(d, pages))
                      /\ lost.views[d] = NoViews[d] =>
                           daily'[d].visitors = Cardinality(Came(d, pages))
    BY <1>2 DEF VisitorsCountedOnce, Came
  <2>1. CASE IsClosed(daily, d)
    BY <1>5, <2>1 DEF VisitorsInv, VisitorsCountedOnce
  <2>2. CASE ~IsClosed(daily, d)
    <3>1. d < open /\ daily'[d].visitors = Cardinality(HashesOf(both, d, pages))
      BY <1>4, <2>2
    <3>2. \A v \in both : v.day = d =>
            v.hash.salt = metrics_salt[d] /\ <<v.route, v.hash.who>> \in came[d]
      BY <1>10 DEF VisitorsInv, KnownFit
    <3>3. PICK S, salt, routes : S = came[d] /\ salt = metrics_salt[d] /\ routes = pages
      OBVIOUS
    <3>4. IsFiniteSet(S) /\ S \subseteq Routes \X Visitors
      BY <1>2, <3>3 DEF VisitorsInv, TypeOK
    <3>5. Came(d, pages) = Who(S, routes)
      BY <3>3 DEF Came, Who
    <3>6. /\ Cardinality(HashesOf(both, d, routes)) <= Cardinality(Who(S, routes))
          /\ HideEach(both, d, S) =>
               Cardinality(HashesOf(both, d, routes)) = Cardinality(Who(S, routes))
      <4>1. Hide(both, d, salt, S)
        BY <3>2, <3>3 DEF Hide
      <4>2. both \subseteq Sighting /\ IsFiniteSet(both) /\ IsFiniteSet(S)
        BY <1>4, <3>4
      <4> HIDE DEF pages
      <4>3. Cardinality(HashesOf(both, d, routes)) <= Cardinality(Who(S, routes))
        BY <4>1, <4>2, HashesHideVisitors
      <4>4. HideEach(both, d, S) =>
               Cardinality(HashesOf(both, d, routes)) = Cardinality(Who(S, routes))
        BY <4>1, <4>2, HashesHideVisitors
      <4> QED
        BY <4>3, <4>4
    <3>7. ASSUME lost.views[d] = NoViews[d], NEW p \in S
          PROVE  \E v \in both : v.day = d /\ <<v.route, v.hash.who>> = p
      <4>1. PICK r \in Routes, w \in Visitors : p = <<r, w>>
        BY <3>4
      <4>2. PICK v \in Sighting : Known(v) /\ v.day = d /\ v.route = r /\ v.hash.who = w
        BY <2>2, <3>3, <3>7, <4>1 DEF VisitorsInv, CameKnown
      <4>3. ~ \E t \in Servers : Remembers(t, v)'
        <5>1. ~(day(clock - GRACE) <= d)
          BY <1>7, <3>1
        <5> QED
          BY <1>8, <1>13, <4>2, <5>1
      <4>4. v \in both
        BY <1>12, <4>2, <4>3
      <4> QED
        BY <4>1, <4>2, <4>4
    <3>8. lost.views[d] = NoViews[d] => HideEach(both, d, S)
      BY <3>7 DEF HideEach
    <3> QED
      BY <3>1, <3>3, <3>5, <3>6, <3>8
  <2> QED
    BY <2>1, <2>2
<1>18. \A d \in Days : IsFiniteSet(came'[d])
  BY <1>2 DEF VisitorsInv
<1> QED
  BY <1>14, <1>15, <1>16, <1>17, <1>18 DEF VisitorsInv

\* Whatever moves a batch to a flush or back moves what is known with it.
LEMMA MovesRemember ==
  ASSUME IInv, NEW s \in Servers,
         \/ \E k \in Flushes : flight[s][k] = None /\ TakeBatch(s, k)
         \/ \E k \in Flushes : FlushFails(s, k)
         \/ CountBot(s)
         \/ UNCHANGED <<batch, flight>>
  PROVE  \A t \in Servers, v \in Sighting : Remembers(t, v)' <=> Remembers(t, v)
<1>1. /\ batch \in [Servers -> Batch] /\ flight \in [Servers -> [Flushes -> Flush \union {None}]]
  BY DEF IInv, TypeOK
<1>2. ASSUME NEW k \in Flushes, flight[s][k] = None, TakeBatch(s, k)
      PROVE  \A t \in Servers, v \in Sighting : Remembers(t, v)' <=> Remembers(t, v)
  <2>1. PICK taken : taken = [batch |-> batch[s], now |-> clock, ticks |-> 0]
    OBVIOUS
  <2>2. taken # None /\ taken.batch = batch[s]
    <3>1. taken \in Flush
      BY <1>1, <2>1 DEF Flush, IInv, TypeOK
    <3> QED
      BY <2>1, <3>1, NoneAssumption DEF NoneAssumption
  <2>3. /\ batch'[s] = EmptyBatch /\ flight'[s][k] = taken
        /\ \A j \in Flushes : j # k => flight'[s][j] = flight[s][j]
        /\ \A t \in Servers : t # s => batch'[t] = batch[t] /\ flight'[t] = flight[t]
    BY <1>1, <1>2, <2>1 DEF TakeBatch
  <2>4. EmptyBatch.visitors = {}
    BY DEF EmptyBatch
  <2> QED
    BY <1>2, <2>2, <2>3, <2>4 DEF Remembers
<1>3. ASSUME NEW k \in Flushes, FlushFails(s, k)
      PROVE  \A t \in Servers, v \in Sighting : Remembers(t, v)' <=> Remembers(t, v)
  <2>1. /\ flight[s][k] # None /\ flight'[s][k] = None
        /\ batch'[s].visitors = batch[s].visitors \union flight[s][k].batch.visitors
        /\ \A j \in Flushes : j # k => flight'[s][j] = flight[s][j]
        /\ \A t \in Servers : t # s => batch'[t] = batch[t] /\ flight'[t] = flight[t]
    BY <1>1, <1>3 DEF FlushFails, Merge
  <2> QED
    BY <2>1 DEF Remembers
<1>4. CASE CountBot(s)
  <2>1. PICK n : batch'[s] = [batch[s] EXCEPT !.bots = n]
    BY <1>1, <1>4 DEF CountBot
  <2>2. batch'[s].visitors = batch[s].visitors
    BY <1>1, <2>1 DEF Batch
  <2>3. flight' = flight /\ \A t \in Servers : t # s => batch'[t] = batch[t]
    BY <1>1, <1>4 DEF CountBot
  <2> QED
    BY <2>2, <2>3 DEF Remembers
<1>5. CASE UNCHANGED <<batch, flight>>
  BY <1>5 DEF Remembers
<1> QED
  BY <1>2, <1>3, <1>4, <1>5

\* Every step of a server keeps visitors counted once.
LEMMA StepCountsOnce ==
  ASSUME Timely, MemoryInv, IInv', GraceInv, VisitorsInv, NEW s \in Servers,
         Owed(s) \/ Environment(s)
  PROVE  VisitorsInv'
<1> USE DEF vars, tables, memory, history
<1>0. IInv /\ FinalIsLast
  BY DEF MemoryInv
<1>1. clock <= clock'
  <2>1. clock \in Int
    BY <1>0, MetricsAssumption DEF IInv, TypeOK, MetricsAssumption
  <2> QED
    BY <1>0, <2>1, OthersStay
<1>2. ASSUME /\ UNCHANGED <<daily, visitor_hashes, lost, came>>
             /\ \A d \in Days : metrics_salt[d] # None => metrics_salt'[d] = metrics_salt[d]
             /\ UNCHANGED cache,
             \/ \E k \in Flushes : flight[s][k] = None /\ TakeBatch(s, k)
             \/ \E k \in Flushes : FlushFails(s, k)
             \/ CountBot(s)
             \/ UNCHANGED <<batch, flight>>
      PROVE  VisitorsInv'
  <2>1. \A t \in Servers, v \in Sighting : Remembers(t, v)' <=> Remembers(t, v)
    BY <1>0, <1>2, MovesRemember
  <2> QED
    BY <1>0, <1>1, <1>2, <2>1, NothingLearnt
<1>3. "periodic" \in Flushes /\ "final" \in Flushes
  BY DEF Flushes
<1>4. CASE CountBot(s)
  BY <1>2, <1>4 DEF CountBot
<1>5. CASE PeriodicFlush(s)
  BY <1>2, <1>3, <1>5 DEF PeriodicFlush
<1>6. CASE FinalFlush(s)
  <2>1. flight[s]["final"] = None
    BY <1>0, <1>6 DEF FinalFlush, FinalIsLast
  <2> QED
    BY <1>2, <1>3, <1>6, <2>1 DEF FinalFlush
<1>7. ASSUME NEW k \in Flushes, FlushFails(s, k)
      PROVE  VisitorsInv'
  BY <1>2, <1>7 DEF FlushFails
<1>8. CASE InsertSalt(s)
  <2>1. metrics_salt \in [Days -> Nat \union {None}]
    BY <1>0 DEF IInv, TypeOK
  <2>2. \A d \in Days : metrics_salt[d] # None => metrics_salt'[d] = metrics_salt[d]
    BY <1>8, <2>1 DEF InsertSalt
  <2> QED
    BY <1>2, <1>8, <2>2 DEF InsertSalt
<1>9. CASE Arrive(s) \/ Abandon(s) \/ Terminate(s) \/ Boot(s)
  BY <1>2, <1>9 DEF Arrive, Abandon, Terminate, Boot
<1>10. CASE Exit(s) \/ Crash(s)
  BY <1>0, <1>10, DiesForgets DEF Exit, Crash
<1>11. CASE CountKnown(s) \/ SelectSalt(s) \/ SaltFails(s)
  BY <1>0, <1>11, CountLearns
<1>12. ASSUME NEW k \in Flushes, FlushCommits(s, k)
       PROVE  VisitorsInv'
  BY <1>0, <1>12, CommitCountsOnce
<1> QED
  BY <1>3, <1>4, <1>5, <1>6, <1>7, <1>8, <1>9, <1>10, <1>11, <1>12 DEF Owed, Environment

\* Time teaches nothing of who came.
LEMMA TickLearnsNothing ==
  ASSUME IInv, IInv', VisitorsInv, Tick
  PROVE  VisitorsInv'
<1> USE DEF vars, tables, memory, history
<1>1. ASSUME NEW s \in Servers, NEW k \in Flushes
      PROVE  IF flight[s][k] = None THEN flight'[s][k] = None
             ELSE flight'[s][k] # None /\ flight'[s][k].batch = flight[s][k].batch
  <2>1. CASE flight[s][k] = None
    BY <2>1 DEF Tick
  <2>2. CASE flight[s][k] # None
    <3>1. flight[s][k] \in Flush
      BY <2>2 DEF IInv, TypeOK
    <3> DEFINE older == [flight[s][k] EXCEPT !.ticks = @ + 1]
    <3>2. older \in Flush /\ older.batch = flight[s][k].batch
      BY <3>1 DEF Flush
    <3>3. flight'[s][k] = older
      BY <2>2 DEF Tick
    <3> QED
      BY <2>2, <3>2, <3>3, NoneAssumption DEF NoneAssumption
  <2> QED
    BY <2>1, <2>2
<1>2. /\ clock <= clock'
      /\ UNCHANGED <<daily, visitor_hashes, metrics_salt, lost, came, cache, batch>>
  BY MetricsAssumption DEF Tick, MetricsAssumption, IInv, TypeOK
<1>3. \A s \in Servers, v \in Sighting : Remembers(s, v)' <=> Remembers(s, v)
  BY <1>1, <1>2 DEF Remembers
<1> QED
  BY <1>2, <1>3, NothingLearnt

\* If a batch is written within the grace, crashes and failing writes do not
\* lose or repeat a visitor: a closed day has each who came once, or, if a memory
\* went down with it, some of them (`close_expired_days`, `flush` and the salts
\* that `daily_salt` keeps).
THEOREM VisitorsAreCountedOnce == Timely => (Spec => []VisitorsCountedOnce)
<1> SUFFICES ASSUME Timely PROVE Spec => []VisitorsCountedOnce
  OBVIOUS
<1>1. Init => VisitorsInv
  <2> SUFFICES ASSUME Init PROVE VisitorsInv
    OBVIOUS
  <2>1. \A v : ~Known(v)
    <3>1. \A s \in Servers : \A v : ~Remembers(s, v)
      BY DEF Init, Remembers, EmptyBatch
    <3> QED
      BY <3>1 DEF Init, Known
  <2>2. KnownFit /\ CachesFit
    BY <2>1 DEF Init, KnownFit, CachesFit
  <2>3. CameKnown /\ VisitorsCountedOnce
    BY DEF Init, CameKnown, VisitorsCountedOnce, IsClosed
  <2>4. \A d \in Days : IsFiniteSet(came[d])
    BY FS_EmptySet DEF Init
  <2> QED
    BY <2>2, <2>3, <2>4 DEF VisitorsInv
<1>2. MemoryInv /\ IInv' /\ GraceInv /\ VisitorsInv /\ [Next]_vars => VisitorsInv'
  <2> SUFFICES ASSUME MemoryInv, IInv', GraceInv, VisitorsInv, [Next]_vars
               PROVE  VisitorsInv'
    OBVIOUS
  <2>1. IInv
    BY DEF MemoryInv
  <2>2. ASSUME NEW s \in Servers, Owed(s) \/ Environment(s)
        PROVE  VisitorsInv'
    BY <2>2, StepCountsOnce
  <2>3. CASE Tick
    BY <2>1, <2>3, TickLearnsNothing
  <2>4. CASE UNCHANGED vars
    <3>1. /\ UNCHANGED <<clock, daily, visitor_hashes, metrics_salt, lost, came, cache>>
          /\ UNCHANGED <<batch, flight>>
      BY <2>4 DEF vars, tables, memory, history
    <3>2. clock <= clock'
      BY <2>1, <3>1, MetricsAssumption DEF MetricsAssumption, IInv, TypeOK
    <3>3. \A s \in Servers, v \in Sighting : Remembers(s, v)' <=> Remembers(s, v)
      BY <3>1 DEF Remembers
    <3> QED
      BY <2>1, <3>1, <3>2, <3>3, NothingLearnt
  <2> QED
    BY <2>2, <2>3, <2>4 DEF Next
<1>3. VisitorsInv => VisitorsCountedOnce
  BY DEF VisitorsInv
<1> QED
  BY <1>1, <1>2, <1>3, Invariance, MemoryInvariance, GraceInvariance, PTL DEF Spec

-----------------------------------------------------------------------------
(***************************************************************************)
(* The answers agree.  The views of a day are those of its pages, because  *)
(* a batch adds to both; the visitors of a day, open or closed, are those  *)
(* of a union over its pages, so no fewer than any page's and no more than *)
(* all pages' together.  What holds of each day holds of their sums, by    *)
(* days or by pages.  And nothing is of a day that has not begun.          *)
(***************************************************************************)
Pages == Routes \ {NOT_FOUND}

\* The views and the visitors that the routes of a day have.
ViewsOn(d) == [r \in Routes |-> page_views[d][r].views]

VisitorsOn(d) == [r \in Routes |-> page_views[d][r].visitors]

\* The row of a day fits its pages.
RowsFit ==
  \A d \in Days :
    /\ d \in DOMAIN daily => daily[d].views = SumOver(ViewsOn(d), Pages)
    /\ d \notin DOMAIN daily => \A r \in Routes : page_views[d][r].views = 0
    /\ IsClosed(daily, d) =>
         /\ \A r \in Pages : page_views[d][r].visitors <= daily[d].visitors
         /\ daily[d].visitors <= SumOver(VisitorsOn(d), Pages)

\* All of a batch is of days up to one.
Begun(b, today) == \A d \in Days : Touches(b, d) => d <= today

ServerBegun(s) ==
  /\ request[s] # None => request[s].day <= day(clock)
  /\ Begun(batch[s], day(clock))
  /\ \A k \in Flushes : flight[s][k] # None => Begun(flight[s][k].batch, day(clock))

\* Nothing that is kept or held is of a day to come.
NoneAhead ==
  /\ \A d \in KeptDays : d <= day(clock)
  /\ \A s \in Servers : ServerBegun(s)

TablesInv == RowsFit /\ NoneAhead

\* There are finitely many pages.
LEMMA PagesFinite == IsFiniteSet(Pages)
  BY MetricsAssumption, FS_Subset DEF MetricsAssumption, Pages

\* What a flush that commits adds to the rows of a day.
LEMMA CommitAdds ==
  ASSUME IInv, NEW f \in Flush, Sound(f.batch), Write(f)
  PROVE  /\ DOMAIN daily' = DOMAIN daily \union TouchedDays(f.batch)
         /\ \A d \in DOMAIN daily' :
              daily'[d].views = Before(d).views + PagesServed(f.batch, d)
         /\ \A d \in Days, r \in Routes :
              page_views'[d][r].views = page_views[d][r].views + f.batch.views[d][r]
<1>1. PICK b : b = f.batch
  OBVIOUS
<1>2. PICK rows : rows = DailyPlus(daily, b)
  OBVIOUS
<1>3. PICK seen : seen = visitor_hashes \union Recorded(rows, b)
  OBVIOUS
<1>4. PICK closing : closing = Closing(rows, OpenUntil(f.now))
  OBVIOUS
<1>5. daily' = [d \in DOMAIN rows |->
        IF d \in closing
          THEN RowClosed(rows[d], Cardinality(HashesOf(seen, d, Routes \ {NOT_FOUND})))
          ELSE rows[d]]
  BY <1>1, <1>2, <1>3, <1>4 DEF Write
<1>6. DOMAIN daily' = DOMAIN daily \union TouchedDays(f.batch)
  BY <1>1, <1>2, <1>5 DEF DailyPlus
<1>7. IsFiniteSet(seen)
  <2>1. IsFiniteSet(b.visitors) /\ Recorded(rows, b) \subseteq b.visitors
    BY <1>1 DEF Sound, Recorded
  <2> QED
    BY <1>3, <2>1, FS_Subset, FS_Union DEF IInv
<1>8. ASSUME NEW d \in DOMAIN rows
      PROVE  daily'[d].views = Before(d).views + PagesServed(b, d)
  <2>1. IsDailyRow(rows[d]) /\ rows[d].views = Before(d).views + PagesServed(b, d)
    <3>1. TypeOK /\ Sound(b) /\ d \in DOMAIN DailyPlus(daily, b)
      BY <1>1, <1>2 DEF IInv
    <3>2. /\ IsDailyRow(DailyPlus(daily, b)[d])
          /\ DailyPlus(daily, b)[d].views = Before(d).views + PagesServed(b, d)
      BY <3>1, DailyPlusRows
    <3> QED
      BY <1>2, <3>2
  <2>2. PICK row, n : row = rows[d] /\ n = Cardinality(HashesOf(seen, d, Routes \ {NOT_FOUND}))
    OBVIOUS
  <2>3. n \in Nat /\ IsDailyRow(row)
    BY <1>7, <2>1, <2>2, HashesCountable
  <2>4. RowClosed(row, n).views = row.views
    BY <2>3, RowClosedIsRow
  <2>5. daily'[d] \in {row, RowClosed(row, n)}
    BY <1>5, <2>2
  <2> QED
    BY <2>1, <2>2, <2>4, <2>5
<1>9. ASSUME NEW d \in Days, NEW r \in Routes
      PROVE  page_views'[d][r].views = page_views[d][r].views + b.views[d][r]
  <2>1. PICK c : c = [of |-> "views", day |-> d, key |-> r]
    OBVIOUS
  <2>2. c \in Cells /\ c.of = "views" /\ c.day = d /\ c.key = r
    BY <2>1 DEF Cells
  <2>3. Count(Stored, c)' = Count(Stored, c) + Count(f.batch, c)
    BY <2>2, WriteStores
  <2>4. /\ Count(Stored, c) = page_views[d][r].views
        /\ Count(Stored, c)' = page_views'[d][r].views
        /\ Count(f.batch, c) = b.views[d][r]
    BY <1>1, <2>2 DEF Count, Stored
  <2> QED
    BY <2>3, <2>4
<1>10. DOMAIN daily' = DOMAIN rows
  BY <1>5
<1> QED
  BY <1>1, <1>6, <1>8, <1>9, <1>10

\* The hashes of a day on all pages are no fewer than those on a page, and no
\* more than those on each page together.
LEMMA HashesOfPages ==
  ASSUME NEW seen, IsFiniteSet(seen), NEW d,
         NEW f, \A r \in Pages : f[r] = Cardinality(HashesOf(seen, d, {r}))
  PROVE  /\ \A r \in Pages : f[r] \in Nat /\ f[r] <= Cardinality(HashesOf(seen, d, Pages))
         /\ Cardinality(HashesOf(seen, d, Pages)) <= SumOver(f, Pages)
         /\ Cardinality(HashesOf(seen, d, Pages)) \in Nat
<1>1. PICK H : H = [r \in Pages |-> HashesOf(seen, d, {r})]
  OBVIOUS
<1>2. PICK all : all = HashesOf(seen, d, Pages)
  OBVIOUS
<1>3. \A r \in Pages : H[r] = HashesOf(seen, d, {r})
  BY <1>1
<1>4. \A h : h \in all <=> \E v \in seen : v.day = d /\ v.route \in Pages /\ v.hash = h
  BY <1>2 DEF HashesOf
<1>5. \A r \in Pages : \A h : h \in H[r] <=> \E v \in seen : v.day = d /\ v.route = r /\ v.hash = h
  BY <1>3 DEF HashesOf
<1>6. all = UNION {H[r] : r \in Pages}
  BY <1>4, <1>5
<1>7. IsFiniteSet(all)
  <2> DEFINE there == {v \in seen : v.day = d /\ v.route \in Pages}
             g == [v \in there |-> v.hash]
  <2>1. IsFiniteSet(there)
    BY FS_Subset
  <2>2. g \in Surjection(there, all)
    BY <1>2 DEF Surjection, HashesOf
  <2> HIDE DEF g, there
  <2> QED
    BY <2>1, <2>2, FS_Surjection
<1>8. ASSUME NEW r \in Pages
      PROVE  /\ H[r] \subseteq all /\ IsFiniteSet(H[r]) /\ f[r] = Cardinality(H[r])
             /\ Cardinality(H[r]) \in Nat /\ Cardinality(H[r]) <= Cardinality(all)
  <2>1. H[r] \subseteq all
    BY <1>6
  <2>2. /\ IsFiniteSet(H[r]) /\ Cardinality(H[r]) <= Cardinality(all)
        /\ Cardinality(H[r]) \in Nat
    BY <1>7, <2>1, FS_Subset, FS_CardinalityType
  <2> QED
    BY <1>3, <2>1, <2>2
<1>9. Cardinality(UNION {H[r] : r \in Pages}) <= SumOver(f, Pages)
  <2>1. \A r \in Pages : IsFiniteSet(H[r])
    BY <1>8
  <2>2. \A r \in Pages : f[r] = Cardinality(H[r])
    BY <1>8
  <2> QED
    BY <2>1, <2>2, PagesFinite, UnionIsAtMostSum
<1>10. Cardinality(all) \in Nat
  BY <1>7, FS_CardinalityType
<1> QED
  BY <1>2, <1>6, <1>8, <1>9, <1>10

\* A flush that commits keeps rows and pages together.
LEMMA CommitFits ==
  ASSUME IInv, IInv', RowsFit, NEW s \in Servers, NEW k \in Flushes, FlushCommits(s, k)
  PROVE  RowsFit'
<1>1. PICK f : f = flight[s][k]
  OBVIOUS
<1>2. f \in Flush /\ Sound(f.batch) /\ Write(f)
  BY <1>1 DEF FlushCommits, IInv, TypeOK
<1>3. PICK b : b = f.batch
  OBVIOUS
<1>4. /\ b \in Batch /\ b.views \in [Days -> [Routes -> Nat]] /\ b.bots \in [Days -> Nat]
  BY <1>2, <1>3 DEF Sound, Batch
<1>5. /\ DOMAIN daily' = DOMAIN daily \union TouchedDays(b)
      /\ \A d \in DOMAIN daily' : daily'[d].views = Before(d).views + PagesServed(b, d)
      /\ \A d \in Days, r \in Routes :
           page_views'[d][r].views = page_views[d][r].views + b.views[d][r]
  BY <1>2, <1>3, CommitAdds
<1>6. /\ page_views \in [Days -> [Routes -> PageRow]]
      /\ page_views' \in [Days -> [Routes -> PageRow]]
  BY DEF IInv, TypeOK
<1>7. Pages \subseteq Routes
  BY DEF Pages
<1>8. ASSUME NEW d \in Days, d \in DOMAIN daily'
      PROVE  daily'[d].views = SumOver(ViewsOn(d)', Pages)
  <2>1. PICK x, y, z : x = ViewsOn(d) /\ y = b.views[d] /\ z = ViewsOn(d)'
    OBVIOUS
  <2>2. \A r \in Pages : x[r] \in Nat /\ y[r] \in Nat /\ z[r] = x[r] + y[r]
    <3> SUFFICES ASSUME NEW r \in Pages
                 PROVE  x[r] \in Nat /\ y[r] \in Nat /\ z[r] = x[r] + y[r]
      OBVIOUS
    <3>1. r \in Routes
      BY <1>7
    <3>2. /\ x[r] = page_views[d][r].views /\ y[r] = b.views[d][r]
          /\ z[r] = page_views'[d][r].views
      BY <2>1, <3>1 DEF ViewsOn
    <3>3. x[r] \in Nat /\ y[r] \in Nat
      BY <1>4, <1>6, <3>1, <3>2 DEF PageRow
    <3> QED
      BY <1>5, <3>1, <3>2, <3>3
  <2>3. SumOver(z, Pages) = SumOver(x, Pages) + SumOver(y, Pages)
    BY <2>2, PagesFinite, SumAdds
  <2>4. PagesServed(b, d) = SumOver(y, Pages)
    BY <1>4, <2>1, PagesServedIsSum DEF Pages
  <2>5. Before(d).views = SumOver(x, Pages)
    <3>1. CASE d \in DOMAIN daily
      BY <2>1, <3>1 DEF Before, RowsFit
    <3>2. CASE d \notin DOMAIN daily
      <4>1. \A r \in Routes : page_views[d][r].views = 0
        BY <3>2 DEF RowsFit
      <4>3. \A r \in Routes : x[r] = page_views[d][r].views
        BY <2>1 DEF ViewsOn
      <4>4. \A r \in Pages : x[r] \in Nat /\ x[r] = 0
        BY <1>7, <4>1, <4>3
      <4>2. SumOver(x, Pages) = 0
        BY <4>4, PagesFinite, SumOfNone
      <4> QED
        BY <3>2, <4>2 DEF Before, NewDay
    <3> QED
      BY <3>1, <3>2
  <2> QED
    BY <1>5, <1>8, <2>1, <2>3, <2>4, <2>5
<1>9. ASSUME NEW d \in Days, d \notin DOMAIN daily', NEW r \in Routes
      PROVE  page_views'[d][r].views = 0
  <2>1. d \notin DOMAIN daily /\ d \notin TouchedDays(b)
    BY <1>5, <1>9
  <2>2. page_views[d][r].views = 0
    BY <2>1 DEF RowsFit
  <2>3. b.views[d][r] \in Nat /\ ~(b.views[d][r] > 0)
    BY <1>4, <2>1 DEF TouchedDays
  <2> QED
    BY <1>5, <2>2, <2>3
<1>10. PICK both : both = visitor_hashes \union f.batch.visitors
  OBVIOUS
<1>11. /\ IsFiniteSet(both)
       /\ \A d \in Days : IsClosed(daily', d) /\ ~IsClosed(daily, d) =>
            /\ daily'[d].visitors = Cardinality(HashesOf(both, d, Routes \ {NOT_FOUND}))
            /\ \A r \in Routes :
                 page_views'[d][r].visitors = Cardinality(HashesOf(both, d, {r}))
  <2>1. TypeOK /\ IsFiniteSet(visitor_hashes) /\ HashesDieWithTheirDay
    BY DEF IInv
  <2>2. LET all == visitor_hashes \union f.batch.visitors
        IN  /\ IsFiniteSet(all)
            /\ \A d \in Days : IsClosed(daily', d) /\ ~IsClosed(daily, d) =>
                 /\ daily'[d].visitors = Cardinality(HashesOf(all, d, Routes \ {NOT_FOUND}))
                 /\ \A r \in Routes :
                      page_views'[d][r].visitors = Cardinality(HashesOf(all, d, {r}))
    BY <1>2, <2>1, CommitCounts
  <2> QED
    BY <1>10, <2>2
<1>12. ASSUME NEW d \in Days, IsClosed(daily', d)
       PROVE  /\ \A r \in Pages : page_views'[d][r].visitors <= daily'[d].visitors
              /\ daily'[d].visitors <= SumOver(VisitorsOn(d)', Pages)
  <2>1. PICK z : z = VisitorsOn(d)'
    OBVIOUS
  <2>2. \A r \in Pages : z[r] = page_views'[d][r].visitors
    BY <1>7, <2>1 DEF VisitorsOn
  <2>3. CASE IsClosed(daily, d)
    <3>1. /\ daily'[d].visitors = daily[d].visitors
          /\ \A r \in Routes : page_views'[d][r].visitors = page_views[d][r].visitors
      BY <2>3, CommitStep
    <3>2. VisitorsOn(d)' = VisitorsOn(d)
      BY <3>1 DEF VisitorsOn
    <3> QED
      BY <1>7, <2>3, <3>1, <3>2 DEF RowsFit
  <2>4. CASE ~IsClosed(daily, d)
    <3>1. /\ daily'[d].visitors = Cardinality(HashesOf(both, d, Pages))
          /\ \A r \in Pages : z[r] = Cardinality(HashesOf(both, d, {r}))
      BY <1>7, <1>11, <1>12, <2>2, <2>4 DEF Pages
    <3>2. /\ \A r \in Pages : z[r] <= Cardinality(HashesOf(both, d, Pages))
          /\ Cardinality(HashesOf(both, d, Pages)) <= SumOver(z, Pages)
      BY <1>11, <3>1, HashesOfPages
    <3> QED
      BY <2>1, <2>2, <3>1, <3>2
  <2> QED
    BY <2>3, <2>4
<1> QED
  BY <1>8, <1>9, <1>12 DEF RowsFit

\* A flush that commits keeps days that were kept or that it touches.
LEMMA CommitKeepsDays ==
  ASSUME IInv, NEW f \in Flush, Sound(f.batch), Write(f), NEW d \in KeptDays'
  PROVE  d \in KeptDays \/ (d \in Days /\ Touches(f.batch, d))
<1>1. PICK b : b = f.batch
  OBVIOUS
<1>2. /\ b.views \in [Days -> [Routes -> Nat]] /\ b.referrers \in [Days -> [Hosts -> Nat]]
  BY <1>1 DEF Sound, Batch
<1>3. page_views \in [Days -> [Routes -> PageRow]] /\ referrers \in [Days -> [Hosts -> Nat]]
  BY DEF IInv, TypeOK
<1>4. \A x, y \in Nat : x + y > 0 => x > 0 \/ y > 0
  OBVIOUS
<1>5. CASE d \in DOMAIN daily'
  <2>1. d \in DOMAIN daily \union TouchedDays(b)
    BY <1>1, <1>5, CommitAdds
  <2>2. d \in TouchedDays(b) => d \in Days /\ Touches(b, d)
    BY DEF TouchedDays, Touches
  <2> QED
    BY <1>1, <2>1, <2>2 DEF KeptDays
<1>6. ASSUME d \in Days, NEW r \in Routes,
             page_views'[d][r].views > 0
      PROVE  d \in KeptDays \/ Touches(b, d)
  <2>1. page_views'[d][r].views = page_views[d][r].views + b.views[d][r]
    BY <1>1, <1>6, CommitAdds
  <2>2. page_views[d][r].views \in Nat /\ b.views[d][r] \in Nat
    BY <1>2, <1>3, <1>6 DEF PageRow
  <2>3. page_views[d][r].views > 0 \/ b.views[d][r] > 0
    BY <1>4, <1>6, <2>1, <2>2
  <2> QED
    BY <1>6, <2>3 DEF KeptDays, Touches
<1>7. ASSUME d \in Days, NEW h \in Hosts, referrers'[d][h] > 0
      PROVE  d \in KeptDays \/ Touches(b, d)
  <2>1. referrers'[d][h] = referrers[d][h] + b.referrers[d][h]
    BY <1>1, <1>3, <1>7 DEF Write, PlusPlus, Plus
  <2>2. referrers[d][h] \in Nat /\ b.referrers[d][h] \in Nat
    BY <1>2, <1>3, <1>7
  <2>3. referrers[d][h] > 0 \/ b.referrers[d][h] > 0
    BY <1>4, <1>7, <2>1, <2>2
  <2> QED
    BY <1>7, <2>3 DEF KeptDays, Touches
<1>8. \/ d \in DOMAIN daily'
      \/ d \in Days /\ \E r \in Routes : page_views'[d][r].views > 0
      \/ d \in Days /\ \E h \in Hosts : referrers'[d][h] > 0
  BY DEF KeptDays
<1> QED
  BY <1>1, <1>5, <1>6, <1>7, <1>8

\* Every step of a server keeps and holds only what has begun.
LEMMA StepBegins ==
  ASSUME MemoryInv, IInv', NoneAhead, NEW s \in Servers, Owed(s) \/ Environment(s)
  PROVE  NoneAhead'
<1> USE DEF vars, tables, memory, history
<1>1. /\ IInv /\ FinalIsLast
      /\ batch \in [Servers -> Batch] /\ flight \in [Servers -> [Flushes -> Flush \union {None}]]
      /\ request \in [Servers -> Request \union {None}]
      /\ \A d \in KeptDays : d <= day(clock)
      /\ \A t \in Servers : ServerBegun(t)
  BY DEF MemoryInv, IInv, TypeOK, NoneAhead
<1>2. /\ clock' = clock
      /\ \A t \in Servers : t # s =>
           batch'[t] = batch[t] /\ flight'[t] = flight[t] /\ request'[t] = request[t]
  BY <1>1, OthersStay
<1>4. \A t \in Servers : t # s => ServerBegun(t)'
  BY <1>1, <1>2 DEF ServerBegun
<1>5. /\ request[s] # None => request[s].day <= day(clock)
      /\ Begun(batch[s], day(clock))
      /\ \A k \in Flushes : flight[s][k] # None => Begun(flight[s][k].batch, day(clock))
  BY <1>1 DEF ServerBegun
<1>6. Begun(EmptyBatch, day(clock))
  BY DEF Begun, Touches, EmptyBatch, NoViews
<1>7. ASSUME /\ request'[s] # None => request'[s].day <= day(clock)
             /\ Begun(batch'[s], day(clock))
             /\ \A k \in Flushes : flight'[s][k] # None => Begun(flight'[s][k].batch, day(clock))
      PROVE  ServerBegun(s)'
  BY <1>2, <1>7 DEF ServerBegun
<1>8. ASSUME CountBot(s) \/ CountKnown(s) \/ SelectSalt(s) \/ SaltFails(s)
      PROVE  ServerBegun(s)'
  <2>1. request[s] # None /\ request'[s] = None /\ flight' = flight
    BY <1>1, <1>8 DEF CountBot, CountKnown, SelectSalt, SaltFails, CountView
  <2>2. \A d \in Days : Touches(batch'[s], d) => Touches(batch[s], d) \/ d = request[s].day
    BY <1>1, <1>8, CountTouches
  <2>3. Begun(batch'[s], day(clock))
    BY <1>5, <2>1, <2>2 DEF Begun
  <2> QED
    BY <1>5, <1>7, <2>1, <2>3
<1>9. ASSUME Arrive(s)
      PROVE  ServerBegun(s)'
  <2>1. batch' = batch /\ flight' = flight
    BY <1>9 DEF Arrive
  <2>2. request'[s].day = day(clock)
    BY <1>1, <1>9 DEF Arrive
  <2>3. day(clock) \in Int /\ day(clock) <= day(clock)
    <3>1. clock \in Int
      BY <1>1, MetricsAssumption DEF IInv, TypeOK, MetricsAssumption
    <3> QED
      BY <3>1, DayMonotone
  <2> QED
    BY <1>5, <1>7, <2>1, <2>2, <2>3
<1>10. ASSUME Abandon(s)
      PROVE  ServerBegun(s)'
  BY <1>1, <1>5, <1>7, <1>10 DEF Abandon
<1>11. ASSUME InsertSalt(s)
      PROVE  ServerBegun(s)'
  <2>1. /\ request[s] # None /\ request'[s] = [request[s] EXCEPT !.step = "select"]
        /\ UNCHANGED <<batch, flight>>
    BY <1>1, <1>11 DEF InsertSalt
  <2>2. request[s] \in Request
    BY <1>1, <2>1
  <2>3. request'[s].day = request[s].day
    BY <2>1, <2>2 DEF Request
  <2> QED
    BY <1>5, <1>7, <2>1, <2>3
<1>12. ASSUME PeriodicFlush(s) \/ FinalFlush(s)
      PROVE  ServerBegun(s)'
  <2>1. PICK k \in Flushes : /\ batch'[s] = EmptyBatch
                             /\ flight'[s] = [flight[s] EXCEPT ![k] =
                                  [batch |-> batch[s], now |-> clock, ticks |-> 0]]
                             /\ request' = request
    BY <1>1, <1>12 DEF PeriodicFlush, FinalFlush, TakeBatch, Flushes
  <2>2. \A j \in Flushes : flight'[s][j] # None => Begun(flight'[s][j].batch, day(clock))
    BY <1>1, <1>5, <2>1
  <2> QED
    BY <1>5, <1>6, <1>7, <2>1, <2>2
<1>13. ASSUME NEW k \in Flushes, FlushCommits(s, k)
       PROVE  ServerBegun(s)'
  BY <1>1, <1>5, <1>7, <1>13 DEF FlushCommits
<1>14. ASSUME NEW k \in Flushes, FlushFails(s, k)
       PROVE  ServerBegun(s)'
  <2>1. /\ flight[s][k] # None /\ batch'[s] = Merge(batch[s], flight[s][k].batch)
        /\ flight'[s] = [flight[s] EXCEPT ![k] = None] /\ request' = request
    BY <1>1, <1>14 DEF FlushFails
  <2>2. batch[s] \in Batch /\ flight[s][k].batch \in Batch
    BY <1>1, <2>1 DEF Flush
  <2>3. Begun(batch'[s], day(clock))
    BY <1>5, <2>1, <2>2, MergeTouches DEF Begun
  <2>4. \A j \in Flushes : flight'[s][j] # None => Begun(flight'[s][j].batch, day(clock))
    BY <1>1, <1>5, <2>1
  <2> QED
    BY <1>5, <1>7, <2>1, <2>3, <2>4
<1>15. ASSUME Terminate(s) \/ Boot(s)
      PROVE  ServerBegun(s)'
  BY <1>5, <1>7, <1>15 DEF Terminate, Boot
<1>16. ASSUME Exit(s) \/ Crash(s)
      PROVE  ServerBegun(s)'
  <2>1. /\ request'[s] = None /\ batch'[s] = EmptyBatch
        /\ flight'[s] = [k \in Flushes |-> None]
    BY <1>1, <1>16 DEF Exit, Crash, Dies
  <2> QED
    BY <1>6, <1>7, <2>1
<1>17. ServerBegun(s)'
  BY <1>8, <1>9, <1>10, <1>11, <1>12, <1>13, <1>14, <1>15, <1>16 DEF Owed, Environment, Flushes
<1>18. \A d \in KeptDays' : d <= day(clock)
  <2>1. CASE \E t \in Servers, k \in Flushes : FlushCommits(t, k)
    <3>1. PICK t \in Servers, k \in Flushes : FlushCommits(t, k)
      BY <2>1
    <3>2. PICK f : f = flight[t][k]
      OBVIOUS
    <3>3. f # None /\ f \in Flush /\ Sound(f.batch) /\ Write(f)
      BY <1>1, <3>1, <3>2 DEF FlushCommits, IInv
    <3>4. Begun(f.batch, day(clock))
      BY <1>1, <3>2, <3>3 DEF ServerBegun
    <3> QED
      BY <1>1, <3>3, <3>4, CommitKeepsDays DEF Begun
  <2>2. CASE ~ \E t \in Servers, k \in Flushes : FlushCommits(t, k)
    <3>1. UNCHANGED <<page_views, daily, referrers>>
      BY <2>2, OnlyCommitsWrite DEF Next
    <3> QED
      BY <1>1, <3>1 DEF KeptDays
  <2> QED
    BY <2>1, <2>2
<1> QED
  BY <1>2, <1>4, <1>17, <1>18 DEF NoneAhead

\* Time takes nothing back.
LEMMA TickBegins ==
  ASSUME IInv, NoneAhead, Tick
  PROVE  NoneAhead'
<1> USE DEF vars, tables, memory, history
<1>1. /\ clock \in Int /\ clock' \in Int /\ clock <= clock'
      /\ UNCHANGED <<batch, page_views, daily, referrers>>
  BY MetricsAssumption DEF Tick, MetricsAssumption, IInv, TypeOK
<1>2. day(clock) \in Int /\ day(clock') \in Int /\ day(clock) <= day(clock')
  BY <1>1, DayMonotone
<1>3. \A d \in Days : d \in Int
  BY MetricsAssumption, DayMonotone DEF Days, MetricsAssumption
<1>4. \A d \in Days : d <= day(clock) => d <= day(clock')
  BY <1>2, <1>3
<1>5. \A b : Begun(b, day(clock)) => Begun(b, day(clock'))
  BY <1>4 DEF Begun
<1>6. ASSUME NEW s \in Servers
      PROVE  ServerBegun(s)'
  <2>1. ServerBegun(s)
    BY DEF NoneAhead
  <2>2. Begun(batch[s], day(clock'))
    BY <1>1, <1>5, <2>1 DEF ServerBegun
  <2>3. ASSUME NEW k \in Flushes, flight'[s][k] # None
        PROVE  Begun(flight'[s][k].batch, day(clock'))
    <3>1. /\ flight[s][k] # None /\ flight[s][k] \in Flush
          /\ flight'[s][k] = [flight[s][k] EXCEPT !.ticks = @ + 1]
      BY <2>3 DEF Tick, IInv, TypeOK
    <3>2. flight'[s][k].batch = flight[s][k].batch
      BY <3>1 DEF Flush
    <3>3. Begun(flight[s][k].batch, day(clock))
      BY <2>1, <3>1 DEF ServerBegun
    <3> QED
      BY <1>5, <3>2, <3>3
  <2>4. ASSUME request'[s] # None
        PROVE  request'[s].day <= day(clock')
    <3>1. /\ request[s] # None /\ request[s] \in Request
          /\ request'[s] = [request[s] EXCEPT !.ticks = @ + 1]
      BY <2>4 DEF Tick, IInv, TypeOK
    <3>2. request'[s].day = request[s].day /\ request[s].day \in Days
      BY <3>1 DEF Request
    <3> QED
      BY <1>4, <2>1, <3>1, <3>2 DEF ServerBegun
  <2> QED
    BY <1>1, <2>2, <2>3, <2>4 DEF ServerBegun
<1>7. KeptDays' = KeptDays
  BY <1>1 DEF KeptDays
<1>8. KeptDays \subseteq Days
  BY DEF KeptDays, IInv, TypeOK
<1> QED
  BY <1>4, <1>6, <1>7, <1>8 DEF NoneAhead

\* There are finitely many days, numbers all.
LEMMA DaysFinite == IsFiniteSet(Days) /\ Days \subseteq Nat
<1>1. MaxClock \in Nat /\ DAY_TICKS \in Nat \ {0}
  BY MetricsAssumption DEF MetricsAssumption
<1> DEFINE ticks == 0 .. MaxClock
           g == [t \in ticks |-> day(t)]
<1>2. IsFiniteSet(ticks)
  BY <1>1, FS_Interval
<1>3. g \in Surjection(ticks, Days)
  BY DEF Surjection, Days
<1>4. IsFiniteSet(Days)
  <2> HIDE DEF g, ticks
  <2> QED
    BY <1>2, <1>3, FS_Surjection
<1>5. ASSUME NEW t \in 0 .. MaxClock
      PROVE  day(t) \in Nat
  <2>1. t \in Nat
    BY <1>1
  <2> QED
    BY <1>1, <2>1 DEF day
<1> QED
  BY <1>4, <1>5 DEF Days

\* The totals of the rows of a table are those of its columns, whether they are
\* of the sums of each row or of something between each term of it and its sum.
LEMMA TotalsAgree ==
  ASSUME NEW D, IsFiniteSet(D), NEW kept \in SUBSET D, NEW F \in [D -> [Pages -> Nat]],
         \A d \in D : d \notin kept => \A r \in Pages : F[d][r] = 0,
         NEW w, \A d \in kept : w[d] \in Nat /\ w[d] <= SumOver(F[d], Pages)
  PROVE  /\ SumOver(w, kept) <= SumOver(ColumnSums(F, D, Pages), Pages)
         /\ (\A d \in kept : w[d] = SumOver(F[d], Pages)) =>
              SumOver(w, kept) = SumOver(ColumnSums(F, D, Pages), Pages)
<1>1. IsFiniteSet(kept)
  BY FS_Subset
<1>2. PICK rows : rows = RowSums(F, D, Pages)
  OBVIOUS
<1>3. ASSUME NEW d \in D
      PROVE  rows[d] \in Nat /\ rows[d] = SumOver(F[d], Pages) /\ (d \notin kept => rows[d] = 0)
  <2>1. PICK f : f = F[d]
    OBVIOUS
  <2>2. \A r \in Pages : f[r] \in Nat
    BY <2>1
  <2>3. SumOver(f, Pages) \in Nat
    BY <2>2, PagesFinite, SumType
  <2>4. rows[d] = SumOver(f, Pages)
    BY <1>2, <2>1 DEF RowSums
  <2>5. CASE d \notin kept
    <3>1. \A r \in Pages : f[r] = 0
      BY <2>1, <2>5
    <3>2. SumOver(f, Pages) = 0
      BY <2>2, <3>1, PagesFinite, SumOfNone
    <3> QED
      BY <2>1, <2>4, <2>5, <3>2
  <2> QED
    BY <2>1, <2>3, <2>4, <2>5
<1>4. SumOver(rows, D) = SumOver(rows, kept)
  <2>1. /\ \A d \in D : rows[d] \in Nat
        /\ \A d \in D : d \notin kept => rows[d] = 0
    BY <1>3
  <2> QED
    BY <2>1, SumWithin
<1>5. SumOver(rows, D) = SumOver(ColumnSums(F, D, Pages), Pages)
  BY <1>2, PagesFinite, SumSwaps
<1>6. SumOver(w, kept) <= SumOver(rows, kept)
  <2>1. /\ \A d \in kept : w[d] \in Nat /\ rows[d] \in Nat
        /\ \A d \in kept : w[d] <= rows[d]
    BY <1>3
  <2> QED
    BY <1>1, <2>1, SumGrows
<1>7. ASSUME \A d \in kept : w[d] = SumOver(F[d], Pages)
      PROVE  SumOver(w, kept) = SumOver(rows, kept)
  <2>1. \A d \in kept : w[d] \in Nat /\ w[d] = rows[d]
    BY <1>3, <1>7
  <2> QED
    BY <1>1, <2>1, SumOfSame
<1> QED
  BY <1>4, <1>5, <1>6, <1>7

\* A column of terms no greater than the totals of its rows is no greater.
LEMMA ColumnsAreLess ==
  ASSUME NEW D, IsFiniteSet(D), NEW kept \in SUBSET D, NEW F \in [D -> [Pages -> Nat]],
         NEW r \in Pages, \A d \in D : d \notin kept => F[d][r] = 0,
         NEW w, \A d \in kept : w[d] \in Nat /\ F[d][r] <= w[d]
  PROVE  ColumnSums(F, D, Pages)[r] <= SumOver(w, kept)
<1>1. IsFiniteSet(kept)
  BY FS_Subset
<1>2. PICK f : f = [d \in D |-> F[d][r]]
  OBVIOUS
<1>3. /\ \A d \in D : f[d] \in Nat
      /\ \A d \in D : d \notin kept => f[d] = 0
  BY <1>2
<1>4. SumOver(f, D) = SumOver(f, kept)
  BY <1>3, SumWithin
<1>5. SumOver(f, kept) <= SumOver(w, kept)
  <2>1. /\ \A d \in kept : f[d] \in Nat /\ w[d] \in Nat
        /\ \A d \in kept : f[d] <= w[d]
    BY <1>2, <1>3
  <2> QED
    BY <1>1, <2>1, SumGrows
<1>6. ColumnSums(F, D, Pages)[r] = SumOver(f, D)
  BY <1>2 DEF ColumnSums
<1> QED
  BY <1>4, <1>5, <1>6

\* The sightings of a day on a page are as many as their hashes.
LEMMA SightingsAreHashes ==
  ASSUME NEW seen, IsFiniteSet(seen), seen \subseteq Sighting, NEW d, NEW r
  PROVE  Cardinality({v \in seen : v.day = d /\ v.route = r}) = Cardinality(HashesOf(seen, d, {r}))
<1> DEFINE there == {v \in seen : v.day = d /\ v.route = r}
           hashes == HashesOf(seen, d, {r})
           g == [v \in there |-> v.hash]
<1>1. IsFiniteSet(there)
  BY FS_Subset
<1>2. \A h : h \in hashes <=> \E v \in there : v.hash = h
  BY DEF HashesOf
<1>3. \A v, u \in there : v.hash = u.hash => v = u
  BY DEF Sighting
<1>4. g \in Bijection(there, hashes)
  <2>1. /\ \A v \in there : g[v] \in hashes
        /\ \A v, u \in there : g[v] = g[u] => v = u
        /\ \A h \in hashes : \E v \in there : g[v] = h
    BY <1>2, <1>3
  <2>2. g \in [there -> hashes]
    BY <2>1
  <2> HIDE DEF there, hashes, g
  <2> QED
    BY <2>1, <2>2 DEF Bijection, Injection, Surjection, IsInjective
<1> HIDE DEF there, hashes, g
<1>5. Cardinality(hashes) = Cardinality(there)
  BY <1>1, <1>4, FS_Bijection DEF ExistsBijection
<1> QED
  BY <1>5 DEF there, hashes

\* The visitors of a day are between those of any of its pages and those of all
\* its pages together; a day without a row has none.
LEMMA DaysFit ==
  ASSUME IInv, RowsFit, NEW d \in Days,
         NEW f, f = [r \in Pages |-> PageVisitors(d, r)]
  PROVE  /\ f \in [Pages -> Nat]
         /\ d \notin DOMAIN daily => \A r \in Pages : f[r] = 0
         /\ d \in DOMAIN daily => /\ DailyVisitors(d) \in Nat
                                  /\ DailyVisitors(d) <= SumOver(f, Pages)
                                  /\ \A r \in Pages : f[r] <= DailyVisitors(d)
<1>1. /\ IsFiniteSet(visitor_hashes) /\ visitor_hashes \subseteq Sighting
      /\ page_views \in [Days -> [Routes -> PageRow]]
      /\ \A e \in DOMAIN daily : IsDailyRow(daily[e])
      /\ \A v \in visitor_hashes : v.day \in DOMAIN daily
      /\ Pages \subseteq Routes
  BY DEF IInv, TypeOK, HashesDieWithTheirDay, IsOpen, Pages
<1>2. CASE IsClosed(daily, d)
  <2>1. \A r \in Pages : f[r] = page_views[d][r].visitors
    BY <1>2 DEF PageVisitors
  <2>2. \A r \in Pages : page_views[d][r].visitors \in Nat
    BY <1>1 DEF PageRow
  <2>3. d \in DOMAIN daily /\ daily[d].visitors \in Nat /\ DailyVisitors(d) = daily[d].visitors
    BY <1>1, <1>2 DEF IsClosed, IsDailyRow, DailyVisitors
  <2>4. /\ \A r \in Pages : page_views[d][r].visitors <= daily[d].visitors
        /\ daily[d].visitors <= SumOver(VisitorsOn(d), Pages)
    BY <1>2 DEF RowsFit
  <2>5. PICK g : g = VisitorsOn(d)
    OBVIOUS
  <2>6. \A r \in Pages : g[r] \in Nat /\ g[r] = f[r]
    BY <1>1, <2>1, <2>2, <2>5 DEF VisitorsOn
  <2>7. SumOver(g, Pages) = SumOver(f, Pages)
    BY <2>6, PagesFinite, SumOfSame
  <2> QED
    BY <2>1, <2>2, <2>3, <2>4, <2>5, <2>7
<1>3. CASE ~IsClosed(daily, d)
  <2>1. \A r \in Pages : f[r] = Cardinality(HashesOf(visitor_hashes, d, {r}))
    <3> SUFFICES ASSUME NEW r \in Pages
                 PROVE  f[r] = Cardinality(HashesOf(visitor_hashes, d, {r}))
      OBVIOUS
    <3>1. f[r] = Cardinality({v \in visitor_hashes : v.day = d /\ v.route = r})
      BY <1>3 DEF PageVisitors
    <3> QED
      BY <1>1, <3>1, SightingsAreHashes
  <2>2. PICK all : all = Cardinality(HashesOf(visitor_hashes, d, Pages))
    OBVIOUS
  <2>3. /\ \A r \in Pages : f[r] \in Nat /\ f[r] <= all
        /\ all <= SumOver(f, Pages) /\ all \in Nat
    BY <1>1, <2>1, <2>2, HashesOfPages
  <2>4. ASSUME d \in DOMAIN daily
        PROVE  DailyVisitors(d) = all
    <3>1. ~daily[d].closed
      BY <1>3, <2>4 DEF IsClosed
    <3>2. {v \in visitor_hashes : v.day = d /\ v.route # NOT_FOUND}
            = {v \in visitor_hashes : v.day = d /\ v.route \in Pages}
      BY <1>1 DEF Pages, Sighting
    <3> QED
      BY <2>2, <3>1, <3>2 DEF DailyVisitors, HashesOf
  <2>5. ASSUME d \notin DOMAIN daily, NEW r \in Pages
        PROVE  f[r] = 0
    <3>1. HashesOf(visitor_hashes, d, {r}) = {}
      BY <1>1, <2>5 DEF HashesOf
    <3> QED
      BY <2>1, <3>1, FS_EmptySet
  <2>6. f \in [Pages -> Nat]
    BY <2>3
  <2> QED
    BY <2>3, <2>4, <2>5, <2>6
<1> QED
  BY <1>2, <1>3

\* The whole period leaves out nothing that is kept.
LEMMA AllIsAll ==
  ASSUME IInv, NoneAhead
  PROVE  KeptDays \subseteq DaysOf(All)
<1>1. PICK today : today = day(clock)
  OBVIOUS
<1>2. KeptDays \subseteq Nat /\ today \in Nat
  <2>1. KeptDays \subseteq Days /\ clock \in 0 .. MaxClock
    BY DEF KeptDays, IInv, TypeOK
  <2>2. today \in Days
    BY <1>1, <2>1 DEF Days
  <2> QED
    BY <2>1, <2>2, DaysFinite
<1>3. PICK all : all = KeptDays \union {today}
  OBVIOUS
<1>4. Min(all) \in all /\ \A d \in all : Min(all) <= d
  <2>1. all \in SUBSET Nat /\ all # {}
    BY <1>2, <1>3
  <2>2. \E n \in all : \A m \in all : n <= m
    BY <2>1, LeastNumber
  <2> QED
    BY <2>2 DEF Min
<1>5. DaysOf(All) = Min(all) .. today
  BY <1>1, <1>3 DEF DaysOf
<1>6. \A d \in KeptDays : d <= today
  BY <1>1 DEF NoneAhead
<1>7. PICK first : first = Min(all)
  OBVIOUS
<1>8. /\ first \in Nat
      /\ \A d \in KeptDays : first <= d
  BY <1>2, <1>3, <1>4, <1>7
<1> QED
  BY <1>2, <1>5, <1>6, <1>7, <1>8

\* The answers of some days agree.
LEMMA AnswersAgree ==
  ASSUME IInv, RowsFit, NEW days, NEW items, items = Restrict(PageMetrics(days), Pages),
         NEW total, total = DailyMetrics(days)
  PROVE  /\ total.views = SumFunction([r \in DOMAIN items |-> items[r].views])
         /\ \A r \in DOMAIN items : items[r].visitors <= total.visitors
         /\ total.visitors <= SumFunction([r \in DOMAIN items |-> items[r].visitors])
<1>1. PICK D : D = days \intersect Days
  OBVIOUS
<1>2. PICK kept : kept = days \intersect DOMAIN daily
  OBVIOUS
<1>3. /\ DOMAIN daily \subseteq Days /\ Pages \subseteq Routes
      /\ page_views \in [Days -> [Routes -> PageRow]]
      /\ \A d \in DOMAIN daily : IsDailyRow(daily[d])
  BY DEF IInv, TypeOK, Pages
<1>4. /\ IsFiniteSet(D) /\ D \subseteq Days /\ kept \in SUBSET D
      /\ \A d \in D : d \notin kept => d \notin DOMAIN daily
  BY <1>1, <1>2, <1>3, DaysFinite, FS_Subset
<1>5. DOMAIN items = Pages
  BY DEF Restrict
<1>6. \A r \in Pages :
        /\ items[r].views = SumFunction([d \in D |-> page_views[d][r].views])
        /\ items[r].visitors = SumFunction([d \in D |-> PageVisitors(d, r)])
  BY <1>1, <1>3 DEF Restrict, PageMetrics
<1>7. /\ total.views = SumFunction([d \in kept |-> DailyViews(d)])
      /\ total.visitors = SumFunction([d \in kept |-> DailyVisitors(d)])
  BY <1>2 DEF DailyMetrics
<1>8. total.views = SumFunction([r \in DOMAIN items |-> items[r].views])
  <2>1. PICK F : F = [d \in D |-> [r \in Pages |-> page_views[d][r].views]]
    OBVIOUS
  <2>2. PICK w : w = [d \in kept |-> DailyViews(d)]
    OBVIOUS
  <2>3. F \in [D -> [Pages -> Nat]]
    BY <1>3, <1>4, <2>1 DEF PageRow
  <2>4. ASSUME NEW d \in D, d \notin kept, NEW r \in Pages
        PROVE  F[d][r] = 0
    <3>1. page_views[d][r].views = 0
      BY <1>3, <1>4, <2>4 DEF RowsFit
    <3> QED
      BY <2>1, <3>1
  <2>5. ASSUME NEW d \in kept
        PROVE  w[d] \in Nat /\ w[d] = SumOver(F[d], Pages) /\ w[d] <= SumOver(F[d], Pages)
    <3>1. d \in D /\ d \in DOMAIN daily /\ d \in Days
      BY <1>2, <1>4
    <3>2. w[d] = daily[d].views /\ w[d] \in Nat
      BY <1>3, <2>2, <3>1 DEF DailyViews, IsDailyRow
    <3>3. daily[d].views = SumOver(ViewsOn(d), Pages)
      BY <3>1 DEF RowsFit
    <3>4. PICK f, g : f = F[d] /\ g = ViewsOn(d)
      OBVIOUS
    <3>5. \A r \in Pages : f[r] \in Nat /\ f[r] = g[r]
      BY <1>3, <2>1, <2>3, <3>1, <3>4 DEF ViewsOn
    <3>6. SumOver(f, Pages) = SumOver(g, Pages)
      BY <3>5, PagesFinite, SumOfSame
    <3>7. w[d] = SumOver(F[d], Pages)
      BY <3>2, <3>3, <3>4, <3>6
    <3> QED
      BY <3>2, <3>7
  <2>6. SumOver(w, kept) = SumOver(ColumnSums(F, D, Pages), Pages)
    <3>1. /\ \A d \in D : d \notin kept => \A r \in Pages : F[d][r] = 0
          /\ \A d \in kept : w[d] \in Nat /\ w[d] <= SumOver(F[d], Pages)
          /\ \A d \in kept : w[d] = SumOver(F[d], Pages)
      BY <2>4, <2>5
    <3> QED
      BY <1>4, <2>3, <3>1, TotalsAgree
  <2>7. total.views = SumOver(w, kept)
    BY <1>7, <2>2, SumOfFunction
  <2>8. ColumnSums(F, D, Pages) = [r \in DOMAIN items |-> items[r].views]
    <3>1. ASSUME NEW r \in Pages
          PROVE  ColumnSums(F, D, Pages)[r] = items[r].views
      <4>1. [d \in D |-> F[d][r]] = [d \in D |-> page_views[d][r].views]
        BY <2>1
      <4>2. ColumnSums(F, D, Pages)[r] = SumOver([d \in D |-> F[d][r]], D)
        BY DEF ColumnSums
      <4>3. PICK f : f = [d \in D |-> page_views[d][r].views]
        OBVIOUS
      <4>4. SumFunction(f) = SumOver(f, D)
        BY <4>3, SumOfFunction
      <4> QED
        BY <1>6, <4>1, <4>2, <4>3, <4>4
    <3>2. ColumnSums(F, D, Pages) = [r \in Pages |-> ColumnSums(F, D, Pages)[r]]
      BY DEF ColumnSums
    <3> QED
      BY <1>5, <3>1, <3>2
  <2>9. PICK f : f = [r \in DOMAIN items |-> items[r].views]
    OBVIOUS
  <2>10. SumFunction(f) = SumOver(f, Pages)
    BY <1>5, <2>9, SumOfFunction
  <2> QED
    BY <2>6, <2>7, <2>8, <2>9, <2>10
<1>9. /\ \A r \in DOMAIN items : items[r].visitors <= total.visitors
      /\ total.visitors <= SumFunction([r \in DOMAIN items |-> items[r].visitors])
  <2>1. PICK F : F = [d \in D |-> [r \in Pages |-> PageVisitors(d, r)]]
    OBVIOUS
  <2>2. PICK w : w = [d \in kept |-> DailyVisitors(d)]
    OBVIOUS
  <2>3. ASSUME NEW d \in D
        PROVE  /\ F[d] \in [Pages -> Nat]
               /\ d \notin kept => \A r \in Pages : F[d][r] = 0
               /\ d \in kept => /\ w[d] \in Nat /\ w[d] <= SumOver(F[d], Pages)
                                /\ \A r \in Pages : F[d][r] <= w[d]
    <3>1. PICK f : f = [r \in Pages |-> PageVisitors(d, r)]
      OBVIOUS
    <3>2. F[d] = f /\ d \in Days /\ (d \in kept => d \in DOMAIN daily /\ w[d] = DailyVisitors(d))
          /\ (d \notin kept => d \notin DOMAIN daily)
      BY <1>2, <1>4, <2>1, <2>2, <3>1
    <3>3. /\ f \in [Pages -> Nat]
          /\ d \notin DOMAIN daily => \A r \in Pages : f[r] = 0
          /\ d \in DOMAIN daily => /\ DailyVisitors(d) \in Nat
                                   /\ DailyVisitors(d) <= SumOver(f, Pages)
                                   /\ \A r \in Pages : f[r] <= DailyVisitors(d)
      BY <3>1, <3>2, DaysFit
    <3> QED
      BY <3>2, <3>3
  <2>4. /\ F \in [D -> [Pages -> Nat]]
        /\ \A d \in D : d \notin kept => \A r \in Pages : F[d][r] = 0
        /\ \A d \in kept : w[d] \in Nat /\ w[d] <= SumOver(F[d], Pages)
        /\ \A d \in kept : \A r \in Pages : F[d][r] <= w[d]
    <3>1. F = [d \in D |-> F[d]]
      BY <2>1
    <3>2. \A d \in kept : d \in D
      BY <1>4
    <3> QED
      BY <2>3, <3>1, <3>2
  <2>5. SumOver(w, kept) <= SumOver(ColumnSums(F, D, Pages), Pages)
    BY <1>4, <2>4, TotalsAgree
  <2>6. \A r \in Pages : ColumnSums(F, D, Pages)[r] <= SumOver(w, kept)
    <3> SUFFICES ASSUME NEW r \in Pages
                 PROVE  ColumnSums(F, D, Pages)[r] <= SumOver(w, kept)
      OBVIOUS
    <3>1. /\ \A d \in D : d \notin kept => F[d][r] = 0
          /\ \A d \in kept : w[d] \in Nat /\ F[d][r] <= w[d]
      BY <2>4
    <3> QED
      BY <1>4, <2>4, <3>1, ColumnsAreLess
  <2>7. total.visitors = SumOver(w, kept)
    BY <1>7, <2>2, SumOfFunction
  <2>8. ASSUME NEW r \in Pages
        PROVE  ColumnSums(F, D, Pages)[r] = items[r].visitors
    <3>1. [d \in D |-> F[d][r]] = [d \in D |-> PageVisitors(d, r)]
      BY <2>1
    <3>2. ColumnSums(F, D, Pages)[r] = SumOver([d \in D |-> F[d][r]], D)
      BY DEF ColumnSums
    <3>3. PICK f : f = [d \in D |-> PageVisitors(d, r)]
      OBVIOUS
    <3>4. SumFunction(f) = SumOver(f, D)
      BY <3>3, SumOfFunction
    <3> QED
      BY <1>6, <3>1, <3>2, <3>3, <3>4
  <2>9. ColumnSums(F, D, Pages) = [r \in DOMAIN items |-> items[r].visitors]
    <3>1. ColumnSums(F, D, Pages) = [r \in Pages |-> ColumnSums(F, D, Pages)[r]]
      BY DEF ColumnSums
    <3> QED
      BY <1>5, <2>8, <3>1
  <2>10. PICK f : f = [r \in DOMAIN items |-> items[r].visitors]
    OBVIOUS
  <2>11. SumFunction(f) = SumOver(f, Pages)
    BY <1>5, <2>10, SumOfFunction
  <2> QED
    BY <1>5, <2>5, <2>6, <2>7, <2>8, <2>9, <2>10, <2>11
<1> QED
  BY <1>8, <1>9

\* Whatever period is asked for, days and pages agree, and all of it has
\* everything (`daily_metrics` and `page_metrics`, between any two steps).
THEOREM PeriodsAgree == Spec => []TablesAgree
<1>1. Init => TablesInv
  <2> SUFFICES ASSUME Init PROVE TablesInv
    OBVIOUS
  <2>1. DOMAIN daily = {} /\ KeptDays = {}
    <3>1. DOMAIN daily = {}
      BY DEF Init
    <3>2. \A d \in Days : /\ \A r \in Routes : ~(page_views[d][r].views > 0)
                          /\ \A h \in Hosts : ~(referrers[d][h] > 0)
      BY DEF Init, EmptyBatch
    <3> QED
      BY <3>1, <3>2 DEF KeptDays
  <2>2. RowsFit
    <3>1. \A d \in Days, r \in Routes : page_views[d][r].views = 0
      BY DEF Init
    <3> QED
      BY <2>1, <3>1 DEF RowsFit, IsClosed
  <2>3. \A s \in Servers : ServerBegun(s)
    <3>1. \A d \in Days : ~Touches(EmptyBatch, d)
      BY DEF Touches, EmptyBatch, NoViews
    <3> QED
      BY <3>1 DEF Init, ServerBegun, Begun
  <2> QED
    BY <2>1, <2>2, <2>3 DEF TablesInv, NoneAhead
<1>2. MemoryInv /\ IInv' /\ TablesInv /\ [Next]_vars => TablesInv'
  <2> SUFFICES ASSUME MemoryInv, IInv', TablesInv, [Next]_vars
               PROVE  TablesInv'
    OBVIOUS
  <2>1. IInv /\ RowsFit /\ NoneAhead
    BY DEF MemoryInv, TablesInv
  <2>2. RowsFit'
    <3>1. CASE \E s \in Servers, k \in Flushes : FlushCommits(s, k)
      BY <2>1, <3>1, CommitFits
    <3>2. CASE ~ \E s \in Servers, k \in Flushes : FlushCommits(s, k)
      <4>1. UNCHANGED <<page_views, daily, referrers>>
        BY <3>2, OnlyCommitsWrite
      <4> QED
        BY <2>1, <4>1 DEF RowsFit, ViewsOn, VisitorsOn
    <3> QED
      BY <3>1, <3>2
  <2>3. NoneAhead'
    <3>1. ASSUME NEW s \in Servers, Owed(s) \/ Environment(s)
          PROVE  NoneAhead'
      BY <2>1, <3>1, StepBegins
    <3>2. CASE Tick
      BY <2>1, <3>2, TickBegins
    <3>3. CASE UNCHANGED vars
      BY <2>1, <3>3 DEF vars, tables, memory, history, NoneAhead, KeptDays, ServerBegun
    <3> QED
      BY <3>1, <3>2, <3>3 DEF Next
  <2> QED
    BY <2>2, <2>3 DEF TablesInv
<1>3. IInv /\ TablesInv => TablesAgree
  <2> SUFFICES ASSUME IInv, RowsFit, NoneAhead
               PROVE  TablesAgree
    BY DEF TablesInv
  <2>1. KeptDays \subseteq DaysOf(All)
    BY AllIsAll
  <2>2. ASSUME NEW since \in Sinces
        PROVE  LET days == DaysOf(since)
                   items == Restrict(PageMetrics(days), Routes \ {NOT_FOUND})
                   total == DailyMetrics(days)
               IN /\ total.views = SumFunction([r \in DOMAIN items |-> items[r].views])
                  /\ \A r \in DOMAIN items : items[r].visitors <= total.visitors
                  /\ total.visitors <= SumFunction([r \in DOMAIN items |-> items[r].visitors])
    <3>1. PICK days : days = DaysOf(since)
      OBVIOUS
    <3>2. PICK items, total : /\ items = Restrict(PageMetrics(days), Pages)
                              /\ total = DailyMetrics(days)
      OBVIOUS
    <3>3. /\ total.views = SumFunction([r \in DOMAIN items |-> items[r].views])
          /\ \A r \in DOMAIN items : items[r].visitors <= total.visitors
          /\ total.visitors <= SumFunction([r \in DOMAIN items |-> items[r].visitors])
      BY <3>2, AnswersAgree
    <3> QED
      BY <3>1, <3>2, <3>3 DEF Pages
  <2> QED
    BY <2>1, <2>2 DEF TablesAgree
<1> QED
  BY <1>1, <1>2, <1>3, Invariance, MemoryInvariance, PTL DEF Spec

=============================================================================
