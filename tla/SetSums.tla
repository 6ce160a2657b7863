------------------------------- MODULE SetSums -------------------------------
(***************************************************************************)
(* Sums over finite sets.  MapThenSumSet adds the elements up in an order  *)
(* of its own, by recursion; these lemmas relate it to counting, which     *)
(* knows no order: a set of weighted elements has as many units as the     *)
(* weights sum up to.                                                      *)
(***************************************************************************)
EXTENDS FiniteSetsExt, FiniteSetTheorems, WellFoundedInduction, TLAPS

Units(S, w) == {p \in S \X Nat : p[2] < w[p[1]]}

\* What the recursion of MapThenSumSet says of the function it defines
Pick(S) == CHOOSE x \in S : TRUE
IsSum(f, S, w) ==
    f = [T \in SUBSET S |-> IF T = {} THEN 0 ELSE w[Pick(T)] + f[T \ {Pick(T)}]]

\* Induction over the subsets of a finite set, Q being those it is shown for.
LEMMA SubsetInduction ==
    ASSUME NEW S, IsFiniteSet(S), NEW Q,
           \A T \in SUBSET S : (\A x \in T : T \ {x} \in Q) => T \in Q
    PROVE  S \in Q
  <1> DEFINE R   == StrictSubsetOrdering(S)
             all == SUBSET S
             bad == all \ Q
  <1> SUFFICES ASSUME S \notin Q PROVE FALSE
    OBVIOUS
  <1>1. IsWellFoundedOn(R, all)
    BY FS_StrictSubsetOrderingWellFounded, FS_FiniteSubsetsOfFinite
  <1>2. bad \subseteq all /\ bad # {}
    OBVIOUS
  <1> HIDE DEF R, all, bad
  <1>3. PICK T \in bad : \A U \in bad : ~ (<<U, T>> \in R)
    BY <1>1, <1>2, WFMin
  <1>4. T \subseteq S /\ T \notin Q
    BY <1>3 DEF bad, all
  <1>5. ASSUME NEW x \in T PROVE T \ {x} \in Q
    <2>1. <<T \ {x}, T>> \in R
      BY <1>4, <1>5 DEF R, StrictSubsetOrdering
    <2> QED  BY <1>3, <1>4, <2>1 DEF bad, all
  <1> QED  BY <1>4, <1>5

\* One more element has its weight in units.
LEMMA UnitsAdd ==
    ASSUME NEW S, NEW w, NEW x \in S, w[x] \in Nat, IsFiniteSet(Units(S \ {x}, w))
    PROVE  /\ IsFiniteSet(Units(S, w))
           /\ Cardinality(Units(S, w)) = Cardinality(Units(S \ {x}, w)) + w[x]
  <1> DEFINE rest == Units(S \ {x}, w)
             own  == {x} \X (0 .. w[x] - 1)
  <1>1. Units(S, w) = rest \cup own /\ rest \cap own = {}
    BY DEF Units
  <1>2. IsFiniteSet(own) /\ Cardinality(own) = w[x]
    <2> DEFINE counts == 0 .. w[x] - 1
    <2>1. IsFiniteSet(counts) /\ Cardinality(counts) = w[x]
      <3>1. 0 \in Int /\ w[x] - 1 \in Int /\ (0 > w[x] - 1 => w[x] = 0) /\ (w[x] - 1) - 0 + 1 = w[x]
        OBVIOUS
      <3>2. /\ IsFiniteSet(0 .. (w[x] - 1))
            /\ Cardinality(0 .. (w[x] - 1)) = IF 0 > w[x] - 1 THEN 0 ELSE (w[x] - 1) - 0 + 1
        BY <3>1, FS_Interval, Zenon
      <3> QED  BY <3>1, <3>2
    <2>2. IsFiniteSet({x}) /\ Cardinality({x}) = 1
      BY FS_Singleton
    <2> HIDE DEF counts
    <2>3. /\ Cardinality({x} \X counts) = Cardinality({x}) * Cardinality(counts)
          /\ IsFiniteSet({x} \X counts)
      BY <2>1, <2>2, FS_Product, Zenon
    <2>4. Cardinality(own) = 1 * w[x] /\ IsFiniteSet(own)
      BY <2>1, <2>2, <2>3 DEF counts
    <2> QED  BY <2>4
  <1> HIDE DEF rest, own
  <1>3. IsFiniteSet(rest)
    BY DEF rest
  <1>4. Cardinality(rest \cap own) = 0
    BY <1>1, FS_EmptySet
  <1>5. Cardinality(rest \cup own) = Cardinality(rest) + Cardinality(own) - 0 /\ IsFiniteSet(rest \cup own)
    BY <1>2, <1>3, <1>4, FS_Union
  <1>6. Cardinality(rest) \in Nat
    BY <1>3, FS_CardinalityType
  <1> QED  BY <1>1, <1>2, <1>5, <1>6 DEF rest

\* The units of a finite set are finitely many.
LEMMA UnitsFinite ==
    ASSUME NEW S, IsFiniteSet(S), NEW w, \A x \in S : w[x] \in Nat
    PROVE  IsFiniteSet(Units(S, w)) /\ Cardinality(Units(S, w)) \in Nat
  <1> DEFINE Q == {T \in SUBSET S : IsFiniteSet(Units(T, w))}
  <1>1. ASSUME NEW T \in SUBSET S, \A x \in T : T \ {x} \in Q PROVE T \in Q
    <2>1. CASE T = {}
      <3>1. Units(T, w) = {}
        BY <2>1 DEF Units
      <3> QED  BY <3>1, FS_EmptySet
    <2>2. CASE T # {}
      <3>1. PICK x \in T : TRUE
        BY <2>2
      <3>2. IsFiniteSet(Units(T \ {x}, w)) /\ w[x] \in Nat
        BY <1>1, <3>1
      <3> QED  BY <3>1, <3>2, UnitsAdd
    <2> QED  BY <2>1, <2>2
  <1> HIDE DEF Q
  <1>2. S \in Q
    BY <1>1, SubsetInduction
  <1> QED  BY <1>2, FS_CardinalityType DEF Q

\* No more than so many elements of at most this weight have.
LEMMA UnitsBound ==
    ASSUME NEW S, IsFiniteSet(S), NEW w, NEW k \in Nat,
           \A x \in S : w[x] \in Nat /\ w[x] <= k
    PROVE  Cardinality(Units(S, w)) <= Cardinality(S) * k
  <1> DEFINE counts == 0 .. k - 1
  <1>1. IsFiniteSet(counts) /\ Cardinality(counts) = k
    BY FS_Interval
  <1>2. Units(S, w) \in SUBSET (S \X counts)
    BY DEF Units
  <1> HIDE DEF counts
  <1>3. /\ IsFiniteSet(S \X counts)
        /\ Cardinality(S \X counts) = Cardinality(S) * Cardinality(counts)
    BY <1>1, FS_Product, Zenon
  <1>4. Cardinality(Units(S, w)) <= Cardinality(S \X counts)
    BY <1>2, <1>3, FS_Subset
  <1> QED  BY <1>1, <1>3, <1>4

\* Counting units solves the recursion, ...
LEMMA CountIsSum ==
    ASSUME NEW S, IsFiniteSet(S), NEW w, \A x \in S : w[x] \in Nat
    PROVE  IsSum([T \in SUBSET S |-> Cardinality(Units(T, w))], S, w)
  <1> DEFINE f == [T \in SUBSET S |-> Cardinality(Units(T, w))]
  <1>1. ASSUME NEW T \in SUBSET S, T = {} PROVE f[T] = 0
    <2>1. Units(T, w) = {}
      BY <1>1 DEF Units
    <2> QED  BY <2>1, FS_EmptySet
  <1>2. ASSUME NEW T \in SUBSET S, T # {} PROVE f[T] = w[Pick(T)] + f[T \ {Pick(T)}]
    <2>1. Pick(T) \in T
      BY <1>2 DEF Pick
    <2>2. IsFiniteSet(T \ {Pick(T)})
      BY FS_Subset
    <2>3. IsFiniteSet(Units(T \ {Pick(T)}, w)) /\ Cardinality(Units(T \ {Pick(T)}, w)) \in Nat
      BY <2>2, UnitsFinite
    <2>4. Cardinality(Units(T, w)) = Cardinality(Units(T \ {Pick(T)}, w)) + w[Pick(T)]
      BY <2>1, <2>3, UnitsAdd
    <2> QED  BY <2>1, <2>3, <2>4
  <1> HIDE DEF Pick
  <1> QED  BY <1>1, <1>2 DEF IsSum

\* ... and nothing else does.
LEMMA SumIsCount ==
    ASSUME NEW S, IsFiniteSet(S), NEW w, \A x \in S : w[x] \in Nat, NEW f, IsSum(f, S, w)
    PROVE  f[S] = Cardinality(Units(S, w))
  <1> DEFINE g == [T \in SUBSET S |-> Cardinality(Units(T, w))]
             Q == {T \in SUBSET S : f[T] = g[T]}
  <1>1. IsSum(g, S, w)
    BY CountIsSum
  <1>2. g[S] = Cardinality(Units(S, w))
    OBVIOUS
  <1> HIDE DEF g
  <1>3. ASSUME NEW T \in SUBSET S, \A x \in T : T \ {x} \in Q PROVE T \in Q
    <2>1. T # {} => Pick(T) \in T
      BY DEF Pick
    <2>2. /\ f[T] = IF T = {} THEN 0 ELSE w[Pick(T)] + f[T \ {Pick(T)}]
          /\ g[T] = IF T = {} THEN 0 ELSE w[Pick(T)] + g[T \ {Pick(T)}]
      BY <1>1 DEF IsSum
    <2> QED  BY <1>3, <2>1, <2>2
  <1> HIDE DEF Q
  <1>4. S \in Q
    BY <1>3, SubsetInduction
  <1> QED  BY <1>2, <1>4 DEF Q

\* MapThenSumSet counts units.
LEMMA SumUnits ==
    ASSUME NEW S, IsFiniteSet(S), NEW w, \A x \in S : w[x] \in Nat
    PROVE  MapThenSumSet(LAMBDA x : w[x], S) = Cardinality(Units(S, w))
  <1> DEFINE f == CHOOSE g : IsSum(g, S, w)
  <1>1. IsSum(f, S, w)
    BY CountIsSum
  <1>2. MapThenSumSet(LAMBDA x : w[x], S) = f[S]
    BY DEF MapThenSumSet, MapThenFoldSet, IsSum, Pick
  <1> HIDE DEF f
  <1> QED  BY <1>1, <1>2, SumIsCount
=============================================================================
