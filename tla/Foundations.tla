----------------------------- MODULE Foundations -----------------------------
(***************************************************************************)
(* Facts about data that the proofs of several modules rest on.            *)
(*                                                                         *)
(* Induction, stated about sets so that the provers can use it: over the   *)
(* subsets of a finite set, over an interval of integers, and recursion    *)
(* over an interval, which yields the functions that CHOOSE picks for a    *)
(* recursive definition.  The greatest and the least number of a finite    *)
(* set.  SumFunctionOnSet(f, S), the sum of f[x] over the members x of a   *)
(* finite set S, for natural-valued f: RiskLedger adds up with it the      *)
(* reservations that release_reservation and sweep_expired give back.  Its *)
(* fold is a recursive function over the subsets of S; the sum is shown to *)
(* be the size of a set, and everything else follows from the library's    *)
(* facts about cardinalities.                                              *)
(***************************************************************************)
EXTENDS Integers, FiniteSets, FiniteSetsExt, Functions, FiniteSetTheorems, WellFoundedInduction, TLAPS

-----------------------------------------------------------------------------
(* Induction *)

\* Induction over the subsets of a finite set S, for a property given as the
\* set G of the subsets that have it: a subset has it when its proper subsets do.
LEMMA SubsetInduction ==
  ASSUME NEW S, IsFiniteSet(S), NEW G,
         \A T \in SUBSET S : (\A U \in SUBSET T : U # T => U \in G) => T \in G
  PROVE  SUBSET S \subseteq G
<1> DEFINE Bad == (SUBSET S) \ G
<1> SUFFICES ASSUME Bad # {} PROVE FALSE
  OBVIOUS
<1>1. IsWellFoundedOn(StrictSubsetOrdering(S), SUBSET S)
  <2> HIDE DEF Bad
  <2>1. IsWellFoundedOn(StrictSubsetOrdering(S), FiniteSubsetsOf(S))
    BY FS_StrictSubsetOrderingWellFounded
  <2>2. FiniteSubsetsOf(S) = SUBSET S
    BY FS_FiniteSubsetsOfFinite
  <2> QED BY <2>1, <2>2
<1>2. Bad \subseteq SUBSET S
  OBVIOUS
<1>3. PICK T \in Bad : \A U \in Bad : ~ (<<U, T>> \in StrictSubsetOrdering(S))
  <2> HIDE DEF Bad
  <2> QED BY <1>1, <1>2, WFMin
<1>4. ASSUME NEW U \in SUBSET T, U # T PROVE U \in G
  <2>1. <<U, T>> \in StrictSubsetOrdering(S)
    BY <1>4 DEF StrictSubsetOrdering
  <2> QED BY <1>3, <2>1
<1> QED BY <1>4

\* A set of natural numbers has a least element.
LEMMA LeastElement ==
  ASSUME NEW T \in SUBSET Nat, T # {}
  PROVE  \E x \in T : \A y \in T : x <= y
<1> DEFINE R == OpToRel(<, Nat)
<1>1. IsWellFoundedOn(R, Nat)
  BY NatLessThanWellFounded
<1>2. \A x, y \in Nat : <<x, y>> \in R <=> x < y
  BY DEF OpToRel
<1> HIDE DEF R
<1>3. PICK x \in T : \A y \in T : ~ (<<y, x>> \in R)
  BY <1>1, WFMin
<1>4. ASSUME NEW y \in T PROVE x <= y
  <2>1. x \in Nat /\ y \in Nat /\ ~(y < x)
    BY <1>2, <1>3
  <2> QED BY <2>1
<1> QED BY <1>4

\* A set that holds the first number of an interval and with each the next holds all.
LEMMA IntervalInduction ==
  ASSUME NEW a \in Int, NEW b \in Int, NEW T,
         a \in T, \A m \in (a + 1)..b : m - 1 \in T => m \in T
  PROVE  \A m \in a..b : m \in T
<1> DEFINE W == {n \in Nat : a + n <= b /\ a + n \notin T}
<1> SUFFICES ASSUME W # {} PROVE FALSE
  <2>1. ASSUME NEW m \in a..b, m \notin T PROVE m - a \in W
    BY <2>1
  <2> QED BY <2>1
<1>1. PICK x \in W : \A y \in W : x <= y
  BY LeastElement
<1>2. x \in Nat /\ a + x <= b /\ a + x \notin T
  BY <1>1
<1>3. x # 0
  BY <1>2
<1>4. x - 1 \in Nat /\ x - 1 \notin W
  BY <1>1, <1>2, <1>3
<1>5. (a + x) - 1 \in T
  BY <1>2, <1>4
<1>6. a + x \in (a + 1)..b
  BY <1>2, <1>3
<1> QED BY <1>2, <1>5, <1>6

\* Primitive recursion from a to b: f steps from c through its values.
Steps(a, b, S) == [(a + 1)..b -> [S -> S]]
Recurs(f, a, b, c, step) == f[a] = c /\ \A m \in (a + 1)..b : f[m] = step[m][f[m - 1]]

\* There is such a function.
LEMMA IntervalRecursion ==
  ASSUME NEW a \in Int, NEW b \in Int, a <= b, NEW S, NEW c \in S,
         NEW step \in Steps(a, b, S)
  PROVE  \E f \in [a..b -> S] : Recurs(f, a, b, c, step)
<1> DEFINE Upto(n) == \E f \in [a..n -> S] :
                        f[a] = c /\ \A m \in (a + 1)..n : f[m] = step[m][f[m - 1]]
           T == {n \in a..b : Upto(n)}
<1>1. a \in T
  <2>1. [m \in a..a |-> c] \in [a..a -> S]
    OBVIOUS
  <2>2. [m \in a..a |-> c][a] = c /\ (a + 1)..a = {}
    OBVIOUS
  <2>3. Upto(a)
    BY <2>1, <2>2
  <2> QED BY <2>3
<1>2. ASSUME NEW n \in (a + 1)..b, n - 1 \in T PROVE n \in T
  <2>1. PICK f \in [a..(n - 1) -> S] :
          f[a] = c /\ \A m \in (a + 1)..(n - 1) : f[m] = step[m][f[m - 1]]
    BY <1>2
  <2> DEFINE g == [m \in a..n |-> IF m = n THEN step[n][f[n - 1]] ELSE f[m]]
  <2>2. f[n - 1] \in S /\ step[n][f[n - 1]] \in S
    BY DEF Steps
  <2>3. g \in [a..n -> S]
    BY <2>2
  <2>4. g[a] = c
    BY <2>1
  <2>5. ASSUME NEW m \in (a + 1)..n PROVE g[m] = step[m][g[m - 1]]
    <3>1. m - 1 \in a..n /\ m - 1 # n
      OBVIOUS
    <3>2. g[m - 1] = f[m - 1]
      BY <3>1
    <3>3. CASE m = n
      BY <3>2, <3>3
    <3>4. CASE m # n
      BY <2>1, <3>2, <3>4
    <3> QED BY <3>3, <3>4
  <2> HIDE DEF g
  <2>6. Upto(n)
    BY <2>3, <2>4, <2>5
  <2> QED BY <2>6
<1> HIDE DEF T
<1>3. \A m \in (a + 1)..b : m - 1 \in T => m \in T
  BY <1>2
<1>4. \A m \in a..b : m \in T
  BY <1>1, <1>3, IntervalInduction
<1>5. b \in T
  BY <1>4
<1> QED BY <1>5 DEF T, Recurs

-----------------------------------------------------------------------------
(* Greatest and least numbers *)

\* A finite set of numbers has a greatest element.
LEMMA GreatestElement ==
  ASSUME NEW S \in SUBSET Int, IsFiniteSet(S), S # {}
  PROVE  \E x \in S : \A y \in S : x >= y
<1> DEFINE n == Cardinality(S)
           Has(U) == U # {} => \E x \in U : \A y \in U : x >= y
           T == {k \in 0..n : \A U \in SUBSET S : Cardinality(U) = k => Has(U)}
<1>1. n \in Nat
  BY FS_CardinalityType
<1>2. 0 \in T
  <2>1. ASSUME NEW U \in SUBSET S, Cardinality(U) = 0 PROVE U = {}
    <3>1. IsFiniteSet(U)
      BY FS_Subset
    <3> QED BY <2>1, <3>1, FS_EmptySet
  <2> HIDE DEF n
  <2>2. \A U \in SUBSET S : Cardinality(U) = 0 => Has(U)
    BY <2>1
  <2>3. 0 \in 0..n
    BY <1>1
  <2> QED BY <2>2, <2>3
<1>3. ASSUME NEW k \in (0 + 1)..n, k - 1 \in T PROVE k \in T
  <2>1. ASSUME NEW U \in SUBSET S, Cardinality(U) = k PROVE Has(U)
    <3>1. IsFiniteSet(U)
      BY FS_Subset
    <3>2. PICK u \in U : TRUE
      <4> HIDE DEF n
      <4>1. Cardinality(U) # 0
        BY <1>1, <2>1
      <4>2. U # {}
        BY <4>1, FS_EmptySet
      <4> QED BY <4>2
    <3>3. Cardinality(U \ {u}) = k - 1 /\ U \ {u} \in SUBSET S
      BY <2>1, <3>1, <3>2, FS_RemoveElement
    <3>4. Has(U \ {u})
      <4> HIDE DEF Has
      <4> QED BY <1>3, <3>3
    <3>5. CASE U = {u}
      BY <3>5
    <3>6. CASE U # {u}
      <4>1. PICK x \in U \ {u} : \A y \in U \ {u} : x >= y
        BY <3>4, <3>6
      <4>2. x \in Int /\ u \in Int /\ \A y \in U : y = u \/ x >= y
        BY <3>2, <4>1
      <4>3. CASE x >= u
        BY <4>1, <4>2, <4>3
      <4>4. CASE u > x
        BY <3>2, <4>1, <4>2, <4>4
      <4> QED BY <4>2, <4>3, <4>4
    <3> QED BY <3>5, <3>6
  <2> QED BY <2>1
<1> HIDE DEF T, n
<1>4. n \in T
  BY <1>1, <1>2, <1>3, IntervalInduction
<1>5. Has(S)
  BY <1>4 DEF T, n
<1> QED BY <1>5

\* What Max chooses.
LEMMA MaxFacts ==
  ASSUME NEW S \in SUBSET Int, IsFiniteSet(S), S # {}
  PROVE  Max(S) \in S /\ \A y \in S : Max(S) >= y
BY GreatestElement DEF Max

\* What Min chooses.
LEMMA MinFacts ==
  ASSUME NEW S \in SUBSET Int, IsFiniteSet(S), S # {}
  PROVE  Min(S) \in S /\ \A y \in S : Min(S) <= y
<1> DEFINE f == [x \in S |-> -x]
           N == {-x : x \in S}
<1>1. f \in Surjection(S, N)
  BY DEF Surjection
<1>2. IsFiniteSet(N)
  <2> HIDE DEF f, N
  <2> QED BY <1>1, FS_Surjection
<1>3. N \in SUBSET Int /\ N # {}
  OBVIOUS
<1>4. PICK z \in N : \A y \in N : z >= y
  <2> HIDE DEF N
  <2> QED BY <1>2, <1>3, GreatestElement
<1>5. -z \in S /\ z \in Int
  BY <1>4
<1>6. ASSUME NEW y \in S PROVE -z <= y
  <2>1. -y \in N /\ y \in Int
    OBVIOUS
  <2>2. z >= -y
    BY <1>4, <2>1
  <2> QED BY <1>5, <2>1, <2>2
<1> HIDE DEF N
<1>7. \E x \in S : \A y \in S : x <= y
  BY <1>5, <1>6
<1> QED BY <1>7 DEF Min

\* The greatest number of a set is the one that is at least every other.
LEMMA MaxIs ==
  ASSUME NEW S \in SUBSET Int, NEW x \in S, \A y \in S : y <= x
  PROVE  Max(S) = x
<1>1. Max(S) \in S /\ \A y \in S : Max(S) >= y
  <2>1. \A y \in S : x >= y
    OBVIOUS
  <2> QED BY <2>1 DEF Max
<1>2. Max(S) \in Int /\ x \in Int /\ Max(S) >= x /\ Max(S) <= x
  BY <1>1
<1> QED BY <1>2
LEMMA MinIs ==
  ASSUME NEW S \in SUBSET Int, NEW x \in S, \A y \in S : x <= y
  PROVE  Min(S) = x
<1>1. Min(S) \in S /\ \A y \in S : Min(S) <= y
  <2>1. \A y \in S : x <= y
    OBVIOUS
  <2> QED BY <2>1 DEF Min
<1>2. Min(S) \in Int /\ x \in Int /\ Min(S) >= x /\ Min(S) <= x
  BY <1>1
<1> QED BY <1>2

-----------------------------------------------------------------------------
(* Sums *)

\* One element for every unit f counts at a member of S.
Units(f, S) == UNION {{x} \X (1 .. f[x]) : x \in S}

IsCount(f, S) == \A x \in S : f[x] \in Nat

\* Adding a member adds its units.
LEMMA UnitsStep ==
  ASSUME NEW f, NEW S, NEW x \in S
  PROVE  /\ Units(f, S) = Units(f, S \ {x}) \cup ({x} \X (1 .. f[x]))
         /\ Units(f, S \ {x}) \cap ({x} \X (1 .. f[x])) = {}
BY DEF Units

\* The units of one member: as many as f says.
LEMMA UnitsOfOne ==
  ASSUME NEW x, NEW n \in Nat
  PROVE  IsFiniteSet({x} \X (1 .. n)) /\ Cardinality({x} \X (1 .. n)) = n
<1>1. IsFiniteSet({x}) /\ Cardinality({x}) = 1
  BY FS_Singleton
<1>2. IsFiniteSet(1 .. n) /\ Cardinality(1 .. n) = n
  BY FS_Interval
<1>3. /\ IsFiniteSet({x} \X (1 .. n))
      /\ Cardinality({x} \X (1 .. n)) = Cardinality({x}) * Cardinality(1 .. n)
  BY <1>1, <1>2, FS_Product
<1> QED BY <1>1, <1>2, <1>3

\* A finite set has finitely many units.
LEMMA UnitsFinite ==
  ASSUME NEW S, IsFiniteSet(S), NEW f, IsCount(f, S)
  PROVE  IsFiniteSet(Units(f, S))
<1> DEFINE G == {T \in SUBSET S : IsFiniteSet(Units(f, T))}
<1>1. ASSUME NEW T \in SUBSET S, \A U \in SUBSET T : U # T => U \in G
      PROVE  T \in G
  <2>1. CASE T = {}
    <3>1. Units(f, T) = {}
      BY <2>1 DEF Units
    <3> QED BY <3>1, FS_EmptySet
  <2>2. CASE T # {}
    <3>1. PICK x \in T : TRUE
      BY <2>2
    <3>2. IsFiniteSet(Units(f, T \ {x}))
      BY <1>1
    <3>3. f[x] \in Nat
      BY DEF IsCount
    <3>4. IsFiniteSet({x} \X (1 .. f[x]))
      BY <3>3, UnitsOfOne
    <3>5. IsFiniteSet(Units(f, T \ {x}) \cup ({x} \X (1 .. f[x])))
      BY <3>2, <3>4, FS_Union
    <3> QED BY <3>5, UnitsStep
  <2> QED BY <2>1, <2>2
<1>2. SUBSET S \subseteq G
  <2> HIDE DEF G
  <2> QED BY <1>1, SubsetInduction
<1> QED BY <1>2

\* Adding a member to the set adds its count to the size.
LEMMA CardinalityStep ==
  ASSUME NEW S, IsFiniteSet(S), NEW f, IsCount(f, S), NEW x \in S
  PROVE  /\ Cardinality(Units(f, S \ {x})) \in Nat
         /\ Cardinality(Units(f, S)) = f[x] + Cardinality(Units(f, S \ {x}))
<1>1. IsFiniteSet(S \ {x}) /\ IsCount(f, S \ {x})
  BY FS_RemoveElement DEF IsCount
<1>2. IsFiniteSet(Units(f, S \ {x}))
  BY <1>1, UnitsFinite
<1>3. f[x] \in Nat
  BY DEF IsCount
<1>4. IsFiniteSet({x} \X (1 .. f[x])) /\ Cardinality({x} \X (1 .. f[x])) = f[x]
  BY <1>3, UnitsOfOne
<1>5. Cardinality(Units(f, S)) = Cardinality(Units(f, S \ {x})) + f[x] - Cardinality({})
  BY <1>2, <1>4, UnitsStep, FS_Union
<1>6. Cardinality(Units(f, S \ {x})) \in Nat
  BY <1>2, FS_CardinalityType
<1> QED BY <1>3, <1>5, <1>6, FS_EmptySet

\* The fold of the library computes the number of units.
LEMMA SumIsCardinality ==
  ASSUME NEW S, IsFiniteSet(S), NEW f, IsCount(f, S)
  PROVE  SumFunctionOnSet(f, S) = Cardinality(Units(f, S))
<1> DEFINE pick(T) == CHOOSE x \in T : TRUE
           Folds(h) == h = [T \in SUBSET S |->
                              IF T = {} THEN 0 ELSE f[pick(T)] + h[T \ {pick(T)}]]
           iter == CHOOSE h : Folds(h)
           g == [T \in SUBSET S |-> Cardinality(Units(f, T))]
<1>1. SumFunctionOnSet(f, S) = iter[S]
  BY DEF SumFunctionOnSet, FoldFunctionOnSet, MapThenFoldSet
<1>2. ASSUME NEW T \in SUBSET S PROVE IsFiniteSet(T) /\ IsCount(f, T)
  BY FS_Subset DEF IsCount
<1>3. Cardinality(Units(f, {})) = 0
  <2>1. Units(f, {}) = {}
    BY DEF Units
  <2> QED BY <2>1, FS_EmptySet
<1>4. ASSUME NEW T \in SUBSET S, T # {}
      PROVE  pick(T) \in T /\ T \ {pick(T)} \in SUBSET S
  BY <1>4
<1>5. Folds(g)
  <2>1. ASSUME NEW T \in SUBSET S
        PROVE  g[T] = IF T = {} THEN 0 ELSE f[pick(T)] + g[T \ {pick(T)}]
    <3>1. CASE T = {}
      BY <1>3, <3>1
    <3>2. CASE T # {}
      <4> HIDE DEF pick
      <4>1. Cardinality(Units(f, T)) = f[pick(T)] + Cardinality(Units(f, T \ {pick(T)}))
        BY <1>2, <1>4, <3>2, CardinalityStep
      <4> QED BY <1>4, <3>2, <4>1
    <3> QED BY <3>1, <3>2
  <2> HIDE DEF pick
  <2> QED BY <2>1
<1>6. Folds(iter)
  <2> HIDE DEF Folds, g
  <2> QED BY <1>5
<1> DEFINE G == {T \in SUBSET S : iter[T] = Cardinality(Units(f, T))}
<1>7. ASSUME NEW T \in SUBSET S, \A U \in SUBSET T : U # T => U \in G
      PROVE  T \in G
  <2> DEFINE smaller == T \ {pick(T)}
  <2>1. iter[T] = IF T = {} THEN 0 ELSE f[pick(T)] + iter[smaller]
    <3> HIDE DEF iter, pick
    <3> QED BY <1>6
  <2>2. CASE T = {}
    BY <1>3, <2>1, <2>2
  <2>3. CASE T # {}
    <3>1. iter[smaller] = Cardinality(Units(f, smaller))
      <4> HIDE DEF iter
      <4> QED BY <1>4, <1>7, <2>3
    <3>2. Cardinality(Units(f, T)) = f[pick(T)] + Cardinality(Units(f, smaller))
      <4> HIDE DEF pick
      <4> QED BY <1>2, <1>4, <2>3, CardinalityStep
    <3> HIDE DEF iter, pick
    <3> QED BY <2>1, <2>3, <3>1, <3>2
  <2> QED BY <2>2, <2>3
<1>8. SUBSET S \subseteq G
  <2> HIDE DEF G
  <2> QED BY <1>7, SubsetInduction
<1>9. iter[S] = Cardinality(Units(f, S))
  <2> HIDE DEF iter
  <2> QED BY <1>8
<1> QED BY <1>1, <1>9

\* What the ledger needs: sums of naturals are naturals,
THEOREM SumType ==
  ASSUME NEW S, IsFiniteSet(S), NEW f, IsCount(f, S)
  PROVE  SumFunctionOnSet(f, S) \in Nat
BY SumIsCardinality, UnitsFinite, FS_CardinalityType

\* a sum of zeros is zero,
THEOREM SumOfZeros ==
  ASSUME NEW S, IsFiniteSet(S), NEW f, \A x \in S : f[x] = 0
  PROVE  SumFunctionOnSet(f, S) = 0
<1>1. IsCount(f, S)
  BY DEF IsCount
<1>2. Units(f, S) = {}
  BY DEF Units
<1> QED BY <1>1, <1>2, SumIsCardinality, FS_EmptySet

\* a sum over no one is zero and over one is its count,
THEOREM SumOfOne ==
  ASSUME NEW f, NEW x, f[x] \in Nat
  PROVE  SumFunctionOnSet(f, {}) = 0 /\ SumFunctionOnSet(f, {x}) = f[x]
<1>1. Units(f, {}) = {}
  BY DEF Units
<1>2. IsFiniteSet({}) /\ IsCount(f, {}) /\ Cardinality({}) = 0
  BY FS_EmptySet DEF IsCount
<1>3. SumFunctionOnSet(f, {}) = 0
  BY <1>1, <1>2, SumIsCardinality
<1>4. IsFiniteSet({x}) /\ IsCount(f, {x})
  BY FS_Singleton DEF IsCount
<1>5. Units(f, {x}) = {x} \X (1 .. f[x])
  BY DEF Units
<1>6. SumFunctionOnSet(f, {x}) = f[x]
  <2>1. SumFunctionOnSet(f, {x}) = Cardinality({x} \X (1 .. f[x]))
    BY <1>4, <1>5, SumIsCardinality
  <2>2. Cardinality({x} \X (1 .. f[x])) = f[x]
    BY UnitsOfOne
  <2> QED BY <2>1, <2>2
<1> QED BY <1>3, <1>6

\* a sum depends on the counts of the members only,
THEOREM SumEqual ==
  ASSUME NEW S, IsFiniteSet(S), NEW f, IsCount(f, S), NEW g,
         \A x \in S : g[x] = f[x]
  PROVE  SumFunctionOnSet(g, S) = SumFunctionOnSet(f, S)
<1>1. Units(g, S) = Units(f, S)
  BY DEF Units
<1>2. IsCount(g, S)
  BY DEF IsCount
<1> QED BY <1>1, <1>2, SumIsCardinality

\* a sum splits along any partition of the set,
THEOREM SumSplit ==
  ASSUME NEW S, IsFiniteSet(S), NEW f, IsCount(f, S), NEW T \in SUBSET S
  PROVE  SumFunctionOnSet(f, S) = SumFunctionOnSet(f, T) + SumFunctionOnSet(f, S \ T)
<1>1. /\ IsFiniteSet(T) /\ IsCount(f, T)
      /\ IsFiniteSet(S \ T) /\ IsCount(f, S \ T)
  BY FS_Subset, FS_Difference DEF IsCount
<1>2. IsFiniteSet(Units(f, T)) /\ IsFiniteSet(Units(f, S \ T))
  BY <1>1, UnitsFinite
<1>3. Units(f, S) = Units(f, T) \cup Units(f, S \ T)
  BY DEF Units
<1>4. Units(f, T) \cap Units(f, S \ T) = {}
  BY DEF Units
<1>5. Cardinality(Units(f, S)) =
        Cardinality(Units(f, T)) + Cardinality(Units(f, S \ T)) - Cardinality({})
  BY <1>2, <1>3, <1>4, FS_Union
<1>6. Cardinality(Units(f, T)) \in Nat /\ Cardinality(Units(f, S \ T)) \in Nat
  BY <1>2, FS_CardinalityType
<1>7. Cardinality(Units(f, S)) = Cardinality(Units(f, T)) + Cardinality(Units(f, S \ T))
  BY <1>5, <1>6, FS_EmptySet
<1> QED BY <1>1, <1>7, SumIsCardinality

\* in particular into one member and the others,
THEOREM SumWithout ==
  ASSUME NEW S, IsFiniteSet(S), NEW f, IsCount(f, S), NEW p \in S
  PROVE  SumFunctionOnSet(f, S) = f[p] + SumFunctionOnSet(f, S \ {p})
<1>1. {p} \in SUBSET S /\ f[p] \in Nat
  BY DEF IsCount
<1>2. SumFunctionOnSet(f, S) = SumFunctionOnSet(f, {p}) + SumFunctionOnSet(f, S \ {p})
  BY <1>1, SumSplit
<1>3. SumFunctionOnSet(f, {p}) = f[p]
  BY <1>1, SumOfOne
<1> QED BY <1>2, <1>3

\* and changing the count of one member changes the sum by the difference.
THEOREM SumChange ==
  ASSUME NEW S, IsFiniteSet(S), NEW f, IsCount(f, S), NEW g, NEW p \in S,
         g[p] \in Nat, \A x \in S \ {p} : g[x] = f[x]
  PROVE  SumFunctionOnSet(g, S) = SumFunctionOnSet(f, S) - f[p] + g[p]
<1>1. IsCount(g, S)
  BY DEF IsCount
<1>2. IsFiniteSet(S \ {p}) /\ IsCount(f, S \ {p}) /\ f[p] \in Nat
  BY FS_RemoveElement DEF IsCount
<1>3. SumFunctionOnSet(g, S \ {p}) = SumFunctionOnSet(f, S \ {p})
  BY <1>2, SumEqual
<1>4. SumFunctionOnSet(f, S) = f[p] + SumFunctionOnSet(f, S \ {p})
  BY SumWithout
<1>5. SumFunctionOnSet(g, S) = g[p] + SumFunctionOnSet(g, S \ {p})
  BY <1>1, SumWithout
<1>6. SumFunctionOnSet(f, S \ {p}) \in Nat
  BY <1>2, SumType
<1> QED BY <1>2, <1>3, <1>4, <1>5, <1>6
=============================================================================
