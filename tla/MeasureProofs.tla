----------------------------- MODULE MeasureProofs -----------------------------
(***************************************************************************)
(* Proofs about the EQ pane for every grid, room, bound and number of      *)
(* chips: AUTO EQ and SUGGEST (EqAllocator) end and offer only filters     *)
(* that may be placed, on whatever measurement, target, filters and        *)
(* declined bands the pane (EqWorkflow) holds; ADOPT takes only what       *)
(* VERIFY heard.  Proofs about Alignment for every arrival, period, dwell  *)
(* and number of runs: a capture hears one side, and the instruction       *)
(* aligns the two.  Proofs about Publishing for every configuration, rate, *)
(* limit, window and number of steps: a snapshot is of one configuration,  *)
(* its positions are its routes, and the API is true to it and bounded.    *)
(***************************************************************************)
EXTENDS EqWorkflow, Alignment, Publishing, FiniteSetTheorems, SequenceTheorems, WellFoundedInduction, TLAPS

\* Every nonempty set of naturals has a least element.
LEMMA LeastNat ==
  ASSUME NEW S \in SUBSET Nat, S # {}
  PROVE  \E x \in S : \A y \in S : x <= y
<1> DEFINE R == OpToRel(<, Nat)
<1>1. IsWellFoundedOn(R, Nat)
  BY NatLessThanWellFounded
<1>2. PICK x \in S : \A y \in S : ~ (<<y, x>> \in R)
  <2> HIDE DEF R
  <2> QED BY <1>1, WFMin
<1>3. ASSUME NEW y \in S PROVE x <= y
  <2>1. y \in Nat /\ x \in Nat
    OBVIOUS
  <2>2. ~(y < x)
    BY <1>2, <2>1 DEF OpToRel
  <2> QED BY <2>1, <2>2
<1> QED BY <1>3

-------------------------------------------------------------------------------
(* Sums. *)

\* One turn of the sum over a set of places: g is the sum of the smaller sets.
SumTurn(f, g, s) == IF s = {} THEN 0 ELSE f[CHOOSE x \in s : TRUE] + g[s \ {CHOOSE x \in s : TRUE}]

\* The subsets of S with at most n members.
Small(S, n) == {s \in SUBSET S : Cardinality(s) <= n}

\* A smaller set: what the turn leaves of a nonempty one.
LEMMA SmallTurn ==
  ASSUME NEW S, IsFiniteSet(S), NEW s \in SUBSET S, s # {}
  PROVE  /\ IsFiniteSet(s) /\ Cardinality(s) \in Nat \ {0}
         /\ (CHOOSE x \in s : TRUE) \in s
         /\ s \ {CHOOSE x \in s : TRUE} \in SUBSET S
         /\ Cardinality(s \ {CHOOSE x \in s : TRUE}) = Cardinality(s) - 1
<1> DEFINE c == CHOOSE x \in s : TRUE
<1>1. IsFiniteSet(s)
  BY FS_Subset
<1>2. c \in s
  OBVIOUS
<1> HIDE DEF c
<1>3. Cardinality(s) \in Nat /\ Cardinality(s) # 0
  BY <1>1, FS_CardinalityType, FS_EmptySet
<1>4. Cardinality(s \ {c}) = Cardinality(s) - 1
  BY <1>1, <1>2, FS_RemoveElement
<1> QED BY <1>1, <1>2, <1>3, <1>4 DEF c

\* The sum over the sets of at most n places exists, and it is an integer.
LEMMA SumExists ==
  ASSUME NEW f, IsFiniteSet(DOMAIN f), \A x \in DOMAIN f : f[x] \in Int, NEW n \in Nat
  PROVE  \E g : g \in [Small(DOMAIN f, n) -> Int] /\ \A s \in Small(DOMAIN f, n) : g[s] = SumTurn(f, g, s)
<1> DEFINE D == DOMAIN f
           Good(m) == \E g : g \in [Small(D, m) -> Int] /\ \A s \in Small(D, m) : g[s] = SumTurn(f, g, s)
           Bad == {m \in Nat : ~Good(m)}
<1>1. SUFFICES ASSUME Bad # {} PROVE FALSE
  OBVIOUS
<1>2. PICK m \in Bad : \A y \in Bad : m <= y
  BY <1>1, LeastNat
<1>3. m \in Nat /\ ~Good(m)
  OBVIOUS
<1>4. CASE m = 0
  <2> DEFINE g == [s \in Small(D, 0) |-> 0]
  <2>1. ASSUME NEW s \in Small(D, 0) PROVE s = {}
    <3>1. IsFiniteSet(s) /\ Cardinality(s) \in Nat /\ Cardinality(s) <= 0
      BY FS_Subset, FS_CardinalityType DEF Small
    <3> QED BY <3>1, FS_EmptySet
  <2>2. \A s \in Small(D, 0) : g[s] = SumTurn(f, g, s)
    BY <2>1 DEF SumTurn
  <2>3. g \in [Small(D, 0) -> Int]
    OBVIOUS
  <2> QED BY <1>3, <1>4, <2>2, <2>3
<1>5. CASE m # 0
  <2>1. m - 1 \in Nat /\ Good(m - 1)
    BY <1>2, <1>3, <1>5
  <2>2. PICK g : g \in [Small(D, m - 1) -> Int] /\ \A s \in Small(D, m - 1) : g[s] = SumTurn(f, g, s)
    BY <2>1
  <2> DEFINE h == [s \in Small(D, m) |-> SumTurn(f, g, s)]
  <2>3. ASSUME NEW s \in Small(D, m), s # {}
        PROVE  s \ {CHOOSE x \in s : TRUE} \in Small(D, m - 1) /\ (CHOOSE x \in s : TRUE) \in D
    <3>1. s \in SUBSET D /\ Cardinality(s) <= m
      BY DEF Small
    <3>2. Cardinality(s) \in Nat /\ (CHOOSE x \in s : TRUE) \in s /\ s \ {CHOOSE x \in s : TRUE} \in SUBSET D
          /\ Cardinality(s \ {CHOOSE x \in s : TRUE}) = Cardinality(s) - 1
      BY <3>1, <2>3, SmallTurn, Zenon
    <3> DEFINE c == CHOOSE x \in s : TRUE
    <3> HIDE DEF c
    <3>3. Cardinality(s \ {c}) <= m - 1
      BY <1>3, <3>1, <3>2 DEF c
    <3> QED BY <3>1, <3>2, <3>3 DEF Small, c
  <2>4. ASSUME NEW s \in Small(D, m) PROVE SumTurn(f, g, s) \in Int
    <3>1. CASE s = {}
      BY <3>1 DEF SumTurn
    <3>2. CASE s # {}
      <4> DEFINE c == CHOOSE x \in s : TRUE
      <4>1. s \ {c} \in Small(D, m - 1) /\ c \in D
        BY <2>3, <3>2
      <4>2. SumTurn(f, g, s) = f[c] + g[s \ {c}]
        BY <3>2 DEF SumTurn
      <4> HIDE DEF c
      <4>3. f[c] \in Int /\ g[s \ {c}] \in Int
        BY <2>2, <4>1
      <4> QED BY <4>2, <4>3
    <3> QED BY <3>1, <3>2
  <2>5. \A s \in Small(D, m - 1) : s \in Small(D, m)
    <3>1. ASSUME NEW s \in Small(D, m - 1) PROVE s \in Small(D, m)
      <4>1. s \in SUBSET D /\ Cardinality(s) <= m - 1 /\ Cardinality(s) \in Nat
        BY FS_Subset, FS_CardinalityType DEF Small
      <4> QED BY <1>3, <4>1 DEF Small
    <3> QED BY <3>1
  <2>6. \A s \in Small(D, m - 1) : h[s] = g[s]
    BY <2>2, <2>5
  <2>7. ASSUME NEW s \in Small(D, m) PROVE h[s] = SumTurn(f, h, s)
    <3>1. CASE s = {}
      BY <3>1 DEF SumTurn
    <3>2. CASE s # {}
      <4>1. h[s \ {CHOOSE x \in s : TRUE}] = g[s \ {CHOOSE x \in s : TRUE}]
        BY <2>3, <2>6, <3>2
      <4> QED BY <3>2, <4>1 DEF SumTurn
    <3> QED BY <3>1, <3>2
  <2>8. h \in [Small(D, m) -> Int]
    BY <2>4
  <2> QED BY <1>3, <2>7, <2>8
<1> QED BY <1>4, <1>5

\* A sum of integers is an integer.
LEMMA SumIsInt ==
  ASSUME NEW f, IsFiniteSet(DOMAIN f), \A x \in DOMAIN f : f[x] \in Int
  PROVE  SumFunction(f) \in Int
<1> DEFINE D == DOMAIN f
           Is(g) == g = [s \in SUBSET D |-> SumTurn(f, g, s)]
           sum == CHOOSE g : Is(g)
<1>1. SumFunction(f) = sum[D]
  BY Zenon DEF SumFunction, SumFunctionOnSet, FoldFunctionOnSet, MapThenFoldSet, SumTurn
<1>2. Cardinality(D) \in Nat
  BY FS_CardinalityType
<1>3. Small(D, Cardinality(D)) = SUBSET D
  <2>1. \A s \in SUBSET D : Cardinality(s) <= Cardinality(D)
    BY FS_Subset
  <2> QED BY <2>1, Zenon DEF Small
<1>4. PICK g : g \in [SUBSET D -> Int] /\ \A s \in SUBSET D : g[s] = SumTurn(f, g, s)
  BY <1>2, <1>3, SumExists
<1>5. Is(g)
  BY <1>4
<1>6. Is(sum)
  BY <1>5
<1> HIDE DEF sum
<1> DEFINE Bad == {n \in Nat : \E s \in SUBSET D : Cardinality(s) = n /\ sum[s] \notin Int}
<1>7. ASSUME NEW s \in SUBSET D PROVE sum[s] \in Int
  <2>1. SUFFICES ASSUME sum[s] \notin Int PROVE FALSE
    OBVIOUS
  <2>2. Cardinality(s) \in Bad
    BY <2>1, FS_Subset, FS_CardinalityType
  <2>3. PICK n \in Bad : \A y \in Bad : n <= y
    <3> HIDE DEF Bad
    <3>1. Bad \in SUBSET Nat
      BY DEF Bad
    <3> QED BY <2>2, <3>1, LeastNat
  <2>4. PICK t \in SUBSET D : Cardinality(t) = n /\ sum[t] \notin Int
    BY <2>3
  <2>5. sum[t] = SumTurn(f, sum, t)
    BY <1>6
  <2>6. t # {}
    BY <2>4, <2>5 DEF SumTurn
  <2> DEFINE c == CHOOSE x \in t : TRUE
  <2>7. c \in t /\ t \ {c} \in SUBSET D /\ Cardinality(t) \in Nat \ {0} /\ Cardinality(t \ {c}) = Cardinality(t) - 1
    BY <2>6, SmallTurn
  <2>8. sum[t] = f[c] + sum[t \ {c}]
    BY <2>5, <2>6 DEF SumTurn
  <2> HIDE DEF c
  <2>9. sum[t \ {c}] \in Int
    <3>1. SUFFICES ASSUME sum[t \ {c}] \notin Int PROVE FALSE
      OBVIOUS
    <3>2. n - 1 \in Bad
      BY <2>4, <2>7, <3>1
    <3> QED BY <2>3, <2>4, <2>7, <3>2
  <2>10. f[c] \in Int
    BY <2>7
  <2> QED BY <2>4, <2>8, <2>9, <2>10
<1> QED BY <1>1, <1>7

-------------------------------------------------------------------------------
(* The largest and the smallest of finitely many. *)

\* A set of naturals with a bound has a largest member, and Max is it.
LEMMA MaxBelow ==
  ASSUME NEW n \in Nat, NEW S \in SUBSET (0..n), S # {}
  PROVE  Max(S) \in S /\ \A y \in S : Max(S) >= y
<1> DEFINE T == {n - x : x \in S}
<1>0. \A x \in S : x \in Nat /\ x <= n /\ n - x \in Nat
  <2>1. ASSUME NEW x \in S PROVE x \in Nat /\ x <= n /\ n - x \in Nat
    <3>1. x \in 0..n
      OBVIOUS
    <3> QED BY <3>1
  <2> QED BY <2>1
<1>1. T \in SUBSET Nat /\ T # {}
  BY <1>0
<1>2. PICK t \in T : \A y \in T : t <= y
  BY <1>1, LeastNat
<1>3. PICK x \in S : t = n - x
  BY <1>2
<1>4. ASSUME NEW y \in S PROVE x >= y
  <2>1. t <= n - y
    BY <1>2
  <2>2. x \in Nat /\ y \in Nat
    BY <1>0
  <2> QED BY <1>3, <2>1, <2>2
<1> QED BY <1>4 DEF Max

\* Min of naturals.
LEMMA MinNat ==
  ASSUME NEW S \in SUBSET Nat, S # {}
  PROVE  Min(S) \in S /\ \A y \in S : Min(S) <= y
BY LeastNat DEF Min

\* Max and Min of two integers.
LEMMA MaxOfPair ==
  ASSUME NEW a \in Int, NEW b \in Int
  PROVE  Max({a, b}) \in {a, b} /\ Max({a, b}) >= a /\ Max({a, b}) >= b
<1>1. \E m \in {a, b} : \A y \in {a, b} : m >= y
  <2>1. CASE a >= b
    BY <2>1
  <2>2. CASE b >= a
    BY <2>2
  <2> QED BY <2>1, <2>2
<1> QED BY <1>1 DEF Max

\* Min of two integers.
LEMMA MinOfPair ==
  ASSUME NEW a \in Int, NEW b \in Int
  PROVE  Min({a, b}) \in {a, b}
<1>1. \E m \in {a, b} : \A y \in {a, b} : m <= y
  <2>1. CASE a <= b
    BY <2>1
  <2>2. CASE b <= a
    BY <2>2
  <2> QED BY <2>1, <2>2
<1> QED BY <1>1 DEF Min

\* A finite nonempty set of places has one with the largest value.
LEMMA PlaceOfLargest ==
  ASSUME NEW n \in Nat, NEW v \in [1..n -> Nat], NEW S \in SUBSET (1..n), S # {}
  PROVE  \E k \in S : \A j \in S : v[j] <= v[k]
<1> DEFINE Upto(m) == S \cap (1..m)
           Bad == {m \in Nat : m <= n /\ Upto(m) # {} /\ ~\E k \in Upto(m) : \A j \in Upto(m) : v[j] <= v[k]}
<1>1. SUFFICES ASSUME ~\E k \in S : \A j \in S : v[j] <= v[k] PROVE FALSE
  OBVIOUS
<1>2. Upto(n) = S
  <2>1. \A x \in S : x \in 1..n
    OBVIOUS
  <2> QED BY <2>1, Zenon
<1>3. n \in Bad
  <2>1. Upto(n) # {} /\ ~\E k \in Upto(n) : \A j \in Upto(n) : v[j] <= v[k]
    BY <1>1, <1>2, Zenon
  <2>2. n <= n
    OBVIOUS
  <2> HIDE DEF Upto
  <2> QED BY <2>1, <2>2, Zenon
<1>4. PICK m \in Bad : \A y \in Bad : m <= y
  BY <1>3, LeastNat
<1>5. m \in 1..n /\ m - 1 \in Nat /\ m - 1 \notin Bad
  <2>1. m \in Nat /\ m <= n /\ Upto(m) # {}
    BY <1>4
  <2>2. m # 0
    BY <2>1
  <2>3. m - 1 \in Nat /\ ~(m <= m - 1)
    BY <2>1, <2>2
  <2> HIDE DEF Bad
  <2> QED BY <1>4, <2>1, <2>2, <2>3
<1>6. Upto(m) = Upto(m - 1) \cup (S \cap {m})
  <2>1. ASSUME NEW x PROVE x \in 1..m <=> (x \in 1..(m - 1) \/ x = m)
    <3>1. m \in Nat /\ m >= 1
      BY <1>5
    <3> HIDE DEF Bad
    <3> QED BY <3>1
  <2> QED BY <2>1, Zenon
<1>7. CASE m \notin S
  <2>1. Upto(m) = Upto(m - 1)
    <3> HIDE DEF Upto
    <3> QED BY <1>6, <1>7, Zenon
  <2>2. m <= n /\ Upto(m) # {} /\ ~\E k \in Upto(m) : \A j \in Upto(m) : v[j] <= v[k]
    BY <1>4
  <2>3. m - 1 <= n
    <3> HIDE DEF Upto, Bad
    <3> QED BY <1>5
  <2> HIDE DEF Upto
  <2>4. m - 1 \in Bad
    BY <1>5, <2>1, <2>2, <2>3, Zenon
  <2> QED BY <1>5, <2>4
<1>8. CASE m \in S /\ Upto(m - 1) = {}
  <2>1. Upto(m) = {m}
    <3> HIDE DEF Upto, Bad
    <3>1. S \cap {m} = {m}
      BY <1>8
    <3> QED BY <1>6, <1>8, <3>1
  <2>2. v[m] <= v[m]
    BY <1>5
  <2> QED BY <1>4, <2>1, <2>2
<1>9. CASE m \in S /\ Upto(m - 1) # {}
  <2>1. PICK k \in Upto(m - 1) : \A j \in Upto(m - 1) : v[j] <= v[k]
    BY <1>5, <1>9
  <2>2. k \in Upto(m) /\ m \in Upto(m) /\ Upto(m) = Upto(m - 1) \cup {m}
    BY <1>6, <1>9, <1>5
  <2>3. v[k] \in Nat /\ v[m] \in Nat /\ \A j \in Upto(m - 1) : v[j] \in Nat
    BY <1>5
  <2>4. CASE v[m] <= v[k]
    <3>1. \A j \in Upto(m) : v[j] <= v[k]
      BY <2>1, <2>2, <2>4
    <3> QED BY <1>4, <2>2, <3>1
  <2>5. CASE v[k] <= v[m]
    <3>1. ASSUME NEW j \in Upto(m) PROVE v[j] <= v[m]
      <4>1. CASE j = m
        BY <4>1, <2>3
      <4>2. CASE j \in Upto(m - 1)
        <5>1. v[j] <= v[k] /\ v[j] \in Nat
          BY <2>1, <2>3, <4>2
        <5> HIDE DEF Upto, Bad
        <5> QED BY <2>3, <2>5, <5>1
      <4> QED BY <2>2, <4>1, <4>2
    <3> QED BY <1>4, <2>2, <3>1
  <2> QED BY <2>3, <2>4, <2>5
<1> QED BY <1>7, <1>8, <1>9

\* The magnitude of a level is a natural.
LEMMA AbsIsNat ==
  ASSUME NEW x \in Int
  PROVE  EqAbs(x) \in Nat
BY DEF EqAbs

\* largest is one of the bins, and none of them deviates more.
LEMMA LargestDeviates ==
  ASSUME NEW n \in Nat, NEW db \in [1..n -> Int], NEW bins \in SUBSET (1..n), bins # {}
  PROVE  largest(db, bins) \in bins /\ \A j \in bins : EqAbs(db[j]) <= EqAbs(db[largest(db, bins)])
<1> DEFINE v == [k \in 1..n |-> EqAbs(db[k])]
           best == {k \in bins : \A j \in bins : EqAbs(db[j]) <= EqAbs(db[k])}
<1>1. v \in [1..n -> Nat]
  BY AbsIsNat
<1>2. PICK k \in bins : \A j \in bins : v[j] <= v[k]
  <2> HIDE DEF v
  <2> QED BY <1>1, PlaceOfLargest
<1>3. k \in best
  BY <1>2
<1>4. best \in SUBSET Nat /\ best # {}
  <2>1. \A x \in best : x \in 1..n
    OBVIOUS
  <2> HIDE DEF best
  <2> QED BY <1>3, <2>1
<1>5. Min(best) \in best
  BY <1>4, MinNat
<1> QED BY <1>5 DEF largest

-------------------------------------------------------------------------------
(* EqAllocator: one filter. *)

\* What the allocator is given: n bins, and only trusted bins with some coherence.
AllocInput(in, n) ==
  /\ n \in Nat
  /\ in.hz \in [1..n -> 0..EqUnit] /\ in.residual \in [1..n -> Int] /\ in.coherence \in [1..n -> Nat]
  /\ in.trusted \in SUBSET (1..n) /\ \A k \in in.trusted : in.coherence[k] > 0

\* A working residual of n bins.
Residual(work, n) == work.db \in [1..n -> Int] /\ work.scale \in Nat \ {0}

\* The unit of the scaled widths.
LEMMA ScaleIsPositive ==
  /\ EqQ \in Nat \ {0} /\ EqQBoost \in Nat \ {0} /\ EqQCut \in Nat \ {0}
  /\ EqQ \div EqQBoost \in Nat \ {0} /\ EqQ \div EqQCut \in Nat \ {0}
<1>1. EqQBoost \in Nat \ {0} /\ EqQCut \in Nat \ {0}
  BY EqAllocatorAssumption
<1>2. ASSUME NEW a \in Nat \ {0}, NEW b \in Nat \ {0}
      PROVE  a * b \in Nat \ {0} /\ (a * b) \div a = b /\ (a * b) \div b = a
  OBVIOUS
<1> QED BY <1>1, <1>2 DEF EqQ

\* The weight of a bin is a natural, and it is positive where the bin is usable.
LEMMA WeightIsNat ==
  ASSUME NEW in, NEW n, AllocInput(in, n), NEW k \in 1..n
  PROVE  weight(in, k) \in Nat /\ (k \in usable(in) => weight(in, k) > 0)
<1> DEFINE h == in.hz[k]
           c == in.coherence[k]
<1>1. EqUnit \in Nat \ {0} /\ h \in Nat /\ h <= EqUnit /\ c \in Nat
  BY EqAllocatorAssumption, SMTT(30) DEF AllocInput
<1>2. k \in in.trusted => c > 0
  BY DEF AllocInput
<1>3. weight(in, k) = IF k \in in.trusted \ in.excluded /\ h > 0 THEN c * (EqUnit \div h) ELSE 0
  BY DEF weight
<1>4. k \in usable(in) => k \in in.trusted \ in.excluded /\ h > 0
  BY DEF usable
<1> HIDE DEF h, c
<1>5. ASSUME h > 0 PROVE EqUnit \div h \in Nat \ {0}
  BY <1>1, <1>5
<1>6. ASSUME NEW a \in Nat, NEW b \in Nat \ {0} PROVE a * b \in Nat /\ (a > 0 => a * b > 0)
  OBVIOUS
<1>7. ASSUME h > 0 PROVE c * (EqUnit \div h) \in Nat /\ (c > 0 => c * (EqUnit \div h) > 0)
  BY <1>1, <1>5, <1>6, <1>7
<1> QED BY <1>2, <1>3, <1>4, <1>7

\* The working residual is one.
LEMMA WorkingResidualIsOne ==
  ASSUME NEW in, NEW n, AllocInput(in, n)
  PROVE  Residual(computeWorkingResidual(in), n)
<1> DEFINE f == [k \in DOMAIN in.hz |-> weight(in, k) * in.residual[k]]
           g == [k \in DOMAIN in.hz |-> weight(in, k)]
           c == autoOffsetDb(in)
<1>1. DOMAIN in.hz = 1..n /\ n \in Nat
  BY DEF AllocInput
<1>2. ASSUME NEW k \in 1..n PROVE weight(in, k) \in Int /\ in.residual[k] \in Int
  <2>1. weight(in, k) \in Nat
    BY WeightIsNat
  <2>2. in.residual[k] \in Int
    BY DEF AllocInput
  <2> QED BY <2>1, <2>2
<1>3. IsFiniteSet(DOMAIN f) /\ IsFiniteSet(DOMAIN g)
  BY <1>1, FS_Interval
<1>4. \A k \in DOMAIN f : f[k] \in Int
  BY <1>1, <1>2
<1>5. \A k \in DOMAIN g : g[k] \in Int
  BY <1>1, <1>2
<1>6. c = [num |-> SumFunction(f), den |-> SumFunction(g)]
  BY Zenon DEF autoOffsetDb
<1> HIDE DEF f, g, c
<1>7. SumFunction(f) \in Int /\ SumFunction(g) \in Int
  BY <1>3, <1>4, <1>5, SumIsInt
<1>8. c.num \in Int /\ c.den \in Int
  BY <1>6, <1>7
<1> DEFINE scale == IF c.den > 0 THEN c.den ELSE 1
           num == IF c.den > 0 THEN c.num ELSE 0
           db == [k \in DOMAIN in.hz |-> in.residual[k] * scale - num]
<1>9. computeWorkingResidual(in) = [scale |-> scale, db |-> db]
  BY DEF computeWorkingResidual, c
<1>10. scale \in Nat \ {0} /\ num \in Int
  BY <1>8
<1> HIDE DEF scale, num
<1>11. db \in [1..n -> Int]
  BY <1>1, <1>2, <1>10
<1> QED BY <1>9, <1>10, <1>11 DEF Residual

\* The flank is a bin.
LEMMA FlankIsBin ==
  ASSUME NEW n \in Nat, NEW db \in [1..n -> Int], NEW start \in 1..n, NEW direction \in {-1, 1}, NEW sign \in {-1, 1}
  PROVE  walkToFlank(db, start, direction, sign) \in 1..n
<1> DEFINE reached == {m \in 0..Len(db) :
                          /\ start + direction * m \in DOMAIN db
                          /\ \A i \in 1..m : sign * db[start + direction * i] <= sign * db[start + direction * (i - 1)]}
<1>1. Len(db) = n /\ DOMAIN db = 1..n
  OBVIOUS
<1>2. 0 \in reached
  BY <1>1
<1>3. reached \in SUBSET (0..n)
  BY <1>1
<1>4. Max(reached) \in reached
  <2> HIDE DEF reached
  <2> QED BY <1>2, <1>3, MaxBelow
<1>5. start + direction * Max(reached) \in 1..n
  BY <1>1, <1>4
<1>6. walkToFlank(db, start, direction, sign) = start + direction * Max(reached)
  BY DEF walkToFlank
<1> QED BY <1>5, <1>6

\* The half crossing is the frequency of a bin.
LEMMA CrossingIsNat ==
  ASSUME NEW n \in Nat, NEW freq \in [1..n -> Nat], NEW db, NEW star \in 1..n, NEW flank \in 1..n, NEW sign
  PROVE  halfCrossingHz(freq, db, star, flank, sign) \in Nat
<1> DEFINE way == IF flank < star THEN flank..(star - 1) ELSE (star + 1)..flank
           under == {k \in way : 2 * sign * db[k] < sign * db[star]}
<1>1. way \in SUBSET (1..n)
  OBVIOUS
<1>2. under \in SUBSET (1..n) /\ under \in SUBSET (0..n) /\ under \in SUBSET Nat
  <2>1. under \in SUBSET way
    BY Zenon
  <2> HIDE DEF way, under
  <2>2. under \in SUBSET (1..n)
    BY <1>1, <2>1, Zenon
  <2>3. \A x \in 1..n : x \in 0..n /\ x \in Nat
    OBVIOUS
  <2> QED BY <2>2, <2>3, Zenon
<1>3. halfCrossingHz(freq, db, star, flank, sign)
        = IF under = {} THEN freq[flank] ELSE freq[IF flank < star THEN Max(under) ELSE Min(under)]
  BY DEF halfCrossingHz
<1> HIDE DEF under
<1>4. under # {} => Max(under) \in under /\ Min(under) \in under
  BY <1>2, MaxBelow, MinNat
<1>5. under # {} => Max(under) \in 1..n /\ Min(under) \in 1..n
  BY <1>2, <1>4
<1> QED BY <1>3, <1>5

\* A filter at a usable bin: the design and the gain solve accept it, and it covers its own centre.
LEMMA PeakIsValid ==
  ASSUME NEW in, NEW n, AllocInput(in, n), NEW work, Residual(work, n), NEW star \in usable(in), EqNyquist \in Nat
  PROVE  LET spec == peak(in, work, star).spec
         IN  /\ spec \in FilterSpec /\ spec.fc = in.hz[star] /\ DesignValid(spec) /\ Solvable(in, spec)
             /\ InBand(spec, in.hz[star])
<1> DEFINE sign == IF work.db[star] < 0 THEN -1 ELSE 1
           fL == walkToFlank(work.db, star, -1, sign)
           fR == walkToFlank(work.db, star, 1, sign)
           fc == in.hz[star]
           right == halfCrossingHz(in.hz, work.db, star, fR, sign)
           left == halfCrossingHz(in.hz, work.db, star, fL, sign)
           wide == right - left
           qMax == IF sign < 0 THEN EqQBoost ELSE EqQCut
           most == Min({wide * EqQ, fc * EqWidest * EqQ})
           width == Max({fc * (EqQ \div qMax), most})
           spec == peak(in, work, star).spec
<1>1. spec = [fc |-> fc, width |-> width, gain |-> 0]
  BY DEF peak
<1>2. star \in 1..n /\ n \in Nat /\ fc \in Nat /\ fc > 0 /\ fc < EqNyquist /\ in.hz \in [1..n -> Nat]
  <2>1. n \in Nat /\ in.trusted \in SUBSET (1..n) /\ in.hz \in [1..n -> 0..EqUnit] /\ EqUnit \in Nat
    BY EqAllocatorAssumption DEF AllocInput
  <2>2. star \in in.trusted /\ fc > 0 /\ fc < EqNyquist
    BY DEF usable
  <2>3. star \in 1..n /\ in.hz \in [1..n -> Nat]
    BY <2>1, <2>2
  <2> QED BY <2>1, <2>2, <2>3
<1>3. work.db \in [1..n -> Int]
  BY DEF Residual
<1>4. sign \in {-1, 1}
  OBVIOUS
<1> HIDE DEF sign
<1>5. fL \in 1..n /\ fR \in 1..n
  BY <1>2, <1>3, <1>4, FlankIsBin
<1> HIDE DEF fL, fR
<1>6. right \in Nat /\ left \in Nat
  BY <1>2, <1>5, CrossingIsNat
<1> HIDE DEF left, right
<1>7. wide \in Int
  BY <1>6
<1>8. EqQ \in Nat \ {0} /\ EqQ \div qMax \in Nat \ {0} /\ EqWidest \in Nat
  BY ScaleIsPositive, EqAllocatorAssumption
<1> HIDE DEF wide, qMax, fc
<1>9. wide * EqQ \in Int /\ fc * EqWidest * EqQ \in Int
  BY <1>2, <1>7, <1>8
<1>10. most \in Int
  BY <1>9, MinOfPair
<1> HIDE DEF most
<1>11. fc * (EqQ \div qMax) \in Nat \ {0}
  BY <1>2, <1>8
<1> DEFINE least == fc * (EqQ \div qMax)
<1>12. width \in Int /\ width >= least
  <2>1. least \in Int
    BY <1>11
  <2>2. width = Max({least, most})
    OBVIOUS
  <2> HIDE DEF least, width
  <2>3. Max({least, most}) \in {least, most} /\ Max({least, most}) >= least
    BY <1>10, <2>1, MaxOfPair
  <2> QED BY <1>10, <2>1, <2>2, <2>3
<1> HIDE DEF width
<1>13. width \in Nat /\ width > 0
  BY <1>11, <1>12
<1>14. spec.fc = fc /\ spec.width = width /\ spec \in FilterSpec
  BY <1>1, <1>2, <1>13 DEF FilterSpec
<1> HIDE DEF spec
<1>15. InBand(spec, fc)
  <2>1. EqAbs(fc - fc) = 0
    BY <1>2 DEF EqAbs
  <2>2. 2 * 0 * EqQ = 0
    BY <1>8
  <2> QED BY <1>13, <1>14, <2>1, <2>2 DEF InBand
<1>16. Solvable(in, spec)
  <2>1. weight(in, star) > 0
    BY <1>2, WeightIsNat
  <2>2. star \in DOMAIN in.hz
    BY <1>2
  <2> QED BY <1>15, <2>1, <2>2 DEF Solvable, fc
<1>17. DesignValid(spec)
  BY <1>2, <1>13, <1>14 DEF DesignValid
<1> QED BY <1>14, <1>15, <1>16, <1>17 DEF spec, fc

-------------------------------------------------------------------------------
(* EqAllocator: the filters one after the other. *)

\* The condition under which a turn places nothing.
NothingLeft(in, work, most, s) ==
  LET open == usable(in) \ s.blocked
  IN  \/ Len(s.placed) >= most \/ open = {}
      \/ EqAbs(work.db[largest(work.db, open)]) < EqMinDb * work.scale

\* What one of the placed filters is.
Placements(in) == [spec : FilterSpec, star : usable(in)]

PlacedAt(in, p) ==
  p.spec.fc = in.hz[p.star] /\ DesignValid(p.spec) /\ Solvable(in, p.spec) /\ InBand(p.spec, in.hz[p.star])

\* The loop's invariant: what is placed is valid and apart, and a bin is blocked when it is covered
\* or refused, and not otherwise.
PlacingOK(in, work, n, most, s) ==
  /\ s \in [placed : Seq(Placements(in)), blocked : SUBSET (1..n), refused : SUBSET usable(in), stop : BOOLEAN]
  /\ Len(s.placed) <= most
  /\ \A i \in 1..Len(s.placed) : PlacedAt(in, s.placed[i])
  /\ \A i \in 1..Len(s.placed) : \A j \in 1..(i - 1) : ~InBand(s.placed[j].spec, s.placed[i].spec.fc)
  /\ \A i \in 1..Len(s.placed), k \in 1..n : InBand(s.placed[i].spec, in.hz[k]) => k \in s.blocked
  /\ \A k \in s.blocked : k \in s.refused \/ \E i \in 1..Len(s.placed) : InBand(s.placed[i].spec, in.hz[k])
  /\ s.stop => NothingLeft(in, work, most, s)

\* A turn that stops changes nothing else.
LEMMA TurnStops ==
  ASSUME NEW in, NEW work, NEW n, NEW most, NEW s, PlacingOK(in, work, n, most, s), NothingLeft(in, work, most, s)
  PROVE  LET t == placeOne(in, work, most, s)
         IN  PlacingOK(in, work, n, most, t) /\ t.stop
<1> DEFINE t == [s EXCEPT !.stop = TRUE]
<1>1. placeOne(in, work, most, s) = t
  BY Zenon DEF placeOne, NothingLeft
<1>2. s \in [placed : Seq(Placements(in)), blocked : SUBSET (1..n), refused : SUBSET usable(in), stop : BOOLEAN]
  BY DEF PlacingOK
<1>3. /\ t \in [placed : Seq(Placements(in)), blocked : SUBSET (1..n), refused : SUBSET usable(in), stop : BOOLEAN]
      /\ t.placed = s.placed /\ t.blocked = s.blocked /\ t.refused = s.refused /\ t.stop
  BY <1>2, Zenon
<1> HIDE DEF t
<1>4. NothingLeft(in, work, most, t)
  BY <1>3 DEF NothingLeft
<1>5. PlacingOK(in, work, n, most, t)
  BY <1>3, <1>4, Zenon DEF PlacingOK
<1> QED BY <1>1, <1>3, <1>5

\* A turn that refuses or places takes a usable bin out of play.
LEMMA TurnTakesABin ==
  ASSUME NEW in, NEW n, AllocInput(in, n), NEW work, Residual(work, n), NEW most \in Nat, EqNyquist \in Nat,
         NEW s, PlacingOK(in, work, n, most, s), ~NothingLeft(in, work, most, s)
  PROVE  LET t == placeOne(in, work, most, s)
         IN  /\ PlacingOK(in, work, n, most, t)
             /\ s.blocked \subseteq t.blocked /\ \E k \in t.blocked : k \notin s.blocked
<1> DEFINE open == usable(in) \ s.blocked
           star == largest(work.db, open)
           p == peak(in, work, star)
           spec == p.spec
           t == placeOne(in, work, most, s)
           covered == {k \in DOMAIN in.hz : InBand(spec, in.hz[k])}
           refusing == [s EXCEPT !.blocked = @ \cup {star}, !.refused = @ \cup {star}]
           placing == [s EXCEPT !.placed = Append(@, [spec |-> spec, star |-> star]), !.blocked = @ \cup covered]
           T == [placed : Seq(Placements(in)), blocked : SUBSET (1..n), refused : SUBSET usable(in), stop : BOOLEAN]
<1>1. t = refusing \/ t = placing
  BY Zenon DEF placeOne, NothingLeft
<1>2. s \in T /\ n \in Nat /\ work.db \in [1..n -> Int] /\ DOMAIN in.hz = 1..n
  BY DEF PlacingOK, AllocInput, Residual
<1>3. open \in SUBSET (1..n)
  BY DEF usable, AllocInput
<1>4. open # {} /\ ~(Len(s.placed) >= most)
  BY DEF NothingLeft
<1>5. star \in open
  <2> HIDE DEF open
  <2> QED BY <1>2, <1>3, <1>4, LargestDeviates
<1>6. star \in usable(in) /\ star \in 1..n /\ star \notin s.blocked
  BY <1>3, <1>5
<1> HIDE DEF open, star
<1>7. spec \in FilterSpec /\ spec.fc = in.hz[star] /\ DesignValid(spec) /\ Solvable(in, spec) /\ InBand(spec, in.hz[star])
  BY <1>6, PeakIsValid
<1> HIDE DEF spec, p, t
<1>8. star \in covered /\ covered \in SUBSET (1..n)
  BY <1>2, <1>6, <1>7
<1>9. s.placed \in Seq(Placements(in)) /\ s.blocked \in SUBSET (1..n) /\ s.refused \in SUBSET usable(in)
  BY <1>2
<1>10. ~s.stop /\ s.stop \in BOOLEAN
  BY <1>2 DEF PlacingOK
<1>11. ASSUME t = refusing
       PROVE  /\ PlacingOK(in, work, n, most, t)
              /\ s.blocked \subseteq t.blocked /\ \E k \in t.blocked : k \notin s.blocked
  <2>1. /\ t.placed = s.placed /\ t.blocked = s.blocked \cup {star} /\ t.refused = s.refused \cup {star}
        /\ t.stop = s.stop
        /\ t = [placed |-> t.placed, blocked |-> t.blocked, refused |-> t.refused, stop |-> t.stop]
    BY <1>2, <1>11, Zenon
  <2>2. t \in T
    BY <1>6, <1>9, <1>10, <2>1
  <2>3. /\ Len(t.placed) <= most
        /\ \A i \in 1..Len(t.placed) : PlacedAt(in, t.placed[i])
        /\ \A i \in 1..Len(t.placed) : \A j \in 1..(i - 1) : ~InBand(t.placed[j].spec, t.placed[i].spec.fc)
    BY <2>1, Zenon DEF PlacingOK
  <2>4. \A i \in 1..Len(t.placed), k \in 1..n : InBand(t.placed[i].spec, in.hz[k]) => k \in t.blocked
    BY <2>1, Zenon DEF PlacingOK
  <2>5. \A k \in t.blocked : k \in t.refused \/ \E i \in 1..Len(t.placed) : InBand(t.placed[i].spec, in.hz[k])
    BY <2>1, Zenon DEF PlacingOK
  <2>6. PlacingOK(in, work, n, most, t)
    BY <1>10, <2>1, <2>2, <2>3, <2>4, <2>5, Zenon DEF PlacingOK
  <2> QED BY <1>6, <2>1, <2>6, Zenon
<1>12. ASSUME t = placing
       PROVE  /\ PlacingOK(in, work, n, most, t)
              /\ s.blocked \subseteq t.blocked /\ \E k \in t.blocked : k \notin s.blocked
  <2> DEFINE last == [spec |-> spec, star |-> star]
  <2>1. /\ t.placed = Append(s.placed, last) /\ t.blocked = s.blocked \cup covered /\ t.refused = s.refused
        /\ t.stop = s.stop
        /\ t = [placed |-> t.placed, blocked |-> t.blocked, refused |-> t.refused, stop |-> t.stop]
    BY <1>2, <1>12, Zenon
  <2>2. last \in Placements(in) /\ last.spec = spec /\ last.star = star
    BY <1>6, <1>7 DEF Placements
  <2> HIDE DEF last
  <2> DEFINE P == Placements(in)
  <2>3. PICK m \in Nat : Len(s.placed) = m
    <3>1. s.placed \in Seq(P)
      BY <1>9
    <3> HIDE DEF P
    <3> QED BY <3>1
  <2>4. /\ t.placed \in Seq(P) /\ Len(t.placed) = m + 1 /\ t.placed[m + 1] = last
        /\ \A i \in 1..m : t.placed[i] = s.placed[i]
    <3>1. s.placed \in Seq(P) /\ last \in P
      BY <1>9, <2>2
    <3> HIDE DEF P
    <3> QED BY <2>1, <2>3, <3>1
  <2>5. t \in T
    BY <1>8, <1>9, <1>10, <2>1, <2>4
  <2>6. Len(t.placed) <= most
    BY <1>4, <2>3, <2>4
  <2>7. ASSUME NEW i \in 1..Len(t.placed)
        PROVE  i \in 1..m \/ i = m + 1
    BY <2>3, <2>4
  <2>8. \A i \in 1..m : t.placed[i] = s.placed[i] /\ i \in 1..Len(s.placed) /\ i \in 1..Len(t.placed)
    BY <2>3, <2>4
  <2>9. PlacedAt(in, last)
    BY <1>7, <2>2 DEF PlacedAt
  <2>10. \A i \in 1..Len(t.placed) : PlacedAt(in, t.placed[i])
    BY <2>4, <2>7, <2>8, <2>9, Zenon DEF PlacingOK
  <2>11. ASSUME NEW i \in 1..Len(t.placed), NEW j \in 1..(i - 1)
         PROVE  ~InBand(t.placed[j].spec, t.placed[i].spec.fc)
    <3>1. CASE i \in 1..m
      <4>1. j \in 1..m
        BY <3>1
      <4> QED BY <2>8, <3>1, <4>1, Zenon DEF PlacingOK
    <3>2. CASE i = m + 1
      <4>1. j \in 1..m
        BY <3>2
      <4>2. t.placed[i].spec.fc = in.hz[star]
        BY <1>7, <2>2, <2>4, <3>2
      <4>3. InBand(s.placed[j].spec, in.hz[star]) => star \in s.blocked
        BY <1>6, <2>8, <4>1, Zenon DEF PlacingOK
      <4> QED BY <1>6, <2>8, <4>1, <4>2, <4>3, Zenon
    <3> QED BY <2>7, <3>1, <3>2
  <2>12. ASSUME NEW i \in 1..Len(t.placed), NEW k \in 1..n, InBand(t.placed[i].spec, in.hz[k])
         PROVE  k \in t.blocked
    <3>1. CASE i \in 1..m
      BY <2>1, <2>8, <2>12, <3>1, Zenon DEF PlacingOK
    <3>2. CASE i = m + 1
      <4>1. k \in covered
        BY <1>2, <2>2, <2>4, <2>12, <3>2
      <4> QED BY <2>1, <4>1
    <3> QED BY <2>7, <3>1, <3>2
  <2>13. ASSUME NEW k \in t.blocked
         PROVE  k \in t.refused \/ \E i \in 1..Len(t.placed) : InBand(t.placed[i].spec, in.hz[k])
    <3>1. CASE k \in s.blocked
      <4>1. k \in s.refused \/ \E i \in 1..Len(s.placed) : InBand(s.placed[i].spec, in.hz[k])
        BY <3>1, Zenon DEF PlacingOK
      <4> QED BY <2>1, <2>3, <2>8, <4>1, Zenon
    <3>2. CASE k \in covered
      <4>1. InBand(t.placed[m + 1].spec, in.hz[k])
        BY <2>2, <2>4, <3>2
      <4>2. m + 1 \in 1..Len(t.placed)
        BY <2>3, <2>4
      <4> QED BY <4>1, <4>2
    <3> QED BY <2>1, <3>1, <3>2
  <2>14. PlacingOK(in, work, n, most, t)
    BY <1>10, <2>1, <2>5, <2>6, <2>10, <2>11, <2>12, <2>13, Zenon DEF PlacingOK
  <2>15. star \in t.blocked
    BY <1>8, <2>1
  <2> QED BY <1>6, <2>1, <2>14, <2>15, Zenon
<1> QED BY <1>1, <1>11, <1>12 DEF t

\* One turn of the loop, from what the turns before have left.
PlaceTurn(in, work, most, g, m) ==
  IF m = 0 THEN [placed |-> <<>>, blocked |-> {}, refused |-> {}, stop |-> FALSE]
  ELSE placeOne(in, work, most, g[m - 1])

TurnsOf(in, work, most, n, g) == g = [m \in 0..n |-> PlaceTurn(in, work, most, g, m)]

\* The states of the loop exist.
LEMMA TurnsExist ==
  ASSUME NEW in, NEW work, NEW most, NEW n \in Nat
  PROVE  \E g : TurnsOf(in, work, most, n, g)
<1> DEFINE Good(m) == \E g : g = [k \in 0..m |-> PlaceTurn(in, work, most, g, k)]
           Bad == {m \in Nat : ~Good(m)}
<1>1. SUFFICES ASSUME Bad # {} PROVE FALSE
  BY DEF TurnsOf
<1>2. PICK m \in Bad : \A y \in Bad : m <= y
  BY <1>1, LeastNat
<1>3. m \in Nat /\ ~Good(m)
  OBVIOUS
<1>4. CASE m = 0
  <2> DEFINE g == [k \in 0..0 |-> [placed |-> <<>>, blocked |-> {}, refused |-> {}, stop |-> FALSE]]
  <2>1. \A k \in 0..0 : k = 0
    OBVIOUS
  <2>2. g = [k \in 0..0 |-> PlaceTurn(in, work, most, g, k)]
    BY <2>1 DEF PlaceTurn
  <2> QED BY <1>3, <1>4, <2>2
<1>5. CASE m # 0
  <2>1. m - 1 \in Nat /\ Good(m - 1)
    BY <1>2, <1>3, <1>5
  <2>2. PICK g : g = [k \in 0..(m - 1) |-> PlaceTurn(in, work, most, g, k)]
    BY <2>1
  <2> DEFINE h == [k \in 0..m |-> PlaceTurn(in, work, most, g, k)]
  <2>3. ASSUME NEW k \in 0..m PROVE PlaceTurn(in, work, most, h, k) = PlaceTurn(in, work, most, g, k)
    <3>1. CASE k = 0
      BY <3>1 DEF PlaceTurn
    <3>2. CASE k # 0
      <4>1. k - 1 \in 0..(m - 1) /\ k - 1 \in 0..m
        BY <1>3, <3>2
      <4>2. h[k - 1] = PlaceTurn(in, work, most, g, k - 1)
        BY <4>1
      <4>3. g[k - 1] = PlaceTurn(in, work, most, g, k - 1)
        BY <2>2, <4>1
      <4> HIDE DEF h
      <4> QED BY <3>2, <4>2, <4>3, Zenon DEF PlaceTurn
    <3> QED BY <3>1, <3>2
  <2>4. h = [k \in 0..m |-> PlaceTurn(in, work, most, h, k)]
    <3>1. \A k \in 0..m : h[k] = PlaceTurn(in, work, most, h, k)
      BY <2>3
    <3>2. h = [k \in 0..m |-> h[k]]
      OBVIOUS
    <3> HIDE DEF h
    <3> QED BY <3>1, <3>2
  <2> QED BY <1>3, <2>4
<1> QED BY <1>4, <1>5

\* greedyPlace ends in a stopped state that its loop's invariant describes.
LEMMA GreedyPlaceEnds ==
  ASSUME NEW in, NEW n, AllocInput(in, n), NEW work, Residual(work, n), NEW most \in Nat, EqNyquist \in Nat
  PROVE  PlacingOK(in, work, n, most, greedyPlace(in, work, most)) /\ greedyPlace(in, work, most).stop
<1> DEFINE Is(g) == g = [m \in 0..(n + 1) |-> PlaceTurn(in, work, most, g, m)]
           turn == CHOOSE g : Is(g)
<1>1. n \in Nat /\ Len(in.hz) = n
  BY DEF AllocInput
<1>2. greedyPlace(in, work, most) = turn[n + 1]
  BY <1>1, Zenon DEF greedyPlace, PlaceTurn
<1>3. \E g : Is(g)
  <2>1. n + 1 \in Nat
    BY <1>1
  <2>2. \E g : TurnsOf(in, work, most, n + 1, g)
    BY <2>1, TurnsExist
  <2> QED BY <2>2, Zenon DEF TurnsOf
<1>4. Is(turn)
  BY <1>3
<1> HIDE DEF turn
<1>5. \A m \in 0..(n + 1) : turn[m] = PlaceTurn(in, work, most, turn, m)
  BY <1>4
<1> DEFINE Good(m) == /\ PlacingOK(in, work, n, most, turn[m])
                      /\ turn[m].stop \/ Cardinality(turn[m].blocked) >= m
           Bad == {m \in Nat : m <= n + 1 /\ ~Good(m)}
<1>6. Good(0)
  <2> DEFINE s == [placed |-> <<>>, blocked |-> {}, refused |-> {}, stop |-> FALSE]
  <2>1. turn[0] = s
    BY <1>1, <1>5 DEF PlaceTurn
  <2>2. s.placed = <<>> /\ s.blocked = {} /\ s.refused = {} /\ s.stop = FALSE
    OBVIOUS
  <2>3. s \in [placed : Seq(Placements(in)), blocked : SUBSET (1..n), refused : SUBSET usable(in), stop : BOOLEAN]
    OBVIOUS
  <2>4. Len(<<>>) = 0 /\ 1..0 = {}
    OBVIOUS
  <2> HIDE DEF s
  <2>5. PlacingOK(in, work, n, most, s)
    BY <2>2, <2>3, <2>4 DEF PlacingOK
  <2>6. Cardinality({}) = 0
    BY FS_EmptySet
  <2> QED BY <2>1, <2>2, <2>5, <2>6
<1>7. ASSUME Bad # {} PROVE FALSE
  <2>1. Bad \in SUBSET Nat
    OBVIOUS
  <2>2. PICK m \in Bad : \A y \in Bad : m <= y
    <3> HIDE DEF Bad
    <3> QED BY <1>7, <2>1, LeastNat
  <2>3. m \in Nat /\ m <= n + 1 /\ ~Good(m)
    OBVIOUS
  <2>4. m # 0
    BY <1>6, <2>3
  <2>5. m - 1 \in Nat /\ m - 1 <= n + 1 /\ ~(m <= m - 1)
    BY <1>1, <2>3, <2>4
  <2>6. Good(m - 1)
    <3> HIDE DEF Good
    <3> QED BY <2>2, <2>5
  <2> DEFINE s == turn[m - 1]
             t == placeOne(in, work, most, s)
  <2>7. turn[m] = t
    <3>1. m \in 0..(n + 1)
      BY <1>1, <2>3
    <3> QED BY <1>5, <2>4, <3>1, Zenon DEF PlaceTurn
  <2>8. PlacingOK(in, work, n, most, s) /\ (s.stop \/ Cardinality(s.blocked) >= m - 1)
    BY <2>6
  <2> HIDE DEF s, t, Good, Bad
  <2>9. CASE NothingLeft(in, work, most, s)
    <3>1. PlacingOK(in, work, n, most, t) /\ t.stop
      BY <2>8, <2>9, TurnStops DEF t
    <3> QED BY <2>3, <2>7, <3>1 DEF Good
  <2>10. CASE ~NothingLeft(in, work, most, s)
    <3>1. /\ PlacingOK(in, work, n, most, t)
          /\ s.blocked \subseteq t.blocked /\ \E k \in t.blocked : k \notin s.blocked
      BY <2>8, <2>10, TurnTakesABin DEF t
    <3>2. Cardinality(s.blocked) >= m - 1
      BY <2>8, <2>10 DEF PlacingOK
    <3>3. t.blocked \in SUBSET (1..n)
      BY <3>1 DEF PlacingOK
    <3>4. IsFiniteSet(t.blocked)
      <4>1. IsFiniteSet(1..n)
        BY <1>1, FS_Interval
      <4> QED BY <3>3, <4>1, FS_Subset
    <3>5. IsFiniteSet(s.blocked) /\ Cardinality(s.blocked) <= Cardinality(t.blocked)
          /\ Cardinality(s.blocked) # Cardinality(t.blocked)
      BY <3>1, <3>4, FS_Subset
    <3>6. Cardinality(s.blocked) \in Nat /\ Cardinality(t.blocked) \in Nat
      BY <3>4, <3>5, FS_CardinalityType
    <3>7. Cardinality(t.blocked) >= m
      BY <2>3, <3>2, <3>5, <3>6
    <3> QED BY <2>3, <2>7, <3>1, <3>7 DEF Good
  <2> QED BY <2>9, <2>10
<1>8. n + 1 \in Nat /\ Good(n + 1)
  BY <1>1, <1>7
<1>9. turn[n + 1].stop
  <2>1. turn[n + 1].blocked \in SUBSET (1..n)
    BY <1>8 DEF PlacingOK
  <2>2. IsFiniteSet(1..n) /\ Cardinality(1..n) = n
    BY <1>1, FS_Interval
  <2>3. Cardinality(turn[n + 1].blocked) <= n /\ Cardinality(turn[n + 1].blocked) \in Nat
    BY <2>1, <2>2, FS_Subset, FS_CardinalityType
  <2> QED BY <1>1, <1>8, <2>3
<1> QED BY <1>2, <1>8, <1>9

\* What rankCandidates offers: valid filters, each centred on a usable bin.
LEMMA CandidatesAreUsable ==
  ASSUME NEW in, NEW n, AllocInput(in, n), NEW most \in Nat, EqNyquist \in Nat
  PROVE  /\ rankCandidates(in, most) \in Seq(FilterSpec)
         /\ \A i \in DOMAIN rankCandidates(in, most) :
                \E k \in usable(in) : rankCandidates(in, most)[i].fc = in.hz[k]
<1> DEFINE work == computeWorkingResidual(in)
           s == greedyPlace(in, work, most)
           gives(i) == solveGain(in, work, s.placed[i].spec)
           ranked == [i \in DOMAIN s.placed |-> gives(i)]
<1>1. rankCandidates(in, most) = ranked
  BY DEF rankCandidates
<1>2. Residual(work, n)
  BY WorkingResidualIsOne
<1> HIDE DEF work
<1>3. PlacingOK(in, work, n, most, s)
  BY <1>2, GreedyPlaceEnds
<1> HIDE DEF s
<1>4. s.placed \in Seq(Placements(in)) /\ \A i \in 1..Len(s.placed) : PlacedAt(in, s.placed[i])
  BY <1>3 DEF PlacingOK
<1>5. PICK m \in Nat : DOMAIN s.placed = 1..m /\ Len(s.placed) = m /\ \A i \in 1..m : s.placed[i] \in Placements(in)
  <2> DEFINE P == Placements(in)
  <2>1. s.placed \in Seq(P)
    BY <1>4
  <2> HIDE DEF P
  <2>2. Len(s.placed) \in Nat /\ DOMAIN s.placed = 1..Len(s.placed) /\ \A i \in 1..Len(s.placed) : s.placed[i] \in P
    BY <2>1
  <2> QED BY <2>2 DEF P
<1>6. ASSUME NEW i \in 1..m
      PROVE  gives(i) \in FilterSpec /\ \E k \in usable(in) : gives(i).fc = in.hz[k]
  <2> DEFINE spec == s.placed[i].spec
             under == {k \in DOMAIN in.hz : InBand(spec, in.hz[k])}
             f == [k \in under |-> weight(in, k) * work.db[k]]
  <2>1. spec \in FilterSpec /\ s.placed[i].star \in usable(in) /\ spec.fc = in.hz[s.placed[i].star]
    BY <1>4, <1>5 DEF Placements, PlacedAt
  <2>2. DOMAIN in.hz = 1..n /\ n \in Nat
    BY DEF AllocInput
  <2>3. IsFiniteSet(DOMAIN f)
    BY <2>2, FS_Interval, FS_Subset
  <2>4. ASSUME NEW k \in DOMAIN f PROVE f[k] \in Int
    <3>1. k \in 1..n
      BY <2>2
    <3>2. weight(in, k) \in Nat
      BY <3>1, WeightIsNat
    <3>3. work.db[k] \in Int
      BY <1>2, <3>1 DEF Residual
    <3> QED BY <3>2, <3>3
  <2>5. SumFunction(f) \in Int
    <3> HIDE DEF f
    <3> QED BY <2>3, <2>4, SumIsInt
  <2>6. gives(i) = [spec EXCEPT !.gain = -EqSign(SumFunction(f))]
    BY DEF solveGain
  <2> DEFINE gain == -EqSign(SumFunction(f))
  <2>7. gain \in -1..1
    <3>1. ASSUME NEW x \in Int PROVE -EqSign(x) \in -1..1
      <4>1. EqSign(x) \in Int /\ EqSign(x) >= -1 /\ EqSign(x) <= 1
        BY DEF EqSign
      <4> QED BY <4>1
    <3> HIDE DEF f
    <3> QED BY <2>5, <3>1
  <2> HIDE DEF gain, spec
  <2>8. gives(i) = [spec EXCEPT !.gain = gain]
    BY <2>6 DEF gain
  <2>9. gives(i) \in FilterSpec /\ gives(i).fc = spec.fc
    BY <2>1, <2>7, <2>8, Zenon DEF FilterSpec
  <2> QED BY <2>1, <2>9, Zenon
<1> HIDE DEF gives
<1>7. ranked = [i \in 1..m |-> gives(i)]
  BY <1>5
<1>8. ranked \in Seq(FilterSpec) /\ DOMAIN ranked = 1..m /\ \A i \in 1..m : ranked[i] = gives(i)
  <2> DEFINE F == FilterSpec
  <2>1. \A i \in 1..m : gives(i) \in F
    BY <1>6
  <2> HIDE DEF F
  <2>2. [i \in 1..m |-> gives(i)] \in Seq(F)
    BY <2>1
  <2> QED BY <1>7, <2>2 DEF F
<1> HIDE DEF ranked
<1>9. \A i \in DOMAIN ranked : \E k \in usable(in) : ranked[i].fc = in.hz[k]
  BY <1>6, <1>8, Zenon
<1> QED BY <1>1, <1>8, <1>9, Zenon

-------------------------------------------------------------------------------
(* EqWorkflow: types and the inductive invariant. *)

EqPaneFields == {"meas", "measRemoved", "tgt", "tgtRemoved", "source", "chips", "firPhase", "firTaps", "grid", "db",
                 "target", "coherence", "phase", "phaseValid", "trusted", "excluded", "declined", "filters", "max"}
EqVerFields == {"state", "report", "meas", "filters", "after", "outcome"}
EqWorldFields == {"room", "phase", "phaseValid", "coherence", "rig", "grid", "transfer", "exponential", "running",
                  "outputTaken", "fir"}
EqFilters == [spec : FilterSpec, applied : BOOLEAN]

\* Bins of a grid, and values on them.
Bins(g) == DOMAIN EqGrids[g]
Levels(g) == [Bins(g) -> Int]

TraceOK(t) ==
  /\ t.grid \in DOMAIN EqGrids /\ t.db \in Levels(t.grid) /\ t.phase \in Levels(t.grid)
  /\ t.coherence \in [Bins(t.grid) -> Nat] \cup {<<>>}

\* The room has a level, a phase and a coherence on every grid; the rig is a list of filters.
WorldOK(w) ==
  /\ DOMAIN w = EqWorldFields /\ w.phaseValid \in BOOLEAN /\ w.rig \in Seq(FilterSpec)
  /\ \A g \in DOMAIN EqGrids :
         /\ w.coherence[g] \in [Bins(g) -> Nat]
         /\ \A k \in Bins(g) : w.room[EqGrids[g][k]] \in Int /\ w.phase[EqGrids[g][k]] \in Int

LibOK(lib) ==
  /\ \E n \in Nat : DOMAIN lib = 1..n
  /\ \A id \in DOMAIN lib : DOMAIN lib[id] = {"trace", "visible"} /\ TraceOK(lib[id].trace)

\* What the pane holds is on the grid of its measurement.
PaneLevels(p) ==
  /\ p.grid # "none" => p.db \in Levels(p.grid) /\ p.target \in Levels(p.grid) /\ p.phase \in Levels(p.grid)
                        /\ p.coherence \in [Bins(p.grid) -> Nat]
  /\ p.grid = "none" => p.coherence = <<>>

\* The masks are those of the coherence and of the declined bands.
PaneMasks(p) ==
  /\ p.trusted = buildTrustMask(p.coherence)
  /\ p.excluded = {k \in DOMAIN hz(p) : \E i \in DOMAIN p.declined : Declines(p.declined[i], hz(p)[k])}

SourceOK(s) == s.grid # "none" => s.grid \in DOMAIN EqGrids /\ s.db \in Levels(s.grid)

PaneOK(p) ==
  /\ DOMAIN p = EqPaneFields
  /\ p.grid \in DOMAIN EqGrids \cup {"none"} /\ p.phaseValid \in BOOLEAN /\ p.max \in Nat
  /\ p.filters \in Seq(EqFilters) /\ p.declined \in Seq(FilterSpec) /\ p.chips \in Seq(FilterSpec)
  /\ SourceOK(p.source)
  /\ PaneLevels(p) /\ PaneMasks(p)

\* The chips on screen are the ones SUGGEST makes of what the pane holds.
ChipsOf(p) == p.chips # <<>> => p.chips = suggest(p).chips

\* The measurement of the pane is the trace of the library it was picked from.
BoundTo(p, lib) ==
  /\ p.meas = 0 <=> p.grid = "none"
  /\ p.meas # 0 => /\ p.meas \in DOMAIN lib /\ p.grid = lib[p.meas].trace.grid
                   /\ p.db = lib[p.meas].trace.db /\ p.coherence = lib[p.meas].trace.coherence

\* What the filters not marked applied make of a trace.
Predicted(t, filters) ==
  [k \in Bins(t.grid) |-> t.db[k] + Sounds(Specs(filters, Unapplied(filters)), EqGrids[t.grid][k])]

\* VERIFY is about the trace it was pressed on, and its report compares the trace it stored with what
\* its filters predict of that one.
VerOK(v, lib) ==
  /\ DOMAIN v = EqVerFields
  /\ v.state # "None" => v.meas \in DOMAIN lib /\ v.outcome # "Adopted"
  /\ v.report # <<>> /\ v.after # 0 =>
        /\ v.meas \in DOMAIN lib /\ v.after \in DOMAIN lib
        /\ v.report[1].flagged
             = {k \in v.report[1].trusted : Apart(lib[v.after].trace.db[k], Predicted(lib[v.meas].trace, v.filters)[k],
                                                  lib[v.after].trace.coherence[k])}

EqIInv ==
  /\ WorldOK(eqWorld) /\ LibOK(eqLib) /\ PaneOK(eqPane) /\ ChipsOf(eqPane)
  /\ BoundTo(eqPane, eqLib) /\ VerOK(eqVer, eqLib)

\* The response of a finite collection of filters is an integer.
LEMMA SoundsIsInt ==
  ASSUME NEW specs, IsFiniteSet(DOMAIN specs), \A i \in DOMAIN specs : specs[i] \in FilterSpec, NEW f
  PROVE  Sounds(specs, f) \in Int
<1> DEFINE g == [i \in DOMAIN specs |-> responseDb(specs[i], f)]
<1>1. \A i \in DOMAIN g : g[i] \in Int
  BY DEF responseDb, FilterSpec
<1>2. DOMAIN g = DOMAIN specs
  OBVIOUS
<1>3. Sounds(specs, f) = SumFunction(g)
  BY Zenon DEF Sounds
<1> HIDE DEF g
<1> QED BY <1>1, <1>2, <1>3, SumIsInt

\* A list has finitely many places, each with one of its values.
LEMMA ListPlaces ==
  ASSUME NEW S, NEW s \in Seq(S)
  PROVE  /\ Len(s) \in Nat /\ DOMAIN s = 1..Len(s) /\ IsFiniteSet(DOMAIN s)
         /\ \A i \in DOMAIN s : s[i] \in S
<1>1. Len(s) \in Nat /\ DOMAIN s = 1..Len(s) /\ \A i \in DOMAIN s : s[i] \in S
  OBVIOUS
<1>2. IsFiniteSet(1..Len(s))
  BY <1>1, FS_Interval
<1> QED BY <1>1, <1>2

\* A function on the first places is a list.
LEMMA ListOf ==
  ASSUME NEW S, NEW n \in Nat, NEW f \in [1..n -> S]
  PROVE  f \in Seq(S)
OBVIOUS

\* The filters not marked applied sound like an integer.
LEMMA UnappliedSounds ==
  ASSUME NEW filters \in Seq(EqFilters), NEW f
  PROVE  Sounds(Specs(filters, Unapplied(filters)), f) \in Int
<1> DEFINE specs == Specs(filters, Unapplied(filters))
<1>1. DOMAIN specs = Unapplied(filters) /\ Unapplied(filters) \in SUBSET DOMAIN filters
  BY DEF Specs, Unapplied
<1>2. IsFiniteSet(DOMAIN specs)
  BY <1>1, ListPlaces, FS_Subset
<1>3. ASSUME NEW i \in DOMAIN specs PROVE specs[i] \in FilterSpec
  <2>1. i \in DOMAIN filters /\ specs[i] = filters[i].spec
    BY <1>1 DEF Specs
  <2>2. filters[i] \in EqFilters
    BY <2>1, ListPlaces
  <2> QED BY <2>1, <2>2 DEF EqFilters
<1> HIDE DEF specs
<1>4. Sounds(specs, f) \in Int
  BY <1>2, <1>3, SoundsIsInt
<1> QED BY <1>4 DEF specs

\* A grid is a list of frequencies.
LEMMA GridIsList ==
  ASSUME NEW g \in DOMAIN EqGrids
  PROVE  /\ Len(EqGrids[g]) \in Nat /\ Len(EqGrids[g]) >= 2 /\ Bins(g) = 1..Len(EqGrids[g]) /\ g # "none"
         /\ EqGrids[g] \in [Bins(g) -> 0..EqUnit] /\ EqUnit \in Nat /\ EqGrids[g] \in Seq(Nat)
<1> DEFINE S == 0..EqUnit
           e == EqGrids[g]
<1>1. e \in Seq(S) /\ Len(e) >= 2 /\ g # "none"
  BY EqAssumption
<1>2. EqUnit \in Nat
  BY EqAllocatorAssumption
<1>3. \A x \in S : x \in Nat
  BY <1>2
<1> HIDE DEF S, e
<1>4. Len(e) \in Nat /\ DOMAIN e = 1..Len(e) /\ e \in [1..Len(e) -> S] /\ e \in Seq(Nat)
  BY <1>1, <1>3
<1> QED BY <1>1, <1>2, <1>4 DEF Bins, e, S

\* What the pane gives the allocator.
LEMMA InputOfPane ==
  ASSUME NEW p, PaneOK(p), p.grid # "none"
  PROVE  /\ AllocInput(makeInput(p), Len(EqGrids[p.grid])) /\ makeInput(p) \in EqInput
         /\ makeInput(p).hz = EqGrids[p.grid] /\ makeInput(p).excluded = p.excluded
<1> DEFINE g == p.grid
           n == Len(EqGrids[g])
           in == makeInput(p)
           sound(k) == Sounds(Specs(p.filters, Unapplied(p.filters)), hz(p)[k])
<1>1. g \in DOMAIN EqGrids /\ hz(p) = EqGrids[g]
  BY DEF PaneOK, hz
<1>2. /\ n \in Nat /\ Bins(g) = 1..n /\ EqGrids[g] \in [Bins(g) -> 0..EqUnit] /\ EqUnit \in Nat /\ EqGrids[g] \in Seq(Nat)
      /\ DOMAIN hz(p) = 1..n
  BY <1>1, GridIsList DEF Bins
<1>3. p.db \in [1..n -> Int] /\ p.target \in [1..n -> Int] /\ p.phase \in [1..n -> Int] /\ p.coherence \in [1..n -> Nat]
  BY <1>2 DEF PaneOK, PaneLevels, Levels
<1>4. \A k \in 1..n : sound(k) \in Int
  BY UnappliedSounds DEF PaneOK
<1>5. ghostDb(p) = [k \in 1..n |-> p.db[k] + sound(k)]
  BY <1>2, Zenon DEF ghostDb
<1> HIDE DEF sound
<1>6. ghostDb(p) \in [1..n -> Int]
  BY <1>3, <1>4, <1>5
<1>7. workingResidualDb(p) \in [1..n -> Int]
  BY <1>2, <1>3, <1>6, SMTT(30) DEF workingResidualDb
<1>8. in = [hz |-> EqGrids[g], residual |-> workingResidualDb(p), coherence |-> p.coherence, trusted |-> p.trusted,
            excluded |-> p.excluded, phase |-> p.phase, phaseValid |-> p.phaseValid]
  BY <1>1, Zenon DEF makeInput
<1> HIDE DEF in
<1>9. /\ in.hz = EqGrids[g] /\ in.residual = workingResidualDb(p) /\ in.coherence = p.coherence
      /\ in.trusted = p.trusted /\ in.excluded = p.excluded /\ in.phase = p.phase
  BY <1>8
<1>10. p.trusted \in SUBSET (1..n) /\ \A k \in p.trusted : p.coherence[k] > 0
  BY <1>3 DEF PaneOK, PaneMasks, buildTrustMask
<1>11. p.excluded \in SUBSET (1..n) /\ p.phaseValid \in BOOLEAN
  BY <1>2, Zenon DEF PaneOK, PaneMasks
<1>12. AllocInput(in, n)
  BY <1>2, <1>3, <1>7, <1>9, <1>10 DEF AllocInput
<1>13. in \in EqInput
  <2>1. workingResidualDb(p) \in Seq(Int) /\ p.coherence \in Seq(Nat) /\ p.phase \in Seq(Int)
    BY <1>2, <1>3, <1>7, ListOf
  <2>2. p.trusted \in SUBSET Nat /\ p.excluded \in SUBSET Nat
    BY <1>10, <1>11
  <2> QED BY <1>2, <1>8, <1>11, <2>1, <2>2 DEF EqInput
<1> QED BY <1>9, <1>12, <1>13 DEF in

\* Two panes that hold the same of what a ranking reads.
SameInput(p, q) ==
  /\ q.grid = p.grid /\ q.db = p.db /\ q.target = p.target /\ q.coherence = p.coherence /\ q.phase = p.phase
  /\ q.phaseValid = p.phaseValid /\ q.trusted = p.trusted /\ q.excluded = p.excluded /\ q.filters = p.filters

\* Equal levels, masks and filters make equal rankings.
LEMMA SameInputSameRanking ==
  ASSUME NEW p, NEW q, SameInput(p, q)
  PROVE  makeInput(q) = makeInput(p)
<1>1. hz(q) = hz(p)
  BY DEF SameInput, hz
<1>2. ghostDb(q) = ghostDb(p)
  BY <1>1, Zenon DEF ghostDb, SameInput
<1>3. workingResidualDb(q) = workingResidualDb(p)
  BY <1>1, <1>2, Zenon DEF workingResidualDb, SameInput
<1> QED BY <1>1, <1>3, Zenon DEF makeInput, SameInput

\* The chips of a pane are a ranking of what it holds, or none.
LEMMA ChipsAreRanked ==
  ASSUME NEW p, DOMAIN p = EqPaneFields, ChipsOf(p), p.chips # <<>>
  PROVE  p.grid # "none" /\ p.chips = rankCandidates(makeInput(p), EqChips)
<1>1. suggest(p).chips = IF p.grid = "none" THEN <<>> ELSE rankCandidates(makeInput(p), EqChips)
  <2>1. "chips" \in DOMAIN p
    BY DEF EqPaneFields
  <2> QED BY <2>1 DEF suggest
<1>2. p.chips = suggest(p).chips
  BY DEF ChipsOf
<1> QED BY <1>1, <1>2

\* The inductive invariant implies what is checked of AUTO EQ and SUGGEST.
LEMMA EqInvFollows ==
  ASSUME EqIInv
  PROVE  EqInv
<1> DEFINE p == eqPane
           in == makeInput(p)
           work == computeWorkingResidual(in)
           s == greedyPlace(in, work, p.max)
           n == Len(EqGrids[p.grid])
<1>1. PaneOK(p) /\ ChipsOf(p) /\ p.max \in Nat /\ DOMAIN p = EqPaneFields /\ EqNyquist \in Nat /\ EqChips \in Nat
  BY EqAllocatorAssumption, EqAssumption DEF EqIInv, PaneOK
<1>2. ASSUME p.grid # "none"
      PROVE  /\ AllocInput(in, n) /\ in \in EqInput /\ in.excluded = p.excluded /\ in.hz = EqGrids[p.grid]
             /\ Residual(work, n) /\ PlacingOK(in, work, n, p.max, s) /\ s.stop
  <2>1. AllocInput(in, n) /\ in \in EqInput /\ in.excluded = p.excluded /\ in.hz = EqGrids[p.grid]
    BY <1>1, <1>2, InputOfPane
  <2> HIDE DEF in
  <2>2. Residual(work, n)
    BY <2>1, WorkingResidualIsOne
  <2> HIDE DEF work
  <2>3. PlacingOK(in, work, n, p.max, s) /\ s.stop
    BY <1>1, <2>1, <2>2, GreedyPlaceEnds
  <2> QED BY <2>1, <2>2, <2>3
<1>3. Placing = [in |-> in, work |-> work]
  BY Zenon DEF Placing
<1>4. Placing.in = in /\ Placing.work = work
  BY <1>3
<1> HIDE DEF in, work, s
<1>5. ASSUME p.grid # "none"
      PROVE  /\ s.placed \in Seq(Placements(in)) /\ DOMAIN s.placed = 1..Len(s.placed)
             /\ \A i \in DOMAIN s.placed : s.placed[i] \in Placements(in)
  <2>1. s.placed \in Seq(Placements(in))
    BY <1>2, <1>5 DEF PlacingOK
  <2> QED BY <2>1, ListPlaces
<1>6. EqPlacesUsable
  <2>1. SUFFICES ASSUME p.grid # "none"
                 PROVE  /\ in \in EqInput /\ Len(s.placed) <= p.max
                        /\ \A i \in DOMAIN s.placed :
                               /\ s.placed[i].spec \in FilterSpec /\ s.placed[i].star \in usable(in)
                               /\ DesignValid(s.placed[i].spec) /\ Solvable(in, s.placed[i].spec)
                               /\ \A j \in 1..(i - 1) : ~InBand(s.placed[j].spec, s.placed[i].spec.fc)
    BY <1>4, Zenon DEF EqPlacesUsable, hasMeasurement, s
  <2>2. in \in EqInput /\ Len(s.placed) <= p.max
    BY <1>2, <2>1 DEF PlacingOK
  <2>3. ASSUME NEW i \in DOMAIN s.placed
        PROVE  /\ s.placed[i].spec \in FilterSpec /\ s.placed[i].star \in usable(in)
               /\ DesignValid(s.placed[i].spec) /\ Solvable(in, s.placed[i].spec)
               /\ \A j \in 1..(i - 1) : ~InBand(s.placed[j].spec, s.placed[i].spec.fc)
    <3>1. i \in 1..Len(s.placed) /\ s.placed[i] \in Placements(in)
      BY <1>5, <2>1, <2>3
    <3>2. PlacedAt(in, s.placed[i]) /\ \A j \in 1..(i - 1) : ~InBand(s.placed[j].spec, s.placed[i].spec.fc)
      BY <1>2, <2>1, <3>1, Zenon DEF PlacingOK
    <3>3. s.placed[i].spec \in FilterSpec /\ s.placed[i].star \in usable(in)
      BY <3>1 DEF Placements
    <3> QED BY <3>2, <3>3 DEF PlacedAt
  <2> QED BY <2>2, <2>3
<1>7. EqStopsWhenDone
  <2>1. SUFFICES ASSUME p.grid # "none"
                 PROVE  /\ s.stop
                        /\ Len(s.placed) < p.max =>
                               \A k \in usable(in) \ s.refused :
                                   \/ EqAbs(work.db[k]) < EqMinDb * work.scale
                                   \/ \E i \in DOMAIN s.placed : InBand(s.placed[i].spec, in.hz[k])
    BY <1>4, Zenon DEF EqStopsWhenDone, hasMeasurement, s
  <2>2. SUFFICES ASSUME Len(s.placed) < p.max, NEW k \in usable(in) \ s.refused
                 PROVE  \/ EqAbs(work.db[k]) < EqMinDb * work.scale
                        \/ \E i \in DOMAIN s.placed : InBand(s.placed[i].spec, in.hz[k])
    BY <1>2, <2>1
  <2> DEFINE open == usable(in) \ s.blocked
             star == largest(work.db, open)
  <2>3. CASE k \in s.blocked
    BY <1>2, <1>5, <2>1, <2>2, <2>3, Zenon DEF PlacingOK
  <2>4. CASE k \notin s.blocked
    <3>1. k \in open
      BY <2>2, <2>4
    <3>2. Len(s.placed) \in Nat
      BY <1>5, <2>1, ListPlaces
    <3>3. ~(Len(s.placed) >= p.max)
      BY <1>1, <2>2, <3>2
    <3>4. NothingLeft(in, work, p.max, s)
      BY <1>2, <2>1, Zenon DEF PlacingOK
    <3>5. EqAbs(work.db[star]) < EqMinDb * work.scale
      BY <3>1, <3>3, <3>4, Zenon DEF NothingLeft
    <3>6. n \in Nat /\ work.db \in [1..n -> Int] /\ open \in SUBSET (1..n) /\ work.scale \in Nat /\ EqMinDb \in Nat
      BY <1>2, <2>1, EqAllocatorAssumption DEF Residual, AllocInput, usable
    <3> HIDE DEF open
    <3>7. star \in open /\ \A j \in open : EqAbs(work.db[j]) <= EqAbs(work.db[star])
      BY <3>1, <3>6, LargestDeviates
    <3>8. EqAbs(work.db[k]) <= EqAbs(work.db[star]) /\ star \in 1..n /\ k \in 1..n
      BY <3>1, <3>6, <3>7
    <3> HIDE DEF star
    <3>9. EqAbs(work.db[k]) \in Nat /\ EqAbs(work.db[star]) \in Nat /\ EqMinDb * work.scale \in Nat
      <4>1. work.db[k] \in Int /\ work.db[star] \in Int
        BY <3>6, <3>8
      <4>2. EqMinDb * work.scale \in Nat
        BY <3>6
      <4> QED BY <4>1, <4>2, AbsIsNat
    <3> QED BY <3>5, <3>8, <3>9
  <2> QED BY <2>3, <2>4
<1>8. EqDeclinedStaysOut
  <2>1. SUFFICES ASSUME NEW i \in DOMAIN p.chips, NEW j \in DOMAIN p.declined, Declines(p.declined[j], p.chips[i].fc)
                 PROVE  FALSE
    BY DEF EqDeclinedStaysOut
  <2>2. p.chips # <<>>
    BY <2>1
  <2>3. p.grid # "none" /\ p.chips = rankCandidates(in, EqChips)
    BY <1>1, <2>2, ChipsAreRanked DEF in
  <2>4. PICK k \in usable(in) : p.chips[i].fc = in.hz[k]
    <3>1. AllocInput(in, n)
      BY <1>2, <2>3
    <3> QED BY <1>1, <2>1, <2>3, <3>1, CandidatesAreUsable, SMTT(30)
  <2>5. k \in 1..n /\ k \notin p.excluded /\ in.hz = hz(p)
    BY <1>2, <2>3 DEF usable, AllocInput, hz
  <2>6. k \in DOMAIN hz(p)
    BY <1>2, <2>3, <2>5 DEF AllocInput
  <2>7. k \in p.excluded
    BY <1>1, <2>1, <2>4, <2>5, <2>6, Zenon DEF PaneOK, PaneMasks
  <2> QED BY <2>5, <2>7
<1>9. EqChipsCurrent
  BY <1>1 DEF EqChipsCurrent, ChipsOf
<1> QED BY <1>6, <1>7, <1>8, <1>9 DEF EqInv


\* Of the places that are kept, one is the k-th.
LEMMA KthPlace ==
  ASSUME NEW n \in Nat, NEW P \in SUBSET (1..n), NEW k \in 1..Cardinality(P)
  PROVE  \E i \in P : Cardinality({j \in P : j <= i}) = k
<1> DEFINE UpTo(i) == {j \in P : j <= i}
           T == {i \in Nat : Cardinality(UpTo(i)) >= k}
<1>0. \A j \in P : j \in Int /\ 1 <= j /\ j <= n
  OBVIOUS
<1>1. IsFiniteSet(P) /\ Cardinality(P) \in Nat /\ k \in Nat /\ k >= 1 /\ k <= Cardinality(P)
  <2>1. IsFiniteSet(1..n)
    BY FS_Interval
  <2>2. IsFiniteSet(P)
    BY <2>1, FS_Subset
  <2>3. Cardinality(P) \in Nat
    BY <2>2, FS_CardinalityType
  <2> QED BY <2>2, <2>3
<1>2. ASSUME NEW i \in Nat PROVE IsFiniteSet(UpTo(i)) /\ Cardinality(UpTo(i)) \in Nat
  <2>1. UpTo(i) \in SUBSET P
    OBVIOUS
  <2>2. IsFiniteSet(UpTo(i))
    BY <1>1, <2>1, FS_Subset
  <2> QED BY <2>2, FS_CardinalityType
<1>3. UpTo(n) = P
  BY <1>0
<1>4. n \in T
  BY <1>1, <1>3
<1>5. PICK i \in T : \A j \in T : i <= j
  <2>1. T \in SUBSET Nat /\ T # {}
    BY <1>4
  <2> HIDE DEF T
  <2> QED BY <2>1, LeastNat
<1>6. i # 0
  <2>1. SUFFICES ASSUME i = 0 PROVE FALSE
    OBVIOUS
  <2>2. UpTo(0) = {}
    <3>1. \A j \in P : ~(j <= 0)
      BY <1>0
    <3> QED BY <3>1
  <2>3. Cardinality(UpTo(0)) = 0
    BY <2>2, FS_EmptySet
  <2> QED BY <1>1, <1>5, <2>1, <2>3
<1>7. Cardinality(UpTo(i - 1)) < k /\ i - 1 \in Nat /\ i \in Nat
  <2>1. i \in Nat /\ i - 1 \in Nat
    BY <1>5, <1>6
  <2>2. i - 1 \notin T
    <3> HIDE DEF T
    <3> QED BY <1>5, <2>1
  <2>3. Cardinality(UpTo(i - 1)) \in Nat
    BY <1>2, <2>1
  <2>4. k \in Nat
    BY <1>1
  <2>5. ~(Cardinality(UpTo(i - 1)) >= k)
    BY <2>1, <2>2
  <2> HIDE DEF UpTo
  <2> QED BY <2>1, <2>3, <2>4, <2>5
<1>8. i \in P
  <2>1. SUFFICES ASSUME i \notin P PROVE FALSE
    OBVIOUS
  <2>2. UpTo(i) = UpTo(i - 1)
    <3>1. \A j \in P : j <= i <=> j <= i - 1
      BY <1>0, <1>7, <2>1
    <3> QED BY <3>1
  <2>3. Cardinality(UpTo(i)) >= k
    BY <1>5
  <2>4. Cardinality(UpTo(i - 1)) \in Nat /\ k \in Nat
    <3> HIDE DEF UpTo
    <3> QED BY <1>1, <1>2, <1>7
  <2> HIDE DEF UpTo
  <2> QED BY <1>7, <2>2, <2>3, <2>4
<1>9. Cardinality(UpTo(i)) = Cardinality(UpTo(i - 1)) + 1
  <2>1. UpTo(i) = UpTo(i - 1) \cup {i}
    <3>1. \A j \in P : j <= i <=> (j <= i - 1 \/ j = i)
      BY <1>0, <1>7
    <3> QED BY <1>8, <3>1
  <2>2. i \notin UpTo(i - 1)
    BY <1>7
  <2>3. IsFiniteSet(UpTo(i - 1))
    BY <1>2, <1>7
  <2> HIDE DEF UpTo
  <2> QED BY <2>1, <2>2, <2>3, FS_AddElement
<1>10. Cardinality(UpTo(i)) = k
  <2>1. Cardinality(UpTo(i)) >= k
    BY <1>5
  <2>2. Cardinality(UpTo(i - 1)) \in Nat /\ k \in Nat
    <3> HIDE DEF UpTo
    <3> QED BY <1>1, <1>2, <1>7
  <2> HIDE DEF UpTo
  <2> QED BY <1>7, <1>9, <2>1, <2>2
<1> QED BY <1>8, <1>10

\* What remove_if leaves is a list of filters.
LEMMA AppliedOnlyType ==
  ASSUME NEW S, NEW s \in Seq(S)
  PROVE  AppliedOnly(s) \in Seq(S)
<1> DEFINE places == DOMAIN s \ Unapplied(s)
           at(k) == CHOOSE i \in places : Cardinality({j \in places : j <= i}) = k
<1>1. AppliedOnly(s) = [k \in 1..Cardinality(places) |-> s[at(k)]]
  BY DEF AppliedOnly
<1>2. Len(s) \in Nat /\ DOMAIN s = 1..Len(s) /\ places \in SUBSET (1..Len(s))
  OBVIOUS
<1>3. ASSUME NEW k \in 1..Cardinality(places) PROVE s[at(k)] \in S
  <2>1. \E i \in places : Cardinality({j \in places : j <= i}) = k
    <3> HIDE DEF places
    <3> QED BY <1>2, KthPlace
  <2>2. at(k) \in places
    <3> HIDE DEF places
    <3> QED BY <2>1
  <2> QED BY <1>2, <2>2
<1>4. Cardinality(places) \in Nat
  <2>1. IsFiniteSet(1..Len(s))
    BY <1>2, FS_Interval
  <2>2. IsFiniteSet(places)
    BY <1>2, <2>1, FS_Subset
  <2> QED BY <2>2, FS_CardinalityType
<1> HIDE DEF places, at
<1> QED BY <1>1, <1>3, <1>4

-------------------------------------------------------------------------------
(* EqWorkflow: the operations on the pane. *)

\* Two panes that agree on every field but those of F.
SameBut(p, q, F) == DOMAIN q = EqPaneFields /\ \A f \in EqPaneFields \ F : q[f] = p[f]

\* A pane that keeps its measurement, its target and its declined bands keeps their masks.
LEMMA PaneKeeps ==
  ASSUME NEW p, NEW q, PaneOK(p),
         SameBut(p, q, {"meas", "measRemoved", "tgt", "tgtRemoved", "firPhase", "firTaps", "max", "chips", "filters"}),
         q.max \in Nat, q.chips \in Seq(FilterSpec), q.filters \in Seq(EqFilters)
  PROVE  PaneOK(q) /\ (q.filters = p.filters => SameInput(p, q))
<1>1. /\ q.grid = p.grid /\ q.db = p.db /\ q.target = p.target /\ q.coherence = p.coherence /\ q.phase = p.phase
      /\ q.phaseValid = p.phaseValid /\ q.trusted = p.trusted /\ q.excluded = p.excluded /\ q.declined = p.declined
      /\ q.source = p.source /\ DOMAIN q = EqPaneFields
  BY DEF SameBut, EqPaneFields
<1>2. hz(q) = hz(p)
  BY <1>1 DEF hz
<1>3. PaneLevels(q)
  BY <1>1, Zenon DEF PaneOK, PaneLevels
<1>4. PaneMasks(q)
  BY <1>1, <1>2, Zenon DEF PaneOK, PaneMasks
<1>5. PaneOK(q)
  BY <1>1, <1>3, <1>4, Zenon DEF PaneOK
<1>6. q.filters = p.filters => SameInput(p, q)
  BY <1>1, Zenon DEF SameInput
<1> QED BY <1>5, <1>6

\* SUGGEST ranks, and changes nothing else.
LEMMA SuggestRanks ==
  ASSUME NEW p, PaneOK(p)
  PROVE  PaneOK(suggest(p)) /\ ChipsOf(suggest(p)) /\ SameBut(p, suggest(p), {"chips"})
<1> DEFINE chips == IF p.grid = "none" THEN <<>> ELSE rankCandidates(makeInput(p), EqChips)
           q == suggest(p)
<1>1. DOMAIN p = EqPaneFields
  BY DEF PaneOK
<1>2. q = [p EXCEPT !.chips = chips]
  BY Zenon DEF suggest
<1>3. chips \in Seq(FilterSpec)
  <2>1. CASE p.grid = "none"
    BY <2>1
  <2>2. CASE p.grid # "none"
    <3>1. AllocInput(makeInput(p), Len(EqGrids[p.grid]))
      BY <2>2, InputOfPane
    <3>2. EqNyquist \in Nat /\ EqChips \in Nat
      BY EqAllocatorAssumption, EqAssumption
    <3>3. rankCandidates(makeInput(p), EqChips) \in Seq(FilterSpec)
      BY <3>1, <3>2, CandidatesAreUsable
    <3> QED BY <2>2, <3>3
  <2> QED BY <2>1, <2>2
<1> HIDE DEF q
<1>4. SameBut(p, q, {"chips"}) /\ q.chips = chips /\ q.max = p.max /\ q.filters = p.filters /\ q.grid = p.grid
  <2> HIDE DEF chips
  <2> QED BY <1>1, <1>2 DEF SameBut, EqPaneFields
<1>5. p.max \in Nat /\ p.filters \in Seq(EqFilters)
  BY DEF PaneOK
<1>6. SameBut(p, q, {"meas", "measRemoved", "tgt", "tgtRemoved", "firPhase", "firTaps", "max", "chips", "filters"})
  BY <1>4, Zenon DEF SameBut
<1>7. PaneOK(q) /\ SameInput(p, q)
  <2> HIDE DEF chips
  <2> QED BY <1>3, <1>4, <1>5, <1>6, PaneKeeps
<1>8. makeInput(q) = makeInput(p)
  BY <1>7, SameInputSameRanking
<1>9. suggest(q).chips = IF q.grid = "none" THEN <<>> ELSE rankCandidates(makeInput(q), EqChips)
  <2>1. "chips" \in DOMAIN q
    BY <1>4 DEF SameBut, EqPaneFields
  <2> QED BY <2>1 DEF suggest
<1>10. ChipsOf(q)
  BY <1>4, <1>8, <1>9, Zenon DEF ChipsOf
<1> QED BY <1>4, <1>7, <1>10 DEF q

\* A target on another grid has a level for each of its bins.
LEMMA ResampledIsLevels ==
  ASSUME NEW source, SourceOK(source), NEW g \in DOMAIN EqGrids
  PROVE  resampleTargetDb(source, g) \in Levels(g)
<1> DEFINE from == EqGrids[source.grid]
           below(f) == {k \in DOMAIN from : from[k] > 0 /\ from[k] <= f}
           at(f) == IF below(f) = {} THEN source.db[2] ELSE source.db[Max(below(f))]
<1>1. resampleTargetDb(source, g)
        = IF source.grid = "none" THEN [k \in DOMAIN EqGrids[g] |-> 0]
          ELSE IF source.grid = g THEN source.db ELSE [k \in DOMAIN EqGrids[g] |-> at(EqGrids[g][k])]
  BY Zenon DEF resampleTargetDb
<1>2. CASE source.grid = "none"
  BY <1>1, <1>2 DEF Levels, Bins
<1>3. CASE source.grid # "none"
  <2>1. source.grid \in DOMAIN EqGrids /\ source.db \in Levels(source.grid)
    BY <1>3 DEF SourceOK
  <2> DEFINE n == Len(from)
  <2>2. n \in Nat /\ n >= 2 /\ DOMAIN from = 1..n /\ source.db \in [1..n -> Int]
    BY <2>1, GridIsList DEF Bins, Levels
  <2> HIDE DEF from, n
  <2>3. ASSUME NEW f PROVE at(f) \in Int
    <3>1. below(f) \in SUBSET (0..n)
      BY <2>2
    <3>2. below(f) # {} => Max(below(f)) \in below(f)
      <4> HIDE DEF below
      <4> QED BY <2>2, <3>1, MaxBelow
    <3>3. below(f) # {} => Max(below(f)) \in 1..n
      BY <2>2, <3>2
    <3>4. 2 \in 1..n
      BY <2>2
    <3> HIDE DEF below
    <3> QED BY <2>2, <3>3, <3>4
  <2> HIDE DEF at
  <2>4. [k \in DOMAIN EqGrids[g] |-> at(EqGrids[g][k])] \in Levels(g)
    BY <2>3 DEF Levels, Bins
  <2>5. source.grid = g => source.db \in Levels(g)
    BY <2>1
  <2> QED BY <1>1, <1>3, <2>4, <2>5
<1> QED BY <1>2, <1>3

\* What is loaded into the session has its target and its masks on its own grid.
LEMMA LoadedIsPane ==
  ASSUME NEW p, DOMAIN p = EqPaneFields, p.grid \in DOMAIN EqGrids, p.db \in Levels(p.grid), p.phase \in Levels(p.grid),
         p.coherence \in [Bins(p.grid) -> Nat], p.phaseValid \in BOOLEAN, p.max \in Nat, p.filters \in Seq(EqFilters),
         p.declined \in Seq(FilterSpec), p.chips \in Seq(FilterSpec), SourceOK(p.source)
  PROVE  PaneOK(loadIntoSession(p)) /\ SameBut(p, loadIntoSession(p), {"target", "trusted", "excluded"})
<1> DEFINE target == resampleTargetDb(p.source, p.grid)
           a == [p EXCEPT !.target = target]
           b == [a EXCEPT !.trusted = buildTrustMask(a.coherence)]
           excluded == {k \in DOMAIN hz(b) : \E i \in DOMAIN b.declined : Declines(b.declined[i], hz(b)[k])}
           q == [b EXCEPT !.excluded = excluded]
<1>1. loadIntoSession(p) = q
  BY Zenon DEF loadIntoSession, setMeasurement, rebuildExclusionMask
<1>2. target \in Levels(p.grid)
  BY ResampledIsLevels
<1> HIDE DEF target
<1>3. SameBut(p, a, {"target"}) /\ a.target = target /\ a.coherence = p.coherence
  BY DEF SameBut, EqPaneFields
<1> HIDE DEF a
<1>4. SameBut(a, b, {"trusted"}) /\ b.trusted = buildTrustMask(p.coherence)
  BY <1>3 DEF SameBut, EqPaneFields
<1> HIDE DEF b
<1>5. SameBut(b, q, {"excluded"}) /\ q.excluded = excluded
  <2> HIDE DEF excluded
  <2> QED BY <1>4 DEF SameBut, EqPaneFields
<1> HIDE DEF q
<1>6. SameBut(p, q, {"target", "trusted", "excluded"})
  BY <1>3, <1>4, <1>5 DEF SameBut
<1>7. /\ q.grid = p.grid /\ q.db = p.db /\ q.coherence = p.coherence /\ q.phase = p.phase /\ q.chips = p.chips
      /\ q.phaseValid = p.phaseValid /\ q.declined = p.declined /\ q.filters = p.filters /\ q.max = p.max
      /\ q.source = p.source /\ DOMAIN q = EqPaneFields
  BY <1>6 DEF SameBut, EqPaneFields
<1>8. q.target = target /\ q.trusted = buildTrustMask(p.coherence)
  BY <1>3, <1>4, <1>5 DEF SameBut, EqPaneFields
<1>9. b.grid = p.grid /\ b.declined = p.declined
  BY <1>3, <1>4 DEF SameBut, EqPaneFields
<1>10. hz(b) = hz(q)
  BY <1>7, <1>9 DEF hz
<1>11. PaneMasks(q)
  BY <1>5, <1>7, <1>8, <1>9, <1>10, Zenon DEF PaneMasks
<1>12. p.grid # "none"
  BY GridIsList
<1>13. PaneLevels(q)
  BY <1>2, <1>7, <1>8, <1>12 DEF PaneLevels
<1>14. PaneOK(q)
  BY <1>7, <1>11, <1>13, Zenon DEF PaneOK
<1> QED BY <1>1, <1>6, <1>14

\* A pane that keeps its pick and what it copied stays bound to it.
LEMMA StaysBound ==
  ASSUME NEW p, NEW q, NEW lib, BoundTo(p, lib), q.meas = p.meas, q.grid = p.grid, q.db = p.db, q.coherence = p.coherence
  PROVE  BoundTo(q, lib)
BY Zenon DEF BoundTo

\* A ranking stays one of what the pane holds when that stays.
LEMMA ChipsStay ==
  ASSUME NEW p, NEW q, SameInput(p, q), ChipsOf(p), q.chips = p.chips, DOMAIN p = EqPaneFields, DOMAIN q = EqPaneFields
  PROVE  ChipsOf(q)
<1>1. makeInput(q) = makeInput(p) /\ q.grid = p.grid
  BY SameInputSameRanking DEF SameInput
<1>2. "chips" \in DOMAIN p /\ "chips" \in DOMAIN q
  BY DEF EqPaneFields
<1>3. suggest(q).chips = suggest(p).chips
  BY <1>1, <1>2 DEF suggest
<1> QED BY <1>3 DEF ChipsOf

\* A step of the pane.
LEMMA PaneStep ==
  ASSUME EqIInv, UNCHANGED <<eqWorld, eqLib, eqVer>>, PaneOK(eqPane'), ChipsOf(eqPane'), BoundTo(eqPane', eqLib)
  PROVE  EqIInv'
<1>1. eqWorld' = eqWorld /\ eqLib' = eqLib /\ eqVer' = eqVer
  OBVIOUS
<1>2. PaneOK(eqPane)' /\ ChipsOf(eqPane)'
  BY DEF PaneOK, ChipsOf, suggest, makeInput, workingResidualDb, ghostDb, hz, Unapplied, Specs, Sounds, PaneLevels,
         PaneMasks, SourceOK
<1>3. WorldOK(eqWorld)' /\ LibOK(eqLib)' /\ VerOK(eqVer, eqLib)'
  BY <1>1 DEF EqIInv
<1>4. BoundTo(eqPane, eqLib)'
  BY <1>1
<1> QED BY <1>2, <1>3, <1>4 DEF EqIInv

\* The pick of a usable trace: the pane is bound to it, and shows no chip.
LEMMA SelectedIsPane ==
  ASSUME EqIInv, NEW id, measurementUsable(id)
  PROVE  LET q == selectMeasurement(eqPane, id)
         IN  /\ PaneOK(q) /\ q.chips = <<>> /\ BoundTo(q, eqLib) /\ q.filters = eqPane.filters
             /\ q.db = eqLib[id].trace.db /\ q.coherence = eqLib[id].trace.coherence
<1> DEFINE p == eqPane
           t == eqLib[id].trace
           a == [p EXCEPT !.meas = id, !.measRemoved = FALSE, !.grid = t.grid, !.db = t.db, !.coherence = t.coherence,
                          !.phase = t.phase, !.phaseValid = eqWorld.phaseValid, !.chips = <<>>]
           q == loadIntoSession(a)
<1>1. selectMeasurement(eqPane, id) = q
  BY Zenon DEF selectMeasurement
<1>2. /\ id \in DOMAIN eqLib /\ t.coherence # <<>> /\ PaneOK(p) /\ DOMAIN p = EqPaneFields
      /\ eqWorld.phaseValid \in BOOLEAN
  BY DEF measurementUsable, pickedAndVisible, EqIInv, PaneOK, WorldOK
<1>3. t.grid \in DOMAIN EqGrids /\ t.db \in Levels(t.grid) /\ t.phase \in Levels(t.grid) /\ t.coherence \in [Bins(t.grid) -> Nat]
  BY <1>2, Zenon DEF EqIInv, LibOK, TraceOK
<1> HIDE DEF t
<1>4. /\ DOMAIN a = EqPaneFields /\ a.meas = id /\ a.grid = t.grid /\ a.db = t.db /\ a.coherence = t.coherence
      /\ a.phase = t.phase /\ a.phaseValid = eqWorld.phaseValid /\ a.chips = <<>> /\ a.max = p.max
      /\ a.filters = p.filters /\ a.declined = p.declined /\ a.source = p.source
  BY <1>2 DEF EqPaneFields
<1> HIDE DEF a
<1>5. a.max \in Nat /\ a.filters \in Seq(EqFilters) /\ a.declined \in Seq(FilterSpec) /\ SourceOK(a.source)
  BY <1>2, <1>4, Zenon DEF PaneOK
<1>6. a.chips \in Seq(FilterSpec)
  BY <1>4
<1>7. PaneOK(q) /\ SameBut(a, q, {"target", "trusted", "excluded"})
  BY <1>2, <1>3, <1>4, <1>5, <1>6, LoadedIsPane
<1> HIDE DEF q
<1>8. q.meas = id /\ q.grid = t.grid /\ q.db = t.db /\ q.coherence = t.coherence /\ q.chips = <<>> /\ q.filters = p.filters
  BY <1>4, <1>7 DEF SameBut, EqPaneFields
<1>9. id # 0 /\ t.grid # "none"
  <2>1. PICK n \in Nat : DOMAIN eqLib = 1..n
    BY DEF EqIInv, LibOK
  <2> QED BY <1>2, <1>3, <2>1, GridIsList
<1>10. BoundTo(q, eqLib)
  BY <1>2, <1>8, <1>9 DEF BoundTo, t
<1> QED BY <1>1, <1>7, <1>8, <1>10 DEF t

\* No chip on screen is a ranking of anything.
LEMMA NoChips ==
  ASSUME NEW p, p.chips = <<>>
  PROVE  ChipsOf(p)
BY DEF ChipsOf

\* A pick: a usable trace is copied, anything else changes nothing.
LEMMA SelectMeasurementStep ==
  ASSUME EqIInv, NEW id, EqSelectMeasurement(id)
  PROVE  EqIInv'
<1>1. UNCHANGED <<eqWorld, eqLib, eqVer>>
  BY DEF EqSelectMeasurement
<1>2. CASE measurementUsable(id)
  <2>1. eqPane' = selectMeasurement(eqPane, id)
    BY <1>2 DEF EqSelectMeasurement
  <2>2. PaneOK(eqPane') /\ eqPane'.chips = <<>> /\ BoundTo(eqPane', eqLib)
    BY <1>2, <2>1, SelectedIsPane
  <2> QED BY <1>1, <2>2, NoChips, PaneStep
<1>3. CASE ~measurementUsable(id)
  <2>1. eqPane' = eqPane
    BY <1>3 DEF EqSelectMeasurement
  <2>2. PaneOK(eqPane') /\ ChipsOf(eqPane') /\ BoundTo(eqPane', eqLib)
    BY <2>1 DEF EqIInv
  <2> QED BY <1>1, <2>2, PaneStep
<1> QED BY <1>2, <1>3

\* A target: it is put on the grid of the measurement, and the chips go.
LEMMA SelectTargetStep ==
  ASSUME EqIInv, NEW id, EqSelectTarget(id)
  PROVE  EqIInv'
<1> DEFINE source == IF id = 0 THEN NoTarget ELSE [grid |-> eqLib[id].trace.grid, db |-> eqLib[id].trace.db]
           p == [eqPane EXCEPT !.tgt = id, !.tgtRemoved = FALSE, !.chips = <<>>, !.source = source]
<1>1. /\ UNCHANGED <<eqWorld, eqLib, eqVer>>
      /\ id = 0 \/ (pickedAndVisible(id) /\ eqLib[id].trace.finite)
      /\ eqPane' = IF hasMeasurement THEN loadIntoSession(p) ELSE p
  BY Zenon DEF EqSelectTarget
<1>2. PaneOK(eqPane) /\ DOMAIN eqPane = EqPaneFields /\ BoundTo(eqPane, eqLib)
  BY DEF EqIInv, PaneOK
<1>3. SourceOK(source)
  <2>1. CASE id = 0
    BY <2>1 DEF SourceOK, NoTarget
  <2>2. CASE id # 0
    <3>1. TraceOK(eqLib[id].trace)
      BY <1>1, <2>2 DEF EqIInv, LibOK, pickedAndVisible
    <3>2. source.grid = eqLib[id].trace.grid /\ source.db = eqLib[id].trace.db
      BY <2>2
    <3> HIDE DEF source
    <3> QED BY <3>1, <3>2 DEF SourceOK, TraceOK
  <2> QED BY <2>1, <2>2
<1> HIDE DEF source
<1>4. SameBut(eqPane, p, {"tgt", "tgtRemoved", "chips", "source"}) /\ p.chips = <<>> /\ p.source = source
  BY <1>2 DEF SameBut, EqPaneFields
<1> HIDE DEF p
<1>5. /\ p.grid = eqPane.grid /\ p.db = eqPane.db /\ p.coherence = eqPane.coherence /\ p.phase = eqPane.phase
      /\ p.phaseValid = eqPane.phaseValid /\ p.declined = eqPane.declined /\ p.filters = eqPane.filters
      /\ p.max = eqPane.max /\ p.meas = eqPane.meas /\ p.target = eqPane.target /\ p.trusted = eqPane.trusted
      /\ p.excluded = eqPane.excluded /\ DOMAIN p = EqPaneFields
  BY <1>4 DEF SameBut, EqPaneFields
<1>6. p.chips \in Seq(FilterSpec)
  BY <1>4
<1>7. CASE hasMeasurement
  <2>1. eqPane' = loadIntoSession(p)
    BY <1>1, <1>7
  <2>2. p.grid \in DOMAIN EqGrids /\ p.db \in Levels(p.grid) /\ p.phase \in Levels(p.grid) /\ p.coherence \in [Bins(p.grid) -> Nat]
        /\ p.phaseValid \in BOOLEAN /\ p.max \in Nat /\ p.filters \in Seq(EqFilters) /\ p.declined \in Seq(FilterSpec)
    BY <1>2, <1>5, <1>7, Zenon DEF PaneOK, PaneLevels, hasMeasurement
  <2>3. PaneOK(eqPane') /\ SameBut(p, eqPane', {"target", "trusted", "excluded"})
    BY <1>3, <1>4, <1>5, <1>6, <2>1, <2>2, LoadedIsPane
  <2>4. /\ eqPane'.chips = <<>> /\ eqPane'.meas = eqPane.meas /\ eqPane'.grid = eqPane.grid /\ eqPane'.db = eqPane.db
        /\ eqPane'.coherence = eqPane.coherence
    BY <1>4, <1>5, <2>3 DEF SameBut, EqPaneFields
  <2> QED BY <1>1, <1>2, <2>3, <2>4, NoChips, StaysBound, PaneStep
<1>8. CASE ~hasMeasurement
  <2>1. eqPane' = p
    BY <1>1, <1>8
  <2>2. hz(p) = hz(eqPane)
    BY <1>5 DEF hz
  <2>3. PaneMasks(p) /\ PaneLevels(p)
    BY <1>2, <1>5, <2>2, Zenon DEF PaneOK, PaneMasks, PaneLevels
  <2>4. PaneOK(p)
    BY <1>2, <1>3, <1>4, <1>5, <1>6, <2>3, Zenon DEF PaneOK
  <2> QED BY <1>1, <1>2, <1>4, <1>5, <2>1, <2>4, NoChips, StaysBound, PaneStep
<1> QED BY <1>7, <1>8

\* A step that leaves the measurement, the target, the declined bands, the filters and the chips.
LEMMA AsideStep ==
  ASSUME EqIInv, UNCHANGED <<eqWorld, eqLib, eqVer>>,
         SameBut(eqPane, eqPane', {"measRemoved", "tgtRemoved", "firPhase", "firTaps", "max"}), eqPane'.max \in Nat
  PROVE  EqIInv'
<1>1. PaneOK(eqPane) /\ ChipsOf(eqPane) /\ BoundTo(eqPane, eqLib) /\ DOMAIN eqPane = EqPaneFields
  BY DEF EqIInv, PaneOK
<1>2. /\ eqPane'.chips = eqPane.chips /\ eqPane'.filters = eqPane.filters /\ eqPane'.meas = eqPane.meas
      /\ eqPane'.grid = eqPane.grid /\ eqPane'.db = eqPane.db /\ eqPane'.coherence = eqPane.coherence
      /\ DOMAIN eqPane' = EqPaneFields
  BY DEF SameBut, EqPaneFields
<1>3. eqPane'.chips \in Seq(FilterSpec) /\ eqPane'.filters \in Seq(EqFilters)
  BY <1>1, <1>2 DEF PaneOK
<1>4. SameBut(eqPane, eqPane', {"meas", "measRemoved", "tgt", "tgtRemoved", "firPhase", "firTaps", "max", "chips", "filters"})
  BY Zenon DEF SameBut
<1>5. PaneOK(eqPane') /\ SameInput(eqPane, eqPane')
  BY <1>1, <1>2, <1>3, <1>4, PaneKeeps
<1>6. ChipsOf(eqPane')
  BY <1>1, <1>2, <1>5, ChipsStay
<1>7. BoundTo(eqPane', eqLib)
  BY <1>1, <1>2, StaysBound
<1> QED BY <1>5, <1>6, <1>7, PaneStep

\* The library changed: only the two marks of a trace that went.
LEMMA SyncLibraryStep ==
  ASSUME EqIInv, EqSyncLibrary
  PROVE  EqIInv'
<1> DEFINE removed(id) == id # 0 /\ ~pickedAndVisible(id)
<1>1. /\ UNCHANGED <<eqWorld, eqLib, eqVer>>
      /\ eqPane' = [eqPane EXCEPT !.measRemoved = removed(eqPane.meas), !.tgtRemoved = removed(eqPane.tgt)]
  BY Zenon DEF EqSyncLibrary
<1> HIDE DEF removed
<1>2. DOMAIN eqPane = EqPaneFields /\ eqPane.max \in Nat
  BY DEF EqIInv, PaneOK
<1>3. SameBut(eqPane, eqPane', {"measRemoved", "tgtRemoved", "firPhase", "firTaps", "max"}) /\ eqPane'.max \in Nat
  BY <1>1, <1>2 DEF SameBut, EqPaneFields
<1> QED BY <1>1, <1>3, AsideStep

\* The number of filters, clamped.
LEMMA SetMaxFiltersStep ==
  ASSUME EqIInv, NEW n \in {0, 2}, EqSetMaxFilters(n)
  PROVE  EqIInv'
<1> DEFINE most == Max({1, Min({n, 16})})
<1>1. UNCHANGED <<eqWorld, eqLib, eqVer>> /\ eqPane' = [eqPane EXCEPT !.max = most]
  BY Zenon DEF EqSetMaxFilters
<1>2. most \in Nat
  <2>1. Min({n, 16}) \in {n, 16}
    BY MinOfPair
  <2>2. Min({n, 16}) \in Int
    BY <2>1
  <2>3. most \in Int /\ most >= 1
    <3> DEFINE least == Min({n, 16})
    <3> HIDE DEF least
    <3>1. least \in Int
      BY <2>2 DEF least
    <3>2. Max({1, least}) \in {1, least} /\ Max({1, least}) >= 1
      BY <3>1, MaxOfPair
    <3>3. Max({1, least}) \in Int
      BY <3>1, <3>2
    <3> QED BY <3>2, <3>3 DEF least
  <2> QED BY <2>3
<1> HIDE DEF most
<1>3. DOMAIN eqPane = EqPaneFields
  BY DEF EqIInv, PaneOK
<1>4. SameBut(eqPane, eqPane', {"measRemoved", "tgtRemoved", "firPhase", "firTaps", "max"}) /\ eqPane'.max \in Nat
  BY <1>1, <1>2, <1>3 DEF SameBut, EqPaneFields
<1> QED BY <1>1, <1>4, AsideStep

\* The answers to the FIR questions.
LEMMA SetFirStep ==
  ASSUME EqIInv, NEW phase, NEW taps, EqSetFir(phase, taps)
  PROVE  EqIInv'
<1>1. UNCHANGED <<eqWorld, eqLib, eqVer>> /\ eqPane' = [eqPane EXCEPT !.firPhase = phase, !.firTaps = taps]
  BY DEF EqSetFir
<1>2. DOMAIN eqPane = EqPaneFields /\ eqPane.max \in Nat
  BY DEF EqIInv, PaneOK
<1>3. SameBut(eqPane, eqPane', {"measRemoved", "tgtRemoved", "firPhase", "firTaps", "max"}) /\ eqPane'.max \in Nat
  BY <1>1, <1>2 DEF SameBut, EqPaneFields
<1> QED BY <1>1, <1>3, AsideStep

\* A step that edits the filters and leaves no chip, or the ranking of what the pane now holds.
LEMMA FiltersStep ==
  ASSUME EqIInv, UNCHANGED <<eqWorld, eqLib, eqVer>>, SameBut(eqPane, eqPane', {"chips", "filters"}),
         eqPane'.filters \in Seq(EqFilters), eqPane'.chips = <<>>
  PROVE  EqIInv'
<1>1. PaneOK(eqPane) /\ BoundTo(eqPane, eqLib) /\ eqPane.max \in Nat
  BY DEF EqIInv, PaneOK
<1>2. /\ eqPane'.meas = eqPane.meas /\ eqPane'.grid = eqPane.grid /\ eqPane'.db = eqPane.db
      /\ eqPane'.coherence = eqPane.coherence /\ eqPane'.max = eqPane.max
  BY DEF SameBut, EqPaneFields
<1>3. SameBut(eqPane, eqPane', {"meas", "measRemoved", "tgt", "tgtRemoved", "firPhase", "firTaps", "max", "chips", "filters"})
  BY Zenon DEF SameBut
<1>4. eqPane'.chips \in Seq(FilterSpec)
  OBVIOUS
<1>5. PaneOK(eqPane')
  BY <1>1, <1>2, <1>3, <1>4, PaneKeeps
<1> QED BY <1>1, <1>2, <1>5, NoChips, StaysBound, PaneStep

\* Two lists make a list.
LEMMA TwoLists ==
  ASSUME NEW S, NEW s \in Seq(S), NEW t \in Seq(S)
  PROVE  s \o t \in Seq(S)
OBVIOUS

\* One more makes a list.
LEMMA OneMore ==
  ASSUME NEW S, NEW s \in Seq(S), NEW x \in S
  PROVE  Append(s, x) \in Seq(S)
OBVIOUS

\* AUTO EQ: the filters marked applied stay, those it solves come after them.
LEMMA RunAutoEqStep ==
  ASSUME EqIInv, EqRunAutoEq
  PROVE  EqIInv'
<1> DEFINE p == [eqPane EXCEPT !.chips = <<>>]
<1>1. UNCHANGED <<eqWorld, eqLib, eqVer>> /\ eqPane' = IF hasMeasurement THEN runAutoEq(p) ELSE p
  BY Zenon DEF EqRunAutoEq
<1>2. PaneOK(eqPane) /\ DOMAIN eqPane = EqPaneFields /\ eqPane.filters \in Seq(EqFilters) /\ eqPane.max \in Nat
  BY DEF EqIInv, PaneOK
<1>3. SameBut(eqPane, p, {"chips"}) /\ p.chips = <<>> /\ p.filters = eqPane.filters /\ p.max = eqPane.max /\ p.grid = eqPane.grid
  BY <1>2 DEF SameBut, EqPaneFields
<1> HIDE DEF p
<1>4. CASE ~hasMeasurement
  <2>1. eqPane' = p
    BY <1>1, <1>4
  <2>2. SameBut(eqPane, eqPane', {"chips", "filters"}) /\ eqPane'.filters \in Seq(EqFilters) /\ eqPane'.chips = <<>>
    BY <1>2, <1>3, <2>1, Zenon DEF SameBut
  <2> QED BY <1>1, <2>2, FiltersStep
<1>5. CASE hasMeasurement
  <2> DEFINE old == AppliedOnly(p.filters)
             kept == [p EXCEPT !.filters = old]
             specs == autoEq(makeInput(kept), p.max)
             new == [i \in DOMAIN specs |-> [spec |-> specs[i], applied |-> FALSE]]
             q == [kept EXCEPT !.filters = @ \o new]
  <2>1. eqPane' = q
    <3>1. runAutoEq(p) = q
      BY Zenon DEF runAutoEq
    <3> QED BY <1>1, <1>5, <3>1
  <2>2. old \in Seq(EqFilters)
    BY <1>2, <1>3, AppliedOnlyType
  <2> HIDE DEF old
  <2>3. SameBut(p, kept, {"filters"}) /\ kept.filters = old
    BY <1>3 DEF SameBut, EqPaneFields
  <2> HIDE DEF kept
  <2>4. kept.max = p.max /\ kept.chips = <<>> /\ kept.grid = p.grid
    BY <1>3, <2>3 DEF SameBut, EqPaneFields
  <2>5. SameBut(eqPane, kept, {"meas", "measRemoved", "tgt", "tgtRemoved", "firPhase", "firTaps", "max", "chips", "filters"})
    BY <1>3, <2>3 DEF SameBut
  <2>6. kept.chips \in Seq(FilterSpec)
    BY <2>4
  <2>7. PaneOK(kept)
    BY <1>2, <1>3, <2>2, <2>3, <2>4, <2>5, <2>6, PaneKeeps
  <2>8. AllocInput(makeInput(kept), Len(EqGrids[kept.grid])) /\ EqNyquist \in Nat /\ p.max \in Nat
    BY <1>2, <1>3, <1>5, <2>4, <2>7, InputOfPane, EqAllocatorAssumption DEF hasMeasurement
  <2>9. specs \in Seq(FilterSpec)
    BY <2>8, CandidatesAreUsable DEF autoEq
  <2> HIDE DEF specs
  <2>10. new \in Seq(EqFilters)
    <3>1. PICK m \in Nat : DOMAIN specs = 1..m /\ \A i \in 1..m : specs[i] \in FilterSpec
      BY <2>9, ListPlaces
    <3>2. new \in [1..m -> EqFilters]
      BY <3>1 DEF EqFilters
    <3> HIDE DEF new
    <3> QED BY <3>2, ListOf
  <2> HIDE DEF new
  <2>11. SameBut(kept, q, {"filters"}) /\ q.filters = old \o new
    BY <2>3 DEF SameBut, EqPaneFields
  <2> HIDE DEF q
  <2>12. q.filters \in Seq(EqFilters)
    BY <2>2, <2>10, <2>11, TwoLists
  <2>13. SameBut(eqPane, q, {"chips", "filters"}) /\ q.chips = <<>>
    BY <1>3, <2>3, <2>4, <2>11 DEF SameBut, EqPaneFields
  <2> QED BY <1>1, <2>1, <2>12, <2>13, FiltersStep
<1> QED BY <1>4, <1>5

\* A filter is marked applied or not.
LEMMA SetAppliedStep ==
  ASSUME EqIInv, NEW i, NEW applied \in BOOLEAN, EqSetApplied(i, applied)
  PROVE  EqIInv'
<1> DEFINE old == eqPane.filters
           new == [old EXCEPT ![i].applied = applied]
<1>1. UNCHANGED <<eqWorld, eqLib, eqVer>> /\ i \in DOMAIN old /\ eqPane' = setApplied(eqPane, i, applied)
  BY DEF EqSetApplied
<1>2. eqPane' = [eqPane EXCEPT !.filters = new, !.chips = <<>>]
  BY <1>1, Zenon DEF setApplied
<1>3. DOMAIN eqPane = EqPaneFields /\ old \in Seq(EqFilters)
  BY DEF EqIInv, PaneOK
<1>4. new \in Seq(EqFilters)
  <2>1. PICK m \in Nat : DOMAIN old = 1..m /\ old \in [1..m -> EqFilters]
    <3>1. DOMAIN old = 1..Len(old) /\ Len(old) \in Nat /\ \A k \in DOMAIN old : old[k] \in EqFilters
      BY <1>3, ListPlaces
    <3>2. old = [k \in DOMAIN old |-> old[k]]
      BY <1>3
    <3> QED BY <3>1, <3>2
  <2>2. [old[i] EXCEPT !.applied = applied] \in EqFilters
    BY <1>1, <2>1 DEF EqFilters
  <2>3. new = [old EXCEPT ![i] = [old[i] EXCEPT !.applied = applied]]
    OBVIOUS
  <2>4. new \in [1..m -> EqFilters]
    BY <1>1, <2>1, <2>2, <2>3, Zenon
  <2> HIDE DEF new
  <2> QED BY <2>1, <2>4, ListOf
<1> HIDE DEF new
<1>5. SameBut(eqPane, eqPane', {"chips", "filters"}) /\ eqPane'.filters = new /\ eqPane'.chips = <<>>
  BY <1>2, <1>3 DEF SameBut, EqPaneFields
<1> QED BY <1>1, <1>4, <1>5, FiltersStep

\* No filter is left, and no chip.
LEMMA ClearFiltersStep ==
  ASSUME EqIInv, EqClearFilters
  PROVE  EqIInv'
<1>1. UNCHANGED <<eqWorld, eqLib, eqVer>> /\ eqPane' = [eqPane EXCEPT !.filters = <<>>, !.chips = <<>>]
  BY DEF EqClearFilters
<1>2. DOMAIN eqPane = EqPaneFields
  BY DEF EqIInv, PaneOK
<1>3. SameBut(eqPane, eqPane', {"chips", "filters"}) /\ eqPane'.filters = <<>> /\ eqPane'.chips = <<>>
  BY <1>1, <1>2 DEF SameBut, EqPaneFields
<1>4. eqPane'.filters \in Seq(EqFilters)
  BY <1>3
<1> QED BY <1>1, <1>3, <1>4, FiltersStep

\* The step of a ranking made of a pane that keeps its measurement.
LEMMA RankedStep ==
  ASSUME EqIInv, UNCHANGED <<eqWorld, eqLib, eqVer>>, NEW p, PaneOK(p), eqPane' = suggest(p),
         p.meas = eqPane.meas, p.grid = eqPane.grid, p.db = eqPane.db, p.coherence = eqPane.coherence
  PROVE  EqIInv'
<1>1. PaneOK(eqPane') /\ ChipsOf(eqPane') /\ SameBut(p, eqPane', {"chips"})
  BY SuggestRanks
<1>2. /\ eqPane'.meas = eqPane.meas /\ eqPane'.grid = eqPane.grid /\ eqPane'.db = eqPane.db
      /\ eqPane'.coherence = eqPane.coherence
  BY <1>1 DEF SameBut, EqPaneFields
<1>3. BoundTo(eqPane, eqLib)
  BY DEF EqIInv
<1>4. BoundTo(eqPane', eqLib)
  BY <1>2, <1>3, StaysBound
<1> QED BY <1>1, <1>4, PaneStep

\* SUGGEST.
LEMMA SuggestStep ==
  ASSUME EqIInv, EqSuggest
  PROVE  EqIInv'
<1>1. UNCHANGED <<eqWorld, eqLib, eqVer>> /\ eqPane' = suggest(eqPane)
  BY DEF EqSuggest
<1>2. PaneOK(eqPane)
  BY DEF EqIInv
<1> QED BY <1>1, <1>2, RankedStep

\* A chip becomes a filter, and the rest is ranked again.
LEMMA AcceptChipStep ==
  ASSUME EqIInv, NEW i, EqAcceptChip(i)
  PROVE  EqIInv'
<1> DEFINE more == Append(eqPane.filters, [spec |-> eqPane.chips[i], applied |-> FALSE])
           p == [eqPane EXCEPT !.filters = more]
<1>1. UNCHANGED <<eqWorld, eqLib, eqVer>> /\ i \in DOMAIN eqPane.chips /\ eqPane' = suggest(p)
  BY Zenon DEF EqAcceptChip
<1>2. /\ PaneOK(eqPane) /\ DOMAIN eqPane = EqPaneFields /\ eqPane.filters \in Seq(EqFilters) /\ eqPane.max \in Nat
      /\ eqPane.chips \in Seq(FilterSpec)
  BY DEF EqIInv, PaneOK
<1>3. eqPane.chips[i] \in FilterSpec
  BY <1>1, <1>2, ListPlaces
<1>4. [spec |-> eqPane.chips[i], applied |-> FALSE] \in EqFilters
  BY <1>3 DEF EqFilters
<1>5. more \in Seq(EqFilters)
  BY <1>2, <1>4, OneMore
<1> HIDE DEF more
<1>6. /\ SameBut(eqPane, p, {"filters"}) /\ p.filters = more /\ p.chips = eqPane.chips /\ p.max = eqPane.max
      /\ p.meas = eqPane.meas /\ p.grid = eqPane.grid /\ p.db = eqPane.db /\ p.coherence = eqPane.coherence
  BY <1>2 DEF SameBut, EqPaneFields
<1> HIDE DEF p
<1>7. SameBut(eqPane, p, {"meas", "measRemoved", "tgt", "tgtRemoved", "firPhase", "firTaps", "max", "chips", "filters"})
  BY <1>6, Zenon DEF SameBut
<1>8. PaneOK(p)
  BY <1>2, <1>5, <1>6, <1>7, PaneKeeps
<1> QED BY <1>1, <1>6, <1>8, RankedStep

\* A pane with other declined bands, and the mask that is built from them.
LEMMA MaskedIsPane ==
  ASSUME NEW p, PaneOK(p), NEW a, SameBut(p, a, {"declined", "chips"}), a.declined \in Seq(FilterSpec),
         a.chips \in Seq(FilterSpec)
  PROVE  PaneOK(rebuildExclusionMask(a)) /\ SameBut(a, rebuildExclusionMask(a), {"excluded"})
<1> DEFINE excluded == {k \in DOMAIN hz(a) : \E i \in DOMAIN a.declined : Declines(a.declined[i], hz(a)[k])}
           q == [a EXCEPT !.excluded = excluded]
<1>1. rebuildExclusionMask(a) = q
  BY Zenon DEF rebuildExclusionMask
<1>2. SameBut(a, q, {"excluded"}) /\ q.excluded = excluded
  <2> HIDE DEF excluded
  <2> QED BY DEF SameBut, EqPaneFields
<1> HIDE DEF q
<1>3. /\ q.grid = p.grid /\ q.db = p.db /\ q.target = p.target /\ q.coherence = p.coherence /\ q.phase = p.phase
      /\ q.phaseValid = p.phaseValid /\ q.trusted = p.trusted /\ q.declined = a.declined /\ q.filters = p.filters
      /\ q.source = p.source /\ q.max = p.max /\ q.chips = a.chips /\ DOMAIN q = EqPaneFields /\ a.grid = p.grid
  BY <1>2 DEF SameBut, EqPaneFields
<1>4. hz(q) = hz(a)
  BY <1>3 DEF hz
<1>5. PaneMasks(q)
  BY <1>2, <1>3, <1>4, Zenon DEF PaneOK, PaneMasks
<1>6. PaneLevels(q)
  BY <1>3, Zenon DEF PaneOK, PaneLevels
<1>7. PaneOK(q)
  BY <1>3, <1>5, <1>6, Zenon DEF PaneOK
<1> QED BY <1>1, <1>2, <1>7

\* A chip becomes a declined band, and the rest is ranked again.
LEMMA DeclineChipStep ==
  ASSUME EqIInv, NEW i, EqDeclineChip(i)
  PROVE  EqIInv'
<1> DEFINE more == Append(eqPane.declined, eqPane.chips[i])
           a == [eqPane EXCEPT !.declined = more]
           p == rebuildExclusionMask(a)
<1>1. UNCHANGED <<eqWorld, eqLib, eqVer>> /\ i \in DOMAIN eqPane.chips /\ eqPane' = suggest(p)
  BY Zenon DEF EqDeclineChip
<1>2. /\ PaneOK(eqPane) /\ DOMAIN eqPane = EqPaneFields /\ eqPane.declined \in Seq(FilterSpec)
      /\ eqPane.chips \in Seq(FilterSpec)
  BY DEF EqIInv, PaneOK
<1>3. eqPane.chips[i] \in FilterSpec
  BY <1>1, <1>2, ListPlaces
<1>4. more \in Seq(FilterSpec)
  BY <1>2, <1>3, OneMore
<1> HIDE DEF more
<1>5. SameBut(eqPane, a, {"declined", "chips"}) /\ a.declined = more /\ a.chips = eqPane.chips
  BY <1>2 DEF SameBut, EqPaneFields
<1> HIDE DEF a
<1>6. PaneOK(p) /\ SameBut(a, p, {"excluded"})
  BY <1>2, <1>4, <1>5, MaskedIsPane
<1> HIDE DEF p
<1>7. p.meas = eqPane.meas /\ p.grid = eqPane.grid /\ p.db = eqPane.db /\ p.coherence = eqPane.coherence
  BY <1>5, <1>6 DEF SameBut, EqPaneFields
<1> QED BY <1>1, <1>6, <1>7, RankedStep

\* No band is declined any more: the mask is empty, and the chips go.
LEMMA ClearDeclinedStep ==
  ASSUME EqIInv, EqClearDeclined
  PROVE  EqIInv'
<1> DEFINE a == [eqPane EXCEPT !.declined = <<>>, !.chips = <<>>]
<1>1. UNCHANGED <<eqWorld, eqLib, eqVer>> /\ eqPane' = rebuildExclusionMask(a)
  BY Zenon DEF EqClearDeclined
<1>2. PaneOK(eqPane) /\ DOMAIN eqPane = EqPaneFields /\ BoundTo(eqPane, eqLib)
  BY DEF EqIInv, PaneOK
<1>3. SameBut(eqPane, a, {"declined", "chips"}) /\ a.declined = <<>> /\ a.chips = <<>>
  BY <1>2 DEF SameBut, EqPaneFields
<1> HIDE DEF a
<1>4. a.declined \in Seq(FilterSpec) /\ a.chips \in Seq(FilterSpec)
  BY <1>3
<1>5. PaneOK(eqPane') /\ SameBut(a, eqPane', {"excluded"})
  BY <1>1, <1>2, <1>3, <1>4, MaskedIsPane
<1>6. /\ eqPane'.meas = eqPane.meas /\ eqPane'.grid = eqPane.grid /\ eqPane'.db = eqPane.db
      /\ eqPane'.coherence = eqPane.coherence /\ eqPane'.chips = <<>>
  BY <1>3, <1>5 DEF SameBut, EqPaneFields
<1> QED BY <1>1, <1>2, <1>5, <1>6, NoChips, StaysBound, PaneStep

-------------------------------------------------------------------------------
(* EqWorkflow: the room, the library and VERIFY. *)

\* A library that keeps its traces.
Keeps(lib, new) == DOMAIN lib \subseteq DOMAIN new /\ \A id \in DOMAIN lib : new[id].trace = lib[id].trace

\* What is bound to traces of a library is bound to them when it keeps them.
LEMMA KeptIsBound ==
  ASSUME NEW lib, NEW new, Keeps(lib, new), NEW p, BoundTo(p, lib), NEW v, VerOK(v, lib)
  PROVE  BoundTo(p, new) /\ VerOK(v, new)
<1>1. BoundTo(p, new)
  BY Zenon DEF BoundTo, Keeps
<1>2. VerOK(v, new)
  <2>1. ASSUME v.report # <<>>, v.after # 0
        PROVE  /\ v.meas \in DOMAIN new /\ v.after \in DOMAIN new
               /\ v.report[1].flagged
                    = {k \in v.report[1].trusted : Apart(new[v.after].trace.db[k],
                                                         Predicted(new[v.meas].trace, v.filters)[k],
                                                         new[v.after].trace.coherence[k])}
    <3>1. v.meas \in DOMAIN lib /\ v.after \in DOMAIN lib
      BY <2>1 DEF VerOK
    <3>2. new[v.meas].trace = lib[v.meas].trace /\ new[v.after].trace = lib[v.after].trace
      BY <3>1, Zenon DEF Keeps
    <3>3. v.meas \in DOMAIN new /\ v.after \in DOMAIN new
      BY <3>1, Zenon DEF Keeps
    <3> QED BY <2>1, <3>2, <3>3, Zenon DEF VerOK
  <2>2. v.state # "None" => v.meas \in DOMAIN new /\ v.outcome # "Adopted"
    BY Zenon DEF VerOK, Keeps
  <2>3. DOMAIN v = EqVerFields
    BY DEF VerOK
  <2> QED BY <2>1, <2>2, <2>3, Zenon DEF VerOK
<1> QED BY <1>1, <1>2

\* A step that leaves the pane, and keeps the traces.
LEMMA OtherStep ==
  ASSUME EqIInv, eqPane' = eqPane, WorldOK(eqWorld'), LibOK(eqLib'), Keeps(eqLib, eqLib'), VerOK(eqVer', eqLib')
  PROVE  EqIInv'
<1>1. PaneOK(eqPane') /\ ChipsOf(eqPane')
  BY DEF EqIInv
<1>2. PaneOK(eqPane)' /\ ChipsOf(eqPane)'
  BY <1>1 DEF PaneOK, ChipsOf, suggest, makeInput, workingResidualDb, ghostDb, hz, Unapplied, Specs, Sounds, PaneLevels,
              PaneMasks, SourceOK
<1>3. BoundTo(eqPane', eqLib')
  <2>1. BoundTo(eqPane', eqLib) /\ VerOK(eqVer, eqLib)
    BY DEF EqIInv
  <2> QED BY <2>1, KeptIsBound
<1>4. WorldOK(eqWorld)' /\ LibOK(eqLib)' /\ VerOK(eqVer, eqLib)'
  OBVIOUS
<1> QED BY <1>2, <1>3, <1>4 DEF EqIInv

\* The library as it is keeps its traces.
LEMMA SameKeeps ==
  ASSUME NEW lib
  PROVE  Keeps(lib, lib)
BY DEF Keeps

\* A step of the room, the rig, the device or the live settings.
LEMMA WorldStep ==
  ASSUME EqIInv, UNCHANGED <<eqLib, eqPane, eqVer>>, DOMAIN eqWorld' = EqWorldFields, eqWorld'.rig \in Seq(FilterSpec),
         eqWorld'.room = eqWorld.room, eqWorld'.phase = eqWorld.phase, eqWorld'.phaseValid = eqWorld.phaseValid,
         eqWorld'.coherence = eqWorld.coherence
  PROVE  EqIInv'
<1>1. WorldOK(eqWorld')
  BY Zenon DEF EqIInv, WorldOK
<1>2. eqLib' = eqLib /\ eqVer' = eqVer /\ LibOK(eqLib) /\ VerOK(eqVer, eqLib)
  BY DEF EqIInv
<1>3. LibOK(eqLib') /\ VerOK(eqVer', eqLib') /\ Keeps(eqLib, eqLib')
  BY <1>2, SameKeeps
<1> QED BY <1>1, <1>3, OtherStep

\* An export reads the pane.
LEMMA ExportStep ==
  ASSUME EqIInv, EqExport
  PROVE  EqIInv'
<1> DEFINE fir == [f \in DOMAIN eqWorld.room |-> designEqFir(eqPane.filters, f)]
<1>1. UNCHANGED <<eqLib, eqPane, eqVer>> /\ (eqWorld' = [eqWorld EXCEPT !.fir = fir] \/ eqWorld' = eqWorld)
  BY Zenon DEF EqExport
<1> HIDE DEF fir
<1>2. DOMAIN eqWorld = EqWorldFields /\ eqWorld.rig \in Seq(FilterSpec)
  BY DEF EqIInv, WorldOK
<1>3. /\ DOMAIN eqWorld' = EqWorldFields /\ eqWorld'.rig = eqWorld.rig
      /\ eqWorld'.room = eqWorld.room /\ eqWorld'.phase = eqWorld.phase /\ eqWorld'.phaseValid = eqWorld.phaseValid
      /\ eqWorld'.coherence = eqWorld.coherence
  BY <1>1, <1>2 DEF EqWorldFields
<1> QED BY <1>1, <1>2, <1>3, WorldStep

\* The operator dials the filters into the rig, or takes them out.
LEMMA DialStep ==
  ASSUME EqIInv, NEW rig \in {<<>>, Specs(eqPane.filters, DOMAIN eqPane.filters)}, EqDial(rig)
  PROVE  EqIInv'
<1>1. UNCHANGED <<eqLib, eqPane, eqVer>> /\ eqWorld' = [eqWorld EXCEPT !.rig = rig]
  BY DEF EqDial
<1>2. rig \in Seq(FilterSpec)
  <2> DEFINE filters == eqPane.filters
             specs == Specs(filters, DOMAIN filters)
  <2>1. /\ Len(filters) \in Nat /\ DOMAIN filters = 1..Len(filters)
        /\ \A i \in DOMAIN filters : filters[i] \in EqFilters
    BY ListPlaces DEF EqIInv, PaneOK
  <2>2. PICK m \in Nat : DOMAIN filters = 1..m
    BY <2>1
  <2>3. specs = [i \in 1..m |-> filters[i].spec]
    BY <2>2, Zenon DEF Specs
  <2>4. \A i \in 1..m : filters[i].spec \in FilterSpec
    BY <2>1, <2>2 DEF EqFilters
  <2> HIDE DEF filters
  <2>5. specs \in [1..m -> FilterSpec]
    BY <2>3, <2>4
  <2>6. specs \in Seq(FilterSpec)
    BY <2>5, ListOf
  <2> HIDE DEF specs
  <2>7. CASE rig = <<>>
    BY <2>7
  <2>8. CASE rig = specs
    BY <2>6, <2>8
  <2> QED BY <2>7, <2>8 DEF specs, filters
<1>3. DOMAIN eqWorld = EqWorldFields
  BY DEF EqIInv, WorldOK
<1>4. /\ DOMAIN eqWorld' = EqWorldFields /\ eqWorld'.rig = rig
      /\ eqWorld'.room = eqWorld.room /\ eqWorld'.phase = eqWorld.phase /\ eqWorld'.phaseValid = eqWorld.phaseValid
      /\ eqWorld'.coherence = eqWorld.coherence
  BY <1>1, <1>3 DEF EqWorldFields
<1> QED BY <1>1, <1>2, <1>4, WorldStep

\* The device, the output and the settings of the live measurement.
LEMMA LiveStep ==
  ASSUME EqIInv, EqLive
  PROVE  EqIInv'
<1>1. UNCHANGED <<eqLib, eqPane, eqVer>>
  BY DEF EqLive
<1>2. DOMAIN eqWorld = EqWorldFields /\ eqWorld.rig \in Seq(FilterSpec)
  BY DEF EqIInv, WorldOK
<1>3. PICK x : \/ eqWorld' = [eqWorld EXCEPT !.running = x] \/ eqWorld' = [eqWorld EXCEPT !.outputTaken = x]
               \/ eqWorld' = [eqWorld EXCEPT !.transfer = x] \/ eqWorld' = [eqWorld EXCEPT !.exponential = x]
               \/ eqWorld' = [eqWorld EXCEPT !.grid = x]
  BY Zenon DEF EqLive
<1>4. /\ DOMAIN eqWorld' = EqWorldFields /\ eqWorld'.rig = eqWorld.rig
      /\ eqWorld'.room = eqWorld.room /\ eqWorld'.phase = eqWorld.phase /\ eqWorld'.phaseValid = eqWorld.phaseValid
      /\ eqWorld'.coherence = eqWorld.coherence
  BY <1>2, <1>3 DEF EqWorldFields
<1> QED BY <1>1, <1>2, <1>4, WorldStep

\* A trace is hidden or shown: it stays the trace it is.
LEMMA HideTraceStep ==
  ASSUME EqIInv, NEW id \in DOMAIN eqLib, EqHideTrace(id)
  PROVE  EqIInv'
<1> DEFINE entry == [eqLib[id] EXCEPT !.visible = ~@]
<1>1. eqWorld' = eqWorld /\ eqPane' = eqPane /\ eqVer' = eqVer /\ eqLib' = [eqLib EXCEPT ![id] = entry]
  BY DEF EqHideTrace
<1>2. LibOK(eqLib) /\ DOMAIN eqLib[id] = {"trace", "visible"} /\ TraceOK(eqLib[id].trace)
  BY DEF EqIInv, LibOK
<1>3. DOMAIN entry = {"trace", "visible"} /\ entry.trace = eqLib[id].trace
  BY <1>2
<1> HIDE DEF entry
<1>4. DOMAIN eqLib' = DOMAIN eqLib /\ \A i \in DOMAIN eqLib : eqLib'[i] = IF i = id THEN entry ELSE eqLib[i]
  BY <1>1
<1>5. LibOK(eqLib')
  BY <1>2, <1>3, <1>4, Zenon DEF LibOK
<1>6. Keeps(eqLib, eqLib')
  BY <1>3, <1>4, Zenon DEF Keeps
<1>7. WorldOK(eqWorld') /\ BoundTo(eqPane, eqLib) /\ VerOK(eqVer', eqLib)
  BY <1>1 DEF EqIInv
<1>8. VerOK(eqVer', eqLib')
  BY <1>6, <1>7, KeptIsBound
<1> QED BY <1>1, <1>5, <1>6, <1>7, <1>8, OtherStep

\* VERIFY that holds no report of a stored trace.
LEMMA VerStep ==
  ASSUME EqIInv, UNCHANGED <<eqWorld, eqLib, eqPane>>, VerOK(eqVer', eqLib)
  PROVE  EqIInv'
<1>1. eqWorld' = eqWorld /\ eqLib' = eqLib /\ eqPane' = eqPane /\ WorldOK(eqWorld) /\ LibOK(eqLib)
  BY DEF EqIInv
<1>2. WorldOK(eqWorld') /\ LibOK(eqLib') /\ Keeps(eqLib, eqLib') /\ VerOK(eqVer', eqLib')
  BY <1>1, SameKeeps
<1> QED BY <1>1, <1>2, OtherStep

\* VERIFY before it is pressed.
LEMMA VerInitFields ==
  /\ DOMAIN EqVerInit = EqVerFields /\ EqVerInit.state = "None" /\ EqVerInit.report = <<>> /\ EqVerInit.after = 0
  /\ EqVerInit.outcome = "None"
<1> DEFINE f == [meas |-> 0, filters |-> <<>>, after |-> 0, outcome |-> "None"]
           g == EqVerifyInit
<1>1. DOMAIN f = {"meas", "filters", "after", "outcome"} /\ f.after = 0 /\ f.outcome = "None"
  OBVIOUS
<1>2. DOMAIN g = {"state", "report"} /\ g.state = "None" /\ g.report = <<>>
  BY DEF EqVerifyInit
<1> HIDE DEF f, g
<1>3. EqVerInit = Joined(f, g)
  BY DEF EqVerInit, f, g
<1>4. EqVerInit = [x \in (DOMAIN f) \cup (DOMAIN g) |-> IF x \in DOMAIN f THEN f[x] ELSE g[x]]
  BY <1>3, Zenon DEF Joined
<1> QED BY <1>1, <1>2, <1>4 DEF EqVerFields

\* A press of VERIFY notes the measurement and the filters.
LEMMA VerifyPressStep ==
  ASSUME EqIInv, EqVerifyPress
  PROVE  EqIInv'
<1>1. /\ UNCHANGED <<eqWorld, eqLib, eqPane>> /\ ~verifyBlocked
      /\ eqVer' = [EqVerInit EXCEPT !.state = "Waiting", !.meas = eqPane.meas, !.filters = eqPane.filters]
  BY DEF EqVerifyPress
<1>2. eqPane.meas \in DOMAIN eqLib
  <2>1. eqPane.grid # "none"
    BY <1>1 DEF verifyBlocked, hasMeasurement
  <2> QED BY <2>1, Zenon DEF EqIInv, BoundTo
<1>3. /\ DOMAIN eqVer' = EqVerFields /\ eqVer'.state = "Waiting" /\ eqVer'.meas = eqPane.meas /\ eqVer'.report = <<>>
      /\ eqVer'.outcome = "None"
  BY <1>1, VerInitFields DEF EqVerFields
<1>4. VerOK(eqVer', eqLib)
  BY <1>2, <1>3 DEF VerOK
<1> QED BY <1>1, <1>4, VerStep

\* An abort drops the report.
LEMMA AbortIsVer ==
  ASSUME EqIInv, NEW why, abort(why)
  PROVE  VerOK(eqVer', eqLib)
<1>1. eqVer' = [eqVer EXCEPT !.state = "None", !.report = <<>>, !.outcome = why] /\ DOMAIN eqVer = EqVerFields
  BY DEF abort, EqIInv, VerOK
<1>2. DOMAIN eqVer' = EqVerFields /\ eqVer'.state = "None" /\ eqVer'.report = <<>>
  BY <1>1 DEF EqVerFields
<1> QED BY <1>2 DEF VerOK

\* A poll keeps the report, or drops it with the run.
LEMMA VerifyPollStep ==
  ASSUME EqIInv, EqVerifyPoll
  PROVE  EqIInv'
<1>1. UNCHANGED <<eqWorld, eqLib, eqPane>> /\ eqVer.state # "None"
  BY DEF EqVerifyPoll, eqBusy
<1>2. \/ \E why : abort(why)
      \/ eqVer' = [eqVer EXCEPT !.state = "Measuring"]
      \/ eqVer' = [eqVer EXCEPT !.state = "Done", !.outcome = "Done"]
  BY Zenon DEF EqVerifyPoll
<1>3. CASE \E why : abort(why)
  BY <1>1, <1>3, AbortIsVer, VerStep
<1>4. VerOK(eqVer, eqLib) /\ DOMAIN eqVer = EqVerFields
  BY DEF EqIInv, VerOK
<1>5. CASE \/ eqVer' = [eqVer EXCEPT !.state = "Measuring"]
           \/ eqVer' = [eqVer EXCEPT !.state = "Done", !.outcome = "Done"]
  <2>1. /\ DOMAIN eqVer' = EqVerFields /\ eqVer'.meas = eqVer.meas /\ eqVer'.filters = eqVer.filters
        /\ eqVer'.after = eqVer.after /\ eqVer'.report = eqVer.report
        /\ eqVer'.outcome = eqVer.outcome \/ eqVer'.outcome = "Done"
    BY <1>4, <1>5 DEF EqVerFields
  <2>2. eqVer'.outcome # "Adopted" /\ eqVer'.meas \in DOMAIN eqLib
    BY <1>1, <1>4, <2>1 DEF VerOK
  <2>3. VerOK(eqVer', eqLib)
    BY <1>4, <2>1, <2>2, Zenon DEF VerOK
  <2> QED BY <1>1, <2>3, VerStep
<1> QED BY <1>2, <1>3, <1>5

\* What is measured is a trace of the grid it is measured on.
LEMMA LiveIsTrace ==
  ASSUME WorldOK(eqWorld), NEW g \in DOMAIN EqGrids
  PROVE  LET t == liveTrace(g)
         IN  /\ TraceOK(t) /\ t.grid = g /\ t.coherence \in [Bins(g) -> Nat]
             /\ DOMAIN t = {"grid", "coherence", "finite", "db", "phase"}
<1> DEFINE level(k) == eqWorld.room[EqGrids[g][k]] + Sounds(eqWorld.rig, EqGrids[g][k])
           db == [k \in DOMAIN EqGrids[g] |-> level(k)]
           phase == [k \in DOMAIN EqGrids[g] |-> eqWorld.phase[EqGrids[g][k]]]
           t == liveTrace(g)
<1>1. t = [grid |-> g, coherence |-> eqWorld.coherence[g], finite |-> TRUE, db |-> db, phase |-> phase]
  BY Zenon DEF liveTrace
<1>2. ASSUME NEW k \in Bins(g) PROVE level(k) \in Int
  <2>1. Sounds(eqWorld.rig, EqGrids[g][k]) \in Int
    <3>1. eqWorld.rig \in Seq(FilterSpec)
      BY DEF WorldOK
    <3>2. IsFiniteSet(DOMAIN eqWorld.rig) /\ \A i \in DOMAIN eqWorld.rig : eqWorld.rig[i] \in FilterSpec
      BY <3>1, ListPlaces
    <3> QED BY <3>2, SoundsIsInt
  <2>2. eqWorld.room[EqGrids[g][k]] \in Int
    BY DEF WorldOK
  <2> QED BY <2>1, <2>2
<1> HIDE DEF level
<1>3. db \in Levels(g)
  BY <1>2 DEF Levels, Bins
<1>4. phase \in Levels(g)
  BY DEF WorldOK, Levels, Bins
<1>5. eqWorld.coherence[g] \in [Bins(g) -> Nat]
  BY DEF WorldOK
<1> HIDE DEF db, phase, t
<1>6. /\ t.grid = g /\ t.db = db /\ t.phase = phase /\ t.coherence = eqWorld.coherence[g]
      /\ DOMAIN t = {"grid", "coherence", "finite", "db", "phase"}
  BY <1>1
<1>7. TraceOK(t)
  BY <1>3, <1>4, <1>5, <1>6 DEF TraceOK
<1> QED BY <1>5, <1>6, <1>7 DEF t

\* A trace is added under an id no trace had.
LEMMA AddedIsLibrary ==
  ASSUME LibOK(eqLib), NEW t, TraceOK(t)
  PROVE  LET new == added(eqLib, NextId, t)
         IN  /\ LibOK(new) /\ Keeps(eqLib, new) /\ NextId \in DOMAIN new /\ new[NextId].trace = t /\ NextId # 0
<1> DEFINE id == NextId
           entry == [trace |-> t, visible |-> TRUE]
           new == added(eqLib, id, t)
<1>1. PICK n \in Nat : DOMAIN eqLib = 1..n
  BY DEF LibOK
<1>2. id = n + 1
  <2>1. Cardinality(1..n) = n
    BY FS_Interval
  <2> QED BY <1>1, <2>1 DEF NextId
<1> HIDE DEF id
<1>3. DOMAIN entry = {"trace", "visible"} /\ entry.trace = t
  OBVIOUS
<1>4. new = [i \in DOMAIN eqLib \cup {id} |-> IF i = id THEN entry ELSE eqLib[i]]
  BY Zenon DEF added
<1> HIDE DEF entry, new
<1>5. DOMAIN new = 1..(n + 1) /\ id \notin DOMAIN eqLib /\ id \in DOMAIN new
  BY <1>1, <1>2, <1>4
<1>6. new[id] = entry /\ \A i \in DOMAIN eqLib : new[i] = eqLib[i]
  BY <1>4, <1>5
<1>7. Keeps(eqLib, new)
  BY <1>1, <1>5, <1>6 DEF Keeps
<1>8. ASSUME NEW i \in DOMAIN new PROVE DOMAIN new[i] = {"trace", "visible"} /\ TraceOK(new[i].trace)
  <2>1. i \in DOMAIN eqLib \/ i = id
    BY <1>1, <1>2, <1>5
  <2> QED BY <1>3, <1>6, <2>1 DEF LibOK
<1>9. LibOK(new)
  <2>1. n + 1 \in Nat
    OBVIOUS
  <2> QED BY <1>5, <1>8, <2>1, Zenon DEF LibOK
<1> QED BY <1>2, <1>3, <1>5, <1>6, <1>7, <1>9 DEF id, new

\* The ghost of a pane bound to a trace is what its filters predict of that trace.
LEMMA GhostIsPredicted ==
  ASSUME NEW p, PaneOK(p), NEW lib, BoundTo(p, lib), p.meas \in DOMAIN lib, p.grid # "none"
  PROVE  ghostDb(p) = Predicted(lib[p.meas].trace, p.filters)
<1>1. p.meas # 0
  BY DEF BoundTo
<1>2. p.grid = lib[p.meas].trace.grid /\ p.db = lib[p.meas].trace.db
  BY <1>1 DEF BoundTo
<1>3. hz(p) = EqGrids[p.grid]
  BY DEF hz
<1> QED BY <1>2, <1>3, Zenon DEF ghostDb, Predicted, Bins

\* The dwell is over: the report is of the trace that is stored with it and of the prediction for the
\* trace VERIFY was pressed on.
LEMMA TrySubmitStep ==
  ASSUME EqIInv, EqTrySubmit
  PROVE  EqIInv'
<1> DEFINE after == liveTrace(eqPane.grid)
           trusted == eqPane.trusted \cap buildTrustMask(after.coherence)
           report == compareToPrediction(after, ghostDb(eqPane), trusted)
<1>1. eqWorld' = eqWorld /\ eqPane' = eqPane /\ UNCHANGED <<eqWorld, eqPane>> /\ eqVer.state = "Measuring"
  BY DEF EqTrySubmit
<1>2. \/ eqLib' = eqLib /\ \E why : abort(why)
      \/ /\ inputsUnchanged
         /\ \E id \in {0, NextId} :
               /\ eqLib' = IF id = 0 THEN eqLib ELSE added(eqLib, id, after)
               /\ eqVer' = [eqVer EXCEPT !.state = "Settling", !.after = id, !.report = <<report>>]
  BY Zenon DEF EqTrySubmit
<1>3. CASE eqLib' = eqLib /\ \E why : abort(why)
  BY <1>1, <1>3, AbortIsVer, VerStep
<1>4. ASSUME inputsUnchanged, NEW id \in {0, NextId},
             eqLib' = IF id = 0 THEN eqLib ELSE added(eqLib, id, after),
             eqVer' = [eqVer EXCEPT !.state = "Settling", !.after = id, !.report = <<report>>]
      PROVE  EqIInv'
  <2>1. /\ VerOK(eqVer, eqLib) /\ BoundTo(eqPane, eqLib) /\ PaneOK(eqPane) /\ WorldOK(eqWorld) /\ LibOK(eqLib)
        /\ DOMAIN eqVer = EqVerFields
    BY DEF EqIInv, VerOK
  <2>2. eqVer.meas \in DOMAIN eqLib /\ eqPane.meas = eqVer.meas /\ eqPane.filters = eqVer.filters /\ eqVer.outcome # "Adopted"
    BY <1>1, <1>4, <2>1 DEF VerOK, inputsUnchanged
  <2>3. PICK n \in Nat : DOMAIN eqLib = 1..n
    BY <2>1 DEF LibOK
  <2>4. eqPane.grid # "none" /\ eqPane.grid \in DOMAIN EqGrids
    <3>1. eqPane.meas # 0
      BY <2>2, <2>3
    <3> QED BY <2>1, <3>1 DEF BoundTo, PaneOK
  <2>5. ghostDb(eqPane) = Predicted(eqLib[eqVer.meas].trace, eqVer.filters)
    BY <2>1, <2>2, <2>4, GhostIsPredicted
  <2>6. TraceOK(after)
    BY <2>1, <2>4, LiveIsTrace
  <2> HIDE DEF after
  <2>7. report = [trusted |-> trusted,
                  flagged |-> {k \in trusted : Apart(after.db[k], Predicted(eqLib[eqVer.meas].trace, eqVer.filters)[k],
                                                     after.coherence[k])}]
    BY <2>5, Zenon DEF compareToPrediction
  <2> HIDE DEF trusted, report
  <2>8. /\ report.trusted = trusted
        /\ report.flagged = {k \in trusted : Apart(after.db[k], Predicted(eqLib[eqVer.meas].trace, eqVer.filters)[k],
                                                   after.coherence[k])}
    BY <2>7
  <2>9. /\ DOMAIN eqVer' = EqVerFields /\ eqVer'.meas = eqVer.meas /\ eqVer'.filters = eqVer.filters /\ eqVer'.after = id
        /\ eqVer'.outcome = eqVer.outcome /\ eqVer'.report = <<report>>
    BY <1>4, <2>1 DEF EqVerFields
  <2>10. eqVer'.report[1] = report
    BY <2>9
  <2>11. CASE id = 0
    <3>1. UNCHANGED <<eqWorld, eqLib, eqPane>>
      BY <1>1, <1>4, <2>11
    <3>2. VerOK(eqVer', eqLib)
      BY <2>2, <2>9, <2>11, Zenon DEF VerOK
    <3> QED BY <3>1, <3>2, VerStep
  <2>12. CASE id = NextId /\ id # 0
    <3>1. eqLib' = added(eqLib, NextId, after)
      BY <1>4, <2>12
    <3>2. LibOK(eqLib') /\ Keeps(eqLib, eqLib') /\ id \in DOMAIN eqLib' /\ eqLib'[id].trace = after
      BY <2>1, <2>6, <2>12, <3>1, AddedIsLibrary
    <3>3. eqVer.meas \in DOMAIN eqLib' /\ eqLib'[eqVer.meas].trace = eqLib[eqVer.meas].trace
      BY <2>2, <3>2, Zenon DEF Keeps
    <3>4. VerOK(eqVer', eqLib')
      BY <2>2, <2>8, <2>9, <2>10, <3>2, <3>3, Zenon DEF VerOK
    <3>5. WorldOK(eqWorld')
      BY <1>1, <2>1
    <3> QED BY <1>1, <3>2, <3>4, <3>5, OtherStep
  <2> QED BY <1>4, <2>11, <2>12
<1> QED BY <1>2, <1>3, <1>4

\* A step of ADOPT: nothing but the outcome of a refusal, or the trace VERIFY stored becomes the
\* measurement.
LEMMA AdoptStep ==
  ASSUME EqIInv, EqAdopt
  PROVE  EqIInv'
<1> DEFINE p == selectMeasurement(eqPane, eqVer.after)
           all == [i \in DOMAIN p.filters |-> [p.filters[i] EXCEPT !.applied = TRUE]]
           marked == [p EXCEPT !.filters = all]
<1>1. eqWorld' = eqWorld /\ eqLib' = eqLib /\ UNCHANGED <<eqWorld, eqLib>> /\ eqVer.state = "Done"
  BY DEF EqAdopt, canAdopt
<1>2. \/ eqVer' = [eqVer EXCEPT !.outcome = "InputsChanged"] /\ eqPane' = eqPane
      \/ eqVer' = eqVer /\ eqPane' = eqPane
      \/ measurementUsable(eqVer.after) /\ eqPane' = marked /\ eqVer' = [EqVerInit EXCEPT !.outcome = "Adopted"]
  BY Zenon DEF EqAdopt
<1>3. VerOK(eqVer, eqLib) /\ DOMAIN eqVer = EqVerFields
  BY DEF EqIInv, VerOK
<1>4. CASE eqVer' = [eqVer EXCEPT !.outcome = "InputsChanged"] /\ eqPane' = eqPane
  <2>1. /\ DOMAIN eqVer' = EqVerFields /\ eqVer'.meas = eqVer.meas /\ eqVer'.filters = eqVer.filters
        /\ eqVer'.after = eqVer.after /\ eqVer'.report = eqVer.report /\ eqVer'.outcome # "Adopted"
        /\ eqVer'.state = eqVer.state
    BY <1>3, <1>4 DEF EqVerFields
  <2>2. VerOK(eqVer', eqLib)
    BY <1>3, <2>1, Zenon DEF VerOK
  <2> QED BY <1>1, <1>4, <2>2, VerStep
<1>5. CASE eqVer' = eqVer /\ eqPane' = eqPane
  BY <1>1, <1>3, <1>5, VerStep
<1>6. CASE measurementUsable(eqVer.after) /\ eqPane' = marked /\ eqVer' = [EqVerInit EXCEPT !.outcome = "Adopted"]
  <2>1. PaneOK(p) /\ p.chips = <<>> /\ BoundTo(p, eqLib)
    BY <1>6, SelectedIsPane
  <2> HIDE DEF p
  <2>2. DOMAIN p = EqPaneFields /\ p.filters \in Seq(EqFilters) /\ p.max \in Nat
    BY <2>1 DEF PaneOK
  <2>3. all \in Seq(EqFilters)
    <3>1. PICK m \in Nat : DOMAIN p.filters = 1..m /\ \A i \in 1..m : p.filters[i] \in EqFilters
      <4>1. DOMAIN p.filters = 1..Len(p.filters) /\ Len(p.filters) \in Nat /\ \A k \in DOMAIN p.filters : p.filters[k] \in EqFilters
        BY <2>2, ListPlaces
      <4> QED BY <4>1
    <3>2. \A i \in 1..m : [p.filters[i] EXCEPT !.applied = TRUE] \in EqFilters
      BY <3>1, Zenon DEF EqFilters
    <3>3. all \in [1..m -> EqFilters]
      BY <3>1, <3>2, Zenon
    <3> HIDE DEF all
    <3> QED BY <3>3, ListOf
  <2> HIDE DEF all
  <2>4. SameBut(p, marked, {"filters"}) /\ marked.filters = all /\ marked.max = p.max /\ marked.chips = p.chips
    BY <2>2 DEF SameBut, EqPaneFields
  <2> HIDE DEF marked
  <2>5. SameBut(p, marked, {"meas", "measRemoved", "tgt", "tgtRemoved", "firPhase", "firTaps", "max", "chips", "filters"})
    BY <2>4, Zenon DEF SameBut
  <2>6. marked.chips \in Seq(FilterSpec)
    BY <2>1, <2>4
  <2>7. PaneOK(marked)
    BY <2>1, <2>2, <2>3, <2>4, <2>5, <2>6, PaneKeeps
  <2>8. marked.meas = p.meas /\ marked.grid = p.grid /\ marked.db = p.db /\ marked.coherence = p.coherence
    BY <2>4 DEF SameBut, EqPaneFields
  <2>9. BoundTo(marked, eqLib)
    BY <2>1, <2>8, StaysBound
  <2>10. ChipsOf(marked)
    BY <2>1, <2>4, NoChips
  <2>11. DOMAIN eqVer' = EqVerFields /\ eqVer'.state = "None" /\ eqVer'.report = <<>>
    BY <1>6, VerInitFields DEF EqVerFields
  <2>12. VerOK(eqVer', eqLib)
    BY <2>11 DEF VerOK
  <2>13. PaneOK(eqPane') /\ ChipsOf(eqPane') /\ BoundTo(eqPane', eqLib)
    BY <1>6, <2>7, <2>9, <2>10
  <2>14. PaneOK(eqPane)' /\ ChipsOf(eqPane)'
    BY <2>13 DEF PaneOK, ChipsOf, suggest, makeInput, workingResidualDb, ghostDb, hz, Unapplied, Specs, Sounds,
                 PaneLevels, PaneMasks, SourceOK
  <2>15. WorldOK(eqWorld)' /\ LibOK(eqLib)' /\ VerOK(eqVer, eqLib)' /\ BoundTo(eqPane, eqLib)'
    BY <1>1, <2>12, <2>13 DEF EqIInv
  <2> QED BY <2>14, <2>15 DEF EqIInv
<1> QED BY <1>2, <1>4, <1>5, <1>6

\* The pane before anything is picked.
LEMMA PaneInitFields ==
  /\ DOMAIN EqPaneInit = EqPaneFields /\ EqPaneInit.meas = 0 /\ EqPaneInit.source = NoTarget
  /\ EqPaneInit.chips = <<>> /\ EqPaneInit.grid = "none" /\ EqPaneInit.coherence = <<>> /\ EqPaneInit.phaseValid = FALSE
  /\ EqPaneInit.trusted = {} /\ EqPaneInit.excluded = {} /\ EqPaneInit.declined = <<>> /\ EqPaneInit.filters = <<>>
  /\ EqPaneInit.max = 2
<1> DEFINE f == [meas |-> 0, measRemoved |-> FALSE, tgt |-> 0, tgtRemoved |-> FALSE, source |-> NoTarget, chips |-> <<>>,
                 firPhase |-> FALSE, firTaps |-> FALSE]
           g == EqSessionInit
<1>1. /\ DOMAIN f = {"meas", "measRemoved", "tgt", "tgtRemoved", "source", "chips", "firPhase", "firTaps"}
      /\ f.meas = 0 /\ f.source = NoTarget /\ f.chips = <<>>
  OBVIOUS
<1>2. /\ DOMAIN g = {"grid", "db", "target", "coherence", "phase", "phaseValid", "trusted", "excluded", "declined",
                     "filters", "max"}
      /\ g.grid = "none" /\ g.coherence = <<>> /\ g.phaseValid = FALSE /\ g.trusted = {} /\ g.excluded = {}
      /\ g.declined = <<>> /\ g.filters = <<>> /\ g.max = 2
  BY DEF EqSessionInit
<1> HIDE DEF f, g
<1>3. EqPaneInit = Joined(f, g)
  BY DEF EqPaneInit, f, g
<1>4. EqPaneInit = [x \in (DOMAIN f) \cup (DOMAIN g) |-> IF x \in DOMAIN f THEN f[x] ELSE g[x]]
  BY <1>3, Zenon DEF Joined
<1> QED BY <1>1, <1>2, <1>4 DEF EqPaneFields

\* The state before anything is pressed.
LEMMA EqInitHolds ==
  ASSUME EqInit
  PROVE  EqIInv
<1>1. PICK b \in EqBounds : \E w \in b.rooms :
           eqWorld = [room |-> w.room, phase |-> w.phase, phaseValid |-> w.phaseValid, coherence |-> w.coherence,
                      rig |-> <<>>, grid |-> "A", transfer |-> TRUE, exponential |-> FALSE, running |-> TRUE,
                      outputTaken |-> FALSE, fir |-> [f \in DOMAIN w.room |-> 0]]
  BY Zenon DEF EqInit
<1>2. PICK w \in b.rooms :
           eqWorld = [room |-> w.room, phase |-> w.phase, phaseValid |-> w.phaseValid, coherence |-> w.coherence,
                      rig |-> <<>>, grid |-> "A", transfer |-> TRUE, exponential |-> FALSE, running |-> TRUE,
                      outputTaken |-> FALSE, fir |-> [f \in DOMAIN w.room |-> 0]]
  BY <1>1
<1>3. /\ DOMAIN eqWorld = EqWorldFields /\ eqWorld.room = w.room /\ eqWorld.phase = w.phase /\ eqWorld.rig = <<>>
      /\ eqWorld.phaseValid = w.phaseValid /\ eqWorld.coherence = w.coherence
  BY <1>2 DEF EqWorldFields
<1>4. eqWorld.rig \in Seq(FilterSpec)
  BY <1>3
<1>5. WorldOK(eqWorld)
  BY <1>3, <1>4, EqAssumption, Zenon DEF WorldOK, Bins
<1>6. LibOK(eqLib)
  <2> DEFINE a == liveTrace("A")
             b2 == liveTrace("B")
             c == [b2 EXCEPT !.coherence = <<>>]
             t(id) == CASE id = 1 -> a [] id = 2 -> b2 [] id = 3 -> c
             entry(id) == [visible |-> TRUE, trace |-> t(id)]
  <2>1. eqLib = [id \in 1..3 |-> entry(id)]
    BY Zenon DEF EqInit
  <2>2. "A" \in DOMAIN EqGrids /\ "B" \in DOMAIN EqGrids
    BY EqAssumption
  <2>3. TraceOK(a) /\ TraceOK(b2) /\ DOMAIN b2 = {"grid", "coherence", "finite", "db", "phase"}
    BY <1>5, <2>2, LiveIsTrace
  <2> HIDE DEF a, b2
  <2>4. c.grid = b2.grid /\ c.db = b2.db /\ c.phase = b2.phase /\ c.coherence = <<>>
    BY <2>3
  <2> HIDE DEF c
  <2>5. TraceOK(c)
    BY <2>3, <2>4 DEF TraceOK
  <2>6. t(1) = a /\ t(2) = b2 /\ t(3) = c
    OBVIOUS
  <2> HIDE DEF t
  <2>7. \A id \in 1..3 : id = 1 \/ id = 2 \/ id = 3
    OBVIOUS
  <2>8. \A id \in 1..3 : TraceOK(t(id))
    BY <2>3, <2>5, <2>6, <2>7
  <2>9. \A id \in 1..3 : DOMAIN entry(id) = {"trace", "visible"} /\ entry(id).trace = t(id)
    OBVIOUS
  <2> HIDE DEF entry
  <2>10. DOMAIN eqLib = 1..3 /\ \A id \in 1..3 : eqLib[id] = entry(id)
    BY <2>1
  <2>11. 3 \in Nat
    OBVIOUS
  <2> QED BY <2>8, <2>9, <2>10, <2>11, Zenon DEF LibOK
<1>7. PaneOK(eqPane) /\ eqPane.chips = <<>> /\ eqPane.meas = 0 /\ eqPane.grid = "none"
  <2>1. eqPane = EqPaneInit
    BY DEF EqInit
  <2> DEFINE p == eqPane
  <2>2. /\ DOMAIN p = EqPaneFields /\ p.meas = 0 /\ p.source = NoTarget /\ p.chips = <<>> /\ p.grid = "none"
        /\ p.coherence = <<>> /\ p.phaseValid = FALSE /\ p.trusted = {} /\ p.excluded = {} /\ p.declined = <<>>
        /\ p.filters = <<>> /\ p.max = 2
    BY <2>1, PaneInitFields
  <2>3. hz(p) = <<>>
    BY <2>2 DEF hz
  <2>4. DOMAIN hz(p) = {} /\ DOMAIN p.coherence = {}
    BY <2>2, <2>3
  <2>5. PaneMasks(p)
    BY <2>2, <2>4, Zenon DEF PaneMasks, buildTrustMask
  <2>6. PaneLevels(p) /\ SourceOK(p.source)
    BY <2>2 DEF PaneLevels, SourceOK, NoTarget
  <2>7. p.filters \in Seq(EqFilters) /\ p.declined \in Seq(FilterSpec) /\ p.chips \in Seq(FilterSpec) /\ p.max \in Nat
    BY <2>2
  <2> QED BY <2>2, <2>5, <2>6, <2>7 DEF PaneOK
<1>8. ChipsOf(eqPane)
  BY <1>7, NoChips
<1>9. BoundTo(eqPane, eqLib)
  BY <1>7 DEF BoundTo
<1>10. VerOK(eqVer, eqLib)
  <2>1. eqVer = EqVerInit
    BY DEF EqInit
  <2> QED BY <2>1, VerInitFields DEF VerOK
<1> QED BY <1>5, <1>6, <1>7, <1>8, <1>9, <1>10 DEF EqIInv

\* A step of somebody else.
LEMMA EqStutters ==
  ASSUME EqIInv, UNCHANGED eqVars
  PROVE  EqIInv'
<1>1. eqWorld' = eqWorld /\ eqLib' = eqLib /\ eqPane' = eqPane /\ eqVer' = eqVer /\ UNCHANGED <<eqWorld, eqLib, eqPane>>
  BY DEF eqVars
<1>2. VerOK(eqVer', eqLib)
  BY <1>1 DEF EqIInv
<1> QED BY <1>1, <1>2, VerStep

\* Every step keeps the inductive invariant.
LEMMA EqStep ==
  ASSUME EqIInv, [EqNext]_eqVars
  PROVE  EqIInv'
<1>1. CASE UNCHANGED eqVars
  BY <1>1, EqStutters
<1>2. CASE EqNext
  <2>1. ASSUME NEW id \in DOMAIN eqLib, EqSelectMeasurement(id) \/ EqHideTrace(id) PROVE EqIInv'
    BY <2>1, SelectMeasurementStep, HideTraceStep
  <2>2. ASSUME NEW id \in DOMAIN eqLib \cup {0}, EqSelectTarget(id) PROVE EqIInv'
    BY <2>2, SelectTargetStep
  <2>3. CASE EqSyncLibrary
    BY <2>3, SyncLibraryStep
  <2>4. ASSUME NEW n \in {0, 2}, EqSetMaxFilters(n) PROVE EqIInv'
    BY <2>4, SetMaxFiltersStep
  <2>5. CASE EqRunAutoEq
    BY <2>5, RunAutoEqStep
  <2>6. CASE EqSuggest
    BY <2>6, SuggestStep
  <2>7. CASE EqClearFilters
    BY <2>7, ClearFiltersStep
  <2>8. CASE EqClearDeclined
    BY <2>8, ClearDeclinedStep
  <2>9. CASE EqExport
    BY <2>9, ExportStep
  <2>10. ASSUME NEW i \in 1..EqChips, EqAcceptChip(i) \/ EqDeclineChip(i) PROVE EqIInv'
    BY <2>10, AcceptChipStep, DeclineChipStep
  <2>11. ASSUME NEW i \in DOMAIN eqPane.filters, NEW b \in BOOLEAN, EqSetApplied(i, b) PROVE EqIInv'
    BY <2>11, SetAppliedStep
  <2>12. ASSUME NEW phase \in BOOLEAN, NEW taps \in BOOLEAN, EqSetFir(phase, taps) PROVE EqIInv'
    BY <2>12, SetFirStep
  <2>13. CASE EqVerifyPress
    BY <2>13, VerifyPressStep
  <2>14. CASE EqVerifyPoll
    BY <2>14, VerifyPollStep
  <2>15. CASE EqTrySubmit
    BY <2>15, TrySubmitStep
  <2>16. CASE EqAdopt
    BY <2>16, AdoptStep
  <2>17. CASE EqLive
    BY <2>17, LiveStep
  <2>18. ASSUME NEW rig \in {<<>>, Specs(eqPane.filters, DOMAIN eqPane.filters)}, EqDial(rig) PROVE EqIInv'
    BY <2>18, DialStep
  <2> QED BY <1>2, <2>1, <2>2, <2>3, <2>4, <2>5, <2>6, <2>7, <2>8, <2>9, <2>10, <2>11, <2>12, <2>13, <2>14, <2>15,
             <2>16, <2>17, <2>18, Zenon DEF EqNext
<1> QED BY <1>1, <1>2

\* The invariant of the EQ pane holds of every state.
THEOREM EqHoldsTogether == EqSpec => []EqIInv
<1>1. EqInit => EqIInv
  BY EqInitHolds
<1>2. EqIInv /\ [EqNext]_eqVars => EqIInv'
  BY EqStep
<1> QED BY <1>1, <1>2, PTL DEF EqSpec

\* AUTO EQ and SUGGEST end, offer only filters that may be placed on what the pane holds now, and none
\* in a declined band; a chip on screen is one SUGGEST would offer now.
THEOREM EqOffersWhatItMay == EqSpec => []EqInv
<1>1. EqIInv => EqInv
  BY EqInvFollows
<1> QED BY <1>1, EqHoldsTogether, PTL

\* The step that adopts.
LEMMA AdoptsWhatItHeard ==
  ASSUME EqIInv, [EqNext]_eqVars, eqVer'.outcome = "Adopted", canAdopt, eqVer.report[1].flagged = {},
         NEW k \in eqVer.report[1].trusted
  PROVE  ~Apart(eqPane'.db[k], ghostDb(eqPane)[k], eqPane'.coherence[k])
<1>1. VerOK(eqVer, eqLib) /\ BoundTo(eqPane, eqLib) /\ PaneOK(eqPane) /\ LibOK(eqLib) /\ DOMAIN eqVer = EqVerFields
  BY DEF EqIInv, VerOK
<1>2. eqVer.state = "Done" /\ eqVer.report # <<>> /\ eqVer.after # 0
  BY DEF canAdopt
<1>3. eqVer.outcome # "Adopted"
  BY <1>1, <1>2 DEF VerOK
<1>4. EqAdopt
  <2>1. eqVer' # eqVer
    BY <1>3
  <2>2. EqNext
    BY <2>1 DEF eqVars
  <2>3. ~eqBusy /\ eqVer.state # "Measuring"
    BY <1>2 DEF eqBusy
  <2>4. ~EqVerifyPoll /\ ~EqTrySubmit
    BY <2>3 DEF EqVerifyPoll, EqTrySubmit
  <2>5. ~EqVerifyPress
    <3>1. SUFFICES ASSUME EqVerifyPress PROVE FALSE
      OBVIOUS
    <3>2. eqVer' = [EqVerInit EXCEPT !.state = "Waiting", !.meas = eqPane.meas, !.filters = eqPane.filters]
      BY <3>1 DEF EqVerifyPress
    <3>3. eqVer'.outcome = "None"
      BY <3>2, VerInitFields DEF EqVerFields
    <3> QED BY <3>3
  <2> QED BY <2>1, <2>2, <2>4, <2>5, Zenon
          DEF EqNext, EqSelectMeasurement, EqHideTrace, EqSelectTarget, EqSyncLibrary, EqSetMaxFilters, EqRunAutoEq,
              EqSuggest, EqClearFilters, EqClearDeclined, EqExport, EqAcceptChip, EqDeclineChip, EqSetApplied, EqSetFir,
              EqLive, EqDial
<1> DEFINE p == selectMeasurement(eqPane, eqVer.after)
           all == [i \in DOMAIN p.filters |-> [p.filters[i] EXCEPT !.applied = TRUE]]
<1>5. \/ eqVer' = [eqVer EXCEPT !.outcome = "InputsChanged"]
      \/ eqVer' = eqVer
      \/ inputsUnchanged /\ measurementUsable(eqVer.after) /\ eqPane' = [p EXCEPT !.filters = all]
  BY <1>4, Zenon DEF EqAdopt
<1>6. eqVer' # [eqVer EXCEPT !.outcome = "InputsChanged"] /\ eqVer' # eqVer
  BY <1>1, <1>3 DEF EqVerFields
<1>7. inputsUnchanged /\ measurementUsable(eqVer.after) /\ eqPane' = [p EXCEPT !.filters = all]
  BY <1>5, <1>6
<1>8. /\ p.db = eqLib[eqVer.after].trace.db /\ p.coherence = eqLib[eqVer.after].trace.coherence
      /\ DOMAIN p = EqPaneFields
  BY <1>7, SelectedIsPane DEF PaneOK
<1> HIDE DEF p, all
<1>9. eqPane'.db = eqLib[eqVer.after].trace.db /\ eqPane'.coherence = eqLib[eqVer.after].trace.coherence
  BY <1>7, <1>8 DEF EqPaneFields
<1>10. eqPane.meas = eqVer.meas /\ eqPane.filters = eqVer.filters
  BY <1>7 DEF inputsUnchanged
<1>11. /\ eqVer.meas \in DOMAIN eqLib
       /\ eqVer.report[1].flagged
            = {j \in eqVer.report[1].trusted : Apart(eqLib[eqVer.after].trace.db[j],
                                                     Predicted(eqLib[eqVer.meas].trace, eqVer.filters)[j],
                                                     eqLib[eqVer.after].trace.coherence[j])}
  BY <1>1, <1>2, Zenon DEF VerOK
<1>12. eqPane.grid # "none"
  <2>1. PICK n \in Nat : DOMAIN eqLib = 1..n
    BY <1>1 DEF LibOK
  <2>2. eqPane.meas # 0
    BY <1>10, <1>11, <2>1
  <2> QED BY <1>1, <2>2 DEF BoundTo
<1>13. ghostDb(eqPane) = Predicted(eqLib[eqVer.meas].trace, eqVer.filters)
  BY <1>1, <1>10, <1>11, <1>12, GhostIsPredicted
<1> QED BY <1>9, <1>11, <1>13, Zenon

\* ADOPT after a report without a flagged bin: the new measurement is, where trusted, the old one with
\* the filters that are marked, within the corridor or the noise.
THEOREM EqAdoptsWhatItHeard == EqSpec => EqAdoptVerified
<1>1. EqIInv /\ [EqNext]_eqVars =>
        [(eqVer'.outcome = "Adopted" /\ canAdopt /\ eqVer.report[1].flagged = {}) =>
            \A k \in eqVer.report[1].trusted :
                ~Apart(eqPane'.db[k], ghostDb(eqPane)[k], eqPane'.coherence[k])]_eqVars
  BY AdoptsWhatItHeard
<1> QED BY <1>1, EqHoldsTogether, PTL DEF EqSpec, EqAdoptVerified

-------------------------------------------------------------------------------
(* Alignment: the inductive invariant. *)

AlEngFields == {"armed", "ramping", "routed", "tail", "rendered", "epoch", "heard", "behind", "snap"}
AlRunFields == {"wizard", "outcome", "epoch", "synthetic", "fft", "start", "cycle", "fromIr"}
AlWizardFields == {"step", "ans", "window", "start", "traces", "sum", "verdict", "cycle", "fromIr", "hint", "seedFar",
                   "irs", "refusal"}
AlAnsFields == {"main", "sub", "high", "seed"}
AlEnvFields == {"synthetic", "running", "outs", "fft", "roles", "exponential", "transfer", "ratesOk"}

\* The answers: an output for each side, and, once asked, the side above the crossover.
AlAnswers(ans) == DOMAIN ans = AlAnsFields /\ ans.main \in {0, 1} /\ ans.sub \in {0, 1} /\ ans.high \in Sides \cup {"unasked"}

\* A response is of the loudspeaker on its output.
AlHeardAt(ir) == ir.out \in {0, 1} /\ ir.arrival = AlArrival[ir.out]

\* The engine's counts; the average remembers AlSpan chunks.
AlEngine(e) ==
  /\ DOMAIN e = AlEngFields /\ e.rendered \in Nat /\ e.epoch \in Nat /\ e.behind \in 0..AlLag
  /\ e.heard \in Seq(SUBSET Int) /\ Len(e.heard) <= AlSpan

\* The outputs a step plays.
AlPlays(w) == IF w.step = "MeasuringHigh" THEN {OutputOf(w.ans, w.ans.high)}
              ELSE IF w.step = "MeasuringLow" THEN {OutputOf(w.ans, Other(w.ans.high))}
              ELSE {w.ans.main, w.ans.sub}

\* Where the fit puts the low side of the answers, up to whole periods.
AlTrue(w) == AlArrival[OutputOf(w.ans, Other(w.ans.high))] - AlArrival[OutputOf(w.ans, w.ans.high)]
AlCandidates(w, slip) ==
  <<AlTrue(w) + slip * AlPeriod, AlTrue(w) + (slip + 1) * AlPeriod, AlTrue(w) + (slip - 1) * AlPeriod>>

\* What a wizard holds at each of its steps.
AlWizard(w) ==
  /\ DOMAIN w = AlWizardFields /\ AlAnswers(w.ans) /\ w.ans.high \in Sides
  /\ w.step \in {"MeasuringHigh", "MeasuringLow", "MeasuringSum", "AskingCycle", "AskingPolarity", "Computed", "Done"}
  /\ w.step = "MeasuringHigh" => w.traces = <<>>
  /\ w.step = "MeasuringLow" => \E a : w.traces = <<a>>
  /\ w.step \in {"MeasuringHigh", "MeasuringLow"} <=> w.verdict = <<>>
  /\ w.fromIr \in BOOLEAN /\ (w.verdict = <<>> => w.cycle = <<>> /\ ~w.fromIr)
  /\ w.step = "AskingCycle" => ~w.fromIr
  /\ DOMAIN w.irs \in SUBSET Sides /\ \A s \in DOMAIN w.irs : AlHeardAt(w.irs[s])

\* The traces are of the outputs their steps played, and a pair is of one opening and one set of roles.
AlHeardRight(w) ==
  /\ \A i \in DOMAIN w.traces :
         w.traces[i].heard = {{OutputOf(w.ans, IF i = 1 THEN w.ans.high ELSE Other(w.ans.high))}}
  /\ \A t \in Range(w.sum) : t.heard = {{w.ans.main, w.ans.sub} \cap (0..(t.outs - 1))}
  /\ w.verdict # <<>> => SameSetup(w.traces[1], w.traces[2])

\* A cycle the responses chose is their own lag, among the candidates of a fit.
AlChosen(w) ==
  w.fromIr => /\ DOMAIN w.irs = Sides /\ w.hint = <<irHint(w)>> /\ w.cycle = w.hint
              /\ \E slip \in {-1, 0, 1} : w.verdict[1].candidates = AlCandidates(w, slip)

\* What the runner keeps beside its wizard.
AlBeside(run, w) ==
  /\ w.verdict = <<>> => run.cycle = <<>> /\ run.fromIr = FALSE
  /\ w.verdict # <<>> /\ w.verdict[1].refusal = "None" =>
         (run.cycle # <<>> => run.cycle = w.cycle) /\ run.fromIr = w.fromIr
  /\ w.step = "MeasuringLow" => w.traces[1].epoch = run.epoch

\* While a step is measured in the opening it was pressed in: the source is armed on its outputs, and
\* the chunks since, but for the first, hold them alone.
AlSolo(env, e, run, w) ==
  LET now == AlPlays(w) \cap (0..(env.outs - 1))
      since == e.rendered - run.start
  IN  /\ e.armed /\ e.routed = AlPlays(w) /\ run.start \in Nat /\ since >= 0
      /\ since >= 1 => e.tail = {}
      /\ w.step # "MeasuringSum" => {w.ans.main, w.ans.sub} \subseteq 0..(env.outs - 1)
      /\ since >= 1 => Len(e.heard) >= 1
      /\ \A i \in DOMAIN e.heard : Len(e.heard) - i < since - 1 => e.heard[i] = now
      /\ since - e.behind > AlSpan => e.snap.heard = {now}

\* The wizard of a run.
AlRunHolds(env, e, run) ==
  /\ DOMAIN run = AlRunFields /\ run.epoch \in Nat /\ run.epoch <= e.epoch
  /\ \/ run.wizard = <<>>
     \/ \E w : /\ run.wizard = <<w>> /\ AlWizard(w) /\ AlHeardRight(w) /\ AlChosen(w) /\ AlBeside(run, w)
               /\ Measuring(w) /\ run.epoch = e.epoch => AlSolo(env, e, run, w)

\* A sweep that ends is bound to the side it was started for.
AlSwept(ir) ==
  /\ DOMAIN ir = {"bound", "sweep", "pending"} /\ DOMAIN ir.bound = Sides
  /\ \A s \in Sides : ir.bound[s] = <<>> \/ \E b : ir.bound[s] = <<b>> /\ b.asked = s /\ AlHeardAt(b)
  /\ ir.sweep = <<>> \/ \E p : /\ ir.sweep = <<p>> /\ ir.pending = <<p>> /\ p.side \in Sides /\ p.out \in {0, 1}

AlIInv ==
  /\ DOMAIN alEnv = AlEnvFields /\ alEnv.outs \in Int
  /\ AlAnswers(alAns) /\ AlEngine(alEng) /\ AlRunHolds(alEnv, alEng, alRun) /\ AlSwept(alIr)

\* There are two sides.
LEMMA OtherSide ==
  Other("Main") = "Sub" /\ Other("Sub") = "Main"
<1>1. \A s \in Sides : (s # "Main") <=> (s = "Sub")
  BY DEF Sides
<1>2. \A s \in Sides : (s # "Sub") <=> (s = "Main")
  BY DEF Sides
<1>3. "Main" \in Sides /\ "Sub" \in Sides
  BY DEF Sides
<1>4. (CHOOSE s \in Sides : s # "Main") = "Sub"
  BY <1>1, <1>3
<1>5. (CHOOSE s \in Sides : s # "Sub") = "Main"
  BY <1>2, <1>3
<1> QED BY <1>4, <1>5 DEF Other

\* Each side has an output.
LEMMA OutputIsThere ==
  ASSUME NEW ans, AlAnswers(ans), NEW side
  PROVE  OutputOf(ans, side) \in {0, 1} /\ OutputOf(ans, side) \in {ans.main, ans.sub}
BY DEF AlAnswers, OutputOf

\* A finite list is empty, one thing, or more.
LEMMA RangeOfOne ==
  ASSUME NEW x
  PROVE  Range(<<x>>) = {x} /\ Range(<<>>) = {}
BY DEF Range

\* The nearest of three candidates to one of them is that one.
LEMMA NearestIsIt ==
  ASSUME NEW a \in Int, NEW b \in Int, NEW c \in Int, NEW target \in {a, b, c}
  PROVE  nearest(<<a, b, c>>, target) = target
<1> DEFINE list == <<a, b, c>>
           best == {i \in DOMAIN list : \A j \in DOMAIN list : Distance(list[i], target) <= Distance(list[j], target)}
<1>1. DOMAIN list = 1..3 /\ list[1] = a /\ list[2] = b /\ list[3] = c /\ \A i \in 1..3 : list[i] \in Int
  OBVIOUS
<1>2. PICK k \in 1..3 : list[k] = target
  <2>1. 1 \in 1..3 /\ 2 \in 1..3 /\ 3 \in 1..3
    OBVIOUS
  <2> QED BY <1>1, <2>1
<1>3. nearest(list, target) = list[Min(best)]
  BY Zenon DEF nearest
<1> HIDE DEF list
<1>4. \A i \in 1..3 : Distance(list[i], target) \in Nat /\ (Distance(list[i], target) = 0 <=> list[i] = target)
  BY <1>1 DEF Distance
<1>5. k \in best
  <2>1. \A j \in 1..3 : Distance(list[k], target) <= Distance(list[j], target)
    BY <1>2, <1>4
  <2> QED BY <1>1, <2>1
<1>6. \A i \in best : list[i] = target
  BY <1>1, <1>2, <1>4
<1>7. best \in SUBSET Nat /\ best # {}
  BY <1>1, <1>5
<1>8. Min(best) \in best
  <2> HIDE DEF best
  <2> QED BY <1>7, MinNat
<1>9. list[Min(best)] = target
  <2> HIDE DEF best
  <2> QED BY <1>6, <1>8
<1> QED BY <1>3, <1>9 DEF list

\* The lag of the responses of the two outputs is the true one.
LEMMA InstructionAligns ==
  ASSUME NEW w, AlWizard(w), AlChosen(w), w.fromIr, \A s \in Sides : w.irs[s].out = OutputOf(w.ans, s)
  PROVE  LET after == [s \in Sides |-> AlArrival[OutputOf(w.ans, s)] + delayInstruction(w)[s]]
         IN  after["Main"] = after["Sub"]
<1> DEFINE at(s) == AlArrival[OutputOf(w.ans, s)]
           high == w.ans.high
           tau == resolveCycle(w)
<1>1. /\ high \in Sides /\ AlAnswers(w.ans) /\ DOMAIN w.irs = Sides /\ w.hint = <<irHint(w)>> /\ w.cycle = w.hint
      /\ \A s \in Sides : AlHeardAt(w.irs[s])
  BY DEF AlWizard, AlChosen
<1>2. high \in {"Main", "Sub"} /\ Other(high) \in {"Main", "Sub"} /\ Other(high) # high
  BY <1>1, OtherSide DEF Sides
<1>3. \A s \in Sides : at(s) \in Int /\ w.irs[s].arrival = at(s)
  <2>1. \A s \in Sides : OutputOf(w.ans, s) \in {0, 1}
    BY <1>1, OutputIsThere
  <2>2. \A s \in Sides : w.irs[s].arrival = at(s)
    BY <1>1 DEF AlHeardAt
  <2> QED BY <2>1, <2>2, AlAssumption
<1> HIDE DEF at
<1>4. irHint(w) = at(Other(high)) - at(high)
  BY <1>2, <1>3 DEF irHint, Sides
<1>5. AlTrue(w) = at(Other(high)) - at(high) /\ AlTrue(w) \in Int
  BY <1>2, <1>3 DEF AlTrue, at, Sides
<1>6. PICK slip \in {-1, 0, 1} : w.verdict[1].candidates = AlCandidates(w, slip)
  BY DEF AlChosen
<1>7. nearest(AlCandidates(w, slip), AlTrue(w)) = AlTrue(w)
  <2> DEFINE a == AlTrue(w) + slip * AlPeriod
             b == AlTrue(w) + (slip + 1) * AlPeriod
             c == AlTrue(w) + (slip - 1) * AlPeriod
  <2>1. AlPeriod \in Int
    BY AlAssumption
  <2>2. slip = -1 \/ slip = 0 \/ slip = 1
    OBVIOUS
  <2>3. a \in Int /\ b \in Int /\ c \in Int /\ AlTrue(w) \in {a, b, c}
    BY <1>5, <2>1, <2>2
  <2>4. AlCandidates(w, slip) = <<a, b, c>>
    BY DEF AlCandidates
  <2> HIDE DEF a, b, c
  <2> QED BY <2>3, <2>4, NearestIsIt
<1>8. tau = AlTrue(w)
  <2>1. w.cycle = <<AlTrue(w)>>
    BY <1>1, <1>4, <1>5
  <2> QED BY <1>6, <1>7, <2>1 DEF resolveCycle
<1> HIDE DEF tau
<1> DEFINE delayed == IF tau > 0 THEN high ELSE Other(high)
           told == delayInstruction(w)
<1>9. told = [s \in Sides |-> IF s = delayed THEN Distance(tau, 0) ELSE 0]
  BY Zenon DEF delayInstruction, tau
<1>10. told["Main"] = (IF "Main" = delayed THEN Distance(tau, 0) ELSE 0)
       /\ told["Sub"] = (IF "Sub" = delayed THEN Distance(tau, 0) ELSE 0)
  BY <1>9 DEF Sides
<1> HIDE DEF told
<1>11. at("Main") \in Int /\ at("Sub") \in Int
  BY <1>3 DEF Sides
<1>12. at("Main") + told["Main"] = at("Sub") + told["Sub"]
  <2>1. CASE high = "Main" /\ Other(high) = "Sub"
    BY <1>5, <1>8, <1>10, <1>11, <2>1 DEF Distance
  <2>2. CASE high = "Sub" /\ Other(high) = "Main"
    BY <1>5, <1>8, <1>10, <1>11, <2>2 DEF Distance
  <2> QED BY <1>2, <2>1, <2>2
<1> QED BY <1>12 DEF at, told, Sides

\* The inductive invariant implies what is checked of ALIGN.
LEMMA AlInvFollows ==
  ASSUME AlIInv
  PROVE  AlInv
<1>1. ASSUME NEW w \in Wizards
      PROVE  alRun.wizard = <<w>> /\ AlWizard(w) /\ AlHeardRight(w) /\ AlChosen(w) /\ AlBeside(alRun, w)
  <2>1. alRun.wizard # <<>>
    BY <1>1, RangeOfOne DEF Wizards
  <2>2. PICK v : alRun.wizard = <<v>> /\ AlWizard(v) /\ AlHeardRight(v) /\ AlChosen(v) /\ AlBeside(alRun, v)
    BY <2>1, Zenon DEF AlIInv, AlRunHolds
  <2>3. w = v
    BY <1>1, <2>2, RangeOfOne DEF Wizards
  <2> QED BY <2>2, <2>3
<1>2. AlCaptureIsSolo
  BY <1>1, Zenon DEF AlCaptureIsSolo, AlHeardRight
<1>3. AlPairOfOneRun
  BY <1>1, Zenon DEF AlPairOfOneRun, AlHeardRight
<1>4. AlCycleAgrees
  BY <1>1, Zenon DEF AlCycleAgrees, AlBeside, AlChosen
<1>5. AlInstructionAligns
  BY <1>1, InstructionAligns, Zenon DEF AlInstructionAligns
<1>6. AlIrOfSide
  <2>1. SUFFICES ASSUME NEW s \in Sides, NEW ir \in Range(alIr.bound[s]) PROVE ir.asked = s
    BY DEF AlIrOfSide
  <2>2. alIr.bound[s] # <<>>
    BY <2>1, RangeOfOne
  <2>3. PICK b : alIr.bound[s] = <<b>> /\ b.asked = s
    BY <2>2, Zenon DEF AlIInv, AlSwept
  <2> QED BY <2>1, <2>3, RangeOfOne
<1> QED BY <1>2, <1>3, <1>4, <1>5, <1>6 DEF AlInv

-------------------------------------------------------------------------------
(* Alignment: what is played and heard. *)

\* A change of the engine or of the world that leaves a measured step's source alone, or reopens.
LEMMA EngineMoves ==
  ASSUME NEW env, NEW e, NEW run, NEW env2, NEW e2, AlRunHolds(env, e, run), AlEngine(e), AlEngine(e2),
         e2.epoch >= e.epoch,
         \A w : AlSolo(env, e, run, w) /\ e2.epoch = e.epoch => AlSolo(env2, e2, run, w)
  PROVE  AlRunHolds(env2, e2, run)
<1>1. DOMAIN run = AlRunFields /\ run.epoch \in Nat /\ run.epoch <= e2.epoch
  BY DEF AlRunHolds, AlEngine
<1>2. CASE run.wizard = <<>>
  BY <1>1, <1>2 DEF AlRunHolds
<1>3. CASE run.wizard # <<>>
  <2>1. PICK w : /\ run.wizard = <<w>> /\ AlWizard(w) /\ AlHeardRight(w) /\ AlChosen(w) /\ AlBeside(run, w)
                 /\ Measuring(w) /\ run.epoch = e.epoch => AlSolo(env, e, run, w)
    BY <1>3, Zenon DEF AlRunHolds
  <2>2. run.epoch = e2.epoch => e2.epoch = e.epoch
    BY <1>1 DEF AlRunHolds, AlEngine
  <2>3. Measuring(w) /\ run.epoch = e2.epoch => AlSolo(env2, e2, run, w)
    BY <2>1, <2>2
  <2> QED BY <1>1, <2>1, <2>3, Zenon DEF AlRunHolds
<1> QED BY <1>2, <1>3

\* A step of the engine alone.
LEMMA AlEngineStep ==
  ASSUME AlIInv, UNCHANGED <<alEnv, alAns, alRun, alIr>>, AlEngine(alEng'), alEng'.epoch = alEng.epoch,
         \A w : AlSolo(alEnv, alEng, alRun, w) => AlSolo(alEnv, alEng', alRun, w)
  PROVE  AlIInv'
<1>1. alEnv' = alEnv /\ alAns' = alAns /\ alRun' = alRun /\ alIr' = alIr
  OBVIOUS
<1>2. AlRunHolds(alEnv, alEng', alRun)
  <2>1. AlRunHolds(alEnv, alEng, alRun) /\ AlEngine(alEng)
    BY DEF AlIInv
  <2>2. alEng'.epoch >= alEng.epoch
    BY <2>1 DEF AlEngine
  <2> QED BY <2>1, <2>2, EngineMoves
<1>3. DOMAIN alEnv = AlEnvFields /\ alEnv.outs \in Int /\ AlAnswers(alAns) /\ AlSwept(alIr)
  BY DEF AlIInv
<1> QED BY <1>1, <1>2, <1>3 DEF AlIInv

\* A chunk: of the outputs that are routed, and in the first one of a step those the old route leaves.
LEMMA AudibleIs ==
  ASSUME NEW e
  PROVE  /\ Audible(e) \in SUBSET Int
         /\ e.armed /\ e.tail = {} => Audible(e) = e.routed \cap (0..(alEnv.outs - 1))
BY DEF Audible

\* What the average remembers after a chunk.
LEMMA HeardMoves ==
  ASSUME NEW e, AlEngine(e), NEW x \in SUBSET Int, NEW now, NEW since \in Nat,
         since >= 1 => Len(e.heard) >= 1,
         \A i \in DOMAIN e.heard : Len(e.heard) - i < since - 1 => e.heard[i] = now,
         since >= 1 => x = now
  PROVE  LET h == IF Len(Append(e.heard, x)) > AlSpan THEN Tail(Append(e.heard, x)) ELSE Append(e.heard, x)
         IN  /\ h \in Seq(SUBSET Int) /\ Len(h) <= AlSpan /\ Len(h) >= 1
             /\ \A i \in DOMAIN h : Len(h) - i < since => h[i] = now
<1> DEFINE old == e.heard
           longer == Append(old, x)
           h == IF Len(longer) > AlSpan THEN Tail(longer) ELSE longer
<1>1. /\ old \in Seq(SUBSET Int) /\ Len(old) \in Nat /\ Len(old) <= AlSpan /\ AlSpan \in Nat /\ AlSpan >= 1
      /\ DOMAIN old = 1..Len(old)
  BY AlAssumption DEF AlEngine
<1>2. /\ longer \in Seq(SUBSET Int) /\ Len(longer) = Len(old) + 1 /\ longer[Len(old) + 1] = x
      /\ \A i \in 1..Len(old) : longer[i] = old[i]
  BY <1>1
<1> HIDE DEF longer
<1>3. \A i \in 1..Len(longer) : Len(longer) - i < since => longer[i] = now
  <2>1. SUFFICES ASSUME NEW i \in 1..Len(longer), Len(longer) - i < since PROVE longer[i] = now
    OBVIOUS
  <2>2. CASE i = Len(old) + 1
    BY <1>1, <1>2, <2>1, <2>2
  <2>3. CASE i \in 1..Len(old)
    <3>1. Len(old) - i < since - 1
      BY <1>1, <1>2, <2>1, <2>3
    <3>2. old[i] = now
      BY <1>1, <2>3, <3>1
    <3> QED BY <1>2, <2>3, <3>2
  <2> QED BY <1>1, <1>2, <2>1, <2>2, <2>3
<1>4. CASE Len(longer) > AlSpan
  <2>1. h = Tail(longer) /\ longer # <<>>
    BY <1>1, <1>2, <1>4
  <2>2. h \in Seq(SUBSET Int) /\ Len(h) = Len(longer) - 1 /\ \A i \in 1..Len(h) : h[i] = longer[i + 1]
    BY <1>2, <2>1
  <2> HIDE DEF h
  <2>3. Len(h) = AlSpan
    BY <1>1, <1>2, <1>4, <2>2
  <2>4. \A i \in 1..Len(h) : Len(h) - i < since => h[i] = now
    <3>1. SUFFICES ASSUME NEW i \in 1..Len(h), Len(h) - i < since PROVE h[i] = now
      OBVIOUS
    <3>2. i + 1 \in 1..Len(longer) /\ Len(longer) - (i + 1) < since
      BY <1>1, <1>2, <2>2, <3>1
    <3> QED BY <1>3, <2>2, <3>2
  <2>5. DOMAIN h = 1..Len(h) /\ Len(h) <= AlSpan /\ Len(h) >= 1
    BY <1>1, <2>2, <2>3
  <2> QED BY <2>2, <2>4, <2>5, Zenon DEF h, longer
<1>5. CASE ~(Len(longer) > AlSpan)
  <2>1. h = longer
    BY <1>5
  <2>2. DOMAIN longer = 1..Len(longer) /\ Len(longer) <= AlSpan /\ Len(longer) >= 1
    BY <1>1, <1>2, <1>5
  <2>3. \A i \in DOMAIN longer : Len(longer) - i < since => longer[i] = now
    BY <1>3, <2>2
  <2> HIDE DEF h
  <2> QED BY <1>2, <2>1, <2>2, <2>3, Zenon DEF h, longer
<1> QED BY <1>4, <1>5

\* A chunk is rendered.
LEMMA AlRenderStep ==
  ASSUME AlIInv, AlRender
  PROVE  AlIInv'
<1> DEFINE e == alEng
           x == Audible(alEng)
           longer == Append(e.heard, x)
           h == IF Len(longer) > AlSpan THEN Tail(longer) ELSE longer
           count == IF e.armed \/ e.ramping THEN e.rendered + 1 ELSE e.rendered
<1>1. /\ UNCHANGED <<alEnv, alAns, alRun, alIr>> /\ e.behind < AlLag
      /\ e' = [e EXCEPT !.heard = h, !.rendered = count, !.ramping = FALSE, !.tail = {}, !.behind = @ + 1]
  BY Zenon DEF AlRender
<1>2. AlEngine(e) /\ DOMAIN e = AlEngFields /\ e.rendered \in Nat /\ e.epoch \in Nat /\ e.behind \in Nat /\ AlLag \in Nat
  BY AlAssumption DEF AlIInv, AlEngine
<1>3. count \in Nat /\ (e.armed => count = e.rendered + 1)
  BY <1>2
<1>4. x \in SUBSET Int
  BY AudibleIs
<1> HIDE DEF x, count
<1>5. h \in Seq(SUBSET Int) /\ Len(h) <= AlSpan
  <2>1. PICK z \in Nat : z = 0
    OBVIOUS
  <2>2. DOMAIN e.heard = 1..Len(e.heard) /\ Len(e.heard) \in Nat
    BY <1>2 DEF AlEngine
  <2>3. \A i \in DOMAIN e.heard : Len(e.heard) - i < z - 1 => e.heard[i] = {}
    BY <2>1, <2>2
  <2>4. (z >= 1 => Len(e.heard) >= 1) /\ (z >= 1 => x = {})
    BY <2>1
  <2> QED BY <1>2, <1>4, <2>3, <2>4, HeardMoves
<1> HIDE DEF h
<1>6. /\ DOMAIN e' = AlEngFields /\ e'.heard = h /\ e'.rendered = count /\ e'.tail = {} /\ e'.behind = e.behind + 1
      /\ e'.armed = e.armed /\ e'.routed = e.routed /\ e'.epoch = e.epoch /\ e'.snap = e.snap
  BY <1>1, <1>2 DEF AlEngFields
<1>7. AlEngine(e')
  BY <1>1, <1>2, <1>3, <1>5, <1>6 DEF AlEngine
<1>8. ASSUME NEW w, AlSolo(alEnv, e, alRun, w) PROVE AlSolo(alEnv, e', alRun, w)
  <2> DEFINE now == AlPlays(w) \cap (0..(alEnv.outs - 1))
             since == e.rendered - alRun.start
  <2>1. /\ e.armed /\ e.routed = AlPlays(w) /\ alRun.start \in Nat /\ since >= 0
        /\ since >= 1 => e.tail = {}
        /\ w.step # "MeasuringSum" => {w.ans.main, w.ans.sub} \subseteq 0..(alEnv.outs - 1)
        /\ since >= 1 => Len(e.heard) >= 1
        /\ \A i \in DOMAIN e.heard : Len(e.heard) - i < since - 1 => e.heard[i] = now
        /\ since - e.behind > AlSpan => e.snap.heard = {now}
    BY <1>8, Zenon DEF AlSolo
  <2>2. since \in Nat /\ e'.rendered - alRun.start = since + 1
    BY <1>2, <1>3, <1>6, <2>1
  <2>3. since >= 1 => x = now
    BY <2>1, AudibleIs DEF x
  <2> HIDE DEF now
  <2>4. Len(h) >= 1 /\ \A i \in DOMAIN h : Len(h) - i < since => h[i] = now
    <3> HIDE DEF since
    <3> QED BY <1>2, <1>4, <2>1, <2>2, <2>3, HeardMoves DEF h
  <2>5. (since + 1) - e'.behind = since - e.behind /\ (since + 1) - 1 = since /\ since + 1 >= 0
    <3> HIDE DEF since
    <3> QED BY <1>2, <1>6, <2>2
  <2> HIDE DEF since
  <2> QED BY <1>6, <2>1, <2>2, <2>4, <2>5 DEF AlSolo, now
<1> QED BY <1>1, <1>6, <1>7, <1>8, AlEngineStep

\* A snapshot is published.
LEMMA AlPublishStep ==
  ASSUME AlIInv, AlPublish
  PROVE  AlIInv'
<1> DEFINE e == alEng
           snap == [heard |-> Range(e.heard), fft |-> alEnv.fft, transfer |-> alEnv.transfer]
<1>1. UNCHANGED <<alEnv, alAns, alRun, alIr>> /\ e' = [e EXCEPT !.behind = 0, !.snap = snap]
  BY Zenon DEF AlPublish
<1>2. AlEngine(e) /\ DOMAIN e = AlEngFields /\ AlLag \in Nat
  BY AlAssumption DEF AlIInv, AlEngine
<1>3. snap.heard = Range(e.heard)
  OBVIOUS
<1> HIDE DEF snap
<1>4. /\ DOMAIN e' = AlEngFields /\ e'.behind = 0 /\ e'.snap = snap /\ e'.heard = e.heard /\ e'.rendered = e.rendered
      /\ e'.tail = e.tail /\ e'.armed = e.armed /\ e'.routed = e.routed /\ e'.epoch = e.epoch
  BY <1>1, <1>2 DEF AlEngFields
<1>5. AlEngine(e')
  BY <1>2, <1>4 DEF AlEngine
<1>6. ASSUME NEW w, AlSolo(alEnv, e, alRun, w) PROVE AlSolo(alEnv, e', alRun, w)
  <2> DEFINE now == AlPlays(w) \cap (0..(alEnv.outs - 1))
             since == e.rendered - alRun.start
  <2>1. /\ e.armed /\ e.routed = AlPlays(w) /\ alRun.start \in Nat /\ since >= 0
        /\ since >= 1 => e.tail = {}
        /\ w.step # "MeasuringSum" => {w.ans.main, w.ans.sub} \subseteq 0..(alEnv.outs - 1)
        /\ since >= 1 => Len(e.heard) >= 1
        /\ \A i \in DOMAIN e.heard : Len(e.heard) - i < since - 1 => e.heard[i] = now
    BY <1>6, Zenon DEF AlSolo
  <2>2. since \in Int
    BY <1>2, <2>1 DEF AlEngine
  <2> HIDE DEF now, since
  <2>3. ASSUME since - 0 > AlSpan PROVE snap.heard = {now}
    <3>1. Len(e.heard) \in Nat /\ DOMAIN e.heard = 1..Len(e.heard) /\ Len(e.heard) <= AlSpan /\ AlSpan \in Nat
      BY <1>2, AlAssumption DEF AlEngine
    <3>2. \A i \in DOMAIN e.heard : e.heard[i] = now
      BY <2>1, <2>2, <2>3, <3>1
    <3>3. 1 \in DOMAIN e.heard
      BY <2>1, <2>2, <2>3, <3>1
    <3> QED BY <1>3, <3>2, <3>3 DEF Range
  <2>4. e'.rendered - alRun.start = since
    BY <1>4 DEF since
  <2>5. since - e'.behind > AlSpan => e'.snap.heard = {now}
    BY <1>4, <2>3
  <2>6. \A i \in DOMAIN e'.heard : Len(e'.heard) - i < since - 1 => e'.heard[i] = now
    BY <1>4, <2>1
  <2>7. e'.armed = e.armed /\ e'.routed = e.routed /\ e'.tail = e.tail /\ e'.heard = e.heard
    BY <1>4
  <2>8. /\ e'.armed /\ e'.routed = AlPlays(w) /\ alRun.start \in Nat /\ since >= 0
        /\ since >= 1 => e'.tail = {}
        /\ w.step # "MeasuringSum" => {w.ans.main, w.ans.sub} \subseteq 0..(alEnv.outs - 1)
        /\ since >= 1 => Len(e'.heard) >= 1
    BY <2>1, <2>7
  <2> QED BY <2>4, <2>5, <2>6, <2>8, Zenon DEF AlSolo, now
<1> QED BY <1>1, <1>4, <1>5, <1>6, AlEngineStep

-------------------------------------------------------------------------------
(* Alignment: the operator's presses. *)

\* A run ends: the source is silent and there is no wizard.
LEMMA AlAbort ==
  ASSUME AlIInv, NEW outcome, abortRun(outcome), UNCHANGED <<alEnv, alAns, alIr>>
  PROVE  AlIInv'
<1> DEFINE e == alEng
           run == alRun
<1>1. /\ e' = [e EXCEPT !.armed = FALSE, !.ramping = e.armed]
      /\ run' = [run EXCEPT !.wizard = <<>>, !.outcome = outcome]
      /\ alEnv' = alEnv /\ alAns' = alAns /\ alIr' = alIr
  BY Zenon DEF abortRun, DisarmSource
<1>2. AlEngine(e) /\ AlRunHolds(alEnv, e, run) /\ DOMAIN e = AlEngFields /\ DOMAIN run = AlRunFields
  BY DEF AlIInv, AlEngine, AlRunHolds
<1>3. AlEngine(e') /\ e'.epoch = e.epoch
  BY <1>1, <1>2 DEF AlEngine, AlEngFields
<1>4. DOMAIN run' = AlRunFields /\ run'.wizard = <<>> /\ run'.epoch = run.epoch
  BY <1>1, <1>2 DEF AlRunFields
<1>5. AlRunHolds(alEnv, e', run')
  BY <1>2, <1>3, <1>4 DEF AlRunHolds
<1> QED BY <1>1, <1>3, <1>5 DEF AlIInv

\* A step of the run and the engine that leaves a wizard.
LEMMA AlRunStep ==
  ASSUME AlIInv, UNCHANGED <<alEnv, alAns, alIr>>, AlEngine(alEng'), DOMAIN alRun' = AlRunFields,
         alRun'.epoch \in Nat, alRun'.epoch <= alEng'.epoch,
         NEW w, alRun'.wizard = <<w>>, AlWizard(w), AlHeardRight(w), AlChosen(w), AlBeside(alRun', w),
         Measuring(w) /\ alRun'.epoch = alEng'.epoch => AlSolo(alEnv, alEng', alRun', w)
  PROVE  AlIInv'
<1>1. alEnv' = alEnv /\ alAns' = alAns /\ alIr' = alIr
  OBVIOUS
<1>2. AlRunHolds(alEnv, alEng', alRun')
  BY Zenon DEF AlRunHolds
<1>3. DOMAIN alEnv = AlEnvFields /\ alEnv.outs \in Int /\ AlAnswers(alAns) /\ AlSwept(alIr)
  BY DEF AlIInv
<1> QED BY <1>1, <1>2, <1>3 DEF AlIInv

\* The wizard there is.
LEMMA WizardIs ==
  ASSUME AlIInv, alRun.wizard # <<>>
  PROVE  LET w == alRun.wizard[1]
         IN  /\ alRun.wizard = <<w>> /\ AlWizard(w) /\ AlHeardRight(w) /\ AlChosen(w) /\ AlBeside(alRun, w)
             /\ Measuring(w) /\ alRun.epoch = alEng.epoch => AlSolo(alEnv, alEng, alRun, w)
<1>1. PICK w : /\ alRun.wizard = <<w>> /\ AlWizard(w) /\ AlHeardRight(w) /\ AlChosen(w) /\ AlBeside(alRun, w)
               /\ Measuring(w) /\ alRun.epoch = alEng.epoch => AlSolo(alEnv, alEng, alRun, w)
  BY Zenon DEF AlIInv, AlRunHolds
<1>2. alRun.wizard[1] = w
  BY <1>1
<1> QED BY <1>1, <1>2, Zenon

\* A step that starts on outputs plays them alone from the count it starts at.
LEMMA SoloStarts ==
  ASSUME NEW env, NEW e, AlEngine(e), NEW run, NEW w, e.armed, e.routed = AlPlays(w),
         run.start = e.rendered,
         w.step # "MeasuringSum" => {w.ans.main, w.ans.sub} \subseteq 0..(env.outs - 1)
  PROVE  AlSolo(env, e, run, w)
<1> DEFINE since == e.rendered - run.start
<1>1. e.rendered \in Nat /\ e.behind \in Nat /\ DOMAIN e.heard = 1..Len(e.heard) /\ Len(e.heard) \in Nat
  BY AlAssumption DEF AlEngine
<1>2. since = 0 /\ run.start \in Nat
  BY <1>1
<1>3. ~(since - e.behind > AlSpan)
  BY <1>1, <1>2, AlAssumption
<1>4. \A i \in DOMAIN e.heard : ~(Len(e.heard) - i < since - 1)
  BY <1>1, <1>2
<1>5. since >= 0 /\ ~(since >= 1)
  BY <1>2
<1> QED BY <1>2, <1>3, <1>4, <1>5, Zenon DEF AlSolo

\* The source is armed on other outputs.
LEMMA ArmedEngine ==
  ASSUME NEW e, AlEngine(e), NEW outs
  PROVE  LET a == ArmSource(Solo(e, outs))
         IN  AlEngine(a) /\ a.armed = TRUE /\ a.routed = outs /\ a.rendered = 0 /\ a.epoch = e.epoch
<1>1. DOMAIN e = AlEngFields
  BY DEF AlEngine
<1> DEFINE a == ArmSource(Solo(e, outs))
<1>2. /\ DOMAIN a = AlEngFields /\ a.armed = TRUE /\ a.routed = outs /\ a.rendered = 0 /\ a.epoch = e.epoch
      /\ a.behind = e.behind /\ a.heard = e.heard
  BY <1>1 DEF ArmSource, Solo, AlEngFields
<1> HIDE DEF a
<1>3. AlEngine(a)
  BY <1>2 DEF AlEngine
<1> QED BY <1>2, <1>3 DEF a

\* The source goes over to other outputs without being armed anew.
LEMMA SoloedEngine ==
  ASSUME NEW e, AlEngine(e), NEW outs
  PROVE  LET a == Solo(e, outs)
         IN  /\ AlEngine(a) /\ a.armed = e.armed /\ a.routed = outs /\ a.rendered = e.rendered /\ a.epoch = e.epoch
<1>1. DOMAIN e = AlEngFields
  BY DEF AlEngine
<1> DEFINE a == Solo(e, outs)
<1>2. /\ DOMAIN a = AlEngFields /\ a.armed = e.armed /\ a.routed = outs /\ a.rendered = e.rendered
      /\ a.epoch = e.epoch /\ a.behind = e.behind /\ a.heard = e.heard
  BY <1>1 DEF Solo, AlEngFields
<1> HIDE DEF a
<1>3. AlEngine(a)
  BY <1>2 DEF AlEngine
<1> QED BY <1>2, <1>3 DEF a

\* The source is disarmed.
LEMMA DisarmedEngine ==
  ASSUME NEW e, AlEngine(e)
  PROVE  AlEngine(DisarmSource(e)) /\ DisarmSource(e).epoch = e.epoch
<1>1. DOMAIN e = AlEngFields
  BY DEF AlEngine
<1> DEFINE a == DisarmSource(e)
<1>2. /\ DOMAIN a = AlEngFields /\ a.rendered = e.rendered /\ a.epoch = e.epoch /\ a.behind = e.behind
      /\ a.heard = e.heard
  BY <1>1 DEF DisarmSource, AlEngFields
<1> HIDE DEF a
<1>3. AlEngine(a)
  BY <1>2 DEF AlEngine
<1> QED BY <1>2, <1>3 DEF a

\* A wizard with the same traces and verdict has heard the same.
LEMMA HeardKept ==
  ASSUME NEW w, NEW v, AlHeardRight(w), v.ans = w.ans, v.traces = w.traces, v.verdict = w.verdict,
         \A t \in Range(v.sum) : t.heard = {{v.ans.main, v.ans.sub} \cap (0..(t.outs - 1))}
  PROVE  AlHeardRight(v)
BY Zenon DEF AlHeardRight

\* A wizard with the same responses and verdict keeps the cycle they chose.
LEMMA ChosenKept ==
  ASSUME NEW w, NEW v, AlChosen(w), v.ans = w.ans, v.irs = w.irs, v.verdict = w.verdict, v.cycle = w.cycle,
         v.fromIr = w.fromIr, v.hint = w.hint
  PROVE  AlChosen(v)
<1>1. irHint(v) = irHint(w) /\ \A slip : AlCandidates(v, slip) = AlCandidates(w, slip)
  BY Zenon DEF irHint, AlCandidates, AlTrue
<1> QED BY <1>1, Zenon DEF AlChosen

\* The sum is pressed: both outputs.
LEMMA AlPressSumStep ==
  ASSUME AlIInv, pressSum
  PROVE  AlIInv'
<1> DEFINE w == alRun.wizard[1]
           v == [w EXCEPT !.step = "MeasuringSum", !.window = FALSE, !.start = 0]
           e == ArmSource(Solo(alEng, {w.ans.main, w.ans.sub}))
<1>1. /\ UNCHANGED <<alEnv, alAns, alIr>> /\ alRun.wizard # <<>> /\ w.verdict # <<>> /\ alEng' = e
      /\ w.step \in {"Computed", "AskingPolarity"}
      /\ alRun' = [alRun EXCEPT !.wizard = <<v>>, !.epoch = alEng.epoch, !.synthetic = alEnv.synthetic,
                                !.outcome = "None", !.start = 0]
  BY Zenon DEF pressSum
<1>2. AlWizard(w) /\ AlHeardRight(w) /\ AlChosen(w) /\ AlBeside(alRun, w)
  BY <1>1, WizardIs
<1>3. AlEngine(alEng) /\ DOMAIN alRun = AlRunFields /\ alEng.epoch \in Nat /\ DOMAIN w = AlWizardFields
  BY <1>2 DEF AlIInv, AlRunHolds, AlEngine, AlWizard
<1> HIDE DEF w
<1>4. AlEngine(e) /\ e.armed = TRUE /\ e.routed = {w.ans.main, w.ans.sub} /\ e.rendered = 0 /\ e.epoch = alEng.epoch
  BY <1>3, ArmedEngine
<1>5. /\ DOMAIN v = AlWizardFields /\ v.step = "MeasuringSum" /\ v.ans = w.ans /\ v.traces = w.traces /\ v.sum = w.sum
      /\ v.verdict = w.verdict /\ v.cycle = w.cycle /\ v.fromIr = w.fromIr /\ v.hint = w.hint /\ v.irs = w.irs
  BY <1>3 DEF AlWizardFields
<1>6. /\ DOMAIN alRun' = AlRunFields /\ alRun'.wizard = <<v>> /\ alRun'.epoch = alEng.epoch /\ alRun'.start = 0
      /\ alRun'.cycle = alRun.cycle /\ alRun'.fromIr = alRun.fromIr
  BY <1>1, <1>3 DEF AlRunFields
<1> HIDE DEF v, e
<1>7. AlWizard(v)
  BY <1>1, <1>2, <1>5 DEF AlWizard
<1>8. AlHeardRight(v)
  BY <1>2, <1>5, ZenonT(30) DEF AlHeardRight
<1>9. AlChosen(v)
  BY <1>2, <1>5, ChosenKept
<1>10. AlBeside(alRun', v)
  BY <1>1, <1>2, <1>5, <1>6 DEF AlBeside
<1>11. AlSolo(alEnv, e, alRun', v)
  <2>1. AlPlays(v) = {w.ans.main, w.ans.sub}
    BY <1>5 DEF AlPlays
  <2> QED BY <1>4, <1>5, <1>6, <2>1, SoloStarts
<1>12. alRun'.epoch \in Nat /\ alRun'.epoch <= alEng'.epoch
  BY <1>1, <1>3, <1>4, <1>6
<1> QED BY <1>1, <1>4, <1>6, <1>7, <1>8, <1>9, <1>10, <1>11, <1>12, AlRunStep

\* The responses a press hands over are of the outputs they were swept on.
LEMMA SuppliedIrs ==
  ASSUME AlSwept(alIr)
  PROVE  DOMAIN supplyBoundIrs \in SUBSET Sides /\ \A s \in DOMAIN supplyBoundIrs : AlHeardAt(supplyBoundIrs[s])
<1> DEFINE sides == {s \in Sides : alIr.bound[s] # <<>> /\ alIr.bound[s][1].rateOk}
<1>1. DOMAIN supplyBoundIrs = sides /\ \A s \in sides : supplyBoundIrs[s] = alIr.bound[s][1]
  BY DEF supplyBoundIrs
<1>2. ASSUME NEW s \in sides PROVE AlHeardAt(alIr.bound[s][1])
  <2>1. s \in Sides /\ alIr.bound[s] # <<>>
    OBVIOUS
  <2>2. PICK b : alIr.bound[s] = <<b>> /\ AlHeardAt(b)
    BY <2>1, Zenon DEF AlSwept
  <2>3. alIr.bound[s][1] = b
    BY <2>2
  <2> QED BY <2>2, <2>3
<1> QED BY <1>1, <1>2

\* MEASURE is pressed: the answers are complete and both outputs exist.
LEMMA AlPressStep ==
  ASSUME AlIInv, press
  PROVE  AlIInv'
<1> DEFINE ans == alAns
           outs == {OutputOf(ans, ans.high)}
           solo == Solo(alEng, outs)
           e == ArmSource(solo)
           irs == supplyBoundIrs
           fresh == [step |-> "MeasuringHigh", ans |-> ans, window |-> FALSE, start |-> solo.rendered,
                     traces |-> <<>>, sum |-> <<>>, verdict |-> <<>>, cycle |-> <<>>, fromIr |-> FALSE,
                     hint |-> <<>>, seedFar |-> FALSE, irs |-> <<>>, refusal |-> "None"]
           v == [fresh EXCEPT !.irs = irs]
<1>1. arm(alEng, ans) = [eng |-> e, wizard |-> fresh]
  BY Zenon DEF arm
<1>2. arm(alEng, ans).eng = e /\ arm(alEng, ans).wizard = fresh
  <2> HIDE DEF e, fresh
  <2> QED BY <1>1
<1>3. /\ UNCHANGED <<alEnv, alAns, alIr>> /\ alEng' = e /\ ~blocker
      /\ alRun' = [wizard |-> <<v>>, outcome |-> "None", epoch |-> alEng.epoch, synthetic |-> alEnv.synthetic,
                   fft |-> alEng.snap.fft, start |-> e.rendered, cycle |-> <<>>, fromIr |-> FALSE]
  <2> HIDE DEF e, fresh
  <2> QED BY <1>2, Zenon DEF press
<1>4. complete(ans) /\ ~(ans.main >= alEnv.outs \/ ans.sub >= alEnv.outs)
  <2>1. TRUE \notin Blockers
    BY <1>3 DEF blocker
  <2>2. (~complete(ans)) \in Blockers /\ (ans.main >= alEnv.outs \/ ans.sub >= alEnv.outs) \in Blockers
    BY Zenon DEF Blockers
  <2>3. (~complete(ans)) # TRUE /\ (ans.main >= alEnv.outs \/ ans.sub >= alEnv.outs) # TRUE
    BY <2>1, <2>2, Zenon
  <2> QED BY <2>3, Zenon
<1>5. AlEngine(alEng) /\ alEng.epoch \in Nat /\ alEnv.outs \in Int /\ AlAnswers(ans) /\ AlSwept(alIr)
  BY DEF AlIInv, AlEngine
<1>6. /\ DOMAIN v = AlWizardFields /\ v.step = "MeasuringHigh" /\ v.ans = ans /\ v.traces = <<>> /\ v.sum = <<>>
      /\ v.verdict = <<>> /\ v.cycle = <<>> /\ v.fromIr = FALSE /\ v.irs = irs
  <2> HIDE DEF irs, ans, solo
  <2> QED BY DEF AlWizardFields
<1>7. AlEngine(e) /\ e.armed = TRUE /\ e.routed = outs /\ e.rendered = 0 /\ e.epoch = alEng.epoch
  <2> HIDE DEF outs
  <2> QED BY <1>5, ArmedEngine DEF e, solo
<1> HIDE DEF e, v, irs
<1>8. /\ DOMAIN alRun' = AlRunFields /\ alRun'.wizard = <<v>> /\ alRun'.epoch = alEng.epoch
      /\ alRun'.start = e.rendered /\ alRun'.cycle = <<>> /\ alRun'.fromIr = FALSE
  BY <1>3 DEF AlRunFields
<1>9. AlWizard(v)
  <2>1. ans.high \in Sides
    BY <1>4, <1>5 DEF complete, AlAnswers
  <2>2. DOMAIN irs \in SUBSET Sides /\ \A s \in DOMAIN irs : AlHeardAt(irs[s])
    BY <1>5, SuppliedIrs DEF irs
  <2> QED BY <1>5, <1>6, <2>1, <2>2 DEF AlWizard
<1>10. AlHeardRight(v)
  <2>1. DOMAIN v.traces = {} /\ Range(v.sum) = {} /\ ~(v.verdict # <<>>)
    <3>1. DOMAIN <<>> = {}
      OBVIOUS
    <3>2. Range(<<>>) = {}
      BY RangeOfOne
    <3> QED BY <1>6, <3>1, <3>2, Zenon
  <2> QED BY <2>1, Zenon DEF AlHeardRight
<1>11. AlChosen(v)
  BY <1>6 DEF AlChosen
<1>12. AlBeside(alRun', v)
  BY <1>6, <1>8 DEF AlBeside
<1>13. AlSolo(alEnv, e, alRun', v)
  <2>1. AlPlays(v) = outs
    BY <1>6 DEF AlPlays
  <2>2. {ans.main, ans.sub} \subseteq 0..(alEnv.outs - 1)
    BY <1>4, <1>5 DEF AlAnswers
  <2> QED BY <1>6, <1>7, <1>8, <2>1, <2>2, SoloStarts
<1>14. alRun'.epoch \in Nat /\ alRun'.epoch <= alEng'.epoch
  BY <1>3, <1>5, <1>7, <1>8
<1> QED BY <1>3, <1>7, <1>8, <1>9, <1>10, <1>11, <1>12, <1>13, <1>14, AlRunStep

\* The operator types the offset: it is the cycle on both sides.
LEMMA AlAnswerCycleStep ==
  ASSUME AlIInv, NEW samples, answerCycleMs(samples)
  PROVE  AlIInv'
<1> DEFINE w == alRun.wizard[1]
           v == [w EXCEPT !.cycle = <<samples>>, !.step = "Computed",
                          !.fromIr = IF w.step = "AskingCycle" THEN w.fromIr ELSE FALSE]
<1>1. /\ UNCHANGED <<alEnv, alEng, alAns, alIr>> /\ alRun.wizard # <<>> /\ w.step \in {"AskingCycle", "Computed"}
      /\ alRun' = [alRun EXCEPT !.wizard = <<v>>, !.cycle = <<samples>>, !.fromIr = FALSE]
  BY Zenon DEF answerCycleMs
<1>2. AlWizard(w) /\ AlHeardRight(w) /\ AlChosen(w) /\ AlBeside(alRun, w)
  BY <1>1, WizardIs
<1>3. /\ AlEngine(alEng) /\ DOMAIN alRun = AlRunFields /\ alRun.epoch \in Nat /\ alRun.epoch <= alEng.epoch
      /\ DOMAIN w = AlWizardFields
  BY <1>2 DEF AlIInv, AlRunHolds, AlWizard
<1> HIDE DEF w
<1>4. /\ DOMAIN v = AlWizardFields /\ v.step = "Computed" /\ v.ans = w.ans /\ v.traces = w.traces /\ v.sum = w.sum
      /\ v.verdict = w.verdict /\ v.cycle = <<samples>> /\ v.hint = w.hint /\ v.irs = w.irs
  BY <1>3 DEF AlWizardFields
<1>5. v.fromIr = FALSE
  <2>1. v.fromIr = IF w.step = "AskingCycle" THEN w.fromIr ELSE FALSE
    BY <1>3 DEF AlWizardFields
  <2>2. w.step = "AskingCycle" => w.fromIr = FALSE
    BY <1>2 DEF AlWizard
  <2> QED BY <2>1, <2>2
<1>6. /\ DOMAIN alRun' = AlRunFields /\ alRun'.wizard = <<v>> /\ alRun'.epoch = alRun.epoch
      /\ alRun'.cycle = <<samples>> /\ alRun'.fromIr = FALSE
  BY <1>1, <1>3 DEF AlRunFields
<1> HIDE DEF v
<1>7. AlWizard(v)
  BY <1>1, <1>2, <1>4, <1>5 DEF AlWizard
<1>8. AlHeardRight(v)
  BY <1>2, <1>4, Zenon DEF AlHeardRight
<1>9. AlChosen(v)
  BY <1>5 DEF AlChosen
<1>10. AlBeside(alRun', v) /\ ~Measuring(v)
  BY <1>1, <1>2, <1>4, <1>5, <1>6, <1>7 DEF AlBeside, AlWizard, Measuring
<1>11. alEng' = alEng /\ UNCHANGED <<alEnv, alAns, alIr>>
  BY <1>1
<1> QED BY <1>3, <1>6, <1>7, <1>8, <1>9, <1>10, <1>11, AlRunStep

-------------------------------------------------------------------------------
(* Alignment: the polls. *)

\* A poll opens the window and leaves the rest of the wizard as it was.
LEMMA PolledWizard ==
  ASSUME NEW w, AlWizard(w), NEW rendered
  PROVE  LET v == wizardPoll(w, rendered)
         IN  /\ DOMAIN v = AlWizardFields /\ v.step = w.step /\ v.ans = w.ans /\ v.traces = w.traces /\ v.sum = w.sum
             /\ v.verdict = w.verdict /\ v.cycle = w.cycle /\ v.fromIr = w.fromIr /\ v.hint = w.hint /\ v.irs = w.irs
<1>1. DOMAIN w = AlWizardFields
  BY DEF AlWizard
<1> QED BY <1>1 DEF wizardPoll, AlWizardFields

\* A wizard that differs in its window only.
LEMMA SameWizard ==
  ASSUME NEW w, AlWizard(w), AlHeardRight(w), AlChosen(w), NEW v, DOMAIN v = AlWizardFields, v.step = w.step,
         v.ans = w.ans, v.traces = w.traces, v.sum = w.sum, v.verdict = w.verdict, v.cycle = w.cycle,
         v.fromIr = w.fromIr, v.hint = w.hint, v.irs = w.irs
  PROVE  /\ AlWizard(v) /\ AlHeardRight(v) /\ AlChosen(v) /\ AlPlays(v) = AlPlays(w) /\ Measuring(v) = Measuring(w)
         /\ \A run : AlBeside(run, w) => AlBeside(run, v)
         /\ \A env, e, run : AlSolo(env, e, run, w) => AlSolo(env, e, run, v)
<1>1. AlWizard(v)
  BY DEF AlWizard
<1>2. AlHeardRight(v)
  <2>1. \A t \in Range(v.sum) : t.heard = {{v.ans.main, v.ans.sub} \cap (0..(t.outs - 1))}
    BY DEF AlHeardRight
  <2> QED BY <2>1, HeardKept
<1>3. AlChosen(v)
  BY ChosenKept
<1>4. AlPlays(v) = AlPlays(w) /\ Measuring(v) = Measuring(w)
  BY DEF AlPlays, Measuring
<1>5. ASSUME NEW run, AlBeside(run, w) PROVE AlBeside(run, v)
  BY <1>5, Zenon DEF AlBeside
<1>6. ASSUME NEW env, NEW e, NEW run, AlSolo(env, e, run, w) PROVE AlSolo(env, e, run, v)
  BY <1>4, <1>6, Zenon DEF AlSolo
<1> QED BY <1>1, <1>2, <1>3, <1>4, <1>5, <1>6

\* Not yet: the wizard waits, or the clock ends the run.
LEMMA AlPollWaitsStep ==
  ASSUME AlIInv, AlPollWaits
  PROVE  AlIInv'
<1> DEFINE w == alRun.wizard[1]
           v == wizardPoll(w, alEng.rendered)
<1>1. /\ measuring /\ UNCHANGED <<alEnv, alAns, alIr>>
      /\ \/ abortRun("TimedOut")
         \/ alRun' = [alRun EXCEPT !.wizard = <<v>>] /\ UNCHANGED alEng
  BY Zenon DEF AlPollWaits
<1>2. CASE abortRun("TimedOut")
  BY <1>1, <1>2, AlAbort
<1>3. CASE alRun' = [alRun EXCEPT !.wizard = <<v>>] /\ UNCHANGED alEng
  <2>1. /\ AlWizard(w) /\ AlHeardRight(w) /\ AlChosen(w) /\ AlBeside(alRun, w) /\ alRun.wizard # <<>>
        /\ Measuring(w) /\ alRun.epoch = alEng.epoch => AlSolo(alEnv, alEng, alRun, w)
    BY <1>1, WizardIs DEF measuring
  <2>2. AlEngine(alEng) /\ DOMAIN alRun = AlRunFields /\ alRun.epoch \in Nat /\ alRun.epoch <= alEng.epoch
    BY DEF AlIInv, AlRunHolds
  <2> HIDE DEF w
  <2>3. /\ DOMAIN v = AlWizardFields /\ v.step = w.step /\ v.ans = w.ans /\ v.traces = w.traces /\ v.sum = w.sum
        /\ v.verdict = w.verdict /\ v.cycle = w.cycle /\ v.fromIr = w.fromIr /\ v.hint = w.hint /\ v.irs = w.irs
    BY <2>1, PolledWizard
  <2> HIDE DEF v
  <2>4. /\ DOMAIN alRun' = AlRunFields /\ alRun'.wizard = <<v>> /\ alRun'.epoch = alRun.epoch
        /\ alRun'.start = alRun.start /\ alRun'.cycle = alRun.cycle /\ alRun'.fromIr = alRun.fromIr
    BY <1>3, <2>2 DEF AlRunFields
  <2>5. /\ AlWizard(v) /\ AlHeardRight(v) /\ AlChosen(v) /\ Measuring(v) = Measuring(w) /\ AlBeside(alRun, v)
        /\ AlSolo(alEnv, alEng, alRun, w) => AlSolo(alEnv, alEng, alRun, v)
    BY <2>1, <2>3, SameWizard
  <2>6. AlBeside(alRun', v)
    BY <2>4, <2>5, Zenon DEF AlBeside
  <2>7. alEng' = alEng /\ UNCHANGED <<alEnv, alAns, alIr>>
    BY <1>1, <1>3
  <2>8. AlSolo(alEnv, alEng, alRun, v) => AlSolo(alEnv, alEng', alRun', v)
    BY <2>4, <2>7, Zenon DEF AlSolo
  <2>9. Measuring(v) /\ alRun'.epoch = alEng'.epoch => AlSolo(alEnv, alEng', alRun', v)
    BY <2>1, <2>4, <2>5, <2>7, <2>8
  <2> QED BY <2>2, <2>4, <2>5, <2>6, <2>7, <2>9, AlRunStep
<1> QED BY <1>1, <1>2, <1>3

\* At the dwell the average holds the step's outputs alone.
LEMMA DwellHearsOneSide ==
  ASSUME AlEngine(alEng), NEW w, AlSolo(alEnv, alEng, alRun, w), renderedSince >= AlDwell
  PROVE  alEng.snap.heard = {AlPlays(w) \cap (0..(alEnv.outs - 1))}
<1> DEFINE since == alEng.rendered - alRun.start
<1>1. alEng.rendered \in Nat /\ alEng.behind \in 0..AlLag /\ AlLag \in Nat
  BY AlAssumption DEF AlEngine
<1>2. /\ alRun.start \in Nat /\ since >= 0
      /\ since - alEng.behind > AlSpan => alEng.snap.heard = {AlPlays(w) \cap (0..(alEnv.outs - 1))}
  BY Zenon DEF AlSolo
<1>3. since >= AlDwell
  BY <1>1, <1>2, AlAssumption DEF renderedSince
<1>4. since - alEng.behind > AlSpan
  BY <1>1, <1>2, <1>3, AlAssumption
<1> QED BY <1>2, <1>4

\* The verdict of two traces: its candidates are whole periods from the true lag, and the responses
\* chose the cycle only when there are two.
LEMMA ComputeIs ==
  ASSUME NEW w, DOMAIN w = AlWizardFields, w.refusal = "None", w.cycle = <<>>, NEW a, NEW b, w.traces = <<a, b>>, NEW f \in Fits,
         compute(w, f).refusal = "None"
  PROVE  LET v == compute(w, f)
         IN  /\ a.fft = b.fft /\ a.roles = b.roles /\ DOMAIN v = AlWizardFields /\ v.ans = w.ans /\ v.traces = w.traces
             /\ v.sum = w.sum /\ v.irs = w.irs /\ v.fromIr \in BOOLEAN
             /\ \E x : v.verdict = <<x>> /\ x.candidates = AlCandidates(w, f.slip)
             /\ v.fromIr => DOMAIN w.irs = Sides /\ v.hint = <<irHint(w)>> /\ v.cycle = v.hint
             /\ v.step \in {"AskingCycle", "AskingPolarity", "Computed"}
             /\ v.step = "AskingCycle" <=> ~v.fromIr
<1> DEFINE candidates == AlCandidates(w, f.slip)
           irs == w.cycle = <<>> /\ DOMAIN w.irs = Sides
           far == irs /\ w.ans.seed = "far"
           chosen == irs /\ ~far /\ candidateWithinGuard(candidates, irHint(w))
           x == [tau |-> candidates[1], candidates |-> candidates, refusal |-> f.refusal]
           hint == IF irs THEN <<irHint(w)>> ELSE <<>>
           cycle == IF chosen THEN <<irHint(w)>> ELSE w.cycle
           step == IF cycle = <<>> THEN "AskingCycle" ELSE IF Contradict(f.signs) THEN "AskingPolarity" ELSE "Computed"
           good == [w EXCEPT !.verdict = <<x>>, !.hint = hint, !.seedFar = far, !.cycle = cycle, !.fromIr = chosen,
                             !.step = step]
           v == compute(w, f)
<1>1. v = IF w.traces[1].fft # w.traces[2].fft THEN [w EXCEPT !.refusal = "GridMismatch"]
          ELSE IF w.traces[1].roles # w.traces[2].roles THEN [w EXCEPT !.refusal = "ReferenceMismatch"]
          ELSE IF ~f.phase THEN [w EXCEPT !.refusal = "TraceNotUsable"]
          ELSE good
  BY Zenon DEF compute, AlCandidates, AlTrue
<1>2. w.traces[1] = a /\ w.traces[2] = b
  OBVIOUS
<1>3. x.candidates = candidates
  OBVIOUS
<1>4. chosen \in BOOLEAN /\ (chosen => irs)
  OBVIOUS
<1>5. chosen => hint = <<irHint(w)>> /\ cycle = hint
  BY <1>4, Zenon
<1>13. cycle = <<>> <=> ~chosen
  <2>1. <<irHint(w)>> # <<>>
    OBVIOUS
  <2> HIDE DEF chosen
  <2> QED BY <2>1, Zenon
<1>6. step \in {"AskingCycle", "AskingPolarity", "Computed"} /\ (step = "AskingCycle" <=> ~chosen)
  <2> HIDE DEF chosen, cycle
  <2> QED BY <1>13
<1> HIDE DEF x, hint, cycle, step, chosen, far, v
<1>7. [w EXCEPT !.refusal = "ReferenceMismatch"].refusal # "None"
  BY DEF AlWizardFields
<1>8. [w EXCEPT !.refusal = "TraceNotUsable"].refusal # "None"
  BY DEF AlWizardFields
<1>14. [w EXCEPT !.refusal = "GridMismatch"].refusal # "None"
  BY DEF AlWizardFields
<1>9. v.refusal = "None"
  BY DEF v
<1>10. a.fft = b.fft /\ a.roles = b.roles /\ v = good
  <2>3. w.traces[1].fft = w.traces[2].fft
    BY <1>1, <1>9, <1>14, Zenon
  <2>1. w.traces[1].roles = w.traces[2].roles
    BY <1>1, <1>7, <1>9, <2>3, Zenon
  <2>2. f.phase
    BY <1>1, <1>8, <1>9, <2>1, <2>3, Zenon
  <2> QED BY <1>1, <1>2, <2>1, <2>2, <2>3, Zenon
<1>11. /\ DOMAIN good = AlWizardFields /\ good.ans = w.ans /\ good.traces = w.traces /\ good.sum = w.sum
       /\ good.irs = w.irs /\ good.fromIr = chosen /\ good.verdict = <<x>> /\ good.hint = hint
       /\ good.cycle = cycle /\ good.step = step
  BY DEF AlWizardFields
<1> HIDE DEF good
<1>12. \E y : v.verdict = <<y>> /\ y.candidates = AlCandidates(w, f.slip)
  BY <1>3, <1>10, <1>11, Zenon
<1> QED BY <1>4, <1>5, <1>6, <1>10, <1>11, <1>12 DEF v

\* What is stored when a poll submits: the step's outputs, in the opening the run was pressed in.
LEMMA SubmitHears ==
  ASSUME AlIInv, NEW f, AlPollSubmits(f)
  PROVE  LET w == wizardPoll(alRun.wizard[1], alEng.rendered)
         IN  /\ AlWizard(w) /\ AlHeardRight(w) /\ AlChosen(w) /\ AlBeside(alRun, w) /\ Measuring(w)
             /\ AlSolo(alEnv, alEng, alRun, w) /\ alRun.epoch = alEng.epoch
             /\ Trace.heard = {AlPlays(w) \cap (0..(alEnv.outs - 1))} /\ Trace.epoch = alRun.epoch
             /\ Trace.outs = alEnv.outs
<1> DEFINE w == alRun.wizard[1]
           v == wizardPoll(w, alEng.rendered)
<1>1. measuring /\ ~MustAbort /\ Ripe(v)
  BY Zenon DEF AlPollSubmits
<1>2. alRun.epoch = alEng.epoch /\ renderedSince >= AlDwell
  BY <1>1 DEF MustAbort, Ripe
<1>3. /\ AlWizard(w) /\ AlHeardRight(w) /\ AlChosen(w) /\ AlBeside(alRun, w) /\ alRun.wizard # <<>> /\ Measuring(w)
      /\ AlSolo(alEnv, alEng, alRun, w)
  BY <1>1, <1>2, WizardIs DEF measuring
<1> HIDE DEF w
<1>4. /\ DOMAIN v = AlWizardFields /\ v.step = w.step /\ v.ans = w.ans /\ v.traces = w.traces /\ v.sum = w.sum
      /\ v.verdict = w.verdict /\ v.cycle = w.cycle /\ v.fromIr = w.fromIr /\ v.hint = w.hint /\ v.irs = w.irs
  BY <1>3, PolledWizard
<1> HIDE DEF v
<1>5. /\ AlWizard(v) /\ AlHeardRight(v) /\ AlChosen(v) /\ AlBeside(alRun, v) /\ AlSolo(alEnv, alEng, alRun, v)
      /\ Measuring(v) = Measuring(w)
  BY <1>3, <1>4, SameWizard
<1>6. AlEngine(alEng)
  BY DEF AlIInv
<1>7. alEng.snap.heard = {AlPlays(v) \cap (0..(alEnv.outs - 1))}
  BY <1>2, <1>5, <1>6, DwellHearsOneSide
<1>8. Trace.heard = alEng.snap.heard /\ Trace.epoch = alEng.epoch /\ Trace.outs = alEnv.outs
  BY DEF Trace
<1> QED BY <1>2, <1>3, <1>5, <1>7, <1>8 DEF v, w

\* The first capture: the other side is soloed, and counts from here.
LEMMA AlSubmitsHigh ==
  ASSUME AlIInv, NEW f, AlPollSubmits(f),
         wizardPoll(alRun.wizard[1], alEng.rendered).step = "MeasuringHigh"
  PROVE  AlIInv'
<1> DEFINE w == wizardPoll(alRun.wizard[1], alEng.rendered)
           other == OutputOf(w.ans, Other(w.ans.high))
           kept == [w EXCEPT !.traces = Append(w.traces, Trace), !.refusal = "None"]
           v == [kept EXCEPT !.step = "MeasuringLow", !.window = FALSE, !.start = alEng.rendered]
           solo == Solo(alEng, {other})
<1>1. /\ AlWizard(w) /\ AlHeardRight(w) /\ AlBeside(alRun, w) /\ AlSolo(alEnv, alEng, alRun, w)
      /\ alRun.epoch = alEng.epoch /\ Trace.heard = {AlPlays(w) \cap (0..(alEnv.outs - 1))}
      /\ Trace.epoch = alRun.epoch
  BY SubmitHears
<1>2. submitCapture(w, alEng, Trace, f) = [wizard |-> v, eng |-> solo]
  BY Zenon DEF submitCapture
<1>3. submitCapture(w, alEng, Trace, f).wizard = v /\ submitCapture(w, alEng, Trace, f).eng = solo
  <2> HIDE DEF v, solo
  <2> QED BY <1>2
<1>4. DOMAIN w = AlWizardFields /\ w.traces = <<>> /\ w.verdict = <<>> /\ w.step = "MeasuringHigh"
  BY <1>1 DEF AlWizard
<1>5. /\ DOMAIN v = AlWizardFields /\ v.step = "MeasuringLow" /\ v.ans = w.ans /\ v.traces = <<Trace>>
      /\ v.sum = w.sum /\ v.verdict = w.verdict /\ v.cycle = w.cycle /\ v.fromIr = w.fromIr /\ v.hint = w.hint
      /\ v.irs = w.irs /\ v.refusal = "None"
  <2>1. Append(w.traces, Trace) = <<Trace>>
    BY <1>4
  <2> HIDE DEF w
  <2> QED BY <1>4, <2>1 DEF AlWizardFields
<1>6. /\ UNCHANGED <<alEnv, alAns, alIr>> /\ alEng' = solo
      /\ alRun' = [alRun EXCEPT !.wizard = <<v>>, !.start = alEng.rendered]
  <2> HIDE DEF v, solo
  <2>1. /\ UNCHANGED <<alEnv, alAns, alIr>>
        /\ v.refusal = "None" /\ v.step = "MeasuringLow" /\ w.step # "MeasuringSum"
    BY <1>4, <1>5, Zenon DEF AlPollSubmits
  <2> QED BY <1>3, <2>1, Zenon DEF AlPollSubmits
<1>7. AlEngine(alEng) /\ DOMAIN alRun = AlRunFields /\ alRun.epoch \in Nat
  BY DEF AlIInv, AlRunHolds
<1>8. AlEngine(solo) /\ solo.armed = alEng.armed /\ solo.routed = {other} /\ solo.rendered = alEng.rendered
      /\ solo.epoch = alEng.epoch
  <2> HIDE DEF other
  <2> QED BY <1>7, SoloedEngine
<1> HIDE DEF w, v, solo
<1>9. /\ DOMAIN alRun' = AlRunFields /\ alRun'.wizard = <<v>> /\ alRun'.epoch = alRun.epoch
      /\ alRun'.start = alEng.rendered /\ alRun'.cycle = alRun.cycle /\ alRun'.fromIr = alRun.fromIr
  BY <1>6, <1>7 DEF AlRunFields
<1>10. AlWizard(v)
  BY <1>1, <1>4, <1>5 DEF AlWizard
<1>11. {w.ans.main, w.ans.sub} \subseteq 0..(alEnv.outs - 1) /\ alEng.armed
  BY <1>1, <1>4 DEF AlSolo
<1>12. AlHeardRight(v)
  <2>1. OutputOf(w.ans, w.ans.high) \in {w.ans.main, w.ans.sub}
    BY <1>1, OutputIsThere DEF AlWizard
  <2>2. AlPlays(w) \cap (0..(alEnv.outs - 1)) = {OutputOf(w.ans, w.ans.high)}
    BY <1>4, <1>11, <2>1 DEF AlPlays
  <2>3. \A i \in DOMAIN v.traces :
          v.traces[i].heard = {{OutputOf(v.ans, IF i = 1 THEN v.ans.high ELSE Other(v.ans.high))}}
    <3>1. DOMAIN v.traces = {1} /\ v.traces[1] = Trace
      BY <1>5
    <3> QED BY <1>1, <1>5, <2>2, <3>1, Zenon
  <2>4. ~(v.verdict # <<>>)
    BY <1>4, <1>5
  <2>5. \A t \in Range(v.sum) : t.heard = {{v.ans.main, v.ans.sub} \cap (0..(t.outs - 1))}
    <3>1. AlHeardRight(w)
      BY <1>1
    <3> QED BY <1>5, <3>1, Zenon DEF AlHeardRight
  <2> QED BY <2>3, <2>4, <2>5, Zenon DEF AlHeardRight
<1>13. AlChosen(v)
  BY <1>1, <1>4, <1>5 DEF AlChosen, AlWizard
<1>14. AlBeside(alRun', v)
  BY <1>1, <1>4, <1>5, <1>9 DEF AlBeside
<1>15. AlSolo(alEnv, solo, alRun', v)
  <2>1. AlPlays(v) = {other}
    BY <1>5 DEF AlPlays
  <2> QED BY <1>5, <1>8, <1>9, <1>11, <2>1, SoloStarts
<1>16. alRun'.epoch \in Nat /\ alRun'.epoch <= alEng'.epoch
  BY <1>1, <1>6, <1>7, <1>8, <1>9
<1> QED BY <1>6, <1>8, <1>9, <1>10, <1>12, <1>13, <1>14, <1>15, <1>16, AlRunStep

\* The sum: what the device still has of the two outputs.
LEMMA AlSubmitsSum ==
  ASSUME AlIInv, NEW f, AlPollSubmits(f),
         wizardPoll(alRun.wizard[1], alEng.rendered).step = "MeasuringSum"
  PROVE  AlIInv'
<1> DEFINE w == wizardPoll(alRun.wizard[1], alEng.rendered)
           v == [w EXCEPT !.sum = <<Trace>>, !.step = "Done"]
           e == DisarmSource(alEng)
<1>1. /\ AlWizard(w) /\ AlHeardRight(w) /\ AlChosen(w) /\ AlBeside(alRun, w)
      /\ Trace.heard = {AlPlays(w) \cap (0..(alEnv.outs - 1))} /\ Trace.outs = alEnv.outs
  BY SubmitHears
<1>2. /\ UNCHANGED <<alEnv, alAns, alIr>> /\ alEng' = e
      /\ alRun' = [alRun EXCEPT !.wizard = <<v>>, !.outcome = "SumMeasured"]
  BY Zenon DEF AlPollSubmits
<1>3. DOMAIN w = AlWizardFields /\ w.step = "MeasuringSum"
  BY <1>1 DEF AlWizard
<1>4. /\ AlEngine(alEng) /\ DOMAIN alRun = AlRunFields /\ alRun.epoch \in Nat /\ alRun.epoch <= alEng.epoch
  BY DEF AlIInv, AlRunHolds
<1>5. AlEngine(e) /\ e.epoch = alEng.epoch
  BY <1>4, DisarmedEngine
<1> HIDE DEF w, e
<1>6. /\ DOMAIN v = AlWizardFields /\ v.step = "Done" /\ v.ans = w.ans /\ v.traces = w.traces /\ v.sum = <<Trace>>
      /\ v.verdict = w.verdict /\ v.cycle = w.cycle /\ v.fromIr = w.fromIr /\ v.hint = w.hint /\ v.irs = w.irs
  BY <1>3 DEF AlWizardFields
<1> HIDE DEF v
<1>7. /\ DOMAIN alRun' = AlRunFields /\ alRun'.wizard = <<v>> /\ alRun'.epoch = alRun.epoch
      /\ alRun'.cycle = alRun.cycle /\ alRun'.fromIr = alRun.fromIr
  BY <1>2, <1>4 DEF AlRunFields
<1>8. AlWizard(v)
  BY <1>1, <1>3, <1>6 DEF AlWizard
<1>9. AlHeardRight(v)
  <2>1. AlPlays(w) = {v.ans.main, v.ans.sub}
    BY <1>3, <1>6 DEF AlPlays
  <2>2. Range(v.sum) = {Trace}
    BY <1>6, RangeOfOne
  <2>3. \A t \in Range(v.sum) : t.heard = {{v.ans.main, v.ans.sub} \cap (0..(t.outs - 1))}
    BY <1>1, <2>1, <2>2, Zenon
  <2> QED BY <1>1, <1>6, <2>3, HeardKept
<1>10. AlChosen(v)
  BY <1>1, <1>6, ChosenKept
<1>11. AlBeside(alRun', v)
  BY <1>1, <1>3, <1>6, <1>7 DEF AlBeside
<1>12. ~Measuring(v) /\ alRun'.epoch \in Nat /\ alRun'.epoch <= alEng'.epoch
  BY <1>2, <1>4, <1>5, <1>6, <1>7 DEF Measuring
<1> QED BY <1>2, <1>5, <1>7, <1>8, <1>9, <1>10, <1>11, <1>12, AlRunStep

\* A list of one, and one more.
LEMMA AppendToOne ==
  ASSUME NEW a, NEW b
  PROVE  Append(<<a>>, b) = <<a, b>>
<1>1. <<a>> \in Seq({a}) /\ Len(<<a>>) = 1
  OBVIOUS
<1>2. Append(<<a>>, b) \in Seq({a, b}) /\ <<a, b>> \in Seq({a, b})
  OBVIOUS
<1>3. Len(Append(<<a>>, b)) = 2 /\ Len(<<a, b>>) = 2
  BY <1>1
<1>4. Append(<<a>>, b)[1] = a /\ Append(<<a>>, b)[2] = b
  BY <1>1
<1>5. \A i \in 1..Len(Append(<<a>>, b)) : Append(<<a>>, b)[i] = <<a, b>>[i]
  BY <1>3, <1>4
<1> QED BY <1>2, <1>3, <1>5, SeqEqual

\* The second capture: the verdict, or an abort.
LEMMA AlSubmitsLow ==
  ASSUME AlIInv, NEW f \in Fits, AlPollSubmits(f),
         wizardPoll(alRun.wizard[1], alEng.rendered).step = "MeasuringLow"
  PROVE  AlIInv'
<1> DEFINE w == wizardPoll(alRun.wizard[1], alEng.rendered)
           kept == [w EXCEPT !.traces = Append(w.traces, Trace), !.refusal = "None"]
           v == compute(kept, f)
           e == DisarmSource(alEng)
           clear == v.verdict[1].refusal = "None"
<1>1. /\ AlWizard(w) /\ AlHeardRight(w) /\ AlBeside(alRun, w) /\ AlSolo(alEnv, alEng, alRun, w)
      /\ Trace.heard = {AlPlays(w) \cap (0..(alEnv.outs - 1))} /\ Trace.epoch = alRun.epoch
  BY SubmitHears
<1>2. /\ UNCHANGED <<alEnv, alAns, alIr>>
      /\ IF v.refusal # "None" THEN abortRun("SettingsChanged")
         ELSE /\ alEng' = e
              /\ alRun' = IF v.step = "MeasuringLow" THEN [alRun EXCEPT !.wizard = <<v>>, !.start = alEng.rendered]
                          ELSE [alRun EXCEPT !.wizard = <<v>>, !.outcome = IF clear THEN "Measured" ELSE "FitRefused",
                                             !.fromIr = IF clear /\ v.step # "AskingCycle" THEN v.fromIr ELSE alRun.fromIr]
  <2>1. submitCapture(w, alEng, Trace, f) = [wizard |-> v, eng |-> e]
    <3>1. w.step # "MeasuringHigh"
      OBVIOUS
    <3> QED BY <3>1, Zenon DEF submitCapture
  <2>2. submitCapture(w, alEng, Trace, f).wizard = v /\ submitCapture(w, alEng, Trace, f).eng = e
    <3> HIDE DEF v, e
    <3> QED BY <2>1
  <2>3. w.step # "MeasuringSum"
    OBVIOUS
  <2> HIDE DEF v, e
  <2> QED BY <2>2, <2>3, Zenon DEF AlPollSubmits
<1>3. CASE v.refusal # "None"
  BY <1>2, <1>3, AlAbort
<1>4. CASE v.refusal = "None"
  <2>1. DOMAIN w = AlWizardFields /\ w.step = "MeasuringLow" /\ w.verdict = <<>> /\ w.cycle = <<>>
    BY <1>1 DEF AlWizard
  <2> HIDE DEF w
  <2>2. PICK a : w.traces = <<a>>
    BY <1>1, <2>1 DEF AlWizard
  <2>3. Append(w.traces, Trace) = <<a, Trace>>
    BY <2>2, AppendToOne
  <2>4. /\ DOMAIN kept = AlWizardFields /\ kept.refusal = "None" /\ kept.traces = <<a, Trace>> /\ kept.ans = w.ans
        /\ kept.sum = w.sum /\ kept.irs = w.irs /\ kept.cycle = <<>>
    BY <2>1, <2>3 DEF AlWizardFields
  <2> HIDE DEF kept
  <2>5. /\ a.fft = Trace.fft /\ a.roles = Trace.roles /\ DOMAIN v = AlWizardFields /\ v.ans = w.ans /\ v.traces = <<a, Trace>>
        /\ v.sum = w.sum /\ v.irs = w.irs /\ v.fromIr \in BOOLEAN
        /\ \E x : v.verdict = <<x>> /\ x.candidates = AlCandidates(kept, f.slip)
        /\ v.fromIr => DOMAIN w.irs = Sides /\ v.hint = <<irHint(kept)>> /\ v.cycle = v.hint
        /\ v.step \in {"AskingCycle", "AskingPolarity", "Computed"}
        /\ v.step = "AskingCycle" <=> ~v.fromIr
    BY <1>4, <2>4, ComputeIs
  <2>6. irHint(v) = irHint(kept) /\ \A slip : AlCandidates(v, slip) = AlCandidates(kept, slip)
    BY <2>4, <2>5, Zenon DEF irHint, AlCandidates, AlTrue
  <2>7. PICK x : v.verdict = <<x>> /\ x.candidates = AlCandidates(v, f.slip)
    BY <2>5, <2>6
  <2>8. /\ AlEngine(alEng) /\ DOMAIN alRun = AlRunFields /\ alRun.epoch \in Nat /\ alRun.epoch <= alEng.epoch
        /\ alRun.cycle = <<>> /\ alRun.fromIr = FALSE /\ a.epoch = alRun.epoch
    <3>1. w.traces[1] = a
      BY <2>2
    <3> QED BY <1>1, <2>1, <3>1 DEF AlIInv, AlRunHolds, AlBeside
  <2>9. AlEngine(e) /\ e.epoch = alEng.epoch
    BY <2>8, DisarmedEngine
  <2> HIDE DEF v, e
  <2>10. /\ UNCHANGED <<alEnv, alAns, alIr>> /\ alEng' = e
         /\ alRun' = [alRun EXCEPT !.wizard = <<v>>, !.outcome = IF clear THEN "Measured" ELSE "FitRefused",
                                   !.fromIr = IF clear /\ v.step # "AskingCycle" THEN v.fromIr ELSE alRun.fromIr]
    <3>1. v.step # "MeasuringLow"
      BY <2>5
    <3> QED BY <1>2, <1>4, <3>1, Zenon
  <2> HIDE DEF clear
  <2>11. /\ DOMAIN alRun' = AlRunFields /\ alRun'.wizard = <<v>> /\ alRun'.epoch = alRun.epoch
         /\ alRun'.cycle = <<>> /\ alRun'.fromIr = IF clear /\ v.step # "AskingCycle" THEN v.fromIr ELSE FALSE
    BY <2>8, <2>10 DEF AlRunFields
  <2>12. v.verdict # <<>> /\ v.verdict[1] = x
    BY <2>7
  <2>13. AlWizard(v)
    BY <1>1, <2>5, <2>12 DEF AlWizard
  <2>14. AlHeardRight(v)
    <3>1. OutputOf(w.ans, Other(w.ans.high)) \in {w.ans.main, w.ans.sub}
      BY <1>1, OutputIsThere DEF AlWizard
    <3>2. AlPlays(w) \cap (0..(alEnv.outs - 1)) = {OutputOf(w.ans, Other(w.ans.high))}
      <4>1. {w.ans.main, w.ans.sub} \subseteq 0..(alEnv.outs - 1)
        BY <1>1, <2>1 DEF AlSolo
      <4>2. AlPlays(w) = {OutputOf(w.ans, Other(w.ans.high))}
        BY <2>1 DEF AlPlays
      <4> QED BY <3>1, <4>1, <4>2
    <3>3. a.heard = {{OutputOf(w.ans, w.ans.high)}}
      <4>1. 1 \in DOMAIN w.traces /\ w.traces[1] = a
        BY <2>2
      <4>2. AlHeardRight(w)
        BY <1>1
      <4> QED BY <4>1, <4>2 DEF AlHeardRight
    <3>4. DOMAIN v.traces = {1, 2} /\ v.traces[1] = a /\ v.traces[2] = Trace
      BY <2>5
    <3>5. \A i \in DOMAIN v.traces :
             v.traces[i].heard = {{OutputOf(v.ans, IF i = 1 THEN v.ans.high ELSE Other(v.ans.high))}}
      <4>1. v.traces[1].heard = {{OutputOf(v.ans, v.ans.high)}}
        BY <2>5, <3>3, <3>4
      <4>2. v.traces[2].heard = {{OutputOf(v.ans, Other(v.ans.high))}}
        BY <1>1, <2>5, <3>2, <3>4
      <4> QED BY <3>4, <4>1, <4>2
    <3>6. SameSetup(v.traces[1], v.traces[2])
      BY <1>1, <2>5, <2>8, <3>4 DEF SameSetup
    <3>7. \A t \in Range(v.sum) : t.heard = {{v.ans.main, v.ans.sub} \cap (0..(t.outs - 1))}
      <4>1. AlHeardRight(w)
        BY <1>1
      <4> QED BY <2>5, <4>1, Zenon DEF AlHeardRight
    <3> QED BY <3>5, <3>6, <3>7, Zenon DEF AlHeardRight
  <2>15. AlChosen(v)
    <3>1. f.slip \in {-1, 0, 1}
      BY DEF Fits
    <3>2. v.verdict[1].candidates = AlCandidates(v, f.slip)
      BY <2>7, <2>12
    <3> QED BY <2>5, <2>6, <3>1, <3>2, Zenon DEF AlChosen
  <2>16. AlBeside(alRun', v)
    <3>1. v.verdict[1].refusal = "None" => alRun'.fromIr = v.fromIr
      BY <2>5, <2>11 DEF clear
    <3> QED BY <2>5, <2>11, <2>12, <3>1 DEF AlBeside
  <2>17. ~Measuring(v) /\ alRun'.epoch \in Nat /\ alRun'.epoch <= alEng'.epoch
    BY <2>5, <2>8, <2>9, <2>10, <2>11 DEF Measuring
  <2> QED BY <2>9, <2>10, <2>11, <2>13, <2>14, <2>15, <2>16, <2>17, AlRunStep
<1> QED BY <1>3, <1>4

\* A poll submits.
LEMMA AlPollSubmitsStep ==
  ASSUME AlIInv, NEW f \in Fits, AlPollSubmits(f)
  PROVE  AlIInv'
<1> DEFINE w == wizardPoll(alRun.wizard[1], alEng.rendered)
<1>1. Measuring(w)
  BY SubmitHears
<1>2. w.step \in {"MeasuringHigh", "MeasuringLow", "MeasuringSum"}
  <2> HIDE DEF w
  <2> QED BY <1>1 DEF Measuring
<1>3. CASE w.step = "MeasuringHigh"
  BY <1>3, AlSubmitsHigh
<1>4. CASE w.step = "MeasuringLow"
  BY <1>4, AlSubmitsLow
<1>5. CASE w.step = "MeasuringSum"
  BY <1>5, AlSubmitsSum
<1> HIDE DEF w
<1> QED BY <1>2, <1>3, <1>4, <1>5

-------------------------------------------------------------------------------
(* Alignment: the sweeps, the answers and the world. *)

\* A step of the impulse responses alone.
LEMMA AlIrStep ==
  ASSUME AlIInv, UNCHANGED <<alEnv, alEng, alAns, alRun>>, AlSwept(alIr')
  PROVE  AlIInv'
<1>1. alEnv' = alEnv /\ alEng' = alEng /\ alAns' = alAns /\ alRun' = alRun
  OBVIOUS
<1> QED BY <1>1 DEF AlIInv

\* SWEEP is pressed on a side: a refused press leaves the running sweep its side.
LEMMA SweepOnSideStep ==
  ASSUME AlIInv, NEW side \in Sides, sweepOnSide(side)
  PROVE  AlIInv'
<1> DEFINE p == [side |-> side, out |-> OutputOf(alAns, side)]
           ir == alIr
<1>1. UNCHANGED <<alEnv, alEng, alAns, alRun>> /\ (ir' = [ir EXCEPT !.pending = <<p>>, !.sweep = <<p>>] \/ ir' = ir)
  BY Zenon DEF sweepOnSide
<1>2. AlSwept(ir) /\ AlAnswers(alAns)
  BY DEF AlIInv
<1>3. p.side = side /\ p.out \in {0, 1}
  <2>1. p.side = side /\ p.out = OutputOf(alAns, side)
    OBVIOUS
  <2> HIDE DEF p
  <2> QED BY <1>2, <2>1, OutputIsThere
<1> HIDE DEF p
<1>4. CASE ir' = [ir EXCEPT !.pending = <<p>>, !.sweep = <<p>>]
  <2>1. DOMAIN ir = {"bound", "sweep", "pending"}
    BY <1>2 DEF AlSwept
  <2>2. DOMAIN ir' = {"bound", "sweep", "pending"} /\ ir'.bound = ir.bound /\ ir'.sweep = <<p>> /\ ir'.pending = <<p>>
    BY <1>4, <2>1
  <2>3. AlSwept(ir')
    BY <1>2, <1>3, <2>2, Zenon DEF AlSwept
  <2> QED BY <1>1, <2>3, AlIrStep
<1>5. CASE ir' = ir
  BY <1>1, <1>2, <1>5, AlIrStep
<1> QED BY <1>1, <1>4, <1>5

\* A sweep that fails binds nothing.
LEMMA SweepFailsStep ==
  ASSUME AlIInv, SweepFails
  PROVE  AlIInv'
<1> DEFINE ir == alIr
<1>1. UNCHANGED <<alEnv, alEng, alAns, alRun>> /\ ir' = [ir EXCEPT !.sweep = <<>>]
  BY Zenon DEF SweepFails
<1>2. AlSwept(ir) /\ DOMAIN ir = {"bound", "sweep", "pending"}
  BY DEF AlIInv, AlSwept
<1>3. DOMAIN ir' = {"bound", "sweep", "pending"} /\ ir'.bound = ir.bound /\ ir'.sweep = <<>>
  BY <1>1, <1>2
<1>4. AlSwept(ir')
  BY <1>2, <1>3, Zenon DEF AlSwept
<1> QED BY <1>1, <1>4, AlIrStep

\* A response is taken off its side.
LEMMA BindIrStep ==
  ASSUME AlIInv, NEW side \in Sides, bindIr(side)
  PROVE  AlIInv'
<1> DEFINE ir == alIr
<1>1. UNCHANGED <<alEnv, alEng, alAns, alRun>> /\ ir' = [ir EXCEPT !.bound[side] = <<>>]
  BY Zenon DEF bindIr
<1>2. AlSwept(ir) /\ DOMAIN ir = {"bound", "sweep", "pending"} /\ DOMAIN ir.bound = Sides
  BY DEF AlIInv, AlSwept
<1>3. /\ DOMAIN ir' = {"bound", "sweep", "pending"} /\ ir'.sweep = ir.sweep /\ ir'.pending = ir.pending
      /\ ir'.bound = [ir.bound EXCEPT ![side] = <<>>]
  BY <1>1, <1>2
<1>4. DOMAIN ir'.bound = Sides /\ \A s \in Sides : ir'.bound[s] = <<>> \/ ir'.bound[s] = ir.bound[s]
  BY <1>2, <1>3
<1>5. AlSwept(ir')
  <2>1. ASSUME NEW s \in Sides PROVE ir'.bound[s] = <<>> \/ \E b : ir'.bound[s] = <<b>> /\ b.asked = s /\ AlHeardAt(b)
    <3>1. ir.bound[s] = <<>> \/ \E b : ir.bound[s] = <<b>> /\ b.asked = s /\ AlHeardAt(b)
      BY <1>2, Zenon DEF AlSwept
    <3> QED BY <1>4, <3>1, Zenon
  <2> QED BY <1>2, <1>3, <1>4, <2>1, Zenon DEF AlSwept
<1> QED BY <1>1, <1>5, AlIrStep

\* A sweep is stored: its response goes to the side it was started for.
LEMMA OnSweptStep ==
  ASSUME AlIInv, onSwept
  PROVE  AlIInv'
<1> DEFINE ir == alIr
           s == ir.sweep[1]
           made == [out |-> s.out, asked |-> s.side, arrival |-> AlArrival[s.out], rateOk |-> alEnv.ratesOk]
           side == ir.pending[1].side
<1>1. /\ UNCHANGED <<alEnv, alEng, alAns, alRun>> /\ ir.sweep # <<>>
      /\ \/ ir' = [ir EXCEPT !.sweep = <<>>]
         \/ ir' = [bound |-> [ir.bound EXCEPT ![side] = <<made>>], sweep |-> <<>>, pending |-> <<>>]
  BY Zenon DEF onSwept
<1>2. AlSwept(ir) /\ DOMAIN ir = {"bound", "sweep", "pending"} /\ DOMAIN ir.bound = Sides
  BY DEF AlIInv, AlSwept
<1>3. PICK p : ir.sweep = <<p>> /\ ir.pending = <<p>> /\ p.side \in Sides /\ p.out \in {0, 1}
  BY <1>1, <1>2, Zenon DEF AlSwept
<1>4. s = p /\ side = p.side
  BY <1>3
<1> HIDE DEF s, side
<1>5. made.asked = p.side /\ AlHeardAt(made)
  <2>1. made.out = s.out /\ made.asked = s.side /\ made.arrival = AlArrival[s.out]
    OBVIOUS
  <2> HIDE DEF made
  <2> QED BY <1>3, <1>4, <2>1 DEF AlHeardAt
<1> HIDE DEF made
<1>6. CASE ir' = [ir EXCEPT !.sweep = <<>>]
  <2>1. DOMAIN ir' = {"bound", "sweep", "pending"} /\ ir'.bound = ir.bound /\ ir'.sweep = <<>>
    BY <1>2, <1>6
  <2>2. AlSwept(ir')
    BY <1>2, <2>1, Zenon DEF AlSwept
  <2> QED BY <1>1, <2>2, AlIrStep
<1>7. CASE ir' = [bound |-> [ir.bound EXCEPT ![side] = <<made>>], sweep |-> <<>>, pending |-> <<>>]
  <2>1. /\ DOMAIN ir' = {"bound", "sweep", "pending"} /\ ir'.sweep = <<>>
        /\ ir'.bound = [ir.bound EXCEPT ![side] = <<made>>]
    BY <1>7
  <2>2. DOMAIN ir'.bound = Sides /\ \A q \in Sides : ir'.bound[q] = IF q = side THEN <<made>> ELSE ir.bound[q]
    BY <1>2, <2>1
  <2>3. ASSUME NEW q \in Sides PROVE ir'.bound[q] = <<>> \/ \E b : ir'.bound[q] = <<b>> /\ b.asked = q /\ AlHeardAt(b)
    <3>1. CASE q = side
      BY <1>4, <1>5, <2>2, <3>1, Zenon
    <3>2. CASE q # side
      <4>1. ir.bound[q] = <<>> \/ \E b : ir.bound[q] = <<b>> /\ b.asked = q /\ AlHeardAt(b)
        BY <1>2, Zenon DEF AlSwept
      <4> QED BY <2>2, <3>2, <4>1, Zenon
    <3> QED BY <3>1, <3>2
  <2>4. AlSwept(ir')
    BY <2>1, <2>2, <2>3, Zenon DEF AlSwept
  <2> QED BY <1>1, <2>4, AlIrStep
<1> QED BY <1>1, <1>6, <1>7

\* An answer is edited: the run keeps those it was pressed with.
LEMMA AlAnswerStep ==
  ASSUME AlIInv, NEW edit \in AlEdits, AlAnswer(edit[1], edit[2])
  PROVE  AlIInv'
<1>1. /\ alEnv' = alEnv /\ alEng' = alEng /\ alRun' = alRun /\ alIr' = alIr
      /\ alAns' = [alAns EXCEPT ![edit[1]] = edit[2]]
  BY Zenon DEF AlAnswer
<1>2. AlAnswers(alAns)
  BY DEF AlIInv
<1>3. \/ edit[1] = "high" /\ edit[2] \in Sides
      \/ edit[1] = "seed"
      \/ edit[1] \in {"main", "sub"} /\ edit[2] \in {0, 1}
  BY DEF AlEdits, Sides
<1>4. AlAnswers(alAns')
  <2>1. CASE edit[1] = "high" /\ edit[2] \in Sides
    BY <1>1, <1>2, <2>1 DEF AlAnswers, AlAnsFields
  <2>2. CASE edit[1] = "seed"
    BY <1>1, <1>2, <2>2 DEF AlAnswers, AlAnsFields
  <2>3. CASE edit[1] \in {"main", "sub"} /\ edit[2] \in {0, 1}
    BY <1>1, <1>2, <2>3 DEF AlAnswers, AlAnsFields
  <2> QED BY <1>3, <2>1, <2>2, <2>3
<1> QED BY <1>1, <1>4 DEF AlIInv

\* A reopened engine is in another opening.
LEMMA ReopenedEngine ==
  ASSUME NEW e, AlEngine(e)
  PROVE  AlEngine(Reopened(e)) /\ Reopened(e).epoch = e.epoch + 1
<1>1. DOMAIN e = AlEngFields
  BY DEF AlEngine
<1> DEFINE a == Reopened(e)
<1>2. /\ DOMAIN a = AlEngFields /\ a.rendered = e.rendered /\ a.epoch = e.epoch + 1 /\ a.behind = e.behind
      /\ a.heard = e.heard
  BY <1>1 DEF Reopened, AlEngFields
<1> HIDE DEF a
<1>3. AlEngine(a)
  BY <1>2 DEF AlEngine
<1> QED BY <1>2, <1>3 DEF a

\* The world changes: the same outputs, or another opening.
LEMMA AlWorldStep ==
  ASSUME AlIInv, alAns' = alAns, alRun' = alRun, alIr' = alIr, DOMAIN alEnv' = AlEnvFields, alEnv'.outs \in Int,
         (alEng' = alEng /\ alEnv'.outs = alEnv.outs) \/ alEng' = Reopened(alEng)
  PROVE  AlIInv'
<1>1. AlEngine(alEng) /\ AlRunHolds(alEnv, alEng, alRun) /\ AlAnswers(alAns) /\ AlSwept(alIr) /\ alEng.epoch \in Nat
  BY DEF AlIInv, AlEngine
<1>2. AlEngine(alEng') /\ alEng'.epoch >= alEng.epoch
  BY <1>1, ReopenedEngine
<1>3. \A w : AlSolo(alEnv, alEng, alRun, w) /\ alEng'.epoch = alEng.epoch => AlSolo(alEnv', alEng', alRun, w)
  <2>1. CASE alEng' = alEng /\ alEnv'.outs = alEnv.outs
    BY <2>1, Zenon DEF AlSolo
  <2>2. CASE alEng' = Reopened(alEng)
    <3>1. alEng'.epoch # alEng.epoch
      BY <1>1, <2>2, ReopenedEngine
    <3> QED BY <3>1
  <2> QED BY <2>1, <2>2
<1>4. AlRunHolds(alEnv', alEng', alRun)
  BY <1>1, <1>2, <1>3, EngineMoves
<1> QED BY <1>1, <1>2, <1>4 DEF AlIInv

\* The device is closed or opened, or the input changes mode.
LEMMA AlReopenStep ==
  ASSUME AlIInv, NEW field \in {"running", "synthetic"}, AlReopen(field)
  PROVE  AlIInv'
<1>1. /\ alAns' = alAns /\ alRun' = alRun /\ alIr' = alIr /\ alEnv' = [alEnv EXCEPT ![field] = ~@]
      /\ alEng' = alEng \/ alEng' = Reopened(alEng)
  BY Zenon DEF AlReopen
<1>2. DOMAIN alEnv = AlEnvFields /\ alEnv.outs \in Int
  BY DEF AlIInv
<1>3. DOMAIN alEnv' = AlEnvFields /\ alEnv'.outs = alEnv.outs
  BY <1>1, <1>2 DEF AlEnvFields
<1> QED BY <1>1, <1>2, <1>3, AlWorldStep

\* The device is closed and opened between two polls.
LEMMA AlReopenAtOnceStep ==
  ASSUME AlIInv, AlReopenAtOnce
  PROVE  AlIInv'
<1>1. alAns' = alAns /\ alRun' = alRun /\ alIr' = alIr /\ alEng' = Reopened(alEng)
  BY Zenon DEF AlReopenAtOnce
<1>2. PICK n \in {1, 2} : alEnv' = [alEnv EXCEPT !.outs = n]
  BY Zenon DEF AlReopenAtOnce
<1>3. DOMAIN alEnv = AlEnvFields
  BY DEF AlIInv
<1>4. DOMAIN alEnv' = AlEnvFields /\ alEnv'.outs \in Int
  BY <1>2, <1>3 DEF AlEnvFields
<1> QED BY <1>1, <1>4, AlWorldStep

\* A setting or the input changes.
LEMMA AlDisturbStep ==
  ASSUME AlIInv, NEW field \in {"fft", "roles", "exponential", "transfer", "ratesOk"}, AlDisturb(field)
  PROVE  AlIInv'
<1>1. /\ alAns' = alAns /\ alRun' = alRun /\ alIr' = alIr /\ alEng' = alEng
      /\ \E x \in AlValues(field) : alEnv' = [alEnv EXCEPT ![field] = x]
  BY Zenon DEF AlDisturb
<1> PICK x \in AlValues(field) : alEnv' = [alEnv EXCEPT ![field] = x]
  BY <1>1
<1>2. DOMAIN alEnv = AlEnvFields /\ alEnv.outs \in Int
  BY DEF AlIInv
<1>3. DOMAIN alEnv' = AlEnvFields /\ alEnv'.outs = alEnv.outs
  BY <1>1, <1>2 DEF AlEnvFields
<1> QED BY <1>1, <1>2, <1>3, AlWorldStep

\* At the start there is no wizard and nothing swept.
LEMMA AlInitHolds ==
  ASSUME AlInit
  PROVE  AlIInv
<1>1. DOMAIN alEnv = AlEnvFields /\ alEnv.outs \in Int
  BY DEF AlInit, AlEnvFields
<1>2. AlEngine(alEng) /\ alEng.epoch = 1
  <2>1. /\ DOMAIN alEng = AlEngFields /\ alEng.rendered = 0 /\ alEng.epoch = 1 /\ alEng.behind = 0
        /\ alEng.heard = <<>>
    BY DEF AlInit, AlEngFields
  <2>2. <<>> \in Seq(SUBSET Int) /\ Len(<<>>) = 0
    OBVIOUS
  <2> QED BY <2>1, <2>2, AlAssumption DEF AlEngine
<1>3. AlAnswers(alAns)
  <2>1. PICK high \in Sides \cup {"unasked"}, seed \in {"near", "far", "unasked"} :
           alAns = [main |-> 0, sub |-> 1, high |-> high, seed |-> seed]
    BY Zenon DEF AlInit
  <2> QED BY <2>1 DEF AlAnswers, AlAnsFields
<1>4. AlRunHolds(alEnv, alEng, alRun)
  <2>1. DOMAIN alRun = AlRunFields /\ alRun.wizard = <<>> /\ alRun.epoch = 0
    BY DEF AlInit, AlRunFields
  <2> QED BY <1>2, <2>1 DEF AlRunHolds
<1>5. AlSwept(alIr)
  <2>1. /\ DOMAIN alIr = {"bound", "sweep", "pending"} /\ alIr.bound = [s \in Sides |-> <<>>] /\ alIr.sweep = <<>>
    BY DEF AlInit
  <2> QED BY <2>1 DEF AlSwept
<1> QED BY <1>1, <1>2, <1>3, <1>4, <1>5 DEF AlIInv

\* Every step keeps the inductive invariant.
LEMMA AlStepHolds ==
  ASSUME AlIInv, [AlNext]_alVars
  PROVE  AlIInv'
<1>1. CASE AlRender
  BY <1>1, AlRenderStep
<1>2. CASE AlPublish
  BY <1>2, AlPublishStep
<1>3. CASE press
  BY <1>3, AlPressStep
<1>4. CASE pressSum
  BY <1>4, AlPressSumStep
<1>5. CASE \E s \in {0, AlPeriod} : answerCycleMs(s)
  BY <1>5, AlAnswerCycleStep
<1>6. CASE AlPollAborts
  BY <1>6, AlAbort DEF AlPollAborts
<1>7. CASE AlPollWaits
  BY <1>7, AlPollWaitsStep
<1>8. CASE AlPollSettings
  BY <1>8, AlAbort DEF AlPollSettings
<1>9. CASE \E f \in Fits : AlPollSubmits(f)
  BY <1>9, AlPollSubmitsStep
<1>10. CASE \E s \in Sides : sweepOnSide(s) \/ bindIr(s)
  BY <1>10, SweepOnSideStep, BindIrStep
<1>11. CASE SweepFails
  BY <1>11, SweepFailsStep
<1>12. CASE onSwept
  BY <1>12, OnSweptStep
<1>13. CASE \E e \in AlEdits : AlAnswer(e[1], e[2])
  BY <1>13, AlAnswerStep
<1>14. CASE \E f \in {"running", "synthetic"} : AlReopen(f)
  BY <1>14, AlReopenStep
<1>15. CASE AlReopenAtOnce
  BY <1>15, AlReopenAtOnceStep
<1>16. CASE \E f \in {"fft", "roles", "exponential", "transfer", "ratesOk"} : AlDisturb(f)
  BY <1>16, AlDisturbStep
<1>17. CASE UNCHANGED alVars
  <2>1. alEnv' = alEnv /\ alEng' = alEng /\ alAns' = alAns /\ alRun' = alRun /\ alIr' = alIr
    BY <1>17 DEF alVars
  <2> QED BY <2>1 DEF AlIInv
<1> QED
  BY <1>1, <1>2, <1>3, <1>4, <1>5, <1>6, <1>7, <1>8, <1>9, <1>10, <1>11, <1>12, <1>13, <1>14, <1>15, <1>16, <1>17,
     Zenon DEF AlNext

\* A stored capture heard the one output its step played, the pair of a verdict is of one opening of the
\* device, and an instruction the impulse responses chose aligns the two arrivals: for every arrival, every
\* period, every dwell that covers the average, the publication lag and the settling time, and every
\* number of runs, edits, sweeps and disturbances.
THEOREM AlHearsOneSide == AlSpec => []AlInv
<1>1. AlInit => AlIInv
  BY AlInitHolds
<1>2. AlIInv /\ [AlNext]_alVars => AlIInv'
  BY AlStepHolds
<1>3. AlIInv => AlInv
  BY AlInvFollows
<1> QED BY <1>1, <1>2, <1>3, PTL DEF AlSpec

-------------------------------------------------------------------------------
(* Publishing: the inductive invariant. *)

PbBusFields == {"rate", "epoch", "config", "opening", "delay", "asked"}
PbThreadFields == {"pc", "lastEpoch", "delay", "cfg", "next", "builds", "fault"}
PbSlotFields == {"cfg", "sequence", "engaged", "build"}

\* A list of n things.
IsList(x, n) == n \in Nat /\ DOMAIN x = 1..n /\ Len(x) = n /\ (n = 0 <=> x = <<>>)

\* No snapshot, or one.
OneOrNone(x) == x = <<>> \/ x = <<x[1]>>

PbTypes ==
  /\ DOMAIN pbBus = PbBusFields /\ pbBus.config \in PbConfigs
  /\ DOMAIN pbThread = PbThreadFields /\ pbThread.next \in 1..(PbSlots + 1) /\ pbThread.builds \in Nat
  /\ DOMAIN pbSlot = 1..PbSlots
  /\ \A i \in 1..PbSlots : DOMAIN pbSlot[i] = PbSlotFields /\ pbSlot[i].sequence \in Nat /\ pbSlot[i].build \in Nat
  /\ OneOrNone(pbLatest) /\ OneOrNone(pbClient.held) /\ OneOrNone(pbClient.matched)
  /\ DOMAIN pbApi = {"admissions", "now", "log"} /\ pbApi.now \in Nat /\ pbApi.log \in Seq(Nat)
  /\ pbApi.admissions \in Seq(Nat) /\ DOMAIN pbClient = {"held", "answer", "at", "matched"}

\* A slot that is fresh is of the configuration in force.
PbFreshSlots == \A i \in 1..PbSlots : Fresh(i) => pbSlot[i].cfg = pbThread.cfg

\* The group: its members are on one reference, under the tags last published.
GroupOK(g) ==
  /\ IsList(g.last, Len(g.last)) /\ IsList(g.members, Len(g.last))
  /\ \A k \in 1..Len(g.last) : g.members[k].tf = g.last[k] /\ g.members[k].ref = g.members[1].ref

\* A slot is rebuilt once for each rebuild, so a build and a sequence name one snapshot.
Older(s, slot) == /\ s.build \in Nat /\ s.sequence \in Nat \ {0}
                  /\ s.build < slot.build \/ (s.build = slot.build /\ s.sequence <= slot.sequence)
PbSnapshots ==
  /\ pbSlot[1].build <= pbThread.builds /\ (Fresh(1) \/ pbSlot[1].build < pbThread.builds)
  /\ \A s \in Range(pbLatest) \cup Range(pbClient.held) : Older(s, pbSlot[1])
  /\ \A s \in Range(pbLatest), t \in Range(pbClient.held) :
         s.build = t.build /\ s.sequence = t.sequence => s.id = t.id

\* The limiter keeps the last of the log, and what it dropped has left the window.
Dropped(api) == Len(api.log) - Len(api.admissions)
PbWindowed(api) ==
  /\ Dropped(api) \in Nat /\ Len(api.admissions) <= PbRate
  /\ \A k \in DOMAIN api.admissions : api.admissions[k] = api.log[Dropped(api) + k]
  /\ \A i \in 1..Dropped(api) : api.now - api.log[i] >= PbWindow

\* Requests are logged in order, and of any PbRate + 1 in a row the last is a window after the first.
PbSpaced(api) ==
  /\ \A i \in DOMAIN api.log : api.log[i] <= api.now
  /\ \A i, j \in DOMAIN api.log : i <= j => api.log[i] <= api.log[j]
  /\ \A i \in DOMAIN api.log : i + PbRate \in DOMAIN api.log => api.log[i + PbRate] - api.log[i] >= PbWindow

PbIInv == /\ PbTypes /\ PbFreshSlots /\ GroupOK(pbGroup) /\ PbSnapshots /\ PbWindowed(pbApi) /\ PbSpaced(pbApi)
          /\ PbOneConfiguration /\ PbPositionsAreRoutes /\ ApiNotModified /\ ApiRefusalIsEarned

-------------------------------------------------------------------------------
(* Publishing: routes, the group and the positions. *)

\* The members of a list.
LEMMA MemberOf ==
  ASSUME NEW S, NEW l \in Seq(S)
  PROVE  \A i \in DOMAIN l : l[i] \in S
OBVIOUS

\* A list with one more at its end.
LEMMA ListGrows ==
  ASSUME NEW S, NEW l \in Seq(S), NEW x \in S
  PROVE  LET m == Append(l, x)
         IN  /\ m \in Seq(S) /\ DOMAIN m = 1..(Len(l) + 1) /\ DOMAIN l = 1..Len(l) /\ Len(l) \in Nat
             /\ Len(m) = Len(l) + 1 /\ (\A i \in DOMAIN l : m[i] = l[i]) /\ m[Len(l) + 1] = x
OBVIOUS

\* A function on 1..n is a list of n things.
LEMMA ListIs ==
  ASSUME NEW n \in Nat, NEW x, x = [i \in 1..n |-> x[i]]
  PROVE  IsList(x, n)
<1> DEFINE S == {x[i] : i \in 1..n}
<1>1. x \in [1..n -> S]
  OBVIOUS
<1> HIDE DEF S
<1>2. x \in Seq(S) /\ Len(x) = n /\ DOMAIN x = 1..n
  BY <1>1
<1>3. n = 0 => x = <<>>
  BY <1>2
<1>4. x = <<>> => n = 0
  <2>1. Len(<<>>) = 0
    OBVIOUS
  <2> QED BY <1>2, <2>1
<1> QED BY <1>2, <1>3, <1>4 DEF IsList

\* Of a set of places, in order: each place once.
LEMMA InOrderIs ==
  ASSUME NEW n \in Nat, NEW S \in SUBSET (1..n)
  PROVE  /\ Cardinality(S) \in Nat /\ (S = {} <=> Cardinality(S) = 0) /\ IsList(InOrder(S), Cardinality(S))
         /\ \A k \in 1..Cardinality(S) : InOrder(S)[k] \in S
         /\ \A i \in S : \E k \in 1..Cardinality(S) : InOrder(S)[k] = i
<1> DEFINE N == Cardinality(S)
           UpTo(i) == {j \in S : j <= i}
           x == InOrder(S)
<1>1. IsFiniteSet(S) /\ N \in Nat
  <2>1. IsFiniteSet(1..n)
    BY FS_Interval
  <2>2. IsFiniteSet(S)
    BY <2>1, FS_Subset
  <2> QED BY <2>2, FS_CardinalityType
<1>2. S = {} <=> N = 0
  BY <1>1, FS_EmptySet
<1>3. x = [k \in 1..N |-> CHOOSE i \in S : Cardinality(UpTo(i)) = k]
  BY DEF InOrder
<1>9. x = [k \in 1..N |-> x[k]]
  <2> DEFINE at(k) == CHOOSE i \in S : Cardinality(UpTo(i)) = k
  <2>1. x = [k \in 1..N |-> at(k)]
    BY <1>3
  <2> HIDE DEF at, x, N
  <2> QED BY <2>1
<1>4. \A k \in 1..N : \E i \in S : Cardinality(UpTo(i)) = k
  BY KthPlace
<1> HIDE DEF x
<1>5. \A k \in 1..N : x[k] \in S /\ Cardinality(UpTo(x[k])) = k
  BY <1>3, <1>4
<1>6. \A i \in S : i \in Int
  OBVIOUS
<1>7. ASSUME NEW i \in S PROVE \E k \in 1..N : x[k] = i
  <2> DEFINE k == Cardinality(UpTo(i))
  <2>1. UpTo(i) \in SUBSET S /\ i \in UpTo(i)
    BY <1>6
  <2>2. IsFiniteSet(UpTo(i)) /\ k <= N
    BY <1>1, <2>1, FS_Subset
  <2>3. k \in Nat /\ k # 0
    BY <2>1, <2>2, FS_CardinalityType, FS_EmptySet
  <2> HIDE DEF k
  <2>4. k \in 1..N
    BY <1>1, <2>2, <2>3
  <2> DEFINE m == x[k]
  <2>5. m \in S /\ Cardinality(UpTo(m)) = k
    BY <1>5, <2>4
  <2> HIDE DEF m
  <2>6. UpTo(m) \in SUBSET S /\ m \in UpTo(m) /\ m \in Int /\ i \in Int
    BY <1>6, <2>5
  <2>7. IsFiniteSet(UpTo(m))
    BY <1>1, <2>6, FS_Subset
  <2>8. CASE i <= m
    <3>1. UpTo(i) \in SUBSET UpTo(m)
      <4>1. \A j \in S : j <= i => j <= m
        BY <1>6, <2>6, <2>8
      <4> QED BY <4>1
    <3>2. UpTo(m) = UpTo(i)
      BY <2>5, <2>7, <3>1, FS_Subset DEF k
    <3>3. m <= i
      BY <2>6, <3>2
    <3>4. m = i
      BY <2>6, <2>8, <3>3
    <3> QED BY <2>4, <3>4 DEF m
  <2>9. CASE m <= i
    <3>1. UpTo(m) \in SUBSET UpTo(i)
      <4>1. \A j \in S : j <= m => j <= i
        BY <1>6, <2>6, <2>9
      <4> QED BY <4>1
    <3>2. UpTo(i) = UpTo(m)
      BY <2>2, <2>5, <3>1, FS_Subset DEF k
    <3>3. i <= m
      BY <2>1, <3>2
    <3>4. m = i
      BY <2>6, <2>9, <3>3
    <3> QED BY <2>4, <3>4 DEF m
  <2> QED BY <2>6, <2>8, <2>9
<1>8. IsList(x, N)
  <2> HIDE DEF N
  <2> QED BY <1>1, <1>9, ListIs
<1> QED BY <1>1, <1>2, <1>5, <1>7, <1>8 DEF x

\* The routes of a configuration are a list.
LEMMA PlanIs ==
  ASSUME NEW c \in PbConfigs
  PROVE  \E n \in Nat : IsList(planRouting(c), n)
<1> DEFINE RefOf(m) == {r \in ChannelsAs(c, "Reference") : c[r].tf = c[m].tf}
           routed == {m \in ChannelsAs(c, "Measurement") : RefOf(m) # {}}
           n == Cardinality(routed)
           x == planRouting(c)
<1>1. IsFiniteSet(DOMAIN c)
  BY PbAssumption
<1>2. routed \in SUBSET DOMAIN c
  BY DEF ChannelsAs
<1>3. x = [i \in 1..n |-> LET m == InOrder(routed)[i]
                          IN  [tf |-> c[m].tf, ref |-> Min(RefOf(m)), meas |-> m]]
  BY Zenon DEF planRouting
<1> HIDE DEF routed
<1>4. n \in Nat
  BY <1>1, <1>2, FS_Subset, FS_CardinalityType
<1> HIDE DEF n, x
<1>5. x = [i \in 1..n |-> x[i]]
  BY <1>3
<1>6. IsList(x, n)
  BY <1>4, <1>5, ListIs
<1> QED BY <1>4, <1>6 DEF x

\* An analyser exists for the first routes.
LEMMA CappedIs ==
  ASSUME NEW plan, NEW n \in Nat, IsList(plan, n)
  PROVE  \E m \in Nat : /\ Capped(plan) = 1..m /\ m <= n /\ m <= PbSlots /\ (m = n \/ m = PbSlots)
                        /\ m = Min({Len(plan), PbSlots})
<1> DEFINE S == {Len(plan), PbSlots}
<1>1. Len(plan) = n /\ PbSlots \in Nat
  BY PbAssumption DEF IsList
<1>2. S \in SUBSET Nat /\ S # {}
  BY <1>1
<1>3. Min(S) \in S /\ \A y \in S : Min(S) <= y
  <2> HIDE DEF S
  <2> QED BY <1>2, MinNat
<1>4. Capped(plan) = 1..Min(S)
  BY DEF Capped
<1> DEFINE m == Min(S)
<1>5. (m = n \/ m = PbSlots) /\ m <= n /\ m <= PbSlots /\ m \in Nat
  BY <1>1, <1>3
<1> QED BY <1>4, <1>5

\* What the routes on a reference are: in order, every one an analyser exists for.
RoutesOn(plan, ref, x, tfs) ==
  /\ IsList(tfs, Len(tfs)) /\ IsList(x, Len(tfs))
  /\ \A k \in 1..Len(tfs) : x[k] \in Capped(plan) /\ plan[x[k]].ref = ref /\ plan[x[k]].tf = tfs[k]
  /\ \A i \in Capped(plan) : plan[i].ref = ref => \E k \in 1..Len(tfs) : x[k] = i

LEMMA RoutesOnRef ==
  ASSUME NEW plan, NEW n \in Nat, IsList(plan, n), NEW ref
  PROVE  RoutesOn(plan, ref, InOrder(IndicesOn(plan, ref)), TfsAt(plan, IndicesOn(plan, ref)))
<1> DEFINE S == IndicesOn(plan, ref)
           x == InOrder(S)
           tfs == TfsAt(plan, S)
           N == Cardinality(S)
<1>1. PICK m \in Nat : Capped(plan) = 1..m
  BY CappedIs
<1>2. S = {i \in 1..m : plan[i].ref = ref}
  BY <1>1 DEF IndicesOn
<1>3. tfs = [k \in 1..N |-> plan[x[k]].tf]
  BY DEF TfsAt
<1>4. S \in SUBSET (1..m)
  BY <1>2
<1> HIDE DEF S
<1>5. /\ N \in Nat /\ IsList(x, N) /\ (\A k \in 1..N : x[k] \in S)
      /\ \A i \in S : \E k \in 1..N : x[k] = i
  BY <1>4, InOrderIs
<1> HIDE DEF x, N, tfs
<1>6. IsList(tfs, N)
  <2>1. tfs = [k \in 1..N |-> tfs[k]]
    BY <1>3
  <2> QED BY <1>5, <2>1, ListIs
<1>7. Len(tfs) = N
  BY <1>6 DEF IsList
<1>8. \A k \in 1..N : x[k] \in Capped(plan) /\ plan[x[k]].ref = ref /\ plan[x[k]].tf = tfs[k]
  BY <1>1, <1>2, <1>3, <1>5
<1>9. \A i \in Capped(plan) : plan[i].ref = ref => \E k \in 1..N : x[k] = i
  BY <1>1, <1>2, <1>5
<1> QED BY <1>5, <1>6, <1>7, <1>8, <1>9 DEF RoutesOn, S, x, tfs

\* A group in step with a plan: its members are the routes of the plan on its reference.
InStep(plan, group, indices) ==
  /\ GroupOK(group) /\ IsList(indices, Len(group.last))
  /\ \A k \in 1..Len(group.last) : /\ indices[k] \in Capped(plan) /\ plan[indices[k]].tf = group.members[k].tf
                                   /\ plan[indices[k]].ref = group.members[k].ref
  /\ plan # <<>> => \A i \in Capped(plan) : plan[i].ref = group.members[1].ref =>
                        \E k \in 1..Len(group.last) : indices[k] = i

\* After the sync the group is in step, whatever group it was.
LEMMA SyncIs ==
  ASSUME NEW plan, NEW n \in Nat, IsList(plan, n), NEW group, GroupOK(group)
  PROVE  LET s == syncAverageGroupMembership(group, plan) IN InStep(plan, s.group, s.indices)
<1> DEFINE s == syncAverageGroupMembership(group, plan)
<1>1. CASE plan = <<>>
  <2>1. s.group = [members |-> <<>>, last |-> <<>>] /\ s.indices = <<>>
    BY <1>1 DEF syncAverageGroupMembership
  <2>2. s.group.members = <<>> /\ s.group.last = <<>>
    BY <2>1
  <2>3. Len(<<>>) = 0 /\ DOMAIN <<>> = 1..0 /\ 1..0 = {} /\ 0 \in Nat
    OBVIOUS
  <2>4. IsList(<<>>, 0)
    BY <2>3 DEF IsList
  <2> QED BY <1>1, <2>1, <2>2, <2>3, <2>4 DEF InStep, GroupOK
<1>2. CASE plan # <<>>
  <2> DEFINE ref == IF group.members = <<>> THEN plan[1].ref ELSE group.members[1].ref
             predicted == IndicesOn(plan, ref)
             first == plan[1].ref
             kept == IndicesOn(plan, first)
  <2>1. s = IF TfsAt(plan, predicted) = group.last THEN [group |-> group, indices |-> InOrder(predicted)]
            ELSE [group |-> RebuiltGroup(plan), indices |-> InOrder(kept)]
    BY <1>2, Zenon DEF syncAverageGroupMembership
  <2>2. n # 0 /\ n \in Nat /\ 1 \in Capped(plan)
    <3>1. n # 0
      BY <1>2 DEF IsList
    <3>2. PICK m \in Nat : Capped(plan) = 1..m /\ (m = n \/ m = PbSlots)
      BY CappedIs
    <3> QED BY <3>1, <3>2, PbAssumption
  <2> HIDE DEF s
  <2>3. ASSUME TfsAt(plan, predicted) = group.last PROVE InStep(plan, s.group, s.indices)
    <3> DEFINE x == InOrder(predicted)
    <3>1. RoutesOn(plan, ref, x, group.last)
      <4> HIDE DEF ref
      <4> QED BY <2>3, RoutesOnRef
    <3>2. s.group = group /\ s.indices = x
      BY <2>1, <2>3
    <3> HIDE DEF x, predicted
    <3>3. IsList(group.last, Len(group.last)) /\ IsList(group.members, Len(group.last))
      BY DEF GroupOK
    <3>4. group.members # <<>>
      <4>1. SUFFICES ASSUME group.members = <<>> PROVE FALSE
        OBVIOUS
      <4>2. Len(group.last) = 0 /\ ref = plan[1].ref
        BY <3>3, <4>1 DEF IsList
      <4>3. \E k \in 1..Len(group.last) : x[k] = 1
        BY <2>2, <3>1, <4>2 DEF RoutesOn
      <4> QED BY <4>2, <4>3
    <3>5. ref = group.members[1].ref
      BY <3>4
    <3> HIDE DEF ref
    <3>6. IsList(x, Len(group.last))
      BY <3>1 DEF RoutesOn
    <3>7. ASSUME NEW k \in 1..Len(group.last)
          PROVE  x[k] \in Capped(plan) /\ plan[x[k]].tf = group.members[k].tf /\ plan[x[k]].ref = group.members[k].ref
      <4>1. group.members[k].tf = group.last[k] /\ group.members[k].ref = group.members[1].ref
        BY DEF GroupOK
      <4>2. x[k] \in Capped(plan) /\ plan[x[k]].ref = ref /\ plan[x[k]].tf = group.last[k]
        BY <3>1 DEF RoutesOn
      <4> QED BY <3>5, <4>1, <4>2
    <3>8. \A i \in Capped(plan) : plan[i].ref = group.members[1].ref => \E k \in 1..Len(group.last) : x[k] = i
      BY <3>1, <3>5 DEF RoutesOn
    <3>9. InStep(plan, group, x)
      BY <3>6, <3>7, <3>8 DEF InStep
    <3> QED BY <3>2, <3>9
  <2>4. ASSUME TfsAt(plan, predicted) # group.last PROVE InStep(plan, s.group, s.indices)
    <3> DEFINE x == InOrder(kept)
               tfs == TfsAt(plan, kept)
               mem == [k \in DOMAIN x |-> [tf |-> plan[x[k]].tf, ref |-> plan[x[k]].ref]]
    <3>1. RoutesOn(plan, first, x, tfs)
      <4> HIDE DEF first
      <4> QED BY RoutesOnRef
    <3>2. s = [group |-> RebuiltGroup(plan), indices |-> x]
      BY <2>1, <2>4
    <3>3. RebuiltGroup(plan) = [members |-> mem, last |-> tfs]
      BY Zenon DEF RebuiltGroup
    <3> HIDE DEF x, tfs, kept, mem, first
    <3>4. s.group.members = mem /\ s.group.last = tfs /\ s.indices = x
      BY <3>2, <3>3
    <3>5. IsList(tfs, Len(tfs)) /\ IsList(x, Len(tfs)) /\ DOMAIN x = 1..Len(tfs) /\ Len(tfs) \in Nat
      BY <3>1 DEF RoutesOn, IsList
    <3>6. mem = [k \in 1..Len(tfs) |-> [tf |-> plan[x[k]].tf, ref |-> plan[x[k]].ref]]
      BY <3>5 DEF mem
    <3>7. IsList(mem, Len(tfs))
      <4> DEFINE N == Len(tfs)
      <4>1. mem = [k \in 1..N |-> mem[k]]
        BY <3>6
      <4>2. N \in Nat
        BY <3>5
      <4> HIDE DEF N
      <4>3. IsList(mem, N)
        BY <4>1, <4>2, ListIs
      <4> QED BY <4>3 DEF N
    <3>8. \A k \in 1..Len(tfs) : mem[k].tf = plan[x[k]].tf /\ mem[k].ref = plan[x[k]].ref
      BY <3>6
    <3>9. \A k \in 1..Len(tfs) : /\ mem[k].tf = tfs[k] /\ mem[k].ref = first
                                 /\ x[k] \in Capped(plan)
      BY <3>1, <3>8 DEF RoutesOn
    <3>10. mem[1].ref = first
      <4>1. plan[1].ref = first
        BY DEF first
      <4>2. PICK k \in 1..Len(tfs) : x[k] = 1
        BY <2>2, <3>1, <4>1 DEF RoutesOn
      <4>3. 1 \in 1..Len(tfs)
        BY <3>5
      <4> QED BY <3>9, <4>3
    <3>11. GroupOK(s.group)
      BY <3>4, <3>5, <3>7, <3>9, <3>10 DEF GroupOK
    <3>12. \A i \in Capped(plan) : plan[i].ref = first => \E k \in 1..Len(tfs) : x[k] = i
      BY <3>1 DEF RoutesOn
    <3> DEFINE g == s.group
    <3>13. g.members = mem /\ g.last = tfs /\ GroupOK(g)
      BY <3>4, <3>11
    <3> HIDE DEF g
    <3>14. /\ IsList(x, Len(g.last))
           /\ \A k \in 1..Len(g.last) : /\ x[k] \in Capped(plan) /\ plan[x[k]].tf = g.members[k].tf
                                         /\ plan[x[k]].ref = g.members[k].ref
      BY <3>5, <3>8, <3>9, <3>13
    <3>15. \A i \in Capped(plan) : plan[i].ref = g.members[1].ref => \E k \in 1..Len(g.last) : x[k] = i
      BY <3>10, <3>12, <3>13
    <3>16. InStep(plan, g, x)
      BY <3>13, <3>14, <3>15 DEF InStep
    <3> QED BY <3>4, <3>16 DEF g
  <2> QED BY <2>3, <2>4 DEF s
<1> QED BY <1>1, <1>2

\* The positions merged from a group in step are the routes of the plan.
LEMMA PositionsAre ==
  ASSUME NEW plan, NEW n \in Nat, IsList(plan, n), NEW group, NEW indices, InStep(plan, group, indices)
  PROVE  LET p == mergeRoutePositions(plan, indices, group.members)
         IN  /\ Len(p) = Len(plan)
             /\ \A i \in DOMAIN plan : /\ p[i].tf = plan[i].tf /\ p[i].ref = plan[i].ref
                                       /\ (p[i].membership = "Member") <=>
                                              (i <= PbSlots /\ plan[i].ref = group.members[1].ref)
<1> DEFINE p == mergeRoutePositions(plan, indices, group.members)
           In(i) == \E k \in DOMAIN indices : indices[k] = i
           at(i) == CHOOSE k \in DOMAIN indices : indices[k] = i
           position(i) == IF In(i) THEN [tf |-> group.members[at(i)].tf, ref |-> group.members[at(i)].ref, membership |-> "Member"]
                          ELSE [tf |-> plan[i].tf, ref |-> plan[i].ref,
                                membership |-> IF i > PbSlots THEN "ExcludedOverCapacity" ELSE "ExcludedDifferentReference"]
<1>1. DOMAIN plan = 1..n /\ Len(plan) = n /\ (n = 0 <=> plan = <<>>)
  BY DEF IsList
<1>2. p = [i \in 1..n |-> position(i)]
  BY <1>1, Zenon DEF mergeRoutePositions
<1>3. DOMAIN indices = 1..Len(group.last) /\ GroupOK(group)
  BY DEF InStep, IsList
<1>4. PICK m \in Nat : /\ Capped(plan) = 1..m /\ m <= n /\ m <= PbSlots /\ (m = n \/ m = PbSlots)
                       /\ m = Min({Len(plan), PbSlots})
  <2> HIDE DEF p, In, at, position
  <2> QED BY CappedIs
<1> HIDE DEF p
<1>5. Len(p) = n
  <2> HIDE DEF position
  <2>1. p = [i \in 1..n |-> p[i]]
    BY <1>2
  <2>2. IsList(p, n)
    BY <2>1, ListIs
  <2> QED BY <2>2 DEF IsList
<1>6. ASSUME NEW i \in 1..n
      PROVE  /\ p[i].tf = plan[i].tf /\ p[i].ref = plan[i].ref
             /\ (p[i].membership = "Member") <=> (i <= PbSlots /\ plan[i].ref = group.members[1].ref)
  <2>1. p[i] = position(i)
    <3> HIDE DEF position
    <3> QED BY <1>2
  <2>2. CASE In(i)
    <3> DEFINE k == at(i)
    <3>1. k \in 1..Len(group.last) /\ indices[k] = i
      BY <1>3, <2>2
    <3>2. p[i].tf = group.members[k].tf /\ p[i].ref = group.members[k].ref /\ p[i].membership = "Member"
      <4> HIDE DEF In, at
      <4>1. p[i] = [tf |-> group.members[k].tf, ref |-> group.members[k].ref, membership |-> "Member"]
        BY <2>1, <2>2
      <4> QED BY <4>1
    <3> HIDE DEF k
    <3>3. i \in Capped(plan) /\ plan[i].tf = group.members[k].tf /\ plan[i].ref = group.members[k].ref
      BY <3>1 DEF InStep
    <3>4. group.members[k].ref = group.members[1].ref
      BY <1>3, <3>1 DEF GroupOK
    <3>5. i <= PbSlots
      BY <1>4, <3>3, PbAssumption
    <3> QED BY <3>2, <3>3, <3>4, <3>5
  <2>3. CASE ~In(i)
    <3>1. /\ p[i].tf = plan[i].tf /\ p[i].ref = plan[i].ref
          /\ p[i].membership = IF i > PbSlots THEN "ExcludedOverCapacity" ELSE "ExcludedDifferentReference"
      <4> HIDE DEF In, at
      <4> QED BY <2>1, <2>3
    <3>2. p[i].membership # "Member"
      BY <3>1
    <3>3. ASSUME i <= PbSlots, plan[i].ref = group.members[1].ref PROVE FALSE
      <4>1. i \in Capped(plan)
        BY <1>4, <3>3, PbAssumption
      <4>2. plan # <<>>
        BY <1>1
      <4>3. \E k \in 1..Len(group.last) : indices[k] = i
        BY <3>3, <4>1, <4>2 DEF InStep
      <4> QED BY <1>3, <2>3, <4>3
    <3> QED BY <3>1, <3>2, <3>3
  <2> QED BY <2>2, <2>3
<1> QED BY <1>1, <1>5, <1>6 DEF p

-------------------------------------------------------------------------------
(* Publishing: the limiter. *)

\* The types of the limiter and the log.
ApiTypes(api) ==
  api.now \in Nat /\ api.log \in Seq(Nat) /\ api.admissions \in Seq(Nat)

\* What admit keeps is the end of what there was, and what it drops has left the window.
LEMMA AdmitIs ==
  ASSUME NEW a \in Seq(Nat), NEW now \in Nat
  PROVE  \E d \in 0..Len(a) :
            /\ admit(a, now).kept \in Seq(Nat) /\ Len(admit(a, now).kept) = Len(a) - d
            /\ (\A k \in 1..(Len(a) - d) : admit(a, now).kept[k] = a[d + k])
            /\ (\A k \in 1..d : now - a[k] >= PbWindow)
            /\ (d < Len(a) => now - a[d + 1] < PbWindow)
            /\ admit(a, now).ok = (PbRate > 0 /\ Len(admit(a, now).kept) < PbRate)
<1> DEFINE fresh == {i \in DOMAIN a : now - a[i] < PbWindow}
           n == Len(a)
           S == fresh \cup {n + 1}
           f == Min(S)
           kept == SubSeq(a, f, n)
<1>1. n \in Nat /\ DOMAIN a = 1..n /\ PbWindow \in Nat /\ \A i \in 1..n : a[i] \in Nat
  <2>1. \A i \in DOMAIN a : a[i] \in Nat
    BY MemberOf
  <2> QED BY <2>1, PbAssumption
<1>2. admit(a, now) = [kept |-> kept, ok |-> PbRate > 0 /\ Len(kept) < PbRate]
  BY Zenon DEF admit
<1> HIDE DEF n
<1>3. S \in SUBSET Nat /\ S # {} /\ \A i \in S : i \in 1..(n + 1)
  BY <1>1
<1>4. f \in S /\ \A y \in S : f <= y
  <2> HIDE DEF S
  <2> QED BY <1>3, MinNat
<1>5. f \in 1..(n + 1)
  <2> HIDE DEF S, f
  <2> QED BY <1>3, <1>4
<1>6. ASSUME NEW k \in 1..(f - 1) PROVE now - a[k] >= PbWindow
  <2>1. k \in 1..n /\ ~(f <= k)
    <3> HIDE DEF f
    <3> QED BY <1>1, <1>5
  <2>2. k \notin S
    <3> HIDE DEF S, f
    <3> QED BY <1>4, <2>1
  <2>3. ~(now - a[k] < PbWindow)
    BY <1>1, <2>1, <2>2
  <2> QED BY <1>1, <2>1, <2>3
<1>11. ASSUME f - 1 < n PROVE now - a[(f - 1) + 1] < PbWindow
  <2>1. f \in 1..n
    <3> HIDE DEF f
    <3> QED BY <1>1, <1>5, <1>11
  <2>2. f \in fresh
    <3>1. f # n + 1
      <4> HIDE DEF f
      <4> QED BY <1>1, <2>1
    <3> HIDE DEF f
    <3> QED BY <1>4, <3>1
  <2>3. now - a[f] < PbWindow
    <3> HIDE DEF f
    <3> QED BY <2>2
  <2>4. (f - 1) + 1 = f
    <3> HIDE DEF f
    <3> QED BY <1>1, <2>1
  <2> QED BY <2>3, <2>4
<1> HIDE DEF f
<1>7. f \in Int /\ f >= 1 /\ f <= n + 1 /\ f - 1 \in 0..n
  BY <1>1, <1>5
<1>8. /\ kept \in Seq(Nat) /\ Len(kept) = n - (f - 1)
      /\ \A k \in 1..(n - (f - 1)) : kept[k] = a[(f - 1) + k]
  <2>1. \A i \in f..n : a[i] \in Nat
    BY <1>1, <1>7
  <2>2. kept = [i \in 1..(1 + n - f) |-> a[i + f - 1]]
    BY <1>1, <1>7 DEF n
  <2>3. 1 + n - f \in Nat
    BY <1>1, <1>7
  <2>4. \A i \in 1..(1 + n - f) : a[i + f - 1] \in Nat
    BY <1>1, <1>7
  <2>5. kept \in [1..(1 + n - f) -> Nat]
    <3> HIDE DEF kept
    <3> QED BY <2>2, <2>4
  <2> HIDE DEF kept
  <2>6. kept \in Seq(Nat) /\ Len(kept) = 1 + n - f
    BY <2>3, <2>5
  <2>7. \A k \in 1..(n - (f - 1)) : k \in 1..(1 + n - f) /\ k + f - 1 = (f - 1) + k
    BY <1>1, <1>7
  <2>8. \A k \in 1..(1 + n - f) : kept[k] = a[k + f - 1]
    BY <2>2
  <2>9. 1 + n - f = n - (f - 1)
    BY <1>1, <1>7
  <2> QED BY <2>6, <2>7, <2>8, <2>9
<1> HIDE DEF kept
<1>9. admit(a, now).kept = kept /\ admit(a, now).ok = (PbRate > 0 /\ Len(kept) < PbRate)
  BY <1>2
<1> DEFINE d == f - 1
<1>10. d \in 0..n /\ Len(kept) = n - d /\ (\A k \in 1..(n - d) : kept[k] = a[d + k]) /\ (\A k \in 1..d : now - a[k] >= PbWindow)
      /\ (d < n => now - a[d + 1] < PbWindow)
  BY <1>6, <1>7, <1>8, <1>11
<1> HIDE DEF d
<1> QED BY <1>8, <1>9, <1>10 DEF n

\* A limiter that only drops what has left the window keeps the end of the log.
LEMMA KeptIsWindowed ==
  ASSUME NEW api, ApiTypes(api), PbWindowed(api), NEW kept \in Seq(Nat), NEW d \in 0..Len(api.admissions),
         Len(kept) = Len(api.admissions) - d, \A k \in 1..(Len(api.admissions) - d) : kept[k] = api.admissions[d + k],
         \A k \in 1..d : api.now - api.admissions[k] >= PbWindow
  PROVE  LET off == Len(api.log) - Len(kept)
         IN  /\ off \in Nat /\ Len(kept) <= PbRate
             /\ \A k \in DOMAIN kept : kept[k] = api.log[off + k]
             /\ \A i \in 1..off : api.now - api.log[i] >= PbWindow
<1> DEFINE L == Len(api.log)
           A == Len(api.admissions)
           D == Dropped(api)
           off == L - Len(kept)
<1>1. /\ L \in Nat /\ A \in Nat /\ D = L - A /\ D \in Nat /\ A <= PbRate /\ PbRate \in Nat
      /\ DOMAIN api.admissions = 1..A /\ DOMAIN kept = 1..Len(kept) /\ Len(kept) \in Nat
  BY PbAssumption DEF ApiTypes, PbWindowed, Dropped
<1>2. /\ \A k \in 1..A : api.admissions[k] = api.log[D + k]
      /\ \A i \in 1..D : api.now - api.log[i] >= PbWindow
  BY <1>1 DEF PbWindowed
<1>3. d \in Nat /\ d <= A /\ Len(kept) = A - d
  BY <1>1
<1>4. \A k \in 1..(A - d) : kept[k] = api.admissions[d + k]
  OBVIOUS
<1>5. \A k \in 1..d : api.now - api.admissions[k] >= PbWindow
  OBVIOUS
<1> HIDE DEF L, A, D
<1>6. off = D + d /\ off \in Nat /\ Len(kept) <= PbRate
  <2> DEFINE K == Len(kept)
  <2>1. K = A - d /\ off = L - K
    BY <1>3
  <2> HIDE DEF K, off
  <2>2. off = D + d /\ off \in Nat /\ K <= PbRate
    BY <1>1, <1>3, <2>1
  <2> QED BY <2>2 DEF K
<1> HIDE DEF off
<1>7. ASSUME NEW k \in DOMAIN kept PROVE kept[k] = api.log[off + k]
  <2>1. k \in 1..(A - d) /\ d + k \in 1..A /\ D + (d + k) = off + k
    BY <1>1, <1>3, <1>6
  <2> QED BY <1>2, <1>4, <2>1
<1>8. ASSUME NEW i \in 1..off PROVE api.now - api.log[i] >= PbWindow
  <2>1. CASE i \in 1..D
    BY <1>2, <2>1
  <2>2. CASE ~(i \in 1..D)
    <3> DEFINE k == i - D
    <3>1. k \in 1..d /\ k \in 1..A /\ D + k = i
      BY <1>1, <1>3, <1>6, <2>2
    <3> HIDE DEF k
    <3> QED BY <1>2, <1>5, <3>1
  <2> QED BY <2>1, <2>2
<1> QED BY <1>6, <1>7, <1>8 DEF off, L

\* A request that is admitted joins what was kept, and the log; PbRate before it, the log is a window old.
LEMMA AdmittedIs ==
  ASSUME NEW api, ApiTypes(api), PbSpaced(api), NEW kept \in Seq(Nat), NEW off \in Nat,
         off = Len(api.log) - Len(kept), Len(kept) < PbRate,
         \A k \in DOMAIN kept : kept[k] = api.log[off + k],
         \A i \in 1..off : api.now - api.log[i] >= PbWindow,
         NEW b, b.now = api.now, b.log = Append(api.log, api.now),
         b.admissions = Append(kept, api.now)
  PROVE  ApiTypes(b) /\ PbWindowed(b) /\ PbSpaced(b)
<1> DEFINE x == api.now
           L == Len(api.log)
           K == Len(kept)
           now == api.now
           log == Append(api.log, api.now)
           adm == Append(kept, x)
<1>1. /\ now \in Nat /\ api.log \in Seq(Nat) /\ PbRate \in Nat /\ PbWindow \in Nat
  BY PbAssumption DEF ApiTypes
<1>2. x \in Nat /\ x = now
  BY <1>1
<1> HIDE DEF x
<1>3. /\ log \in Seq(Nat) /\ DOMAIN log = 1..(L + 1) /\ DOMAIN api.log = 1..L /\ L \in Nat /\ Len(log) = L + 1
      /\ (\A i \in DOMAIN api.log : log[i] = api.log[i]) /\ log[L + 1] = now
  BY <1>1, ListGrows
<1>4. /\ adm \in Seq(Nat) /\ DOMAIN adm = 1..(K + 1) /\ DOMAIN kept = 1..K /\ K \in Nat /\ Len(adm) = K + 1
      /\ (\A i \in DOMAIN kept : adm[i] = kept[i]) /\ adm[K + 1] = x
  BY <1>2, ListGrows
<1>5. b.now = now /\ b.log = log /\ b.admissions = adm
  BY DEF x
<1>6. off = L - K /\ off \in Nat /\ K < PbRate
  OBVIOUS
<1>7. /\ \A i \in 1..L : api.log[i] \in Nat /\ api.log[i] <= now
      /\ \A i, j \in 1..L : i <= j => api.log[i] <= api.log[j]
      /\ \A i \in 1..L : i + PbRate \in 1..L => api.log[i + PbRate] - api.log[i] >= PbWindow
  <2>1. \A i \in 1..L : api.log[i] \in Nat
    BY <1>1, <1>3, MemberOf
  <2> QED BY <1>3, <2>1 DEF PbSpaced
<1> HIDE DEF L, K, now, log, adm
<1>16. L \in Nat /\ K \in Nat /\ off \in Nat /\ off = L - K /\ K < PbRate /\ PbRate \in Nat /\ now \in Nat /\ PbWindow \in Nat
  <2>1. L \in Nat /\ K \in Nat
    BY <1>3, <1>4
  <2> QED BY <1>1, <1>6, <2>1
<1>17. (\A i \in 1..L : log[i] = api.log[i]) /\ log[L + 1] = now
  BY <1>3
<1>18. (\A i \in 1..K : adm[i] = kept[i]) /\ adm[K + 1] = x /\ DOMAIN adm = 1..(K + 1)
  BY <1>4
<1>8. \A i \in 1..(L + 1) : i \in 1..L \/ i = L + 1
  BY <1>16
<1>9. ApiTypes(b)
  BY <1>1, <1>3, <1>4, <1>5 DEF ApiTypes
<1>10. Dropped(b) = off
  <2>1. Len(b.log) = L + 1 /\ Len(b.admissions) = K + 1
    BY <1>3, <1>4, <1>5
  <2>2. Dropped(b) = (L + 1) - (K + 1)
    BY <2>1 DEF Dropped
  <2>3. \A p, q \in Nat : (p + 1) - (q + 1) = p - q
    OBVIOUS
  <2>4. (L + 1) - (K + 1) = L - K
    BY <1>16, <2>3
  <2> QED BY <1>16, <2>2, <2>4
<1>11. PbWindowed(b)
  <2>1. Len(b.admissions) <= PbRate
    <3>1. Len(b.admissions) = K + 1
      BY <1>4, <1>5
    <3> QED BY <1>16, <3>1
  <2>2. ASSUME NEW k \in DOMAIN adm PROVE adm[k] = log[off + k]
    <3>1. CASE k \in 1..K
      <4>1. off + k \in 1..L
        BY <1>16, <3>1, SMTT(30)
      <4>2. kept[k] = api.log[off + k]
        BY <1>4, <3>1
      <4>3. adm[k] = kept[k] /\ log[off + k] = api.log[off + k]
        BY <1>17, <1>18, <3>1, <4>1
      <4> QED BY <4>2, <4>3
    <3>2. CASE k = K + 1
      <4>1. off + k = L + 1
        <5>1. \A p, q \in Nat : (p - q) + (q + 1) = p + 1
          OBVIOUS
        <5> QED BY <1>16, <3>2, <5>1
      <4> QED BY <1>2, <1>17, <1>18, <3>2, <4>1
    <3> QED BY <1>16, <1>18, <3>1, <3>2
  <2>3. ASSUME NEW i \in 1..off PROVE now - log[i] >= PbWindow
    <3>1. i \in 1..L
      BY <1>16
    <3>2. now - api.log[i] >= PbWindow
      BY DEF now
    <3> QED BY <1>17, <3>1, <3>2
  <2> QED BY <1>5, <1>16, <1>10, <2>1, <2>2, <2>3 DEF PbWindowed
<1>12. \A i \in 1..(L + 1) : log[i] <= now
  <2>1. ASSUME NEW i \in 1..(L + 1) PROVE log[i] <= now
    <3>1. CASE i \in 1..L
      BY <1>7, <1>17, <3>1
    <3>2. CASE i = L + 1
      BY <1>16, <1>17, <3>2
    <3> QED BY <1>8, <3>1, <3>2
  <2> QED BY <2>1
<1>13. ASSUME NEW i \in 1..(L + 1), NEW j \in 1..(L + 1), i <= j PROVE log[i] <= log[j]
  <2>1. CASE j = L + 1
    BY <1>17, <1>12, <2>1
  <2>2. CASE j # L + 1
    <3>1. i \in 1..L /\ j \in 1..L
      BY <1>16, <1>13, <2>2
    <3> QED BY <1>17, <1>7, <1>13, <3>1
  <2> QED BY <2>1, <2>2
<1>14. ASSUME NEW i \in 1..(L + 1), i + PbRate \in 1..(L + 1) PROVE log[i + PbRate] - log[i] >= PbWindow
  <2>1. CASE i + PbRate = L + 1
    <3>1. i \in 1..off
      BY <1>16, <2>1
    <3>2. now - api.log[i] >= PbWindow
      BY <3>1 DEF now
    <3>3. i \in 1..L
      BY <1>16, <3>1
    <3> QED BY <1>17, <2>1, <3>2, <3>3
  <2>2. CASE i + PbRate # L + 1
    <3>1. i \in 1..L /\ i + PbRate \in 1..L
      BY <1>16, <1>14, <2>2
    <3>2. log[i + PbRate] = api.log[i + PbRate] /\ log[i] = api.log[i]
      BY <1>17, <3>1
    <3> QED BY <1>7, <3>1, <3>2
  <2> QED BY <2>1, <2>2
<1>15. PbSpaced(b)
  <2>1. DOMAIN b.log = 1..(L + 1)
    BY <1>3, <1>5
  <2> QED BY <1>5, <1>12, <1>13, <1>14, <2>1 DEF PbSpaced
<1> QED BY <1>9, <1>11, <1>15

\* Requests that are spaced like that are never more than PbRate in a window.
LEMMA SpacedIsBounded ==
  ASSUME NEW api, ApiTypes(api), PbSpaced(api), NEW t \in Nat
  PROVE  Cardinality({i \in DOMAIN api.log : api.log[i] \in t..(t + PbWindow - 1)}) <= PbRate
<1> DEFINE L == Len(api.log)
           X == {i \in DOMAIN api.log : api.log[i] \in t..(t + PbWindow - 1)}
<1>1. PbRate \in Nat /\ PbWindow \in Nat /\ L \in Nat /\ DOMAIN api.log = 1..L /\ \A i \in 1..L : api.log[i] \in Nat
  <2>1. api.log \in Seq(Nat)
    BY DEF ApiTypes
  <2> QED BY <2>1, MemberOf, PbAssumption
<1>2. /\ \A i, j \in 1..L : i <= j => api.log[i] <= api.log[j]
      /\ \A i \in 1..L : i + PbRate \in 1..L => api.log[i + PbRate] - api.log[i] >= PbWindow
  BY <1>1 DEF PbSpaced
<1> HIDE DEF L
<1>3. X \in SUBSET Nat /\ \A i \in X : i \in 1..L /\ api.log[i] >= t /\ api.log[i] < t + PbWindow
  BY <1>1
<1> HIDE DEF X
<1>4. CASE X = {}
  <2>1. Cardinality(X) = 0
    BY <1>4, FS_EmptySet
  <2>2. Cardinality(X) <= PbRate
    BY <1>1, <2>1
  <2> QED BY <2>2 DEF X
<1>5. CASE X # {}
  <2>1. PICK m \in X : \A y \in X : m <= y
    BY <1>3, <1>5, LeastNat
  <2>2. m \in Nat /\ m \in 1..L
    BY <1>3
  <2>3. ASSUME NEW j \in X PROVE j \in m..(m + PbRate - 1)
    <3>1. j \in 1..L /\ m <= j /\ j \in Nat
      BY <1>3, <2>1
    <3>2. ASSUME j >= m + PbRate PROVE FALSE
      <4>1. m + PbRate \in 1..L
        BY <1>1, <2>2, <3>1, <3>2
      <4>2. api.log[m + PbRate] - api.log[m] >= PbWindow /\ api.log[m + PbRate] <= api.log[j]
        BY <1>2, <2>2, <3>1, <3>2, <4>1
      <4>3. api.log[m] >= t /\ api.log[j] < t + PbWindow
        BY <1>3
      <4>4. api.log[m] \in Nat /\ api.log[j] \in Nat /\ api.log[m + PbRate] \in Nat
        BY <1>1, <2>2, <3>1, <4>1
      <4> QED BY <1>1, <4>2, <4>3, <4>4, SMTT(30)
    <3> QED BY <1>1, <2>2, <3>1, <3>2
  <2>4. X \in SUBSET (m..(m + PbRate - 1))
    BY <2>3
  <2> DEFINE h == m + PbRate - 1
  <2>5. m \in Int /\ h \in Int
    BY <1>1, <2>2
  <2> HIDE DEF h
  <2>6. IsFiniteSet(m..h) /\ Cardinality(m..h) = IF m > h THEN 0 ELSE h - m + 1
    BY <2>5, FS_Interval
  <2>7. Cardinality(m..h) <= PbRate
    BY <1>1, <2>2, <2>6 DEF h
  <2>8. IsFiniteSet(X) /\ Cardinality(X) <= Cardinality(m..h)
    BY <2>4, <2>6, FS_Subset DEF h
  <2>9. Cardinality(X) \in Nat /\ Cardinality(m..h) \in Nat
    BY <2>6, <2>8, FS_CardinalityType
  <2>10. Cardinality(X) <= PbRate
    <3> DEFINE p == Cardinality(X)
               q == Cardinality(m..h)
    <3>1. p \in Nat /\ q \in Nat /\ p <= q /\ q <= PbRate /\ PbRate \in Nat
      BY <1>1, <2>7, <2>8, <2>9
    <3> HIDE DEF p, q
    <3>2. p <= PbRate
      BY <3>1
    <3> QED BY <3>2 DEF p
  <2> QED BY <2>10 DEF X
<1> QED BY <1>4, <1>5

-------------------------------------------------------------------------------
(* Publishing: the steps. *)

\* A step that leaves the slots, or starts another rebuild of them, keeps the invariant.
LEMMA PbThreadStep ==
  ASSUME PbIInv, UNCHANGED <<pbSlot, pbGroup, pbLatest, pbApi, pbClient>>,
         DOMAIN pbBus' = PbBusFields, pbBus'.config \in PbConfigs, DOMAIN pbThread' = PbThreadFields,
         \/ /\ pbThread'.next = pbThread.next /\ pbThread'.builds = pbThread.builds
            /\ pbThread'.cfg = pbThread.cfg
         \/ pbThread'.next = 1 /\ pbThread'.builds = pbThread.builds + 1
  PROVE  PbIInv'
<1> USE DEF PbIInv
<1>1. PbSlots \in Nat \ {0}
  BY PbAssumption
<1>2. pbThread.next \in 1..(PbSlots + 1) /\ pbThread.builds \in Nat
  BY DEF PbTypes
<1>3. pbThread'.next \in 1..(PbSlots + 1) /\ pbThread'.builds \in Nat
  BY <1>1, <1>2
<1>4. PbTypes'
  BY <1>3 DEF PbTypes
<1>5. PbFreshSlots'
  <2>1. CASE pbThread'.next = pbThread.next /\ pbThread'.cfg = pbThread.cfg
    BY <2>1 DEF PbFreshSlots, Fresh
  <2>2. CASE pbThread'.next = 1
    <3>1. \A i \in 1..PbSlots : ~(i < pbThread'.next)
      BY <1>1, <2>2
    <3> QED BY <3>1 DEF PbFreshSlots, Fresh
  <2> QED BY <2>1, <2>2
<1>6. PbSnapshots'
  <2>1. pbSlot[1].build <= pbThread.builds /\ (1 < pbThread.next \/ pbSlot[1].build < pbThread.builds)
    BY DEF PbSnapshots, Fresh
  <2>2. pbSlot[1].build \in Nat
    BY <1>1 DEF PbTypes
  <2>3. /\ pbSlot'[1].build <= pbThread'.builds
        /\ 1 < pbThread'.next \/ pbSlot'[1].build < pbThread'.builds
    <3>1. CASE pbThread'.next = pbThread.next /\ pbThread'.builds = pbThread.builds
      BY <2>1, <3>1
    <3>2. CASE pbThread'.builds = pbThread.builds + 1
      <4>1. pbSlot[1].build <= pbThread.builds + 1 /\ pbSlot[1].build < pbThread.builds + 1
        BY <1>2, <2>1, <2>2
      <4> QED BY <3>2, <4>1
    <3> QED BY <3>1, <3>2
  <2>4. /\ \A s \in Range(pbLatest) \cup Range(pbClient.held) : Older(s, pbSlot[1])
        /\ \A s \in Range(pbLatest), t \in Range(pbClient.held) :
               s.build = t.build /\ s.sequence = t.sequence => s.id = t.id
    BY DEF PbSnapshots
  <2>5. pbLatest' = pbLatest /\ pbClient' = pbClient /\ pbSlot' = pbSlot
    OBVIOUS
  <2> QED BY <2>3, <2>4, <2>5 DEF PbSnapshots, Fresh
<1>7. GroupOK(pbGroup)' /\ PbWindowed(pbApi)' /\ PbSpaced(pbApi)'
  <2>1. pbGroup' = pbGroup /\ pbApi' = pbApi
    OBVIOUS
  <2> QED BY <2>1
<1>8. PbOneConfiguration' /\ PbPositionsAreRoutes' /\ ApiNotModified' /\ ApiRefusalIsEarned'
  <2>1. pbLatest' = pbLatest /\ pbClient' = pbClient /\ pbApi' = pbApi
    OBVIOUS
  <2> QED BY <2>1 DEF PbOneConfiguration, PbPositionsAreRoutes, ApiNotModified, ApiRefusalIsEarned
<1> QED BY <1>4, <1>5, <1>6, <1>7, <1>8

\* What the bus and the thread do without the slots.
LEMMA PbBusAndThread ==
  ASSUME PbIInv,
         \/ \E rate \in PbRates : PbOpenRate(rate)
         \/ PbOpenEpoch
         \/ \E c \in PbConfigs : PbSetConfig(c)
         \/ applyReferenceDelay \/ rebuildAnalysersIfEpochChanged \/ applyPendingReferenceDelay \/ PbSkipPublish \/ PbThrows
  PROVE  PbIInv'
<1> DEFINE kept == /\ pbThread'.next = pbThread.next /\ pbThread'.builds = pbThread.builds
                   /\ pbThread'.cfg = pbThread.cfg
           restarted == pbThread'.next = 1 /\ pbThread'.builds = pbThread.builds + 1
           others == UNCHANGED <<pbSlot, pbGroup, pbLatest, pbApi, pbClient>>
           bus == DOMAIN pbBus' = PbBusFields /\ pbBus'.config \in PbConfigs
           thread == DOMAIN pbThread' = PbThreadFields
<1>1. DOMAIN pbBus = PbBusFields /\ pbBus.config \in PbConfigs /\ DOMAIN pbThread = PbThreadFields
  BY DEF PbIInv, PbTypes
<1> SUFFICES others /\ bus /\ thread /\ (kept \/ restarted)
  BY PbThreadStep
<1>2. ASSUME NEW rate \in PbRates, PbOpenRate(rate) PROVE others /\ bus /\ thread /\ kept
  BY <1>1, <1>2 DEF PbOpenRate, PbBusFields
<1>3. CASE PbOpenEpoch
  BY <1>1, <1>3 DEF PbOpenEpoch, PbBusFields
<1>4. ASSUME NEW c \in PbConfigs, PbSetConfig(c) PROVE others /\ bus /\ thread /\ kept
  BY <1>1, <1>4 DEF PbSetConfig, PbBusFields
<1>5. CASE applyReferenceDelay
  BY <1>1, <1>5 DEF applyReferenceDelay, PbBusFields
<1>6. CASE rebuildAnalysersIfEpochChanged
  <2>1. others /\ bus
    BY <1>1, <1>6 DEF rebuildAnalysersIfEpochChanged
  <2>2. CASE pbThread' = [pbThread EXCEPT !.pc = "delay"]
    BY <1>1, <2>1, <2>2 DEF PbThreadFields
  <2>3. CASE pbThread' = [startRebuild(pbThread, pbThread.delay) EXCEPT !.lastEpoch = pbBus.epoch, !.pc = "delay"]
    <3> DEFINE t == startRebuild(pbThread, pbThread.delay)
    <3>1. DOMAIN t = PbThreadFields /\ t.next = 1 /\ t.builds = pbThread.builds + 1
      BY <1>1 DEF startRebuild, PbThreadFields
    <3> HIDE DEF t
    <3>2. pbThread' = [t EXCEPT !.lastEpoch = pbBus.epoch, !.pc = "delay"]
      BY <2>3 DEF t
    <3>3. thread /\ restarted
      BY <3>1, <3>2 DEF PbThreadFields
    <3> QED BY <2>1, <3>3
  <2> QED BY <1>6, <2>2, <2>3 DEF rebuildAnalysersIfEpochChanged
<1>7. CASE applyPendingReferenceDelay
  <2>1. others /\ bus
    BY <1>1, <1>7 DEF applyPendingReferenceDelay, PbBusFields
  <2>2. CASE pbThread' = [pbThread EXCEPT !.pc = "step"]
    BY <1>1, <2>1, <2>2 DEF PbThreadFields
  <2>3. CASE pbThread' = [startRebuild(pbThread, pbBus.delay) EXCEPT !.pc = "step"]
    <3> DEFINE t == startRebuild(pbThread, pbBus.delay)
    <3>1. DOMAIN t = PbThreadFields /\ t.next = 1 /\ t.builds = pbThread.builds + 1
      BY <1>1 DEF startRebuild, PbThreadFields
    <3> HIDE DEF t
    <3>2. pbThread' = [t EXCEPT !.pc = "step"]
      BY <2>3 DEF t
    <3>3. thread /\ restarted
      BY <3>1, <3>2 DEF PbThreadFields
    <3> QED BY <2>1, <3>3
  <2> QED BY <1>7, <2>2, <2>3 DEF applyPendingReferenceDelay
<1>8. CASE PbSkipPublish
  BY <1>1, <1>8 DEF PbSkipPublish, PbThreadFields
<1>9. CASE PbThrows
  BY <1>1, <1>9 DEF PbThrows, PbThreadFields
<1> HIDE DEF kept, restarted, others, bus, thread
<1> QED BY <1>2, <1>3, <1>4, <1>5, <1>6, <1>7, <1>8, <1>9

\* A snapshot that is older than a slot is older than that slot rebuilt later.
LEMMA OlderThanRebuilt ==
  ASSUME NEW s, NEW slot, NEW new, Older(s, slot), slot.build \in Nat, new.build \in Nat, slot.build < new.build
  PROVE  Older(s, new)
<1>1. s.build \in Nat /\ s.sequence \in Nat \ {0} /\ (s.build < slot.build \/ s.build = slot.build)
  BY DEF Older
<1>2. s.build < new.build
  <2> DEFINE p == s.build
             q == slot.build
             r == new.build
  <2>1. p \in Nat /\ q \in Nat /\ r \in Nat /\ q < r /\ (p < q \/ p = q)
    BY <1>1
  <2> HIDE DEF p, q, r
  <2>2. p < r
    BY <2>1
  <2> QED BY <2>2 DEF p, r
<1> QED BY <1>1, <1>2 DEF Older

\* One slot a tick.
LEMMA PbStep ==
  ASSUME PbIInv, stepRebuild
  PROVE  PbIInv'
<1> DEFINE next == pbThread.next
           new == NewAnalyser(pbThread.cfg, pbThread.builds)
<1>1. /\ DOMAIN pbBus = PbBusFields /\ pbBus.config \in PbConfigs /\ DOMAIN pbThread = PbThreadFields
      /\ PbSlots \in Nat \ {0} /\ next \in 1..(PbSlots + 1) /\ pbThread.builds \in Nat /\ DOMAIN pbSlot = 1..PbSlots
      /\ \A i \in 1..PbSlots : DOMAIN pbSlot[i] = PbSlotFields /\ pbSlot[i].sequence \in Nat /\ pbSlot[i].build \in Nat
  BY PbAssumption DEF PbIInv, PbTypes
<1>2. UNCHANGED <<pbBus, pbGroup, pbLatest, pbApi, pbClient>>
  BY DEF stepRebuild
<1>3. CASE /\ pbSlot' = pbSlot
           /\ \/ pbThread' = [pbThread EXCEPT !.pc = "drain"]
              \/ pbThread' = [pbThread EXCEPT !.fault = TRUE, !.pc = "drain"]
  <2>1. /\ DOMAIN pbThread' = PbThreadFields /\ pbThread'.next = pbThread.next /\ pbThread'.builds = pbThread.builds
        /\ pbThread'.cfg = pbThread.cfg
    BY <1>1, <1>3 DEF PbThreadFields
  <2>2. UNCHANGED <<pbSlot, pbGroup, pbLatest, pbApi, pbClient>> /\ DOMAIN pbBus' = PbBusFields /\ pbBus'.config \in PbConfigs
    BY <1>1, <1>2, <1>3
  <2> QED BY <2>1, <2>2, PbThreadStep
<1>4. CASE /\ Pending
           /\ pbSlot' = [pbSlot EXCEPT ![pbThread.next] = NewAnalyser(pbThread.cfg, pbThread.builds)]
           /\ pbThread' = [pbThread EXCEPT !.next = @ + 1, !.pc = "drain", !.fault = @ /\ pbThread.next < PbSlots]
  <2>1. /\ DOMAIN pbThread' = PbThreadFields /\ pbThread'.next = next + 1 /\ pbThread'.builds = pbThread.builds
        /\ pbThread'.cfg = pbThread.cfg
    BY <1>1, <1>4 DEF PbThreadFields
  <2>2. next \in 1..PbSlots
    BY <1>1, <1>4 DEF Pending
  <2>3. /\ DOMAIN new = PbSlotFields /\ new.sequence = 0 /\ new.build = pbThread.builds
        /\ new.cfg = pbThread.cfg
    BY DEF NewAnalyser, PbSlotFields
  <2>4. pbSlot' = [pbSlot EXCEPT ![next] = new]
    BY <1>4
  <2> HIDE DEF next, new
  <2>5. DOMAIN pbSlot' = 1..PbSlots /\ \A i \in 1..PbSlots : pbSlot'[i] = IF i = next THEN new ELSE pbSlot[i]
    BY <1>1, <2>2, <2>4
  <2>6. PbTypes'
    <3>1. pbThread'.next \in 1..(PbSlots + 1) /\ pbThread'.builds \in Nat
      BY <1>1, <2>1, <2>2
    <3>2. ASSUME NEW i \in 1..PbSlots
          PROVE  DOMAIN pbSlot'[i] = PbSlotFields /\ pbSlot'[i].sequence \in Nat /\ pbSlot'[i].build \in Nat
      <4>1. CASE i = next
        <5>1. pbSlot'[i] = new
          BY <2>5, <4>1
        <5>2. new.sequence \in Nat /\ new.build \in Nat
          BY <1>1, <2>3
        <5> QED BY <2>3, <5>1, <5>2
      <4>2. CASE i # next
        BY <1>1, <2>5, <4>2
      <4> QED BY <4>1, <4>2
    <3> QED BY <1>1, <1>2, <2>1, <2>5, <3>1, <3>2 DEF PbIInv, PbTypes
  <2>7. PbFreshSlots'
    <3>1. ASSUME NEW i \in 1..PbSlots, i < next + 1 PROVE pbSlot'[i].cfg = pbThread.cfg
      <4>1. CASE i = next
        BY <2>3, <2>5, <4>1
      <4>2. CASE i # next
        <5>1. i < pbThread.next
          BY <2>2, <3>1, <4>2 DEF next
        <5>2. pbSlot[i].cfg = pbThread.cfg
          BY <5>1 DEF PbIInv, PbFreshSlots, Fresh
        <5> QED BY <2>5, <4>2, <5>2
      <4> QED BY <4>1, <4>2
    <3> QED BY <2>1, <3>1 DEF PbFreshSlots, Fresh
  <2>8. PbSnapshots'
    <3>1. /\ pbSlot[1].build <= pbThread.builds /\ (1 < next \/ pbSlot[1].build < pbThread.builds)
          /\ \A s \in Range(pbLatest) \cup Range(pbClient.held) : Older(s, pbSlot[1])
      BY DEF PbIInv, PbSnapshots, Fresh, next
    <3>2. 1 \in 1..PbSlots /\ pbSlot[1].build \in Nat
      BY <1>1
    <3>3. 1 < pbThread'.next
      BY <2>1, <2>2
    <3>4. /\ pbSlot'[1].build <= pbThread'.builds
          /\ \A s \in Range(pbLatest) \cup Range(pbClient.held) : Older(s, pbSlot'[1])
      <4>1. CASE next = 1
        <5>1. pbSlot'[1] = new /\ pbSlot[1].build < pbThread.builds
          BY <2>5, <3>1, <3>2, <4>1
        <5>2. new.build \in Nat /\ pbSlot[1].build < new.build
          BY <1>1, <2>3, <5>1
        <5>3. \A s \in Range(pbLatest) \cup Range(pbClient.held) : Older(s, new)
          BY <3>1, <3>2, <5>2, OlderThanRebuilt
        <5>4. new.build <= pbThread'.builds
          BY <1>1, <2>1, <2>3
        <5> QED BY <5>1, <5>3, <5>4
      <4>2. CASE next # 1
        <5>1. pbSlot'[1] = pbSlot[1]
          BY <2>5, <3>2, <4>2
        <5> QED BY <2>1, <3>1, <5>1
      <4> QED BY <4>1, <4>2
    <3>5. \A s \in Range(pbLatest), t \in Range(pbClient.held) :
               s.build = t.build /\ s.sequence = t.sequence => s.id = t.id
      BY DEF PbIInv, PbSnapshots
    <3> QED BY <1>2, <3>3, <3>4, <3>5 DEF PbSnapshots, Fresh
  <2>9. GroupOK(pbGroup)' /\ PbWindowed(pbApi)' /\ PbSpaced(pbApi)'
    BY <1>2 DEF PbIInv
  <2>10. PbOneConfiguration' /\ PbPositionsAreRoutes' /\ ApiNotModified' /\ ApiRefusalIsEarned'
    BY <1>2 DEF PbIInv, PbOneConfiguration, PbPositionsAreRoutes, ApiNotModified, ApiRefusalIsEarned
  <2> QED BY <2>6, <2>7, <2>8, <2>9, <2>10 DEF PbIInv
<1> QED BY <1>3, <1>4 DEF stepRebuild

\* A fresh slot that is fed stays what it is.
LEMMA PbDrain ==
  ASSUME PbIInv, NEW refs, drain(refs)
  PROVE  PbIInv'
<1> DEFINE plan == planRouting(pbBus.config)
           fed == {i \in Capped(plan) : plan[i].ref \in refs /\ Fresh(i)}
<1>1. /\ DOMAIN pbThread = PbThreadFields /\ PbSlots \in Nat \ {0} /\ DOMAIN pbSlot = 1..PbSlots
      /\ \A i \in 1..PbSlots : DOMAIN pbSlot[i] = PbSlotFields /\ pbSlot[i].sequence \in Nat /\ pbSlot[i].build \in Nat
  BY PbAssumption DEF PbIInv, PbTypes
<1>2. /\ pbSlot' = [i \in DOMAIN pbSlot |-> IF i \in fed THEN [pbSlot[i] EXCEPT !.engaged = TRUE] ELSE pbSlot[i]]
      /\ pbThread' = [pbThread EXCEPT !.pc = "publish"]
      /\ UNCHANGED <<pbBus, pbGroup, pbLatest, pbApi, pbClient>>
  BY Zenon DEF drain
<1> HIDE DEF fed
<1>3. /\ DOMAIN pbThread' = PbThreadFields /\ pbThread'.next = pbThread.next /\ pbThread'.builds = pbThread.builds
      /\ pbThread'.cfg = pbThread.cfg
  BY <1>1, <1>2 DEF PbThreadFields
<1>4. DOMAIN pbSlot' = 1..PbSlots
  BY <1>1, <1>2
<1>5. ASSUME NEW i \in 1..PbSlots
      PROVE  /\ DOMAIN pbSlot'[i] = PbSlotFields /\ pbSlot'[i].sequence = pbSlot[i].sequence
             /\ pbSlot'[i].build = pbSlot[i].build /\ pbSlot'[i].cfg = pbSlot[i].cfg
  <2>1. DOMAIN pbSlot[i] = PbSlotFields
    BY <1>1
  <2>2. CASE pbSlot'[i] = pbSlot[i]
    BY <2>1, <2>2
  <2>3. CASE pbSlot'[i] = [pbSlot[i] EXCEPT !.engaged = TRUE]
    BY <2>1, <2>3 DEF PbSlotFields
  <2> QED BY <1>1, <1>2, <2>2, <2>3
<1>6. PbTypes'
  <2>1. \A i \in 1..PbSlots : DOMAIN pbSlot'[i] = PbSlotFields /\ pbSlot'[i].sequence \in Nat /\ pbSlot'[i].build \in Nat
    BY <1>1, <1>5
  <2> QED BY <1>2, <1>3, <1>4, <2>1 DEF PbIInv, PbTypes
<1>7. PbFreshSlots'
  BY <1>3, <1>5 DEF PbIInv, PbFreshSlots, Fresh
<1>8. PbSnapshots'
  <2>1. pbSlot'[1].build = pbSlot[1].build /\ pbSlot'[1].sequence = pbSlot[1].sequence
    BY <1>1, <1>5
  <2>2. \A s : Older(s, pbSlot[1]) <=> Older(s, pbSlot'[1])
    BY <2>1 DEF Older
  <2> QED BY <1>2, <1>3, <2>1, <2>2 DEF PbIInv, PbSnapshots, Fresh
<1>9. GroupOK(pbGroup)' /\ PbWindowed(pbApi)' /\ PbSpaced(pbApi)'
  BY <1>2 DEF PbIInv
<1>10. PbOneConfiguration' /\ PbPositionsAreRoutes' /\ ApiNotModified' /\ ApiRefusalIsEarned'
  BY <1>2 DEF PbIInv, PbOneConfiguration, PbPositionsAreRoutes, ApiNotModified, ApiRefusalIsEarned
<1> QED BY <1>6, <1>7, <1>8, <1>9, <1>10 DEF PbIInv

\* The larger of 1 and a natural.
LEMMA MaxOfTwo ==
  ASSUME NEW m \in Nat
  PROVE  1 <= Max({1, m}) /\ m <= Max({1, m}) /\ Max({1, m}) \in Nat
<1>1. \E x \in {1, m} : \A y \in {1, m} : x >= y
  <2>1. CASE m >= 1
    BY <2>1
  <2>2. CASE ~(m >= 1)
    BY <2>2
  <2> QED BY <2>1, <2>2
<1> DEFINE x == Max({1, m})
<1>2. x \in {1, m} /\ \A y \in {1, m} : x >= y
  BY <1>1 DEF Max
<1> HIDE DEF x
<1>3. 1 <= x /\ m <= x /\ x \in Nat
  BY <1>2
<1> QED BY <1>3 DEF x

\* One snapshot, of the slots that are fresh and of a group in step with the routes.
LEMMA PbPublish ==
  ASSUME PbIInv, publishIfDue
  PROVE  PbIInv'
<1> DEFINE plan == planRouting(pbBus.config)
           sync == syncAverageGroupMembership(pbGroup, plan)
           s == buildPublishedSnapshot(plan, sync)
           cfg == pbThread.cfg
<1>1. /\ pbBus.config \in PbConfigs /\ DOMAIN pbThread = PbThreadFields /\ PbSlots \in Nat \ {0} /\ DOMAIN pbSlot = 1..PbSlots
      /\ \A i \in 1..PbSlots : DOMAIN pbSlot[i] = PbSlotFields /\ pbSlot[i].sequence \in Nat /\ pbSlot[i].build \in Nat
  BY PbAssumption DEF PbIInv, PbTypes
<1>2. /\ ReadSlotsFresh(plan) /\ pbLatest' = <<s>> /\ pbSlot' = [pbSlot EXCEPT ![1].sequence = @ + 1]
      /\ pbGroup' = sync.group /\ pbThread' = [pbThread EXCEPT !.pc = "epoch"]
      /\ UNCHANGED <<pbBus, pbApi, pbClient>>
  BY Zenon DEF publishIfDue
<1>3. PICK n \in Nat : IsList(plan, n)
  BY <1>1, PlanIs
<1>4. GroupOK(pbGroup)
  BY DEF PbIInv
<1>5. InStep(plan, sync.group, sync.indices)
  BY <1>3, <1>4, SyncIs
<1>6. /\ Len(mergeRoutePositions(plan, sync.indices, sync.group.members)) = Len(plan)
      /\ \A i \in DOMAIN plan :
            /\ mergeRoutePositions(plan, sync.indices, sync.group.members)[i].tf = plan[i].tf
            /\ mergeRoutePositions(plan, sync.indices, sync.group.members)[i].ref = plan[i].ref
            /\ (mergeRoutePositions(plan, sync.indices, sync.group.members)[i].membership = "Member") <=>
                   (i <= PbSlots /\ plan[i].ref = sync.group.members[1].ref)
  <2> HIDE DEF plan, sync
  <2> QED BY <1>3, <1>5, PositionsAre
<1>7. /\ s.build = pbSlot[1].build /\ s.sequence = pbSlot[1].sequence + 1 /\ s.plan = plan /\ s.group = sync.group
      /\ s.cfgs = {pbSlot[i].cfg : i \in {1} \cup Range(sync.indices)}
      /\ s.positions = mergeRoutePositions(plan, sync.indices, sync.group.members)
  <2> HIDE DEF plan, sync
  <2> QED BY DEF buildPublishedSnapshot
<1>8. PICK m \in Nat : /\ Capped(plan) = 1..m /\ m <= PbSlots /\ m = Min({Len(plan), PbSlots})
  <2> HIDE DEF plan
  <2> QED BY <1>3, CappedIs
<1> HIDE DEF plan, sync, s
<1>9. 1 < pbThread.next /\ (\A i \in 1..m : i < pbThread.next) /\ pbThread.next \in Nat
  <2>1. pbThread.next \in Nat
    BY <1>1 DEF PbIInv, PbTypes
  <2>2. pbThread.next > Max({1, m})
    BY <1>2, <1>8 DEF ReadSlotsFresh
  <2> QED BY <2>1, <2>2, MaxOfTwo
<1>10. \A i \in {1} \cup Range(sync.indices) : pbSlot[i].cfg = cfg
  <2>1. ASSUME NEW k \in DOMAIN sync.indices PROVE sync.indices[k] \in 1..m
    <3>1. k \in 1..Len(sync.group.last)
      BY <1>5 DEF InStep, IsList
    <3> QED BY <1>5, <1>8, <3>1 DEF InStep
  <2>2. \A i \in {1} \cup Range(sync.indices) : i \in 1..PbSlots /\ i < pbThread.next
    <3>1. 1 \in 1..PbSlots
      BY <1>1
    <3>2. ASSUME NEW i \in 1..m PROVE i \in 1..PbSlots /\ i < pbThread.next
      <4>1. i < pbThread.next
        BY <1>9
      <4>2. i \in 1..PbSlots
        BY <1>1, <1>8
      <4> QED BY <4>1, <4>2
    <3>3. \A i \in Range(sync.indices) : i \in 1..m
      BY <2>1 DEF Range
    <3> QED BY <1>9, <3>1, <3>2, <3>3
  <2> QED BY <2>2 DEF PbIInv, PbFreshSlots, Fresh
<1>11. s.cfgs = {cfg}
  BY <1>7, <1>10
<1> HIDE DEF cfg
<1>12. /\ DOMAIN pbThread' = PbThreadFields /\ pbThread'.next = pbThread.next /\ pbThread'.builds = pbThread.builds
       /\ pbThread'.cfg = pbThread.cfg
  BY <1>1, <1>2 DEF PbThreadFields
<1>13. /\ DOMAIN pbSlot' = 1..PbSlots /\ (\A i \in 1..PbSlots : i # 1 => pbSlot'[i] = pbSlot[i])
       /\ DOMAIN pbSlot'[1] = PbSlotFields /\ pbSlot'[1].sequence = pbSlot[1].sequence + 1
       /\ pbSlot'[1].build = pbSlot[1].build /\ pbSlot'[1].cfg = pbSlot[1].cfg
  <2> DEFINE one == [pbSlot[1] EXCEPT !.sequence = @ + 1]
  <2>1. 1 \in 1..PbSlots /\ DOMAIN pbSlot[1] = PbSlotFields
    BY <1>1
  <2>2. pbSlot' = [pbSlot EXCEPT ![1] = one]
    BY <1>2
  <2>3. /\ DOMAIN one = PbSlotFields /\ one.sequence = pbSlot[1].sequence + 1
        /\ one.build = pbSlot[1].build /\ one.cfg = pbSlot[1].cfg
    BY <2>1 DEF PbSlotFields
  <2> HIDE DEF one
  <2> QED BY <1>1, <2>1, <2>2, <2>3
<1>14. Range(pbLatest') = {s} /\ pbLatest'[1] = s /\ pbLatest' = <<pbLatest'[1]>>
  BY <1>2 DEF Range
<1>15. pbSlot[1].sequence \in Nat /\ pbSlot[1].build \in Nat /\ 1 \in 1..PbSlots
  BY <1>1
<1>16. PbTypes'
  <2>1. \A i \in 1..PbSlots : DOMAIN pbSlot'[i] = PbSlotFields /\ pbSlot'[i].sequence \in Nat /\ pbSlot'[i].build \in Nat
    <3>1. pbSlot'[1].sequence \in Nat /\ pbSlot'[1].build \in Nat
      BY <1>13, <1>15
    <3> QED BY <1>1, <1>13, <3>1
  <2> QED BY <1>2, <1>12, <1>13, <1>14, <2>1 DEF PbIInv, PbTypes, OneOrNone
<1>17. PbFreshSlots'
  <2>1. \A i \in 1..PbSlots : pbSlot'[i].cfg = pbSlot[i].cfg
    BY <1>13
  <2> QED BY <1>12, <2>1 DEF PbIInv, PbFreshSlots, Fresh
<1>18. PbSnapshots'
  <2>1. pbSlot'[1].build <= pbThread'.builds /\ 1 < pbThread'.next
    BY <1>9, <1>12, <1>13 DEF PbIInv, PbSnapshots
  <2>2. Older(s, pbSlot'[1])
    BY <1>7, <1>13, <1>15 DEF Older
  <2>3. ASSUME NEW t \in Range(pbClient.held)
        PROVE  Older(t, pbSlot'[1]) /\ ~(s.build = t.build /\ s.sequence = t.sequence)
    <3>1. Older(t, pbSlot[1])
      BY DEF PbIInv, PbSnapshots
    <3> DEFINE p == pbSlot[1].sequence
               q == t.sequence
    <3>2. q \in Nat /\ t.build \in Nat /\ q # 0 /\ (t.build < pbSlot[1].build \/ (t.build = pbSlot[1].build /\ q <= p))
      BY <3>1 DEF Older
    <3>3. p \in Nat /\ s.sequence = p + 1 /\ pbSlot'[1].sequence = p + 1
      BY <1>7, <1>13, <1>15
    <3> HIDE DEF p, q
    <3>4. q <= p => q <= p + 1 /\ q # p + 1
      BY <3>2, <3>3
    <3>5. t.build < pbSlot[1].build => t.build # pbSlot[1].build
      BY <1>15, <3>2
    <3>6. Older(t, pbSlot'[1])
      BY <1>13, <3>2, <3>3, <3>4 DEF Older, q
    <3>7. ~(s.build = t.build /\ s.sequence = q)
      BY <1>7, <3>2, <3>3, <3>4, <3>5
    <3> QED BY <3>6, <3>7 DEF q
  <2>4. pbClient' = pbClient
    BY <1>2
  <2> QED BY <1>14, <2>1, <2>2, <2>3, <2>4 DEF PbSnapshots, Fresh
<1>19. GroupOK(pbGroup)'
  BY <1>2, <1>5 DEF InStep
<1>20. PbWindowed(pbApi)' /\ PbSpaced(pbApi)' /\ ApiNotModified' /\ ApiRefusalIsEarned'
  <2>1. pbApi' = pbApi /\ pbClient' = pbClient
    BY <1>2
  <2> QED BY <2>1 DEF PbIInv, ApiNotModified, ApiRefusalIsEarned
<1>21. PbOneConfiguration'
  <2>1. Cardinality({cfg}) = 1
    BY FS_Singleton
  <2> QED BY <1>11, <1>14, <2>1 DEF PbOneConfiguration
<1>22. PbPositionsAreRoutes'
  <2>1. \A t \in Range(pbLatest') : t = s
    BY <1>14
  <2> QED BY <1>6, <1>7, <2>1 DEF PbPositionsAreRoutes
<1> QED BY <1>16, <1>17, <1>18, <1>19, <1>20, <1>21, <1>22 DEF PbIInv

\* Whatever a control refuses with, it is not 200.
LEMMA RefusalIs ==
  ASSUME NEW bad \in SUBSET {"host", "body"}, bad # {}
  PROVE  decidePreRoutingRefusal(bad) \notin {200, 429}
<1> DEFINE S == {i \in DOMAIN Controls : Controls[i] \in bad}
           k == Min(S)
<1>1. /\ DOMAIN Controls = 1..5 /\ Controls[1] = "hosts" /\ Controls[2] = "host" /\ Controls[3] = "method"
      /\ Controls[4] = "token" /\ Controls[5] = "body"
  BY DEF Controls
<1>2. S \in SUBSET Nat /\ S # {}
  <2>1. "host" \in bad \/ "body" \in bad
    OBVIOUS
  <2>2. 2 \in S \/ 5 \in S
    BY <1>1, <2>1
  <2>3. \A i \in S : i \in Nat
    BY <1>1
  <2> QED BY <2>2, <2>3
<1>3. k \in S
  <2> HIDE DEF S
  <2> QED BY <1>2, MinNat
<1>4. decidePreRoutingRefusal(bad) = StatusOf(Controls[k])
  BY Zenon DEF decidePreRoutingRefusal
<1> HIDE DEF k
<1>5. k \in 1..5
  BY <1>1, <1>3
<1>6. Controls[k] \in {"hosts", "host", "method", "token", "body"}
  BY <1>1, <1>5
<1>7. \A c \in {"hosts", "host", "method", "token", "body"} : StatusOf(c) \notin {200, 429}
  BY DEF StatusOf
<1> QED BY <1>4, <1>6, <1>7

\* What becomes of a request: a control or OPTIONS leaves the limiter, 429 and 200 are its answers.
LEMMA PreRouteIs ==
  ASSUME NEW r \in Requests
  PROVE  LET a == admit(pbApi.admissions, pbApi.now)
             p == preRoute(r)
         IN  \/ p.status \notin {200, 429} /\ p.admissions = pbApi.admissions
             \/ p.status = 429 /\ p.admissions = a.kept /\ ~a.ok
             \/ p.status = 200 /\ p.admissions = Append(a.kept, pbApi.now) /\ a.ok
<1> DEFINE a == admit(pbApi.admissions, pbApi.now)
           p == preRoute(r)
           x == pbApi.now
<1>1. \/ p.status \notin {200, 429} /\ p.admissions = pbApi.admissions
      \/ p.status = 429 /\ p.admissions = a.kept /\ ~a.ok
      \/ p.status = 200 /\ p.admissions = Append(a.kept, x) /\ a.ok
  <2>1. r.bad \in SUBSET {"host", "body"} /\ r.options \in BOOLEAN
    BY DEF Requests
  <2>2. CASE r.bad # {}
    <3>1. p = [status |-> decidePreRoutingRefusal(r.bad), admissions |-> pbApi.admissions]
      BY <2>2, Zenon DEF preRoute
    <3>2. decidePreRoutingRefusal(r.bad) \notin {200, 429}
      BY <2>1, <2>2, RefusalIs
    <3> HIDE DEF p
    <3> QED BY <3>1, <3>2
  <2>3. CASE r.bad = {} /\ r.options
    <3>1. p = [status |-> 204, admissions |-> pbApi.admissions]
      BY <2>3 DEF preRoute
    <3> HIDE DEF p
    <3> QED BY <3>1
  <2>4. CASE r.bad = {} /\ ~r.options /\ ~a.ok
    <3>1. p = [status |-> 429, admissions |-> a.kept]
      BY <2>4 DEF preRoute
    <3> HIDE DEF p, a
    <3> QED BY <2>4, <3>1
  <2>5. CASE r.bad = {} /\ ~r.options /\ a.ok
    <3>1. p = [status |-> 200, admissions |-> Append(a.kept, x)]
      BY <2>5 DEF preRoute
    <3> HIDE DEF p, a, x
    <3> QED BY <2>5, <3>1
  <2> QED BY <2>1, <2>2, <2>3, <2>4, <2>5
<1> QED BY <1>1, Zenon

\* A request leaves the limiter's promise as it is, admitted or not.
LEMMA PbAdmission ==
  ASSUME PbIInv, NEW r \in Requests, ApiRequest(r)
  PROVE  ApiTypes(pbApi') /\ PbWindowed(pbApi)' /\ PbSpaced(pbApi)' /\ DOMAIN pbApi' = {"admissions", "now", "log"}
<1> DEFINE a == admit(pbApi.admissions, pbApi.now)
           p == preRoute(r)
           x == pbApi.now
<1>1. ApiTypes(pbApi) /\ PbWindowed(pbApi) /\ PbSpaced(pbApi) /\ DOMAIN pbApi = {"admissions", "now", "log"}
  BY DEF PbIInv, PbTypes, ApiTypes
<1>2. pbApi' = [pbApi EXCEPT !.admissions = p.admissions, !.log = IF p.status = 200 THEN Append(@, pbApi.now) ELSE @]
  BY Zenon DEF ApiRequest
<1>3. \/ p.status # 200 /\ p.admissions = pbApi.admissions
      \/ p.status # 200 /\ p.admissions = a.kept
      \/ p.status = 200 /\ p.admissions = Append(a.kept, x) /\ a.ok
  <2>1. \/ p.status \notin {200, 429} /\ p.admissions = pbApi.admissions
        \/ p.status = 429 /\ p.admissions = a.kept /\ ~a.ok
        \/ p.status = 200 /\ p.admissions = Append(a.kept, x) /\ a.ok
    BY PreRouteIs, Zenon
  <2> HIDE DEF p, a, x
  <2> QED BY <2>1
<1> HIDE DEF p, a
<1>4. /\ DOMAIN pbApi' = {"admissions", "now", "log"} /\ pbApi'.now = pbApi.now /\ pbApi'.admissions = p.admissions
      /\ pbApi'.log = IF p.status = 200 THEN Append(pbApi.log, pbApi.now) ELSE pbApi.log
  BY <1>1, <1>2
<1>5. pbApi.admissions \in Seq(Nat) /\ pbApi.now \in Nat /\ pbApi.log \in Seq(Nat)
  BY <1>1 DEF ApiTypes
<1>6. PICK d \in 0..Len(pbApi.admissions) :
         /\ a.kept \in Seq(Nat) /\ Len(a.kept) = Len(pbApi.admissions) - d
         /\ (\A k \in 1..(Len(pbApi.admissions) - d) : a.kept[k] = pbApi.admissions[d + k])
         /\ (\A k \in 1..d : pbApi.now - pbApi.admissions[k] >= PbWindow)
         /\ a.ok = (PbRate > 0 /\ Len(a.kept) < PbRate)
  BY <1>5, AdmitIs DEF a
<1> DEFINE kept == a.kept
           off == Len(pbApi.log) - Len(kept)
<1>7. /\ off \in Nat /\ Len(kept) <= PbRate
      /\ \A k \in DOMAIN kept : kept[k] = pbApi.log[off + k]
      /\ \A i \in 1..off : pbApi.now - pbApi.log[i] >= PbWindow
  BY <1>1, <1>6, KeptIsWindowed
<1>8. CASE p.status # 200 /\ p.admissions = pbApi.admissions
  <2>1. pbApi'.now = pbApi.now /\ pbApi'.admissions = pbApi.admissions /\ pbApi'.log = pbApi.log
    BY <1>4, <1>8
  <2>2. ApiTypes(pbApi')
    BY <1>1, <2>1 DEF ApiTypes
  <2>3. PbWindowed(pbApi)' /\ PbSpaced(pbApi)'
    BY <1>1, <2>1 DEF PbWindowed, PbSpaced, Dropped
  <2> QED BY <1>4, <2>2, <2>3
<1>9. CASE p.status # 200 /\ p.admissions = a.kept
  <2>1. pbApi'.now = pbApi.now /\ pbApi'.admissions = kept /\ pbApi'.log = pbApi.log
    BY <1>4, <1>9
  <2>2. ApiTypes(pbApi')
    BY <1>5, <1>6, <2>1 DEF ApiTypes
  <2>3. Dropped(pbApi') = off
    BY <2>1 DEF Dropped
  <2>4. PbWindowed(pbApi)'
    <3> HIDE DEF off
    <3> QED BY <1>7, <2>1, <2>3 DEF PbWindowed
  <2>5. PbSpaced(pbApi)'
    BY <1>1, <2>1 DEF PbSpaced
  <2> QED BY <1>4, <2>2, <2>4, <2>5
<1>10. CASE p.status = 200 /\ p.admissions = Append(a.kept, x) /\ a.ok
  <2>1. /\ pbApi'.now = pbApi.now /\ pbApi'.admissions = Append(kept, pbApi.now)
        /\ pbApi'.log = Append(pbApi.log, pbApi.now)
    BY <1>4, <1>10
  <2>2. Len(kept) < PbRate /\ kept \in Seq(Nat)
    BY <1>6, <1>10
  <2>3. \E o \in Nat : /\ o = Len(pbApi.log) - Len(kept)
                       /\ \A k \in DOMAIN kept : kept[k] = pbApi.log[o + k]
                       /\ \A i \in 1..o : pbApi.now - pbApi.log[i] >= PbWindow
    BY <1>7
  <2>4. PICK o \in Nat : /\ o = Len(pbApi.log) - Len(kept)
                         /\ \A k \in DOMAIN kept : kept[k] = pbApi.log[o + k]
                         /\ \A i \in 1..o : pbApi.now - pbApi.log[i] >= PbWindow
    BY <2>3
  <2> HIDE DEF kept, off
  <2>5. ApiTypes(pbApi') /\ PbWindowed(pbApi') /\ PbSpaced(pbApi')
    BY <1>1, <2>1, <2>2, <2>4, AdmittedIs
  <2> QED BY <1>4, <2>5
<1> QED BY <1>3, <1>8, <1>9, <1>10

\* 304 goes to a client whose sequence is that of the latest.
LEMMA PbServe ==
  ASSUME PbIInv, NEW r
  PROVE  LET c == serve(r)
         IN  /\ DOMAIN c = {"held", "answer", "at", "matched"} /\ (c.held = pbClient.held \/ c.held = pbLatest)
             /\ c.answer # 429
             /\ \/ c.matched = <<>>
                \/ /\ c.held = pbClient.held /\ c.matched = <<pbLatest[1]>> /\ pbLatest # <<>> /\ pbClient.held # <<>>
                   /\ pbClient.held[1].sequence = pbLatest[1].sequence
<1> DEFINE etag == IF Held(r, "etag") > 0 THEN <<etagFor(Held(r, "etag"))>> ELSE <<>>
           since == IF Held(r, "since") > 0 THEN <<Held(r, "since")>> ELSE <<>>
           seq == pbLatest[1].sequence
           c == serve(r)
<1>1. DOMAIN pbClient = {"held", "answer", "at", "matched"}
  BY DEF PbIInv, PbTypes
<1>2. \A form \in {"etag", "since"} : Held(r, form) > 0 =>
         pbClient.held # <<>> /\ Held(r, form) = pbClient.held[1].sequence
  BY DEF Held
<1>3. CASE pbLatest = <<>>
  <2>1. c = [pbClient EXCEPT !.answer = 503, !.at = 0, !.matched = <<>>]
    BY <1>3, Zenon DEF serve
  <2> HIDE DEF c
  <2>2. DOMAIN c = {"held", "answer", "at", "matched"} /\ c.held = pbClient.held /\ c.matched = <<>> /\ c.answer # 429
    BY <1>1, <2>1
  <2> QED BY <2>2 DEF c
<1>4. CASE pbLatest # <<>> /\ conditionalVerdict(etag, since, seq)
  <2>1. c = [pbClient EXCEPT !.answer = 304, !.at = 0, !.matched = <<pbLatest[1]>>]
    BY <1>4, Zenon DEF serve
  <2> HIDE DEF c
  <2>2. DOMAIN c = {"held", "answer", "at", "matched"} /\ c.held = pbClient.held /\ c.matched = <<pbLatest[1]>> /\ c.answer # 429
    BY <1>1, <2>1
  <2>3. pbClient.held # <<>> /\ pbClient.held[1].sequence = seq
    <3>1. CASE etag # <<>>
      <4>1. Held(r, "etag") > 0
        BY <3>1
      <4>2. etag[1] = etagFor(Held(r, "etag"))
        BY <4>1
      <4>3. etag[1].any \/ etag[1] = etagFor(seq)
        <5> HIDE DEF etag, since, seq
        <5> QED BY <1>4, <3>1 DEF conditionalVerdict
      <4> HIDE DEF etag
      <4>4. etagFor(Held(r, "etag")).sequence = seq
        BY <4>2, <4>3 DEF etagFor
      <4>5. Held(r, "etag") = seq
        BY <4>4 DEF etagFor
      <4> QED BY <1>2, <4>1, <4>5
    <3>2. CASE etag = <<>>
      <4>1. since # <<>> /\ since[1] = seq
        <5> HIDE DEF etag, since, seq
        <5> QED BY <1>4, <3>2 DEF conditionalVerdict
      <4>2. Held(r, "since") > 0 /\ Held(r, "since") = seq
        BY <4>1
      <4> QED BY <1>2, <4>2
    <3> QED BY <3>1, <3>2
  <2> QED BY <1>4, <2>2, <2>3 DEF c
<1>5. CASE pbLatest # <<>> /\ ~conditionalVerdict(etag, since, seq)
  <2>1. c = [pbClient EXCEPT !.answer = 200, !.at = 0, !.held = pbLatest, !.matched = <<>>]
    BY <1>5, Zenon DEF serve
  <2> HIDE DEF c
  <2>2. DOMAIN c = {"held", "answer", "at", "matched"} /\ c.held = pbLatest /\ c.matched = <<>> /\ c.answer # 429
    BY <1>1, <2>1
  <2> QED BY <2>2 DEF c
<1> QED BY <1>3, <1>4, <1>5

\* 429 is told when PbRate requests are in the window, the first of them inside it.
LEMMA PbRefusal ==
  ASSUME PbIInv, NEW r \in Requests, ApiRequest(r)
  PROVE  ApiRefusalIsEarned'
<1> DEFINE a == admit(pbApi.admissions, pbApi.now)
           p == preRoute(r)
           n == Len(pbApi.log)
<1>1. ApiTypes(pbApi) /\ PbWindowed(pbApi) /\ DOMAIN pbClient = {"held", "answer", "at", "matched"}
  BY DEF PbIInv, PbTypes, ApiTypes
<1>2. /\ pbApi' = [pbApi EXCEPT !.admissions = p.admissions, !.log = IF p.status = 200 THEN Append(@, pbApi.now) ELSE @]
      /\ pbClient' = IF p.status = 200 THEN serve(r)
                     ELSE [pbClient EXCEPT !.answer = p.status, !.matched = <<>>,
                                           !.at = IF p.status = 429 THEN pbApi.now ELSE 0]
  BY Zenon DEF ApiRequest
<1>3. CASE p.status = 200
  <2>1. pbClient'.answer # 429
    BY <1>2, <1>3, PbServe
  <2> QED BY <2>1 DEF ApiRefusalIsEarned
<1> HIDE DEF p
<1>4. CASE p.status \notin {200, 429}
  <2>1. pbClient'.answer # 429
    BY <1>1, <1>2, <1>4
  <2> QED BY <2>1 DEF ApiRefusalIsEarned
<1>5. ASSUME p.status = 429, ~a.ok, PbRate > 0
      PROVE  n >= PbRate /\ pbApi.now - pbApi.log[n - PbRate + 1] < PbWindow
  <2>1. pbApi.admissions \in Seq(Nat) /\ pbApi.now \in Nat /\ n \in Nat /\ PbRate \in Nat
    BY <1>1, PbAssumption DEF ApiTypes
  <2> HIDE DEF a
  <2>2. PICK d \in 0..Len(pbApi.admissions) :
           /\ a.kept \in Seq(Nat) /\ Len(a.kept) = Len(pbApi.admissions) - d
           /\ (\A k \in 1..(Len(pbApi.admissions) - d) : a.kept[k] = pbApi.admissions[d + k])
           /\ (\A k \in 1..d : pbApi.now - pbApi.admissions[k] >= PbWindow)
           /\ (d < Len(pbApi.admissions) => pbApi.now - pbApi.admissions[d + 1] < PbWindow)
           /\ a.ok = (PbRate > 0 /\ Len(a.kept) < PbRate)
    BY <2>1, AdmitIs DEF a
  <2> DEFINE kept == a.kept
             K == Len(kept)
  <2>3. /\ n - K \in Nat /\ K <= PbRate
        /\ \A k \in DOMAIN kept : kept[k] = pbApi.log[(n - K) + k]
    BY <1>1, <2>2, KeptIsWindowed
  <2>4. K \in Nat /\ DOMAIN kept = 1..K
    BY <2>2
  <2>5. K = PbRate
    <3>1. ~(K < PbRate)
      BY <1>5, <2>2
    <3> HIDE DEF K
    <3> QED BY <2>1, <2>3, <2>4, <3>1
  <2>6. d < Len(pbApi.admissions) /\ kept[1] = pbApi.admissions[d + 1]
    <3> DEFINE A == Len(pbApi.admissions)
    <3>1. A \in Nat /\ d \in 0..A /\ K = A - d /\ \A k \in 1..(A - d) : kept[k] = pbApi.admissions[d + k]
      BY <2>1, <2>2
    <3> HIDE DEF A, K, kept
    <3>2. d < A /\ 1 \in 1..(A - d)
      BY <1>5, <2>1, <2>5, <3>1
    <3> QED BY <3>1, <3>2 DEF A
  <2>7. kept[1] = pbApi.log[(n - K) + 1] /\ pbApi.now - kept[1] < PbWindow
    <3> HIDE DEF K, kept
    <3>1. 1 \in DOMAIN kept
      BY <1>5, <2>1, <2>4, <2>5
    <3> QED BY <2>2, <2>3, <2>6, <3>1
  <2>8. n >= PbRate
    <3> HIDE DEF K, n
    <3> QED BY <2>1, <2>3, <2>5
  <2> HIDE DEF K, n, kept
  <2> QED BY <2>5, <2>7, <2>8
<1>6. CASE p.status = 429 /\ ~a.ok
  <2> HIDE DEF a
  <2>1. pbApi'.log = pbApi.log /\ pbClient'.at = pbApi.now
    <3>1. DOMAIN pbApi = {"admissions", "now", "log"}
      BY DEF PbIInv, PbTypes
    <3> QED BY <1>1, <1>2, <1>6, <3>1
  <2>2. PbRate > 0 => n >= PbRate /\ pbApi.now - pbApi.log[n - PbRate + 1] < PbWindow
    BY <1>5, <1>6
  <2> QED BY <2>1, <2>2 DEF ApiRefusalIsEarned
<1> HIDE DEF a
<1>7. p.status \notin {200, 429} \/ (p.status = 429 /\ ~a.ok) \/ p.status = 200
  <2>1. \/ p.status \notin {200, 429} /\ p.admissions = pbApi.admissions
        \/ p.status = 429 /\ p.admissions = a.kept /\ ~a.ok
        \/ p.status = 200 /\ p.admissions = Append(a.kept, pbApi.now) /\ a.ok
    BY PreRouteIs, Zenon DEF a, p
  <2> QED BY <2>1, Zenon
<1> QED BY <1>3, <1>4, <1>6, <1>7

\* A request is answered from the latest snapshot.
LEMMA PbRequest ==
  ASSUME PbIInv, NEW r \in Requests, ApiRequest(r)
  PROVE  PbIInv'
<1> DEFINE p == preRoute(r)
           refused == [pbClient EXCEPT !.answer = p.status, !.matched = <<>>, !.at = IF p.status = 429 THEN pbApi.now ELSE 0]
<1>1. /\ UNCHANGED <<pbBus, pbThread, pbSlot, pbGroup, pbLatest>>
      /\ pbClient' = IF p.status = 200 THEN serve(r) ELSE refused
  BY Zenon DEF ApiRequest
<1>2. ApiTypes(pbApi') /\ PbWindowed(pbApi)' /\ PbSpaced(pbApi)' /\ DOMAIN pbApi' = {"admissions", "now", "log"}
  BY PbAdmission
<1>3. DOMAIN pbClient = {"held", "answer", "at", "matched"} /\ OneOrNone(pbClient.held) /\ OneOrNone(pbLatest)
  BY DEF PbIInv, PbTypes
<1> HIDE DEF p
<1>4. /\ DOMAIN pbClient' = {"held", "answer", "at", "matched"} /\ (pbClient'.held = pbClient.held \/ pbClient'.held = pbLatest)
      /\ \/ pbClient'.matched = <<>>
         \/ /\ pbClient'.held = pbClient.held /\ pbClient'.matched = <<pbLatest[1]>> /\ pbLatest # <<>> /\ pbClient.held # <<>>
            /\ pbClient.held[1].sequence = pbLatest[1].sequence
  <2>1. CASE p.status = 200
    <3> DEFINE c == serve(r)
    <3>1. /\ DOMAIN c = {"held", "answer", "at", "matched"} /\ (c.held = pbClient.held \/ c.held = pbLatest)
          /\ \/ c.matched = <<>>
             \/ /\ c.held = pbClient.held /\ c.matched = <<pbLatest[1]>> /\ pbLatest # <<>> /\ pbClient.held # <<>>
                /\ pbClient.held[1].sequence = pbLatest[1].sequence
      BY PbServe
    <3>2. pbClient' = c
      BY <1>1, <2>1
    <3> HIDE DEF c
    <3> QED BY <3>1, <3>2
  <2>2. CASE p.status # 200
    <3>1. pbClient' = refused
      BY <1>1, <2>2
    <3>2. DOMAIN pbClient' = {"held", "answer", "at", "matched"} /\ pbClient'.held = pbClient.held /\ pbClient'.matched = <<>>
      BY <1>3, <3>1
    <3> QED BY <3>2
  <2> QED BY <2>1, <2>2
<1>5. \A x : OneOrNone(x) => (x # <<>> => Range(x) = {x[1]} /\ x[1] \in Range(x)) /\ (x = <<>> => Range(x) = {})
  <2>1. ASSUME NEW x, x = <<x[1]>> PROVE Range(x) = {x[1]}
    <3> DEFINE y == x[1]
    <3> HIDE DEF y
    <3>1. x = <<y>>
      BY <2>1 DEF y
    <3>2. Range(<<y>>) = {y}
      BY DEF Range
    <3> QED BY <3>1, <3>2 DEF y
  <2>2. Range(<<>>) = {}
    BY DEF Range
  <2> QED BY <2>1, <2>2 DEF OneOrNone
<1>6. PbTypes'
  <2>1. OneOrNone(pbClient'.held)
    BY <1>3, <1>4
  <2>2. OneOrNone(pbClient'.matched)
    <3>1. OneOrNone(<<>>)
      BY DEF OneOrNone
    <3>2. \A y : OneOrNone(<<y>>)
      BY DEF OneOrNone
    <3> QED BY <1>4, <3>1, <3>2
  <2> QED BY <1>1, <1>2, <1>4, <2>1, <2>2 DEF PbIInv, PbTypes, ApiTypes
<1>7. PbFreshSlots' /\ GroupOK(pbGroup)' /\ PbOneConfiguration' /\ PbPositionsAreRoutes'
  BY <1>1 DEF PbIInv, PbFreshSlots, Fresh, PbOneConfiguration, PbPositionsAreRoutes
<1>8. PbSnapshots'
  <2>1. /\ pbSlot[1].build <= pbThread.builds /\ (Fresh(1) \/ pbSlot[1].build < pbThread.builds)
        /\ \A s \in Range(pbLatest) \cup Range(pbClient.held) : Older(s, pbSlot[1])
        /\ \A s \in Range(pbLatest), t \in Range(pbClient.held) :
               s.build = t.build /\ s.sequence = t.sequence => s.id = t.id
    BY DEF PbIInv, PbSnapshots
  <2>2. \A s, t \in Range(pbLatest) : s = t
    BY <1>3, <1>5
  <2>3. \A s \in Range(pbLatest) \cup Range(pbClient'.held) : Older(s, pbSlot[1])
    BY <1>4, <2>1
  <2>4. \A s \in Range(pbLatest), t \in Range(pbClient'.held) :
            s.build = t.build /\ s.sequence = t.sequence => s.id = t.id
    BY <1>4, <2>1, <2>2
  <2> QED BY <1>1, <2>1, <2>3, <2>4 DEF PbSnapshots, Fresh
<1>9. ApiNotModified'
  <2>1. CASE pbClient'.matched = <<>>
    <3>1. Range(pbClient'.matched) = {}
      BY <2>1 DEF Range
    <3> QED BY <3>1 DEF ApiNotModified
  <2>2. CASE /\ pbClient'.held = pbClient.held /\ pbClient'.matched = <<pbLatest[1]>> /\ pbLatest # <<>> /\ pbClient.held # <<>>
             /\ pbClient.held[1].sequence = pbLatest[1].sequence
    <3> DEFINE s == pbLatest[1]
               t == pbClient.held[1]
    <3>1. s \in Range(pbLatest) /\ t \in Range(pbClient.held)
      BY <1>3, <1>5, <2>2
    <3>2. s.build = t.build /\ s.sequence = t.sequence => s.id = t.id
      BY <3>1 DEF PbIInv, PbSnapshots
    <3>3. s.id = t.id \/ s.build # t.build
      BY <2>2, <3>2
    <3>4. Range(pbClient'.matched) = {s} /\ pbClient'.held[1] = t
      <4> HIDE DEF s
      <4>1. Range(<<s>>) = {s}
        BY DEF Range
      <4>2. pbClient'.matched = <<s>>
        BY <2>2 DEF s
      <4> QED BY <2>2, <4>1, <4>2
    <3> HIDE DEF s, t
    <3> QED BY <3>3, <3>4 DEF ApiNotModified
  <2> QED BY <1>4, <2>1, <2>2
<1>10. ApiRefusalIsEarned'
  BY PbRefusal
<1> QED BY <1>2, <1>6, <1>7, <1>8, <1>9, <1>10 DEF PbIInv

\* Time only takes requests out of the window.
LEMMA PbTime ==
  ASSUME PbIInv, PbClock
  PROVE  PbIInv'
<1>1. /\ pbApi' = [pbApi EXCEPT !.now = @ + 1] /\ UNCHANGED <<pbBus, pbThread, pbSlot, pbGroup, pbLatest, pbClient>>
  BY DEF PbClock
<1>2. /\ DOMAIN pbApi = {"admissions", "now", "log"} /\ pbApi.now \in Nat /\ pbApi.log \in Seq(Nat) /\ PbWindow \in Nat
      /\ pbApi.admissions \in Seq(Nat) /\ \A i \in DOMAIN pbApi.log : pbApi.log[i] \in Nat
  <2>1. pbApi.log \in Seq(Nat)
    BY DEF PbIInv, PbTypes
  <2> QED BY <2>1, MemberOf, PbAssumption DEF PbIInv, PbTypes
<1>3. /\ DOMAIN pbApi' = {"admissions", "now", "log"} /\ pbApi'.now = pbApi.now + 1 /\ pbApi'.log = pbApi.log
      /\ pbApi'.admissions = pbApi.admissions
  BY <1>1, <1>2
<1>4. PbTypes'
  BY <1>1, <1>2, <1>3 DEF PbIInv, PbTypes
<1>5. PbWindowed(pbApi)'
  <2> DEFINE D == Dropped(pbApi)
  <2>1. Dropped(pbApi') = D
    BY <1>3 DEF Dropped
  <2>2. /\ D \in Nat /\ Len(pbApi.admissions) <= PbRate
        /\ \A k \in DOMAIN pbApi.admissions : pbApi.admissions[k] = pbApi.log[D + k]
        /\ \A i \in 1..D : pbApi.now - pbApi.log[i] >= PbWindow
    BY DEF PbIInv, PbWindowed
  <2>3. \A i \in 1..D : i \in DOMAIN pbApi.log
    <3>1. D = Len(pbApi.log) - Len(pbApi.admissions) /\ Len(pbApi.log) \in Nat /\ Len(pbApi.admissions) \in Nat
          /\ DOMAIN pbApi.log = 1..Len(pbApi.log)
      BY <1>2 DEF Dropped
    <3> HIDE DEF D
    <3> QED BY <2>2, <3>1
  <2> HIDE DEF D
  <2>4. ASSUME NEW i \in 1..D PROVE (pbApi.now + 1) - pbApi.log[i] >= PbWindow
    <3> DEFINE l == pbApi.log[i]
               now == pbApi.now
    <3>1. l \in Nat /\ now \in Nat /\ now - l >= PbWindow
      BY <1>2, <2>2, <2>3
    <3> HIDE DEF l, now
    <3>2. (now + 1) - l >= PbWindow
      BY <1>2, <3>1
    <3> QED BY <3>2 DEF l, now
  <2>5. \A i \in 1..D : pbApi'.now - pbApi'.log[i] >= PbWindow
    <3> DEFINE next == pbApi.now + 1
    <3>1. \A i \in 1..D : next - pbApi.log[i] >= PbWindow
      BY <2>4
    <3>2. pbApi'.now = next /\ pbApi'.log = pbApi.log
      BY <1>3
    <3> HIDE DEF next
    <3> QED BY <3>1, <3>2
  <2>6. \A k \in DOMAIN pbApi'.admissions : pbApi'.admissions[k] = pbApi'.log[D + k]
    BY <1>3, <2>2
  <2>7. Len(pbApi'.admissions) <= PbRate
    BY <1>3, <2>2
  <2> QED BY <2>1, <2>2, <2>5, <2>6, <2>7 DEF PbWindowed
<1>6. PbSpaced(pbApi)'
  <2>1. PbSpaced(pbApi)
    BY DEF PbIInv
  <2>2. \A i \in DOMAIN pbApi.log : pbApi.log[i] <= pbApi.now + 1
    BY <1>2, <2>1 DEF PbSpaced
  <2> QED BY <1>3, <2>1, <2>2 DEF PbSpaced
<1>7. /\ PbFreshSlots' /\ GroupOK(pbGroup)' /\ PbSnapshots' /\ PbOneConfiguration' /\ PbPositionsAreRoutes'
      /\ ApiNotModified'
  BY <1>1 DEF PbIInv, PbFreshSlots, Fresh, PbSnapshots, PbOneConfiguration, PbPositionsAreRoutes, ApiNotModified
<1>8. ApiRefusalIsEarned'
  BY <1>1, <1>3 DEF PbIInv, ApiRefusalIsEarned
<1> QED BY <1>4, <1>5, <1>6, <1>7, <1>8 DEF PbIInv

\* Everything is built, nothing is published.
LEMMA PbInitial ==
  ASSUME PbInit
  PROVE  PbIInv
<1>1. PICK config \in PbConfigs, b \in PbBounds :
         LET rate == Max(PbRates)
             cfg == [rate |-> rate, delay |-> 0]
         IN  /\ pbBus = [rate |-> rate, epoch |-> 1, config |-> config, opening |-> FALSE,
                         delay |-> 0, asked |-> FALSE]
             /\ pbThread = [pc |-> "epoch", lastEpoch |-> 1, delay |-> 0, cfg |-> cfg, next |-> PbSlots + 1,
                            builds |-> 1, fault |-> FALSE]
             /\ pbSlot = [i \in 1..PbSlots |-> NewAnalyser(cfg, 1)]
             /\ pbGroup = [members |-> <<>>, last |-> <<>>]
             /\ pbLatest = <<>>
             /\ pbApi = [admissions |-> <<>>, now |-> 0, log |-> <<>>]
             /\ pbClient = [held |-> <<>>, answer |-> 0, at |-> 0, matched |-> <<>>]
  BY Zenon DEF PbInit
<1> DEFINE cfg == [rate |-> Max(PbRates), delay |-> 0]
           new == NewAnalyser(cfg, 1)
<1>2. PbSlots \in Nat \ {0} /\ PbRate \in Nat
  BY PbAssumption
<1>3. DOMAIN pbBus = PbBusFields /\ pbBus.config \in PbConfigs
  BY <1>1 DEF PbBusFields
<1>4. /\ DOMAIN pbThread = PbThreadFields /\ pbThread.next = PbSlots + 1 /\ pbThread.builds = 1 /\ pbThread.cfg = cfg
  BY <1>1 DEF PbThreadFields
<1>5. DOMAIN pbSlot = 1..PbSlots /\ \A i \in 1..PbSlots : pbSlot[i] = new
  BY <1>1
<1>6. DOMAIN new = PbSlotFields /\ new.sequence = 0 /\ new.build = 1 /\ new.cfg = cfg
  BY DEF NewAnalyser, PbSlotFields
<1>7. /\ pbLatest = <<>> /\ DOMAIN pbApi = {"admissions", "now", "log"} /\ pbApi.now = 0 /\ pbApi.log = <<>>
      /\ pbApi.admissions = <<>> /\ DOMAIN pbClient = {"held", "answer", "at", "matched"} /\ pbClient.held = <<>>
      /\ pbClient.matched = <<>> /\ pbGroup.members = <<>> /\ pbGroup.last = <<>>
  BY <1>1
<1> HIDE DEF cfg, new
<1>8. /\ Len(<<>>) = 0 /\ DOMAIN <<>> = {} /\ 1..0 = {} /\ 0 \in Nat /\ 1 \in Nat /\ <<>> \in Seq(Nat)
      /\ <<>> \in Seq(Nat)
  OBVIOUS
<1>9. Range(<<>>) = {}
  BY <1>8 DEF Range
<1>10. PbTypes
  <2>1. pbThread.next \in 1..(PbSlots + 1) /\ pbThread.builds \in Nat
    BY <1>2, <1>4
  <2>2. \A i \in 1..PbSlots : DOMAIN pbSlot[i] = PbSlotFields /\ pbSlot[i].sequence \in Nat /\ pbSlot[i].build \in Nat
    BY <1>5, <1>6, <1>8
  <2> QED BY <1>3, <1>4, <1>5, <1>7, <1>8, <2>1, <2>2 DEF PbTypes, OneOrNone
<1>11. PbFreshSlots
  BY <1>4, <1>5, <1>6 DEF PbFreshSlots
<1>12. GroupOK(pbGroup)
  BY <1>7, <1>8 DEF GroupOK, IsList
<1>13. PbSnapshots
  <2>1. pbSlot[1].build = 1 /\ Fresh(1)
    BY <1>2, <1>4, <1>5, <1>6 DEF Fresh
  <2> QED BY <1>4, <1>7, <1>9, <2>1 DEF PbSnapshots
<1>14. PbWindowed(pbApi)
  <2>1. Dropped(pbApi) = 0
    BY <1>7, <1>8 DEF Dropped
  <2> QED BY <1>2, <1>7, <1>8, <2>1 DEF PbWindowed
<1>15. PbSpaced(pbApi)
  BY <1>7, <1>8 DEF PbSpaced
<1>16. PbOneConfiguration /\ PbPositionsAreRoutes /\ ApiNotModified
  BY <1>7, <1>9 DEF PbOneConfiguration, PbPositionsAreRoutes, ApiNotModified
<1>17. ApiRefusalIsEarned
  BY <1>1 DEF ApiRefusalIsEarned
<1> QED BY <1>10, <1>11, <1>12, <1>13, <1>14, <1>15, <1>16, <1>17 DEF PbIInv

\* The invariant gives every promise.
LEMMA PbImplies ==
  ASSUME PbIInv
  PROVE  PublishInv
<1>1. ApiTypes(pbApi) /\ PbSpaced(pbApi)
  BY DEF PbIInv, PbTypes, ApiTypes
<1>2. ApiHardBound
  <2>1. ASSUME NEW t \in 0..pbApi.now
        PROVE  Cardinality({i \in DOMAIN pbApi.log : pbApi.log[i] \in t..(t + PbWindow - 1)}) <= PbRate
    <3>1. t \in Nat
      BY <1>1 DEF ApiTypes
    <3> QED BY <1>1, <3>1, SpacedIsBounded
  <2> QED BY <2>1 DEF ApiHardBound
<1> QED BY <1>2 DEF PublishInv, PbIInv

\* Whatever devices, delays, routings and requests come, and whenever: a snapshot is of one configuration
\* and places its routes, a reader is told 304 only of what it holds, and no second admits more than the
\* limit (AnalysisPublish.cpp, AnalyserRebuild, ApiPolicy.cpp).
THEOREM PublishesOneConfiguration == PbSpec => []PublishInv
<1>1. PbInit => PbIInv
  BY PbInitial
<1>2. PbIInv /\ [PbNext]_pbVars => PbIInv'
  <2> SUFFICES ASSUME PbIInv, [PbNext]_pbVars PROVE PbIInv'
    OBVIOUS
  <2>1. CASE UNCHANGED pbVars
    <3>1. UNCHANGED <<pbSlot, pbGroup, pbLatest, pbApi, pbClient>> /\ pbBus' = pbBus /\ pbThread' = pbThread
      BY <2>1 DEF pbVars
    <3>2. DOMAIN pbBus = PbBusFields /\ pbBus.config \in PbConfigs /\ DOMAIN pbThread = PbThreadFields
      BY DEF PbIInv, PbTypes
    <3>3. /\ DOMAIN pbBus' = PbBusFields /\ pbBus'.config \in PbConfigs /\ DOMAIN pbThread' = PbThreadFields
          /\ pbThread'.next = pbThread.next /\ pbThread'.builds = pbThread.builds /\ pbThread'.cfg = pbThread.cfg
      BY <3>1, <3>2
    <3> QED BY <3>1, <3>3, PbThreadStep
  <2>2. ASSUME NEW refs, drain(refs) PROVE PbIInv'
    BY <2>2, PbDrain
  <2>3. ASSUME NEW r \in Requests, ApiRequest(r) PROVE PbIInv'
    BY <2>3, PbRequest
  <2>4. CASE stepRebuild
    BY <2>4, PbStep
  <2>5. CASE publishIfDue
    BY <2>5, PbPublish
  <2>6. CASE PbClock
    BY <2>6, PbTime
  <2>7. CASE \/ \E rate \in PbRates : PbOpenRate(rate)
             \/ PbOpenEpoch
             \/ \E c \in PbConfigs : PbSetConfig(c)
             \/ applyReferenceDelay \/ rebuildAnalysersIfEpochChanged \/ applyPendingReferenceDelay \/ PbSkipPublish
             \/ PbThrows
    BY <2>7, PbBusAndThread
  <2> QED BY <2>1, <2>2, <2>3, <2>4, <2>5, <2>6, <2>7 DEF PbNext, PbTick
<1>3. PbIInv => PublishInv
  BY PbImplies
<1> QED BY <1>1, <1>2, <1>3, PTL DEF PbSpec
=============================================================================
