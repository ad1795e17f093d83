-------------------------- MODULE IntegerTheorems ---------------------------
(***************************************************************************)
(* Arithmetic that several components need.  Quotients and remainders of    *)
(* integers, for counts that wrap and times aligned to a period; induction  *)
(* for the recursive functions of the model, stated over sets so that every *)
(* prover can use it; and bounds on sums, on what SumFunction of the        *)
(* community modules returns for a function over a finite domain and on     *)
(* sums accumulated slot by slot.                                           *)
(***************************************************************************)
EXTENDS Integers, Functions, FiniteSetTheorems, TLAPS

-----------------------------------------------------------------------------
(* Quotients and remainders.                                               *)

\* A quotient and remainder are the only ones.
LEMMA MultiplesApart ==
  ASSUME NEW m \in Nat \ {0}, NEW p \in Int, NEW q \in Int, p < q
  PROVE  m * p + m <= m * q
<1>1. q = p + 1 + (q - p - 1) /\ q - p - 1 \in Nat
  OBVIOUS
<1>2. PICK d \in Nat : q = p + 1 + d
  BY <1>1
<1>3. m * (p + 1 + d) = m * p + m + m * d /\ m * d \in Nat /\ m * p \in Int
  OBVIOUS
<1> QED
  BY <1>2, <1>3

LEMMA DivModUnique ==
  ASSUME NEW m \in Nat \ {0}, NEW z \in Int, NEW q \in Int, NEW r \in 0 .. m - 1,
         z = m * q + r
  PROVE  z \div m = q /\ z % m = r
<1> DEFINE p == z \div m
<1>1. p \in Int /\ z % m \in 0 .. m - 1 /\ z = m * p + (z % m)
  OBVIOUS
<1>2. m * p \in Int /\ m * q \in Int
  BY <1>1
<1> HIDE DEF p
<1>3. ~ (p < q)
  BY <1>1, <1>2, MultiplesApart
<1>4. ~ (q < p)
  BY <1>1, <1>2, MultiplesApart
<1>5. p = q
  BY <1>1, <1>3, <1>4
<1> QED
  BY <1>1, <1>2, <1>5 DEF p

\* The timer's reading when another wrap, or another few ticks, have passed.
LEMMA SameReading ==
  ASSUME NEW m \in Nat \ {0}, NEW a \in Int, NEW b \in Int, a % m = b % m, NEW d \in Int
  PROVE  (a + d) % m = (b + d) % m
<1> DEFINE k == (b \div m) - (a \div m)
           q == (a + d) \div m
           r == (a + d) % m
<1>1. a = m * (a \div m) + (a % m) /\ b = m * (b \div m) + (b % m)
  OBVIOUS
<1>2. k \in Int /\ m * k = m * (b \div m) - m * (a \div m)
  OBVIOUS
<1>3. b = a + m * k
  BY <1>1, <1>2
<1>4. q \in Int /\ r \in 0 .. m - 1 /\ a + d = m * q + r
  OBVIOUS
<1>5. m * (q + k) = m * q + m * k /\ m * q \in Int /\ m * k \in Int
  BY <1>2, <1>4
<1> HIDE DEF k, q, r
<1>6. b + d = m * (q + k) + r
  <2>1. b + d = a + d + m * k
    BY <1>2, <1>3, <1>5
  <2>2. b + d = m * q + r + m * k
    BY <1>4, <2>1
  <2> QED
    BY <1>4, <1>5, <2>2
<1>7. q + k \in Int /\ b + d \in Int
  BY <1>2, <1>4
<1>8. (b + d) % m = r
  BY <1>4, <1>6, <1>7, DivModUnique
<1> QED
  BY <1>8 DEF r

\* Of the counts within a wrap only one has a given reading.
LEMMA OneInAWrap ==
  ASSUME NEW m \in Nat \ {0}, NEW x \in Int, NEW y \in Int, x % m = y % m,
         x - y < m, y - x < m
  PROVE  x = y
<1> DEFINE p == x \div m
           q == y \div m
<1>1. p \in Int /\ q \in Int /\ x = m * p + (x % m) /\ y = m * q + (y % m)
      /\ x % m \in 0 .. m - 1
  OBVIOUS
<1>2. m * p \in Int /\ m * q \in Int
  BY <1>1
<1> HIDE DEF p, q
<1>3. ~ (p < q)
  BY <1>1, <1>2, MultiplesApart
<1>4. ~ (q < p)
  BY <1>1, <1>2, MultiplesApart
<1> QED
  BY <1>1, <1>3, <1>4

\* A multiple leaves nothing, and neither does the next one.
LEMMA MultipleLeavesNothing ==
  ASSUME NEW m \in Nat \ {0}, NEW q \in Int
  PROVE  (m * q) % m = 0
<1> DEFINE z == m * q
           r == 0
<1>1. z \in Int /\ r \in 0 .. m - 1 /\ z = m * q + r
  OBVIOUS
<1> HIDE DEF z, r
<1>2. z % m = r
  BY <1>1, DivModUnique
<1> QED
  BY <1>2 DEF z, r

LEMMA NextMultiple ==
  ASSUME NEW m \in Nat \ {0}, NEW t \in Int, t % m = 0
  PROVE  (t + m) % m = 0
<1> DEFINE q == t \div m
<1>1. q \in Int /\ t = m * q + (t % m)
  OBVIOUS
<1>2. m * (q + 1) = m * q + m /\ m * q \in Int
  BY <1>1
<1> HIDE DEF q
<1>3. t + m = m * (q + 1) /\ q + 1 \in Int
  BY <1>1, <1>2
<1> QED
  BY <1>3, MultipleLeavesNothing

-----------------------------------------------------------------------------
(* Least elements, which stand for induction.                              *)

\* Among subsets of a finite set there is one that has no other below it.
LEMMA MinimalSubset ==
  ASSUME NEW S, IsFiniteSet(S), NEW T, T \subseteq SUBSET S, T # {}
  PROVE  \E x \in T : \A y \in T : y \subseteq x => y = x
<1>1. IsWellFoundedOn(StrictSubsetOrdering(S), SUBSET S)
  BY FS_StrictSubsetOrderingWellFounded, FS_FiniteSubsetsOfFinite
<1>2. PICK x \in T : \A y \in T : ~ (<<y, x>> \in StrictSubsetOrdering(S))
  BY <1>1, WFMin
<1> QED
  BY <1>2 DEF StrictSubsetOrdering

\* A set of naturals has a least element.
LEMMA LeastElement ==
  ASSUME NEW S, S \subseteq Nat, S # {}
  PROVE  \E k \in S : \A m \in S : k <= m
<1>1. PICK n \in S : n \in Nat
  OBVIOUS
<1> DEFINE Below == {m \in S : m <= n}
           T == {0..m : m \in Below}
<1>2. T \subseteq SUBSET (0..n)
  BY <1>1
<1>3. T # {}
  BY <1>1
<1>4. IsFiniteSet(0..n)
  BY <1>1, FS_Interval
<1>5. \E x \in T : \A y \in T : y \subseteq x => y = x
  <2> DEFINE I == 0..n
  <2>1. IsFiniteSet(I) /\ T \subseteq SUBSET I /\ T # {}
    BY <1>2, <1>3, <1>4
  <2> HIDE DEF T, I
  <2> QED
    BY <2>1, MinimalSubset
<1>6. PICK k \in Below : \A y \in T : y \subseteq 0..k => y = 0..k
  BY <1>5
<1>7. ASSUME NEW m \in S, m < k PROVE FALSE
  <2>1. m \in Below /\ m \in Nat /\ k \in Nat
    BY <1>1, <1>7
  <2>2. 0..m \in T /\ 0..m \subseteq 0..k
    BY <2>1, <1>7
  <2>3. 0..m = 0..k
    BY <1>6, <2>2
  <2>4. k \in 0..k /\ k \notin 0..m
    BY <2>1, <1>7
  <2> QED
    BY <2>3, <2>4
<1> QED
  BY <1>1, <1>7

\* Induction: a set of naturals that holds 0 and every successor is all of them.
LEMMA SetInduction ==
  ASSUME NEW S, 0 \in S, \A n \in Nat : n \in S => n + 1 \in S
  PROVE  Nat \subseteq S
<1> SUFFICES ASSUME NEW m \in Nat, m \notin S PROVE FALSE
  OBVIOUS
<1>1. PICK k \in Nat \ S : \A j \in Nat \ S : k <= j
  <2> DEFINE C == Nat \ S
  <2>1. C \subseteq Nat /\ C # {}
    OBVIOUS
  <2> HIDE DEF C
  <2>2. \E k \in C : \A j \in C : k <= j
    BY <2>1, LeastElement
  <2> QED
    BY <2>2 DEF C
<1>2. k # 0 /\ k - 1 \in Nat
  OBVIOUS
<1>3. k - 1 \in S
  BY <1>1, <1>2
<1> QED
  BY <1>2, <1>3

-----------------------------------------------------------------------------
(* Sums of a function over finite sets, as the community modules fold them. *)

\* The element the fold takes next.
Pick(s) == CHOOSE x \in s : TRUE

\* One step of the fold, from the sums of smaller sets.
SumStep(f, sums, s) == IF s = {} THEN 0 ELSE f[Pick(s)] + sums[s \ {Pick(s)}]

\* The sums over all subsets of S.
Sums(f, S) == CHOOSE sums : sums = [s \in SUBSET S |-> SumStep(f, sums, s)]

LEMMA SumIsOverDomain ==
  ASSUME NEW f
  PROVE  SumFunction(f) = Sums(f, DOMAIN f)[DOMAIN f]
BY DEF SumFunction, SumFunctionOnSet, FoldFunctionOnSet, MapThenFoldSet, Sums, SumStep, Pick

\* The element taken leaves one less.
LEMMA PickRemoves ==
  ASSUME NEW s, IsFiniteSet(s), s # {}
  PROVE  /\ Pick(s) \in s
         /\ IsFiniteSet(s \ {Pick(s)})
         /\ Cardinality(s) \in Nat
         /\ Cardinality(s \ {Pick(s)}) = Cardinality(s) - 1
<1>1. Pick(s) \in s
  BY DEF Pick
<1> QED
  BY <1>1, FS_CardinalityType, FS_RemoveElement

\* Sums is a function of the subsets that satisfies its recursive definition.
LEMMA SumsStep ==
  ASSUME NEW f, NEW S, IsFiniteSet(S)
  PROVE  \A s \in SUBSET S : Sums(f, S)[s] = SumStep(f, Sums(f, S), s)
<1> DEFINE Small(n) == {s \in SUBSET S : Cardinality(s) < n}
           Upto(n) == \E sums : sums = [s \in Small(n) |-> SumStep(f, sums, s)]
           Reached == {n \in Nat : Upto(n)}
<1>1. \A s \in SUBSET S : IsFiniteSet(s) /\ Cardinality(s) \in Nat
                          /\ Cardinality(s) <= Cardinality(S)
  BY FS_Subset, FS_CardinalityType
<1>2. 0 \in Reached
  <2>1. Small(0) = {}
    BY <1>1
  <2>2. [s \in {} |-> 0] = [s \in Small(0) |-> SumStep(f, [t \in {} |-> 0], s)]
    BY <2>1
  <2> QED
    BY <2>2
<1>3. ASSUME NEW n \in Nat, n \in Reached PROVE n + 1 \in Reached
  <2>1. PICK g : g = [s \in Small(n) |-> SumStep(f, g, s)]
    BY <1>3
  <2> DEFINE h == [s \in Small(n + 1) |-> IF s \in Small(n) THEN g[s] ELSE SumStep(f, g, s)]
  <2>2. ASSUME NEW s \in Small(n + 1) PROVE h[s] = SumStep(f, h, s)
    <3>1. h[s] = SumStep(f, g, s)
      BY <2>1
    <3>2. CASE s = {}
      BY <3>1, <3>2 DEF SumStep
    <3>3. CASE s # {}
      <4>1. s \ {Pick(s)} \in Small(n)
        BY <1>1, <3>3, PickRemoves
      <4>2. s \ {Pick(s)} \in Small(n + 1)
        BY <4>1, <1>1
      <4>3. h[s \ {Pick(s)}] = g[s \ {Pick(s)}]
        BY <4>1, <4>2
      <4> QED
        BY <3>1, <3>3, <4>3 DEF SumStep
    <3> QED
      BY <3>2, <3>3
  <2>3. h = [s \in Small(n + 1) |-> SumStep(f, h, s)]
    BY <2>2
  <2>4. Upto(n + 1)
    <3> HIDE DEF h
    <3> QED
      BY <2>3
  <2> HIDE DEF Upto
  <2> QED
    BY <2>4
<1>4. Cardinality(S) + 1 \in Reached
  <2>1. Nat \subseteq Reached
    <3> HIDE DEF Reached
    <3> QED
      BY <1>2, <1>3, SetInduction
  <2>2. Cardinality(S) + 1 \in Nat
    BY FS_CardinalityType
  <2> HIDE DEF Reached
  <2> QED
    BY <2>1, <2>2
<1>5. Small(Cardinality(S) + 1) = SUBSET S
  BY <1>1, FS_CardinalityType
<1>6. \E sums : sums = [s \in SUBSET S |-> SumStep(f, sums, s)]
  BY <1>4, <1>5
<1>7. Sums(f, S) = [s \in SUBSET S |-> SumStep(f, Sums(f, S), s)]
  BY <1>6 DEF Sums
<1> DEFINE sums == Sums(f, S)
<1>8. sums = [s \in SUBSET S |-> SumStep(f, sums, s)]
  BY <1>7
<1> HIDE DEF sums
<1>9. \A s \in SUBSET S : sums[s] = SumStep(f, sums, s)
  BY <1>8
<1> QED
  BY <1>9 DEF sums

\* The sum of integers is bounded below by c for each of those at F, if these are at
\* least c and the others not negative, and above by d for each if none is more.
THEOREM SumBounds ==
  ASSUME NEW f, IsFiniteSet(DOMAIN f), \A x \in DOMAIN f : f[x] \in Int,
         NEW F, NEW c \in Int, NEW d \in Int
  PROVE  /\ SumFunction(f) \in Int
         /\ (\A x \in DOMAIN f : f[x] >= IF x \in F THEN c ELSE 0)
              => SumFunction(f) >= c * Cardinality(DOMAIN f \cap F)
         /\ (\A x \in DOMAIN f : f[x] <= d)
              => SumFunction(f) <= d * Cardinality(DOMAIN f)
<1> DEFINE S == DOMAIN f
           low == \A x \in DOMAIN f : f[x] >= IF x \in F THEN c ELSE 0
           high == \A x \in DOMAIN f : f[x] <= d
           sums == Sums(f, S)
           Fails == {s \in SUBSET S :
                       ~ /\ sums[s] \in Int
                         /\ low => sums[s] >= c * Cardinality(s \cap F)
                         /\ high => sums[s] <= d * Cardinality(s)}
<1>1. \A s \in SUBSET S : sums[s] = SumStep(f, sums, s)
  BY SumsStep
<1>2. Fails = {}
  <2> SUFFICES ASSUME Fails # {} PROVE FALSE
    OBVIOUS
  <2>1. PICK s \in Fails : \A t \in Fails : t \subseteq s => t = s
    <3>1. Fails \subseteq SUBSET S
      OBVIOUS
    <3> HIDE DEF Fails
    <3> QED
      BY <3>1, MinimalSubset
  <2>2. /\ IsFiniteSet(s) /\ Cardinality(s) \in Nat
        /\ IsFiniteSet(s \cap F) /\ Cardinality(s \cap F) \in Nat
    BY FS_Subset, FS_Intersection, FS_CardinalityType
  <2>3. CASE s = {}
    <3>1. sums[s] = 0 /\ Cardinality(s \cap F) = 0 /\ Cardinality(s) = 0
      BY <1>1, <2>3, FS_EmptySet DEF SumStep
    <3> QED
      BY <3>1
  <2>4. CASE s # {}
    <3> DEFINE p == Pick(s)
               r == s \ {p}
               A == s \cap F
    <3>1. p \in s /\ r \in SUBSET S /\ r # s /\ Cardinality(r) = Cardinality(s) - 1
      BY <2>2, <2>4, PickRemoves
    <3>2. /\ sums[r] \in Int
          /\ low => sums[r] >= c * Cardinality(r \cap F)
          /\ high => sums[r] <= d * Cardinality(r)
      BY <2>1, <3>1
    <3>3. sums[s] = f[p] + sums[r]
      BY <1>1, <2>4 DEF SumStep
    <3>4. /\ f[p] \in Int
          /\ low => f[p] >= IF p \in F THEN c ELSE 0
          /\ high => f[p] <= d
      BY <3>1
    <3>5. Cardinality(r \cap F) = Cardinality(A) - IF p \in F THEN 1 ELSE 0
      <4>1. r \cap F = A \ {p}
        OBVIOUS
      <4>2. p \in A <=> p \in F
        BY <3>1
      <4>3. Cardinality(A \ {p}) = IF p \in A THEN Cardinality(A) - 1 ELSE Cardinality(A)
        <5>1. IsFiniteSet(A)
          BY <2>2
        <5> HIDE DEF A, p
        <5> QED
          BY <5>1, FS_RemoveElement
      <4>4. Cardinality(A) \in Nat
        BY <2>2
      <4>5. Cardinality(r \cap F) = Cardinality(A \ {p})
        BY <4>1
      <4> HIDE DEF A, p, r
      <4>6. CASE p \in F
        BY <4>2, <4>3, <4>4, <4>5, <4>6
      <4>7. CASE p \notin F
        BY <4>2, <4>3, <4>4, <4>5, <4>7
      <4> QED
        BY <4>6, <4>7
    <3> HIDE DEF sums, p, r, low, high
    <3>6. sums[s] \in Int
      BY <3>2, <3>3, <3>4
    <3>7. /\ c * (Cardinality(A) - 1) = c * Cardinality(A) - c
          /\ d * (Cardinality(s) - 1) = d * Cardinality(s) - d
      BY <2>2
    <3>8. c * Cardinality(A) \in Int /\ d * Cardinality(s) \in Int
      BY <2>2
    <3>9. low => sums[s] >= c * Cardinality(A)
      BY <2>2, <3>2, <3>3, <3>4, <3>5, <3>7, <3>8
    <3>10. high => sums[s] <= d * Cardinality(s)
      BY <2>2, <3>1, <3>2, <3>3, <3>4, <3>7, <3>8
    <3> QED
      BY <3>6, <3>9, <3>10
  <2> QED
    BY <2>3, <2>4
<1>3. /\ sums[S] \in Int
      /\ low => sums[S] >= c * Cardinality(S \cap F)
      /\ high => sums[S] <= d * Cardinality(S)
  <2> HIDE DEF low, high
  <2> QED
    BY <1>2
<1> QED
  BY <1>3, SumIsOverDomain

\* The lower bound alone.
LEMMA SumLowerBound ==
  ASSUME NEW f, IsFiniteSet(DOMAIN f), NEW F, NEW c \in Int,
         \A x \in DOMAIN f : f[x] \in Int,
         \A x \in DOMAIN f : x \in F => c <= f[x],
         \A x \in DOMAIN f : x \notin F => 0 <= f[x]
  PROVE  SumFunction(f) \in Int /\ c * Cardinality(DOMAIN f \cap F) <= SumFunction(f)
<1>1. SumFunction(f) \in Int /\ SumFunction(f) >= c * Cardinality(DOMAIN f \cap F)
  BY SumBounds, 0 \in Int
<1>2. Cardinality(DOMAIN f \cap F) \in Nat
  BY FS_Intersection, FS_CardinalityType
<1> QED
  BY <1>1, <1>2

-----------------------------------------------------------------------------
(* Sums slot by slot, as a recursive function of the number of slots.      *)

\* h holds the sums of the first terms of g.
Accumulates(h, g, n) == h = [i \in 0..n |-> IF i = 0 THEN 0 ELSE h[i-1] + g[i-1]]

LEMMA SlotSums ==
  ASSUME NEW n \in Nat, NEW g
  PROVE  \E h : Accumulates(h, g, n)
<1> DEFINE Reached == {m \in Nat : \E h : Accumulates(h, g, m)}
<1>1. 0 \in Reached
  <2>1. Accumulates([i \in 0..0 |-> 0], g, 0)
    BY DEF Accumulates
  <2> QED
    BY <2>1
<1>2. ASSUME NEW m \in Nat, m \in Reached PROVE m + 1 \in Reached
  <2>1. PICK h : Accumulates(h, g, m)
    BY <1>2
  <2> DEFINE k == [i \in 0..m + 1 |-> IF i <= m THEN h[i] ELSE h[m] + g[m]]
  <2>2. ASSUME NEW i \in 0..m + 1
        PROVE  k[i] = IF i = 0 THEN 0 ELSE k[i-1] + g[i-1]
    <3>1. CASE i <= m
      <4>1. i \in 0..m /\ k[i] = h[i] /\ (i # 0 => k[i-1] = h[i-1])
        BY <3>1
      <4> QED
        BY <2>1, <4>1 DEF Accumulates
    <3>2. CASE i = m + 1
      <4>1. i - 1 = m /\ k[i] = h[m] + g[m] /\ k[m] = h[m] /\ i # 0
        BY <3>2
      <4> QED
        BY <4>1
    <3> QED
      BY <3>1, <3>2
  <2>3. k = [i \in 0..m + 1 |-> IF i = 0 THEN 0 ELSE k[i-1] + g[i-1]]
    BY <2>2
  <2>4. Accumulates(k, g, m + 1)
    <3> HIDE DEF k
    <3> QED
      BY <2>3 DEF Accumulates
  <2> QED
    BY <2>4
<1>3. Nat \subseteq Reached
  <2> HIDE DEF Reached
  <2> QED
    BY <1>1, <1>2, SetInduction
<1> QED
  BY <1>3

\* What such a sum is bounded by when the terms outside S are 0: c or d for each of S, if these
\* are at least c or at most d, and each of them, if none is negative.
THEOREM SlotSumBounds ==
  ASSUME NEW n \in Nat, NEW g, NEW h, Accumulates(h, g, n), NEW S, S \subseteq 0..n-1,
         \A i \in 0..n-1 : g[i] \in Int /\ (i \notin S => g[i] = 0),
         NEW c \in Int, NEW d \in Int
  PROVE  /\ h[n] \in Int
         /\ (\A i \in S : c <= g[i]) => c * Cardinality(S) <= h[n]
         /\ (\A i \in S : g[i] <= d) => h[n] <= d * Cardinality(S)
         /\ (\A i \in S : 0 <= g[i]) => \A i \in S : g[i] <= h[n]
<1> DEFINE low == \A i \in S : c <= g[i]
           high == \A i \in S : g[i] <= d
           pos == \A i \in S : 0 <= g[i]
           First(m) == {i \in S : i < m}
           Bounded(m) == /\ h[m] \in Int
                         /\ low => c * Cardinality(First(m)) <= h[m]
                         /\ high => h[m] <= d * Cardinality(First(m))
                         /\ pos => 0 <= h[m] /\ \A i \in First(m) : g[i] <= h[m]
           Reached == {m \in Nat : m <= n => Bounded(m)}
<1>1. \A i \in 0..n : h[i] = IF i = 0 THEN 0 ELSE h[i-1] + g[i-1]
  BY DEF Accumulates
<1>2. ASSUME NEW m \in 0..n
      PROVE  IsFiniteSet(First(m)) /\ Cardinality(First(m)) \in Nat
  <2>1. IsFiniteSet(0..n-1)
    BY FS_Interval
  <2>2. First(m) \in SUBSET (0..n-1)
    OBVIOUS
  <2> HIDE DEF First
  <2> QED
    BY <2>1, <2>2, FS_Subset, FS_CardinalityType
<1>3. 0 \in Reached
  <2>1. First(0) = {}
    <3>1. \A i \in S : ~ (i < 0)
      OBVIOUS
    <3> QED
      BY <3>1
  <2> HIDE DEF First
  <2>2. Cardinality(First(0)) = 0
    BY <2>1, FS_EmptySet
  <2>4. h[0] = 0
    BY <1>1
  <2>3. Bounded(0)
    BY <2>1, <2>2, <2>4
  <2> QED
    BY <2>3
<1>4. ASSUME NEW m \in Nat, m \in Reached PROVE m + 1 \in Reached
  <2> SUFFICES ASSUME m + 1 <= n PROVE Bounded(m + 1)
    OBVIOUS
  <2>1. Bounded(m)
    BY <1>4
  <2>2. m \in 0..n-1 /\ m \in 0..n /\ h[m + 1] = h[m] + g[m] /\ g[m] \in Int
    BY <1>1
  <2>3. IsFiniteSet(First(m)) /\ Cardinality(First(m)) \in Nat /\ m \notin First(m)
    BY <1>2, <2>2
  <2>4. First(m + 1) = IF m \in S THEN First(m) \cup {m} ELSE First(m)
    <3>1. \A i \in S : i \in Nat /\ (i < m + 1 <=> i < m \/ i = m)
      OBVIOUS
    <3> QED
      BY <3>1
  <2> DEFINE k == Cardinality(First(m))
             l == Cardinality(First(m + 1))
  <2>5. l = IF m \in S THEN k + 1 ELSE k
    <3> HIDE DEF First
    <3> QED
      BY <2>3, <2>4, FS_AddElement
  <2>6. k \in Nat /\ c * (k + 1) = c * k + c /\ d * (k + 1) = d * k + d
        /\ c * k \in Int /\ d * k \in Int
    BY <2>3
  <2>7. /\ h[m] \in Int
        /\ low => c * k <= h[m]
        /\ high => h[m] <= d * k
        /\ pos => 0 <= h[m] /\ \A i \in First(m) : g[i] <= h[m]
    BY <2>1
  <2> HIDE DEF k, l
  <2>8. CASE m \in S
    <3>1. l = k + 1 /\ (low => c <= g[m]) /\ (high => g[m] <= d) /\ (pos => 0 <= g[m])
      BY <2>5, <2>8
    <3> HIDE DEF low, high, pos
    <3>2. low => c * l <= h[m + 1]
      BY <2>2, <2>6, <2>7, <3>1
    <3>3. high => h[m + 1] <= d * l
      BY <2>2, <2>6, <2>7, <3>1
    <3>4. pos => 0 <= h[m + 1] /\ \A i \in First(m + 1) : g[i] <= h[m + 1]
      <4> SUFFICES ASSUME pos
                   PROVE  0 <= h[m + 1] /\ \A i \in First(m + 1) : g[i] <= h[m + 1]
        OBVIOUS
      <4>1. 0 <= h[m + 1] /\ g[m] <= h[m + 1]
        BY <2>2, <2>7, <3>1
      <4>2. ASSUME NEW i \in First(m) PROVE g[i] <= h[m + 1]
        <5>1. g[i] <= h[m] /\ g[i] \in Int
          BY <2>7
        <5> QED
          BY <2>2, <2>7, <3>1, <5>1
      <4>3. First(m + 1) = First(m) \cup {m}
        BY <2>4, <2>8
      <4> HIDE DEF First
      <4> QED
        BY <4>1, <4>2, <4>3
    <3> QED
      BY <2>2, <2>7, <3>2, <3>3, <3>4 DEF l
  <2>9. CASE m \notin S
    <3>1. l = k /\ h[m + 1] = h[m] /\ First(m + 1) = First(m)
      BY <2>2, <2>4, <2>5, <2>7, <2>9
    <3> QED
      BY <2>7, <3>1 DEF l
  <2> QED
    BY <2>8, <2>9
<1>5. Bounded(n)
  <2>1. Nat \subseteq Reached
    <3> HIDE DEF Reached
    <3> QED
      BY <1>3, <1>4, SetInduction
  <2> HIDE DEF Bounded
  <2> QED
    BY <2>1
<1>6. First(n) = S
  <2>1. \A i \in S : i < n
    OBVIOUS
  <2> QED
    BY <2>1
<1> HIDE DEF First, low, high, pos
<1> QED
  BY <1>5, <1>6 DEF low, high, pos

\* Of finitely many integers one is the least and one the greatest.
LEMMA FiniteExtremes ==
  ASSUME NEW I, IsFiniteSet(I), I # {}, NEW f, \A i \in I : f[i] \in Int
  PROVE  /\ \E i \in I : \A j \in I : f[i] <= f[j]
         /\ \E i \in I : \A j \in I : f[j] <= f[i]
<1>1. \E i \in I : \A j \in I : f[i] <= f[j]
  <2> DEFINE Before(i) == {j \in I : f[j] < f[i]}
             T == {Before(i) : i \in I}
  <2>1. T \subseteq SUBSET I /\ T # {}
    OBVIOUS
  <2>2. PICK x \in T : \A y \in T : y \subseteq x => y = x
    <3> HIDE DEF T
    <3> QED
      BY <2>1, MinimalSubset
  <2>3. PICK i \in I : x = Before(i)
    OBVIOUS
  <2>4. ASSUME NEW j \in Before(i) PROVE FALSE
    <3>1. f[i] \in Int /\ f[j] \in Int /\ f[j] < f[i] /\ j \in I
      OBVIOUS
    <3>2. Before(j) \subseteq Before(i)
      BY <3>1
    <3>3. j \notin Before(j)
      BY <3>1
    <3> QED
      BY <2>2, <2>3, <3>1, <3>2, <3>3
  <2> QED
    BY <2>4
<1>2. \E i \in I : \A j \in I : f[i] >= f[j]
  <2> DEFINE After(i) == {j \in I : f[j] > f[i]}
             T == {After(i) : i \in I}
  <2>1. T \subseteq SUBSET I /\ T # {}
    OBVIOUS
  <2>2. PICK x \in T : \A y \in T : y \subseteq x => y = x
    <3> HIDE DEF T
    <3> QED
      BY <2>1, MinimalSubset
  <2>3. PICK i \in I : x = After(i)
    OBVIOUS
  <2>4. ASSUME NEW j \in After(i) PROVE FALSE
    <3>1. f[i] \in Int /\ f[j] \in Int /\ f[j] > f[i] /\ j \in I
      OBVIOUS
    <3>2. After(j) \subseteq After(i)
      BY <3>1
    <3>3. j \notin After(j)
      BY <3>1
    <3> QED
      BY <2>2, <2>3, <3>1, <3>2, <3>3
  <2> QED
    BY <2>4
<1> QED
  BY <1>1, <1>2

=============================================================================
