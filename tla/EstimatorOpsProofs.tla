------------------------- MODULE EstimatorOpsProofs --------------------------
(***************************************************************************)
(* What the estimator's arithmetic returns, for every ring and every       *)
(* observation: the integer square root, the truncating division, the mean *)
(* of the offsets and the residual.                                        *)
(***************************************************************************)
EXTENDS EstimatorOps, IntegerTheorems

-----------------------------------------------------------------------------
(* The integer square root.                                                *)

\* The guess after x.
Guess(n, x) == (x + n \div x) \div 2

\* One turn of the loop, from the results of smaller guesses.
Turn(n, roots, x) == IF Guess(n, x) < x THEN roots[Guess(n, x)] ELSE x

\* What the loop returns from every first guess.
Roots(n) == CHOOSE roots : roots = [x \in 1..n |-> Turn(n, roots, x)]

LEMMA RootIsFromN ==
  ASSUME NEW n \in Nat, n >= 2
  PROVE  isqrt_u128(n) = Roots(n)[n]
BY DEF isqrt_u128, Roots, Turn, Guess

\* A guess stays positive, and if the one before was large enough so is it.
LEMMA NextGuess ==
  ASSUME NEW n \in Nat, n >= 2, NEW x \in Nat \ {0}
  PROVE  /\ Guess(n, x) \in Nat \ {0}
         /\ Guess(n, x) >= x => x * x <= n
         /\ n < (Guess(n, x) + 1) * (Guess(n, x) + 1)
<1> DEFINE q == n \div x
           y == (x + q) \div 2
<1>1. q \in Nat /\ x * q <= n /\ n < x * q + x
  BY SMT
<1>2. y \in Nat /\ 2 * y <= x + q /\ x + q <= 2 * y + 1
  BY <1>1
<1>3. y # 0
  <2>1. CASE x = 1
    BY <2>1, <1>1, <1>2
  <2>2. CASE x > 1
    BY <2>2, <1>1, <1>2
  <2> QED
    BY <2>1, <2>2
<1> HIDE DEF q, y
<1>4. ASSUME y >= x PROVE x * x <= n
  <2>1. q \in Nat /\ x <= q
    BY <1>1, <1>2, <1>4
  <2>2. PICK d \in Nat : q = x + d
    BY <2>1, q - x \in Nat, q = x + (q - x)
  <2>3. x * q = x * x + x * d /\ x * d \in Nat
    BY <2>2
  <2> QED
    BY <1>1, <2>3
<1>5. n < (y + 1) * (y + 1)
  <2> DEFINE z == q + 1
  <2>1. n < x * z
    BY <1>1
  <2>2. x + z <= 2 * (y + 1)
    BY <1>1, <1>2
  <2>3. 4 * (x * z) <= (x + z) * (x + z)
    <3>1. (x + z) * (x + z) = 4 * (x * z) + (x - z) * (x - z)
      BY <1>1
    <3>2. (x - z) * (x - z) >= 0
      BY <1>1
    <3> QED
      BY <1>1, <3>1, <3>2
  <2>4. (x + z) * (x + z) <= 4 * ((y + 1) * (y + 1))
    BY <1>1, <1>2, <2>2
  <2> QED
    BY <1>1, <1>2, <2>1, <2>3, <2>4
<1> QED
  BY <1>2, <1>3, <1>4, <1>5 DEF Guess, q, y

\* The recursive definition has a solution: every guess asks for a smaller one.
LEMMA RootsTurn ==
  ASSUME NEW n \in Nat, n >= 2
  PROVE  \A x \in 1..n : Roots(n)[x] = Turn(n, Roots(n), x)
<1> DEFINE Upto(k) == \E roots : roots = [x \in 1..k |-> Turn(n, roots, x)]
           Reached == {k \in Nat : Upto(k)}
<1>1. 0 \in Reached
  <2>1. [x \in 1..0 |-> 0] = [x \in 1..0 |-> Turn(n, [y \in 1..0 |-> 0], x)]
    OBVIOUS
  <2> QED
    BY <2>1
<1>2. ASSUME NEW k \in Nat, k \in Reached PROVE k + 1 \in Reached
  <2>1. PICK g : g = [x \in 1..k |-> Turn(n, g, x)]
    BY <1>2
  <2> DEFINE h == [x \in 1..k+1 |-> IF x \in 1..k THEN g[x] ELSE Turn(n, g, x)]
  <2>2. ASSUME NEW x \in 1..k+1 PROVE h[x] = Turn(n, h, x)
    <3>1. h[x] = Turn(n, g, x)
      BY <2>1
    <3>2. ASSUME Guess(n, x) < x PROVE Guess(n, x) \in 1..k
      BY <3>2, NextGuess
    <3>3. Turn(n, g, x) = Turn(n, h, x)
      BY <3>2 DEF Turn
    <3> QED
      BY <3>1, <3>3
  <2>3. h = [x \in 1..k+1 |-> Turn(n, h, x)]
    BY <2>2
  <2>4. Upto(k + 1)
    <3> HIDE DEF h
    <3> QED
      BY <2>3
  <2> HIDE DEF Upto
  <2> QED
    BY <2>4
<1>3. Nat \subseteq Reached
  <2> HIDE DEF Reached
  <2> QED
    BY <1>1, <1>2, SetInduction
<1>4. n \in Reached
  <2> HIDE DEF Reached
  <2> QED
    BY <1>3
<1>5. Roots(n) = [x \in 1..n |-> Turn(n, Roots(n), x)]
  BY <1>4 DEF Roots
<1> DEFINE roots == Roots(n)
<1>6. roots = [x \in 1..n |-> Turn(n, roots, x)]
  BY <1>5
<1> HIDE DEF roots
<1>7. \A x \in 1..n : roots[x] = Turn(n, roots, x)
  BY <1>6
<1> QED
  BY <1>7 DEF roots

\* isqrt_u128 returns the integer square root of any number.
THEOREM IsqrtCorrect ==
  ASSUME NEW n \in Nat
  PROVE  LET r == isqrt_u128(n)
         IN  r \in Nat /\ r * r <= n /\ n < (r + 1) * (r + 1)
<1> DEFINE IsRoot(r) == r \in Nat /\ r * r <= n /\ n < (r + 1) * (r + 1)
<1>1. CASE n < 2
  <2>1. isqrt_u128(n) = n
    BY <1>1 DEF isqrt_u128
  <2>2. n = 0 \/ n = 1
    BY <1>1
  <2> QED
    BY <2>1, <2>2
<1>2. CASE n >= 2
  <2> DEFINE Fails == {x \in 1..n : n < (x + 1) * (x + 1) /\ ~ IsRoot(Roots(n)[x])}
  <2>1. Fails = {}
    <3> SUFFICES ASSUME Fails # {} PROVE FALSE
      OBVIOUS
    <3>1. PICK x \in Fails : \A y \in Fails : x <= y
      <4>1. Fails \subseteq Nat
        OBVIOUS
      <4> HIDE DEF Fails
      <4> QED
        BY <4>1, LeastElement
    <3>2. x \in 1..n /\ n < (x + 1) * (x + 1) /\ Roots(n)[x] = Turn(n, Roots(n), x)
      BY <1>2, RootsTurn
    <3>3. /\ Guess(n, x) \in Nat \ {0}
          /\ Guess(n, x) >= x => x * x <= n
          /\ n < (Guess(n, x) + 1) * (Guess(n, x) + 1)
      BY <1>2, <3>2, NextGuess
    <3>4. CASE Guess(n, x) < x
      <4>1. Guess(n, x) \in 1..n /\ Guess(n, x) \notin Fails
        BY <3>1, <3>2, <3>3, <3>4
      <4>2. IsRoot(Roots(n)[Guess(n, x)])
        BY <3>3, <4>1
      <4>3. Roots(n)[x] = Roots(n)[Guess(n, x)]
        BY <3>2, <3>4 DEF Turn
      <4> QED
        BY <4>2, <4>3
    <3>5. CASE Guess(n, x) >= x
      <4>1. Roots(n)[x] = x
        BY <3>2, <3>3, <3>5 DEF Turn
      <4> QED
        BY <3>2, <3>3, <3>5, <4>1
    <3> QED
      BY <3>2, <3>3, <3>4, <3>5
  <2>2. n \in 1..n /\ n < (n + 1) * (n + 1)
    BY <1>2
  <2>3. IsRoot(Roots(n)[n])
    BY <2>1, <2>2
  <2> QED
    BY <1>2, <2>3, RootIsFromN
<1> QED
  BY <1>1, <1>2

-----------------------------------------------------------------------------
(* Division that truncates, and the arithmetic around it.                  *)

\* A truncated quotient stays between any integers the exact one is between.
LEMMA TruncDivBetween ==
  ASSUME NEW a \in Int, NEW k \in Nat \ {0}
  PROVE  /\ TruncDiv(a, k) \in Int
         /\ \A c \in Int : c * k <= a => c <= TruncDiv(a, k)
         /\ \A d \in Int : a <= d * k => TruncDiv(a, k) <= d
<1>1. CASE a >= 0
  <2> DEFINE q == a \div k
  <2>1. q \in Int /\ k * q <= a /\ a < k * q + k /\ TruncDiv(a, k) = q
    BY <1>1 DEF TruncDiv, Magnitude
  <2> HIDE DEF q
  <2>2. ASSUME NEW c \in Int, c * k <= a PROVE c <= q
    <3>1. SUFFICES ASSUME q + 1 <= c PROVE FALSE
      BY <2>1
    <3>2. (q + 1) * k <= c * k
      BY <2>1, <3>1
    <3>3. (q + 1) * k = k * q + k
      BY <2>1
    <3> QED
      BY <2>1, <2>2, <3>2, <3>3
  <2>3. ASSUME NEW d \in Int, a <= d * k PROVE q <= d
    <3>1. SUFFICES ASSUME d + 1 <= q PROVE FALSE
      BY <2>1
    <3>2. (d + 1) * k <= q * k
      BY <2>1, <3>1
    <3>3. (d + 1) * k = d * k + k /\ q * k = k * q
      BY <2>1
    <3> QED
      BY <2>1, <2>3, <3>2, <3>3
  <2> QED
    BY <2>1, <2>2, <2>3
<1>2. CASE a < 0
  <2> DEFINE q == (-a) \div k
  <2>1. q \in Int /\ k * q <= -a /\ -a < k * q + k /\ TruncDiv(a, k) = -q
    BY <1>2 DEF TruncDiv, Magnitude
  <2> HIDE DEF q
  <2>2. ASSUME NEW c \in Int, c * k <= a PROVE c <= -q
    <3>1. SUFFICES ASSUME 1 - q <= c PROVE FALSE
      BY <2>1
    <3>2. (1 - q) * k <= c * k
      BY <2>1, <3>1
    <3>3. (1 - q) * k = k - k * q
      BY <2>1
    <3> QED
      BY <2>1, <2>2, <3>2, <3>3
  <2>3. ASSUME NEW d \in Int, a <= d * k PROVE -q <= d
    <3>1. SUFFICES ASSUME d + q + 1 <= 0 PROVE FALSE
      BY <2>1
    <3>2. (d + q + 1) * k <= 0
      BY <2>1, <3>1
    <3>3. (d + q + 1) * k = d * k + k * q + k
      BY <2>1
    <3> QED
      BY <2>1, <2>3, <3>2, <3>3
  <2> QED
    BY <2>1, <2>2, <2>3
<1> QED
  BY <1>1, <1>2

LEMMA TruncDivType ==
  ASSUME NEW a \in Int, NEW b \in Int, b # 0
  PROVE  TruncDiv(a, b) \in Int
<1>1. Magnitude(a) \in Nat /\ Magnitude(b) \in Nat \ {0}
  BY DEF Magnitude
<1>2. Magnitude(a) \div Magnitude(b) \in Int
  BY <1>1
<1> QED
  BY <1>2 DEF TruncDiv

\* What a truncated division leaves is less than the divisor.
LEMMA TruncDivLeaves ==
  ASSUME NEW a \in Int, NEW b \in Int, b # 0
  PROVE  /\ TruncDiv(a, b) \in Int
         /\ Magnitude(a - TruncDiv(a, b) * b) < Magnitude(b)
<1> DEFINE m == Magnitude(a)
           k == Magnitude(b)
           q == m \div k
           r == m % k
<1>1. m \in Nat /\ k \in Nat \ {0}
  BY DEF Magnitude
<1>2. q \in Nat /\ r \in 0 .. k - 1 /\ m = k * q + r
  <2> HIDE DEF m, k
  <2> QED
    BY <1>1
<1>3. TruncDiv(a, b) = IF (a < 0) = (b < 0) THEN q ELSE -q
  BY DEF TruncDiv
<1> DEFINE p == k * q
<1>4. p \in Nat /\ m = p + r
  <2> HIDE DEF m, k, q, r
  <2> QED
    BY <1>1, <1>2
<1> HIDE DEF q, r
<1>5. CASE b > 0
  <2>1. k = b
    BY <1>5 DEF Magnitude
  <2>2. q * b = p /\ (-q) * b = -p
    BY <1>2, <2>1
  <2> HIDE DEF p, k
  <2>3. CASE a >= 0
    <3>1. TruncDiv(a, b) = q /\ m = a
      BY <1>3, <1>5, <2>3 DEF Magnitude
    <3> HIDE DEF m
    <3>2. a - TruncDiv(a, b) * b = r
      BY <1>2, <1>4, <2>2, <3>1
    <3> QED
      BY <1>1, <1>2, <3>1, <3>2 DEF Magnitude, k
  <2>4. CASE a < 0
    <3>1. TruncDiv(a, b) = -q /\ m = -a
      BY <1>3, <1>5, <2>4 DEF Magnitude
    <3> HIDE DEF m
    <3>2. a - TruncDiv(a, b) * b = -r
      BY <1>2, <1>4, <2>2, <3>1
    <3> QED
      BY <1>1, <1>2, <3>1, <3>2 DEF Magnitude, k
  <2> QED
    BY <2>3, <2>4
<1>6. CASE b < 0
  <2>1. k = -b
    BY <1>6 DEF Magnitude
  <2>2. q * b = -p /\ (-q) * b = p
    BY <1>2, <2>1
  <2> HIDE DEF p, k
  <2>3. CASE a >= 0
    <3>1. TruncDiv(a, b) = -q /\ m = a
      BY <1>3, <1>6, <2>3 DEF Magnitude
    <3> HIDE DEF m
    <3>2. a - TruncDiv(a, b) * b = r
      BY <1>2, <1>4, <2>2, <3>1
    <3> QED
      BY <1>1, <1>2, <3>1, <3>2 DEF Magnitude, k
  <2>4. CASE a < 0
    <3>1. TruncDiv(a, b) = q /\ m = -a
      BY <1>3, <1>6, <2>4 DEF Magnitude
    <3> HIDE DEF m
    <3>2. a - TruncDiv(a, b) * b = -r
      BY <1>2, <1>4, <2>2, <3>1
    <3> QED
      BY <1>1, <1>2, <3>1, <3>2 DEF Magnitude, k
  <2> QED
    BY <2>3, <2>4
<1> QED
  BY <1>2, <1>3, <1>5, <1>6

-----------------------------------------------------------------------------
(* The fit of a ring.                                                      *)

\* Every observation of the ring is on the two integer clocks.
IntegerRing(samples) ==
  \A i \in Occupied(samples) : samples[i].server_ns \in Int /\ samples[i].local_us \in Int

LEMMA OccupiedFinite ==
  ASSUME NEW samples
  PROVE  /\ IsFiniteSet(Occupied(samples))
         /\ Cardinality(Occupied(samples)) \in Nat
         /\ Occupied(samples) # {} => Cardinality(Occupied(samples)) \in Nat \ {0}
<1>1. IsFiniteSet(Slots)
  BY EstimatorAssumption, FS_Interval DEF Slots
<1>2. Occupied(samples) \in SUBSET Slots
  BY DEF Occupied
<1>3. IsFiniteSet(Occupied(samples))
  BY <1>1, <1>2, FS_Subset
<1> QED
  BY <1>3, FS_CardinalityType, FS_EmptySet

\* The mean offset lies between any bounds the offsets have.
LEMMA MeanBetween ==
  ASSUME NEW samples, Occupied(samples) # {}, IntegerRing(samples)
  PROVE  /\ MeanOffset(samples) \in Int
         /\ \A c \in Int : (\A i \in Occupied(samples) : c <= OffsetOf(samples[i]))
                           => c <= MeanOffset(samples)
         /\ \A d \in Int : (\A i \in Occupied(samples) : OffsetOf(samples[i]) <= d)
                           => MeanOffset(samples) <= d
<1> DEFINE f == Offsets(samples)
           occupied == Occupied(samples)
           k == Cardinality(occupied)
<1>1. DOMAIN f = occupied /\ \A i \in occupied : f[i] = OffsetOf(samples[i])
  BY DEF Offsets
<1>2. \A i \in occupied : f[i] \in Int
  BY <1>1, EstimatorAssumption DEF OffsetOf, IntegerRing
<1>3. IsFiniteSet(occupied) /\ k \in Nat \ {0}
  BY OccupiedFinite
<1>4. MeanOffset(samples) = TruncDiv(SumFunction(f), k)
  BY DEF MeanOffset
<1> HIDE DEF f, occupied
<1>5. SumFunction(f) \in Int
  BY <1>1, <1>2, <1>3, 0 \in Int, SumBounds
<1>6. ASSUME NEW c \in Int, \A i \in occupied : c <= f[i]
      PROVE  c * k <= SumFunction(f)
  <2>1. \A i \in DOMAIN f : f[i] >= IF i \in occupied THEN c ELSE 0
    BY <1>1, <1>2, <1>6
  <2>2. SumFunction(f) >= c * Cardinality(DOMAIN f \cap occupied)
    BY <1>1, <1>2, <1>3, <2>1, SumBounds
  <2>3. c * k \in Int /\ DOMAIN f \cap occupied = occupied
    BY <1>1, <1>3
  <2> QED
    BY <1>5, <2>2, <2>3
<1>7. ASSUME NEW d \in Int, \A i \in occupied : f[i] <= d
      PROVE  SumFunction(f) <= d * k
  BY <1>1, <1>2, <1>3, <1>7, SumBounds
<1> DEFINE total == SumFunction(f)
           mean == TruncDiv(total, k)
<1>8. /\ mean \in Int
      /\ \A c \in Int : c * k <= total => c <= mean
      /\ \A d \in Int : total <= d * k => mean <= d
  <2> HIDE DEF total, k
  <2> QED
    BY <1>3, <1>5, TruncDivBetween DEF total
<1> HIDE DEF k, total, mean
<1>9. ASSUME NEW c \in Int, \A i \in occupied : c <= OffsetOf(samples[i])
      PROVE  c <= mean
  BY <1>1, <1>6, <1>8, <1>9 DEF total
<1>10. ASSUME NEW d \in Int, \A i \in occupied : OffsetOf(samples[i]) <= d
      PROVE  mean <= d
  BY <1>1, <1>7, <1>8, <1>10 DEF total
<1>11. MeanOffset(samples) = mean
  BY <1>4 DEF mean, total
<1> QED
  BY <1>8, <1>9, <1>10, <1>11 DEF occupied

\* The residual of an observation is a whole number of microseconds.
LEMMA ResidualType ==
  ASSUME NEW samples, IntegerRing(samples), NEW mean \in Int, NEW i \in Occupied(samples)
  PROVE  ResidualUs(samples[i], mean) \in Nat
<1>1. OffsetOf(samples[i]) \in Int
  BY EstimatorAssumption DEF OffsetOf, IntegerRing
<1>2. Magnitude(OffsetOf(samples[i]) - mean) \in Nat
  BY <1>1 DEF Magnitude
<1> QED
  BY <1>2, EstimatorAssumption DEF ResidualUs

\* Chebyshev, with every rounding of the code: of the observations fewer than a quarter
\* have a residual of twice the standard deviation and two microseconds or more.
LEMMA FewFarResiduals ==
  ASSUME NEW samples, Occupied(samples) # {}, IntegerRing(samples), NEW mean \in Int,
         NEW far \in SUBSET Occupied(samples),
         \A i \in far : ResidualUs(samples[i], mean) >= 2 * StdUs(samples, mean) + 2
  PROVE  4 * Cardinality(far) < Cardinality(Occupied(samples))
<1> DEFINE f == Squares(samples, mean)
           occupied == Occupied(samples)
           k == Cardinality(occupied)
           res(i) == ResidualUs(samples[i], mean)
           total == SumFunction(f)
           std == StdUs(samples, mean)
           m == std + 1
<1>1. DOMAIN f = occupied /\ \A i \in occupied : f[i] = res(i) * res(i)
  BY DEF Squares
<1>2. \A i \in occupied : res(i) \in Nat
  BY ResidualType
<1>3. \A i \in occupied : f[i] \in Nat
  <2> HIDE DEF f, res, occupied
  <2> QED
    BY <1>1, <1>2
<1>4. IsFiniteSet(occupied) /\ k \in Nat \ {0}
  BY OccupiedFinite
<1>5. Cardinality(far) \in Nat /\ occupied \cap far = far
  BY <1>4, FS_Subset, FS_CardinalityType
<1>6. total \in Nat
  <2>1. total \in Int /\ 0 * Cardinality(DOMAIN f \cap DOMAIN f) <= total
    <3>1. IsFiniteSet(DOMAIN f) /\ \A i \in DOMAIN f : f[i] \in Int /\ 0 <= f[i]
      BY <1>1, <1>4, <1>3
    <3> HIDE DEF f
    <3> QED
      BY <3>1, 0 \in Int, SumLowerBound
  <2>2. Cardinality(DOMAIN f \cap DOMAIN f) \in Nat
    BY <1>1, <1>4
  <2> HIDE DEF total, f
  <2> QED
    BY <2>1, <2>2
<1>7. std \in Nat /\ total \div k < m * m
  <2>1. total \div k \in Nat
    <3> HIDE DEF total, k
    <3> QED
      BY <1>4, <1>6
  <2>2. std = isqrt_u128(total \div k)
    BY DEF StdUs
  <2> HIDE DEF total, k, std
  <2> QED
    BY <2>1, <2>2, IsqrtCorrect
<1>8. total < k * (m * m)
  <2> DEFINE q == total \div k
             mm == m * m
  <2>1. q \in Nat /\ total < k * q + k /\ mm \in Nat /\ q + 1 <= mm
    <3> HIDE DEF total, k, std
    <3> QED
      BY <1>4, <1>6, <1>7
  <2> HIDE DEF q, mm, total, k
  <2>2. k * (q + 1) <= k * mm
    BY <1>4, <2>1
  <2>3. k * (q + 1) = k * q + k /\ k * mm \in Nat /\ k * q \in Nat
    BY <1>4, <2>1
  <2>4. total < k * mm
    BY <1>4, <1>6, <2>1, <2>2, <2>3
  <2> QED
    BY <2>4 DEF mm
<1>9. 4 * (m * m) * Cardinality(far) <= total
  <2> DEFINE c == 4 * (m * m)
  <2>1. c \in Nat
    <3> HIDE DEF std
    <3> QED
      BY <1>7
  <2>2. ASSUME NEW i \in far PROVE f[i] >= c
    <3>1. res(i) >= 2 * m /\ res(i) \in Nat /\ f[i] = res(i) * res(i)
      BY <1>1, <1>2, <1>7
    <3> HIDE DEF std, res, f
    <3>2. res(i) * res(i) >= (2 * m) * (2 * m)
      BY <1>7, <3>1
    <3> QED
      BY <1>7, <3>1, <3>2
  <2>3. \A i \in DOMAIN f : /\ f[i] \in Int
                            /\ i \in far => c <= f[i]
                            /\ i \notin far => 0 <= f[i]
    <3> HIDE DEF f, c
    <3> QED
      BY <1>1, <1>3, <2>1, <2>2
  <2>4. c * Cardinality(occupied \cap far) <= total
    <3>1. IsFiniteSet(DOMAIN f) /\ DOMAIN f = occupied
      BY <1>1, <1>4
    <3> HIDE DEF c, f, occupied
    <3> QED
      BY <2>1, c \in Int, <2>3, <3>1, SumLowerBound
  <2> HIDE DEF c, f, occupied
  <2>5. c * Cardinality(far) \in Nat
    BY <1>5, <2>1
  <2> QED
    BY <1>5, <1>6, <2>4, <2>5 DEF c
<1> DEFINE mm == m * m
           n == Cardinality(far)
<1>10. mm \in Nat \ {0}
  <2> HIDE DEF std
  <2> QED
    BY <1>7
<1> HIDE DEF total, k, mm, n
<1>11. 4 * mm * n <= total /\ total < k * mm /\ n \in Nat
  BY <1>5, <1>8, <1>9 DEF mm, n
<1>12. 4 * n < k
  <2> SUFFICES ASSUME k <= 4 * n PROVE FALSE
    BY <1>4, <1>11
  <2>1. k * mm <= (4 * n) * mm
    BY <1>4, <1>10, <1>11
  <2>2. (4 * n) * mm = 4 * mm * n
    BY <1>10, <1>11
  <2> QED
    BY <1>4, <1>6, <1>10, <1>11, <2>1, <2>2
<1> QED
  BY <1>12 DEF k, n

\* Some observation has the least local reading, and some the greatest.
LEMMA ExtremeReadings ==
  ASSUME NEW samples, Occupied(samples) # {}, IntegerRing(samples)
  PROVE  /\ \E i \in Occupied(samples) : \A j \in Occupied(samples) :
               samples[i].local_us <= samples[j].local_us
         /\ \E i \in Occupied(samples) : \A j \in Occupied(samples) :
               samples[i].local_us >= samples[j].local_us
<1> DEFINE occupied == Occupied(samples)
           us == [i \in occupied |-> samples[i].local_us]
<1>1. IsFiniteSet(occupied) /\ occupied # {} /\ \A i \in occupied : us[i] \in Int
  BY OccupiedFinite DEF IntegerRing
<1>2. /\ \E i \in occupied : \A j \in occupied : us[i] <= us[j]
      /\ \E i \in occupied : \A j \in occupied : us[j] <= us[i]
  <2> HIDE DEF occupied, us
  <2> QED
    BY <1>1, FiniteExtremes
<1>3. \A i, j \in occupied :
        /\ us[i] <= us[j] => samples[i].local_us <= samples[j].local_us
        /\ us[j] <= us[i] => samples[i].local_us >= samples[j].local_us
  BY <1>1
<1> QED
  BY <1>2, <1>3

\* refit's scan finds an oldest and a newest observation in any ring.
LEMMA OldestNewest ==
  ASSUME NEW samples, Occupied(samples) # {}, IntegerRing(samples)
  PROVE  Oldest(samples) \in Occupied(samples) /\ Newest(samples) \in Occupied(samples)
<1> DEFINE occupied == Occupied(samples)
           us(i) == samples[i].local_us
<1>1. occupied \subseteq Nat /\ \A i \in occupied : us(i) \in Int
  BY EstimatorAssumption DEF Occupied, Slots, IntegerRing
<1>2. \E i \in occupied : \A j \in occupied : us(i) < us(j) \/ (us(i) = us(j) /\ i <= j)
  <2> DEFINE First == {i \in occupied : \A j \in occupied : us(i) <= us(j)}
  <2>1. First # {} /\ First \subseteq Nat
    BY <1>1, ExtremeReadings
  <2>2. PICK i \in First : \A j \in First : i <= j
    <3> HIDE DEF First
    <3> QED
      BY <2>1, LeastElement
  <2>3. ASSUME NEW j \in occupied PROVE us(i) < us(j) \/ (us(i) = us(j) /\ i <= j)
    <3>1. us(i) <= us(j) /\ us(i) \in Int /\ us(j) \in Int
      BY <1>1
    <3>2. us(i) = us(j) => j \in First
      OBVIOUS
    <3> QED
      BY <2>2, <3>1, <3>2
  <2> QED
    BY <2>3
<1>3. \E i \in occupied : \A j \in occupied : us(i) > us(j) \/ (us(i) = us(j) /\ i <= j)
  <2> DEFINE Last == {i \in occupied : \A j \in occupied : us(i) >= us(j)}
  <2>1. Last # {} /\ Last \subseteq Nat
    BY <1>1, ExtremeReadings
  <2>2. PICK i \in Last : \A j \in Last : i <= j
    <3> HIDE DEF Last
    <3> QED
      BY <2>1, LeastElement
  <2>3. ASSUME NEW j \in occupied PROVE us(i) > us(j) \/ (us(i) = us(j) /\ i <= j)
    <3>1. us(i) >= us(j) /\ us(i) \in Int /\ us(j) \in Int
      BY <1>1
    <3>2. us(i) = us(j) => j \in Last
      OBVIOUS
    <3> QED
      BY <2>2, <3>1, <3>2
  <2> QED
    BY <2>3
<1>4. Oldest(samples) \in Occupied(samples)
  BY <1>2 DEF Oldest
<1>5. Newest(samples) \in Occupied(samples)
  BY <1>3 DEF Newest
<1> QED
  BY <1>4, <1>5

\* The drift hint is an integer whatever the span.
LEMMA DriftType ==
  ASSUME NEW o, NEW n, o.local_us \in Int, n.local_us \in Int,
         o.server_ns \in Int, n.server_ns \in Int
  PROVE  DriftBetween(o, n) \in Int
<1> USE EstimatorAssumption
<1> DEFINE a == (n.server_ns - o.server_ns) * SlopeScale
           b == n.local_us - o.local_us
           slope == TruncDiv(a, b)
<1>1. CASE n.local_us > o.local_us + MinSpanUs
  <2>1. a \in Int /\ b \in Int /\ b # 0
    BY <1>1
  <2>2. slope \in Int
    <3> HIDE DEF a, b
    <3> QED
      BY <2>1, TruncDivType
  <2>3. DriftBetween(o, n) = Clamp(slope - NsPerUs * SlopeScale, -MaxDrift, MaxDrift)
    BY <1>1 DEF DriftBetween
  <2> HIDE DEF slope
  <2> QED
    BY <2>2, <2>3 DEF Clamp
<1>2. CASE ~ (n.local_us > o.local_us + MinSpanUs)
  BY <1>2 DEF DriftBetween
<1> QED
  BY <1>1, <1>2

LEMMA StdUsType ==
  ASSUME NEW samples, Occupied(samples) # {}, IntegerRing(samples), NEW mean \in Int
  PROVE  StdUs(samples, mean) \in Nat
<1> DEFINE f == Squares(samples, mean)
           k == Cardinality(Occupied(samples))
           total == SumFunction(f)
<1>1. IsFiniteSet(Occupied(samples)) /\ k \in Nat \ {0} /\ DOMAIN f = Occupied(samples)
  BY OccupiedFinite DEF Squares
<1>2. ASSUME NEW i \in DOMAIN f PROVE f[i] \in Int /\ 0 <= f[i]
  <2> DEFINE r == ResidualUs(samples[i], mean)
  <2>1. r \in Nat /\ f[i] = r * r
    BY <1>1, ResidualType DEF Squares
  <2> HIDE DEF r, f
  <2> QED
    BY <2>1
<1>3. total \in Int /\ 0 * Cardinality(DOMAIN f \cap DOMAIN f) <= total
  <2> HIDE DEF f
  <2> QED
    BY <1>1, <1>2, 0 \in Int, SumLowerBound
<1>4. Cardinality(DOMAIN f \cap DOMAIN f) \in Nat
  BY <1>1
<1>5. total \in Nat
  <2> HIDE DEF total, f
  <2> QED
    BY <1>3, <1>4
<1>6. total \div k \in Nat
  <2> HIDE DEF total, k
  <2> QED
    BY <1>1, <1>5
<1>7. StdUs(samples, mean) = isqrt_u128(total \div k)
  BY DEF StdUs
<1> HIDE DEF total, k
<1> QED
  BY <1>6, <1>7, IsqrtCorrect

\* refit keeps the types of the fit's fields.
LEMMA RefitType ==
  ASSUME NEW samples, Occupied(samples) # {}, IntegerRing(samples),
         NEW fit \in [offset_ns : Int, drift_ppb : Int, residual_us_p95 : Int]
  PROVE  refit(samples, fit) \in [offset_ns : Int, drift_ppb : Int, residual_us_p95 : Int]
<1> DEFINE mean == MeanOffset(samples)
           drift == DriftBetween(samples[Oldest(samples)], samples[Newest(samples)])
           std == StdUs(samples, mean)
<1>1. mean \in Int
  BY MeanBetween
<1>2. drift \in Int
  <2>1. IntegerRing(samples) /\ Oldest(samples) \in Occupied(samples)
                            /\ Newest(samples) \in Occupied(samples)
    BY OldestNewest
  <2> QED
    BY <2>1, DriftType DEF IntegerRing
<1>3. std \in Nat
  <2> HIDE DEF mean
  <2> QED
    BY <1>1, StdUsType
<1>4. Least(2 * std, U32_MAX) \in Int
  <2> HIDE DEF std
  <2> QED
    BY <1>3, EstimatorAssumption DEF Least
<1>5. \/ refit(samples, fit) = fit
      \/ refit(samples, fit) = [offset_ns |-> mean, drift_ppb |-> drift,
                                residual_us_p95 |-> Least(2 * std, U32_MAX)]
  BY DEF refit
<1> HIDE DEF mean, drift, std
<1> QED
  BY <1>1, <1>2, <1>4, <1>5

-----------------------------------------------------------------------------
(* The ring under observations.                                            *)

\* The head moves to the next slot, or from the last one to the first.
LEMMA NextSlot ==
  ASSUME NEW h \in Slots
  PROVE  /\ (h + 1) % WINDOW = IF h + 1 = WINDOW THEN 0 ELSE h + 1
         /\ (h + 1) % WINDOW \in Slots
<1>1. WINDOW \in Nat \ {0} /\ h \in 0 .. WINDOW - 1
  BY EstimatorAssumption DEF Slots
<1>2. ASSUME h + 1 = WINDOW PROVE (h + 1) % WINDOW = 0
  <2>1. WINDOW % WINDOW = 0
    BY <1>1
  <2> QED
    BY <1>2, <2>1
<1>3. ASSUME h + 1 # WINDOW PROVE (h + 1) % WINDOW = h + 1
  <2>1. h + 1 \in 0 .. WINDOW - 1
    BY <1>1, <1>3
  <2> QED
    BY <1>1, <1>3, <2>1
<1>4. (h + 1) % WINDOW \in 0 .. WINDOW - 1
  BY <1>1
<1> QED
  BY <1>2, <1>3, <1>4 DEF Slots

Observation == [server_ns : Int, local_us : Int]

Fits == [offset_ns : Int, drift_ppb : Int, residual_us_p95 : Int]

\* A ring that is not full holds its observations in its first slots and writes after them.
Ring(e) ==
  /\ e \in [samples : [Slots -> Observation \cup {NoSample}], head : Slots, n : 0..WINDOW,
            last_update_us : Int, fit : Fits]
  /\ e.n < WINDOW => e.head = e.n
  /\ \A i \in Slots : (e.samples[i] # NoSample) <=> i < e.n

\* Once there are enough observations, the fit is that of the ring: what the queries
\* use is never left from an earlier window.
FitOfRing(e) ==
  e.n >= MIN_SAMPLES =>
    LET mean == MeanOffset(e.samples)
    IN  /\ e.fit.offset_ns = mean
        /\ e.fit.residual_us_p95 = Least(2 * StdUs(e.samples, mean), U32_MAX)

\* As many slots are occupied as observations are counted, those before n.
LEMMA RingOccupied ==
  ASSUME NEW e, Ring(e)
  PROVE  /\ Occupied(e.samples) = 0 .. e.n - 1
         /\ Cardinality(Occupied(e.samples)) = e.n
         /\ IntegerRing(e.samples)
         /\ e.n >= MIN_SAMPLES => Occupied(e.samples) # {}
<1> USE EstimatorAssumption
<1>1. e.n \in 0..WINDOW /\ WINDOW \in Nat
  BY DEF Ring
<1>2. Occupied(e.samples) = 0 .. e.n - 1
  BY <1>1 DEF Ring, Occupied, Slots
<1>3. Cardinality(0 .. e.n - 1) = e.n
  <2>1. 0 \in Int /\ e.n - 1 \in Int
    BY <1>1
  <2>2. Cardinality(0 .. e.n - 1) = IF 0 > e.n - 1 THEN 0 ELSE e.n - 1 - 0 + 1
    BY <2>1, FS_Interval
  <2> QED
    BY <1>1, <2>2
<1>4. IntegerRing(e.samples)
  BY DEF Ring, IntegerRing, Occupied, Observation
<1>5. e.n >= MIN_SAMPLES => 0 \in 0 .. e.n - 1
  BY <1>1
<1> QED
  BY <1>2, <1>3, <1>4, <1>5

LEMMA RingOfNew == Ring(new) /\ FitOfRing(new)
<1> USE EstimatorAssumption
<1>1. 0 \in Slots /\ \A i \in Slots : ~ (i < 0)
  BY DEF Slots
<1> QED
  BY <1>1 DEF new, Ring, FitOfRing, Fits

\* An observation goes to the slot that head names, and head and n keep step.
LEMMA RingKept ==
  ASSUME NEW e, Ring(e), NEW s \in Observation
  PROVE  Ring(observe(e, s))
<1> USE EstimatorAssumption
<1> DEFINE f == observe(e, s)
           samples == [e.samples EXCEPT ![e.head] = s]
<1>1. /\ f = [samples |-> samples, head |-> f.head, n |-> f.n,
              last_update_us |-> s.local_us, fit |-> f.fit]
      /\ f.samples = samples
      /\ f.head = (e.head + 1) % WINDOW
      /\ f.n = IF e.n < WINDOW THEN e.n + 1 ELSE e.n
      /\ f.fit = refit(samples, e.fit)
  BY DEF observe
<1> HIDE DEF f
<1>2. /\ e.samples \in [Slots -> Observation \cup {NoSample}]
      /\ e.head \in Slots /\ e.n \in 0..WINDOW /\ e.fit \in Fits
      /\ e.n < WINDOW => e.head = e.n
      /\ \A i \in Slots : (e.samples[i] # NoSample) <=> i < e.n
  BY DEF Ring
<1>3. samples \in [Slots -> Observation \cup {NoSample}] /\ samples[e.head] = s
      /\ \A i \in Slots : i # e.head => samples[i] = e.samples[i]
  BY <1>2
<1>4. s # NoSample /\ s.local_us \in Int
  BY DEF Observation
<1> HIDE DEF samples
<1>5. f.head = IF e.head + 1 = WINDOW THEN 0 ELSE e.head + 1
  BY <1>1, <1>2, NextSlot
<1>6. f.head \in Slots /\ f.n \in 0..WINDOW
  BY <1>1, <1>2, NextSlot
<1>7. f.fit \in Fits
  <2>1. e.head \in Occupied(samples) /\ IntegerRing(samples)
    BY <1>2, <1>3, <1>4 DEF Occupied, IntegerRing, Observation
  <2> QED
    BY <1>1, <1>2, <2>1, RefitType DEF Fits
<1>8. f.n < WINDOW => f.head = f.n
  BY <1>1, <1>2, <1>5 DEF Slots
<1>9. ASSUME NEW i \in Slots PROVE (samples[i] # NoSample) <=> i < f.n
  <2>1. e.head \in 0 .. WINDOW - 1 /\ i \in 0 .. WINDOW - 1 /\ WINDOW \in Nat
    BY <1>2 DEF Slots
  <2>2. CASE i = e.head
    <3>1. samples[i] # NoSample
      BY <1>3, <1>4, <2>2
    <3>2. i < f.n
      BY <1>1, <1>2, <2>1, <2>2
    <3> QED
      BY <3>1, <3>2
  <2>3. CASE i # e.head
    <3>1. (samples[i] # NoSample) <=> i < e.n
      BY <1>2, <1>3, <2>3
    <3>2. i < f.n <=> i < e.n
      BY <1>1, <1>2, <2>1, <2>3
    <3> QED
      BY <3>1, <3>2
  <2> QED
    BY <2>2, <2>3
<1> QED
  BY <1>1, <1>3, <1>4, <1>6, <1>7, <1>8, <1>9 DEF Ring, f

\* What an observation does to a query's chances, and to the observations of the ring.
LEMMA RingGrows ==
  ASSUME NEW e, Ring(e), NEW s \in Observation
  PROVE  /\ e.n <= observe(e, s).n
         /\ \A i \in Slots : observe(e, s).samples[i] \in {s, e.samples[i]}
  BY EstimatorAssumption DEF Ring, observe

LEMMA FitKept ==
  ASSUME NEW e, Ring(e), NEW s \in Observation
  PROVE  FitOfRing(observe(e, s))
<1> DEFINE f == observe(e, s)
           ring == f.samples
<1>1. f.fit = refit(ring, e.fit)
  BY DEF observe
<1>2. Ring(f)
  BY RingKept
<1> HIDE DEF f
<1>3. SUFFICES ASSUME f.n >= MIN_SAMPLES
               PROVE  /\ f.fit.offset_ns = MeanOffset(ring)
                      /\ f.fit.residual_us_p95 = Least(2 * StdUs(ring, MeanOffset(ring)), U32_MAX)
  BY DEF FitOfRing, f
<1>4. Cardinality(Occupied(ring)) = f.n /\ f.n \in Nat /\ MIN_SAMPLES \in Nat
  BY <1>2, RingOccupied, EstimatorAssumption DEF Ring
<1> HIDE DEF ring
<1>5. ~ (Cardinality(Occupied(ring)) < MIN_SAMPLES)
  BY <1>3, <1>4
<1>6. refit(ring, e.fit) =
        [offset_ns       |-> MeanOffset(ring),
         drift_ppb       |-> DriftBetween(ring[Oldest(ring)], ring[Newest(ring)]),
         residual_us_p95 |-> Least(2 * StdUs(ring, MeanOffset(ring)), U32_MAX)]
  BY <1>5 DEF refit
<1> QED
  BY <1>1, <1>6

=============================================================================
