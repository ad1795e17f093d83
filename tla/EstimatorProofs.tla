--------------------------- MODULE EstimatorProofs ---------------------------
(***************************************************************************)
(* What Estimator promises, for every size of the window, slope and        *)
(* sequence of observations; and, in the last part, what Trackers does of  *)
(* the least-squares tracker, which shares the estimator's arithmetic.     *)
(***************************************************************************)
EXTENDS Estimator, Trackers, EstimatorOpsProofs, SequenceTheorems

-----------------------------------------------------------------------------
(* The ring and its slots.                                                 *)

\* As many slots are occupied as observations are counted, those before n.
LEMMA OccupiedSlots ==
  ASSUME TypeOK
  PROVE  /\ Occupied(est.samples) = 0 .. est.n - 1
         /\ Cardinality(Occupied(est.samples)) = est.n
         /\ IntegerRing(est.samples)
<1> USE EstimatorAssumption, SampleAssumption
<1>1. est.n \in 0..WINDOW /\ WINDOW \in Nat
  BY DEF TypeOK
<1>2. Occupied(est.samples) = 0 .. est.n - 1
  BY <1>1 DEF TypeOK, Occupied, Slots
<1>3. Cardinality(0 .. est.n - 1) = est.n
  <2>1. 0 \in Int /\ est.n - 1 \in Int
    BY <1>1
  <2>2. Cardinality(0 .. est.n - 1) = IF 0 > est.n - 1 THEN 0 ELSE est.n - 1 - 0 + 1
    BY <2>1, FS_Interval
  <2> QED
    BY <1>1, <2>2
<1>4. IntegerRing(est.samples)
  BY DEF TypeOK, IntegerRing, Occupied
<1> QED
  BY <1>2, <1>3, <1>4

\* What TypeOK says of the ring.
LEMMA RingOfSamples ==
  ASSUME TypeOK
  PROVE  Ring(est)
<1>1. Sample \subseteq Observation
  BY SampleAssumption DEF Observation
<1>2. est.samples \in [Slots -> Observation \cup {NoSample}]
  BY <1>1 DEF TypeOK
<1> QED
  BY <1>2 DEF TypeOK, Ring, Fit, Fits

\* TypeOK: an observation goes to the slot that head names, head and n keep step, and
\* refit's numbers stay integers.
THEOREM TypeCorrect == Spec => []TypeOK
<1> USE EstimatorAssumption, SampleAssumption
<1>1. Init => TypeOK
  <2> SUFFICES ASSUME Init PROVE TypeOK
    OBVIOUS
  <2>1. est = new /\ 0 \in Slots
    BY DEF Init, Slots
  <2>2. est.n = 0 /\ est.head = 0 /\ \A i \in Slots : est.samples[i] = NoSample
    BY <2>1 DEF new
  <2>3. \A i \in Slots : ~ (i < 0)
    BY DEF Slots
  <2> QED
    BY <2>1, <2>2, <2>3 DEF new, TypeOK, Fit
<1>2. TypeOK /\ [Next]_vars => TypeOK'
  <2> SUFFICES ASSUME TypeOK, [Next]_vars PROVE TypeOK'
    OBVIOUS
  <2>1. CASE UNCHANGED vars
    BY <2>1 DEF vars, TypeOK
  <2>2. ASSUME NEW s \in Sample, Observe(s) PROVE TypeOK'
    <3>1. Ring(est) /\ s \in Observation
      BY RingOfSamples DEF Observation
    <3>2. Ring(est')
      BY <2>2, <3>1, RingKept DEF Observe
    <3>3. est'.samples = [est.samples EXCEPT ![est.head] = s] /\ est'.last_update_us = s.local_us
      BY <2>2 DEF Observe, observe
    <3>4. est'.samples \in [Slots -> Sample \cup {NoSample}] /\ est'.last_update_us \in Nat
      BY <3>3 DEF TypeOK
    <3> QED
      BY <3>2, <3>4 DEF TypeOK, Ring, Fit, Fits
  <2> QED
    BY <2>1, <2>2 DEF Next
<1> QED
  BY <1>1, <1>2, PTL DEF Spec

-----------------------------------------------------------------------------
(* The ring as a queue.                                                    *)

\* The window's places are exactly the occupied slots, each once.
LEMMA PlacesAreSlots ==
  ASSUME TypeOK
  PROVE  /\ \A j \in 1..est.n : SlotOf(j) \in Occupied(est.samples)
         /\ \A i \in Occupied(est.samples) : \E j \in 1..est.n : SlotOf(j) = i
         /\ \A j, k \in 1..est.n : SlotOf(j) = SlotOf(k) => j = k
         /\ \A j \in 1..est.n : Window[j] = est.samples[SlotOf(j)]
<1> DEFINE n == est.n
           h == est.head
<1>1. WINDOW \in Nat \ {0} /\ n \in 0..WINDOW /\ h \in 0 .. WINDOW - 1
  BY EstimatorAssumption DEF TypeOK, Slots
<1>2. n < WINDOW => h = n
  BY DEF TypeOK
<1>3. Occupied(est.samples) = 0 .. n - 1
  BY OccupiedSlots
<1>4. \A j : SlotOf(j) = IF h - n + j - 1 < 0 THEN h - n + j - 1 + WINDOW ELSE h - n + j - 1
  BY DEF SlotOf
<1>5. \A j \in 1..n : Window[j] = est.samples[SlotOf(j)]
  BY DEF Window
<1> HIDE DEF n, h
<1>6. ASSUME NEW j \in 1..n PROVE SlotOf(j) \in 0 .. n - 1
  BY <1>1, <1>2, <1>4
<1>7. ASSUME NEW i \in 0 .. n - 1 PROVE \E j \in 1..n : SlotOf(j) = i
  <2> DEFINE j == IF i < h THEN i - h + n + 1 ELSE i - h + n + 1 - WINDOW
  <2>1. j \in 1..n /\ SlotOf(j) = i
    BY <1>1, <1>2, <1>4
  <2> QED
    BY <2>1
<1>8. ASSUME NEW j \in 1..n, NEW k \in 1..n, SlotOf(j) = SlotOf(k) PROVE j = k
  BY <1>1, <1>2, <1>4, <1>8
<1> QED
  BY <1>3, <1>5, <1>6, <1>7, <1>8 DEF n

\* How the queue changes when it grows, and when it is full.
LEMMA QueueGrows ==
  ASSUME NEW S, NEW n \in Nat, NEW w \in [1..n -> S], NEW s \in S,
         NEW v \in [1..n+1 -> S], v[n + 1] = s, \A j \in 1..n : v[j] = w[j]
  PROVE  Len(w) = n /\ v = Append(w, s)
<1>1. w \in Seq(S) /\ Len(w) = n
  OBVIOUS
<1>2. Append(w, s) \in Seq(S) /\ Len(Append(w, s)) = n + 1
  BY <1>1
<1>3. Append(w, s) \in [1..n+1 -> S]
  BY <1>2, LenProperties
<1>4. \A j \in 1..n+1 : Append(w, s)[j] = v[j]
  BY <1>1
<1> QED
  BY <1>1, <1>3, <1>4

LEMMA QueueShifts ==
  ASSUME NEW S, NEW n \in Nat \ {0}, NEW w \in [1..n -> S], NEW s \in S,
         NEW v \in [1..n -> S], v[n] = s, \A j \in 1 .. n - 1 : v[j] = w[j + 1]
  PROVE  Len(w) = n /\ v = Append(Tail(w), s)
<1> DEFINE t == Tail(w)
<1>1. w \in Seq(S) /\ Len(w) = n
  OBVIOUS
<1>2. t \in [1 .. n - 1 -> S] /\ \A j \in 1 .. n - 1 : t[j] = w[j + 1]
  <2>1. t \in Seq(S) /\ Len(t) = n - 1
    BY <1>1
  <2>2. t \in [1 .. n - 1 -> S]
    BY <2>1, LenProperties
  <2> QED
    BY <1>1, <2>2
<1> DEFINE m == n - 1
<1>3. m \in Nat /\ t \in [1..m -> S] /\ v \in [1..m+1 -> S] /\ v[m + 1] = s
      /\ \A j \in 1..m : v[j] = t[j]
  BY <1>2
<1> HIDE DEF m, t
<1>4. v = Append(t, s)
  BY <1>3, QueueGrows
<1> QED
  BY <1>1, <1>4 DEF t

\* RefinesWindow: the ring holds the most recent WINDOW observations in order, for
\* every size of the ring, so that what observe overwrites is always the oldest.
THEOREM RingIsWindow == Spec => RefinesWindow
<1> USE EstimatorAssumption
<1>1. Init => SW!Init
  <2> SUFFICES ASSUME Init PROVE Window = << >>
    BY DEF SW!Init
  <2>1. est.n = 0
    BY DEF Init, new
  <2> QED
    BY <2>1 DEF Window
<1>2. TypeOK /\ TypeOK' /\ [Next]_vars => [SW!Next]_Window
  <2> SUFFICES ASSUME TypeOK, TypeOK', [Next]_vars PROVE [SW!Next]_Window
    OBVIOUS
  <2>1. CASE UNCHANGED vars
    <3>1. est' = est
      BY <2>1 DEF vars
    <3> QED
      BY <3>1 DEF Window, SlotOf
  <2>2. ASSUME NEW s \in Sample, Observe(s) PROVE SW!Observe(s)
    <3> DEFINE n == est.n
               h == est.head
    <3>1. /\ est'.samples = [est.samples EXCEPT ![h] = s]
          /\ est'.head = IF h + 1 = WINDOW THEN 0 ELSE h + 1
          /\ est'.n = IF n < WINDOW THEN n + 1 ELSE n
      <4>1. est'.head = (h + 1) % WINDOW /\ h \in Slots
        BY <2>2 DEF Observe, observe, TypeOK
      <4> QED
        BY <2>2, <4>1, NextSlot DEF Observe, observe
    <3>2. /\ WINDOW \in Nat \ {0} /\ n \in 0..WINDOW /\ h \in 0 .. WINDOW - 1
          /\ n < WINDOW => h = n
          /\ DOMAIN est.samples = 0 .. WINDOW - 1
      BY DEF TypeOK, Slots
    <3>3. Window \in [1..n -> Sample] /\ \A j \in 1..n : Window[j] = est.samples[SlotOf(j)]
      <4>1. \A j \in 1..n : SlotOf(j) \in Slots /\ est.samples[SlotOf(j)] # NoSample
        BY PlacesAreSlots DEF Occupied
      <4>2. \A j \in 1..n : est.samples[SlotOf(j)] \in Sample
        BY <4>1 DEF TypeOK
      <4> QED
        BY <4>2 DEF Window
    <3>4. Window' = [j \in 1..est'.n |-> est'.samples[SlotOf(j)']]
      BY DEF Window
    <3>5. \A j : SlotOf(j) = IF h - n + j - 1 < 0 THEN h - n + j - 1 + WINDOW ELSE h - n + j - 1
      BY DEF SlotOf
    <3>6. \A j : SlotOf(j)' = IF est'.head - est'.n + j - 1 < 0
                            THEN est'.head - est'.n + j - 1 + WINDOW
                            ELSE est'.head - est'.n + j - 1
      BY DEF SlotOf
    <3>7. \A i \in 0 .. WINDOW - 1 : est'.samples[i] = IF i = h THEN s ELSE est.samples[i]
      BY <3>1, <3>2
    <3> HIDE DEF n, h
    <3>8. CASE n < WINDOW
      <4>1. est'.n = n + 1 /\ h = n
        BY <3>1, <3>2, <3>8
      <4>2. ASSUME NEW j \in 1..n+1 PROVE SlotOf(j)' = j - 1
        BY <3>1, <3>2, <3>6, <3>8, <4>1
      <4>3. ASSUME NEW j \in 1..n PROVE SlotOf(j) = j - 1
        BY <3>2, <3>5, <3>8, <4>1
      <4>4. ASSUME NEW j \in 1..n+1
            PROVE  est'.samples[SlotOf(j)'] = IF j = n + 1 THEN s ELSE Window[j]
        <5>1. j - 1 \in 0 .. WINDOW - 1
          BY <3>2, <3>8
        <5>2. est'.samples[SlotOf(j)'] = IF j - 1 = h THEN s ELSE est.samples[j - 1]
          BY <3>7, <4>2, <5>1
        <5>3. CASE j = n + 1
          BY <3>2, <4>1, <5>2, <5>3
        <5>4. CASE j # n + 1
          <6>1. j \in 1..n /\ j - 1 # h
            BY <3>2, <4>1, <5>4
          <6> QED
            BY <3>3, <4>3, <5>2, <5>4, <6>1
        <5> QED
          BY <5>3, <5>4
      <4>5. /\ Window' \in [1..n+1 -> Sample]
            /\ Window'[n + 1] = s
            /\ \A j \in 1..n : Window'[j] = Window[j]
        BY <3>2, <3>3, <3>4, <4>1, <4>4
      <4>6. Window' = Append(Window, s) /\ Len(Window) = n
        <5> DEFINE w == Window
                   v == Window'
        <5>1. n \in Nat /\ w \in [1..n -> Sample] /\ v \in [1..n+1 -> Sample] /\ v[n + 1] = s
              /\ \A j \in 1..n : v[j] = w[j]
          BY <3>2, <3>3, <4>5
        <5> HIDE DEF w, v
        <5>2. Len(w) = n /\ v = Append(w, s)
          BY <5>1, QueueGrows
        <5> QED
          BY <5>2 DEF w, v
      <4> QED
        BY <3>8, <4>6 DEF SW!Observe
    <3>9. CASE n = WINDOW
      <4>1. est'.n = n
        BY <3>1, <3>2, <3>9
      <4>2. ASSUME NEW j \in 1..n
            PROVE  SlotOf(j)' = IF h + j < WINDOW THEN h + j ELSE h + j - WINDOW
        <5> DEFINE hd == est'.head
        <5>1. SlotOf(j)' = IF hd - n + j - 1 < 0 THEN hd - n + j - 1 + WINDOW ELSE hd - n + j - 1
          BY <3>6, <4>1
        <5>2. hd = IF h + 1 = WINDOW THEN 0 ELSE h + 1
          BY <3>1
        <5>3. n \in Nat /\ h \in 0 .. WINDOW - 1 /\ WINDOW \in Nat \ {0}
          BY <3>2
        <5> HIDE DEF hd
        <5> QED
          BY <3>9, <5>1, <5>2, <5>3
      <4>3. ASSUME NEW j \in 1..n
            PROVE  SlotOf(j) = IF h + j - 1 < WINDOW THEN h + j - 1 ELSE h + j - 1 - WINDOW
        BY <3>2, <3>5, <3>9
      <4>4. ASSUME NEW j \in 1..n
            PROVE  est'.samples[SlotOf(j)'] = IF j = n THEN s ELSE Window[j + 1]
        <5>1. CASE j = n
          <6>1. SlotOf(j)' = h
            BY <3>2, <3>9, <4>2, <5>1
          <6> QED
            BY <3>2, <3>7, <5>1, <6>1
        <5>2. CASE j # n
          <6>1. j + 1 \in 1..n
            BY <3>2, <5>2
          <6>2. SlotOf(j)' = SlotOf(j + 1)
            <7>1. SlotOf(j + 1) = IF h + (j + 1) - 1 < WINDOW THEN h + (j + 1) - 1
                                                              ELSE h + (j + 1) - 1 - WINDOW
              BY <4>3, <6>1
            <7>2. SlotOf(j)' = IF h + j < WINDOW THEN h + j ELSE h + j - WINDOW
              BY <4>2
            <7> QED
              BY <3>2, <7>1, <7>2
          <6>3. SlotOf(j)' # h /\ SlotOf(j)' \in 0 .. WINDOW - 1
            BY <3>2, <3>9, <4>2, <5>2
          <6> QED
            BY <3>3, <3>7, <5>2, <6>1, <6>2, <6>3
        <5> QED
          BY <5>1, <5>2
      <4>5. /\ Window' \in [1..n -> Sample]
            /\ Window'[n] = s
            /\ \A j \in 1 .. n - 1 : Window'[j] = Window[j + 1]
        BY <3>2, <3>3, <3>4, <3>9, <4>1, <4>4
      <4>6. Window' = Append(Tail(Window), s) /\ Len(Window) = n
        <5> DEFINE w == Window
                   v == Window'
        <5>1. n \in Nat \ {0} /\ w \in [1..n -> Sample] /\ v \in [1..n -> Sample] /\ v[n] = s
              /\ \A j \in 1 .. n - 1 : v[j] = w[j + 1]
          BY <3>2, <3>3, <3>9, <4>5
        <5> HIDE DEF w, v
        <5>2. Len(w) = n /\ v = Append(Tail(w), s)
          BY <5>1, QueueShifts
        <5> QED
          BY <5>2 DEF w, v
      <4> QED
        BY <3>2, <3>9, <4>6 DEF SW!Observe
    <3> QED
      BY <3>2, <3>8, <3>9
  <2> QED
    BY <2>1, <2>2 DEF Next, SW!Next
<1> QED
  BY <1>1, <1>2, TypeCorrect, PTL DEF Spec, RefinesWindow, SW!Spec

-----------------------------------------------------------------------------
(* The answers.                                                            *)

\* Once there are enough observations, the fit is that of the ring: what the queries
\* use is never left from an earlier window.
Fitted ==
  est.n >= MIN_SAMPLES =>
    LET mean == MeanOffset(est.samples)
    IN  /\ est.fit.offset_ns = mean
        /\ est.fit.residual_us_p95 = Least(2 * StdUs(est.samples, mean), U32_MAX)

LEMMA FitIsOfRing == Spec => [](TypeOK /\ Fitted)
<1> USE EstimatorAssumption
<1>1. Init => Fitted
  BY DEF Init, new, Fitted
<1>2. TypeOK => Cardinality(Occupied(est.samples)) = est.n
  BY OccupiedSlots
<1>3. TypeOK' => (Cardinality(Occupied(est.samples)) = est.n)'
  BY <1>2, PTL
<1>4. TypeOK' /\ Fitted /\ [Next]_vars => Fitted'
  <2> SUFFICES ASSUME TypeOK', Fitted, [Next]_vars PROVE Fitted'
    OBVIOUS
  <2>1. CASE UNCHANGED vars
    BY <2>1 DEF vars, Fitted
  <2>2. ASSUME NEW s \in Sample, Observe(s), est'.n >= MIN_SAMPLES
        PROVE  /\ est'.fit.offset_ns = MeanOffset(est'.samples)
               /\ est'.fit.residual_us_p95 =
                    Least(2 * StdUs(est'.samples, MeanOffset(est'.samples)), U32_MAX)
    <3> DEFINE ring == est'.samples
    <3>1. est'.fit = refit(ring, est.fit)
      BY <2>2 DEF Observe, observe
    <3>2. Cardinality(Occupied(ring)) = est'.n
      BY <1>3
    <3>3. ~ (Cardinality(Occupied(ring)) < MIN_SAMPLES)
      BY <2>2, <3>2 DEF TypeOK
    <3> HIDE DEF ring
    <3>4. refit(ring, est.fit) =
            [offset_ns       |-> MeanOffset(ring),
             drift_ppb       |-> DriftBetween(ring[Oldest(ring)], ring[Newest(ring)]),
             residual_us_p95 |-> Least(2 * StdUs(ring, MeanOffset(ring)), U32_MAX)]
      BY <3>3 DEF refit
    <3> QED
      BY <3>1, <3>4 DEF ring
  <2> QED
    BY <2>1, <2>2 DEF Next, Fitted
<1> QED
  BY <1>1, <1>4, TypeCorrect, PTL DEF Spec

\* A ring with enough observations can be averaged.
LEMMA EnoughOccupied ==
  ASSUME TypeOK, est.n >= MIN_SAMPLES
  PROVE  Occupied(est.samples) # {} /\ IntegerRing(est.samples)
<1>1. est.n \in Nat /\ est.n > 0
  BY EstimatorAssumption DEF TypeOK
<1> QED
  BY <1>1, OccupiedSlots

\* AnswersWithinWindow: synced_ns_at answers between what the observations of the
\* window say, and refuses only what too few of them or one of them refuses.
THEOREM AnswersCorrect == Spec => []AnswersWithinWindow
<1> USE EstimatorAssumption
<1>1. TypeOK /\ Fitted => AnswersWithinWindow
  <2> SUFFICES ASSUME TypeOK, Fitted, NEW x \in Readings
               PROVE  LET at(j) == OffsetOf(Window[j]) + NsPerUs * x
                          answer == synced_ns_at(est, x)
                      IN  IF answer = None
                          THEN est.n < MIN_SAMPLES \/ \E j \in 1..est.n : at(j) < 0
                          ELSE /\ est.n >= MIN_SAMPLES
                               /\ \E j \in 1..est.n : at(j) <= answer
                               /\ \E j \in 1..est.n : at(j) >= answer
    BY DEF AnswersWithinWindow
  <2> DEFINE ring == est.samples
             occupied == Occupied(ring)
             base == NsPerUs * x
             mean == MeanOffset(ring)
             at(j) == OffsetOf(Window[j]) + base
  <2>1. base \in Int /\ est.n \in Nat
    BY SampleAssumption DEF TypeOK
  <2>2. \A i \in occupied : OffsetOf(ring[i]) \in Int
    BY OccupiedSlots DEF IntegerRing, OffsetOf
  <2>3. \A i \in occupied : \E j \in 1..est.n : Window[j] = ring[i]
    BY PlacesAreSlots
  <2>4. CASE est.n < MIN_SAMPLES
    BY <2>4 DEF synced_ns_at
  <2>5. CASE est.n >= MIN_SAMPLES
    <3>1. occupied # {} /\ IntegerRing(ring)
      BY <2>5, EnoughOccupied
    <3>2. /\ mean \in Int
          /\ \A c \in Int : (\A i \in occupied : c <= OffsetOf(ring[i])) => c <= mean
          /\ \A d \in Int : (\A i \in occupied : OffsetOf(ring[i]) <= d) => mean <= d
      BY <3>1, MeanBetween
    <3>3. synced_ns_at(est, x) = IF mean + base < 0 THEN None ELSE mean + base
      <4>1. est.fit.offset_ns = mean /\ ~ (est.n < MIN_SAMPLES)
        BY <2>1, <2>5 DEF Fitted
      <4> QED
        BY <4>1 DEF synced_ns_at
    <3> HIDE DEF mean, base, occupied, ring
    <3>4. \E i \in occupied : OffsetOf(ring[i]) <= mean
      <4> SUFFICES ASSUME \A i \in occupied : ~ (OffsetOf(ring[i]) <= mean) PROVE FALSE
        OBVIOUS
      <4>1. mean + 1 \in Int /\ \A i \in occupied : mean + 1 <= OffsetOf(ring[i])
        BY <2>2, <3>2
      <4>2. mean + 1 <= mean
        BY <3>2, <4>1
      <4> QED
        BY <3>2, <4>2
    <3>5. \E i \in occupied : OffsetOf(ring[i]) >= mean
      <4> SUFFICES ASSUME \A i \in occupied : ~ (OffsetOf(ring[i]) >= mean) PROVE FALSE
        OBVIOUS
      <4>1. mean - 1 \in Int /\ \A i \in occupied : OffsetOf(ring[i]) <= mean - 1
        BY <2>2, <3>2
      <4>2. mean <= mean - 1
        BY <3>2, <4>1
      <4> QED
        BY <3>2, <4>2
    <3>6. \E j \in 1..est.n : at(j) <= mean + base
      <4>1. PICK i \in occupied : OffsetOf(ring[i]) <= mean
        BY <3>4
      <4>2. PICK j \in 1..est.n : Window[j] = ring[i]
        BY <2>3
      <4> QED
        BY <2>1, <2>2, <3>2, <4>1, <4>2
    <3>7. \E j \in 1..est.n : at(j) >= mean + base
      <4>1. PICK i \in occupied : OffsetOf(ring[i]) >= mean
        BY <3>5
      <4>2. PICK j \in 1..est.n : Window[j] = ring[i]
        BY <2>3
      <4> QED
        BY <2>1, <2>2, <3>2, <4>1, <4>2
    <3>8. CASE mean + base < 0
      <4>1. synced_ns_at(est, x) = None
        BY <3>3, <3>8
      <4>2. PICK j \in 1..est.n : at(j) <= mean + base
        BY <3>6
      <4>3. at(j) \in Int
        BY <2>1, <2>2, PlacesAreSlots DEF occupied, ring
      <4>4. at(j) < 0
        BY <2>1, <3>2, <3>8, <4>2, <4>3
      <4> QED
        BY <4>1, <4>4 DEF base
    <3>9. CASE ~ (mean + base < 0)
      <4>1. synced_ns_at(est, x) = mean + base
        BY <3>3, <3>9
      <4>2. synced_ns_at(est, x) # None
        BY <2>1, <3>2, <4>1
      <4> QED
        BY <2>5, <3>6, <3>7, <4>1, <4>2 DEF base
    <3> QED
      BY <3>8, <3>9
  <2> QED
    BY <2>1, <2>4, <2>5
<1> QED
  BY <1>1, FitIsOfRing, PTL

\* ResidualCovers: the residual of quality() bounds more than three quarters of the
\* window, whatever the ring's size and the observations, with all the rounding down.
THEOREM ResidualBounds == Spec => []ResidualCovers
<1> USE EstimatorAssumption
<1>1. TypeOK /\ Fitted => ResidualCovers
  <2> DEFINE ring == est.samples
             mean == est.fit.offset_ns
             p95 == quality(est).residual_us_p95
             far == {j \in 1..est.n : ResidualUs(Window[j], mean) >= p95 + 2}
             slots == {SlotOf(j) : j \in far}
  <2> SUFFICES ASSUME TypeOK, Fitted, est.n >= MIN_SAMPLES, p95 < U32_MAX
               PROVE  4 * Cardinality(far) < est.n
    BY DEF ResidualCovers
  <2>1. Occupied(ring) # {} /\ IntegerRing(ring) /\ Cardinality(Occupied(ring)) = est.n
    BY EnoughOccupied, OccupiedSlots
  <2>2. mean \in Int /\ est.n \in Nat
    BY DEF TypeOK, Fit
  <2>3. StdUs(ring, mean) \in Nat
    BY <2>1, <2>2, StdUsType
  <2>4. p95 = 2 * StdUs(ring, mean)
    <3>1. mean = MeanOffset(ring) /\ est.fit.residual_us_p95 = Least(2 * StdUs(ring, mean), U32_MAX)
      BY DEF Fitted
    <3>2. p95 = Least(2 * StdUs(ring, mean), U32_MAX)
      BY <3>1 DEF quality
    <3> QED
      BY <2>3, <3>2 DEF Least
  <2>5. far \subseteq 1..est.n /\ IsFiniteSet(far)
    <3>1. 1 \in Int /\ est.n \in Int
      BY <2>2
    <3>2. IsFiniteSet(1..est.n)
      BY <3>1, FS_Interval
    <3> QED
      BY <3>2, FS_Subset
  <2>6. slots \in SUBSET Occupied(ring)
    BY PlacesAreSlots
  <2>7. \A i \in slots : ResidualUs(ring[i], mean) >= 2 * StdUs(ring, mean) + 2
    <3> SUFFICES ASSUME NEW j \in far
                 PROVE  ResidualUs(ring[SlotOf(j)], mean) >= 2 * StdUs(ring, mean) + 2
      OBVIOUS
    <3>1. Window[j] = ring[SlotOf(j)]
      BY <2>5, PlacesAreSlots
    <3>2. ResidualUs(Window[j], mean) >= p95 + 2
      OBVIOUS
    <3> QED
      BY <2>4, <3>1, <3>2
  <2>8. Cardinality(slots) = Cardinality(far)
    <3> DEFINE f == [j \in far |-> SlotOf(j)]
    <3>1. \A j, k \in far : SlotOf(j) = SlotOf(k) => j = k
      BY <2>5, PlacesAreSlots
    <3> HIDE DEF far
    <3>2. f \in Bijection(far, slots)
      BY <3>1 DEF Bijection, Injection, Surjection, IsInjective
    <3> HIDE DEF f, slots
    <3> QED
      BY <2>5, <3>2, FS_Bijection DEF ExistsBijection
  <2> HIDE DEF ring, mean, far, slots, p95
  <2>9. 4 * Cardinality(slots) < Cardinality(Occupied(ring))
    BY <2>1, <2>2, <2>6, <2>7, FewFarResiduals
  <2> QED
    BY <2>1, <2>8, <2>9
<1> QED
  BY <1>1, FitIsOfRing, PTL

\* InverseConsistent: local_us_at undoes synced_ns_at exactly, and synced_ns_at undoes
\* local_us_at to within a microsecond, for every fit an estimator can have.
THEOREM QueriesInverse == Spec => []InverseConsistent
<1> USE EstimatorAssumption
<1>1. TypeOK => InverseConsistent
  <2> SUFFICES ASSUME TypeOK PROVE InverseConsistent
    OBVIOUS
  <2> DEFINE off == est.fit.offset_ns
             few == est.n < MIN_SAMPLES
  <2>1. off \in Int
    BY DEF TypeOK, Fit
  <2>2. \A x : synced_ns_at(est, x) =
           IF few \/ off + NsPerUs * x < 0 THEN None ELSE off + NsPerUs * x
    BY DEF synced_ns_at
  <2>3. \A t : local_us_at(est, t) =
           IF few \/ t - off < 0 THEN None ELSE (t - off) \div NsPerUs
    BY DEF local_us_at
  <2> HIDE DEF off, few
  <2>4. ASSUME NEW x \in Readings, synced_ns_at(est, x) # None
        PROVE  local_us_at(est, synced_ns_at(est, x)) = x
    <3> DEFINE t == off + NsPerUs * x
    <3>1. x \in Nat /\ NsPerUs * x \in Nat
      BY SampleAssumption
    <3>2. ~ few /\ synced_ns_at(est, x) = t
      BY <2>2, <2>4
    <3>3. t - off = NsPerUs * x
      BY <2>1, <3>1
    <3>4. (NsPerUs * x) \div NsPerUs = x
      BY <3>1
    <3>5. local_us_at(est, t) = (t - off) \div NsPerUs
      BY <2>3, <3>1, <3>2, <3>3
    <3> QED
      BY <3>2, <3>3, <3>4, <3>5
  <2>5. ASSUME NEW t \in Times, local_us_at(est, t) # None
        PROVE  LET back == synced_ns_at(est, local_us_at(est, t))
               IN  IF back = None THEN t < NsPerUs ELSE back \in t - NsPerUs + 1 .. t
    <3> DEFINE x == (t - off) \div NsPerUs
               back == off + NsPerUs * x
    <3>1. t \in Nat /\ NsPerUs \in Nat \ {0}
      BY SampleAssumption
    <3>2. ~ few /\ t - off >= 0 /\ local_us_at(est, t) = x
      BY <2>1, <2>3, <2>5, <3>1
    <3>3. x \in Nat /\ NsPerUs * x <= t - off /\ t - off < NsPerUs * x + NsPerUs
      BY <2>1, <3>1, <3>2
    <3>4. synced_ns_at(est, x) = IF back < 0 THEN None ELSE back
      BY <2>2, <3>2
    <3> HIDE DEF x
    <3>5. NsPerUs * x \in Nat
      BY <3>1, <3>3
    <3> HIDE DEF back
    <3>6. back \in Int /\ back <= t /\ t < back + NsPerUs
      BY <2>1, <3>1, <3>3, <3>5 DEF back
    <3>7. CASE back < 0
      <4>1. synced_ns_at(est, x) = None /\ t < NsPerUs
        BY <3>1, <3>4, <3>6, <3>7
      <4> QED
        BY <3>2, <4>1
    <3>8. CASE ~ (back < 0)
      <4>1. synced_ns_at(est, x) = back /\ back # None
        BY <3>4, <3>6, <3>8
      <4>2. back \in t - NsPerUs + 1 .. t
        BY <3>1, <3>6
      <4> QED
        BY <3>2, <4>1, <4>2
    <3> QED
      BY <3>7, <3>8
  <2> QED
    BY <2>4, <2>5 DEF InverseConsistent
<1> QED
  BY <1>1, TypeCorrect, PTL

-----------------------------------------------------------------------------
(* The least-squares tracker: what Trackers promises of it, for every size  *)
(* of its ring, scale of its slope and sequence of observations.  Its ring, *)
(* its least number of points and its slope are not the estimator's.        *)

\* What the proofs use of the constants.
LEMMA TrackerConstants ==
  /\ N \in Nat \ {0} /\ MIN_POINTS \in 1..N /\ SlopeQ \in Nat \ {0}
  /\ NoPoint \notin [x : Int, y : Int]
  /\ SlopeQ \div 2 \in Nat /\ 2 * (SlopeQ \div 2) = SlopeQ
  /\ Gaps \subseteq Int /\ Observed \cup {Outlier} \subseteq Int /\ Settled \in Int
<1>1. N \in Nat \ {0} /\ SlopeQ \in Nat \ {0} /\ MIN_POINTS \in Nat \ {0} /\ MIN_POINTS <= N
      /\ SlopeQ % 2 = 0
  BY TrackersAssumption DEF TrackersAssumption
<1>2. /\ NoPoint \notin [x : Int, y : Int]
      /\ Gaps \subseteq Int /\ Observed \cup {Outlier} \subseteq Int /\ Settled \in Int
  BY TrackersAssumption DEF TrackersAssumption
<1>3. SlopeQ \div 2 \in Nat /\ 2 * (SlopeQ \div 2) = SlopeQ
  BY <1>1
<1> QED
  BY <1>1, <1>2, <1>3

\* The instance computes as this module does.
LEMMA SameArithmetic ==
  /\ \A a, b : LT!TruncDiv(a, b) = TruncDiv(a, b)
  /\ \A a, b, c : LT!Clamp(a, b, c) = Clamp(a, b, c)
  /\ \A a, b : LT!Least(a, b) = Least(a, b)
  /\ \A S : LT!Cardinality(S) = Cardinality(S)
  BY DEF LT!TruncDiv, TruncDiv, LT!Magnitude, Magnitude, LT!Clamp, Clamp, LT!Least, Least,
         LT!Cardinality, Cardinality

Spots == 0 .. N - 1

PointsOf(t) == LT!Points(t)

\* A tracker fills its ring from the first slot on, and its slope is clamped.
Tracker(t) ==
  /\ t \in [samples : [Spots -> [x : Int, y : Int] \cup {NoPoint}], head : Spots, n : 0..N,
            last_x : Int, mean_x : Int, mean_y : Int,
            slope_q32 : -(SlopeQ \div 2) .. SlopeQ \div 2]
  /\ t.n < N => t.head = t.n
  /\ \A i \in Spots : (t.samples[i] # NoPoint) <=> i < t.n

\* x and y lie between any bounds the points have.
Central(t, x, y) ==
  \A c \in Int :
    /\ (\A i \in PointsOf(t) : c <= t.samples[i].x) => c <= x
    /\ (\A i \in PointsOf(t) : t.samples[i].x <= c) => x <= c
    /\ (\A i \in PointsOf(t) : c <= t.samples[i].y) => c <= y
    /\ (\A i \in PointsOf(t) : t.samples[i].y <= c) => y <= c

\* The line is that of the points it holds, unless these are at one x.
Anchored(t) ==
  t.n >= MIN_POINTS /\ (\E i, j \in PointsOf(t) : t.samples[i].x # t.samples[j].x)
    => Central(t, t.mean_x, t.mean_y)

LEMMA TrackerPoints ==
  ASSUME NEW t, Tracker(t)
  PROVE  /\ PointsOf(t) = 0 .. t.n - 1 /\ PointsOf(t) \subseteq Spots
         /\ IsFiniteSet(PointsOf(t)) /\ Cardinality(PointsOf(t)) = t.n /\ t.n \in Nat
         /\ \A i \in PointsOf(t) :
              /\ t.samples[i] = [x |-> t.samples[i].x, y |-> t.samples[i].y]
              /\ t.samples[i].x \in Int /\ t.samples[i].y \in Int
         /\ \A i \in Spots : t.samples[i] = NoPoint <=> i \notin PointsOf(t)
<1>1. t.n \in 0..N /\ N \in Nat /\ \A i \in Spots : (t.samples[i] # NoPoint) <=> i < t.n
  BY TrackerConstants DEF Tracker
<1>2. PointsOf(t) = 0 .. t.n - 1
  BY <1>1 DEF PointsOf, Spots, LT!Points
<1>3. IsFiniteSet(0 .. t.n - 1) /\ Cardinality(0 .. t.n - 1) = t.n
  <2>1. 0 \in Int /\ t.n - 1 \in Int
    BY <1>1
  <2>2. IsFiniteSet(0 .. t.n - 1)
        /\ Cardinality(0 .. t.n - 1) = IF 0 > t.n - 1 THEN 0 ELSE t.n - 1 - 0 + 1
    BY <2>1, FS_Interval
  <2> QED
    BY <1>1, <2>2
<1>4. PointsOf(t) \subseteq Spots
  BY DEF PointsOf, Spots, LT!Points
<1>5. \A i \in Spots : t.samples[i] = NoPoint <=> i \notin PointsOf(t)
  BY DEF PointsOf, Spots, LT!Points
<1>6. ASSUME NEW i \in PointsOf(t)
      PROVE  /\ t.samples[i] = [x |-> t.samples[i].x, y |-> t.samples[i].y]
             /\ t.samples[i].x \in Int /\ t.samples[i].y \in Int
  <2>1. t.samples[i] \in [x : Int, y : Int]
    BY <1>4, <1>5 DEF Tracker
  <2> QED
    BY <2>1
<1> QED
  BY <1>1, <1>2, <1>3, <1>4, <1>5, <1>6

\* The terms f has for the points of t, and 0 for its empty slots.
Spread(t, f) == [i \in Spots |-> IF i \in PointsOf(t) THEN f[i] ELSE 0]

\* The sums of refit are the slot by slot sums of their terms.
LEMMA SumsOfRefit ==
  ASSUME NEW t, Tracker(t), NEW x \in Int, NEW y \in Int
  PROVE  LET P == PointsOf(t)
             s == t.samples
         IN  /\ \E h : /\ Accumulates(h, Spread(t, [i \in P |-> s[i].x - t.last_x]), N)
                       /\ LT!MeanX(t) = t.last_x + TruncDiv(h[N], Cardinality(P))
             /\ \E h : /\ Accumulates(h, Spread(t, [i \in P |-> s[i].y]), N)
                       /\ LT!MeanY(t) = TruncDiv(h[N], Cardinality(P))
             /\ \E h : /\ Accumulates(h, Spread(t, [i \in P |-> (s[i].x - x) * (s[i].y - y)]), N)
                       /\ LT!Num(t, x, y) = h[N]
             /\ \E h : /\ Accumulates(h, Spread(t, [i \in P |-> (s[i].x - x) * (s[i].x - x)]), N)
                       /\ LT!Den(t, x) = h[N]
<1> DEFINE P == PointsOf(t)
           s == t.samples
<1>1. N \in Nat /\ \A i \in 0..N : i # 0 => /\ i - 1 \in Spots
                                            /\ s[i - 1] = NoPoint <=> i - 1 \notin P
  <2>1. N \in Nat
    BY TrackerConstants
  <2>2. \A j \in Spots : s[j] = NoPoint <=> j \notin P
    BY TrackerPoints
  <2>3. \A i \in 0..N : i # 0 => i - 1 \in Spots
    BY <2>1 DEF Spots
  <2> QED
    BY <2>1, <2>2, <2>3
<1>2. \E h : /\ Accumulates(h, Spread(t, [i \in P |-> s[i].x - t.last_x]), N)
             /\ LT!MeanX(t) = t.last_x + TruncDiv(h[N], Cardinality(P))
  <2> DEFINE term(i) == s[i].x - t.last_x
             g == Spread(t, [i \in P |-> term(i)])
             R(h) == h = [i \in 0..N |->
                            IF i = 0 THEN 0
                            ELSE h[i-1] + (IF s[i-1] = NoPoint THEN 0 ELSE term(i-1))]
             total == CHOOSE h : R(h)
  <2>1. LT!MeanX(t) = t.last_x + TruncDiv(total[N], Cardinality(P))
    BY SameArithmetic DEF LT!MeanX, LT!Total, PointsOf
  <2>2. \A i \in 0..N : i # 0 => g[i-1] = IF s[i-1] = NoPoint THEN 0 ELSE term(i-1)
    BY <1>1 DEF Spread
  <2> HIDE DEF g
  <2>3. \A h : R(h) <=> Accumulates(h, g, N)
    BY <2>2 DEF Accumulates
  <2>4. \E h : Accumulates(h, g, N)
    BY <1>1, SlotSums
  <2> HIDE DEF R
  <2>5. Accumulates(total, g, N)
    BY <2>3, <2>4
  <2> QED
    BY <2>1, <2>5 DEF g
<1>3. \E h : /\ Accumulates(h, Spread(t, [i \in P |-> s[i].y]), N)
             /\ LT!MeanY(t) = TruncDiv(h[N], Cardinality(P))
  <2> DEFINE term(i) == s[i].y
             g == Spread(t, [i \in P |-> term(i)])
             R(h) == h = [i \in 0..N |->
                            IF i = 0 THEN 0
                            ELSE h[i-1] + (IF s[i-1] = NoPoint THEN 0 ELSE term(i-1))]
             total == CHOOSE h : R(h)
  <2>1. LT!MeanY(t) = TruncDiv(total[N], Cardinality(P))
    BY SameArithmetic DEF LT!MeanY, LT!Total, PointsOf
  <2>2. \A i \in 0..N : i # 0 => g[i-1] = IF s[i-1] = NoPoint THEN 0 ELSE term(i-1)
    BY <1>1 DEF Spread
  <2> HIDE DEF g
  <2>3. \A h : R(h) <=> Accumulates(h, g, N)
    BY <2>2 DEF Accumulates
  <2>4. \E h : Accumulates(h, g, N)
    BY <1>1, SlotSums
  <2> HIDE DEF R
  <2>5. Accumulates(total, g, N)
    BY <2>3, <2>4
  <2> QED
    BY <2>1, <2>5 DEF g
<1>4. \E h : /\ Accumulates(h, Spread(t, [i \in P |-> (s[i].x - x) * (s[i].y - y)]), N)
             /\ LT!Num(t, x, y) = h[N]
  <2> DEFINE term(i) == (s[i].x - x) * (s[i].y - y)
             g == Spread(t, [i \in P |-> term(i)])
             R(h) == h = [i \in 0..N |->
                            IF i = 0 THEN 0
                            ELSE h[i-1] + (IF s[i-1] = NoPoint THEN 0 ELSE term(i-1))]
             total == CHOOSE h : R(h)
  <2>1. LT!Num(t, x, y) = total[N]
    BY SameArithmetic DEF LT!Num, LT!Total
  <2>2. \A i \in 0..N : i # 0 => g[i-1] = IF s[i-1] = NoPoint THEN 0 ELSE term(i-1)
    BY <1>1 DEF Spread
  <2> HIDE DEF g
  <2>3. \A h : R(h) <=> Accumulates(h, g, N)
    BY <2>2 DEF Accumulates
  <2>4. \E h : Accumulates(h, g, N)
    BY <1>1, SlotSums
  <2> HIDE DEF R
  <2>5. Accumulates(total, g, N)
    BY <2>3, <2>4
  <2> QED
    BY <2>1, <2>5 DEF g
<1>5. \E h : /\ Accumulates(h, Spread(t, [i \in P |-> (s[i].x - x) * (s[i].x - x)]), N)
             /\ LT!Den(t, x) = h[N]
  <2> DEFINE term(i) == (s[i].x - x) * (s[i].x - x)
             g == Spread(t, [i \in P |-> term(i)])
             R(h) == h = [i \in 0..N |->
                            IF i = 0 THEN 0
                            ELSE h[i-1] + (IF s[i-1] = NoPoint THEN 0 ELSE term(i-1))]
             total == CHOOSE h : R(h)
  <2>1. LT!Den(t, x) = total[N]
    BY SameArithmetic DEF LT!Den, LT!Total
  <2>2. \A i \in 0..N : i # 0 => g[i-1] = IF s[i-1] = NoPoint THEN 0 ELSE term(i-1)
    BY <1>1 DEF Spread
  <2> HIDE DEF g
  <2>3. \A h : R(h) <=> Accumulates(h, g, N)
    BY <2>2 DEF Accumulates
  <2>4. \E h : Accumulates(h, g, N)
    BY <1>1, SlotSums
  <2> HIDE DEF R
  <2>5. Accumulates(total, g, N)
    BY <2>3, <2>4
  <2> QED
    BY <2>1, <2>5 DEF g
<1> QED
  BY <1>2, <1>3, <1>4, <1>5

LEMMA SpreadBounds ==
  ASSUME NEW t, Tracker(t),
         NEW g, \A i \in PointsOf(t) : g[i] \in Int,
         NEW h, Accumulates(h, Spread(t, g), N), NEW c \in Int
  PROVE  /\ h[N] \in Int
         /\ (\A i \in PointsOf(t) : c <= g[i]) => c * t.n <= h[N]
         /\ (\A i \in PointsOf(t) : g[i] <= c) => h[N] <= c * t.n
         /\ (\A i \in PointsOf(t) : 0 <= g[i]) => \A i \in PointsOf(t) : g[i] <= h[N]
<1> DEFINE P == PointsOf(t)
           f == Spread(t, g)
<1>1. P \subseteq Spots /\ Cardinality(P) = t.n /\ N \in Nat
  BY TrackerConstants, TrackerPoints
<1>2. \A i \in Spots : f[i] \in Int /\ (i \notin P => f[i] = 0) /\ (i \in P => f[i] = g[i])
  BY DEF Spread
<1> HIDE DEF P, f
<1>3. /\ h[N] \in Int
      /\ (\A i \in P : c <= f[i]) => c * Cardinality(P) <= h[N]
      /\ (\A i \in P : f[i] <= c) => h[N] <= c * Cardinality(P)
      /\ (\A i \in P : 0 <= f[i]) => \A i \in P : f[i] <= h[N]
  BY <1>1, <1>2, SlotSumBounds DEF Spots, f
<1>4. \A i \in P : f[i] = g[i]
  BY <1>1, <1>2
<1> QED
  BY <1>1, <1>3, <1>4 DEF P

\* The centroid of the points is among them.
LEMMA CentroidAmongPoints ==
  ASSUME NEW t, Tracker(t), PointsOf(t) # {}
  PROVE  /\ LT!MeanX(t) \in Int /\ LT!MeanY(t) \in Int
         /\ Central(t, LT!MeanX(t), LT!MeanY(t))
<1> DEFINE P == PointsOf(t)
           s == t.samples
           a == t.last_x
           k == t.n
           dx == [i \in P |-> s[i].x - a]
           ys == [i \in P |-> s[i].y]
<1>1. /\ k \in Nat \ {0} /\ a \in Int
      /\ \A i \in P : s[i].x \in Int /\ s[i].y \in Int
  <2>1. k # 0
    BY TrackerPoints
  <2> QED
    BY <2>1, TrackerPoints DEF Tracker
<1>2. PICK h : /\ Accumulates(h, Spread(t, dx), N)
               /\ LT!MeanX(t) = a + TruncDiv(h[N], k)
  <2>1. \E h : /\ Accumulates(h, Spread(t, dx), N)
               /\ LT!MeanX(t) = a + TruncDiv(h[N], Cardinality(P))
    BY SumsOfRefit, 0 \in Int, Zenon
  <2> QED
    BY <2>1, TrackerPoints, Zenon
<1>3. PICK v : /\ Accumulates(v, Spread(t, ys), N)
               /\ LT!MeanY(t) = TruncDiv(v[N], k)
  <2>1. \E v : /\ Accumulates(v, Spread(t, ys), N)
               /\ LT!MeanY(t) = TruncDiv(v[N], Cardinality(P))
    BY SumsOfRefit, 0 \in Int, Zenon
  <2> QED
    BY <2>1, TrackerPoints, Zenon
<1>4. /\ \A i \in P : dx[i] = s[i].x - a /\ dx[i] \in Int
      /\ \A i \in P : ys[i] = s[i].y /\ ys[i] \in Int
  BY <1>1
<1> HIDE DEF dx, ys
<1>5. ASSUME NEW c \in Int
      PROVE  /\ h[N] \in Int
             /\ (\A i \in P : c <= dx[i]) => c * k <= h[N]
             /\ (\A i \in P : dx[i] <= c) => h[N] <= c * k
  BY <1>2, <1>4, SpreadBounds
<1>6. ASSUME NEW c \in Int
      PROVE  /\ v[N] \in Int
             /\ (\A i \in P : c <= ys[i]) => c * k <= v[N]
             /\ (\A i \in P : ys[i] <= c) => v[N] <= c * k
  BY <1>3, <1>4, SpreadBounds
<1> DEFINE mx == TruncDiv(h[N], k)
           my == TruncDiv(v[N], k)
<1>7. /\ mx \in Int
      /\ \A c \in Int : (c * k <= h[N] => c <= mx) /\ (h[N] <= c * k => mx <= c)
  BY <1>1, <1>5, 0 \in Int, TruncDivBetween
<1>8. /\ my \in Int
      /\ \A c \in Int : (c * k <= v[N] => c <= my) /\ (v[N] <= c * k => my <= c)
  BY <1>1, <1>6, 0 \in Int, TruncDivBetween
<1> HIDE DEF P, s, a, k, mx, my
<1>9. ASSUME NEW c \in Int
      PROVE  /\ (\A i \in P : c <= s[i].x) => c <= a + mx
             /\ (\A i \in P : s[i].x <= c) => a + mx <= c
  <2>1. c - a \in Int
    BY <1>1
  <2>2. (\A i \in P : c <= s[i].x) => c - a <= mx
    <3> SUFFICES ASSUME \A i \in P : c <= s[i].x PROVE c - a <= mx
      OBVIOUS
    <3>1. \A i \in P : c - a <= dx[i]
      BY <1>1, <1>4
    <3> QED
      BY <1>5, <1>7, <2>1, <3>1
  <2>3. (\A i \in P : s[i].x <= c) => mx <= c - a
    <3> SUFFICES ASSUME \A i \in P : s[i].x <= c PROVE mx <= c - a
      OBVIOUS
    <3>1. \A i \in P : dx[i] <= c - a
      BY <1>1, <1>4
    <3> QED
      BY <1>5, <1>7, <2>1, <3>1
  <2> QED
    BY <1>1, <1>7, <2>2, <2>3
<1>10. ASSUME NEW c \in Int
       PROVE  /\ (\A i \in P : c <= s[i].y) => c <= my
              /\ (\A i \in P : s[i].y <= c) => my <= c
  <2>1. (\A i \in P : c <= s[i].y) => c * k <= v[N]
    BY <1>4, <1>6
  <2>2. (\A i \in P : s[i].y <= c) => v[N] <= c * k
    BY <1>4, <1>6
  <2> QED
    BY <1>8, <2>1, <2>2
<1>11. LT!MeanX(t) = a + mx /\ LT!MeanY(t) = my
  BY <1>2, <1>3 DEF mx, my
<1> QED
  BY <1>1, <1>7, <1>8, <1>9, <1>10, <1>11 DEF Central, P, s

\* The slope is clamped, wherever the points are not all at one x.
LEMMA SlopeClamped ==
  ASSUME NEW t, Tracker(t), NEW x \in Int, NEW y \in Int,
         \E i \in PointsOf(t) : t.samples[i].x # x
  PROVE  LT!Slope(t, x, y) \in -(SlopeQ \div 2) .. SlopeQ \div 2
<1> DEFINE P == PointsOf(t)
           s == t.samples
           num == [i \in P |-> (s[i].x - x) * (s[i].y - y)]
           den == [i \in P |-> (s[i].x - x) * (s[i].x - x)]
<1>1. \A i \in P : s[i].x \in Int /\ s[i].y \in Int
  BY TrackerPoints
<1>2. PICK h : /\ Accumulates(h, Spread(t, num), N)
               /\ LT!Num(t, x, y) = h[N]
  BY SumsOfRefit, Zenon
<1>3. PICK v : /\ Accumulates(v, Spread(t, den), N)
               /\ LT!Den(t, x) = v[N]
  BY SumsOfRefit, Zenon
<1>4. \A i \in P : num[i] \in Int
  BY <1>1
<1>5. ASSUME NEW i \in P
      PROVE  den[i] \in Int /\ 0 <= den[i] /\ (s[i].x # x => 1 <= den[i])
  <2> DEFINE d == s[i].x - x
  <2>1. d \in Int /\ den[i] = d * d /\ (s[i].x # x => d # 0)
    BY <1>1
  <2> HIDE DEF d, den
  <2>2. d * d \in Int /\ 0 <= d * d /\ (d # 0 => 1 <= d * d)
    BY <2>1
  <2> QED
    BY <2>1, <2>2
<1> HIDE DEF num, den
<1>6. h[N] \in Int
  BY <1>2, <1>4, 0 \in Int, SpreadBounds
<1>7. v[N] \in Int /\ v[N] # 0
  <2>1. v[N] \in Int /\ \A i \in P : den[i] <= v[N]
    BY <1>3, <1>5, 0 \in Int, SpreadBounds
  <2>2. PICK i \in P : s[i].x # x
    OBVIOUS
  <2>3. 1 <= den[i] /\ den[i] <= v[N] /\ den[i] \in Int
    BY <1>5, <2>1, <2>2
  <2> QED
    BY <2>1, <2>3
<1> DEFINE q == TruncDiv(h[N] * SlopeQ, v[N])
           m == SlopeQ \div 2
<1>8. q \in Int /\ m \in Nat
  <2>1. h[N] * SlopeQ \in Int
    BY <1>6, TrackerConstants
  <2> QED
    BY <1>7, <2>1, TruncDivType, TrackerConstants
<1>9. LT!Slope(t, x, y) = Clamp(q, -m, m)
  BY <1>2, <1>3, SameArithmetic DEF LT!Slope
<1> HIDE DEF q
<1>10. Clamp(q, -m, m) \in -m .. m
  <2> HIDE DEF m
  <2> QED
    BY <1>8 DEF Clamp
<1> QED
  BY <1>9, <1>10

\* Whatever was fitted before, refit leaves the line of the points, unless these are at one x.
LEMMA RefitAnchors ==
  ASSUME NEW t, Tracker(t)
  PROVE  Tracker(LT!refit(t)) /\ Anchored(LT!refit(t))
<1> DEFINE r == LT!refit(t)
           P == PointsOf(t)
           x == LT!MeanX(t)
           y == LT!MeanY(t)
<1>1. /\ Cardinality(P) = t.n /\ t.n \in Nat
      /\ P = 0 .. t.n - 1
  BY TrackerPoints
<1>2. MIN_POINTS \in Nat \ {0}
  BY TrackerConstants
<1>3. r = IF t.n < MIN_POINTS \/ \A i \in P : t.samples[i].x = x
          THEN t
          ELSE [t EXCEPT !.slope_q32 = LT!Slope(t, x, y), !.mean_x = x, !.mean_y = y]
  BY <1>1, SameArithmetic DEF LT!refit, PointsOf
<1>4. CASE t.n < MIN_POINTS
  <2>1. r = t
    BY <1>3, <1>4
  <2>2. Anchored(t)
    BY <1>1, <1>2, <1>4 DEF Anchored
  <2> QED
    BY <2>1, <2>2
<1>5. CASE ~ (t.n < MIN_POINTS)
  <2>1. P # {}
    <3>1. 0 \in 0 .. t.n - 1
      BY <1>1, <1>2, <1>5
    <3> QED
      BY <1>1, <3>1
  <2>2. x \in Int /\ y \in Int /\ Central(t, x, y)
    BY <2>1, CentroidAmongPoints
  <2> HIDE DEF x, y
  <2>3. CASE \A i \in P : t.samples[i].x = x
    <3>1. r = t
      BY <1>3, <2>3
    <3>2. Anchored(t)
      BY <2>3 DEF Anchored
    <3> QED
      BY <3>1, <3>2
  <2>4. CASE \E i \in P : t.samples[i].x # x
    <3> DEFINE slope == LT!Slope(t, x, y)
    <3>1. slope \in -(SlopeQ \div 2) .. SlopeQ \div 2
      BY <2>2, <2>4, SlopeClamped
    <3> HIDE DEF slope
    <3>2. r = [t EXCEPT !.slope_q32 = slope, !.mean_x = x, !.mean_y = y]
      BY <1>3, <1>5, <2>4 DEF slope
    <3> HIDE DEF r
    <3>3. Tracker(r)
      BY <2>2, <3>1, <3>2 DEF Tracker
    <3>4. r.samples = t.samples /\ r.mean_x = x /\ r.mean_y = y
      BY <3>2 DEF Tracker
    <3>5. PointsOf(r) = P
      BY <3>4 DEF PointsOf, LT!Points
    <3>6. Central(r, x, y)
      BY <2>2, <3>4, <3>5 DEF Central
    <3>7. Anchored(r)
      BY <3>4, <3>6 DEF Anchored
    <3> QED
      BY <3>3, <3>7 DEF r
  <2> QED
    BY <2>3, <2>4
<1> QED
  BY <1>4, <1>5

\* An observation goes to the slot that head names, and head and n keep step.
LEMMA RecordedInRing ==
  ASSUME NEW t, Tracker(t), NEW x \in Int, NEW y \in Int
  PROVE  Tracker(LT!observe(t, x, y)) /\ Anchored(LT!observe(t, x, y))
<1> DEFINE p == [x |-> x, y |-> y]
           samples == [t.samples EXCEPT ![t.head] = p]
           head == (t.head + 1) % N
           n == LT!Least(t.n + 1, N)
           r == [t EXCEPT !.samples = samples, !.head = head, !.n = n, !.last_x = x]
<1>1. LT!observe(t, x, y) = LT!refit(r)
  BY DEF LT!observe
<1>2. N \in Nat \ {0} /\ NoPoint \notin [x : Int, y : Int]
  BY TrackerConstants
<1>3. /\ t.samples \in [Spots -> [x : Int, y : Int] \cup {NoPoint}]
      /\ t.head \in 0 .. N - 1 /\ t.n \in 0..N /\ (t.n < N => t.head = t.n)
      /\ \A i \in Spots : (t.samples[i] # NoPoint) <=> i < t.n
  BY DEF Tracker, Spots
<1>4. p \in [x : Int, y : Int] /\ p # NoPoint
  BY <1>2
<1> HIDE DEF p
<1>5. /\ samples \in [Spots -> [x : Int, y : Int] \cup {NoPoint}]
      /\ \A i \in Spots : samples[i] = IF i = t.head THEN p ELSE t.samples[i]
  BY <1>3, <1>4
<1>6. n \in 0..N /\ n = IF t.n < N THEN t.n + 1 ELSE t.n
  BY <1>2, <1>3, SameArithmetic DEF Least
<1>7. head = (IF t.head + 1 = N THEN 0 ELSE t.head + 1) /\ head \in 0 .. N - 1
  <2>1. CASE t.head + 1 = N
    <3>1. N % N = 0
      BY <1>2
    <3> QED
      BY <1>2, <2>1, <3>1
  <2>2. CASE t.head + 1 # N
    <3>1. t.head + 1 \in 0 .. N - 1
      BY <1>2, <1>3, <2>2
    <3>2. (t.head + 1) % N = t.head + 1
      BY <1>2, <3>1
    <3> QED
      BY <2>2, <3>1, <3>2
  <2> QED
    BY <2>1, <2>2
<1> HIDE DEF samples, head, n
<1>8. n < N => head = n
  BY <1>2, <1>3, <1>6, <1>7
<1>9. ASSUME NEW i \in Spots PROVE (samples[i] # NoPoint) <=> i < n
  <2>1. i \in 0 .. N - 1
    BY DEF Spots
  <2>2. CASE i = t.head
    <3>1. samples[i] # NoPoint
      BY <1>4, <1>5, <2>2
    <3>2. i < n
      BY <1>2, <1>3, <1>6, <2>1, <2>2
    <3> QED
      BY <3>1, <3>2
  <2>3. CASE i # t.head
    <3>1. (samples[i] # NoPoint) <=> i < t.n
      BY <1>3, <1>5, <2>3
    <3>2. i < n <=> i < t.n
      BY <1>2, <1>3, <1>6, <2>1, <2>3
    <3> QED
      BY <3>1, <3>2
  <2> QED
    BY <2>2, <2>3
<1>10. Tracker(r)
  BY <1>5, <1>6, <1>7, <1>8, <1>9 DEF Tracker, Spots
<1> QED
  BY <1>1, <1>10, RefitAnchors

\* Neither the ring nor the line depends on where times are counted from.
LEMMA ShiftKeeps ==
  ASSUME NEW t, Tracker(t), Anchored(t), NEW o \in Int
  PROVE  Tracker(LineFrom(t, o)) /\ Anchored(LineFrom(t, o))
<1> DEFINE r == LineFrom(t, o)
           s == t.samples
           P == PointsOf(t)
           shifted == [i \in Spots |-> PointFrom(s[i], o)]
<1>1. r = [t EXCEPT !.samples = shifted, !.last_x = @ - o, !.mean_x = @ - o]
  BY DEF LineFrom, Spots
<1>2. /\ P \subseteq Spots
      /\ \A i \in P : /\ s[i] = [x |-> s[i].x, y |-> s[i].y]
                      /\ s[i].x \in Int /\ s[i].y \in Int
      /\ \A i \in Spots : s[i] = NoPoint <=> i \notin P
  BY TrackerPoints
<1>3. NoPoint \notin [x : Int, y : Int]
  BY TrackerConstants
<1>4. ASSUME NEW i \in Spots
      PROVE  /\ shifted[i] \in [x : Int, y : Int] \cup {NoPoint}
             /\ shifted[i] = NoPoint <=> s[i] = NoPoint
             /\ i \in P => shifted[i].x = s[i].x - o /\ shifted[i].y = s[i].y
  <2>1. CASE i \in P
    <3>1. s[i] # NoPoint /\ s[i].x \in Int /\ s[i].y \in Int
      BY <1>2, <2>1
    <3>2. shifted[i] = [x |-> s[i].x - o, y |-> s[i].y]
      <4> DEFINE p == s[i]
      <4>1. p = [x |-> p.x, y |-> p.y] /\ p # NoPoint
        BY <1>2, <2>1, <3>1
      <4> HIDE DEF p
      <4>2. PointFrom(p, o) = [x |-> p.x - o, y |-> p.y]
        BY <4>1 DEF PointFrom
      <4> QED
        BY <4>2 DEF p
    <3> QED
      BY <1>3, <3>1, <3>2
  <2>2. CASE i \notin P
    BY <1>2, <2>2 DEF PointFrom
  <2> QED
    BY <2>1, <2>2
<1>5. shifted \in [Spots -> [x : Int, y : Int] \cup {NoPoint}]
  BY <1>4
<1> HIDE DEF shifted, r
<1>6. /\ r.samples = shifted /\ r.n = t.n /\ r.mean_x = t.mean_x - o /\ r.mean_y = t.mean_y
      /\ t.mean_x \in Int
  BY <1>1 DEF Tracker
<1>7. Tracker(r)
  <2>1. r = [t EXCEPT !.samples = shifted, !.last_x = t.last_x - o, !.mean_x = t.mean_x - o]
    BY <1>1
  <2>2. t.last_x \in Int /\ t.mean_x \in Int
    BY DEF Tracker
  <2>3. t.last_x - o \in Int /\ t.mean_x - o \in Int
    BY <2>2
  <2>4. \A i \in Spots : (shifted[i] # NoPoint) <=> i < t.n
    BY <1>4 DEF Tracker
  <2> QED
    BY <1>5, <2>1, <2>3, <2>4 DEF Tracker
<1>8. PointsOf(r) = P
  <2>1. \A i \in Spots : shifted[i] # NoPoint <=> s[i] # NoPoint
    BY <1>4
  <2> QED
    BY <1>6, <2>1 DEF PointsOf, LT!Points, Spots
<1>9. \A i \in P : r.samples[i].x = s[i].x - o /\ r.samples[i].y = s[i].y
  BY <1>2, <1>4, <1>6
<1>10. Anchored(r)
  <2> SUFFICES ASSUME t.n >= MIN_POINTS,
                      \E i, j \in P : r.samples[i].x # r.samples[j].x
               PROVE  Central(r, r.mean_x, r.mean_y)
    BY <1>6, <1>8 DEF Anchored
  <2>1. \E i, j \in P : s[i].x # s[j].x
    BY <1>9
  <2>2. Central(t, t.mean_x, t.mean_y)
    BY <2>1 DEF Anchored
  <2> SUFFICES ASSUME NEW c \in Int
               PROVE  /\ (\A i \in P : c <= s[i].x - o) => c <= t.mean_x - o
                      /\ (\A i \in P : s[i].x - o <= c) => t.mean_x - o <= c
                      /\ (\A i \in P : c <= s[i].y) => c <= t.mean_y
                      /\ (\A i \in P : s[i].y <= c) => t.mean_y <= c
    BY <1>6, <1>8, <1>9 DEF Central
  <2>3. /\ (\A i \in P : c + o <= s[i].x) => c + o <= t.mean_x
        /\ (\A i \in P : s[i].x <= c + o) => t.mean_x <= c + o
        /\ (\A i \in P : c <= s[i].y) => c <= t.mean_y
        /\ (\A i \in P : s[i].y <= c) => t.mean_y <= c
    BY <2>2, c + o \in Int DEF Central
  <2>4. \A i \in P : /\ c <= s[i].x - o <=> c + o <= s[i].x
                     /\ s[i].x - o <= c <=> s[i].x <= c + o
    <3>1. \A i \in P : s[i].x \in Int
      BY <1>2
    <3> HIDE DEF P, s
    <3> QED
      BY <3>1
  <2> QED
    BY <1>6, <2>3, <2>4
<1> QED
  BY <1>7, <1>10 DEF r

\* The inverse of a line that is not flat leads back within a unit.
LEMMA RoundTrip ==
  ASSUME NEW t, Tracker(t), t.n >= MIN_POINTS, t.slope_q32 # 0,
         NEW y \in Int
  PROVE  Magnitude(LT!predict(t, LT!predict_inverse(t, y)) - y) <= 1
<1> DEFINE q == SlopeQ
           h == SlopeQ \div 2
           s == t.slope_q32
           dy == y - t.mean_y
           d == TruncDiv(dy * q, s)
           r == dy * q - d * s
           k == (d * s) \div q
<1>1. q \in Nat \ {0} /\ h \in Nat /\ 2 * h = q /\ MIN_POINTS \in Nat
  BY TrackerConstants
<1>2. /\ s \in -h .. h /\ s # 0 /\ t.mean_x \in Int /\ t.mean_y \in Int /\ t.n \in Nat
      /\ dy \in Int
  BY DEF Tracker
<1> HIDE DEF q, h, s, dy
<1>3. d \in Int /\ Magnitude(r) < Magnitude(s)
  <2>1. dy * q \in Int /\ s \in Int
    BY <1>1, <1>2
  <2> QED
    BY <1>2, <2>1, TruncDivLeaves
<1> HIDE DEF d
<1> DEFINE e == d * s
           f == dy * q
<1>4. e \in Int /\ f \in Int
  BY <1>1, <1>2, <1>3
<1>5. -h < f - e /\ f - e < h
  <2>1. r = f - e /\ s \in Int
    BY <1>2
  <2> HIDE DEF r, e, f
  <2>2. Magnitude(s) <= h
    BY <1>1, <1>2 DEF Magnitude
  <2> QED
    BY <1>1, <1>3, <1>4, <2>1, <2>2 DEF Magnitude
<1>6. k \in Int /\ q * k <= e /\ e < q * k + q
  <2>1. ASSUME NEW w \in Int
        PROVE  w \div q \in Int /\ q * (w \div q) <= w /\ w < q * (w \div q) + q
    BY <1>1
  <2>2. e \div q \in Int /\ q * (e \div q) <= e /\ e < q * (e \div q) + q
    <3> HIDE DEF e
    <3> QED
      BY <1>4, <2>1
  <2> QED
    BY <2>2
<1> DEFINE g == k - dy
<1>7. g \in Int /\ q * g = q * k - f /\ q * k \in Int
  <2>1. k \in Int
    BY <1>6
  <2> HIDE DEF k
  <2> QED
    BY <1>1, <1>2, <2>1
<1>8. q * g < q /\ -(2 * q) < q * g
  <2> DEFINE w == q * k
             z == q * g
  <2> HIDE DEF g, k, e, f
  <2>1. w \in Int /\ z \in Int /\ z = w - f /\ w <= e /\ e < w + q
    BY <1>1, <1>4, <1>6, <1>7
  <2> HIDE DEF w, z
  <2>2. z < q /\ -(2 * q) < z
    BY <1>1, <1>4, <1>5, <2>1
  <2> QED
    BY <2>2 DEF z
<1> HIDE DEF g
<1>9. g \in {-1, 0}
  <2>1. CASE g >= 1
    <3>1. q * g >= q
      BY <1>1, <1>7, <2>1
    <3> QED
      BY <1>1, <1>7, <1>8, <3>1
  <2>2. CASE g <= -2
    <3>1. q * g <= -(2 * q)
      BY <1>1, <1>7, <2>2
    <3> QED
      BY <1>1, <1>7, <1>8, <3>1
  <2> QED
    BY <1>7, <2>1, <2>2
<1>10. LT!predict_inverse(t, y) = t.mean_x + d
  BY <1>1, <1>2, SameArithmetic DEF LT!predict_inverse, d, dy, q, s
<1>11. LT!predict(t, t.mean_x + d) = t.mean_y + k
  <2>1. (t.mean_x + d) - t.mean_x = d
    BY <1>2, <1>3
  <2>2. LT!predict(t, t.mean_x + d)
          = t.mean_y + (((t.mean_x + d) - t.mean_x) * t.slope_q32) \div SlopeQ
    BY <1>1, <1>2 DEF LT!predict
  <2> QED
    BY <2>1, <2>2 DEF s, q
<1>12. (t.mean_y + k) - y = g
  <2>1. k \in Int
    BY <1>6
  <2> HIDE DEF k
  <2> QED
    BY <1>2, <2>1 DEF g, dy
<1> HIDE DEF k
<1> QED
  BY <1>9, <1>10, <1>11, <1>12 DEF Magnitude

LEMMA NewTracker == Tracker(LT!new) /\ Anchored(LT!new)
<1> DEFINE t == LT!new
<1>1. N \in Nat \ {0} /\ MIN_POINTS \in Nat \ {0} /\ SlopeQ \div 2 \in Nat
  BY TrackerConstants
<1>2. 0 \in Spots /\ 0 \in -(SlopeQ \div 2) .. SlopeQ \div 2 /\ \A i \in Spots : ~ (i < 0)
  BY <1>1 DEF Spots
<1>3. t = [samples |-> [i \in Spots |-> NoPoint], head |-> 0, n |-> 0, last_x |-> 0,
           mean_x |-> 0, mean_y |-> 0, slope_q32 |-> 0]
  BY DEF LT!new, Spots
<1> HIDE DEF t
<1>4. Tracker(t)
  BY <1>1, <1>2, <1>3 DEF Tracker
<1>5. Anchored(t)
  BY <1>1, <1>3 DEF Anchored
<1> QED
  BY <1>4, <1>5 DEF t

\* The filter takes no part.
LineOK == line # NoTracker => Tracker(line) /\ Anchored(line)

LEMMA LineKeptSound ==
  ASSUME LineOK, [TrackerNext]_trackerVars
  PROVE  LineOK'
<1>1. ASSUME NEW x \in Int, NEW y \in Int, Feed(x, y)
      PROVE  LineOK'
  <2> DEFINE o == IF x > 0 THEN x ELSE 0
             t == LT!observe(line, x, y)
  <2>1. line' = NoTracker \/ (line # NoTracker /\ line' = LineFrom(t, o))
    BY <1>1 DEF Feed
  <2>2. o \in Int
    OBVIOUS
  <2>3. CASE line # NoTracker /\ line' = LineFrom(t, o)
    <3>1. Tracker(t) /\ Anchored(t)
      BY <2>3, RecordedInRing DEF LineOK
    <3> HIDE DEF t, o
    <3>2. Tracker(LineFrom(t, o)) /\ Anchored(LineFrom(t, o))
      BY <2>2, <3>1, ShiftKeeps
    <3>3. Tracker(line') /\ Anchored(line')
      BY <2>3, <3>2
    <3> QED
      BY <3>3 DEF LineOK
  <2>4. CASE line' = NoTracker
    BY <2>4 DEF LineOK
  <2> QED
    BY <2>1, <2>3, <2>4
<1>2. Gaps \subseteq Int /\ Observed \cup {Outlier} \subseteq Int /\ Settled \in Int
  BY TrackerConstants
<1>3. CASE Noise
  BY <1>1, <1>2, <1>3 DEF Noise
<1>4. CASE Burst
  BY <1>1, <1>2, <1>4 DEF Burst
<1>5. CASE \E x \in Gaps : Steady(x)
  BY <1>1, <1>2, <1>5 DEF Steady
<1>6. CASE Calm \/ UNCHANGED trackerVars
  BY <1>6 DEF Calm, trackerVars, LineOK
<1> QED
  BY <1>3, <1>4, <1>5, <1>6 DEF TrackerNext

\* A bound of the points is a bound of the window's least and greatest values.
LEMMA WindowExtremes ==
  ASSUME NEW P, IsFiniteSet(P), P # {}, NEW f, \A i \in P : f[i] \in Int,
         NEW m \in Int,
         \A c \in Int : /\ (\A i \in P : c <= f[i]) => c <= m
                        /\ (\A i \in P : f[i] <= c) => m <= c
  PROVE  Min({f[i] : i \in P}) <= m /\ m <= Max({f[i] : i \in P})
<1> DEFINE S == {f[i] : i \in P}
           least == CHOOSE x \in S : \A y \in S : x <= y
           greatest == CHOOSE x \in S : \A y \in S : x >= y
<1>1. PICK i \in P : \A j \in P : f[i] <= f[j]
  BY FiniteExtremes
<1>2. PICK j \in P : \A k \in P : f[k] <= f[j]
  BY FiniteExtremes
<1>3. \A x \in S : x \in Int /\ \E k \in P : x = f[k]
  OBVIOUS
<1>4. f[i] \in S /\ f[j] \in S /\ \A x \in S : f[i] <= x /\ x <= f[j]
  BY <1>1, <1>2
<1> HIDE DEF S
<1>5. least \in S /\ \A y \in S : least <= y
  BY <1>4
<1>6. greatest \in S /\ \A y \in S : greatest >= y
  BY <1>3, <1>4
<1> HIDE DEF least, greatest
<1>7. least <= m
  <2>1. \A k \in P : least <= f[k]
    BY <1>5 DEF S
  <2> QED
    BY <1>3, <1>5, <2>1
<1>8. m <= greatest
  <2>1. \A k \in P : f[k] <= greatest
    <3>1. \A k \in P : f[k] \in S
      BY DEF S
    <3> QED
      BY <1>3, <1>6, <3>1
  <2> QED
    BY <1>3, <1>6, <2>1
<1> QED
  BY <1>7, <1>8 DEF Min, Max, least, greatest, S

\* The line of a least-squares tracker is anchored within the window of its latest points,
\* unless these are all at one time, never gains more than half of the time that passes, and
\* its inverse leads back within a unit (LineSound).
THEOREM LineIsSound == TrackerSpec => []LineSound
<1>1. TrackerInit => LineOK
  BY NewTracker DEF TrackerInit, LineOK
<1>2. LineOK /\ [TrackerNext]_trackerVars => LineOK'
  BY LineKeptSound
<1>3. LineOK => LineSound
  <2> SUFFICES ASSUME LineOK, line # NoTracker, line.n >= MIN_POINTS
               PROVE  /\ LineThroughWindow
                      /\ line.slope_q32 \in -(SlopeQ \div 2) .. SlopeQ \div 2
                      /\ line.slope_q32 # 0 =>
                           \A y \in Observed \cup {Outlier} :
                             Magnitude(LT!predict(line, LT!predict_inverse(line, y)) - y)
                               <= 1
    BY DEF LineSound
  <2>1. Tracker(line) /\ Anchored(line)
    BY DEF LineOK
  <2>2. line.slope_q32 \in -(SlopeQ \div 2) .. SlopeQ \div 2
    BY <2>1 DEF Tracker
  <2>3. ASSUME line.slope_q32 # 0, NEW y \in Observed \cup {Outlier}
        PROVE  Magnitude(LT!predict(line, LT!predict_inverse(line, y)) - y) <= 1
    <3>1. y \in Int
      BY TrackerConstants
    <3> QED
      BY <2>1, <2>3, <3>1, RoundTrip, SameArithmetic
  <2>4. LineThroughWindow
    <3> DEFINE P == PointsOf(line)
               xs == [i \in P |-> line.samples[i].x]
               ys == [i \in P |-> line.samples[i].y]
               X == {xs[i] : i \in P}
               Y == {ys[i] : i \in P}
    <3>1. /\ IsFiniteSet(P)
          /\ \A i \in P : xs[i] \in Int /\ ys[i] \in Int
      BY <2>1, TrackerPoints
    <3>2. {p.x : p \in Held} = X /\ {p.y : p \in Held} = Y
      BY DEF Held, PointsOf
    <3>3. SUFFICES ASSUME Cardinality(X) > 1
                   PROVE  /\ Min(X) <= line.mean_x /\ line.mean_x <= Max(X)
                          /\ Min(Y) <= line.mean_y /\ line.mean_y <= Max(Y)
      BY <3>2 DEF LineThroughWindow
    <3>4. \E i, j \in P : xs[i] # xs[j]
      <4> SUFFICES ASSUME \A i, j \in P : xs[i] = xs[j]
                   PROVE  FALSE
        OBVIOUS
      <4>1. Cardinality(X) > 1
        BY <3>3, SameArithmetic
      <4>2. CASE P = {}
        <5>1. X = {}
          BY <4>2
        <5>2. Cardinality(X) = 0
          BY <5>1, FS_EmptySet
        <5> QED
          BY <4>1, <5>2
      <4>3. CASE P # {}
        <5>1. PICK i \in P : TRUE
          BY <4>3
        <5>2. X = {xs[i]}
          <6> HIDE DEF xs
          <6> QED
            BY <5>1
        <5>3. Cardinality(X) = 1
          <6> HIDE DEF X, xs
          <6> QED
            BY <5>2, FS_Singleton
        <5> QED
          BY <4>1, <5>3
      <4> QED
        BY <4>2, <4>3
    <3>5. P # {}
      BY <3>4
    <3>6. Central(line, line.mean_x, line.mean_y) /\ line.mean_x \in Int /\ line.mean_y \in Int
      <4>1. \E i, j \in P : line.samples[i].x # line.samples[j].x
        BY <3>4
      <4> QED
        BY <2>1, <4>1 DEF Anchored, Tracker
    <3>7. \A c \in Int : /\ (\A i \in P : c <= xs[i]) => c <= line.mean_x
                         /\ (\A i \in P : xs[i] <= c) => line.mean_x <= c
                         /\ (\A i \in P : c <= ys[i]) => c <= line.mean_y
                         /\ (\A i \in P : ys[i] <= c) => line.mean_y <= c
      BY <3>6 DEF Central
    <3> HIDE DEF P, xs, ys
    <3> QED
      BY <3>1, <3>5, <3>6, <3>7, WindowExtremes
  <2> QED
    BY <2>2, <2>3, <2>4
<1> QED
  BY <1>1, <1>2, <1>3, PTL DEF TrackerSpec

=============================================================================
