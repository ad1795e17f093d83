---------------------------- MODULE CapTimerProofs ---------------------------
(***************************************************************************)
(* What CapTimer promises, for every width of the timer, calibration and   *)
(* bound on the delays.                                                    *)
(***************************************************************************)
EXTENDS CapTimer, IntegerTheorems

-----------------------------------------------------------------------------
(* Extending a reading.                                                    *)

\* Extend gives the next count after prev, or prev itself, with the reading raw.
LEMMA ExtendIsNext ==
  ASSUME NEW raw \in 0 .. RawMod - 1, NEW prev \in Nat
  PROVE  /\ Extend(raw, prev) \in Nat
         /\ Extend(raw, prev) % RawMod = raw
         /\ prev <= Extend(raw, prev)
         /\ Extend(raw, prev) < prev + RawMod
<1> DEFINE m == RawMod
           q == prev \div m
           r == prev % m
<1>1. m \in Nat \ {0}
  BY CapTimerAssumption
<1>2. q \in Nat /\ r \in 0 .. m - 1 /\ prev = m * q + r
  BY <1>1
<1>3. Extend(raw, prev) = (IF raw < r THEN q + 1 ELSE q) * m + raw
  BY DEF Extend
<1> HIDE DEF m, q, r
<1>4. CASE raw < r
  <2>1. Extend(raw, prev) = (q + 1) * m + raw /\ (q + 1) * m = m * q + m
    BY <1>1, <1>2, <1>3, <1>4
  <2>2. Extend(raw, prev) = m * (q + 1) + raw /\ m * q \in Nat /\ q + 1 \in Int
    BY <1>1, <1>2, <2>1
  <2>3. Extend(raw, prev) = m * q + m + raw
    BY <1>1, <1>2, <2>1
  <2>4. raw \in 0 .. m - 1
    BY DEF m
  <2>5. Extend(raw, prev) \in Nat /\ prev <= Extend(raw, prev) /\ Extend(raw, prev) < prev + m
    BY <1>1, <1>2, <1>4, <2>2, <2>3, <2>4
  <2> DEFINE q1 == q + 1
             x == Extend(raw, prev)
  <2>6. x \in Int /\ q1 \in Int /\ x = m * q1 + raw
    BY <1>2, <2>2, <2>5
  <2> HIDE DEF q1, x
  <2>7. x % m = raw
    BY <1>1, <2>4, <2>6, DivModUnique
  <2> QED
    BY <2>5, <2>7 DEF m, x
<1>5. CASE ~ (raw < r)
  <2>1. Extend(raw, prev) = q * m + raw /\ q * m = m * q /\ m * q \in Nat
    BY <1>1, <1>2, <1>3, <1>5
  <2>2. raw \in 0 .. m - 1
    BY DEF m
  <2>3. Extend(raw, prev) \in Nat /\ prev <= Extend(raw, prev) /\ Extend(raw, prev) < prev + m
    BY <1>1, <1>2, <1>5, <2>1, <2>2
  <2>4. Extend(raw, prev) \in Int /\ q \in Int /\ Extend(raw, prev) = m * q + raw
    BY <1>2, <2>1, <2>3
  <2>5. Extend(raw, prev) % m = raw
    BY <1>1, <2>2, <2>4, DivModUnique
  <2> QED
    BY <2>3, <2>5 DEF m
<1> QED
  BY <1>4, <1>5

\* If less than a wrap has passed since the count a, of which prev has the low bits,
\* Extend adds exactly what has passed.
LEMMA ExtendAdds ==
  ASSUME NEW prev \in Nat, NEW a \in Nat, NEW b \in Nat,
         prev % RawMod = a % RawMod, a <= b, b - a < RawMod
  PROVE  Extend(b % RawMod, prev) = prev + (b - a)
<1> DEFINE m == RawMod
           d == b - a
           raw == b % m
           x == Extend(raw, prev)
<1>1. m \in Nat \ {0}
  BY CapTimerAssumption
<1>2. d \in Int /\ b = a + d /\ 0 <= d /\ d < m
  BY <1>1
<1>3. raw \in 0 .. RawMod - 1
  BY <1>1
<1>4. x \in Nat /\ x % m = raw /\ prev <= x /\ x < prev + m
  BY <1>3, ExtendIsNext
<1>5. prev % m = a % m
  OBVIOUS
<1> HIDE DEF m, d, x
<1>6. (prev + d) % m = (a + d) % m
  <2>1. prev \in Int /\ a \in Int
    OBVIOUS
  <2> QED
    BY <1>1, <1>2, <1>5, <2>1, SameReading
<1>7. (prev + d) % m = x % m
  BY <1>2, <1>4, <1>6
<1>8. prev + d \in Int /\ x - (prev + d) < m /\ (prev + d) - x < m
  BY <1>1, <1>2, <1>4
<1>9. x = prev + d
  BY <1>1, <1>4, <1>7, <1>8, OneInAWrap
<1> QED
  BY <1>9 DEF x, d, m

-----------------------------------------------------------------------------
(* Where Instant puts the timer.                                           *)

\* Instant does not run backwards, so neither does its prediction.
LEMMA InstantMonotone ==
  ASSUME NEW s \in Nat, NEW t \in Nat, s <= t
  PROVE  InstantUs(s) \in Nat /\ InstantUs(t) \in Nat /\ InstantUs(s) <= InstantUs(t)
<1> DEFINE k == TicksPerUs
           p == s \div k
           q == t \div k
<1>1. k \in Nat \ {0} /\ InstantBase \in Nat
  BY CapTimerAssumption
<1>2. p \in Nat /\ q \in Nat /\ s = k * p + (s % k) /\ t = k * q + (t % k)
      /\ s % k \in 0 .. k - 1 /\ t % k \in 0 .. k - 1
  BY <1>1
<1>3. k * p \in Nat /\ k * q \in Nat /\ p \in Int /\ q \in Int
  BY <1>1, <1>2
<1>4. InstantUs(s) = InstantBase + p /\ InstantUs(t) = InstantBase + q
  BY DEF InstantUs
<1> HIDE DEF k, p, q
<1>5. ~ (q < p)
  <2>1. q < p => k * q + k <= k * p
    BY <1>1, <1>3, MultiplesApart
  <2> QED
    BY <1>1, <1>2, <1>3, <2>1
<1> QED
  BY <1>1, <1>2, <1>4, <1>5

\* Calibration gives a rate.
LEMMA RateType == UsPerTick \in Nat \ {0}
<1> DEFINE a == InstantUs(Cap1) - InstantUs(Cap0)
           b == Cap1 - Cap0
<1>1. Q \in Nat /\ Cap0 \in Nat /\ Cap1 \in Nat /\ Cap0 <= Cap1 /\ b \in Nat \ {0}
  BY CapTimerAssumption DEF Cap1
<1>2. a \in Nat
  BY <1>1, InstantMonotone
<1>3. UsPerTick = (a * Q) \div b
  BY DEF UsPerTick
<1> HIDE DEF a, b
<1>4. UsPerTick \in Nat
  BY <1>1, <1>2, <1>3
<1> QED
  BY <1>4, CalibrationAssumption

LEMMA PredictedType ==
  ASSUME ticks \in Nat, Cap0 <= ticks
  PROVE  PredictedTicks \in Nat
<1> DEFINE d == InstantUs(ticks) - InstantUs(Cap0)
           u == UsPerTick
<1>1. Cap0 \in Nat /\ Q \in Nat \ {0}
  BY CapTimerAssumption
<1>2. d \in Nat
  BY <1>1, InstantMonotone
<1>3. u \in Nat \ {0}
  BY RateType
<1>4. PredictedTicks = Cap0 + TruncDiv(d * Q, u)
  BY DEF PredictedTicks
<1> HIDE DEF d, u
<1>5. d * Q \in Nat
  BY <1>1, <1>2
<1>6. TruncDiv(d * Q, u) = (d * Q) \div u
  BY <1>3, <1>5 DEF TruncDiv, Magnitude
<1>7. (d * Q) \div u \in Nat
  BY <1>3, <1>5
<1> QED
  BY <1>1, <1>4, <1>6, <1>7

\* The candidate nearest to the prediction, the earlier of two, exists and is a count.
LEMMA UnwrapType ==
  ASSUME PredictedTicks \in Nat, NEW raw \in 0 .. RawMod - 1
  PROVE  unwrap_cap_raw(raw) \in Nat
<1> DEFINE P == PredictedTicks
           high == P \div RawMod
           D(h) == Magnitude(h * RawMod + raw - P)
           C == {high - 1, high, high + 1} \cap Nat
           Best(h) == \A k \in C : D(h) < D(k) \/ (D(h) = D(k) /\ h <= k)
           best == CHOOSE h \in C : Best(h)
<1>1. RawMod \in Nat \ {0} /\ P \in Nat
  BY CapTimerAssumption
<1>2. high \in Nat
  BY <1>1
<1>3. \A h \in Nat : D(h) \in Int
  BY <1>1 DEF Magnitude
<1>4. unwrap_cap_raw(raw) = best * RawMod + raw
  BY DEF unwrap_cap_raw
<1> HIDE DEF high, D, P
<1>5. \E h \in C : Best(h)
  <2> DEFINE h0 == high - 1
             h1 == high
             h2 == high + 1
  <2>1. h1 \in C /\ h2 \in C /\ \A k \in C : k = h0 \/ k = h1 \/ k = h2
    BY <1>2
  <2>2. D(h1) \in Int /\ D(h2) \in Int /\ (h0 \in C => D(h0) \in Int)
    BY <1>2, <1>3
  <2>3. h0 \in Int /\ h1 \in Int /\ h2 \in Int /\ h0 < h1 /\ h1 < h2
    BY <1>2
  <2> HIDE DEF h0, h1, h2
  <2>4. CASE h0 \in C /\ D(h0) <= D(h1) /\ D(h0) <= D(h2)
    <3>1. Best(h0)
      BY <2>1, <2>2, <2>3, <2>4
    <3> QED
      BY <2>4, <3>1
  <2>5. CASE (h0 \in C => D(h1) < D(h0)) /\ D(h1) <= D(h2)
    <3>1. Best(h1)
      BY <2>1, <2>2, <2>3, <2>5
    <3> QED
      BY <2>1, <3>1
  <2>6. CASE (h0 \in C => D(h2) < D(h0)) /\ D(h2) < D(h1)
    <3>1. Best(h2)
      BY <2>1, <2>2, <2>3, <2>6
    <3> QED
      BY <2>1, <3>1
  <2> QED
    BY <2>2, <2>4, <2>5, <2>6
<1>6. best \in C
  BY <1>5
<1>7. best \in Nat
  BY <1>6
<1> HIDE DEF best
<1>8. best * RawMod \in Nat
  BY <1>1, <1>7
<1> QED
  BY <1>1, <1>4, <1>8

\* A count within half a wrap of the prediction is recovered from its reading.
LEMMA UnwrapNearest ==
  ASSUME PredictedTicks \in Nat, NEW e \in Nat,
         2 * (PredictedTicks - e) <= RawMod, 2 * (e - PredictedTicks) < RawMod
  PROVE  unwrap_cap_raw(e % RawMod) = e
<1> DEFINE P == PredictedTicks
           m == RawMod
           raw == e % m
           high == P \div m
           he == e \div m
           D(h) == Magnitude(h * m + raw - P)
           C == {high - 1, high, high + 1} \cap Nat
           Best(h) == \A k \in C : D(h) < D(k) \/ (D(h) = D(k) /\ h <= k)
           best == CHOOSE h \in C : Best(h)
<1>1. m \in Nat \ {0} /\ P \in Nat
  BY CapTimerAssumption
<1>2. /\ high \in Nat /\ P = m * high + (P % m) /\ P % m \in 0 .. m - 1
      /\ he \in Nat /\ e = m * he + raw /\ raw \in 0 .. m - 1
  BY <1>1
<1>3. unwrap_cap_raw(e % RawMod) = best * m + raw
  BY DEF unwrap_cap_raw
<1>4. 2 * (P - e) <= m /\ 2 * (e - P) < m
  OBVIOUS
<1>5. \A h \in Nat : h * m = m * h /\ m * h \in Nat
  BY <1>1
<1> HIDE DEF high, he, P, m, raw
<1>6. he \in C
  <2>1. he < high - 1 => m * he + m <= m * (high - 1)
    BY <1>1, <1>2, MultiplesApart
  <2>2. high + 1 < he => m * (high + 1) + m <= m * he
    BY <1>1, <1>2, MultiplesApart
  <2>3. m * (high - 1) = m * high - m /\ m * (high + 1) = m * high + m
    BY <1>1, <1>2
  <2>4. m * high \in Nat /\ m * he \in Nat
    BY <1>2, <1>5
  <2>5. ~ (he < high - 1) /\ ~ (high + 1 < he)
    BY <1>1, <1>2, <1>4, <2>1, <2>2, <2>3, <2>4
  <2> QED
    BY <1>2, <2>5
<1>7. D(he) = Magnitude(e - P)
  BY <1>2, <1>5
<1>8. ASSUME NEW k \in Nat, k # he PROVE D(he) < D(k) \/ (D(he) = D(k) /\ he < k)
  <2>1. D(k) = Magnitude(m * k + raw - P) /\ m * k \in Nat /\ m * he \in Nat
    BY <1>2, <1>5
  <2>2. CASE he < k
    <3>1. m * he + m <= m * k
      BY <1>1, <1>2, <2>2, MultiplesApart
    <3>2. m * k + raw - P >= e - P + m
      BY <1>1, <1>2, <2>1, <3>1
    <3>3. D(k) = m * k + raw - P
      BY <1>1, <1>2, <1>4, <2>1, <3>2 DEF Magnitude
    <3> QED
      BY <1>1, <1>2, <1>4, <1>7, <2>1, <2>2, <3>2, <3>3 DEF Magnitude
  <2>3. CASE k < he
    <3>1. m * k + m <= m * he
      BY <1>1, <1>2, <2>3, MultiplesApart
    <3>2. m * k + raw - P <= e - P - m
      BY <1>1, <1>2, <2>1, <3>1
    <3>3. D(k) = -(m * k + raw - P)
      BY <1>1, <1>2, <1>4, <2>1, <3>2 DEF Magnitude
    <3> QED
      BY <1>1, <1>2, <1>4, <1>7, <2>1, <2>3, <3>2, <3>3 DEF Magnitude
  <2> QED
    BY <1>2, <1>8, <2>2, <2>3
<1> HIDE DEF D
<1>9. D(he) \in Int
  BY <1>1, <1>7 DEF Magnitude
<1>10. Best(he)
  BY <1>2, <1>8, <1>9
<1>11. best \in C /\ Best(best)
  BY <1>6, <1>10
<1>12. best = he
  <2>1. best \in Nat /\ (D(best) < D(he) \/ (D(best) = D(he) /\ best <= he))
    BY <1>6, <1>11
  <2> HIDE DEF best
  <2>2. best # he => D(he) < D(best) \/ (D(he) = D(best) /\ he < best)
    BY <1>8, <2>1
  <2>3. D(best) \in Int
    BY <1>1, <1>2, <1>5, <2>1 DEF D, Magnitude
  <2> QED
    BY <1>2, <1>9, <2>1, <2>2, <2>3
<1> QED
  BY <1>2, <1>3, <1>5, <1>12

-----------------------------------------------------------------------------
(* Types.                                                                  *)

\* The stages of a capture.
Captures ==
  [pc : {"idle", "latched"}]
    \cup [pc : {"read"}, raw : Nat, at : Nat]
    \cup [pc : {"loaded"}, raw : Nat, at : Nat, prev : Nat]
    \cup [pc : {"done"}, at : Nat, value : Nat]

LEMMA CaptureFields ==
  ASSUME NEW r \in Captures
  PROVE  /\ r.pc \in {"idle", "latched", "read", "loaded", "done"}
         /\ r.pc \in {"read", "loaded"} => r.raw \in Nat /\ r.at \in Nat
         /\ r.pc = "loaded" => r.prev \in Nat
         /\ r.pc = "done" => r.at \in Nat /\ r.value \in Nat
BY DEF Captures

\* Time does not start over, and the readings are those of a timer of RawMod counts.
Typed ==
  /\ TypeOK
  /\ Cap1 <= ticks
  /\ \A c \in Contexts : capture[c].pc \in {"read", "loaded"} => capture[c].raw < RawMod

LEMMA Calibrated ==
  /\ RawMod \in Nat \ {0} /\ Cap0 \in Nat /\ Cap1 \in Nat /\ Cap0 <= Cap1 /\ Cap1 < RawMod
  /\ MaxCapture \in Nat /\ MaxGap \in Nat /\ MaxCapture <= MaxGap /\ MaxPollDelay \in Nat
  /\ None \notin Nat
BY CapTimerAssumption DEF Cap1

LEMMA Reading ==
  ASSUME NEW t \in Nat
  PROVE  t % RawMod \in Nat /\ t % RawMod < RawMod /\ t % RawMod \in 0 .. RawMod - 1
<1>1. RawMod \in Nat \ {0}
  BY Calibrated
<1> QED
  BY <1>1

\* TypeOK, with the time since calibration: counts stay natural numbers, and a reading
\* is below RawMod, through every step of a capture and every poll.
LEMMA TypedAlways == Spec => []Typed
<1>1. Init => Typed
  <2> SUFFICES ASSUME Init PROVE Typed
    OBVIOUS
  <2>1. Cap1 \in Nat /\ Cap1 < RawMod
    BY Calibrated
  <2> QED
    BY <2>1 DEF Init, Typed, TypeOK
<1>2. Typed /\ [Next]_vars => Typed'
  <2> SUFFICES ASSUME Typed, [Next]_vars PROVE Typed'
    OBVIOUS
  <2> USE DEF Typed, TypeOK
  <2>0. capture \in [Contexts -> Captures]
    BY DEF Captures
  <2>1. CASE UNCHANGED vars
    BY <2>1 DEF vars, swVars, edgeVars
  <2>2. CASE Tick
    BY <2>2, Calibrated DEF Tick, swVars, edgeVars
  <2>3. ASSUME NEW c \in Contexts, Trigger(c) PROVE Typed'
    <3>1. ticks % RawMod \in Nat /\ ticks % RawMod < RawMod
      BY Reading
    <3> QED
      BY <2>3, <3>1 DEF Trigger, edgeVars
  <2>4. ASSUME NEW c \in Contexts, ReadLatch(c) PROVE Typed'
    BY <2>4 DEF ReadLatch, edgeVars
  <2>5. ASSUME NEW c \in Contexts, LoadPacked(c) PROVE Typed'
    <3>1. capture[c].raw \in Nat /\ capture[c].at \in Nat /\ capture[c].raw < RawMod
      BY <2>0, <2>5, CaptureFields DEF LoadPacked, At
    <3> QED
      BY <2>5, <3>1 DEF LoadPacked, edgeVars
  <2>6. ASSUME NEW c \in Contexts, Publish(c) PROVE Typed'
    <3>1. capture[c].raw \in Nat /\ capture[c].at \in Nat /\ capture[c].raw < RawMod
      BY <2>0, <2>6, CaptureFields DEF Publish, At
    <3>2. packed' \in Nat
      <4>1. capture[c].raw \in 0 .. RawMod - 1 /\ packed \in Nat
        BY <3>1, Calibrated
      <4> QED
        BY <2>6, <4>1, ExtendIsNext DEF Publish
    <3> QED
      BY <2>6, <3>1, <3>2 DEF Publish, edgeVars
  <2>7. ASSUME NEW c \in Contexts, Retry(c) PROVE Typed'
    <3>1. capture[c].raw \in Nat /\ capture[c].at \in Nat /\ capture[c].raw < RawMod
      BY <2>0, <2>7, CaptureFields DEF Retry, At
    <3> QED
      BY <2>7, <3>1 DEF Retry, edgeVars
  <2>8. ASSUME NEW ch \in Channels, Edge(ch) PROVE Typed'
    BY <2>8 DEF Edge, swVars
  <2>9. ASSUME NEW ch \in Channels, poll(ch) PROVE Typed'
    <3>1. Register(ch) \in Nat /\ Register(ch) \in 0 .. RawMod - 1
      BY Reading DEF Register
    <3>2. PredictedTicks \in Nat
      BY Calibrated, PredictedType
    <3>3. unwrap_cap_raw(Register(ch)) \in Nat
      BY <3>1, <3>2, UnwrapType
    <3> QED
      BY <2>9, <3>1, <3>3 DEF poll, swVars
  <2> QED
    BY <2>1, <2>2, <2>3, <2>4, <2>5, <2>6, <2>7, <2>8, <2>9
       DEF Next, sw_capture_ch2_unwrapped
<1> QED
  BY <1>1, <1>2, PTL DEF Spec

\* TypeOK: the type invariant of the run.
THEOREM TypeCorrect == Spec => []TypeOK
<1>1. Typed => TypeOK
  BY DEF Typed
<1> QED
  BY <1>1, TypedAlways, PTL

-----------------------------------------------------------------------------
(* Software captures.                                                      *)

\* Captures are more frequent than wraps.
Frequent == MaxGap < RawMod

\* What is published has the low bits of its true count, is not behind it, and is less
\* than a gap old; a capture under way holds the low bits of the count it latched, a
\* finished one has them and is not behind.
Tracks ==
  /\ ch2 = latchedAt % RawMod
  /\ latchedAt <= ticks
  /\ packed % RawMod = packedAt % RawMod
  /\ packedAt <= packed
  /\ packedAt <= ticks
  /\ ticks <= packedAt + MaxGap
  /\ \A c \in Contexts :
       /\ capture[c].pc = "latched" => ticks <= latchedAt + MaxCapture
       /\ capture[c].pc \in {"read", "loaded"} =>
            /\ capture[c].raw = capture[c].at % RawMod
            /\ capture[c].at <= ticks
            /\ ticks <= capture[c].at + MaxCapture
       /\ capture[c].pc = "done" =>
            /\ capture[c].value % RawMod = capture[c].at % RawMod
            /\ capture[c].at <= capture[c].value

\* What a publication does to a published count: it adds what has passed since, or, if a
\* later count has been published first, goes to the next one with the same reading.
LEMMA PublishTracks ==
  ASSUME Frequent, Typed, Tracks, NEW c \in Contexts, Publish(c)
  PROVE  /\ packed' \in Nat
         /\ packed' % RawMod = capture[c].at % RawMod
         /\ capture[c].at <= packed'
         /\ packedAt' = capture[c].at
         /\ packedAt' >= packedAt => packed' - packed = packedAt' - packedAt
<1> DEFINE at == capture[c].at
           raw == capture[c].raw
<1>1. capture \in [Contexts -> Captures]
  BY DEF Typed, TypeOK, Captures
<1>2. capture[c].pc = "loaded" /\ packed' = Extend(raw, packed) /\ packedAt' = at
  BY DEF Publish, At
<1>3. at \in Nat /\ packed \in Nat /\ packedAt \in Nat /\ ticks \in Nat
  BY <1>1, <1>2, CaptureFields DEF Typed, TypeOK
<1>4. raw = at % RawMod /\ at <= ticks /\ ticks <= packedAt + MaxGap /\ packedAt <= packed
      /\ packed % RawMod = packedAt % RawMod
  BY <1>2 DEF Tracks
<1>5. raw \in 0 .. RawMod - 1
  BY <1>3, <1>4, Reading
<1>6. packed' \in Nat /\ packed' % RawMod = raw /\ packed <= packed'
  BY <1>2, <1>3, <1>5, ExtendIsNext
<1>7. ASSUME packedAt <= at PROVE packed' = packed + (at - packedAt)
  <2>1. at - packedAt < RawMod
    BY <1>3, <1>4, Calibrated DEF Frequent
  <2> HIDE DEF at
  <2>2. Extend(at % RawMod, packed) = packed + (at - packedAt)
    BY <1>3, <1>4, <1>7, <2>1, ExtendAdds
  <2> QED
    BY <1>2, <1>4, <2>2
<1>8. at <= packed'
  BY <1>3, <1>4, <1>6, <1>7
<1> QED
  BY <1>2, <1>3, <1>4, <1>6, <1>7, <1>8

LEMMA TracksAlways ==
  ASSUME Frequent
  PROVE  Spec => [](Typed /\ Tracks)
<1>1. Init => Tracks
  <2> SUFFICES ASSUME Init PROVE Tracks
    OBVIOUS
  <2>1. Cap1 \in Nat /\ Cap1 < RawMod /\ RawMod \in Nat \ {0} /\ MaxGap \in Nat
    BY Calibrated
  <2>2. Cap1 % RawMod = Cap1
    BY <2>1
  <2> QED
    BY <2>1, <2>2 DEF Init, Tracks
<1>2. Typed /\ Tracks /\ [Next]_vars => Tracks'
  <2> SUFFICES ASSUME Typed, Tracks, [Next]_vars PROVE Tracks'
    OBVIOUS
  <2>0. /\ capture \in [Contexts -> Captures]
        /\ ticks \in Nat /\ latchedAt \in Nat /\ packedAt \in Nat
        /\ packed \in Nat
    BY DEF Typed, TypeOK, Captures
  <2>1. CASE UNCHANGED vars
    BY <2>1 DEF Tracks, vars, swVars, edgeVars
  <2>2. CASE Tick
    <3>1. ticks' = ticks + 1 /\ ticks < packedAt + MaxGap
          /\ UNCHANGED <<ch2, packed, capture, latchedAt, packedAt>>
      BY <2>2 DEF Tick, swVars
    <3>2. ASSUME NEW c \in Contexts
          PROVE  /\ capture[c].pc = "latched" => ticks < latchedAt + MaxCapture
                 /\ capture[c].pc \in {"read", "loaded"} =>
                      capture[c].at \in Nat /\ ticks < capture[c].at + MaxCapture
      BY <2>0, <2>2, CaptureFields DEF Tick
    <3> QED
      BY <2>0, <3>1, <3>2, Calibrated DEF Tracks
  <2>3. ASSUME NEW c \in Contexts, Trigger(c) PROVE Tracks'
    <3>1. /\ ch2' = ticks % RawMod /\ latchedAt' = ticks
          /\ capture' = [capture EXCEPT ![c] = [pc |-> "latched"]]
          /\ UNCHANGED <<ticks, packed, packedAt>>
      BY <2>3 DEF Trigger
    <3>2. ticks <= ticks + MaxCapture
      BY <2>0, Calibrated
    <3> QED
      BY <2>0, <3>1, <3>2 DEF Tracks
  <2>4. ASSUME NEW c \in Contexts, ReadLatch(c) PROVE Tracks'
    <3>1. /\ capture' = [capture EXCEPT ![c] = [pc |-> "read", raw |-> ch2, at |-> latchedAt]]
          /\ capture[c].pc = "latched"
          /\ UNCHANGED <<ticks, ch2, latchedAt, packed, packedAt>>
      BY <2>4 DEF ReadLatch, At
    <3> QED
      BY <2>0, <3>1 DEF Tracks
  <2>5. ASSUME NEW c \in Contexts, LoadPacked(c) PROVE Tracks'
    <3>1. /\ capture' = [capture EXCEPT ![c] = [pc |-> "loaded", raw |-> capture[c].raw,
                                                at |-> capture[c].at, prev |-> packed]]
          /\ capture[c].pc = "read"
          /\ UNCHANGED <<ticks, ch2, latchedAt, packed, packedAt>>
      BY <2>0, <2>5 DEF LoadPacked, At
    <3> QED
      BY <2>0, <3>1 DEF Tracks
  <2>6. ASSUME NEW c \in Contexts, Publish(c) PROVE Tracks'
    <3>1. /\ capture' = [capture EXCEPT ![c] = [pc |-> "done", at |-> capture[c].at,
                                                value |-> packed']]
          /\ capture[c].pc = "loaded"
          /\ UNCHANGED <<ticks, ch2, latchedAt>>
      BY <2>0, <2>6 DEF Publish, At
    <3>2. /\ packed' \in Nat /\ packed' % RawMod = capture[c].at % RawMod
          /\ capture[c].at <= packed' /\ packedAt' = capture[c].at
      BY <2>6, PublishTracks
    <3>3. capture[c].at \in Nat /\ capture[c].at <= ticks /\ ticks <= capture[c].at + MaxCapture
      BY <2>0, <3>1, CaptureFields DEF Tracks
    <3>4. ticks <= capture[c].at + MaxGap
      BY <2>0, <3>3, Calibrated
    <3> QED
      BY <2>0, <3>1, <3>2, <3>3, <3>4 DEF Tracks
  <2>7. ASSUME NEW c \in Contexts, Retry(c) PROVE Tracks'
    <3>1. /\ capture' = [capture EXCEPT ![c] = [pc |-> "read", raw |-> capture[c].raw,
                                                at |-> capture[c].at]]
          /\ capture[c].pc = "loaded"
          /\ UNCHANGED <<ticks, ch2, latchedAt, packed, packedAt>>
      BY <2>0, <2>7 DEF Retry, At
    <3> QED
      BY <2>0, <3>1 DEF Tracks
  <2>8. ASSUME NEW ch \in Channels, Edge(ch) \/ poll(ch) PROVE Tracks'
    BY <2>8 DEF Edge, poll, swVars, Tracks
  <2> QED
    BY <2>1, <2>2, <2>3, <2>4, <2>5, <2>6, <2>7, <2>8 DEF Next, sw_capture_ch2_unwrapped
<1> QED
  BY <1>1, <1>2, TypedAlways, PTL DEF Spec

\* CaptureNeverBehind: whatever preempts a capture, and however often it retries, its
\* low bits are right and it is not behind, if captures are more frequent than wraps.
THEOREM NeverBehind ==
  ASSUME Frequent
  PROVE  Spec => []CaptureNeverBehind
<1>1. Typed /\ Tracks => CaptureNeverBehind
  <2> SUFFICES ASSUME Typed, Tracks, NEW c \in Contexts, capture[c].pc = "done"
               PROVE  /\ capture[c].value % RawMod = capture[c].at % RawMod
                      /\ capture[c].value >= capture[c].at
    BY DEF CaptureNeverBehind
  <2>1. capture[c].value \in Nat /\ capture[c].at \in Nat
    <3>1. capture \in [Contexts -> Captures]
      BY DEF Typed, TypeOK, Captures
    <3> QED
      BY <3>1, CaptureFields
  <2> QED
    BY <2>1 DEF Tracks
<1> QED
  BY <1>1, TracksAlways, PTL

\* CaptureAddsElapsed: a reading that is no older than the published one adds exactly the
\* ticks between them, for every width of the timer.
THEOREM AddsElapsed ==
  ASSUME Frequent
  PROVE  Spec => CaptureAddsElapsed
<1>1. Typed /\ Tracks /\ [Next]_vars
        => [packedAt' >= packedAt => packed' - packed = packedAt' - packedAt]_vars
  <2> SUFFICES ASSUME Typed, Tracks, Next, packedAt' >= packedAt
               PROVE  packed' - packed = packedAt' - packedAt
    OBVIOUS
  <2>1. CASE packed' = packed /\ packedAt' = packedAt
    BY <2>1 DEF Typed, TypeOK
  <2>2. ASSUME NEW c \in Contexts, Publish(c) PROVE packed' - packed = packedAt' - packedAt
    BY <2>2, PublishTracks
  <2> QED
    BY <2>1, <2>2 DEF Next, Tick, Edge, poll, sw_capture_ch2_unwrapped, Trigger, ReadLatch,
                      LoadPacked, Retry, swVars
<1> QED
  BY <1>1, TracksAlways, PTL DEF Spec, CaptureAddsElapsed

-----------------------------------------------------------------------------
(* How close the prediction stays.                                         *)

\* Calibration may begin in the middle of one of Instant's microseconds.
Phase == Cap0 % TicksPerUs

\* A prediction t ticks after the first calibration capture is close enough, whatever the
\* roundings of Instant and of the rate: not ahead of an edge by more than half a wrap, not
\* behind the count by as much.
Close(t) ==
  /\ (2 * (t + Phase)) * Q
       <= (2 * t + RawMod - 2 * MaxPollDelay) * (UsPerTick * TicksPerUs)
  /\ (2 * t + 2 - RawMod) * (UsPerTick * TicksPerUs)
       < (2 * (t + Phase - TicksPerUs + 1)) * Q + 2 * TicksPerUs

\* It is when the calibration ends, and when the timer has run for as long as it may.
StaysClose == Cap1 <= MaxTicks /\ Close(Calibration) /\ Close(MaxTicks - Cap0)

\* What is not negative at both ends of an interval is not negative in between, if it
\* grows or falls evenly.
LEMMA NowhereNegative ==
  ASSUME NEW a \in Int, NEW b \in Int, NEW lo \in Int, NEW hi \in Int, NEW t \in lo .. hi,
         a * lo + b >= 0, a * hi + b >= 0
  PROVE  a * t + b >= 0
<1>1. CASE a >= 0
  <2>1. PICK d \in Nat : t = lo + d
    <3>1. t - lo \in Nat /\ t = lo + (t - lo)
      OBVIOUS
    <3> QED
      BY <3>1
  <2>2. a * t = a * lo + a * d
    BY <2>1
  <2>3. a * d \in Nat
    BY <1>1, <2>1
  <2>4. a * lo \in Int /\ a * t \in Int
    OBVIOUS
  <2> QED
    BY <2>2, <2>3, <2>4
<1>2. CASE a < 0
  <2>1. PICK d \in Nat : hi = t + d
    <3>1. hi - t \in Nat /\ hi = t + (hi - t)
      OBVIOUS
    <3> QED
      BY <3>1
  <2>2. PICK c \in Nat : a = -c
    <3>1. -a \in Nat /\ a = -(-a)
      BY <1>2
    <3> QED
      BY <3>1
  <2>3. a * hi = a * t - c * d
    BY <2>1, <2>2
  <2>4. c * d \in Nat
    BY <2>1, <2>2
  <2>5. a * hi \in Int /\ a * t \in Int
    OBVIOUS
  <2> QED
    BY <2>3, <2>4, <2>5
<1> QED
  BY <1>1, <1>2

LEMMA CloseBetween ==
  ASSUME NEW lo \in Int, NEW hi \in Int, NEW t \in lo .. hi, Close(lo), Close(hi)
  PROVE  Close(t)
<1> DEFINE r == Phase
           w == UsPerTick * TicksPerUs
           m == RawMod
           p == MaxPollDelay
           k == TicksPerUs
           a == 2 * w - 2 * Q
           b == (m - 2 * p) * w - (2 * r) * Q
           c == (2 * (r - k + 1)) * Q + 2 * k - 1 - (2 - m) * w
<1>1. r \in Int /\ w \in Int /\ m \in Int /\ p \in Int /\ k \in Int /\ Q \in Int
  BY CapTimerAssumption, RateType, Calibrated DEF Phase
<1>2. ASSUME NEW s \in Int
      PROVE  Close(s) <=> /\ (2 * (s + r)) * Q <= (2 * s + m - 2 * p) * w
                          /\ (2 * s + 2 - m) * w < (2 * (s + r - k + 1)) * Q + 2 * k
  BY DEF Close
<1> HIDE DEF r, w, m, p, k
<1>3. ASSUME NEW s \in Int
      PROVE  Close(s) <=> a * s + b >= 0 /\ (-a) * s + c >= 0
  <2>1. /\ (2 * (s + r)) * Q = 2 * (s * Q) + (2 * r) * Q
        /\ (2 * s + m - 2 * p) * w = 2 * (s * w) + (m - 2 * p) * w
        /\ (2 * s + 2 - m) * w = 2 * (s * w) + (2 - m) * w
        /\ (2 * (s + r - k + 1)) * Q = 2 * (s * Q) + (2 * (r - k + 1)) * Q
        /\ a * s = 2 * (s * w) - 2 * (s * Q)
        /\ (-a) * s = 2 * (s * Q) - 2 * (s * w)
    BY <1>1
  <2> DEFINE sq == s * Q
             sw == s * w
             rq == (2 * r) * Q
             mp == (m - 2 * p) * w
             mw == (2 - m) * w
             kq == (2 * (r - k + 1)) * Q
  <2>2. sq \in Int /\ sw \in Int /\ rq \in Int /\ mp \in Int /\ mw \in Int /\ kq \in Int
    BY <1>1
  <2>3. b = mp - rq /\ c = kq + 2 * k - 1 - mw
    OBVIOUS
  <2>4. Close(s) <=> 2 * sq + rq <= 2 * sw + mp /\ 2 * sw + mw < 2 * sq + kq + 2 * k
    BY <1>2, <2>1
  <2>5. a * s = 2 * sw - 2 * sq /\ (-a) * s = 2 * sq - 2 * sw
    BY <2>1
  <2> HIDE DEF sq, sw, rq, mp, mw, kq, a, b, c
  <2> QED
    BY <1>1, <2>2, <2>3, <2>4, <2>5
<1>4. a \in Int /\ b \in Int /\ c \in Int /\ -a \in Int
  BY <1>1
<1> HIDE DEF a, b, c
<1>5. a * t + b >= 0
  BY <1>3, <1>4, NowhereNegative
<1>6. (-a) * t + c >= 0
  <2> DEFINE n == -a
  <2>1. n \in Int /\ n * lo + c >= 0 /\ n * hi + c >= 0
    BY <1>3, <1>4
  <2> HIDE DEF n
  <2>2. n * t + c >= 0
    BY <1>4, <2>1, NowhereNegative
  <2> QED
    BY <2>2 DEF n
<1> QED
  BY <1>3, <1>5, <1>6

\* Instant's prediction from above and from below.
LEMMA PredictionBetween ==
  ASSUME ticks \in Nat, Cap0 <= ticks
  PROVE  LET x == PredictedTicks - Cap0
             t == ticks - Cap0
             r == Phase
         IN  /\ x * (UsPerTick * TicksPerUs) <= (t + r) * Q
             /\ (t + r - TicksPerUs + 1) * Q + TicksPerUs <= (x + 1) * (UsPerTick * TicksPerUs)
<1> DEFINE k == TicksPerUs
           u == UsPerTick
           q == Q
           r == Phase
           s == ticks % k
           t == ticks - Cap0
           d == InstantUs(ticks) - InstantUs(Cap0)
           x == PredictedTicks - Cap0
<1>1. k \in Nat \ {0} /\ q \in Nat \ {0} /\ Cap0 \in Nat /\ InstantBase \in Nat /\ u \in Nat \ {0}
  BY CapTimerAssumption, RateType
<1>2. d \in Nat
  BY <1>1, InstantMonotone
<1>3. k * d = t + r - s /\ s \in 0 .. k - 1 /\ r \in 0 .. k - 1
  <2> DEFINE y == ticks \div k
             z == Cap0 \div k
  <2>1. ticks = k * y + s /\ Cap0 = k * z + r /\ y \in Int /\ z \in Int
        /\ s \in 0 .. k - 1 /\ r \in 0 .. k - 1
    BY <1>1 DEF Phase
  <2>2. d = y - z
    BY <1>1, <2>1 DEF InstantUs
  <2> HIDE DEF y, z, d, r, s, k
  <2>3. k * d = k * y - k * z /\ k * y \in Int /\ k * z \in Int
    BY <1>1, <2>1, <2>2
  <2> QED
    BY <1>1, <2>1, <2>3
<1>4. x = (d * q) \div u
  <2>1. TruncDiv(d * q, u) = (d * q) \div u /\ (d * q) \div u \in Int
    <3> HIDE DEF d, u, q
    <3>1. d * q \in Nat
      BY <1>1, <1>2
    <3> QED
      BY <1>1, <3>1 DEF TruncDiv, Magnitude
  <2>2. PredictedTicks = Cap0 + TruncDiv(d * q, u)
    BY DEF PredictedTicks
  <2> QED
    BY <1>1, <2>1, <2>2
<1> HIDE DEF d, r, s, u, q, k, x
<1>5. x \in Int /\ x * u <= d * q /\ d * q + 1 <= (x + 1) * u
  <2> DEFINE z == d * q
  <2>1. z \in Nat
    BY <1>1, <1>2
  <2> HIDE DEF z
  <2>2. x \in Int /\ z = u * x + (z % u) /\ z % u \in 0 .. u - 1
    <3>1. x = z \div u
      BY <1>4 DEF z
    <3> QED
      BY <1>1, <2>1, <3>1
  <2>3. u * x = x * u /\ (x + 1) * u = x * u + u /\ x * u \in Int
    BY <1>1, <2>2
  <2>4. x * u <= z /\ z + 1 <= (x + 1) * u
    BY <1>1, <2>1, <2>2, <2>3
  <2> QED
    BY <2>2, <2>4 DEF z
<1>6. t \in Int /\ r \in Int /\ s \in Int
  BY <1>1, <1>3
<1> HIDE DEF t
<1>7. (d * q) * k = (t + r - s) * q
  <2>1. (d * q) * k = (k * d) * q
    BY <1>1, <1>2
  <2> QED
    BY <1>3, <2>1
<1>8. (t + r - s) * q <= (t + r) * q /\ (t + r - k + 1) * q <= (t + r - s) * q
  <2>1. (t + r) * q = (t + r - s) * q + s * q
    BY <1>1, <1>6
  <2>2. (t + r - s) * q = (t + r - k + 1) * q + (k - 1 - s) * q
    BY <1>1, <1>6
  <2>3. s * q \in Nat /\ (k - 1 - s) * q \in Nat
    <3>1. s \in Nat /\ k - 1 - s \in Nat
      BY <1>1, <1>3
    <3> QED
      BY <1>1, <3>1
  <2>4. (t + r) * q \in Int /\ (t + r - s) * q \in Int /\ (t + r - k + 1) * q \in Int
    BY <1>1, <1>6
  <2> QED
    BY <2>1, <2>2, <2>3, <2>4
<1>9. (x * u) * k <= (d * q) * k /\ (d * q) * k + k <= ((x + 1) * u) * k
  <2> DEFINE e == x * u
             f == (x + 1) * u
             z == d * q
  <2>1. e \in Int /\ f \in Int /\ z \in Int /\ e <= z /\ z + 1 <= f
    BY <1>1, <1>2, <1>5
  <2> HIDE DEF e, f, z
  <2>2. z * k = e * k + (z - e) * k /\ f * k = z * k + k + (f - z - 1) * k
    BY <1>1, <2>1
  <2>3. (z - e) * k \in Nat /\ (f - z - 1) * k \in Nat
    <3>1. z - e \in Nat /\ f - z - 1 \in Nat
      BY <2>1
    <3> QED
      BY <1>1, <3>1
  <2>4. z * k \in Int /\ e * k \in Int /\ f * k \in Int
    BY <1>1, <2>1
  <2>5. e * k <= z * k /\ z * k + k <= f * k
    BY <1>1, <2>2, <2>3, <2>4
  <2> QED
    BY <2>5 DEF e, f, z
<1>10. (x * u) * k = x * (u * k) /\ ((x + 1) * u) * k = (x + 1) * (u * k)
  BY <1>1, <1>5
<1>11. /\ x * (u * k) \in Int /\ (x + 1) * (u * k) \in Int /\ (d * q) * k \in Int
       /\ (t + r) * q \in Int /\ (t + r - s) * q \in Int /\ (t + r - k + 1) * q \in Int
  BY <1>1, <1>2, <1>5, <1>6
<1>12. x * (u * k) <= (t + r) * q /\ (t + r - k + 1) * q + k <= (x + 1) * (u * k)
  BY <1>1, <1>7, <1>8, <1>9, <1>10, <1>11
<1> QED
  BY <1>12 DEF x, t, r, u, q, k

\* Prediction and count are within half a wrap where Close says so.
LEMMA CloseEnough ==
  ASSUME ticks \in Nat, Cap0 <= ticks, Close(ticks - Cap0)
  PROVE  PredictionClose
<1> DEFINE x == PredictedTicks - Cap0
           t == ticks - Cap0
           r == Phase
           k == TicksPerUs
           w == UsPerTick * TicksPerUs
           m == RawMod
           p == MaxPollDelay
<1>1. k \in Nat \ {0} /\ Q \in Nat \ {0} /\ Cap0 \in Nat /\ m \in Nat \ {0} /\ p \in Nat
      /\ w \in Nat \ {0} /\ t \in Int /\ r \in Int
  <2>1. TicksPerUs \in Nat \ {0} /\ UsPerTick \in Nat \ {0}
    BY CapTimerAssumption, RateType
  <2>2. UsPerTick * TicksPerUs \in Nat \ {0}
    BY <2>1
  <2> QED
    BY <2>1, <2>2, CapTimerAssumption DEF Phase
<1>2. PredictedTicks \in Nat /\ x \in Int
  BY <1>1, PredictedType
<1>3. x * w <= (t + r) * Q /\ (t + r - k + 1) * Q + k <= (x + 1) * w
  BY PredictionBetween
<1>4. /\ (2 * (t + r)) * Q <= (2 * t + m - 2 * p) * w
      /\ (2 * t + 2 - m) * w < (2 * (t + r - k + 1)) * Q + 2 * k
  BY DEF Close
<1>5. PredictedTicks = x + Cap0 /\ ticks = t + Cap0
  BY <1>1, <1>2
<1> HIDE DEF x, t, r, k, w, m, p
<1>6. (2 * x) * w <= (2 * t + m - 2 * p) * w
  <2>1. (2 * x) * w = 2 * (x * w) /\ (2 * (t + r)) * Q = 2 * ((t + r) * Q)
    BY <1>1, <1>2
  <2>2. x * w \in Int /\ (t + r) * Q \in Int /\ (2 * t + m - 2 * p) * w \in Int
    BY <1>1, <1>2
  <2> QED
    BY <1>3, <1>4, <2>1, <2>2
<1>7. (2 * t + 2 - m) * w < (2 * (x + 1)) * w
  <2>1. (2 * (x + 1)) * w = 2 * ((x + 1) * w)
        /\ (2 * (t + r - k + 1)) * Q = 2 * ((t + r - k + 1) * Q)
    BY <1>1, <1>2
  <2>2. (x + 1) * w \in Int /\ (t + r - k + 1) * Q \in Int /\ (2 * t + 2 - m) * w \in Int
    BY <1>1, <1>2
  <2> QED
    BY <1>1, <1>3, <1>4, <2>1, <2>2
<1>8. ASSUME NEW a \in Int, NEW b \in Int, a > b
      PROVE  a * w >= b * w + w
  <2>1. w * b + w <= w * a
    BY <1>1, <1>8, MultiplesApart
  <2> QED
    BY <1>1, <1>8, <2>1
<1>9. 2 * x <= 2 * t + m - 2 * p
  <2> DEFINE a == 2 * x
             b == 2 * t + m - 2 * p
  <2>1. a \in Int /\ b \in Int /\ a * w <= b * w
    BY <1>1, <1>2, <1>6
  <2> HIDE DEF a, b
  <2>2. a * w \in Int /\ b * w \in Int /\ ~ (a > b)
    BY <1>1, <1>8, <2>1
  <2>3. a <= b
    BY <2>1, <2>2
  <2> QED
    BY <2>3 DEF a, b
<1>10. 2 * t + 2 - m < 2 * (x + 1)
  <2> DEFINE a == 2 * t + 2 - m
             b == 2 * (x + 1)
  <2>1. a \in Int /\ b \in Int /\ a * w < b * w
    BY <1>1, <1>2, <1>7
  <2> HIDE DEF a, b
  <2>2. a * w \in Int /\ b * w \in Int /\ ~ (a > b)
    BY <1>1, <1>8, <2>1
  <2>3. a # b
    BY <2>1, <2>2
  <2>4. a < b
    BY <2>1, <2>2, <2>3
  <2> QED
    BY <2>4 DEF a, b
<1>11. 2 * (PredictedTicks - (ticks - p)) <= m /\ 2 * (ticks - PredictedTicks) < m
  BY <1>1, <1>2, <1>5, <1>9, <1>10
<1> QED
  BY <1>11 DEF PredictionClose, p, m

\* PredictionClose: a rate that is close enough when it has been calibrated and when the
\* timer has run for as long as it may is close enough all the time in between.
THEOREM PredictionsClose ==
  ASSUME StaysClose
  PROVE  Spec => []PredictionClose
<1> DEFINE InTime == ticks <= MaxTicks
<1>1. Init => InTime
  BY DEF Init, StaysClose
<1>2. Typed /\ InTime /\ [Next]_vars => InTime'
  <2> SUFFICES ASSUME Typed, InTime, [Next]_vars PROVE InTime'
    OBVIOUS
  <2>1. CASE Tick
    BY <2>1, CapTimerAssumption DEF Tick, Typed, TypeOK
  <2>2. CASE UNCHANGED ticks
    BY <2>2
  <2> QED
    BY <2>1, <2>2 DEF Next, sw_capture_ch2_unwrapped, Trigger, ReadLatch, LoadPacked, Publish,
                      Retry, Edge, poll, vars
<1>3. Typed /\ InTime => PredictionClose
  <2> SUFFICES ASSUME Typed, InTime PROVE PredictionClose
    OBVIOUS
  <2> DEFINE t == ticks - Cap0
             hi == MaxTicks - Cap0
  <2>1. ticks \in Nat /\ Cap0 \in Nat /\ Cap1 <= ticks /\ Cap1 = Cap0 + Calibration
        /\ Calibration \in Nat /\ MaxTicks \in Nat /\ ticks <= MaxTicks
    BY CapTimerAssumption DEF Typed, TypeOK, Cap1
  <2>2. Close(Calibration) /\ Close(hi)
    BY DEF StaysClose
  <2>3. Calibration \in Int /\ hi \in Int /\ t \in Calibration .. hi /\ Cap0 <= ticks
    BY <2>1
  <2> HIDE DEF t, hi
  <2>4. Close(t)
    BY <2>2, <2>3, CloseBetween
  <2> QED
    BY <2>1, <2>3, <2>4, CloseEnough DEF t
<1> QED
  BY <1>1, <1>2, <1>3, TypedAlways, PTL DEF Spec

-----------------------------------------------------------------------------
(* Edges.                                                                  *)

\* An edge that has not been polled is recent.
Recent ==
  /\ \A ch \in Channels : edge[ch] <= ticks
  /\ \A ch \in Channels : Register(ch) # lastRaw[ch] => ticks <= edge[ch] + MaxPollDelay

LEMMA RecentAlways == Spec => [](Typed /\ Recent)
<1>1. Init => Recent
  <2> SUFFICES ASSUME Init PROVE Recent
    OBVIOUS
  <2>1. Cap1 \in Nat /\ RawMod \in Nat \ {0}
    BY Calibrated
  <2>2. 0 % RawMod = 0
    BY <2>1
  <2> QED
    BY <2>1, <2>2 DEF Init, Recent, Register
<1>2. Typed /\ Recent /\ [Next]_vars => Recent'
  <2> SUFFICES ASSUME Typed, Recent, [Next]_vars PROVE Recent'
    OBVIOUS
  <2>0. ticks \in Nat /\ edge \in [Channels -> Nat] /\ lastRaw \in [Channels -> Nat]
        /\ MaxPollDelay \in Nat
    BY Calibrated DEF Typed, TypeOK
  <2>1. CASE UNCHANGED vars
    BY <2>1 DEF Recent, Register, vars, edgeVars
  <2>2. CASE Tick
    BY <2>0, <2>2 DEF Tick, Recent, Register, edgeVars
  <2>3. ASSUME NEW c \in Contexts, sw_capture_ch2_unwrapped(c) PROVE Recent'
    BY <2>3 DEF sw_capture_ch2_unwrapped, Trigger, ReadLatch, LoadPacked, Publish, Retry,
                Recent, Register, edgeVars
  <2>4. ASSUME NEW ch \in Channels, Edge(ch) PROVE Recent'
    BY <2>0, <2>4 DEF Edge, Recent, Register
  <2>5. ASSUME NEW ch \in Channels, poll(ch) PROVE Recent'
    BY <2>0, <2>5 DEF poll, Recent, Register
  <2> QED
    BY <2>1, <2>2, <2>3, <2>4, <2>5 DEF Next
<1> QED
  BY <1>1, <1>2, TypedAlways, PTL DEF Spec

\* While Instant's prediction is close enough, every polled edge is where the hardware
\* latched it.
LEMMA EdgesFollowPrediction == Spec /\ []PredictionClose => []EdgeExact
<1>1. Init => EdgeExact
  BY DEF Init, EdgeExact
<1>2. Typed /\ Recent /\ PredictionClose /\ EdgeExact /\ [Next]_vars => EdgeExact'
  <2> SUFFICES ASSUME Typed, Recent, PredictionClose, EdgeExact, [Next]_vars
               PROVE  EdgeExact'
    OBVIOUS
  <2>1. CASE UNCHANGED <<polled, polledAt>>
    BY <2>1 DEF EdgeExact
  <2>2. ASSUME NEW ch \in Channels, poll(ch) PROVE EdgeExact'
    <3>1. edge[ch] \in Nat /\ ticks \in Nat /\ edge[ch] <= ticks
          /\ ticks <= edge[ch] + MaxPollDelay
      BY <2>2 DEF Typed, TypeOK, Recent, poll
    <3>2. PredictedTicks \in Nat
      BY Calibrated, PredictedType DEF Typed, TypeOK
    <3> DEFINE P == PredictedTicks
               e == edge[ch]
    <3>3. 2 * (P - (ticks - MaxPollDelay)) <= RawMod /\ 2 * (ticks - P) < RawMod
      BY DEF PredictionClose
    <3>4. P \in Nat /\ e \in Nat /\ e <= ticks /\ ticks <= e + MaxPollDelay
      BY <3>1, <3>2
    <3> HIDE DEF P, e
    <3>5. 2 * (P - e) <= RawMod /\ 2 * (e - P) < RawMod
      BY <3>1, <3>3, <3>4, Calibrated
    <3>6. unwrap_cap_raw(e % RawMod) = e
      BY <3>4, <3>5, UnwrapNearest DEF P
    <3>7. unwrap_cap_raw(Register(ch)) = edge[ch]
      BY <3>6 DEF e, Register
    <3> QED
      BY <2>2, <3>7 DEF poll, EdgeExact, Typed, TypeOK
  <2> QED
    BY <2>1, <2>2 DEF Next, vars, edgeVars, swVars, Tick, Edge, sw_capture_ch2_unwrapped,
                      Trigger, ReadLatch, LoadPacked, Publish, Retry
<1> QED
  BY <1>1, <1>2, RecentAlways, PTL DEF Spec

\* EdgeExact: every polled edge is where the hardware latched it, over any number of wraps
\* that the calibration allows.
THEOREM EdgesExact ==
  ASSUME StaysClose
  PROVE  Spec => []EdgeExact
BY PredictionsClose, EdgesFollowPrediction, PTL

\* HighBitsAgree: captures and edges, extended in different ways, are in the same order as
\* the instants they were latched at.
THEOREM HighBits ==
  ASSUME Frequent, StaysClose
  PROVE  Spec => []HighBitsAgree
<1>1. Typed /\ CaptureNeverBehind /\ EdgeExact => HighBitsAgree
  <2> SUFFICES ASSUME Typed, CaptureNeverBehind, EdgeExact,
                      NEW ch \in Channels, NEW c \in Contexts,
                      polled[ch] # None, capture[c].pc = "done", capture[c].at >= polledAt[ch]
               PROVE  capture[c].value >= polled[ch]
    BY DEF HighBitsAgree
  <2>1. polled[ch] = polledAt[ch] /\ polled[ch] \in Nat
    BY DEF EdgeExact, Typed, TypeOK
  <2>2. capture[c].value >= capture[c].at
    BY DEF CaptureNeverBehind
  <2>3. capture[c].at \in Nat /\ capture[c].value \in Nat
    BY DEF Typed, TypeOK
  <2> QED
    BY <2>1, <2>2, <2>3
<1> QED
  BY <1>1, TypedAlways, NeverBehind, EdgesExact, PTL

=============================================================================
