---------------------------- MODULE LinearTracker ---------------------------
(***************************************************************************)
(* The least-squares tracker of crates/clock-sync/src/lib.rs, as operators *)
(* on a tracker value: a ring of the last N points and the line fitted to  *)
(* them through their centroid, its slope in fixed point.  ">>" rounds     *)
(* down and "/" towards zero, as in the code.                              *)
(***************************************************************************)
EXTENDS RustArith, FiniteSets

CONSTANTS
  N,            \* size of the ring (256)
  MIN_SAMPLES,  \* points needed for a prediction (8)
  SlopeQ,       \* fixed-point scale of the slope (2^32)
  NoPoint,      \* an empty slot
  None          \* no prediction

new == [samples |-> [i \in 0..N-1 |-> NoPoint], head |-> 0, n |-> 0, last_x |-> 0,
        mean_x |-> 0, mean_y |-> 0, slope_q32 |-> 0]

Points(t) == {i \in 0..N-1 : t.samples[i] # NoPoint}

\* The sum of f over the occupied slots, slot by slot.
Total(t, f(_)) ==
  LET sum[i \in 0..N] ==
        IF i = 0 THEN 0
        ELSE sum[i-1] + (IF t.samples[i-1] = NoPoint THEN 0 ELSE f(t.samples[i-1]))
  IN  sum[N]

Num(t, x, y) == Total(t, LAMBDA p : (p.x - x) * (p.y - y))
Den(t, x) == Total(t, LAMBDA p : (p.x - x) * (p.x - x))

\* The centroid of the points, its x summed from last_x on.
MeanX(t) ==
  t.last_x + TruncDiv(Total(t, LAMBDA p : p.x - t.last_x), Cardinality(Points(t)))

MeanY(t) == TruncDiv(Total(t, LAMBDA p : p.y), Cardinality(Points(t)))

\* The least-squares slope around a centroid.
Slope(t, x, y) ==
  Clamp(TruncDiv(Num(t, x, y) * SlopeQ, Den(t, x)), -(SlopeQ \div 2), SlopeQ \div 2)

\* The least-squares line; it is left as it was when the points are too few, or all at
\* one x.
refit(t) ==
  LET x == MeanX(t)
      y == MeanY(t)
  IN  IF \/ Cardinality(Points(t)) < MIN_SAMPLES
         \/ \A i \in Points(t) : t.samples[i].x = x
      THEN t
      ELSE [t EXCEPT !.slope_q32 = Slope(t, x, y), !.mean_x = x, !.mean_y = y]

\* Faulty: the line keeps passing through the centroid of an older window.
observe_late_fit(t, x, y) ==
  [refit(t) EXCEPT !.samples[t.head] = [x |-> x, y |-> y],
                   !.head = (t.head + 1) % N,
                   !.n = Least(t.n + 1, N),
                   !.last_x = x]

observe(t, x, y) ==
  refit([t EXCEPT !.samples[t.head] = [x |-> x, y |-> y],
                  !.head = (t.head + 1) % N,
                  !.n = Least(t.n + 1, N),
                  !.last_x = x])

predict(t, x) ==
  IF t.n < MIN_SAMPLES
  THEN None
  ELSE t.mean_y + ((x - t.mean_x) * t.slope_q32) \div SlopeQ

\* A flat line has no inverse; the mean x stands for it.
predict_inverse(t, y) ==
  IF t.n < MIN_SAMPLES THEN None
  ELSE IF t.slope_q32 = 0 THEN t.mean_x
  ELSE t.mean_x + TruncDiv((y - t.mean_y) * SlopeQ, t.slope_q32)

slope_ppb(t, billion) == (t.slope_q32 * billion) \div SlopeQ

=============================================================================
