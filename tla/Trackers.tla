------------------------------ MODULE Trackers ------------------------------
(***************************************************************************)
(* A tracker of crates/clock-sync/src/lib.rs, of either kind, fed noisy     *)
(* observations of one offset at irregular times, some of them repeated or *)
(* out of order, and one an outlier.  Times are kept relative to the       *)
(* greatest one so far, so that runs of any length have finitely many      *)
(* states: the trackers only use differences of times.                     *)
(***************************************************************************)
EXTENDS RustArith, FiniteSetsExt

CONSTANTS
  OffsetQ, RateToOffset, MaxInnovation, alpha, beta,   \* of the alpha-beta filter
  N, SlopeQ, NoPoint,                                  \* of the least-squares tracker
  MIN_POINTS,  \* its MIN_SAMPLES
  NoTracker,   \* where the tracker is of the other kind
  Gaps,        \* environment: from the greatest time so far to an observation
  Observed,    \* environment: what is observed
  Outlier,     \* environment: what is observed once
  Settled      \* environment: what is observed in the end

AB == INSTANCE AlphaBeta WITH None <- NoTracker
LT == INSTANCE LinearTracker WITH MIN_SAMPLES <- MIN_POINTS, None <- NoTracker

ASSUME TrackersAssumption ==
  /\ {OffsetQ, RateToOffset, SlopeQ, MaxInnovation, alpha, beta, N, MIN_POINTS} \subseteq Nat \ {0}
  /\ MIN_POINTS <= N
  /\ NoPoint \notin [x : Int, y : Int]
  /\ SlopeQ % 2 = 0
  /\ Gaps \subseteq Int /\ Observed \subseteq Nat
  /\ Outlier \in Nat /\ Settled \in Observed

VARIABLES
  filter,    \* the AlphaBetaFilter, or NoTracker
  line,      \* the LinearTracker, or NoTracker
  outlier,   \* "pending", "seed" when it was the first observation, or "past"
  quiet      \* whether the noise has stopped

trackerVars == <<filter, line, outlier, quiet>>

TrackerInit ==
  /\ \/ filter = AB!new /\ line = NoTracker
     \/ filter = NoTracker   /\ line = LT!new
  /\ outlier = "pending"
  /\ quiet = FALSE

-----------------------------------------------------------------------------
\* A value with its times counted from x on.
FilterFrom(f, x) == [f EXCEPT !.last_x_us = @ - x]

PointFrom(p, x) == IF p = NoPoint THEN NoPoint ELSE [p EXCEPT !.x = @ - x]

LineFrom(t, x) ==
  [t EXCEPT !.samples = [i \in 0..N-1 |-> PointFrom(@[i], x)],
            !.last_x = @ - x,
            !.mean_x = @ - x]

\* Offset y is observed at x.
Feed(x, y) ==
  LET origin == IF x > 0 THEN x ELSE 0
  IN  \/ /\ filter # NoTracker
         /\ \E f \in {AB!observe(filter, alpha, beta, x, y)} : filter' = FilterFrom(f, origin)
         /\ line' = NoTracker
      \/ /\ line # NoTracker
         /\ \E t \in {LT!observe(line, x, y)} : line' = LineFrom(t, origin)
         /\ filter' = NoTracker

Noise ==
  /\ ~quiet
  /\ \E x \in Gaps, y \in Observed : Feed(x, y)
  /\ UNCHANGED <<outlier, quiet>>

Burst ==
  /\ outlier = "pending"
  /\ ~quiet
  /\ \E x \in Gaps : Feed(x, Outlier)
  /\ outlier' = IF filter = AB!new THEN "seed" ELSE "past"
  /\ UNCHANGED quiet

Calm ==
  /\ ~quiet
  /\ quiet' = TRUE
  /\ UNCHANGED <<filter, line, outlier>>

Steady(x) ==
  /\ quiet
  /\ Feed(x, Settled)
  /\ UNCHANGED <<outlier, quiet>>

TrackerNext == Noise \/ Burst \/ Calm \/ \E x \in Gaps : Steady(x)

\* Observations go on to be made at later times.
Fairness == WF_trackerVars(\E x \in Gaps : x > 0 /\ Steady(x))

TrackerSpec == TrackerInit /\ [][TrackerNext]_trackerVars /\ Fairness

-----------------------------------------------------------------------------
Lo == Min(Observed)
Hi == Max(Observed)

\* However the observations fall within their range and whatever gaps they leave, the
\* filter never leaves it by more than its width: rate and offset do not feed each
\* other's errors where beta is as weak against alpha as in the client's filter of the
\* access point's clock (16 and 2048). An outlier adds what the clamp lets through in one
\* step, except as the first observation, which is taken as it is.
FilterBounded ==
  LET excess == Hi - Lo + (IF outlier = "past" THEN MaxInnovation \div alpha ELSE 0)
  IN  filter # NoTracker /\ outlier # "seed" =>
        filter.offset_q \in (Lo - excess) * OffsetQ .. (Hi + excess) * OffsetQ

Held == {line.samples[i] : i \in LT!Points(line)}

LineThroughWindow ==
  Cardinality({p.x : p \in Held}) > 1
    => /\ Min({p.x : p \in Held}) <= line.mean_x /\ line.mean_x <= Max({p.x : p \in Held})
       /\ Min({p.y : p \in Held}) <= line.mean_y /\ line.mean_y <= Max({p.y : p \in Held})

\* The line is anchored within the window of the latest points, unless these are all at
\* one time, and never gains or loses more than half of the time that passes; unless it is
\* flat, predict undoes predict_inverse within a unit.
LineSound ==
  line # NoTracker /\ line.n >= MIN_POINTS =>
    /\ LineThroughWindow
    /\ line.slope_q32 \in -(SlopeQ \div 2) .. SlopeQ \div 2
    /\ line.slope_q32 # 0 =>
         \A y \in Observed \cup {Outlier} :
           Magnitude(LT!predict(line, LT!predict_inverse(line, y)) - y) <= 1

\* When the noise stops, either tracker ends up at the offset, however far the outlier or
\* the noise has taken it: neither rate nor offset nor slope is left over.
Settles ==
  <>[](quiet =>
         /\ filter # NoTracker =>
              /\ filter.initialized
              /\ Magnitude(AB!predict(filter, filter.last_x_us) - Settled) <= 1
         /\ line # NoTracker => \A x \in Gaps : LT!predict(line, x) = Settled)
=============================================================================
