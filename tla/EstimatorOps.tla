---------------------------- MODULE EstimatorOps ----------------------------
(***************************************************************************)
(* The sliding-window estimator of crates/clock-sync/src/lib.rs, as        *)
(* operators on an estimator value.  An estimator maps a local microsecond *)
(* clock onto the server's nanosecond clock: it keeps the last WINDOW      *)
(* observations in a ring and, after every one, recomputes the offset      *)
(* between the clocks as their mean.                                       *)
(*                                                                         *)
(* The struct's fields offset_ns, drift_ppb and residual_us_p95, which     *)
(* only refit writes, are grouped in a record "fit"; anchor_us, which is   *)
(* never anything but 0, is left out.  The i128 arithmetic saturates far   *)
(* outside the range of the clocks, so it is integer arithmetic here; the  *)
(* truncating division of Rust is kept.                                    *)
(***************************************************************************)
EXTENDS RustArith, FiniteSets, Functions

CONSTANTS
  WINDOW,       \* slots of the ring (256)
  MIN_SAMPLES,  \* observations needed before a query is answered (8)
  NsPerUs,      \* nominal slope, in server ns per local microsecond (1_000)
  MinSpanUs,    \* span the drift hint needs to be computed (1_000_000)
  SlopeScale,   \* fixed-point scale of the slope (1_000_000)
  MaxDrift,     \* bound of the drift hint (1_000_000)
  U32_MAX,      \* u32::MAX, the "no residual yet" value
  NoSample,     \* an empty slot of the ring
  None          \* a query that has no answer

ASSUME EstimatorAssumption ==
  /\ WINDOW \in Nat \ {0}
  /\ MIN_SAMPLES \in 1..WINDOW
  /\ NsPerUs \in Nat \ {0}
  /\ MinSpanUs \in Nat
  /\ SlopeScale \in Nat \ {0}
  /\ MaxDrift \in Nat
  /\ U32_MAX \in Nat
  /\ None \notin Int
  /\ NoSample \notin [server_ns : Int, local_us : Int]

-----------------------------------------------------------------------------
\* The Newton iteration of isqrt_u128: the loop's second guess y is always the step
\* from its first, x.
isqrt_u128(n) ==
  LET newton[x \in 1..n] ==
        LET y == (x + n \div x) \div 2 IN IF y < x THEN newton[y] ELSE x
  IN  IF n < 2 THEN n ELSE newton[n]

Slots == 0 .. WINDOW - 1

\* The slots samples.iter().flatten() visits.
Occupied(samples) == {i \in Slots : samples[i] # NoSample}

\* The offset between the two clocks that one observation shows.
OffsetOf(s) == s.server_ns - NsPerUs * s.local_us

\* The first slot, in iteration order, with the least local reading, and the
\* first with the greatest.
Oldest(samples) ==
  CHOOSE i \in Occupied(samples) : \A j \in Occupied(samples) :
    \/ samples[i].local_us < samples[j].local_us
    \/ samples[i].local_us = samples[j].local_us /\ i <= j

Newest(samples) ==
  CHOOSE i \in Occupied(samples) : \A j \in Occupied(samples) :
    \/ samples[i].local_us > samples[j].local_us
    \/ samples[i].local_us = samples[j].local_us /\ i <= j

\* The drift hint from a pair of observations, in 1/SlopeScale of a ns per
\* microsecond above the nominal slope.
DriftBetween(o, n) ==
  IF n.local_us > o.local_us + MinSpanUs
  THEN LET slope == TruncDiv((n.server_ns - o.server_ns) * SlopeScale,
                             n.local_us - o.local_us)
       IN  Clamp(slope - NsPerUs * SlopeScale, -MaxDrift, MaxDrift)
  ELSE 0

\* The distance, in microseconds, of one observation from the mean offset.
ResidualUs(s, mean) == Magnitude(OffsetOf(s) - mean) \div NsPerUs

\* The observations' offsets, by slot.
Offsets(samples) == [i \in Occupied(samples) |-> OffsetOf(samples[i])]

\* Faulty: the sum is divided by the size of the ring.
MeanOffset_of_ring(samples) == TruncDiv(SumFunction(Offsets(samples)), WINDOW)

MeanOffset(samples) ==
  TruncDiv(SumFunction(Offsets(samples)), Cardinality(Occupied(samples)))

\* The squared residuals, by slot.
Squares(samples, mean) ==
  [i \in Occupied(samples) |-> ResidualUs(samples[i], mean) * ResidualUs(samples[i], mean)]

\* Faulty: every square is divided, not their sum.
StdUs_rounds_each(samples, mean) ==
  LET k == Cardinality(Occupied(samples))
  IN  isqrt_u128(SumFunction([i \in Occupied(samples) |-> Squares(samples, mean)[i] \div k]))

StdUs(samples, mean) ==
  isqrt_u128(SumFunction(Squares(samples, mean)) \div Cardinality(Occupied(samples)))

\* Recompute the fit from the ring; too few observations leave it as it was.
refit(samples, fit) ==
  LET mean == MeanOffset(samples)
  IN  IF Cardinality(Occupied(samples)) < MIN_SAMPLES
      THEN fit
      ELSE [offset_ns       |-> mean,
            drift_ppb       |-> DriftBetween(samples[Oldest(samples)],
                                             samples[Newest(samples)]),
            residual_us_p95 |-> Least(2 * StdUs(samples, mean), U32_MAX)]

-----------------------------------------------------------------------------
(* The estimator's methods.                                                *)

new ==
  [samples        |-> [i \in Slots |-> NoSample],
   head           |-> 0,
   n              |-> 0,
   last_update_us |-> 0,
   fit            |-> [offset_ns |-> 0, drift_ppb |-> 0, residual_us_p95 |-> U32_MAX]]

\* Faulty: the count wraps with the head, or the head skips the last slot.
observe_restarts(e, s) ==
  LET samples == [e.samples EXCEPT ![e.head] = s]
  IN  [samples        |-> samples,
       head           |-> (e.head + 1) % WINDOW,
       n              |-> (e.n + 1) % WINDOW,
       last_update_us |-> s.local_us,
       fit            |-> refit(samples, e.fit)]

observe_skips_slot(e, s) ==
  LET samples == [e.samples EXCEPT ![e.head] = s]
  IN  [samples        |-> samples,
       head           |-> (e.head + 1) % (WINDOW - 1),
       n              |-> IF e.n < WINDOW THEN e.n + 1 ELSE e.n,
       last_update_us |-> s.local_us,
       fit            |-> refit(samples, e.fit)]

observe(e, s) ==
  LET samples == [e.samples EXCEPT ![e.head] = s]
  IN  [samples        |-> samples,
       head           |-> (e.head + 1) % WINDOW,
       n              |-> IF e.n < WINDOW THEN e.n + 1 ELSE e.n,
       last_update_us |-> s.local_us,
       fit            |-> refit(samples, e.fit)]

synced_ns_at(e, local_us) ==
  LET predicted == e.fit.offset_ns + NsPerUs * local_us
  IN  IF e.n < MIN_SAMPLES \/ predicted < 0 THEN None ELSE predicted

\* Faulty: the quotient is rounded up.
local_us_at_rounds_up(e, server_ns) ==
  LET num == server_ns - e.fit.offset_ns
  IN  IF e.n < MIN_SAMPLES \/ num < 0 THEN None ELSE (num + NsPerUs - 1) \div NsPerUs

local_us_at(e, server_ns) ==
  LET num == server_ns - e.fit.offset_ns
  IN  IF e.n < MIN_SAMPLES \/ num < 0 THEN None ELSE num \div NsPerUs

quality(e) ==
  [n_samples       |-> e.n,
   residual_us_p95 |-> IF e.n >= MIN_SAMPLES THEN e.fit.residual_us_p95 ELSE U32_MAX,
   drift_ppb       |-> e.fit.drift_ppb,
   last_update_us  |-> e.last_update_us]

=============================================================================
