----------------------------- MODULE Estimator ------------------------------
(***************************************************************************)
(* One estimator that is fed observations one after another: the state     *)
(* machine around the methods of EstimatorOps, with what its callers rely  *)
(* on.                                                                     *)
(***************************************************************************)
EXTENDS EstimatorOps, Sequences

CONSTANTS
  Sample,       \* the observations that may be made
  Readings,     \* the local readings that may be asked for
  Times         \* the server times that may be asked for

ASSUME SampleAssumption ==
  /\ \A s \in Sample : /\ s = [server_ns |-> s.server_ns, local_us |-> s.local_us]
                      /\ s.server_ns \in Nat
                      /\ s.local_us \in Nat
  /\ NoSample \notin Sample
  /\ Readings \subseteq Nat
  /\ Times \subseteq Nat

VARIABLE est

vars == <<est>>

Init == est = new

Observe(s) == est' = observe(est, s)

Next == \E s \in Sample : Observe(s)

Spec == Init /\ [][Next]_vars

-----------------------------------------------------------------------------
(* The type invariant.  A ring that is not full holds its observations in  *)
(* its first slots and writes after them.                                  *)

Fit == [offset_ns : Int, drift_ppb : Int, residual_us_p95 : Int]

TypeOK ==
  /\ est \in [samples : [Slots -> Sample \cup {NoSample}], head : Slots, n : 0..WINDOW,
              last_update_us : Nat, fit : Fit]
  /\ est.n < WINDOW => est.head = est.n
  /\ \A i \in Slots : (est.samples[i] # NoSample) <=> i < est.n

-----------------------------------------------------------------------------
(* The ring as a queue.                                                    *)

\* The slot of the j-th oldest observation, j counted from 1.
SlotOf(j) ==
  LET i == est.head - est.n + j - 1 IN IF i < 0 THEN i + WINDOW ELSE i

\* The observations of the ring, the oldest first.
Window == [j \in 1..est.n |-> est.samples[SlotOf(j)]]

SW == INSTANCE SampleWindow WITH window <- Window

-----------------------------------------------------------------------------
(* What the callers rely on.                                               *)

\* The ring is the window of the most recent observations: what an observation
\* overwrites is always the oldest one (observe, the ring arithmetic).
RefinesWindow == SW!Spec

\* An answer lies where the observations of the window put it: between the
\* answers that each of them alone would give.  A reading is refused only if
\* there are too few observations or one of them puts it before server time 0.
AnswersWithinWindow ==
  \A x \in Readings :
    LET at(j) == OffsetOf(Window[j]) + NsPerUs * x
        answer == synced_ns_at(est, x)
    IN  IF answer = None
        THEN est.n < MIN_SAMPLES \/ \E j \in 1..est.n : at(j) < 0
        ELSE /\ est.n >= MIN_SAMPLES
             /\ \E j \in 1..est.n : at(j) <= answer
             /\ \E j \in 1..est.n : at(j) >= answer

\* The two queries are inverse to each other: a reading that is answered is
\* recovered exactly, and a server time to within the microsecond the local
\* clock resolves (synced_ns_at and local_us_at round and refuse alike).
InverseConsistent ==
  /\ \A x \in Readings :
       synced_ns_at(est, x) # None => local_us_at(est, synced_ns_at(est, x)) = x
  /\ \A t \in Times :
       LET x    == local_us_at(est, t)
           back == synced_ns_at(est, x)
       IN  x # None => IF back = None THEN t < NsPerUs
                       ELSE back \in t - NsPerUs + 1 .. t

\* The residual of quality() bounds most of the window: fewer than a quarter of
\* the observations are further than residual_us_p95 and a microsecond's rounding
\* from the fit (the variance, its square root and the doubling round down).
ResidualCovers ==
  LET p95 == quality(est).residual_us_p95
      far == {j \in 1..est.n : ResidualUs(Window[j], est.fit.offset_ns) >= p95 + 2}
  IN  est.n >= MIN_SAMPLES /\ p95 < U32_MAX => 4 * Cardinality(far) < est.n

=============================================================================
