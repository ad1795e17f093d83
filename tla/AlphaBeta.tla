----------------------------- MODULE AlphaBeta ------------------------------
(***************************************************************************)
(* The alpha-beta filter of crates/clock-sync/src/lib.rs, as operators on  *)
(* a filter value: it tracks an offset and its rate in fixed point, clamps *)
(* every innovation, and ignores an observation that is not newer than the *)
(* last one.  ">>" rounds down and "/" towards zero, as in the code.       *)
(***************************************************************************)
EXTENDS RustArith

CONSTANTS
  OffsetQ,        \* fixed-point scale of the offset (2^20)
  RateToOffset,   \* scale of the rate over that of the offset (2^12)
  MaxInnovation,  \* MAX_INNOVATION_US (1_000)
  None            \* no prediction

new == [initialized |-> FALSE, last_x_us |-> 0, offset_q |-> 0, rate_q |-> 0]

\* The tracked offset at x, in fixed point.
Extrapolated(f, x) ==
  f.offset_q + (f.rate_q * (x - f.last_x_us)) \div RateToOffset

\* Faulty: scaled by the rate's shift.
predict_rate_shift(f, x) ==
  IF f.initialized THEN Extrapolated(f, x) \div RateToOffset ELSE None

predict(f, x) == IF f.initialized THEN Extrapolated(f, x) \div OffsetQ ELSE None

\* Tracked rate and offset; billion is 1_000_000_000.
rate_ppb(f, billion) == (f.rate_q * billion) \div (OffsetQ * RateToOffset)

offset_us(f) == f.offset_q \div OffsetQ

\* Faulty: outliers count in full.
Innovation_unclamped(f, x, y) == y * OffsetQ - Extrapolated(f, x)

\* What is new in an observation, with outliers cut.
Innovation(f, x, y) ==
  Clamp(y * OffsetQ - Extrapolated(f, x), -MaxInnovation * OffsetQ, MaxInnovation * OffsetQ)

\* Observe offset y at x, with the gains alpha and beta.
observe(f, alpha, beta, x, y) ==
  LET dx         == x - f.last_x_us
      innovation == Innovation(f, x, y)
      rate       == TruncDiv(innovation * RateToOffset, dx)
  IN  IF ~f.initialized
      THEN [initialized |-> TRUE, last_x_us |-> x, offset_q |-> y * OffsetQ, rate_q |-> 0]
      ELSE IF dx <= 0
      THEN f
      ELSE [initialized |-> TRUE,
            last_x_us   |-> x,
            offset_q    |-> Extrapolated(f, x) + TruncDiv(innovation, alpha),
            rate_q      |-> f.rate_q + TruncDiv(rate, beta)]

=============================================================================
