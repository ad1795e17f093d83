----------------------------- MODULE RustArith ------------------------------
(* Integer arithmetic as the code has it. *)
EXTENDS Integers

Magnitude(x) == IF x < 0 THEN -x ELSE x

\* Rust's "/" on signed integers: the quotient rounded towards zero.
TruncDiv(a, b) ==
  LET q == Magnitude(a) \div Magnitude(b)
  IN  IF (a < 0) = (b < 0) THEN q ELSE -q

Clamp(x, lo, hi) == IF x < lo THEN lo ELSE IF x > hi THEN hi ELSE x

Least(a, b) == IF a <= b THEN a ELSE b

=============================================================================
