----------------------------- MODULE MCTrackers -----------------------------
(* A time out of order, a repeated one, and gaps of one interval and of three. *)
EXTENDS Trackers

MCGaps == {-1, 0, 1, 3}
MCObserved == {0, 2}
=============================================================================
