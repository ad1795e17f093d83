---------------------------- MODULE SampleWindow ----------------------------
(***************************************************************************)
(* What the ring of the estimator promises: a window that holds the most   *)
(* recent WINDOW observations, in the order in which they were made.       *)
(***************************************************************************)
EXTENDS Integers, Sequences

CONSTANTS WINDOW, Sample

VARIABLE window

Init == window = << >>

Observe(s) ==
  window' = IF Len(window) < WINDOW
            THEN Append(window, s)
            ELSE Append(Tail(window), s)

Next == \E s \in Sample : Observe(s)

Spec == Init /\ [][Next]_window

=============================================================================
