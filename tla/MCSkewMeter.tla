---------------------------- MODULE MCSkewMeter -----------------------------
(* D14 of board 0 is wired to D5 of board 1, and D32 of board 0 to its own D34. *)
EXTENDS SkewMeter

MCKinds == {<<0, "tx">>, <<1, "tx">>, <<1, "D5">>, <<0, "D34">>}
MCTxErrors == {0}
MCRxErrors == {-2, 0, 3}
=============================================================================
