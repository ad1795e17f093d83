---------------------------- MODULE MCEstimator -----------------------------
(* A small window, with observations that agree with each other, that drift *)
(* apart either way, that run backwards, and that fall before server time 0. *)
EXTENDS Estimator

MCSample == [server_ns : {0, 10, 41}, local_us : {0, 9}] \cup [server_ns : {10}, local_us : {3}]
MCReadings == 0..12
MCTimes == {0, 1, 2, 3, 4, 5, 9, 10, 17, 30, 45}
=============================================================================
