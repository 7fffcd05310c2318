-------------------------------- MODULE MCRtt -------------------------------
(***************************************************************************)
(* RttEstimator for TLC, in 9-bit ints: durations that are lost in         *)
(* truncation, some that are not, one that is a fifth of INT_MAX, one that *)
(* is too long for an int, and clocks set back by little and by much.      *)
(***************************************************************************)
EXTENDS RttEstimator

MCDurations == {-300, -20, -1, 0, 1, 7, 28, 51, 255, 400}
=============================================================================
