---------------------------- MODULE MCRateLimit ----------------------------
(* Two requests at a time, interchangeable, over three seconds. *)
EXTENDS RateLimit, TLC

CONSTANTS r1, r2

MCSymmetry == Permutations(Thread)
=============================================================================
