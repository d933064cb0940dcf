---------------------------- MODULE MCRateLimit ----------------------------
(* Interchangeable threads or replicas, a window of a second and a half, and   *)
(* checks that may be later than the half second that a key outlives it by.    *)
EXTENDS RateLimit, TLC

CONSTANTS a, b

MCSymmetry == Permutations(Threads)
=============================================================================
