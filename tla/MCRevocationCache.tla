------------------------ MODULE MCRevocationCache --------------------------
(* Two threads on one replica and one on another, all about one subject:       *)
(* subjects do not affect one another, every operation acts on its own.        *)
EXTENDS RevocationCache, TLC

CONSTANTS r1, r2, a, b, c, s1

MCHome == [th \in Threads |-> IF th = c THEN r2 ELSE r1]

(* The threads of r1 are interchangeable. *)
MCSymmetry == Permutations({a, b})
=============================================================================
