------------------------- MODULE MCSharedHumanGate -------------------------
(* Three callers on two gates, two humans and one service among them.         *)
EXTENDS SharedHumanGate

CONSTANTS c1, c2, c3, g1, g2, alice, bob, agent
=============================================================================
