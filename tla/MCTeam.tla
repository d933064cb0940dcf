------------------------------- MODULE MCTeam -------------------------------
(* One agent name, its tokens under a first and a later key and with different *)
(* scopes; either a team spawns, or two server threads verify.                 *)
EXTENDS Team

CONSTANTS provisioner, c, d, t1, t2, k1, k2, s

MCSubject == [t \in Tokens |-> "agent"]
MCKid == (t1 :> k1) @@ (t2 :> k2)
MCGranted == (t1 :> {s}) @@ (t2 :> {})
MCIsService == [t \in Tokens |-> TRUE]
MCDeployments == {{provisioner}, {c, d}}
MCNames == {"agent"}

MCSymmetry == Permutations({c, d})
=============================================================================
