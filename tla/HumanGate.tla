----------------------------- MODULE HumanGate -----------------------------
(* The human-gate ledger as its protocol states it (hallpass/humangate.py):    *)
(* require opens a gate, decide records the decision of a human, once.  This    *)
(* is what InMemoryHumanGateLedger does under its lock; SharedHumanGate is the  *)
(* ledger that keeps its rows in a database.                                   *)
EXTENDS Naturals

CONSTANTS
  Gates,      \* gate ids
  Humans,     \* the subjects of non-service principals
  Services,   \* the subjects of service principals
  Nobody,     \* decided_by of a gate that is not decided
  MaxOpenings \* bound: how often one gate is opened

ASSUME NobodyAssumption == Nobody \notin Humans \cup Services
ASSUME KindAssumption == Humans \cap Services = {}
ASSUME OpeningsAssumption == MaxOpenings \in Nat

VARIABLES
  gates,     \* gates[g]: [status, by]
  openings,  \* openings[g]: how often require opened g (bounded)
  grants     \* grants[g]: decide calls that returned since then (history)

vars == <<gates, openings, grants>>

Principals == Humans \cup Services

Gate(status, by) == [status |-> status, by |-> by]
Pending == Gate("pending", Nobody)
Absent == Gate("absent", Nobody)
Decided(approved, p) == Gate(IF approved THEN "approved" ELSE "denied", p)

TypeOK ==
  /\ gates \in [Gates -> [status : {"absent", "pending", "approved", "denied"},
                          by : Principals \cup {Nobody}]]
  /\ openings \in [Gates -> 0 .. MaxOpenings]
  /\ grants \in [Gates -> Nat]

Init ==
  /\ gates = [g \in Gates |-> Absent]
  /\ openings = [g \in Gates |-> 0]
  /\ grants = [g \in Gates |-> 0]

(* require on a gate that is not pending (re)opens it; on one that is, it      *)
(* changes nothing.                                                            *)
Open(g) ==
  /\ openings[g] < MaxOpenings
  /\ gates' = [gates EXCEPT ![g] = Pending]
  /\ openings' = [openings EXCEPT ![g] = @ + 1]
  /\ grants' = [grants EXCEPT ![g] = 0]

(* Mutant: the kind of the principal is not looked at. *)
MutantMayDecideAnyone(gate, p) == gate.status = "pending"

(* _decide: a service principal is refused, and so is a second decision. *)
MayDecide(gate, p) == gate.status = "pending" /\ p \in Humans

Grant(g, p, approved) ==
  /\ gates' = [gates EXCEPT ![g] = Decided(approved, p)]
  /\ grants' = [grants EXCEPT ![g] = @ + 1]
  /\ UNCHANGED openings

Require(g) == gates[g].status # "pending" /\ Open(g)

Decide(g, p, approved) == MayDecide(gates[g], p) /\ Grant(g, p, approved)

Next ==
  \E g \in Gates :
    \/ Require(g)
    \/ \E p \in Principals, approved \in BOOLEAN : Decide(g, p, approved)

Spec == Init /\ [][Next]_vars

-----------------------------------------------------------------------------
(* A decided gate carries the human who decided it, and nobody else's. *)
OnlyHumansDecide ==
  \A g \in Gates : gates[g].status \in {"approved", "denied"} => gates[g].by \in Humans

(* HumanGateError: "Only a human may clear a human gate, and only once": of    *)
(* the decide calls on one opening of a gate at most one returns a decision.   *)
DecidedOnce == \A g \in Gates : grants[g] <= 1
=============================================================================
