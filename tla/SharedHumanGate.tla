-------------------------- MODULE SharedHumanGate --------------------------
(* The human-gate ledger that keeps its rows in a database: every require and  *)
(* decide reads the row and then writes it by its id.  One process shares a    *)
(* SqliteHumanGateLedger whose lock is held over both (Locked); on Postgres    *)
(* each call has a connection of its own, and the read of a READ COMMITTED     *)
(* transaction holds nothing back, so calls interleave between the two.        *)
EXTENDS HumanGate

CONSTANTS
  Callers,
  NoGate,   \* what a caller outside a call works on
  Locked    \* a lock is held from the read to the write

ASSUME NoGateAssumption == NoGate \notin Gates
ASSUME LockedAssumption == Locked \in BOOLEAN

VARIABLES
  pc,      \* pc[c]: "idle" | "opening" | "deciding": c has read and will write
  target,  \* target[c]: the gate its call is about
  choice   \* choice[c]: the row c's decide will write

callVars == <<pc, target, choice>>
allVars == <<vars, callVars>>

SharedTypeOK ==
  /\ TypeOK
  /\ pc \in [Callers -> {"idle", "opening", "deciding"}]
  /\ target \in [Callers -> Gates \cup {NoGate}]
  /\ choice \in [Callers -> {Absent} \cup {Decided(a, p) : a \in BOOLEAN, p \in Humans}]

SharedInit ==
  /\ Init
  /\ pc = [c \in Callers |-> "idle"]
  /\ target = [c \in Callers |-> NoGate]
  /\ choice = [c \in Callers |-> Absent]

(* Mutant: no lock. *)
MutantLockFreeAlways == TRUE

LockFree == Locked => \A c \in Callers : pc[c] = "idle"

Enter(c, g, l, row) ==
  /\ pc[c] = "idle"
  /\ LockFree
  /\ pc' = [pc EXCEPT ![c] = l]
  /\ target' = [target EXCEPT ![c] = g]
  /\ choice' = [choice EXCEPT ![c] = row]
  /\ UNCHANGED vars

Leave(c) ==
  /\ pc' = [pc EXCEPT ![c] = "idle"]
  /\ target' = [target EXCEPT ![c] = NoGate]
  /\ choice' = [choice EXCEPT ![c] = Absent]

(* require: SELECT; a pending gate is returned as it is. *)
RequireRead(c, g) ==
  /\ gates[g].status # "pending"
  /\ Enter(c, g, "opening", Absent)

(* ... INSERT ... ON CONFLICT DO UPDATE, whatever the row holds by now. *)
RequireWrite(c) ==
  /\ pc[c] = "opening"
  /\ Open(target[c])
  /\ Leave(c)

(* decide: SELECT and _decide on what was read. *)
DecideRead(c, g, p, approved) ==
  /\ MayDecide(gates[g], p)
  /\ Enter(c, g, "deciding", Decided(approved, p))

(* Mutant: the write names the caller's gate but not its decision. *)
MutantDecideWriteBlank(c) ==
  /\ pc[c] = "deciding"
  /\ gates' = [gates EXCEPT ![target[c]] = [@ EXCEPT !.status = choice[c].status]]
  /\ grants' = [grants EXCEPT ![target[c]] = @ + 1]
  /\ UNCHANGED openings
  /\ Leave(c)

(* ... UPDATE ... WHERE id: no condition on the status. *)
DecideWrite(c) ==
  /\ pc[c] = "deciding"
  /\ gates' = [gates EXCEPT ![target[c]] = choice[c]]
  /\ grants' = [grants EXCEPT ![target[c]] = @ + 1]
  /\ UNCHANGED openings
  /\ Leave(c)

(* The process or its connection dies between the two: the transaction is      *)
(* rolled back.                                                                *)
Die(c) ==
  /\ pc[c] # "idle"
  /\ Leave(c)
  /\ UNCHANGED vars

SharedNext ==
  \E c \in Callers :
    \/ \E g \in Gates :
         \/ RequireRead(c, g)
         \/ \E p \in Principals, approved \in BOOLEAN : DecideRead(c, g, p, approved)
    \/ RequireWrite(c)
    \/ DecideWrite(c)
    \/ Die(c)

SharedSpec == SharedInit /\ [][SharedNext]_allVars

-----------------------------------------------------------------------------
(* Under the lock, the two statements are one: the ledger implements the       *)
(* protocol.                                                                   *)
ImplementsHumanGate == Spec
=============================================================================
