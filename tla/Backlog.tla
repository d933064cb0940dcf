------------------------------ MODULE Backlog ------------------------------
(* What the shared task queue promises to those who put work into it: a task *)
(* that was put in is handed out one or more times (at least once), and is   *)
(* settled exactly once, by a worker it was handed to; the outcome that      *)
(* settled it stands.  Leases, clocks, polling and crashes are not here: they *)
(* are how ServeQueue keeps this promise.                                     *)
CONSTANTS Tasks, Workers, NoOutcome

VARIABLES
  posted,   \* the tasks that were put in
  handed,   \* handed[t]: the workers that were given t
  outcome   \* outcome[t]: who settled t and how, or NoOutcome

vars == <<posted, handed, outcome>>

Init ==
  /\ posted = {}
  /\ handed = [t \in Tasks |-> {}]
  /\ outcome = [t \in Tasks |-> NoOutcome]

Post(t) ==
  /\ t \notin posted
  /\ posted' = posted \cup {t}
  /\ UNCHANGED <<handed, outcome>>

Hand(t, w) ==
  /\ t \in posted
  /\ outcome[t] = NoOutcome
  /\ handed' = [handed EXCEPT ![t] = @ \cup {w}]
  /\ UNCHANGED <<posted, outcome>>

Settle(t, w, ok) ==
  /\ w \in handed[t]
  /\ outcome[t] = NoOutcome
  /\ outcome' = [outcome EXCEPT ![t] = [worker |-> w, ok |-> ok]]
  /\ UNCHANGED <<posted, handed>>

Next ==
  \E t \in Tasks :
    \/ Post(t)
    \/ \E w \in Workers : Hand(t, w)
    \/ \E w \in Workers, ok \in BOOLEAN : Settle(t, w, ok)

Spec == Init /\ [][Next]_vars

=============================================================================
