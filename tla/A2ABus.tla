------------------------------- MODULE A2ABus ------------------------------
(* One channel of the message bus (hallpass/a2a.py) and the steps its callers  *)
(* make: a policy looked up twice per call, a log that is appended to under a  *)
(* lock, read in pages, and acknowledged by a cursor per subject.              *)
EXTENDS Integers, Sequences, FiniteSets, FiniteSetsExt

CONSTANTS
  Callers,     \* processes that use the bus
  SubjectOf,   \* SubjectOf[p]: the subject p's principal carries
  ScopesOf,    \* ScopesOf[p]: its scopes
  Policies,    \* policies an administrator may declare
  FirstPolicy, \* policies the channel may start with
  Undeclared,  \* the channel is in no policy store
  Nobody,      \* no process holds the append lock
  Tasks,       \* task ids; what a message is about
  PageSize     \* catch_up's page_size

ASSUME UndeclaredAssumption == Undeclared \notin Policies
ASSUME NobodyAssumption == Nobody \notin Callers
ASSUME FirstPolicyAssumption == FirstPolicy \subseteq Policies \cup {Undeclared}
ASSUME PageSizeAssumption == PageSize \in Nat \ {0}

Subjects == {SubjectOf[p] : p \in Callers}

(* An A2AMessage: the FLEX kind, the task id it refers to and the sender the   *)
(* bus takes from the principal.  What a result says is left out.              *)
Messages == [kind : {"task", "result"}, task : Tasks, sender : Subjects]

VARIABLES
  policy,    \* the channel's ChannelPolicy, shared by all replicas
  messages,  \* the rows of the log, by seq
  lock,      \* who is inside an append transaction
  cursor,    \* cursor[s]: the acked seq of subject s
  need,      \* need[p]: the scopes p's call has read from the policy
  slot,      \* slot[p]: the seq p's append transaction has computed
  lawful     \* lawful[p]: a policy that admits p was in force during its post
             \* (history)

busVars == <<policy, messages, lock, cursor, need, slot, lawful>>

BusTypeOK ==
  /\ policy \in Policies \cup {Undeclared}
  /\ messages \in Seq(Messages)
  /\ lock \in Callers \cup {Nobody}
  /\ \A s \in Subjects : cursor[s] \in 0 .. Len(messages)
  /\ \A p \in Callers : need[p] \subseteq UNION {q.post \cup q.read : q \in Policies}
  /\ \A p \in Callers : slot[p] \in 0 .. Len(messages) + 1
  /\ lawful \in [Callers -> BOOLEAN]

BusInit ==
  /\ policy \in FirstPolicy
  /\ messages = <<>>
  /\ lock = Nobody
  /\ cursor = [s \in Subjects |-> 0]
  /\ need = [p \in Callers |-> {}]
  /\ slot = [p \in Callers |-> 0]
  /\ lawful = [p \in Callers |-> FALSE]

-----------------------------------------------------------------------------
(* Authorization.                                                              *)

Admits(q, p, use) == q # Undeclared /\ q[use] \subseteq ScopesOf[p]

(* A declaration replaces the policy; posts in flight go on with what they     *)
(* have read.                                                                  *)
Declare(q, posting) ==
  /\ q # policy
  /\ policy' = q
  /\ lawful' = [p \in Callers |-> lawful[p] \/ (p \in posting /\ Admits(q, p, "post"))]
  /\ UNCHANGED <<messages, lock, cursor, need, slot>>

(* The first lookup of a call: the scopes it needs, none if undeclared. *)
Needs(p, use) ==
  /\ need' = [need EXCEPT ![p] = IF policy = Undeclared THEN {} ELSE policy[use]]
  /\ lawful' = [lawful EXCEPT ![p] = use = "post" /\ Admits(policy, p, use)]

(* Mutant: only the existence of the channel is checked. *)
MutantAuthorizedDeclared(p) == policy # Undeclared

(* The second lookup only asks whether the channel exists. *)
Authorized(p) == policy # Undeclared /\ need[p] \subseteq ScopesOf[p]

-----------------------------------------------------------------------------
(* The store.                                                                  *)

(* Mutant: no lock. *)
MutantLockFreeAlways == TRUE

LockFree == lock = Nobody

(* An append transaction computes MAX(seq) + 1 under the lock ... *)
BeginAppend(p) ==
  /\ LockFree
  /\ lock' = p
  /\ slot' = [slot EXCEPT ![p] = Len(messages) + 1]

(* ... and inserts the row when it commits.                                    *)
CommitAppend(p, m) ==
  /\ messages' = [i \in DOMAIN messages \cup {slot[p]} |-> IF i = slot[p] THEN m ELSE messages[i]]
  /\ lock' = Nobody
  /\ slot' = [slot EXCEPT ![p] = 0]

(* A transaction that does not get there is rolled back. *)
Rollback(p) ==
  /\ lock' = IF lock = p THEN Nobody ELSE lock
  /\ slot' = [slot EXCEPT ![p] = 0]

HeadSeq == Len(messages)

(* Mutant: the position moves on by the page size, not to the last row. *)
MutantPageEndBlind(after) == after + PageSize

(* read_after: where a page that starts after a seq ends. *)
PageEnd(after) == Min({after + PageSize, HeadSeq})

AdvanceCursor(s, upTo) == cursor' = [cursor EXCEPT ![s] = Max({@, upTo})]
=============================================================================
