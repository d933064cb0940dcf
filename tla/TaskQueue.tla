----------------------------- MODULE TaskQueue -----------------------------
(* The storage of the lease-based task queue (hallpass/taskqueue.py): the     *)
(* rows of the tasks table and the steps of the operations on them.  Every    *)
(* backend reads the clock before it holds what the processes share (SQLite's *)
(* write lock, a Postgres row), so a stamp and the row that carries it are    *)
(* separate steps.  ServeQueue adds the worker loops.                         *)
EXTENDS Integers

CONSTANTS
  Tasks,      \* the task ids that may be enqueued
  Workers,    \* the names workers claim and complete under
  NoWorker,   \* leased_by of a row that was never leased
  NoResult    \* the result of a task that is not done

ASSUME NoWorkerAssumption == NoWorker \notin Workers
ASSUME NoResultAssumption == NoResult \notin [worker : Workers, ok : BOOLEAN]

VARIABLES
  now,        \* the clock the backend reads (time.time)
  status,     \* "absent" | "pending" | "leased" | "done"
  posting,    \* the tasks whose enqueue has its stamp and no row yet
  createdAt,  \* the stamp of the enqueue: the order claims go by
  leasedBy,   \* the last worker that was given the task
  leasedAt,   \* when that lease began
  result      \* [worker, ok] once done

queueVars == <<status, posting, createdAt, leasedBy, leasedAt, result>>

Results == [worker : Workers, ok : BOOLEAN]

QueueTypeOK ==
  /\ now \in Nat
  /\ status \in [Tasks -> {"absent", "pending", "leased", "done"}]
  /\ posting \subseteq Tasks
  /\ createdAt \in [Tasks -> Nat]
  /\ leasedBy \in [Tasks -> Workers \cup {NoWorker}]
  /\ leasedAt \in [Tasks -> Nat]
  /\ result \in [Tasks -> Results \cup {NoResult}]

QueueInit ==
  /\ now = 0
  /\ status = [t \in Tasks |-> "absent"]
  /\ posting = {}
  /\ createdAt = [t \in Tasks |-> 0]
  /\ leasedBy = [t \in Tasks |-> NoWorker]
  /\ leasedAt = [t \in Tasks |-> 0]
  /\ result = [t \in Tasks |-> NoResult]

(* enqueue: the id is fresh and the clock is read ... *)
Stamp(t) ==
  /\ status[t] = "absent"
  /\ t \notin posting
  /\ posting' = posting \cup {t}
  /\ createdAt' = [createdAt EXCEPT ![t] = now]
  /\ UNCHANGED <<status, leasedBy, leasedAt, result>>

(* ... before the row is there for others to see: rows may appear in another  *)
(* order than the one they are stamped in.                                    *)
Insert(t) ==
  /\ t \in posting
  /\ posting' = posting \ {t}
  /\ status' = [status EXCEPT ![t] = "pending"]
  /\ UNCHANGED <<createdAt, leasedBy, leasedAt, result>>

(* Mutants: an off-by-one in the expiry test; expired leases never offered     *)
(* again.                                                                      *)
MutantClaimableAtCutoff(cutoff) ==
  {t \in Tasks : status[t] = "pending" \/ (status[t] = "leased" /\ leasedAt[t] <= cutoff)}
MutantClaimablePending(cutoff) == {t \in Tasks : status[t] = "pending"}

(* The rows a claim may take: never leased, or leased before the cutoff.  The *)
(* cutoff is now - lease_seconds of the worker that claims, read before the   *)
(* lock is taken.                                                             *)
Claimable(cutoff) ==
  {t \in Tasks : \/ status[t] = "pending"
                 \/ status[t] = "leased" /\ leasedAt[t] < cutoff}

(* Mutant: no ORDER BY. *)
MutantOldestAny(S) == S

(* ORDER BY created_at LIMIT 1; rows of one instant are in no promised order. *)
Oldest(S) == {t \in S : \A u \in S : createdAt[t] <= createdAt[u]}

(* claim, once it has a row: mark it leased.  The in-memory and SQLite        *)
(* backends read the clock once more under the lock, the Postgres one before   *)
(* it sends the statement, so the stamp is an argument.                        *)
Lease(t, w, stamp) ==
  /\ status' = [status EXCEPT ![t] = "leased"]
  /\ leasedBy' = [leasedBy EXCEPT ![t] = w]
  /\ leasedAt' = [leasedAt EXCEPT ![t] = stamp]
  /\ UNCHANGED <<posting, createdAt, result>>

(* Mutant: complete does not look at the status of the row. *)
MutantCompleteAgain(t, w, ok) ==
  /\ status' = [status EXCEPT ![t] = "done"]
  /\ result' = [result EXCEPT ![t] = [worker |-> w, ok |-> ok]]
  /\ UNCHANGED <<posting, createdAt, leasedBy, leasedAt>>

(* complete: keyed by the task's id alone.  Whoever calls it first settles the *)
(* task, holder of the current lease or not; afterwards it changes nothing.    *)
Complete(t, w, ok) ==
  \/ /\ status[t] \notin {"absent", "done"}
     /\ status' = [status EXCEPT ![t] = "done"]
     /\ result' = [result EXCEPT ![t] = [worker |-> w, ok |-> ok]]
     /\ UNCHANGED <<posting, createdAt, leasedBy, leasedAt>>
  \/ /\ status[t] \in {"absent", "done"}
     /\ UNCHANGED queueVars

(* outstanding: what a resuming orchestrator still waits for. *)
Outstanding == {t \in Tasks : status[t] \notin {"absent", "done"}}
=============================================================================
