----------------------------- MODULE ServeQueue ----------------------------
(* A fleet of serve_queue loops (hallpass/runner.py) sharing one TaskQueue:   *)
(* each reads its lease cutoff, claims a row in a transaction, runs a handler   *)
(* and completes the task; it may be stopped between two passes, die inside     *)
(* one, or find the backend failing, while the clock moves on and others put    *)
(* work in.                                                                     *)
(*                                                                              *)
(* A claim locks the row it takes and then commits.  Postgres lets other        *)
(* claims run meanwhile and has them skip the locked row (FOR UPDATE SKIP       *)
(* LOCKED); under SQLite's write lock and the lock of the in-memory queue the   *)
(* two steps follow each other with nothing in between.                         *)
EXTENDS TaskQueue

CONSTANTS
  NoTask,        \* a worker that holds no task
  LeaseSeconds,  \* LeaseSeconds[w]: the lease_seconds w's loop was started with
  Handles,       \* Handles[w]: the tasks whose operation w has a handler for
  Reliable,      \* workers that are neither stopped nor killed (fairness only)
  MaxTime,       \* bound: where the clock stops
  Horizon        \* bound: the last instant an unreliable worker may take a task

ASSUME NoTaskAssumption == NoTask \notin Tasks
ASSUME LeaseAssumption == LeaseSeconds \in [Workers -> Nat]
ASSUME HandlesAssumption == Handles \in [Workers -> SUBSET Tasks]
ASSUME ReliableAssumption == Reliable \subseteq Workers
ASSUME TimeAssumption == MaxTime \in Nat /\ Horizon \in Nat

VARIABLES
  pc,      \* pc[w]: where w's loop is
  held,    \* held[w]: the row its claim has locked, or the LeasedTask it works on
  asOf,    \* asOf[w]: the instant its cutoff was computed from
  since,   \* since[w]: when the lease it works under began (history)
  handed,  \* handed[t]: the workers t was ever given to (history)
  ahead    \* ahead[t]: the tasks taken while no claim could see t's row (history)

loopVars == <<pc, held, asOf, since, handed, ahead>>
vars == <<now, queueVars, loopVars>>

(* "succeeded" and "failed" are the two complete() calls of a pass: in the    *)
(* try block with ok=True; in its except clause, or for a task without a      *)
(* handler, with ok=False.                                                    *)
Working == {"running", "succeeded", "failed"}
PCs == {"idle", "claiming", "locked", "down"} \cup Working

TypeOK ==
  /\ QueueTypeOK
  /\ pc \in [Workers -> PCs]
  /\ held \in [Workers -> Tasks \cup {NoTask}]
  /\ asOf \in [Workers -> Nat]
  /\ since \in [Workers -> Nat]
  /\ handed \in [Tasks -> SUBSET Workers]
  /\ ahead \in [Tasks -> SUBSET Tasks]

Init ==
  /\ QueueInit
  /\ pc = [w \in Workers |-> "idle"]
  /\ held = [w \in Workers |-> NoTask]
  /\ asOf = [w \in Workers |-> 0]
  /\ since = [w \in Workers |-> 0]
  /\ handed = [t \in Tasks |-> {}]
  /\ ahead = [t \in Tasks |-> {}]

Goto(w, l) == pc' = [pc EXCEPT ![w] = l]
LetGo(w, l) == Goto(w, l) /\ held' = [held EXCEPT ![w] = NoTask]

(* The rows that claims under way have locked. *)
Locked == {held[w] : w \in {v \in Workers : pc[v] = "locked"}}

Taken == Locked \cup {u \in Tasks : handed[u] # {}}

BeginEnqueue(t) == Stamp(t) /\ UNCHANGED <<now, loopVars>>

(* Whatever is taken by now was taken without a look at t. *)
EndEnqueue(t) ==
  /\ Insert(t)
  /\ ahead' = [ahead EXCEPT ![t] = Taken]
  /\ UNCHANGED <<now, pc, held, asOf, since, handed>>

(* The INSERT raises: there is no such task (the next one has a fresh id). *)
EnqueueRaises(t) ==
  /\ t \in posting
  /\ posting' = posting \ {t}
  /\ createdAt' = [createdAt EXCEPT ![t] = 0]
  /\ UNCHANGED <<now, status, leasedBy, leasedAt, result, loopVars>>

Tick ==
  /\ now < MaxTime
  /\ now' = now + 1
  /\ UNCHANGED <<queueVars, loopVars>>

(* Mutant: keeps the cutoff where the instant is expected. *)
MutantReadCutoffKept(w) ==
  /\ pc[w] = "idle"
  /\ Goto(w, "claiming")
  /\ asOf' = [asOf EXCEPT ![w] = now - LeaseSeconds[w]]
  /\ UNCHANGED <<now, queueVars, held, since, handed, ahead>>

(* claim reads the clock before it waits for the lock ... *)
ReadCutoff(w) ==
  /\ pc[w] = "idle"
  /\ Goto(w, "claiming")
  /\ asOf' = [asOf EXCEPT ![w] = now]
  /\ UNCHANGED <<now, queueVars, held, since, handed, ahead>>

Cutoff(w) == asOf[w] - LeaseSeconds[w]

(* The rows a claim sees: those another claim has locked are skipped. *)
Free(w) == Claimable(Cutoff(w)) \ Locked

(* ... and locks the oldest row it sees ... *)
LockRow(w, t) ==
  /\ pc[w] = "claiming"
  /\ w \in Reliable \/ now <= Horizon
  /\ t \in Oldest(Free(w))
  /\ Goto(w, "locked")
  /\ held' = [held EXCEPT ![w] = t]
  /\ ahead' = [u \in Tasks |-> IF u \in Locked THEN ahead[u] \cup {t} ELSE ahead[u]]
  /\ UNCHANGED <<now, queueVars, asOf, since, handed>>

(* ... and commits the lease. *)
ClaimTask(w) ==
  LET t == held[w] IN
  /\ pc[w] = "locked"
  /\ w \in Reliable \/ now <= Horizon
  /\ \E stamp \in asOf[w] .. now :
       /\ Lease(t, w, stamp)
       /\ since' = [since EXCEPT ![w] = stamp]
  /\ Goto(w, IF t \in Handles[w] THEN "running" ELSE "failed")
  /\ handed' = [handed EXCEPT ![t] = @ \cup {w}]
  /\ UNCHANGED <<now, held, asOf, ahead>>

(* The transaction is rolled back, and the exception ends the loop.  A row      *)
(* that was never handed out is ahead of nothing again.                         *)
ClaimRaises(w) ==
  /\ pc[w] = "locked"
  /\ w \notin Reliable
  /\ LetGo(w, "down")
  /\ ahead' = IF handed[held[w]] = {}
                 THEN [t \in Tasks |-> ahead[t] \ {held[w]}] ELSE ahead
  /\ UNCHANGED <<now, queueVars, asOf, since, handed>>

(* Nothing to claim: the loop sleeps and polls again (or ends: Stop). *)
ClaimNothing(w) ==
  /\ pc[w] = "claiming"
  /\ Free(w) = {}
  /\ Goto(w, "idle")
  /\ UNCHANGED <<now, queueVars, held, asOf, since, handed, ahead>>

Handle(w) ==
  /\ pc[w] = "running"
  /\ \/ Goto(w, "succeeded")
     \/ Goto(w, "failed")      \* the handler raises
  /\ UNCHANGED <<now, queueVars, held, asOf, since, handed, ahead>>

(* complete waits for a claim that has locked the row. *)
Report(w) ==
  /\ pc[w] \in {"succeeded", "failed"}
  /\ held[w] \notin Locked
  /\ Complete(held[w], w, pc[w] = "succeeded")
  /\ LetGo(w, "idle")
  /\ UNCHANGED <<now, asOf, since, handed, ahead>>

(* complete itself raises: its transaction rolled back, or the connection was *)
(* lost after the commit.  Inside the try block the except clause reports the *)
(* task again, as failed.                                                     *)
ReportRaises(w) ==
  /\ pc[w] = "succeeded"
  /\ \/ UNCHANGED queueVars
     \/ held[w] \notin Locked /\ Complete(held[w], w, TRUE)
  /\ Goto(w, "failed")
  /\ UNCHANGED <<now, held, asOf, since, handed, ahead>>

(* Raised from the except clause, or on the "no handler" path, it leaves the loop. *)
LoopDies(w) ==
  /\ pc[w] = "failed"
  /\ w \notin Reliable
  /\ \/ UNCHANGED queueVars
     \/ held[w] \notin Locked /\ Complete(held[w], w, FALSE)
  /\ LetGo(w, "down")
  /\ UNCHANGED <<now, asOf, since, handed, ahead>>

(* The stop predicate, or the last idle round, between two passes. *)
Stop(w) ==
  /\ pc[w] = "idle"
  /\ w \notin Reliable
  /\ Goto(w, "down")
  /\ UNCHANGED <<now, queueVars, held, asOf, since, handed, ahead>>

(* The process is killed inside a pass: the lease stays, the task does not move. *)
Crash(w) ==
  /\ pc[w] \in {"claiming"} \cup Working
  /\ w \notin Reliable
  /\ LetGo(w, "down")
  /\ UNCHANGED <<now, queueVars, asOf, since, handed, ahead>>

Restart(w) ==
  /\ pc[w] = "down"
  /\ Goto(w, "idle")
  /\ UNCHANGED <<now, queueVars, held, asOf, since, handed, ahead>>

Loop(w) ==
  \/ ReadCutoff(w)
  \/ \E t \in Tasks : LockRow(w, t)
  \/ ClaimTask(w)
  \/ ClaimNothing(w)
  \/ Handle(w)
  \/ Report(w)

Next ==
  \/ Tick
  \/ \E t \in Tasks : BeginEnqueue(t) \/ EndEnqueue(t) \/ EnqueueRaises(t)
  \/ \E w \in Workers :
       \/ Loop(w)
       \/ ClaimRaises(w)
       \/ ReportRaises(w)
       \/ LoopDies(w)
       \/ Stop(w)
       \/ Crash(w)
       \/ Restart(w)

Spec == Init /\ [][Next]_vars

(* Time passes, and a reliable worker keeps looping, its handlers returning.   *)
(* Of the others only their transactions are assumed to end, one way or the    *)
(* other.                                                                      *)
FairSpec ==
  /\ Spec
  /\ WF_vars(Tick)
  /\ \A w \in Reliable : WF_vars(Loop(w))
  /\ \A w \in Workers : WF_vars(ClaimTask(w) \/ ClaimRaises(w))

-----------------------------------------------------------------------------
(* taskqueue.py: "two workers never grab the same one".  While a worker is    *)
(* within the lease it was given, nobody else has been given its task: the    *)
(* row still carries its lease until somebody settles it.                     *)
LeaseExclusive ==
  \A w \in Workers :
    LET t == held[w]
    IN  /\ pc[w] \in Working
        /\ now - since[w] <= LeaseSeconds[w]
        /\ status[t] = "leased"
        => leasedBy[t] = w /\ leasedAt[t] = since[w]

(* TaskQueue.claim: "the oldest pending one".  Work is first handed out in     *)
(* the order of its stamps, whatever expires, crashes or restarts meanwhile.    *)
(* Nothing overtakes a task but what was taken before its row was there, or     *)
(* while another claim kept it locked.                                          *)
HandedInOrder ==
  \A t, u \in Tasks :
    /\ status[t] # "absent"
    /\ createdAt[t] < createdAt[u]
    /\ handed[u] # {}
    => handed[t] # {} \/ u \in ahead[t]

(* "work survives a crash": a task leaves the queue only settled, and what is *)
(* outstanding is settled in the end, though every other worker may die with  *)
(* it, as long as one worker keeps polling.                                   *)
EventuallyDrained == \A t \in Tasks : t \in Outstanding ~> t \notin Outstanding

(* The queue implements the abstract backlog: at-least-once hand-out and       *)
(* exactly-once settlement, by a worker the task was handed to.                *)
B == INSTANCE Backlog WITH
       NoOutcome <- NoResult,
       posted <- {t \in Tasks : status[t] # "absent"},
       outcome <- result

ImplementsBacklog == B!Spec
=============================================================================
