-------------------------- MODULE ServeQueueProofs -------------------------
(* Proofs about ServeQueue, for every set of tasks and workers, every lease    *)
(* length and every clock bound: type correctness, exclusivity of a live lease *)
(* when all workers pass one lease_seconds, hand-out in order of the stamps,   *)
(* and the implementation of Backlog.                                          *)
EXTENDS ServeQueue, TLAPS

-----------------------------------------------------------------------------
(* A worker in the middle of a pass holds a task that was leased to it and    *)
(* has not gone back to pending.                                              *)
HoldersLeased ==
  \A w \in Workers :
    pc[w] \in Working =>
      /\ held[w] \in Tasks
      /\ status[held[w]] \in {"leased", "done"}
      /\ w \in handed[held[w]]

(* No recorded instant lies in the future. *)
ClockOK ==
  /\ \A w \in Workers : asOf[w] <= now /\ since[w] <= now
  /\ \A t \in Tasks : createdAt[t] <= now

(* The status column agrees with what happened to the task. *)
StatusOK ==
  \A t \in Tasks :
    /\ handed[t] = {} <=> status[t] \in {"absent", "pending"}
    /\ result[t] = NoResult <=> status[t] # "done"

(* A claim holds the lock of a row it may take, and no other claim holds it.  *)
LocksOK ==
  \A w \in Workers :
    pc[w] = "locked" =>
      /\ held[w] \in Tasks
      /\ \/ status[held[w]] = "pending"
         \/ status[held[w]] = "leased" /\ leasedAt[held[w]] < Cutoff(w)
      /\ \A v \in Workers : v # w /\ pc[v] = "locked" => held[v] # held[w]

(* A task whose enqueue is under way has no row. *)
PostingOK == \A t \in posting : status[t] = "absent"

(* HandedInOrder, also for the rows that claims have locked so far. *)
TakenInOrder ==
  \A t, u \in Tasks :
    /\ status[t] # "absent"
    /\ createdAt[t] < createdAt[u]
    /\ u \in Taken
    => handed[t] # {} \/ u \in ahead[t]

Inv ==
  TypeOK /\ HoldersLeased /\ ClockOK /\ StatusOK /\ LocksOK /\ PostingOK /\ TakenInOrder

(* Every worker of the fleet passes the same lease_seconds. *)
SameLease == \A v, w \in Workers : LeaseSeconds[v] = LeaseSeconds[w]

USE DEF queueVars, loopVars, vars, Results, QueueTypeOK, TypeOK, PCs, Working

-----------------------------------------------------------------------------
(* A result, whoever writes it, is not the absence of one. *)
LEMMA ResultIsSomething ==
  ASSUME NEW w \in Workers, NEW ok \in BOOLEAN
  PROVE  [worker |-> w, ok |-> ok] \in Results /\ [worker |-> w, ok |-> ok] # NoResult
  BY NoResultAssumption

LEMMA InitInv == Init => Inv
<1> SUFFICES ASSUME Init PROVE Inv
  OBVIOUS
<1>1. TypeOK
  BY NoTaskAssumption, NoResultAssumption DEF Init, QueueInit
<1>2. HoldersLeased /\ ClockOK /\ StatusOK /\ LocksOK /\ PostingOK
  BY DEF Init, QueueInit, HoldersLeased, ClockOK, StatusOK, LocksOK, PostingOK
<1>3. TakenInOrder
  BY DEF Init, QueueInit, TakenInOrder
<1> QED BY <1>1, <1>2, <1>3 DEF Inv

(* Nothing is taken but by a claim that has a lock or by one that committed.   *)
LEMMA TakenMeans ==
  ASSUME LocksOK, NEW u \in Tasks
  PROVE  /\ u \in Locked <=> \E w \in Workers : pc[w] = "locked" /\ held[w] = u
         /\ u \in Taken <=> u \in Locked \/ handed[u] # {}
  BY DEF Locked, Taken

-----------------------------------------------------------------------------
(* What the two writing operations of the queue do to the status and result    *)
(* columns: complete settles the task it names unless that is settled already, *)
(* and touches no other.                                                       *)
LEMMA CompleteEffect ==
  ASSUME TypeOK, StatusOK, NEW t \in Tasks, NEW w \in Workers, NEW ok \in BOOLEAN,
         status[t] # "absent", Complete(t, w, ok)
  PROVE  /\ status' = [status EXCEPT ![t] = "done"]
         /\ result' \in [Tasks -> Results \cup {NoResult}]
         /\ \A u \in Tasks : result'[u] = NoResult <=> status'[u] # "done"
         /\ \A u \in Tasks : result[u] # NoResult => result'[u] = result[u]
         /\ UNCHANGED <<posting, createdAt, leasedBy, leasedAt>>
<1>1. CASE status[t] \notin {"absent", "done"}
  BY <1>1, ResultIsSomething DEF Complete, StatusOK
<1>2. CASE status[t] = "done"
  BY <1>2 DEF Complete, StatusOK
<1> QED BY <1>1, <1>2

(* A step of one worker that neither takes nor frees a row, and leaves the     *)
(* queue alone, keeps what is known of locks and order.                        *)
LEMMA ElsewhereKeepsOrder ==
  ASSUME Inv, NEW w \in Workers, NEW l \in PCs \ {"locked"}, pc[w] # "locked",
         pc' = [pc EXCEPT ![w] = l],
         \A v \in Workers \ {w} : held'[v] = held[v] /\ asOf'[v] = asOf[v],
         UNCHANGED <<queueVars, handed, ahead>>
  PROVE  LocksOK' /\ PostingOK' /\ TakenInOrder'
<1>1. \A v \in Workers : /\ pc'[v] = "locked" <=> pc[v] = "locked"
                         /\ pc[v] = "locked" => held'[v] = held[v] /\ asOf'[v] = asOf[v]
  BY DEF Inv
<1>2. LocksOK'
  BY <1>1 DEF Inv, LocksOK, Cutoff
<1>3. Locked' = Locked /\ Taken' = Taken
  BY <1>1 DEF Locked, Taken
<1>4. PostingOK' /\ TakenInOrder'
  BY <1>3 DEF Inv, PostingOK, TakenInOrder
<1> QED BY <1>2, <1>4

(* Any step that only completes the task held by one worker, which then moves  *)
(* on to a place l, keeps the invariant: Report, ReportRaises and LoopDies.    *)
LEMMA CompleteKeepsInv ==
  ASSUME Inv, NEW w \in Workers, NEW ok \in BOOLEAN, NEW l \in PCs \ {"locked"},
         pc[w] \in Working, held[w] \notin Locked,
         Complete(held[w], w, ok),
         pc' = [pc EXCEPT ![w] = l],
         \/ held' = held
         \/ l \notin Working /\ held' = [held EXCEPT ![w] = NoTask],
         UNCHANGED <<now, asOf, since, handed, ahead>>
  PROVE  Inv'
<1> DEFINE t == held[w]
<1>1. t \in Tasks /\ status[t] \in {"leased", "done"} /\ w \in handed[t]
  BY DEF Inv, HoldersLeased
<1>2. /\ status' = [status EXCEPT ![t] = "done"]
      /\ result' \in [Tasks -> Results \cup {NoResult}]
      /\ \A u \in Tasks : result'[u] = NoResult <=> status'[u] # "done"
      /\ UNCHANGED <<posting, createdAt, leasedBy, leasedAt>>
  BY <1>1, CompleteEffect DEF Inv
<1>3. TypeOK'
  BY <1>1, <1>2 DEF Inv
<1>4. HoldersLeased'
  BY <1>1, <1>2 DEF Inv, HoldersLeased
<1>5. ClockOK' /\ PostingOK'
  BY <1>1, <1>2 DEF Inv, ClockOK, PostingOK
<1>6. StatusOK'
  BY <1>1, <1>2 DEF Inv, StatusOK
<1>7. \A v \in Workers : /\ pc'[v] = "locked" <=> pc[v] = "locked"
                         /\ pc[v] = "locked" => held'[v] = held[v] /\ held[v] # t
  BY DEF Inv, Locked
<1>8. LocksOK'
  BY <1>1, <1>2, <1>7 DEF Inv, LocksOK, Cutoff
<1>9. Locked' = Locked /\ Taken' = Taken
  BY <1>7 DEF Locked, Taken
<1>10. TakenInOrder'
  BY <1>1, <1>2, <1>9 DEF Inv, TakenInOrder
<1> QED BY <1>3, <1>4, <1>5, <1>6, <1>8, <1>10 DEF Inv

(* Locking a row: it is the oldest the claim sees, so an older row that was    *)
(* never handed out is locked by another claim, and notes that it is overtaken. *)
LEMMA LockKeepsInv ==
  ASSUME Inv, NEW w \in Workers, NEW t \in Tasks, LockRow(w, t)
  PROVE  Inv'
<1>1. /\ pc[w] = "claiming"
      /\ pc' = [pc EXCEPT ![w] = "locked"]
      /\ held' = [held EXCEPT ![w] = t]
      /\ ahead' = [u \in Tasks |-> IF u \in Locked THEN ahead[u] \cup {t} ELSE ahead[u]]
      /\ UNCHANGED <<now, queueVars, asOf, since, handed>>
  BY DEF LockRow, Goto
<1>2. /\ t \notin Locked
      /\ status[t] = "pending" \/ (status[t] = "leased" /\ leasedAt[t] < Cutoff(w))
      /\ \A u \in Tasks : status[u] = "pending" /\ u \notin Locked => createdAt[t] <= createdAt[u]
  BY DEF LockRow, Oldest, Free, Claimable
<1>3. TypeOK'
  BY <1>1 DEF Inv
<1>4. HoldersLeased' /\ ClockOK' /\ StatusOK' /\ PostingOK'
  BY <1>1 DEF Inv, HoldersLeased, ClockOK, StatusOK, PostingOK
<1>5. LocksOK'
  <2> SUFFICES ASSUME NEW v \in Workers, pc'[v] = "locked"
               PROVE  /\ held'[v] \in Tasks
                      /\ \/ status'[held'[v]] = "pending"
                         \/ status'[held'[v]] = "leased" /\ leasedAt'[held'[v]] < Cutoff(v)'
                      /\ \A x \in Workers : x # v /\ pc'[x] = "locked" => held'[x] # held'[v]
    BY DEF LocksOK
  <2>1. \A x \in Workers \ {w} :
          /\ pc'[x] = pc[x] /\ held'[x] = held[x]
          /\ pc[x] = "locked" => held[x] # t
    BY <1>1, <1>2 DEF Inv, Locked
  <2>2. CASE v = w
    BY <2>1, <2>2, <1>1, <1>2 DEF Inv, Cutoff
  <2>3. CASE v # w
    BY <2>1, <2>3, <1>1 DEF Inv, LocksOK, Cutoff
  <2> QED BY <2>2, <2>3
<1>6. Taken' = Taken \cup {t}
  <2>1. Locked' = Locked \cup {t}
    BY <1>1 DEF Inv, Locked
  <2> QED BY <2>1, <1>1 DEF Taken
<1>7. TakenInOrder'
  <2> SUFFICES ASSUME NEW a \in Tasks, NEW b \in Tasks,
                      status[a] # "absent", createdAt[a] < createdAt[b], b \in Taken',
                      handed[a] = {}
               PROVE  b \in ahead'[a]
    BY <1>1 DEF TakenInOrder
  <2>1. CASE b \in Taken
    BY <2>1, <1>1 DEF Inv, TakenInOrder
  <2>2. CASE b = t
    <3>1. status[a] = "pending"
      BY DEF Inv, StatusOK
    <3>2. a \in Locked
      BY <2>2, <3>1, <1>2 DEF Inv
    <3> QED BY <2>2, <3>2, <1>1
  <2> QED BY <2>1, <2>2, <1>6
<1> QED BY <1>3, <1>4, <1>5, <1>7 DEF Inv

(* Committing the lease: the row was taken when it was locked.                 *)
LEMMA ClaimKeepsInv ==
  ASSUME Inv, NEW w \in Workers, ClaimTask(w)
  PROVE  Inv'
<1> DEFINE t == held[w]
<1>1. PICK stamp \in asOf[w] .. now :
        Lease(t, w, stamp) /\ since' = [since EXCEPT ![w] = stamp]
  BY DEF ClaimTask
<1>2. stamp \in Nat /\ stamp <= now
  BY DEF Inv
<1>3. pc[w] = "locked" /\ t \in Tasks /\ status[t] \in {"pending", "leased"}
  BY DEF ClaimTask, Inv, LocksOK
<1>4. PICK l \in {"running", "failed"} :
        /\ pc' = [pc EXCEPT ![w] = l]
        /\ handed' = [handed EXCEPT ![t] = @ \cup {w}]
        /\ UNCHANGED <<now, held, asOf, ahead>>
  BY DEF ClaimTask, Goto
<1>5. TypeOK'
  BY <1>1, <1>2, <1>3, <1>4 DEF Inv, Lease
<1>6. HoldersLeased'
  BY <1>1, <1>3, <1>4 DEF Inv, HoldersLeased, Lease
<1>7. ClockOK' /\ PostingOK'
  BY <1>1, <1>2, <1>3, <1>4 DEF Inv, ClockOK, PostingOK, Lease
<1>8. StatusOK'
  BY <1>1, <1>3, <1>4 DEF Inv, StatusOK, Lease
<1>9. LocksOK'
  <2>1. \A v \in Workers : pc'[v] = "locked" => pc[v] = "locked" /\ v # w /\ held[v] # t
    BY <1>3, <1>4 DEF Inv, LocksOK
  <2> QED BY <2>1, <1>1, <1>3, <1>4 DEF Inv, LocksOK, Lease, Cutoff
<1>10. Taken' \subseteq Taken
  BY <1>3, <1>4 DEF Inv, Taken, Locked
<1>11. TakenInOrder'
  <2> SUFFICES ASSUME NEW a \in Tasks, NEW b \in Tasks,
                      status'[a] # "absent", createdAt[a] < createdAt[b], b \in Taken'
               PROVE  handed'[a] # {} \/ b \in ahead[a]
    BY <1>1, <1>4 DEF TakenInOrder, Lease
  <2>1. status[a] # "absent" /\ b \in Taken
    BY <1>1, <1>3, <1>10 DEF Inv, Lease
  <2>2. handed[a] # {} \/ b \in ahead[a]
    BY <2>1 DEF Inv, TakenInOrder
  <2> QED BY <2>2, <1>3, <1>4 DEF Inv
<1> QED BY <1>5, <1>6, <1>7, <1>8, <1>9, <1>11 DEF Inv

(* Rolling the claim back: a row that nobody was given is not taken any more.  *)
LEMMA ClaimRaisesKeepsInv ==
  ASSUME Inv, NEW w \in Workers, ClaimRaises(w)
  PROVE  Inv'
<1> DEFINE t == held[w]
<1>1. /\ pc[w] = "locked"
      /\ pc' = [pc EXCEPT ![w] = "down"]
      /\ held' = [held EXCEPT ![w] = NoTask]
      /\ ahead' = IF handed[t] = {} THEN [u \in Tasks |-> ahead[u] \ {t}] ELSE ahead
      /\ UNCHANGED <<now, queueVars, asOf, since, handed>>
  BY DEF ClaimRaises, LetGo, Goto
<1>2. t \in Tasks
  BY <1>1 DEF Inv, LocksOK
<1>3. TypeOK'
  BY <1>1 DEF Inv
<1>4. HoldersLeased' /\ ClockOK' /\ StatusOK' /\ PostingOK'
  BY <1>1 DEF Inv, HoldersLeased, ClockOK, StatusOK, PostingOK
<1>5. \A v \in Workers :
        pc'[v] = "locked" => /\ pc[v] = "locked" /\ v # w /\ held'[v] = held[v] /\ held[v] # t
  BY <1>1 DEF Inv, LocksOK
<1>6. LocksOK'
  BY <1>1, <1>5 DEF Inv, LocksOK, Cutoff
<1>7. Locked' \subseteq Locked \ {t}
  BY <1>5 DEF Locked
<1>8. Taken' \subseteq Taken /\ (handed[t] = {} => t \notin Taken')
  BY <1>1, <1>7 DEF Taken
<1>9. TakenInOrder'
  <2> SUFFICES ASSUME NEW a \in Tasks, NEW b \in Tasks,
                      status[a] # "absent", createdAt[a] < createdAt[b], b \in Taken',
                      handed[a] = {}
               PROVE  b \in ahead'[a]
    BY <1>1 DEF TakenInOrder
  <2>1. b \in ahead[a]
    BY <1>8 DEF Inv, TakenInOrder
  <2>2. handed[t] = {} => b # t
    BY <1>8
  <2> QED BY <2>1, <2>2, <1>1
<1> QED BY <1>3, <1>4, <1>6, <1>9 DEF Inv

LEMMA EnqueueKeepsInv ==
  ASSUME Inv, NEW t \in Tasks, BeginEnqueue(t) \/ EndEnqueue(t) \/ EnqueueRaises(t)
  PROVE  Inv'
<1>1. CASE BeginEnqueue(t)
  <2>1. TypeOK' /\ HoldersLeased' /\ ClockOK' /\ StatusOK' /\ PostingOK'
    BY <1>1 DEF BeginEnqueue, Stamp, Inv, HoldersLeased, ClockOK, StatusOK, PostingOK
  <2>2. LocksOK'
    BY <1>1 DEF BeginEnqueue, Stamp, Inv, LocksOK, Cutoff
  <2>3. Taken' = Taken /\ t \notin Taken
    BY <1>1 DEF BeginEnqueue, Stamp, Inv, Taken, Locked, LocksOK, StatusOK
  <2>4. TakenInOrder'
    BY <1>1, <2>3 DEF BeginEnqueue, Stamp, Inv, TakenInOrder, ClockOK
  <2> QED BY <2>1, <2>2, <2>4 DEF Inv
<1>2. CASE EndEnqueue(t)
  <2>1. status[t] = "absent"
    BY <1>2 DEF EndEnqueue, Insert, Inv, PostingOK
  <2>2. TypeOK' /\ HoldersLeased' /\ ClockOK' /\ StatusOK' /\ PostingOK'
    <3>1. Taken \subseteq Tasks
      BY DEF Inv, Taken, Locked, LocksOK
    <3> QED BY <1>2, <2>1, <3>1
            DEF EndEnqueue, Insert, Inv, HoldersLeased, ClockOK, StatusOK, PostingOK
  <2>3. LocksOK'
    BY <1>2, <2>1 DEF EndEnqueue, Insert, Inv, LocksOK, Cutoff
  <2>4. Taken' = Taken
    BY <1>2 DEF EndEnqueue, Taken, Locked
  <2>5. TakenInOrder'
    BY <1>2, <2>4 DEF EndEnqueue, Insert, Inv, TakenInOrder
  <2> QED BY <2>2, <2>3, <2>5 DEF Inv
<1>3. CASE EnqueueRaises(t)
  <2>1. status[t] = "absent"
    BY <1>3 DEF EnqueueRaises, Inv, PostingOK
  <2>2. TypeOK' /\ HoldersLeased' /\ ClockOK' /\ StatusOK' /\ PostingOK'
    BY <1>3 DEF EnqueueRaises, Inv, HoldersLeased, ClockOK, StatusOK, PostingOK
  <2>3. LocksOK'
    BY <1>3 DEF EnqueueRaises, Inv, LocksOK, Cutoff
  <2>4. Taken' = Taken /\ t \notin Taken
    BY <1>3, <2>1 DEF EnqueueRaises, Inv, Taken, Locked, LocksOK, StatusOK
  <2>5. TakenInOrder'
    BY <1>3, <2>1, <2>4 DEF EnqueueRaises, Inv, TakenInOrder
  <2> QED BY <2>2, <2>3, <2>5 DEF Inv
<1> QED BY <1>1, <1>2, <1>3

(* Every step keeps the invariant. *)
LEMMA StepInv == Inv /\ [Next]_vars => Inv'
<1> SUFFICES ASSUME Inv, [Next]_vars PROVE Inv'
  OBVIOUS
<1> DEFINE Plain == TypeOK /\ HoldersLeased /\ ClockOK /\ StatusOK
<1>0. Plain' /\ (LocksOK' /\ PostingOK' /\ TakenInOrder') => Inv'
  BY DEF Inv
<1>1. CASE Tick
  <2>1. Plain' /\ PostingOK'
    BY <1>1 DEF Tick, Inv, HoldersLeased, ClockOK, StatusOK, PostingOK
  <2>2. Taken' = Taken
    BY <1>1 DEF Tick, Taken, Locked
  <2>3. LocksOK' /\ TakenInOrder'
    BY <1>1, <2>2 DEF Tick, Inv, LocksOK, TakenInOrder, Cutoff
  <2> QED BY <1>0, <2>1, <2>3
<1>2. ASSUME NEW t \in Tasks, BeginEnqueue(t) \/ EndEnqueue(t) \/ EnqueueRaises(t) PROVE Inv'
  BY <1>2, EnqueueKeepsInv
<1>3. ASSUME NEW w \in Workers, Loop(w) PROVE Inv'
  <2>1. CASE ReadCutoff(w)
    <3>1. Plain'
      BY <2>1 DEF ReadCutoff, Goto, Inv, HoldersLeased, ClockOK, StatusOK
    <3>2. \A v \in Workers \ {w} : held'[v] = held[v] /\ asOf'[v] = asOf[v]
      BY <2>1 DEF ReadCutoff, Inv
    <3>3. LocksOK' /\ PostingOK' /\ TakenInOrder'
      BY <2>1, <3>2, ElsewhereKeepsOrder, "claiming" \in PCs \ {"locked"} DEF ReadCutoff, Goto
    <3> QED BY <1>0, <3>1, <3>3
  <2>2. ASSUME NEW t \in Tasks, LockRow(w, t) PROVE Inv'
    BY <2>2, LockKeepsInv
  <2>3. CASE ClaimTask(w)
    BY <2>3, ClaimKeepsInv
  <2>4. CASE ClaimNothing(w)
    <3>1. Plain'
      BY <2>4 DEF ClaimNothing, Goto, Inv, HoldersLeased, ClockOK, StatusOK
    <3>2. \A v \in Workers \ {w} : held'[v] = held[v] /\ asOf'[v] = asOf[v]
      BY <2>4 DEF ClaimNothing
    <3>3. LocksOK' /\ PostingOK' /\ TakenInOrder'
      BY <2>4, <3>2, ElsewhereKeepsOrder, "idle" \in PCs \ {"locked"} DEF ClaimNothing, Goto
    <3> QED BY <1>0, <3>1, <3>3
  <2>5. CASE Handle(w)
    <3>1. PICK l \in {"succeeded", "failed"} : pc' = [pc EXCEPT ![w] = l]
      BY <2>5 DEF Handle, Goto
    <3>2. pc[w] = "running" /\ UNCHANGED <<now, queueVars, held, asOf, since, handed, ahead>>
      BY <2>5 DEF Handle
    <3>3. TypeOK'
      BY <3>1, <3>2 DEF Inv
    <3>4. HoldersLeased' /\ ClockOK' /\ StatusOK'
      BY <3>1, <3>2 DEF Inv, HoldersLeased, ClockOK, StatusOK
    <3>5. LocksOK' /\ PostingOK' /\ TakenInOrder'
      BY <3>1, <3>2, ElsewhereKeepsOrder
    <3> QED BY <1>0, <3>3, <3>4, <3>5
  <2>6. CASE Report(w)
    <3>1. (pc[w] = "succeeded") \in BOOLEAN
      OBVIOUS
    <3> QED BY <2>6, <3>1, CompleteKeepsInv DEF Report, LetGo, Goto
  <2> QED BY <1>3, <2>1, <2>2, <2>3, <2>4, <2>5, <2>6 DEF Loop
<1>4. ASSUME NEW w \in Workers, ClaimRaises(w) PROVE Inv'
  BY <1>4, ClaimRaisesKeepsInv
<1>5. ASSUME NEW w \in Workers, ReportRaises(w) PROVE Inv'
  <2>1. CASE UNCHANGED queueVars
    <3>1. Plain'
      BY <2>1, <1>5 DEF ReportRaises, Goto, Inv, HoldersLeased, ClockOK, StatusOK
    <3>2. \A v \in Workers \ {w} : held'[v] = held[v] /\ asOf'[v] = asOf[v]
      BY <1>5 DEF ReportRaises
    <3>3. LocksOK' /\ PostingOK' /\ TakenInOrder'
      BY <2>1, <1>5, <3>2, ElsewhereKeepsOrder DEF ReportRaises, Goto
    <3> QED BY <1>0, <3>1, <3>3
  <2>2. CASE held[w] \notin Locked /\ Complete(held[w], w, TRUE)
    BY <2>2, <1>5, CompleteKeepsInv DEF ReportRaises, Goto
  <2> QED BY <1>5, <2>1, <2>2 DEF ReportRaises
<1>6. ASSUME NEW w \in Workers, LoopDies(w) PROVE Inv'
  <2>1. CASE UNCHANGED queueVars
    <3>1. Plain'
      BY <2>1, <1>6 DEF LoopDies, LetGo, Goto, Inv, HoldersLeased, ClockOK, StatusOK
    <3>2. \A v \in Workers \ {w} : held'[v] = held[v] /\ asOf'[v] = asOf[v]
      BY <1>6 DEF LoopDies, LetGo, Inv
    <3>3. LocksOK' /\ PostingOK' /\ TakenInOrder'
      BY <2>1, <1>6, <3>2, ElsewhereKeepsOrder DEF LoopDies, LetGo, Goto
    <3> QED BY <1>0, <3>1, <3>3
  <2>2. CASE held[w] \notin Locked /\ Complete(held[w], w, FALSE)
    BY <2>2, <1>6, CompleteKeepsInv DEF LoopDies, LetGo, Goto
  <2> QED BY <1>6, <2>1, <2>2 DEF LoopDies
<1>7. ASSUME NEW w \in Workers, Stop(w) \/ Crash(w) \/ Restart(w) PROVE Inv'
  <2>1. PICK l \in {"down", "idle"} : pc' = [pc EXCEPT ![w] = l]
    BY <1>7 DEF Stop, Crash, Restart, LetGo, Goto
  <2>2. pc[w] # "locked" /\ UNCHANGED <<now, queueVars, asOf, since, handed, ahead>>
    BY <1>7 DEF Stop, Crash, Restart
  <2>3. held' \in [Workers -> Tasks \cup {NoTask}] /\ \A v \in Workers \ {w} : held'[v] = held[v]
    BY <1>7 DEF Stop, Crash, Restart, LetGo, Inv
  <2>4. Plain'
    BY <2>1, <2>2, <2>3 DEF Inv, HoldersLeased, ClockOK, StatusOK
  <2>5. LocksOK' /\ PostingOK' /\ TakenInOrder'
    BY <2>1, <2>2, <2>3, ElsewhereKeepsOrder
  <2> QED BY <1>0, <2>4, <2>5
<1>8. CASE UNCHANGED vars
  <2>1. Taken' = Taken
    BY <1>8 DEF Taken, Locked
  <2> QED BY <1>8, <2>1
          DEF Inv, HoldersLeased, ClockOK, StatusOK, LocksOK, PostingOK, TakenInOrder, Cutoff
<1> QED BY <1>1, <1>2, <1>3, <1>4, <1>5, <1>6, <1>7, <1>8 DEF Next

LEMMA SpecInv == Spec => []Inv
  BY InitInv, StepInv, PTL DEF Spec

(* Every variable keeps its type, whatever the fleet does. *)
THEOREM Typing == Spec => []TypeOK
<1>1. Inv => TypeOK
  BY DEF Inv
<1> QED BY <1>1, SpecInv, PTL

(* taskqueue.py, claim ("the oldest pending one"): work is first handed out in *)
(* the order of its stamps, through crashes, restarts, expired leases and       *)
(* claims that are rolled back; a task is overtaken only by what was taken      *)
(* before its row was there or while another claim kept it locked.              *)
THEOREM InOrder == Spec => []HandedInOrder
<1>1. Inv => HandedInOrder
  BY DEF Inv, TakenInOrder, HandedInOrder, Taken
<1> QED BY <1>1, SpecInv, PTL

-----------------------------------------------------------------------------
(* The lease.  With one lease_seconds for the whole fleet, a claimant that     *)
(* finds a row expired finds it expired for its holder too: its cutoff was     *)
(* computed from an instant that has passed, so it errs on the late side.      *)

LEMMA ClaimKeepsLease ==
  ASSUME SameLease, Inv, LeaseExclusive,
         NEW v \in Workers, ClaimTask(v)
  PROVE  LeaseExclusive'
<1> DEFINE t == held[v]
<1>1. PICK stamp \in asOf[v] .. now :
        Lease(t, v, stamp) /\ since' = [since EXCEPT ![v] = stamp]
  BY DEF ClaimTask
<1>2. /\ t \in Tasks
      /\ \/ status[t] = "pending"
         \/ status[t] = "leased" /\ leasedAt[t] < asOf[v] - LeaseSeconds[v]
  BY DEF ClaimTask, Inv, LocksOK, Cutoff
<1>3. PICK l \in {"running", "failed"} :
        pc' = [pc EXCEPT ![v] = l] /\ UNCHANGED <<now, held, asOf>>
  BY DEF ClaimTask, Goto
<1> SUFFICES ASSUME NEW w \in Workers,
                    pc'[w] \in Working,
                    now - since'[w] <= LeaseSeconds[w],
                    status'[held[w]] = "leased"
             PROVE  leasedBy'[held[w]] = w /\ leasedAt'[held[w]] = since'[w]
  BY <1>3 DEF LeaseExclusive
<1>4. CASE w = v
  BY <1>4, <1>1, <1>2, <1>3 DEF Inv, Lease
<1>5. CASE w # v
  <2>1. /\ pc[w] \in Working /\ since'[w] = since[w]
        /\ held[w] \in Tasks /\ status[held[w]] \in {"leased", "done"}
    BY <1>5, <1>1, <1>3 DEF Inv, HoldersLeased
  <2>2. CASE held[w] # t
    BY <2>1, <2>2, <1>1 DEF Inv, LeaseExclusive, Lease
  <2>3. CASE held[w] = t
    <3>1. status[t] = "leased" /\ leasedAt[t] < asOf[v] - LeaseSeconds[v]
      BY <2>1, <2>3, <1>2
    <3>3. LeaseSeconds[v] = LeaseSeconds[w] /\ LeaseSeconds[v] \in Nat /\ asOf[v] <= now
      BY LeaseAssumption DEF SameLease, Inv, ClockOK
    <3>2. leasedAt[t] = since[w]
      BY <2>1, <2>3, <3>1 DEF LeaseExclusive
    <3> QED BY <2>1, <3>1, <3>2, <3>3 DEF Inv
  <2> QED BY <2>2, <2>3
<1> QED BY <1>4, <1>5

LEMMA CompleteKeepsLease ==
  ASSUME Inv, LeaseExclusive, NEW w \in Workers, NEW ok \in BOOLEAN, NEW l \in PCs,
         pc[w] \in Working,
         Complete(held[w], w, ok),
         pc' = [pc EXCEPT ![w] = l],
         \/ held' = held
         \/ l \notin Working /\ held' = [held EXCEPT ![w] = NoTask],
         UNCHANGED <<now, since>>
  PROVE  LeaseExclusive'
<1>1. held[w] \in Tasks /\ status[held[w]] # "absent"
  BY DEF Inv, HoldersLeased
<1>2. status' = [status EXCEPT ![held[w]] = "done"] /\ UNCHANGED <<leasedBy, leasedAt>>
  BY <1>1, CompleteEffect DEF Inv
<1> QED BY <1>1, <1>2 DEF Inv, HoldersLeased, LeaseExclusive

LEMMA StepLease == SameLease /\ Inv /\ LeaseExclusive /\ [Next]_vars => LeaseExclusive'
<1> SUFFICES ASSUME SameLease, Inv, LeaseExclusive, [Next]_vars PROVE LeaseExclusive'
  OBVIOUS
<1>1. CASE Tick
  BY <1>1, LeaseAssumption DEF Tick, Inv, ClockOK, LeaseExclusive
<1>2. ASSUME NEW t \in Tasks, BeginEnqueue(t) \/ EndEnqueue(t) \/ EnqueueRaises(t)
      PROVE LeaseExclusive'
  BY <1>2 DEF BeginEnqueue, EndEnqueue, EnqueueRaises, Stamp, Insert, Inv, HoldersLeased,
              PostingOK, LeaseExclusive
<1>3. ASSUME NEW w \in Workers, Loop(w) PROVE LeaseExclusive'
  <2>1. CASE ReadCutoff(w)
    BY <2>1 DEF ReadCutoff, Goto, Inv, LeaseExclusive
  <2>2. ASSUME NEW t \in Tasks, LockRow(w, t) PROVE LeaseExclusive'
    BY <2>2 DEF LockRow, Goto, Inv, LeaseExclusive
  <2>3. CASE ClaimTask(w)
    BY <2>3, ClaimKeepsLease
  <2>4. CASE ClaimNothing(w)
    BY <2>4 DEF ClaimNothing, Goto, Inv, LeaseExclusive
  <2>5. CASE Handle(w)
    BY <2>5 DEF Handle, Goto, Inv, LeaseExclusive
  <2>6. CASE Report(w)
    <3>1. (pc[w] = "succeeded") \in BOOLEAN
      OBVIOUS
    <3> QED BY <2>6, <3>1, CompleteKeepsLease DEF Report, LetGo, Goto
  <2> QED BY <1>3, <2>1, <2>2, <2>3, <2>4, <2>5, <2>6 DEF Loop
<1>4. ASSUME NEW w \in Workers, ClaimRaises(w) PROVE LeaseExclusive'
  BY <1>4 DEF ClaimRaises, LetGo, Goto, Inv, LeaseExclusive
<1>5. ASSUME NEW w \in Workers, ReportRaises(w) PROVE LeaseExclusive'
  <2>1. CASE UNCHANGED queueVars
    BY <2>1, <1>5 DEF ReportRaises, Goto, Inv, LeaseExclusive
  <2>2. CASE Complete(held[w], w, TRUE)
    BY <2>2, <1>5, CompleteKeepsLease DEF ReportRaises, Goto
  <2> QED BY <1>5, <2>1, <2>2 DEF ReportRaises
<1>6. ASSUME NEW w \in Workers, LoopDies(w) PROVE LeaseExclusive'
  <2>1. CASE UNCHANGED queueVars
    BY <2>1, <1>6 DEF LoopDies, LetGo, Goto, Inv, LeaseExclusive
  <2>2. CASE Complete(held[w], w, FALSE)
    BY <2>2, <1>6, CompleteKeepsLease DEF LoopDies, LetGo, Goto
  <2> QED BY <1>6, <2>1, <2>2 DEF LoopDies
<1>7. ASSUME NEW w \in Workers, Stop(w) \/ Crash(w) \/ Restart(w) PROVE LeaseExclusive'
  BY <1>7 DEF Stop, Crash, Restart, LetGo, Goto, Inv, LeaseExclusive
<1>8. CASE UNCHANGED vars
  BY <1>8 DEF Inv, LeaseExclusive
<1> QED BY <1>1, <1>2, <1>3, <1>4, <1>5, <1>6, <1>7, <1>8 DEF Next

(* taskqueue.py: "two workers never grab the same one", for as long as the     *)
(* lease of the first has not run out.                                         *)
THEOREM LeaseSafety == ASSUME SameLease PROVE Spec => []LeaseExclusive
<1>1. Init => LeaseExclusive
  BY DEF Init, LeaseExclusive
<1>2. Inv /\ LeaseExclusive /\ [Next]_vars => LeaseExclusive'
  BY StepLease
<1> QED BY <1>1, <1>2, SpecInv, PTL DEF Spec

-----------------------------------------------------------------------------
(* The refinement: the row's appearance is Post, the commit of a claim is      *)
(* Hand, the complete that finds                                               *)
(* the task unsettled is Settle, and everything else stutters.                 *)

LEMMA InitBacklog == Init => B!Init
  BY DEF Init, QueueInit, B!Init

(* complete, as seen by the backlog. *)
LEMMA CompleteIsSettle ==
  ASSUME Inv, NEW w \in Workers, NEW ok \in BOOLEAN, pc[w] \in Working,
         Complete(held[w], w, ok), UNCHANGED handed
  PROVE  [B!Next]_(B!vars)
<1> DEFINE t == held[w]
<1>1. t \in Tasks /\ w \in handed[t] /\ status[t] \in {"leased", "done"}
  BY DEF Inv, HoldersLeased
<1>2. {u \in Tasks : status'[u] # "absent"} = {u \in Tasks : status[u] # "absent"}
  BY <1>1, CompleteEffect DEF Inv
<1>3. CASE status[t] = "done"
  BY <1>3, <1>2 DEF Complete, B!vars
<1>4. CASE status[t] = "leased"
  <2>1. result[t] = NoResult /\ result' = [result EXCEPT ![t] = [worker |-> w, ok |-> ok]]
    BY <1>4, <1>1 DEF Complete, Inv, StatusOK
  <2>2. B!Settle(t, w, ok)
    BY <2>1, <1>1, <1>2 DEF B!Settle
  <2> QED BY <2>2, <1>1 DEF B!Next
<1> QED BY <1>1, <1>3, <1>4

LEMMA StepBacklog == Inv /\ [Next]_vars => [B!Next]_(B!vars)
<1> SUFFICES ASSUME Inv, [Next]_vars PROVE [B!Next]_(B!vars)
  OBVIOUS
<1>0. CASE UNCHANGED <<status, result, handed>>
  BY <1>0 DEF B!vars
<1>1. CASE Tick
  BY <1>1, <1>0 DEF Tick
<1>2. ASSUME NEW t \in Tasks, BeginEnqueue(t) \/ EndEnqueue(t) \/ EnqueueRaises(t)
      PROVE [B!Next]_(B!vars)
  <2>1. CASE BeginEnqueue(t) \/ EnqueueRaises(t)
    BY <2>1, <1>0 DEF BeginEnqueue, EnqueueRaises, Stamp
  <2>2. CASE EndEnqueue(t)
    <3>1. B!Post(t)
      BY <2>2 DEF EndEnqueue, Insert, B!Post, Inv, PostingOK
    <3> QED BY <3>1 DEF B!Next
  <2> QED BY <1>2, <2>1, <2>2
<1>3. ASSUME NEW w \in Workers, Loop(w) PROVE [B!Next]_(B!vars)
  <2>1. CASE ReadCutoff(w) \/ ClaimNothing(w) \/ Handle(w)
    BY <2>1, <1>0 DEF ReadCutoff, ClaimNothing, Handle
  <2>2. ASSUME NEW t \in Tasks, LockRow(w, t) PROVE [B!Next]_(B!vars)
    BY <2>2, <1>0 DEF LockRow
  <2>4. CASE ClaimTask(w)
    <3> DEFINE t == held[w]
    <3>1. /\ t \in Tasks
          /\ status[t] \in {"pending", "leased"}
          /\ status' = [status EXCEPT ![t] = "leased"]
          /\ handed' = [handed EXCEPT ![t] = @ \cup {w}]
          /\ result' = result
      BY <2>4 DEF ClaimTask, Lease, Inv, LocksOK
    <3>2. B!Hand(t, w)
      BY <3>1 DEF B!Hand, Inv, StatusOK
    <3> QED BY <3>1, <3>2 DEF B!Next
  <2>3. CASE Report(w)
    <3>1. (pc[w] = "succeeded") \in BOOLEAN
      OBVIOUS
    <3> QED BY <2>3, <3>1, CompleteIsSettle DEF Report
  <2> QED BY <1>3, <2>1, <2>2, <2>3, <2>4 DEF Loop
<1>8. ASSUME NEW w \in Workers, ClaimRaises(w) PROVE [B!Next]_(B!vars)
  BY <1>8, <1>0 DEF ClaimRaises
<1>4. ASSUME NEW w \in Workers, ReportRaises(w) PROVE [B!Next]_(B!vars)
  BY <1>4, <1>0, CompleteIsSettle DEF ReportRaises
<1>5. ASSUME NEW w \in Workers, LoopDies(w) PROVE [B!Next]_(B!vars)
  BY <1>5, <1>0, CompleteIsSettle DEF LoopDies
<1>6. ASSUME NEW w \in Workers, Stop(w) \/ Crash(w) \/ Restart(w) PROVE [B!Next]_(B!vars)
  BY <1>6, <1>0 DEF Stop, Crash, Restart
<1>7. CASE UNCHANGED vars
  BY <1>7, <1>0
<1> QED BY <1>1, <1>2, <1>3, <1>4, <1>5, <1>6, <1>7, <1>8 DEF Next

(* The fleet over the leased queue keeps the backlog's promise: every task is  *)
(* settled at most once, by a worker that was given it, and the outcome stands. *)
THEOREM Refinement == Spec => ImplementsBacklog
<1>1. Spec => B!Init /\ [][B!Next]_(B!vars)
  BY InitBacklog, StepBacklog, SpecInv, PTL DEF Spec
<1> QED BY <1>1 DEF ImplementsBacklog, B!Spec
=============================================================================
