--------------------------- MODULE Orchestration ---------------------------
(* Orchestrators and workers over one channel (hallpass/orchestrator.py,       *)
(* runner.run_worker): tasks are posted, every worker process reads the log    *)
(* from its subject's cursor, handles the tasks addressed to its subject,      *)
(* posts a result for each and acknowledges the whole batch once.              *)
EXTENDS A2ABus

CONSTANTS
  Orchestrators,  \* processes that call dispatch and gather
  Workers,        \* processes that call run_worker; two may share a subject
  Addressee,      \* Addressee[t]: the subject t is dispatched to
  Handles,        \* Handles[w]: the tasks whose operation w has a handler for
  Crews,          \* deployments: the workers that run and the tasks that come
  Reliable,       \* processes that neither die nor find a bus call raising
  Rounds,         \* the rounds of a gather
  Asks,           \* the sets of ids a gather may be called with
  NoJob,          \* a process that is posting nothing
  MaxFaults       \* bound: crashes, raising bus calls and changes of the policy in a run

ASSUME CallersAssumption == Callers = Orchestrators \cup Workers
ASSUME RolesAssumption == Orchestrators \cap Workers = {}
ASSUME CrewsAssumption == Crews \subseteq [workers : SUBSET Workers, tasks : SUBSET Tasks]
ASSUME RoundsAssumption == Rounds \in Nat \ {0}
ASSUME AsksAssumption == Asks \subseteq SUBSET Tasks
ASSUME NoJobAssumption == NoJob \notin Messages
ASSUME MaxFaultsAssumption == MaxFaults \in Nat

VARIABLES
  pc,        \* pc[p]: where p is
  at,        \* at[p]: the last message of its batch p has dealt with
  upTo,      \* upTo[p]: the last message of its batch
  job,       \* job[p]: the message p is posting
  trying,    \* trying[w]: w is posting ok=True, inside the handler's try block
  round,     \* round[o]: the read passes o's gather has begun
  wanted,    \* wanted[o]: the task ids o's gather was asked for
  found,     \* found[o]: those of them it has a result for
  acked,     \* acked[o]: the task ids whose results it has acknowledged (history)
  collected, \* task ids some gather has returned a result for (history)
  forgone,   \* task ids whose result a gather acknowledged that was not asked for
             \* it, or did not get as far as returning it (history)
  issued,    \* task ids dispatch has drawn
  disturbed  \* crashes, raising calls and changes of the policy so far (bound)

gatherVars == <<round, wanted, found, acked, collected, forgone>>
callVars == <<pc, at, upTo, job, trying, gatherVars, issued, disturbed>>
vars == <<busVars, callVars>>

PCs == {"idle", "looping", "catching", "reading", "handling", "posting", "appending",
        "acking", "advancing", "down", "absent"}

TypeOK ==
  /\ BusTypeOK
  /\ pc \in [Callers -> PCs]
  /\ \A p \in Callers : at[p] \in 0 .. upTo[p] /\ upTo[p] \in 0 .. HeadSeq
  /\ \A p \in Callers : pc[p] \in {"posting", "appending"} => job[p] \in Messages
  /\ trying \in [Workers -> BOOLEAN]
  /\ round \in [Orchestrators -> 0 .. Rounds]
  /\ wanted \in [Orchestrators -> SUBSET Tasks]
  /\ \A o \in Orchestrators : found[o] \subseteq wanted[o] /\ acked[o] \subseteq issued
  /\ collected \cup forgone \subseteq issued /\ issued \subseteq Tasks
  /\ disturbed \in 0 .. MaxFaults

Init ==
  /\ BusInit
  /\ \E c \in Crews :
       /\ pc = [p \in Callers |->
                  IF p \in Orchestrators \cup c.workers THEN "idle" ELSE "absent"]
       /\ issued = Tasks \ c.tasks
  /\ at = [p \in Callers |-> 0]
  /\ upTo = [p \in Callers |-> 0]
  /\ job = [p \in Callers |-> NoJob]
  /\ trying = [w \in Workers |-> FALSE]
  /\ round = [o \in Orchestrators |-> 0]
  /\ wanted = [o \in Orchestrators |-> {}]
  /\ found = [o \in Orchestrators |-> {}]
  /\ acked = [o \in Orchestrators |-> {}]
  /\ collected = {} /\ forgone = {}
  /\ disturbed = 0

Goto(p, l) == pc' = [pc EXCEPT ![p] = l]

(* Faults, and changes of the policy, are bounded together. *)
Disturb ==
  /\ disturbed < MaxFaults
  /\ disturbed' = disturbed + 1

Redeclare(q) ==
  /\ Disturb
  /\ Declare(q, {p \in Callers : pc[p] = "posting"})
  /\ UNCHANGED <<pc, at, upTo, job, trying, gatherVars, issued>>

Quit(p) ==
  /\ job' = [job EXCEPT ![p] = NoJob]
  /\ trying' = [w \in Workers |-> trying[w] /\ w # p]

(* The locals of a call go with it. *)
Leave(p, l) ==
  /\ Goto(p, l)
  /\ at' = [at EXCEPT ![p] = 0]
  /\ upTo' = [upTo EXCEPT ![p] = 0]

-----------------------------------------------------------------------------
(* post, catch_up and ack, whoever calls them.                                 *)

Authorize(p) ==
  /\ Authorized(p)
  /\ need' = [need EXCEPT ![p] = {}]
  /\ UNCHANGED <<policy, lawful>>

Post(p) ==
  /\ pc[p] = "posting"
  /\ Authorize(p)
  /\ BeginAppend(p)
  /\ Goto(p, "appending")
  /\ UNCHANGED <<messages, cursor, at, upTo, job, gatherVars, issued, disturbed, trying>>

(* What the caller of a post does next: dispatch returns, the worker looks at  *)
(* the next message of its batch.                                              *)
Posted(p) == IF p \in Workers THEN "handling" ELSE "idle"

Commit(p) ==
  /\ pc[p] = "appending"
  /\ CommitAppend(p, job[p])
  /\ Goto(p, Posted(p))
  /\ Quit(p)
  /\ lawful' = [lawful EXCEPT ![p] = FALSE]
  /\ UNCHANGED <<policy, cursor, need, at, upTo, gatherVars, issued, disturbed>>

(* catch_up reads the cursor once ... *)
CatchUp(p) ==
  /\ pc[p] = "catching"
  /\ Authorize(p)
  /\ at' = [at EXCEPT ![p] = cursor[SubjectOf[p]]]
  /\ upTo' = [upTo EXCEPT ![p] = cursor[SubjectOf[p]]]
  /\ Goto(p, "reading")
  /\ UNCHANGED <<messages, lock, cursor, slot, job, gatherVars, issued, disturbed, trying>>

(* ... and then page after page, while others go on posting, until one is empty. *)
ReadPage(p) ==
  /\ pc[p] = "reading"
  /\ upTo[p] < HeadSeq
  /\ upTo' = [upTo EXCEPT ![p] = PageEnd(@)]
  /\ UNCHANGED <<busVars, pc, at, job, gatherVars, issued, disturbed, trying>>

(* Mutant: acknowledges whatever the channel holds by now. *)
MutantAckHead(p) ==
  /\ pc[p] = "acking"
  /\ Authorize(p)
  /\ upTo' = [upTo EXCEPT ![p] = HeadSeq]
  /\ Goto(p, "advancing")
  /\ UNCHANGED <<messages, lock, cursor, slot, at, job, gatherVars, issued, disturbed, trying>>

(* ack compares with the head in one critical section ... *)
Ack(p) ==
  /\ pc[p] = "acking"
  /\ Authorize(p)
  /\ upTo[p] <= HeadSeq
  /\ Goto(p, "advancing")
  /\ UNCHANGED <<messages, lock, cursor, slot, at, upTo, job, gatherVars, issued, disturbed, trying>>

(* ... and moves the cursor in another. *)
Advance(p) ==
  /\ pc[p] = "advancing"
  /\ AdvanceCursor(SubjectOf[p], upTo[p])
  /\ UNCHANGED <<policy, messages, lock, need, slot, lawful, job, issued, disturbed, trying>>

-----------------------------------------------------------------------------
(* Orchestrator.                                                               *)

Dispatch(o, t) ==
  /\ pc[o] = "idle"
  /\ t \notin issued
  /\ issued' = issued \cup {t}
  /\ job' = [job EXCEPT ![o] = [kind |-> "task", task |-> t, sender |-> SubjectOf[o]]]
  /\ Needs(o, "post")
  /\ Goto(o, "posting")
  /\ UNCHANGED <<policy, messages, lock, cursor, slot, at, upTo, gatherVars, disturbed, trying>>

(* Every round of a gather; what it is asked for is its caller's choice.       *)
Gather(o) ==
  /\ \/ pc[o] = "idle" /\ \E ids \in Asks : wanted' = [wanted EXCEPT ![o] = ids]
     \/ pc[o] = "looping" /\ UNCHANGED wanted
  /\ round' = [round EXCEPT ![o] = @ + 1]
  /\ Needs(o, "read")
  /\ Goto(o, "catching")
  /\ UNCHANGED <<policy, messages, lock, cursor, slot, at, upTo, job, found, acked, collected, forgone, issued, disturbed, trying>>

Batch(p) == (at[p] + 1) .. upTo[p]

Answered(p) == {messages[i].task : i \in {j \in Batch(p) : messages[j].kind = "result"}}

(* Mutant: what is found belongs to the round that found it. *)
MutantNoteRound(o) ==
  /\ pc[o] = "reading" /\ upTo[o] = HeadSeq
  /\ Batch(o) # {}
  /\ found' = [found EXCEPT ![o] = Answered(o) \cap wanted[o]]
  /\ Needs(o, "read")
  /\ Goto(o, "acking")
  /\ UNCHANGED <<policy, messages, lock, cursor, slot, at, upTo, job, round, wanted, acked, collected, forgone, issued, disturbed, trying>>

(* A pass that read something keeps the results it was asked for, and          *)
(* acknowledges all it has read.                                               *)
NoteResults(o) ==
  /\ pc[o] = "reading" /\ upTo[o] = HeadSeq
  /\ Batch(o) # {}
  /\ found' = [found EXCEPT ![o] = @ \cup (Answered(o) \cap wanted[o])]
  /\ Needs(o, "read")
  /\ Goto(o, "acking")
  /\ UNCHANGED <<policy, messages, lock, cursor, slot, at, upTo, job, round, wanted, acked, collected, forgone, issued, disturbed, trying>>

(* The locals of a gather go with it. *)
EndGather(p) ==
  /\ round' = [o \in Orchestrators |-> IF o = p THEN 0 ELSE round[o]]
  /\ wanted' = [o \in Orchestrators |-> IF o = p THEN {} ELSE wanted[o]]
  /\ found' = [o \in Orchestrators |-> IF o = p THEN {} ELSE found[o]]
  /\ acked' = [o \in Orchestrators |-> IF o = p THEN {} ELSE acked[o]]

(* The results acknowledged so far, by an orchestrator. *)
Acked(p) == IF p \in Orchestrators THEN acked[p] ELSE {}

Return(o, acknowledged) ==
  /\ Leave(o, "idle")
  /\ EndGather(o)
  /\ collected' = collected \cup found[o]
  /\ forgone' = forgone \cup (acknowledged \ wanted[o])

(* A pass that read nothing ends the gather. *)
GatherEnds(o) ==
  /\ pc[o] = "reading" /\ upTo[o] = HeadSeq
  /\ Batch(o) = {}
  /\ Return(o, acked[o])
  /\ UNCHANGED <<busVars, job, issued, disturbed, trying>>

(* After the ack: the last of its rounds, or another one. *)
GatherAcked(o) ==
  /\ Advance(o)
  /\ IF round[o] = Rounds
       THEN Return(o, acked[o] \cup Answered(o))
       ELSE /\ Leave(o, "looping")
            /\ acked' = [acked EXCEPT ![o] = @ \cup Answered(o)]
            /\ UNCHANGED <<round, wanted, found, collected, forgone>>

-----------------------------------------------------------------------------
(* Worker.                                                                     *)

RunOnce(w) ==
  /\ pc[w] = "idle"
  /\ Needs(w, "read")
  /\ Goto(w, "catching")
  /\ UNCHANGED <<policy, messages, lock, cursor, slot, at, upTo, job, gatherVars, issued, disturbed, trying>>

NothingNew(w) ==
  /\ pc[w] = "reading" /\ upTo[w] = HeadSeq
  /\ IF Batch(w) = {}
       THEN Leave(w, "idle")
       ELSE Goto(w, "handling") /\ UNCHANGED <<at, upTo>>
  /\ UNCHANGED <<busVars, job, gatherVars, issued, disturbed, trying>>

(* The messages of its batch still to be handled: tasks sent to its subject. *)
Mine(w) ==
  {i \in Batch(w) : /\ messages[i].kind = "task"
                    /\ Addressee[messages[i].task] = SubjectOf[w]}

Reply(w, t, ok) ==
  /\ job' = [job EXCEPT ![w] = [kind |-> "result", task |-> t, sender |-> SubjectOf[w]]]
  /\ trying' = [trying EXCEPT ![w] = ok]
  /\ Needs(w, "post")
  /\ Goto(w, "posting")

(* Mutant: a task without a handler is passed over. *)
MutantHandleKnown(w) ==
  /\ pc[w] = "handling"
  /\ Mine(w) # {}
  /\ LET i == Min(Mine(w)) IN
       /\ at' = [at EXCEPT ![w] = i]
       /\ IF messages[i].task \in Handles[w]
            THEN Reply(w, messages[i].task, TRUE)
            ELSE UNCHANGED <<pc, job, trying, need, lawful>>
  /\ UNCHANGED <<policy, messages, lock, cursor, slot, upTo, gatherVars, issued, disturbed>>

(* The handler returns, raises, or does not exist; a result is posted each time. *)
Handle(w) ==
  /\ pc[w] = "handling"
  /\ Mine(w) # {}
  /\ LET i == Min(Mine(w)) IN
       /\ at' = [at EXCEPT ![w] = i]
       /\ \/ Reply(w, messages[i].task, FALSE)
          \/ messages[i].task \in Handles[w] /\ Reply(w, messages[i].task, TRUE)
  /\ UNCHANGED <<policy, messages, lock, cursor, slot, upTo, gatherVars, issued, disturbed>>

BatchDone(w) ==
  /\ pc[w] = "handling"
  /\ Mine(w) = {}
  /\ Needs(w, "read")
  /\ Goto(w, "acking")
  /\ UNCHANGED <<policy, messages, lock, cursor, slot, at, upTo, job, gatherVars, issued, disturbed, trying>>

WorkerAcked(w) ==
  /\ Advance(w)
  /\ Leave(w, "idle")
  /\ UNCHANGED gatherVars

-----------------------------------------------------------------------------
(* Failures.                                                                   *)

Forget(p) ==
  /\ need' = [need EXCEPT ![p] = {}]
  /\ lawful' = [lawful EXCEPT ![p] = FALSE]
  /\ Quit(p)

(* A bus call has raised.  A worker's reply with ok=True is inside the try     *)
(* block whose except clause replies again with ok=False; everything else      *)
(* leaves run_worker, or returns to whoever called the orchestrator.           *)
Raise(p) ==
  IF p \in Workers /\ trying[p]
    THEN Reply(p, job[p].task, FALSE) /\ UNCHANGED <<at, upTo>>
    ELSE Leave(p, IF p \in Workers THEN "down" ELSE "idle") /\ Forget(p)

(* What a gather has acknowledged by then, nobody returns.                     *)
GiveUp(p, acknowledged) ==
  /\ EndGather(p)
  /\ forgone' = forgone \cup acknowledged
  /\ UNCHANGED collected

(* ChannelDenied. *)
Denied(p) ==
  /\ pc[p] \in {"catching", "posting", "acking"}
  /\ ~Authorized(p)
  /\ Raise(p) /\ GiveUp(p, Acked(p))
  /\ UNCHANGED <<policy, messages, lock, cursor, slot, issued, disturbed>>

Faulty(p) ==
  /\ p \notin Reliable
  /\ Disturb

(* The store raises, or the audit sink does: before the transaction, or inside *)
(* it (rolled back) ...                                                        *)
Fails(p) ==
  /\ pc[p] \in PCs \ {"idle", "looping", "handling", "down", "absent"}
  /\ Faulty(p)
  /\ Raise(p) /\ GiveUp(p, Acked(p))
  /\ Rollback(p)
  /\ UNCHANGED <<policy, messages, cursor, issued>>

(* ... or after it has committed: an append, or the move of a cursor.          *)
FailsLate(p) ==
  /\ Faulty(p)
  /\ \/ /\ pc[p] = "appending"
        /\ Raise(p) /\ GiveUp(p, Acked(p))
        /\ CommitAppend(p, job[p])
        /\ UNCHANGED cursor
     \/ /\ pc[p] = "advancing"
        /\ Raise(p)
        /\ GiveUp(p, IF p \in Orchestrators THEN Acked(p) \cup Answered(p) ELSE {})
        /\ AdvanceCursor(SubjectOf[p], upTo[p])
        /\ UNCHANGED <<messages, lock, slot>>
  /\ UNCHANGED <<policy, issued>>

(* The process is killed inside a call, or run_worker ends; an open            *)
(* transaction is rolled back.                                                 *)
Crash(p) ==
  /\ pc[p] \notin {"idle", "down", "absent"}
  /\ Faulty(p)
  /\ Leave(p, "down")
  /\ Forget(p)
  /\ GiveUp(p, Acked(p))
  /\ Rollback(p)
  /\ UNCHANGED <<policy, messages, cursor, issued>>

Restart(p) ==
  /\ pc[p] = "down"
  /\ Goto(p, "idle")
  /\ UNCHANGED <<busVars, at, upTo, job, gatherVars, issued, disturbed, trying>>

-----------------------------------------------------------------------------
Call(p) == Post(p) \/ Commit(p) \/ CatchUp(p) \/ ReadPage(p) \/ Ack(p) \/ Denied(p)

Orchestrate(o) ==
  \/ \E t \in Tasks : Dispatch(o, t)
  \/ Gather(o) \/ NoteResults(o) \/ GatherEnds(o) \/ GatherAcked(o)
  \/ Restart(o)

Work(w) ==
  \/ RunOnce(w) \/ NothingNew(w) \/ Handle(w) \/ BatchDone(w) \/ WorkerAcked(w)
  \/ Restart(w)

Next ==
  \/ \E q \in Policies : Redeclare(q)
  \/ \E p \in Callers : Call(p) \/ Fails(p) \/ FailsLate(p) \/ Crash(p)
  \/ \E o \in Orchestrators : Orchestrate(o)
  \/ \E w \in Workers : Work(w)

Spec == Init /\ [][Next]_vars

(* A reliable worker keeps running, its caller restarting it when it was       *)
(* denied; an orchestrator is started and called again and again, for whatever *)
(* ids; transactions end.                                                      *)
FairSpec ==
  /\ Spec
  /\ \A w \in Workers \cap Reliable : WF_vars(Work(w) \/ Call(w))
  /\ \A o \in Orchestrators : WF_vars(Orchestrate(o) \/ Call(o))
  /\ \A p \in Callers : WF_vars(Commit(p))

-----------------------------------------------------------------------------
(* a2a.py: "a read without an ack means redelivery, never loss".  Whatever a   *)
(* worker subject has acknowledged and was addressed to it has been answered   *)
(* on the channel, though its processes share one cursor, die, are denied or   *)
(* find calls raising at any point.                                            *)
AckedIsAnswered ==
  \A w \in Workers : \A i \in 1 .. cursor[SubjectOf[w]] :
    /\ messages[i].kind = "task"
    /\ Addressee[messages[i].task] = SubjectOf[w]
    => \E j \in DOMAIN messages :
         /\ messages[j].kind = "result" /\ messages[j].task = messages[i].task
         /\ messages[j].sender = SubjectOf[w]

(* "a read without an ack means redelivery, never loss", for the results: one  *)
(* that its subject has acknowledged is not gone, whatever posts, pages and    *)
(* other readers of the subject came in between.  A gather that was asked for  *)
(* it returned it or has it in hand, but for two ways out that the code leaves *)
(* open: the gather that acknowledged it was asked for other ids, or raised or *)
(* died after that ack.                                                        *)
InHand(t) ==
  \E o \in Orchestrators : t \in acked[o] /\ (t \in wanted[o] => t \in found[o])

NoResultLost ==
  \A o \in Orchestrators : \A i \in 1 .. cursor[SubjectOf[o]] :
    messages[i].kind = "result"
    => messages[i].task \in collected \cup forgone \/ InHand(messages[i].task)

(* "a channel must be declared before anyone can touch it": nothing is posted  *)
(* that no policy in force during the call allowed its sender to post.         *)
PostsWereAllowed == \A p \in Callers : pc[p] = "appending" => lawful[p]

(* "durable (a worker that dies mid-task sees the task on reconnect)": once    *)
(* the channel stays open to all, a task on it that is addressed to a reliable *)
(* worker's subject is in the end answered, and the answer collected by a       *)
(* gather (or given up, as above, by the gather that acknowledged it).          *)
Open == \A p \in Callers : Admits(policy, p, "post") /\ Admits(policy, p, "read")

Awaits(t) ==
  /\ \E i \in DOMAIN messages : messages[i].kind = "task" /\ messages[i].task = t
  /\ \E w \in Workers \cap Reliable : pc[w] # "absent" /\ Addressee[t] = SubjectOf[w]

EventuallyCollected ==
  <>[]Open => \A t \in Tasks : Awaits(t) ~> t \in collected \cup forgone

(* The channel implements the abstract log. *)
Log == INSTANCE ChannelLog WITH Readers <- Subjects, log <- messages, position <- cursor

ImplementsLog == Log!Spec
=============================================================================
