------------------------ MODULE OrchestrationProofs ------------------------
(* For any number of orchestrators, workers, subjects, tasks and pages: the     *)
(* channel is a log, what a worker subject has acknowledged is answered, what   *)
(* an orchestrator's has acknowledged is accounted for, and the only posts are  *)
(* lawful ones.                                                                *)
EXTENDS Orchestration, TLAPS, WellFoundedInduction, SequenceTheorems

USE UndeclaredAssumption, NobodyAssumption, PageSizeAssumption, CallersAssumption,
    RolesAssumption, RoundsAssumption, AsksAssumption, NoJobAssumption, MaxFaultsAssumption

-----------------------------------------------------------------------------
(* The operators. *)

LEMMA MinOf ==
  ASSUME NEW S \in SUBSET Nat, S # {}
  PROVE  Min(S) \in S /\ \A y \in S : Min(S) <= y
<1> DEFINE less == {ss \in Nat \X Nat : ss[1] < ss[2]}
<1>1. IsWellFoundedOn(less, Nat)
  BY NatLessThanWellFounded DEF OpToRel
<1> HIDE DEF less
<1>2. PICK x \in S : \A y \in S : ~(<<y, x>> \in less)
  BY <1>1, WFMin
<1>3. ASSUME NEW y \in S, y < x PROVE FALSE
  <2>1. <<y, x>> \in Nat \X Nat /\ <<y, x>>[1] < <<y, x>>[2]
    BY <1>3
  <2>2. <<y, x>> \in less
    BY <2>1 DEF less
  <2> QED BY <1>2, <2>2
<1>4. \A y \in S : x <= y
  BY <1>3
<1> QED BY <1>4 DEF Min

LEMMA MaxOfTwo ==
  ASSUME NEW a \in Nat, NEW b \in Nat
  PROVE  /\ Max({a, b}) \in {a, b} /\ Max({a, b}) >= a /\ Max({a, b}) >= b
  BY DEF Max

LEMMA PageEnds ==
  ASSUME messages \in Seq(Messages), NEW n \in 0 .. HeadSeq
  PROVE  PageEnd(n) \in n .. HeadSeq
  BY DEF PageEnd, Min, HeadSeq

(* A transaction that commits the row after the last appends it.               *)
LEMMA Appends ==
  ASSUME messages \in Seq(Messages), NEW p \in Callers, slot[p] = Len(messages) + 1,
         NEW m \in Messages, CommitAppend(p, m)
  PROVE  /\ messages' \in Seq(Messages) /\ Len(messages') = Len(messages) + 1
         /\ \A i \in 1 .. Len(messages) : messages'[i] = messages[i]
         /\ messages'[Len(messages) + 1] = m
<1> DEFINE n == Len(messages)
<1>1. n \in Nat /\ DOMAIN messages = 1 .. n
  OBVIOUS
<1>2. DOMAIN messages \cup {slot[p]} = 1 .. (n + 1)
  BY <1>1
<1>3. messages' = [i \in 1 .. (n + 1) |-> IF i = n + 1 THEN m ELSE messages[i]]
  BY <1>2, Zenon DEF CommitAppend
<1>4. \A i \in 1 .. (n + 1) : (IF i = n + 1 THEN m ELSE messages[i]) \in Messages
  BY <1>1
<1>5. messages' \in [1 .. (n + 1) -> Messages]
  BY <1>3, <1>4
<1>6. messages' \in Seq(Messages) /\ Len(messages') = n + 1
  BY <1>1, <1>5
<1> QED BY <1>1, <1>3, <1>6

-----------------------------------------------------------------------------
(* The channel: one append at a time, each after the last row; nobody has read  *)
(* or acknowledged what is not there.                                          *)
ChannelOK ==
  /\ messages \in Seq(Messages)
  /\ pc \in [Callers -> PCs]
  /\ job \in [Callers -> Messages \cup {NoJob}]
  /\ lock \in Callers \cup {Nobody}
  /\ slot \in [Callers -> Nat]
  /\ cursor \in [Subjects -> Nat]
  /\ at \in [Callers -> Nat] /\ upTo \in [Callers -> Nat]
  /\ \A p \in Callers : pc[p] = "appending" <=> lock = p
  /\ \A p \in Callers : slot[p] = IF lock = p THEN Len(messages) + 1 ELSE 0
  /\ \A p \in Callers : pc[p] \in {"posting", "appending"} => job[p] \in Messages
  /\ \A p \in Callers : at[p] <= upTo[p] /\ upTo[p] <= Len(messages)
  /\ \A s \in Subjects : cursor[s] <= Len(messages)

(* The try block is about a reply.                                             *)
TryingOK ==
  /\ trying \in [Workers -> BOOLEAN]
  /\ \A w \in Workers : trying[w] => pc[w] \in {"posting", "appending"}

LEMMA InitChannel == Init => ChannelOK
  BY DEF Init, BusInit, ChannelOK, PCs, Messages

LEMMA SubjectsOf == \A p \in Callers : SubjectOf[p] \in Subjects
  BY DEF Subjects

LEMMA OwnMessage ==
  ASSUME NEW p \in Callers, NEW k \in {"task", "result"}, NEW t \in Tasks
  PROVE  [kind |-> k, task |-> t, sender |-> SubjectOf[p]] \in Messages
  BY SubjectsOf DEF Messages

(* The message a batch goes on with.                                           *)
LEMMA NextOfBatch ==
  ASSUME ChannelOK, NEW w \in Callers, Mine(w) # {}
  PROVE  /\ Min(Mine(w)) \in Mine(w) /\ Min(Mine(w)) \in (at[w] + 1) .. upTo[w]
         /\ \A i \in Mine(w) : Min(Mine(w)) <= i
         /\ Min(Mine(w)) \in 1 .. Len(messages)
         /\ messages[Min(Mine(w))] \in Messages
<1>1. Mine(w) \in SUBSET Nat /\ Mine(w) \subseteq (at[w] + 1) .. upTo[w]
  BY DEF ChannelOK, Mine, Batch
<1>2. Min(Mine(w)) \in Mine(w) /\ \A i \in Mine(w) : Min(Mine(w)) <= i
  BY <1>1, MinOf
<1> QED BY <1>1, <1>2 DEF ChannelOK

(* Raising leaves the channel's side to the caller of it.                       *)
LEMMA RaiseMoves ==
  ASSUME ChannelOK, TryingOK, NEW p \in Callers, Raise(p)
  PROVE  /\ pc' \in [Callers -> PCs] /\ job' \in [Callers -> Messages \cup {NoJob}]
         /\ at' \in [Callers -> Nat] /\ upTo' \in [Callers -> Nat]
         /\ \A q \in Callers : q # p => pc'[q] = pc[q] /\ job'[q] = job[q]
         /\ \A q \in Callers : at'[q] <= upTo'[q] /\ upTo'[q] <= upTo[q]
         /\ pc'[p] # "appending" /\ (pc'[p] = "posting" => job'[p] \in Messages)
<1>1. CASE p \in Workers /\ trying[p]
  <2>1. job[p] \in Messages /\ job[p].task \in Tasks
    BY <1>1 DEF ChannelOK, TryingOK, Messages
  <2>2. job' = [job EXCEPT ![p] = [kind |-> "result", task |-> job[p].task, sender |-> SubjectOf[p]]]
        /\ pc' = [pc EXCEPT ![p] = "posting"] /\ UNCHANGED <<at, upTo>>
    BY <1>1 DEF Raise, Reply, Goto
  <2> QED BY <2>1, <2>2, OwnMessage DEF ChannelOK, PCs
<1>2. CASE ~(p \in Workers /\ trying[p])
  <2>1. PICK l \in {"idle", "down"} :
          /\ pc' = [pc EXCEPT ![p] = l] /\ job' = [job EXCEPT ![p] = NoJob]
          /\ at' = [at EXCEPT ![p] = 0] /\ upTo' = [upTo EXCEPT ![p] = 0]
    BY <1>2 DEF Raise, Leave, Goto, Forget, Quit
  <2> QED BY <2>1 DEF ChannelOK, PCs
<1> QED BY <1>1, <1>2

(* What callers do to their positions and messages outside an append.          *)
LEMMA Quiet ==
  ASSUME ChannelOK,
         UNCHANGED <<messages, lock, slot>>,
         pc' \in [Callers -> PCs], job' \in [Callers -> Messages \cup {NoJob}],
         at' \in [Callers -> Nat], upTo' \in [Callers -> Nat],
         \A p \in Callers : at'[p] <= upTo'[p] /\ upTo'[p] <= Len(messages),
         \A p \in Callers : pc'[p] = "appending" <=> pc[p] = "appending",
         \A p \in Callers : pc'[p] \in {"posting", "appending"} => job'[p] \in Messages,
         cursor' \in [Subjects -> Nat],
         \A s \in Subjects : cursor'[s] <= Len(messages)
  PROVE  ChannelOK'
  BY DEF ChannelOK

LEMMA PostKeeps == ASSUME ChannelOK, NEW p \in Callers, Post(p) PROVE ChannelOK'
  BY DEF Post, BeginAppend, LockFree, Goto, ChannelOK, PCs

LEMMA CommitKeeps ==
  ASSUME ChannelOK, NEW p \in Callers, pc[p] = "appending", CommitAppend(p, job[p]),
         UNCHANGED cursor,
         pc' \in [Callers -> PCs], job' \in [Callers -> Messages \cup {NoJob}],
         at' \in [Callers -> Nat], upTo' \in [Callers -> Nat],
         \A q \in Callers : at'[q] <= upTo'[q] /\ upTo'[q] <= upTo[q],
         \A q \in Callers : q # p => pc'[q] = pc[q] /\ job'[q] = job[q],
         pc'[p] # "appending", pc'[p] = "posting" => job'[p] \in Messages
  PROVE  ChannelOK'
<1>1. /\ messages' \in Seq(Messages) /\ Len(messages') = Len(messages) + 1
      /\ lock' = Nobody /\ slot' = [slot EXCEPT ![p] = 0] /\ lock = p
  BY Appends DEF ChannelOK, CommitAppend
<1>2. \A q \in Callers : pc'[q] # "appending"
  BY <1>1 DEF ChannelOK
<1>3. slot' \in [Callers -> Nat] /\ \A q \in Callers : slot'[q] = 0
  BY <1>1 DEF ChannelOK
<1>4. \A q \in Callers : pc'[q] = "posting" => job'[q] \in Messages
  BY DEF ChannelOK
<1>5. /\ \A q \in Callers : at'[q] <= upTo'[q] /\ upTo'[q] <= Len(messages')
      /\ \A s \in Subjects : cursor'[s] <= Len(messages')
      /\ cursor' \in [Subjects -> Nat]
  BY <1>1 DEF ChannelOK
<1> QED BY <1>1, <1>2, <1>3, <1>4, <1>5 DEF ChannelOK

LEMMA RollbackKeeps ==
  ASSUME ChannelOK, NEW p \in Callers, Rollback(p),
         UNCHANGED <<messages, cursor>>,
         pc' \in [Callers -> PCs], job' \in [Callers -> Messages \cup {NoJob}],
         at' \in [Callers -> Nat], upTo' \in [Callers -> Nat],
         \A q \in Callers : at'[q] <= upTo'[q] /\ upTo'[q] <= upTo[q],
         \A q \in Callers : q # p => pc'[q] = pc[q] /\ job'[q] = job[q],
         pc'[p] # "appending", pc'[p] = "posting" => job'[p] \in Messages
  PROVE  ChannelOK'
<1>1. /\ lock' \in Callers \cup {Nobody}
      /\ \A q \in Callers : pc'[q] = "appending" <=> lock' = q
  BY DEF ChannelOK, Rollback
<1>2. slot' \in [Callers -> Nat]
      /\ \A q \in Callers : slot'[q] = IF lock' = q THEN Len(messages') + 1 ELSE 0
  BY DEF ChannelOK, Rollback
<1>3. \A q \in Callers : pc'[q] \in {"posting", "appending"} => job'[q] \in Messages
  BY DEF ChannelOK
<1>4. /\ \A q \in Callers : at'[q] <= upTo'[q] /\ upTo'[q] <= Len(messages')
      /\ \A s \in Subjects : cursor'[s] <= Len(messages')
      /\ cursor' \in [Subjects -> Nat] /\ messages' \in Seq(Messages)
  BY DEF ChannelOK
<1> QED BY <1>1, <1>2, <1>3, <1>4 DEF ChannelOK

(* The cursor moves within the log.                                            *)
Moving(p) == pc[p] = "advancing" /\ AdvanceCursor(SubjectOf[p], upTo[p])

LEMMA AdvanceMoves ==
  ASSUME ChannelOK, NEW p \in Callers, Moving(p)
  PROVE  /\ pc[p] = "advancing"
         /\ cursor' \in [Subjects -> Nat]
         /\ \A s \in Subjects : cursor'[s] <= Len(messages)
         /\ \A s \in Subjects : cursor'[s] \in {cursor[s], upTo[p]} /\ cursor'[s] >= cursor[s]
         /\ \A s \in Subjects : s # SubjectOf[p] => cursor'[s] = cursor[s]
<1>1. /\ SubjectOf[p] \in Subjects /\ cursor[SubjectOf[p]] \in Nat /\ upTo[p] \in Nat
      /\ upTo[p] <= Len(messages) /\ cursor[SubjectOf[p]] <= Len(messages)
  BY SubjectsOf DEF ChannelOK
<1> DEFINE m == Max({cursor[SubjectOf[p]], upTo[p]})
<1>2. m \in {cursor[SubjectOf[p]], upTo[p]} /\ m >= cursor[SubjectOf[p]]
  BY <1>1, MaxOfTwo
<1>3. cursor' = [cursor EXCEPT ![SubjectOf[p]] = m]
  BY DEF Moving, AdvanceCursor
<1> HIDE DEF m
<1> QED BY <1>1, <1>2, <1>3 DEF Moving, ChannelOK

LEMMA LeaveKeeps ==
  ASSUME ChannelOK, NEW p \in Callers, Moving(p), NEW l \in {"idle", "looping"}, Leave(p, l),
         UNCHANGED <<messages, lock, slot, job>>
  PROVE  ChannelOK'
<1>1. cursor' \in [Subjects -> Nat] /\ \A s \in Subjects : cursor'[s] <= Len(messages)
  BY AdvanceMoves
<1>2. /\ pc' = [pc EXCEPT ![p] = l] /\ pc[p] = "advancing"
      /\ at' = [at EXCEPT ![p] = 0] /\ upTo' = [upTo EXCEPT ![p] = 0]
  BY DEF Leave, Goto, Moving
<1>3. /\ pc' \in [Callers -> PCs] /\ job' \in [Callers -> Messages \cup {NoJob}]
      /\ \A q \in Callers : pc'[q] = "appending" <=> pc[q] = "appending"
      /\ \A q \in Callers : pc'[q] \in {"posting", "appending"} => job'[q] \in Messages
  BY <1>2 DEF ChannelOK, PCs
<1>4. /\ at' \in [Callers -> Nat] /\ upTo' \in [Callers -> Nat]
      /\ \A q \in Callers : at'[q] <= upTo'[q] /\ upTo'[q] <= Len(messages)
  BY <1>2 DEF ChannelOK
<1> QED BY <1>1, <1>3, <1>4, Quiet

LEMMA ChannelKept == ChannelOK /\ TryingOK /\ [Next]_vars => ChannelOK'
<1> SUFFICES ASSUME ChannelOK, TryingOK, [Next]_vars PROVE ChannelOK'
  OBVIOUS
<1>1. ASSUME NEW q \in Policies, Redeclare(q) PROVE ChannelOK'
  BY <1>1 DEF Redeclare, Declare, ChannelOK
<1>2. ASSUME NEW p \in Callers, Commit(p) PROVE ChannelOK'
  <2>1. pc' = [pc EXCEPT ![p] = Posted(p)] /\ job' = [job EXCEPT ![p] = NoJob]
        /\ UNCHANGED <<at, upTo, cursor>> /\ pc[p] = "appending" /\ CommitAppend(p, job[p])
    BY <1>2 DEF Commit, Goto, Quit
  <2>2. Posted(p) \in {"handling", "idle"}
    BY DEF Posted
  <2>3. /\ pc' \in [Callers -> PCs] /\ job' \in [Callers -> Messages \cup {NoJob}]
        /\ \A q \in Callers : q # p => pc'[q] = pc[q] /\ job'[q] = job[q]
        /\ pc'[p] # "appending" /\ pc'[p] # "posting"
    BY <2>1, <2>2 DEF ChannelOK, PCs
  <2>4. /\ at' \in [Callers -> Nat] /\ upTo' \in [Callers -> Nat]
        /\ \A q \in Callers : at'[q] <= upTo'[q] /\ upTo'[q] <= upTo[q]
    BY <2>1 DEF ChannelOK
  <2> QED BY <2>1, <2>3, <2>4, CommitKeeps
<1>3. ASSUME NEW p \in Callers, CatchUp(p) PROVE ChannelOK'
  BY <1>3, SubjectsOf DEF CatchUp, Goto, ChannelOK, PCs
<1>4. ASSUME NEW p \in Callers, ReadPage(p) PROVE ChannelOK'
  <2>1. upTo[p] \in 0 .. HeadSeq /\ PageEnd(upTo[p]) \in upTo[p] .. HeadSeq
    BY <1>4, PageEnds DEF ReadPage, ChannelOK, HeadSeq
  <2>2. upTo' = [upTo EXCEPT ![p] = PageEnd(upTo[p])] /\ UNCHANGED <<busVars, pc, at, job>>
    BY <1>4 DEF ReadPage
  <2> QED BY <2>1, <2>2 DEF busVars, ChannelOK, HeadSeq
<1>5. ASSUME NEW p \in Callers, Ack(p) PROVE ChannelOK'
  BY <1>5 DEF Ack, Goto, ChannelOK, PCs
<1>6. ASSUME NEW p \in Callers, Denied(p) PROVE ChannelOK'
  <2>1. pc[p] # "appending" /\ UNCHANGED <<messages, lock, slot, cursor>> /\ Raise(p)
    BY <1>6 DEF Denied
  <2>2. /\ pc' \in [Callers -> PCs] /\ job' \in [Callers -> Messages \cup {NoJob}]
        /\ at' \in [Callers -> Nat] /\ upTo' \in [Callers -> Nat]
        /\ \A q \in Callers : q # p => pc'[q] = pc[q] /\ job'[q] = job[q]
        /\ \A q \in Callers : at'[q] <= upTo'[q] /\ upTo'[q] <= upTo[q]
        /\ pc'[p] # "appending" /\ (pc'[p] = "posting" => job'[p] \in Messages)
    BY <2>1, RaiseMoves
  <2>3. \A q \in Callers : pc'[q] = "appending" <=> pc[q] = "appending"
    BY <2>1, <2>2
  <2>4. \A q \in Callers : pc'[q] \in {"posting", "appending"} => job'[q] \in Messages
    BY <2>2 DEF ChannelOK
  <2>5. \A q \in Callers : at'[q] <= upTo'[q] /\ upTo'[q] <= Len(messages)
    BY <2>2 DEF ChannelOK
  <2>6. cursor' \in [Subjects -> Nat] /\ \A s \in Subjects : cursor'[s] <= Len(messages)
    BY <2>1 DEF ChannelOK
  <2> QED BY <2>1, <2>2, <2>3, <2>4, <2>5, <2>6, Quiet
<1>7. ASSUME NEW p \in Callers, Fails(p) PROVE ChannelOK'
  BY <1>7, RaiseMoves, RollbackKeeps DEF Fails
<1>21. ASSUME NEW p \in Callers, FailsLate(p) PROVE ChannelOK'
  <2>1. CASE pc[p] = "appending" /\ CommitAppend(p, job[p]) /\ UNCHANGED cursor
    BY <1>21, <2>1, RaiseMoves, CommitKeeps DEF FailsLate
  <2>2. CASE Moving(p) /\ UNCHANGED <<messages, lock, slot>>
    <3>1. /\ pc' \in [Callers -> PCs] /\ job' \in [Callers -> Messages \cup {NoJob}]
          /\ at' \in [Callers -> Nat] /\ upTo' \in [Callers -> Nat]
          /\ \A q \in Callers : q # p => pc'[q] = pc[q] /\ job'[q] = job[q]
          /\ \A q \in Callers : at'[q] <= upTo'[q] /\ upTo'[q] <= upTo[q]
          /\ pc'[p] # "appending" /\ (pc'[p] = "posting" => job'[p] \in Messages)
      BY <1>21, RaiseMoves DEF FailsLate
    <3>2. cursor' \in [Subjects -> Nat] /\ \A s \in Subjects : cursor'[s] <= Len(messages)
      BY <2>2, AdvanceMoves
    <3>3. /\ \A q \in Callers : pc'[q] = "appending" <=> pc[q] = "appending"
          /\ \A q \in Callers : pc'[q] \in {"posting", "appending"} => job'[q] \in Messages
      BY <2>2, <3>1 DEF Moving, ChannelOK
    <3>4. \A q \in Callers : at'[q] <= upTo'[q] /\ upTo'[q] <= Len(messages)
      BY <3>1 DEF ChannelOK
    <3> QED BY <2>2, <3>1, <3>2, <3>3, <3>4, Quiet
  <2> QED BY <1>21, <2>1, <2>2 DEF FailsLate, Moving
<1>8. ASSUME NEW o \in Orchestrators, NEW t \in Tasks, Dispatch(o, t) PROVE ChannelOK'
  BY <1>8, OwnMessage DEF Dispatch, Goto, ChannelOK, PCs
<1>9. ASSUME NEW o \in Orchestrators, Gather(o) \/ NoteResults(o) PROVE ChannelOK'
  <2>1. PICK l \in {"catching", "acking"} : pc' = [pc EXCEPT ![o] = l]
    BY <1>9 DEF Gather, NoteResults, Goto
  <2>2. pc[o] # "appending" /\ UNCHANGED <<messages, lock, slot, cursor, at, upTo, job>>
    BY <1>9 DEF Gather, NoteResults
  <2> QED BY <2>1, <2>2 DEF ChannelOK, PCs
<1>10. ASSUME NEW o \in Orchestrators, GatherEnds(o) PROVE ChannelOK'
  BY <1>10 DEF GatherEnds, Return, Leave, Goto, busVars, ChannelOK, PCs
<1>11. ASSUME NEW o \in Orchestrators, GatherAcked(o) PROVE ChannelOK'
  <2>1. PICK l \in {"idle", "looping"} : Leave(o, l)
    BY <1>11 DEF GatherAcked, Return
  <2>2. Moving(o) /\ o \in Callers /\ UNCHANGED <<messages, lock, slot, job>>
    BY <1>11 DEF GatherAcked, Advance, Moving
  <2> QED BY <2>1, <2>2, LeaveKeeps
<1>12. ASSUME NEW w \in Callers, RunOnce(w) \/ BatchDone(w) \/ Restart(w) PROVE ChannelOK'
  <2>1. PICK l \in {"catching", "acking", "idle"} :
          /\ pc' = [pc EXCEPT ![w] = l] /\ pc[w] # "appending"
          /\ UNCHANGED <<messages, lock, slot, cursor, at, upTo, job>>
    BY <1>12 DEF RunOnce, BatchDone, Restart, Goto, busVars
  <2> QED BY <2>1 DEF ChannelOK, PCs
<1>13. ASSUME NEW w \in Workers, NothingNew(w) PROVE ChannelOK'
  <2>1. CASE Leave(w, "idle")
    BY <1>13, <2>1 DEF NothingNew, Leave, Goto, busVars, ChannelOK, PCs
  <2>2. CASE Goto(w, "handling") /\ UNCHANGED <<at, upTo>>
    BY <1>13, <2>2 DEF NothingNew, Goto, busVars, ChannelOK, PCs
  <2> QED BY <1>13, <2>1, <2>2 DEF NothingNew
<1>14. ASSUME NEW w \in Workers, Handle(w) PROVE ChannelOK'
  <2> DEFINE i == Min(Mine(w))
  <2>1. i \in (at[w] + 1) .. upTo[w] /\ messages[i] \in Messages
    BY <1>14, NextOfBatch DEF Handle
  <2>2. /\ at' = [at EXCEPT ![w] = i]
        /\ job' = [job EXCEPT ![w] = [kind |-> "result", task |-> messages[i].task,
                                      sender |-> SubjectOf[w]]]
        /\ pc[w] = "handling" /\ pc' = [pc EXCEPT ![w] = "posting"]
        /\ UNCHANGED <<messages, lock, slot, cursor, upTo>>
    BY <1>14 DEF Handle, Reply, Goto
  <2>3. [kind |-> "result", task |-> messages[i].task, sender |-> SubjectOf[w]] \in Messages
    BY <2>1, OwnMessage DEF Messages
  <2> HIDE DEF i
  <2> QED BY <2>1, <2>2, <2>3 DEF ChannelOK, PCs
<1>15. ASSUME NEW w \in Workers, WorkerAcked(w) PROVE ChannelOK'
  <2>1. /\ Leave(w, "idle") /\ Moving(w) /\ w \in Callers
        /\ UNCHANGED <<messages, lock, slot, job>>
    BY <1>15 DEF WorkerAcked, Advance, Moving
  <2> QED BY <2>1, LeaveKeeps
<1>16. ASSUME NEW w \in Callers, Crash(w) PROVE ChannelOK'
  <2>1. /\ pc' = [pc EXCEPT ![w] = "down"] /\ job' = [job EXCEPT ![w] = NoJob]
        /\ at' = [at EXCEPT ![w] = 0] /\ upTo' = [upTo EXCEPT ![w] = 0]
        /\ Rollback(w) /\ UNCHANGED <<messages, cursor>>
    BY <1>16 DEF Crash, Leave, Goto, Forget, Quit
  <2>2. /\ pc' \in [Callers -> PCs] /\ job' \in [Callers -> Messages \cup {NoJob}]
        /\ \A q \in Callers : q # w => pc'[q] = pc[q] /\ job'[q] = job[q]
        /\ pc'[w] # "appending" /\ pc'[w] # "posting"
    BY <2>1 DEF ChannelOK, PCs
  <2>3. /\ at' \in [Callers -> Nat] /\ upTo' \in [Callers -> Nat]
        /\ \A q \in Callers : at'[q] <= upTo'[q] /\ upTo'[q] <= upTo[q]
    BY <2>1 DEF ChannelOK
  <2> QED BY <2>1, <2>2, <2>3, RollbackKeeps
<1>17. CASE UNCHANGED vars
  BY <1>17 DEF vars, busVars, callVars, ChannelOK
<1>18. ASSUME NEW p \in Callers, Call(p) PROVE ChannelOK'
  BY <1>18, <1>2, <1>3, <1>4, <1>5, <1>6, PostKeeps DEF Call
<1>19. ASSUME NEW o \in Orchestrators, Orchestrate(o) PROVE ChannelOK'
  BY <1>19, <1>8, <1>9, <1>10, <1>11, <1>12 DEF Orchestrate
<1>20. ASSUME NEW w \in Workers, Work(w) PROVE ChannelOK'
  BY <1>20, <1>12, <1>13, <1>14, <1>15 DEF Work
<1> QED BY <1>1, <1>7, <1>16, <1>17, <1>18, <1>19, <1>20, <1>21 DEF Next

-----------------------------------------------------------------------------
(* One caller moves at a time.                                                 *)
Moves(p) == Call(p) \/ Fails(p) \/ FailsLate(p) \/ Crash(p)

StepOf(p) ==
  \/ Moves(p)
  \/ p \in Orchestrators /\ Orchestrate(p)
  \/ p \in Workers /\ Work(p)

LEMMA WhoMoves ==
  ASSUME [Next]_vars
  PROVE  \/ \E p \in Callers : StepOf(p)
         \/ \E q \in Policies : Redeclare(q)
         \/ UNCHANGED vars
  BY Zenon DEF Next, StepOf, Moves

(* The rest of a caller's state, which only it changes.                        *)
LEMMA Frame ==
  ASSUME ChannelOK, NEW p \in Callers, StepOf(p), NEW q \in Callers, q # p
  PROVE  pc'[q] = pc[q] /\ at'[q] = at[q] /\ upTo'[q] = upTo[q] /\ job'[q] = job[q]
<1>1. CASE Call(p)
  BY <1>1 DEF Call, Post, Commit, CatchUp, ReadPage, Ack, Denied, Raise, Reply, Forget, Quit,
              Leave, Goto, busVars, ChannelOK
<1>2. CASE Fails(p) \/ FailsLate(p) \/ Crash(p)
  BY <1>2 DEF Fails, FailsLate, Crash, Raise, Reply, Forget, Quit, Leave, Goto, ChannelOK
<1>3. CASE p \in Orchestrators /\ Orchestrate(p)
  BY <1>3 DEF Orchestrate, Dispatch, Gather, GatherEnds, NoteResults, GatherAcked, Restart, Return,
              Advance, Leave, Goto, ChannelOK
<1>4. CASE p \in Workers /\ Work(p)
  BY <1>4 DEF Work, RunOnce, NothingNew, Handle, BatchDone, WorkerAcked, Restart, Reply,
              Advance, Leave, Goto, ChannelOK
<1> QED BY <1>1, <1>2, <1>3, <1>4 DEF StepOf, Moves

(* Rows are only ever added.                                                   *)
LEMMA LogGrows ==
  ASSUME ChannelOK, [Next]_vars
  PROVE  \/ UNCHANGED messages
         \/ \E p \in Callers :
              /\ pc[p] = "appending" /\ job[p] \in Messages
              /\ messages' \in Seq(Messages) /\ Len(messages') = Len(messages) + 1
              /\ \A i \in 1 .. Len(messages) : messages'[i] = messages[i]
              /\ messages'[Len(messages) + 1] = job[p]
              /\ UNCHANGED <<cursor, issued>>
<1>1. ASSUME NEW p \in Callers, pc[p] = "appending", CommitAppend(p, job[p])
      PROVE  /\ job[p] \in Messages
             /\ messages' \in Seq(Messages) /\ Len(messages') = Len(messages) + 1
             /\ \A i \in 1 .. Len(messages) : messages'[i] = messages[i]
             /\ messages'[Len(messages) + 1] = job[p]
  BY <1>1, Appends DEF ChannelOK
<1>2. ASSUME NEW p \in Callers, Commit(p) \/ FailsLate(p)
      PROVE  \/ UNCHANGED messages
             \/ /\ pc[p] = "appending" /\ CommitAppend(p, job[p])
                /\ UNCHANGED <<cursor, issued>>
  BY <1>2 DEF Commit, FailsLate
<1>3. ASSUME NEW p \in Callers, Moves(p), ~Commit(p), ~FailsLate(p) PROVE UNCHANGED messages
  BY <1>3 DEF Moves, Call, Post, CatchUp, ReadPage, Ack, Denied, Fails, Crash, busVars
<1>4. ASSUME NEW o \in Orchestrators, Orchestrate(o) PROVE UNCHANGED messages
  BY <1>4 DEF Orchestrate, Dispatch, Gather, GatherEnds, NoteResults, GatherAcked, Restart, Advance, busVars
<1>5. ASSUME NEW w \in Workers, Work(w) PROVE UNCHANGED messages
  BY <1>5 DEF Work, RunOnce, NothingNew, Handle, BatchDone, WorkerAcked, Restart, Advance, busVars
<1>6. CASE \E q \in Policies : Redeclare(q)
  BY <1>6 DEF Redeclare, Declare
<1>7. CASE UNCHANGED vars
  BY <1>7 DEF vars, busVars
<1>8. ASSUME NEW p \in Callers, Commit(p) \/ FailsLate(p), messages' # messages
      PROVE  /\ pc[p] = "appending" /\ job[p] \in Messages
             /\ messages' \in Seq(Messages) /\ Len(messages') = Len(messages) + 1
             /\ \A i \in 1 .. Len(messages) : messages'[i] = messages[i]
             /\ messages'[Len(messages) + 1] = job[p]
             /\ UNCHANGED <<cursor, issued>>
  BY <1>1, <1>2, <1>8
<1> QED BY <1>3, <1>4, <1>5, <1>6, <1>7, <1>8, WhoMoves DEF StepOf

-----------------------------------------------------------------------------
(* What the log is about, and the rounds of a gather.                          *)
LEMMA InitTrying == Init => TryingOK
<1> SUFFICES ASSUME Init PROVE TryingOK
  OBVIOUS
<1>1. trying = [w \in Workers |-> FALSE]
  BY DEF Init
<1> QED BY <1>1, Zenon DEF TryingOK

LEMMA TryingStep == ChannelOK /\ TryingOK /\ [Next]_vars => TryingOK'
<1> SUFFICES ASSUME ChannelOK, TryingOK, [Next]_vars PROVE TryingOK'
  OBVIOUS
<1>1. trying' \in [Workers -> BOOLEAN]
  <2>1. ASSUME NEW p, Quit(p) PROVE trying' \in [Workers -> BOOLEAN]
    <3>1. \A w \in Workers : (trying[w] /\ w # p) \in BOOLEAN
      OBVIOUS
    <3> QED BY <2>1, <3>1, Zenon DEF Quit
  <2>2. ASSUME NEW p \in Workers, NEW t, NEW ok \in BOOLEAN, Reply(p, t, ok)
        PROVE  trying' \in [Workers -> BOOLEAN]
    BY <2>2, Zenon DEF Reply, TryingOK
  <2>3. CASE UNCHANGED trying
    BY <2>3, Zenon DEF TryingOK
  <2>4. ASSUME NEW p \in Callers, Raise(p) PROVE trying' \in [Workers -> BOOLEAN]
    BY <2>1, <2>2, <2>4, Zenon DEF Raise, Forget
  <2>5. ASSUME NEW p \in Callers, Moves(p) PROVE trying' \in [Workers -> BOOLEAN]
    <3>1. CASE Call(p)
      BY <2>1, <2>3, <2>4, <3>1, Zenon DEF Call, Post, Commit, CatchUp, ReadPage, Ack, Denied
    <3>2. CASE Fails(p) \/ FailsLate(p)
      BY <2>4, <3>2, Zenon DEF Fails, FailsLate
    <3>3. CASE Crash(p)
      BY <2>1, <3>3, Zenon DEF Crash, Forget
    <3> QED BY <2>5, <3>1, <3>2, <3>3 DEF Moves
  <2>6. ASSUME NEW o \in Orchestrators, Orchestrate(o) PROVE UNCHANGED trying
    BY <2>6, Zenon DEF Orchestrate, Dispatch, Gather, GatherEnds, NoteResults, GatherAcked, Restart, Advance
  <2>7. ASSUME NEW w \in Workers, Work(w) PROVE trying' \in [Workers -> BOOLEAN]
    BY <2>1, <2>2, <2>3, <2>7, Zenon
       DEF Work, RunOnce, NothingNew, Handle, BatchDone, WorkerAcked, Restart, Forget, Advance
  <2>8. ASSUME NEW q \in Policies, Redeclare(q) PROVE UNCHANGED trying
    BY <2>8, Zenon DEF Redeclare
  <2>9. UNCHANGED vars => UNCHANGED trying
    BY DEF vars, callVars
  <2> QED BY <2>3, <2>4, <2>5, <2>6, <2>7, <2>8, <2>9, WhoMoves, Zenon DEF StepOf
<1>2. ASSUME NEW w \in Workers, trying'[w] PROVE pc'[w] \in {"posting", "appending"}
  <2>1. w \in Callers /\ (trying[w] => pc[w] \in {"posting", "appending"})
    BY DEF TryingOK
  <2>2. ASSUME NEW p \in Callers, p # w, StepOf(p) PROVE trying'[w] => trying[w]
    <3>1. CASE Moves(p)
      BY <2>2, <3>1 DEF Moves, Call, Post, Commit, CatchUp, ReadPage, Ack, Denied, Fails, FailsLate, Crash, Raise, Reply,
                        Forget, Quit, TryingOK
    <3>2. CASE p \in Orchestrators /\ Orchestrate(p)
      BY <3>2 DEF Orchestrate, Dispatch, Gather, GatherEnds, NoteResults, GatherAcked, Restart, Advance
    <3>3. CASE p \in Workers /\ Work(p)
      BY <2>2, <3>3 DEF Work, RunOnce, NothingNew, Handle, BatchDone, WorkerAcked, Restart,
                        Reply, Forget, Quit, Advance, TryingOK
    <3> QED BY <2>2, <3>1, <3>2, <3>3 DEF StepOf
  <2>3. CASE StepOf(w)
    <3>1. CASE Moves(w)
      BY <1>2, <2>1, <3>1 DEF Moves, Call, Post, Commit, CatchUp, ReadPage, Ack, Denied, Fails, FailsLate, Crash, Raise, Reply,
                        Forget, Quit, Goto, Leave, TryingOK, ChannelOK, busVars
    <3>2. CASE Work(w)
      BY <1>2, <2>1, <3>2 DEF Work, RunOnce, NothingNew, Handle, BatchDone, WorkerAcked, Restart,
                        Reply, Forget, Quit, Goto, Leave, Advance, TryingOK, ChannelOK, busVars
    <3> QED BY <2>3, <3>1, <3>2 DEF StepOf
  <2>4. CASE UNCHANGED <<pc, trying>>
    BY <1>2, <2>1, <2>4
  <2> QED BY <1>2, <2>1, <2>2, <2>3, <2>4, Frame, WhoMoves DEF Redeclare, vars, callVars
<1> QED BY <1>1, <1>2 DEF TryingOK

(* What a gather keeps.                                                        *)
FunctionsOK ==
  /\ round \in [Orchestrators -> Nat]
  /\ wanted \in [Orchestrators -> SUBSET Tasks]
  /\ found \in [Orchestrators -> SUBSET Tasks]
  /\ acked \in [Orchestrators -> SUBSET Tasks]

LEMMA AnsweredTasks == ASSUME ChannelOK, NEW p \in Callers PROVE Answered(p) \subseteq Tasks
<1> SUFFICES ASSUME NEW i \in Batch(p) PROVE messages[i].task \in Tasks
  BY DEF Answered
<1>1. i \in 1 .. Len(messages)
  BY DEF Batch, ChannelOK
<1>2. messages[i] \in Messages
  BY <1>1 DEF ChannelOK
<1> QED BY <1>2 DEF Messages

(* A call of an orchestrator that raises, or dies, gives up what it has         *)
(* acknowledged.                                                               *)
GivesUp(o) ==
  /\ o \in Orchestrators /\ pc'[o] \in {"idle", "down"}
  /\ \E acknowledged : /\ GiveUp(o, acknowledged) /\ acked[o] \subseteq acknowledged
                       /\ acknowledged \subseteq acked[o] \cup Answered(o)
                       /\ ~UNCHANGED cursor => Answered(o) \subseteq acknowledged

(* Whose gather moves, and how.                                                *)
LEMMA GatherMoves ==
  ASSUME ChannelOK, FunctionsOK, NEW p \in Callers, StepOf(p)
  PROVE  \/ UNCHANGED gatherVars
         \/ p \in Orchestrators /\ (Gather(p) \/ NoteResults(p) \/ GatherEnds(p) \/ GatherAcked(p))
         \/ GivesUp(p)
<1>1. ASSUME NEW w \in Workers, GiveUp(w, {}) PROVE UNCHANGED gatherVars
  <2>1. w \notin Orchestrators
    OBVIOUS
  <2>2. round' = round /\ wanted' = wanted /\ found' = found /\ acked' = acked
    BY <1>1, <2>1 DEF GiveUp, EndGather, FunctionsOK
  <2>3. collected' = collected /\ forgone' = forgone
    BY <1>1 DEF GiveUp
  <2> QED BY <2>2, <2>3 DEF gatherVars
<1>2. CASE Call(p) /\ ~Denied(p)
  BY <1>2 DEF Call, Post, Commit, CatchUp, ReadPage, Ack
<1>3. CASE p \in Workers /\ (Denied(p) \/ Fails(p) \/ FailsLate(p) \/ Crash(p))
  <2>1. p \notin Orchestrators
    BY <1>3
  <2>2. GiveUp(p, {})
    BY <1>3, <2>1 DEF Denied, Fails, FailsLate, Crash, Acked
  <2> QED BY <1>1, <1>3, <2>2
<1>4. CASE p \in Orchestrators /\ (Denied(p) \/ Fails(p) \/ FailsLate(p) \/ Crash(p))
  <2>1. Acked(p) = acked[p] /\ p \notin Workers
    BY <1>4 DEF Acked
  <2>2. Raise(p) => pc'[p] = "idle"
    BY <2>1 DEF Raise, Leave, Goto, ChannelOK
  <2>3. CASE Denied(p) \/ Fails(p)
    <3>1. GiveUp(p, acked[p]) /\ UNCHANGED cursor /\ pc'[p] = "idle"
      BY <2>1, <2>2, <2>3 DEF Denied, Fails
    <3> QED BY <1>4, <3>1 DEF GivesUp
  <2>4. CASE Crash(p)
    <3>1. GiveUp(p, acked[p]) /\ UNCHANGED cursor /\ pc'[p] = "down"
      BY <2>1, <2>4 DEF Crash, Leave, Goto, ChannelOK
    <3> QED BY <1>4, <3>1 DEF GivesUp
  <2>5. CASE FailsLate(p)
    <3>1. pc'[p] = "idle"
      BY <2>2, <2>5 DEF FailsLate
    <3>2. CASE GiveUp(p, acked[p]) /\ UNCHANGED cursor
      BY <1>4, <3>1, <3>2 DEF GivesUp
    <3>3. CASE GiveUp(p, acked[p] \cup Answered(p))
      <4> DEFINE a == acked[p] \cup Answered(p)
      <4>1. GiveUp(p, a) /\ acked[p] \subseteq a /\ a \subseteq acked[p] \cup Answered(p) /\ Answered(p) \subseteq a
        BY <3>3
      <4> HIDE DEF a
      <4> QED BY <1>4, <3>1, <4>1 DEF GivesUp
    <3> QED BY <1>4, <2>1, <2>5, <3>2, <3>3 DEF FailsLate
  <2> QED BY <1>4, <2>3, <2>4, <2>5
<1>5. CASE p \in Orchestrators /\ ((\E t \in Tasks : Dispatch(p, t)) \/ Restart(p))
  BY <1>5 DEF Dispatch, Restart
<1>6. CASE p \in Workers /\ Work(p)
  BY <1>6 DEF Work, RunOnce, NothingNew, Handle, BatchDone, WorkerAcked, Restart
<1>7. p \in Orchestrators \/ p \in Workers
  OBVIOUS
<1> QED BY <1>2, <1>3, <1>4, <1>5, <1>6, <1>7, Zenon DEF StepOf, Moves, Orchestrate, Call

LEMMA FunctionsStep == ChannelOK /\ FunctionsOK /\ [Next]_vars => FunctionsOK'
<1> SUFFICES ASSUME ChannelOK, FunctionsOK, [Next]_vars PROVE FunctionsOK'
  OBVIOUS
<1>1. CASE UNCHANGED gatherVars
  BY <1>1 DEF gatherVars, FunctionsOK
<1>2. ASSUME NEW o \in Orchestrators, Gather(o) PROVE FunctionsOK'
  BY <1>2 DEF Gather, FunctionsOK
<1>3. ASSUME NEW o \in Orchestrators, NoteResults(o) PROVE FunctionsOK'
  BY <1>3 DEF NoteResults, FunctionsOK
<1>4. ASSUME NEW o \in Orchestrators, EndGather(o) PROVE FunctionsOK'
  BY <1>4 DEF EndGather, FunctionsOK
<1>5. ASSUME NEW o \in Orchestrators, GatherAcked(o) PROVE FunctionsOK'
  <2>1. Answered(o) \subseteq Tasks
    BY AnsweredTasks
  <2>2. CASE EndGather(o)
    BY <1>4, <2>2
  <2>3. CASE acked' = [acked EXCEPT ![o] = @ \cup Answered(o)] /\ UNCHANGED <<round, wanted, found>>
    BY <2>1, <2>3 DEF FunctionsOK
  <2> QED BY <1>5, <2>2, <2>3 DEF GatherAcked, Return
<1>6. ASSUME NEW p \in Callers, StepOf(p) PROVE FunctionsOK'
  BY <1>1, <1>2, <1>3, <1>4, <1>5, <1>6, GatherMoves DEF GatherEnds, Return, GivesUp, GiveUp
<1> QED BY <1>1, <1>6, WhoMoves DEF Redeclare, vars, callVars

(* What is not its own, a step leaves alone.                                   *)
LEMMA OwnGather ==
  ASSUME ChannelOK, FunctionsOK, NEW p \in Callers, StepOf(p), NEW o \in Orchestrators, o # p
  PROVE  round'[o] = round[o] /\ wanted'[o] = wanted[o] /\ found'[o] = found[o] /\ acked'[o] = acked[o]
<1>1. CASE UNCHANGED gatherVars
  BY <1>1 DEF gatherVars
<1>2. CASE p \in Orchestrators /\ (Gather(p) \/ NoteResults(p))
  BY <1>2 DEF Gather, NoteResults, FunctionsOK
<1>3. CASE EndGather(p)
  BY <1>3 DEF EndGather
<1>4. CASE p \in Orchestrators /\ GatherAcked(p)
  BY <1>3, <1>4 DEF GatherAcked, Return, FunctionsOK
<1> QED BY <1>1, <1>2, <1>3, <1>4, GatherMoves DEF GatherEnds, Return, GivesUp, GiveUp

(* Where an orchestrator is, and in which round of its gather.                 *)
RoundsOK ==
  \A o \in Orchestrators :
    /\ round[o] <= Rounds
    /\ pc[o] # "handling"
    /\ pc[o] \in {"idle", "posting", "appending", "down", "absent"} => round[o] = 0 /\ found[o] = {}
    /\ pc[o] = "looping" => round[o] < Rounds
    /\ pc[o] \in {"catching", "reading", "acking", "advancing"} => round[o] >= 1

LEMMA InitRounds == Init => FunctionsOK /\ RoundsOK
  BY DEF Init, FunctionsOK, RoundsOK

LEMMA RoundsStep == ChannelOK /\ FunctionsOK /\ RoundsOK /\ [Next]_vars => RoundsOK'
<1> SUFFICES ASSUME ChannelOK, FunctionsOK, RoundsOK, [Next]_vars PROVE RoundsOK'
  OBVIOUS
<1>1. ASSUME NEW o \in Orchestrators, StepOf(o)
      PROVE  /\ round'[o] <= Rounds
             /\ pc'[o] # "handling"
             /\ pc'[o] \in {"idle", "posting", "appending", "down", "absent"} =>
                  round'[o] = 0 /\ found'[o] = {}
             /\ pc'[o] = "looping" => round'[o] < Rounds
             /\ pc'[o] \in {"catching", "reading", "acking", "advancing"} => round'[o] >= 1
  <2>1. o \in Callers /\ o \notin Workers /\ pc[o] \in PCs /\ round[o] \in Nat
    BY DEF ChannelOK, FunctionsOK
  <2>2. ASSUME EndGather(o), pc'[o] \in {"idle", "down"}
        PROVE  round'[o] = 0 /\ found'[o] = {} /\ pc'[o] \in {"idle", "down"}
    BY <2>2 DEF EndGather
  <2>3. CASE GivesUp(o)
    BY <2>2, <2>3 DEF GivesUp, GiveUp
  <2>4. CASE Gather(o) \/ NoteResults(o)
    BY <2>1, <2>4 DEF Gather, NoteResults, Goto, RoundsOK, ChannelOK, FunctionsOK
  <2>5. CASE GatherEnds(o)
    BY <2>1, <2>2, <2>5 DEF GatherEnds, Return, Leave, Goto, ChannelOK
  <2>6. CASE GatherAcked(o)
    <3>1. CASE round[o] = Rounds
      BY <2>1, <2>2, <2>6, <3>1 DEF GatherAcked, Return, Leave, Goto, ChannelOK
    <3>2. CASE round[o] # Rounds
      BY <2>1, <2>6, <3>2 DEF GatherAcked, Leave, Goto, ChannelOK, RoundsOK
    <3> QED BY <3>1, <3>2
  <2>7. CASE UNCHANGED gatherVars
    <3>1. UNCHANGED <<round, found>>
      BY <2>7 DEF gatherVars
    <3>2. CASE Commit(o)
      <4>1. Posted(o) = "idle"
        BY <2>1 DEF Posted
      <4> QED BY <2>1, <3>1, <3>2, <4>1 DEF Commit, Goto, RoundsOK, ChannelOK
    <3>3. CASE Post(o) \/ CatchUp(o) \/ Ack(o)
      BY <2>1, <3>1, <3>3 DEF Post, CatchUp, Ack, Goto, RoundsOK, ChannelOK
    <3>4. CASE ReadPage(o)
      BY <2>1, <3>1, <3>4 DEF ReadPage, RoundsOK, ChannelOK
    <3>5. CASE (\E t \in Tasks : Dispatch(o, t)) \/ Restart(o)
      BY <2>1, <3>1, <3>5 DEF Dispatch, Restart, Goto, RoundsOK, ChannelOK
    <3>6. CASE Denied(o) \/ Fails(o) \/ FailsLate(o) \/ Crash(o)
      <4>1. EndGather(o)
        BY <3>6 DEF Denied, Fails, FailsLate, Crash, GiveUp
      <4>2. pc'[o] \in {"idle", "down"}
        BY <2>1, <3>6 DEF Denied, Fails, FailsLate, Crash, Raise, Leave, Goto, ChannelOK
      <4> QED BY <2>2, <4>1, <4>2
    <3> QED BY <1>1, <2>1, <2>4, <2>5, <2>6, <3>2, <3>3, <3>4, <3>5, <3>6, Zenon
            DEF StepOf, Moves, Call, Orchestrate
  <2> QED BY <1>1, <2>1, <2>3, <2>4, <2>5, <2>6, <2>7, GatherMoves
<1>2. ASSUME NEW p \in Callers, StepOf(p) PROVE RoundsOK'
  BY <1>1, <1>2, Frame, OwnGather DEF RoundsOK
<1>3. CASE UNCHANGED <<pc, round, found>>
  BY <1>3 DEF RoundsOK
<1> QED BY <1>2, <1>3, WhoMoves DEF Redeclare, vars, callVars, gatherVars

(* Every message, written or under way, is about a task dispatch has drawn, and *)
(* in its sender's name.                                                       *)
IssuedOK ==
  /\ issued \subseteq Tasks /\ collected \cup forgone \subseteq issued
  /\ \A o \in Orchestrators : found[o] \subseteq wanted[o] \cap issued /\ acked[o] \subseteq issued
  /\ \A i \in 1 .. Len(messages) : messages[i].task \in issued
  /\ \A p \in Callers : pc[p] \in {"posting", "appending"} =>
       /\ job[p].task \in issued /\ job[p].sender = SubjectOf[p]
       /\ job[p].kind = IF p \in Workers THEN "result" ELSE "task"

LEMMA InitIssued == Init => IssuedOK
  BY DEF Init, BusInit, IssuedOK

LEMMA AnsweredIssued == ASSUME ChannelOK, IssuedOK, NEW p \in Callers PROVE Answered(p) \subseteq issued
<1> SUFFICES ASSUME NEW i \in Batch(p) PROVE messages[i].task \in issued
  BY DEF Answered
<1>1. i \in 1 .. Len(messages)
  BY DEF Batch, ChannelOK
<1> QED BY <1>1 DEF IssuedOK

LEMMA IssuedStep ==
  ChannelOK /\ TryingOK /\ FunctionsOK /\ RoundsOK /\ IssuedOK /\ [Next]_vars => IssuedOK'
<1> SUFFICES ASSUME ChannelOK, TryingOK, FunctionsOK, RoundsOK, IssuedOK, [Next]_vars PROVE IssuedOK'
  OBVIOUS
<1>1. ASSUME NEW p \in Callers, StepOf(p) PROVE issued \subseteq issued' /\ issued' \subseteq Tasks
  <2>1. CASE Moves(p)
    BY <2>1 DEF Moves, Call, Post, Commit, CatchUp, ReadPage, Ack, Denied, Fails, FailsLate, Crash, IssuedOK
  <2>2. CASE p \in Workers /\ Work(p)
    BY <2>2 DEF Work, RunOnce, NothingNew, Handle, BatchDone, WorkerAcked, Restart, Advance, IssuedOK
  <2>3. CASE p \in Orchestrators /\ Orchestrate(p)
    BY <2>3 DEF Orchestrate, Dispatch, Gather, NoteResults, GatherEnds, GatherAcked, Restart, Advance, IssuedOK
  <2> QED BY <1>1, <2>1, <2>2, <2>3 DEF StepOf
<1> DEFINE Drawn == /\ collected' \cup forgone' \subseteq issued'
                    /\ \A o \in Orchestrators : /\ found'[o] \subseteq wanted'[o] \cap issued'
                                                /\ acked'[o] \subseteq issued'
<1>6. ASSUME NEW p \in Callers, StepOf(p) PROVE Drawn
  <2>0. issued \subseteq issued' /\ Answered(p) \subseteq issued
    BY <1>1, <1>6, AnsweredIssued
  <2>1. CASE UNCHANGED gatherVars
    BY <2>0, <2>1 DEF gatherVars, IssuedOK
  <2>2. CASE p \in Orchestrators /\ Gather(p)
    <3>1. /\ UNCHANGED <<found, acked, collected, forgone>>
          /\ found[p] = {} \/ UNCHANGED wanted
      <4>1. CASE pc[p] = "idle"
        BY <2>2, <4>1 DEF Gather, RoundsOK
      <4> QED BY <2>2, <4>1 DEF Gather
    <3> QED BY <2>0, <2>2, <3>1, OwnGather, <1>6 DEF IssuedOK
  <2>3. CASE p \in Orchestrators /\ NoteResults(p)
    BY <2>0, <2>3 DEF NoteResults, IssuedOK, FunctionsOK
  <2>4. ASSUME p \in Orchestrators, EndGather(p), collected' \cup forgone' \subseteq issued PROVE Drawn
    BY <2>0, <2>4 DEF EndGather, IssuedOK
  <2>5. CASE p \in Orchestrators /\ (GatherEnds(p) \/ GatherAcked(p))
    <3>1. CASE \E a : Return(p, a) /\ a \subseteq issued
      BY <2>4, <2>5, <3>1 DEF Return, IssuedOK
    <3>2. acked[p] \subseteq issued /\ acked[p] \cup Answered(p) \subseteq issued
      BY <2>0, <2>5 DEF IssuedOK
    <3>3. CASE /\ acked' = [acked EXCEPT ![p] = @ \cup Answered(p)]
               /\ UNCHANGED <<wanted, found, collected, forgone>>
      BY <2>0, <2>5, <3>3 DEF IssuedOK, FunctionsOK
    <3> QED BY <2>5, <3>1, <3>2, <3>3 DEF GatherEnds, GatherAcked
  <2>6. CASE GivesUp(p)
    BY <2>0, <2>4, <2>6 DEF GivesUp, GiveUp, IssuedOK
  <2> QED BY <1>6, <2>1, <2>2, <2>3, <2>5, <2>6, GatherMoves
<1>2. ASSUME NEW p \in Callers, StepOf(p), pc'[p] \in {"posting", "appending"}
      PROVE  /\ job'[p].task \in issued' /\ job'[p].sender = SubjectOf[p]
             /\ job'[p].kind = IF p \in Workers THEN "result" ELSE "task"
  <2>1. ASSUME NEW t \in issued, NEW ok, p \in Workers, Reply(p, t, ok)
        PROVE  /\ job'[p].task = t /\ job'[p].sender = SubjectOf[p]
               /\ job'[p].kind = "result"
    BY <2>1 DEF Reply, ChannelOK
  <2>2. ASSUME Raise(p) PROVE /\ job'[p].task \in issued /\ job'[p].sender = SubjectOf[p]
                             /\ job'[p].kind = IF p \in Workers THEN "result" ELSE "task"
    <3>1. p \in Workers /\ trying[p]
      BY <1>2, <2>2 DEF Raise, Leave, Goto, ChannelOK
    <3>2. job[p].task \in issued /\ Reply(p, job[p].task, FALSE)
      BY <2>2, <3>1 DEF Raise, TryingOK, IssuedOK
    <3> QED BY <2>1, <3>1, <3>2
  <2>3. CASE Moves(p)
    <3>1. CASE Post(p)
      BY <3>1 DEF Post, IssuedOK
    <3>2. CASE Denied(p) \/ Fails(p) \/ FailsLate(p)
      BY <2>2, <3>2 DEF Denied, Fails, FailsLate
    <3>3. CASE Commit(p) \/ CatchUp(p) \/ ReadPage(p) \/ Ack(p) \/ Crash(p)
      BY <1>2, <3>3 DEF Commit, Posted, CatchUp, ReadPage, Ack, Crash, Leave, Goto, ChannelOK
    <3> QED BY <1>1, <1>2, <2>3, <3>1, <3>2, <3>3 DEF Moves, Call
  <2>4. CASE p \in Workers /\ Handle(p)
    <3>1. messages[Min(Mine(p))].task \in issued
      BY <2>4, NextOfBatch DEF Handle, IssuedOK
    <3> QED BY <2>1, <2>4, <3>1 DEF Handle
  <2>5. CASE p \in Workers /\ Work(p) /\ ~Handle(p)
    BY <1>2, <2>5 DEF Work, RunOnce, NothingNew, BatchDone, WorkerAcked, Restart, Leave, Goto, ChannelOK
  <2>6. CASE p \in Orchestrators /\ (\E t \in Tasks : Dispatch(p, t))
    BY <2>6 DEF Dispatch, ChannelOK
  <2>7. CASE p \in Orchestrators /\ (Gather(p) \/ NoteResults(p) \/ GatherEnds(p) \/ GatherAcked(p) \/ Restart(p))
    BY <1>2, <2>7 DEF Gather, NoteResults, GatherEnds, GatherAcked, Restart, Return, Leave, Goto, ChannelOK
  <2> QED BY <1>1, <1>2, <2>3, <2>4, <2>5, <2>6, <2>7 DEF StepOf, Orchestrate
<1>3. issued \subseteq issued' => \A i \in 1 .. Len(messages') : messages'[i].task \in issued'
  <2>1. CASE UNCHANGED messages
    BY <2>1 DEF IssuedOK
  <2>2. ASSUME NEW p \in Callers, pc[p] = "appending", Len(messages') = Len(messages) + 1,
               \A i \in 1 .. Len(messages) : messages'[i] = messages[i],
               messages'[Len(messages) + 1] = job[p], issued \subseteq issued',
               NEW i \in 1 .. Len(messages')
        PROVE  messages'[i].task \in issued'
    <3>1. Len(messages) \in Nat /\ (i \in 1 .. Len(messages) \/ i = Len(messages) + 1)
      BY <2>2 DEF ChannelOK
    <3>2. job[p].task \in issued
      BY <2>2 DEF IssuedOK
    <3> QED BY <2>2, <3>1, <3>2 DEF IssuedOK
  <2> QED BY <2>1, <2>2, LogGrows
<1> HIDE DEF Drawn
<1>4. ASSUME NEW p \in Callers, StepOf(p) PROVE IssuedOK'
  <2>1. Drawn /\ issued \subseteq issued' /\ issued' \subseteq Tasks
    BY <1>1, <1>4, <1>6
  <2>2. \A q \in Callers : pc'[q] \in {"posting", "appending"} =>
          /\ job'[q].task \in issued' /\ job'[q].sender = SubjectOf[q]
          /\ job'[q].kind = IF q \in Workers THEN "result" ELSE "task"
    BY <1>2, <1>4, <2>1, Frame DEF IssuedOK
  <2> QED BY <1>3, <2>1, <2>2 DEF IssuedOK, Drawn
<1>5. CASE UNCHANGED <<pc, job, messages, gatherVars, issued>>
  BY <1>5 DEF IssuedOK, gatherVars
<1> QED BY <1>4, <1>5, WhoMoves DEF Redeclare, Declare, vars, callVars, busVars

-----------------------------------------------------------------------------
(* The policy, and what a call has read from it.                               *)
Scopes == UNION {q.post \cup q.read : q \in Policies}

AuthOK ==
  /\ policy \in Policies \cup {Undeclared}
  /\ need \in [Callers -> SUBSET Scopes]
  /\ lawful \in [Callers -> BOOLEAN]

LEMMA InitAuth == Init => AuthOK
<1> SUFFICES ASSUME Init PROVE AuthOK
  OBVIOUS
<1>1. policy \in Policies \cup {Undeclared}
  BY FirstPolicyAssumption DEF Init, BusInit
<1>2. need \in [Callers -> SUBSET Scopes]
  BY DEF Init, BusInit
<1>3. lawful = [p \in Callers |-> FALSE]
  BY DEF Init, BusInit
<1>4. lawful \in [Callers -> BOOLEAN]
  BY <1>3, Zenon
<1> QED BY <1>1, <1>2, <1>4 DEF AuthOK

LEMMA NeedsTyped ==
  ASSUME AuthOK, NEW p \in Callers, NEW use, use = "post" \/ use = "read", Needs(p, use)
  PROVE  need' \in [Callers -> SUBSET Scopes] /\ lawful' \in [Callers -> BOOLEAN]
<1>1. (IF policy = Undeclared THEN {} ELSE policy[use]) \in SUBSET Scopes
  <2>1. ASSUME policy \in Policies PROVE policy[use] \subseteq Scopes
    <3>1. policy[use] \subseteq policy.post \cup policy.read
      OBVIOUS
    <3> QED BY <2>1, <3>1 DEF Scopes
  <2> QED BY <2>1 DEF AuthOK
<1>2. need' \in [Callers -> SUBSET Scopes]
  BY <1>1, Zenon DEF Needs, AuthOK
<1>3. (use = "post" /\ Admits(policy, p, use)) \in BOOLEAN
  BY DEF Admits
<1>4. lawful' \in [Callers -> BOOLEAN]
  BY <1>3, Zenon DEF Needs, AuthOK
<1> QED BY <1>2, <1>4

LEMMA AuthStep == ChannelOK /\ TryingOK /\ AuthOK /\ [Next]_vars => AuthOK'
<1> SUFFICES ASSUME ChannelOK, TryingOK, AuthOK, [Next]_vars PROVE AuthOK'
  OBVIOUS
<1> DEFINE Typed == need' \in [Callers -> SUBSET Scopes] /\ lawful' \in [Callers -> BOOLEAN]
<1>1. ASSUME NEW p \in Callers, need' = [need EXCEPT ![p] = {}], UNCHANGED lawful PROVE Typed
  BY <1>1, Zenon DEF AuthOK
<1>2. ASSUME NEW p \in Callers, Forget(p) PROVE Typed
  BY <1>2, Zenon DEF Forget, AuthOK
<1>3. ASSUME UNCHANGED <<need, lawful>> PROVE Typed
  <2>1. need' = need /\ lawful' = lawful
    BY <1>3
  <2> QED BY <2>1, Zenon DEF AuthOK
<1>4. ASSUME NEW p \in Callers, NEW t, NEW ok, Reply(p, t, ok) PROVE Typed
  <2>1. Needs(p, "post")
    BY <1>4 DEF Reply
  <2> HIDE DEF Typed
  <2>2. Typed
    BY <2>1, NeedsTyped, Zenon DEF Typed
  <2> QED BY <2>2
<1>5. ASSUME NEW p \in Callers, Raise(p) PROVE Typed
  BY <1>2, <1>4, <1>5, Zenon DEF Raise
<1> HIDE DEF Typed
<1>6. ASSUME NEW p \in Callers, Moves(p) PROVE Typed
  <2>1. ASSUME Commit(p) PROVE Typed
    BY <2>1, Zenon DEF Commit, AuthOK, Typed
  <2>2. CASE Post(p) \/ CatchUp(p) \/ Ack(p)
    BY <1>1, <2>2 DEF Post, CatchUp, Ack, Authorize
  <2>3. CASE Denied(p) \/ Fails(p) \/ FailsLate(p)
    BY <1>5, <2>3, Zenon DEF Denied, Fails, FailsLate
  <2>4. CASE ReadPage(p)
    BY <1>3, <2>4 DEF ReadPage, busVars
  <2>5. CASE Crash(p)
    BY <1>2, <2>5 DEF Crash
  <2> QED BY <1>6, <2>1, <2>2, <2>3, <2>4, <2>5, Zenon DEF Moves, Call
<1>7. ASSUME NEW o \in Orchestrators, Orchestrate(o) PROVE Typed
  <2>1. o \in Callers
    OBVIOUS
  <2>2. CASE (\E t \in Tasks : Dispatch(o, t)) \/ Gather(o) \/ NoteResults(o)
    <3>1. Needs(o, "post") \/ Needs(o, "read")
      BY <2>2, Zenon DEF Dispatch, Gather, NoteResults
    <3> QED BY <2>1, <3>1, NeedsTyped, Zenon DEF Typed
  <2>3. CASE GatherEnds(o) \/ GatherAcked(o) \/ Restart(o)
    BY <1>3, <2>3 DEF GatherEnds, GatherAcked, Restart, Advance, busVars
  <2> QED BY <1>7, <2>2, <2>3, Zenon DEF Orchestrate
<1>8. ASSUME NEW w \in Workers, Work(w) PROVE Typed
  <2>1. w \in Callers
    OBVIOUS
  <2>2. CASE RunOnce(w) \/ BatchDone(w)
    <3>1. Needs(w, "read")
      BY <2>2, Zenon DEF RunOnce, BatchDone
    <3> QED BY <2>1, <3>1, NeedsTyped, Zenon DEF Typed
  <2>3. CASE Handle(w)
    BY <1>4, <2>1, <2>3, Zenon DEF Handle
  <2>4. CASE NothingNew(w) \/ WorkerAcked(w) \/ Restart(w)
    BY <1>3, <2>4 DEF NothingNew, WorkerAcked, Restart, Advance, busVars
  <2> QED BY <1>8, <2>2, <2>3, <2>4, Zenon DEF Work
<1>9. ASSUME NEW q \in Policies, Redeclare(q) PROVE AuthOK'
  <2>1. policy' = q /\ UNCHANGED need
    BY <1>9 DEF Redeclare, Declare
  <2>2. \A p \in Callers : (lawful[p] \/ (p \in {r \in Callers : pc[r] = "posting"} /\ Admits(q, p, "post"))) \in BOOLEAN
    OBVIOUS
  <2>3. lawful' \in [Callers -> BOOLEAN]
    BY <1>9, <2>2, Zenon DEF Redeclare, Declare
  <2> QED BY <2>1, <2>3, Zenon DEF AuthOK
<1>10. CASE UNCHANGED vars
  <2>1. UNCHANGED <<policy, need, lawful>>
    BY <1>10 DEF vars, busVars
  <2> QED BY <1>3, <2>1, Zenon DEF AuthOK, Typed
<1>11. ASSUME NEW p \in Callers, StepOf(p) PROVE AuthOK'
  <2>1. Typed
    BY <1>6, <1>7, <1>8, <1>11, Zenon DEF StepOf
  <2>2. CASE Moves(p)
    <3>1. policy' = policy
      BY <2>2 DEF Moves, Call, Post, Authorize, Commit, CatchUp, ReadPage, Ack, Denied, Fails, FailsLate, Crash, busVars
    <3> QED BY <2>1, <3>1, Zenon DEF AuthOK, Typed
  <2>3. CASE ~Moves(p)
    <3>1. policy' = policy
      BY <1>11, <2>3 DEF StepOf, Orchestrate, Dispatch, Gather, NoteResults, GatherEnds, GatherAcked, Work,
                RunOnce, NothingNew, Handle, BatchDone, WorkerAcked, Restart, Advance, busVars
    <3> QED BY <2>1, <3>1, Zenon DEF AuthOK, Typed
  <2> QED BY <2>2, <2>3
<1> QED BY <1>9, <1>10, <1>11, WhoMoves, Zenon

-----------------------------------------------------------------------------
Inv ==
  /\ ChannelOK /\ TryingOK /\ FunctionsOK /\ RoundsOK /\ IssuedOK /\ AuthOK
  /\ disturbed \in 0 .. MaxFaults

LEMMA DisturbedStep == ChannelOK /\ disturbed \in 0 .. MaxFaults /\ [Next]_vars => disturbed' \in 0 .. MaxFaults
<1> SUFFICES ASSUME ChannelOK, disturbed \in 0 .. MaxFaults, [Next]_vars
             PROVE  disturbed' \in 0 .. MaxFaults
  OBVIOUS
<1>1. Disturb => disturbed' \in 0 .. MaxFaults
  BY DEF Disturb
<1>2. ASSUME NEW p \in Callers, Call(p) PROVE UNCHANGED disturbed
  BY <1>2, Zenon DEF Moves, Call, Post, Commit, CatchUp, ReadPage, Ack, Denied
<1>3. ASSUME NEW o \in Orchestrators, Orchestrate(o) PROVE UNCHANGED disturbed
  BY <1>3, Zenon DEF Orchestrate, Dispatch, Gather, NoteResults, GatherEnds, GatherAcked, Restart, Advance
<1>4. ASSUME NEW w \in Workers, Work(w) PROVE UNCHANGED disturbed
  BY <1>4, Zenon DEF Work, RunOnce, NothingNew, Handle, BatchDone, WorkerAcked, Restart, Advance
<1>5. ASSUME NEW p \in Callers, Fails(p) \/ FailsLate(p) \/ Crash(p) PROVE Disturb
  BY <1>5, Zenon DEF Fails, FailsLate, Crash, Faulty
<1>6. UNCHANGED vars => UNCHANGED disturbed
  BY DEF vars, callVars
<1>7. ASSUME NEW q \in Policies, Redeclare(q) PROVE Disturb
  BY <1>7 DEF Redeclare
<1>8. Disturb \/ UNCHANGED disturbed
  BY <1>2, <1>3, <1>4, <1>5, <1>6, <1>7, WhoMoves, Zenon DEF StepOf, Moves
<1> QED BY <1>1, <1>8

LEMMA InvStarts == Init => Inv
<1>1. Init => disturbed \in 0 .. MaxFaults
  BY DEF Init
<1> QED BY <1>1, InitChannel, InitTrying, InitRounds, InitIssued, InitAuth DEF Inv

LEMMA InvStep == Inv /\ [Next]_vars => Inv'
  BY ChannelKept, TryingStep, FunctionsStep, RoundsStep, IssuedStep, AuthStep, DisturbedStep DEF Inv

(* TypeOK: nobody has read or acknowledged what is not on the channel, a gather *)
(* is in one of its rounds and holds results it was asked for, and every result *)
(* acknowledged is of a task dispatch has drawn.                               *)
THEOREM Typing == Spec => []TypeOK
<1>1. Inv => TypeOK
  <2> SUFFICES ASSUME Inv PROVE TypeOK
    OBVIOUS
  <2>1. \A s \in Subjects : cursor[s] \in 0 .. Len(messages)
    BY DEF Inv, ChannelOK
  <2>2. \A p \in Callers : slot[p] \in 0 .. Len(messages) + 1
    <3>1. Len(messages) \in Nat /\ \A p \in Callers : slot[p] \in {0, Len(messages) + 1}
      BY DEF Inv, ChannelOK
    <3> QED BY <3>1
  <2>3. \A p \in Callers : at[p] \in 0 .. upTo[p] /\ upTo[p] \in 0 .. HeadSeq
    BY DEF Inv, ChannelOK, HeadSeq
  <2>4. \A p \in Callers : need[p] \subseteq UNION {q.post \cup q.read : q \in Policies}
    BY DEF Inv, AuthOK, Scopes
  <2>5. BusTypeOK
    <3>1. lawful \in [Callers -> BOOLEAN] /\ policy \in Policies \cup {Undeclared}
      BY Zenon DEF Inv, AuthOK
    <3>2. messages \in Seq(Messages) /\ lock \in Callers \cup {Nobody}
      BY DEF Inv, ChannelOK
    <3> QED BY <2>1, <2>2, <2>4, <3>1, <3>2, Zenon DEF BusTypeOK
  <2>6. round \in [Orchestrators -> 0 .. Rounds]
    BY DEF Inv, RoundsOK, FunctionsOK
  <2>8. /\ wanted \in [Orchestrators -> SUBSET Tasks]
        /\ \A o \in Orchestrators : found[o] \subseteq wanted[o] /\ acked[o] \subseteq issued
        /\ collected \cup forgone \subseteq issued /\ issued \subseteq Tasks
    BY DEF Inv, FunctionsOK, IssuedOK
  <2>7. trying \in [Workers -> BOOLEAN]
    BY Zenon DEF Inv, TryingOK
  <2> QED BY <2>3, <2>5, <2>6, <2>7, <2>8, Zenon DEF Inv, TypeOK, ChannelOK
<1> QED BY <1>1, InvStarts, InvStep, PTL DEF Spec

-----------------------------------------------------------------------------
(* Who moves a cursor.                                                         *)
LEMMA OnlyAdvanceMoves ==
  ASSUME NEW p \in Callers, StepOf(p), ~UNCHANGED cursor
  PROVE  /\ Moving(p)
         /\ \/ p \in Orchestrators /\ GatherAcked(p)
            \/ p \in Workers /\ WorkerAcked(p)
            \/ FailsLate(p)
<1>1. CASE Moves(p)
  BY <1>1 DEF Moves, Call, Post, Commit, CatchUp, ReadPage, Ack, Denied, Fails, FailsLate, Crash,
              Moving, busVars
<1>2. CASE p \in Orchestrators /\ Orchestrate(p)
  BY <1>2 DEF Orchestrate, Dispatch, Gather, NoteResults, GatherEnds, GatherAcked, Restart, Advance,
              Moving, busVars
<1>3. CASE p \in Workers /\ Work(p)
  BY <1>3 DEF Work, RunOnce, NothingNew, Handle, BatchDone, WorkerAcked, Restart, Advance, Moving,
              busVars
<1> QED BY <1>1, <1>2, <1>3 DEF StepOf

(* The channel is a log: whoever posts, dies or is denied, rows are added one   *)
(* at a time at the end, and a cursor moves forward and not past the end.      *)
LEMMA LogStep == Inv /\ [Next]_vars => [Log!Next]_<<messages, cursor>>
<1> SUFFICES ASSUME Inv, [Next]_vars, ~UNCHANGED <<messages, cursor>> PROVE Log!Next
  OBVIOUS
<1>1. CASE ~UNCHANGED messages
  <2>1. /\ messages' \in Seq(Messages) /\ Len(messages') = Len(messages) + 1
        /\ \A i \in 1 .. Len(messages) : messages'[i] = messages[i]
        /\ UNCHANGED cursor
    BY <1>1, LogGrows DEF Inv
  <2>2. messages \in Seq(Messages)
    BY DEF Inv, ChannelOK
  <2>3. SubSeq(messages', 1, Len(messages)) = messages
    BY <2>1, <2>2
  <2> QED BY <2>1, <2>3 DEF Log!Next, Log!Post
<1>2. CASE UNCHANGED messages
  <2>1. ~UNCHANGED cursor
    BY <1>2
  <2>2. PICK p \in Callers : Moving(p)
    BY <2>1, OnlyAdvanceMoves, WhoMoves DEF Redeclare, Declare, vars, busVars
  <2> DEFINE s == SubjectOf[p]
             n == cursor'[s]
  <2>3. /\ \A q \in Subjects : q # s => cursor'[q] = cursor[q]
        /\ \A q \in Subjects : cursor'[q] <= Len(messages) /\ cursor'[q] >= cursor[q]
        /\ cursor' \in [Subjects -> Nat] /\ cursor \in [Subjects -> Nat] /\ s \in Subjects
    BY <2>2, AdvanceMoves, SubjectsOf DEF Inv, ChannelOK
  <2>4. cursor' = [cursor EXCEPT ![s] = n]
    BY <2>3
  <2>5. n # cursor[s]
    BY <2>1, <2>3, <2>4
  <2>6. n \in (cursor[s] + 1) .. Len(messages)
    <3>1. n \in Nat /\ cursor[s] \in Nat /\ n >= cursor[s] /\ n <= Len(messages) /\ Len(messages) \in Nat
      BY <2>3 DEF Inv, ChannelOK
    <3> HIDE DEF n
    <3> QED BY <2>5, <3>1
  <2>7. Log!Acknowledge(s)
    BY <1>2, <2>4, <2>6 DEF Log!Acknowledge
  <2> QED BY <2>3, <2>7 DEF Log!Next
<1> QED BY <1>1, <1>2

(* ImplementsLog: a2a.py's channel is the abstract log, with the unique index   *)
(* on (channel, seq) never in the way of an append.                            *)
THEOREM ChannelIsALog == Spec => ImplementsLog
<1>1. Init => Log!Init
  BY DEF Init, BusInit, Log!Init
<1> QED BY <1>1, InvStarts, InvStep, LogStep, PTL DEF Spec, ImplementsLog, Log!Spec

-----------------------------------------------------------------------------
(* A channel that starts declared stays so, and a post that both lookups pass  *)
(* was lawful at one of them.                                                  *)
LawfulOK ==
  /\ policy # Undeclared
  /\ \A p \in Callers : pc[p] = "posting" /\ need[p] \subseteq ScopesOf[p] => lawful[p]
  /\ PostsWereAllowed

Own(p) == need'[p] = need[p] /\ lawful'[p] = lawful[p]

(* What a call has read is its own.                                            *)
LEMMA OwnReads ==
  ASSUME AuthOK, NEW p \in Callers, StepOf(p), NEW q \in Callers, q # p
  PROVE  Own(q)
<1>1. ASSUME NEW use, Needs(p, use) PROVE Own(q)
  BY <1>1, Zenon DEF Needs, Own, AuthOK
<1>2. ASSUME need' = [need EXCEPT ![p] = {}], lawful' = lawful PROVE Own(q)
  BY <1>2, Zenon DEF Own, AuthOK
<1>3. ASSUME lawful' = [lawful EXCEPT ![p] = FALSE],
             need' = need \/ need' = [need EXCEPT ![p] = {}]
      PROVE  Own(q)
  BY <1>3, Zenon DEF Own, AuthOK
<1>4. ASSUME UNCHANGED <<need, lawful>> PROVE Own(q)
  BY <1>4 DEF Own
<1>5. ASSUME Raise(p) PROVE Own(q)
  BY <1>1, <1>3, <1>5, Zenon DEF Raise, Reply, Forget
<1>6. ASSUME Moves(p) PROVE Own(q)
  <2>1. CASE Commit(p)
    BY <1>3, <2>1, Zenon DEF Commit
  <2>2. CASE Post(p) \/ CatchUp(p) \/ Ack(p)
    BY <1>2, <2>2 DEF Post, CatchUp, Ack, Authorize
  <2>3. CASE Denied(p) \/ Fails(p) \/ FailsLate(p)
    BY <1>5, <2>3, Zenon DEF Denied, Fails, FailsLate
  <2>4. CASE ReadPage(p)
    BY <1>4, <2>4 DEF ReadPage, busVars
  <2>5. CASE Crash(p)
    BY <1>3, <2>5, Zenon DEF Crash, Forget
  <2> QED BY <1>6, <2>1, <2>2, <2>3, <2>4, <2>5, Zenon DEF Moves, Call
<1>7. ASSUME p \in Orchestrators, Orchestrate(p) PROVE Own(q)
  <2>1. CASE (\E t \in Tasks : Dispatch(p, t)) \/ Gather(p) \/ NoteResults(p)
    BY <1>1, <2>1, Zenon DEF Dispatch, Gather, NoteResults
  <2>2. CASE GatherEnds(p) \/ GatherAcked(p) \/ Restart(p)
    BY <1>4, <2>2 DEF GatherEnds, GatherAcked, Restart, Advance, busVars
  <2> QED BY <1>7, <2>1, <2>2, Zenon DEF Orchestrate
<1>8. ASSUME p \in Workers, Work(p) PROVE Own(q)
  <2>1. CASE RunOnce(p) \/ BatchDone(p)
    BY <1>1, <2>1, Zenon DEF RunOnce, BatchDone
  <2>2. CASE Handle(p)
    BY <1>1, <2>2, Zenon DEF Handle, Reply
  <2>3. CASE NothingNew(p) \/ WorkerAcked(p) \/ Restart(p)
    BY <1>4, <2>3 DEF NothingNew, WorkerAcked, Restart, Advance, busVars
  <2> QED BY <1>8, <2>1, <2>2, <2>3, Zenon DEF Work
<1> QED BY <1>6, <1>7, <1>8, Zenon DEF StepOf

(* A post under way.                                                           *)
PostOK(p) ==
  /\ pc[p] = "posting" /\ need[p] \subseteq ScopesOf[p] => lawful[p]
  /\ pc[p] = "appending" => lawful[p]

LEMMA OwnPost ==
  ASSUME Inv, policy # Undeclared, NEW p \in Callers, StepOf(p), PostOK(p)
  PROVE  PostOK(p)'
<1> USE DEF Inv
<1>1. ASSUME NEW use, use = "post", Needs(p, use) PROVE need'[p] \subseteq ScopesOf[p] => lawful'[p]
  <2>1. need'[p] = policy["post"]
    BY <1>1, Zenon DEF Needs, AuthOK
  <2>2. lawful'[p] = (use = "post" /\ Admits(policy, p, use))
    BY <1>1, Zenon DEF Needs, AuthOK
  <2> QED BY <1>1, <2>1, <2>2, Zenon DEF Admits
<1>2. ASSUME pc'[p] \notin {"posting", "appending"} PROVE PostOK(p)'
  BY <1>2, Zenon DEF PostOK
<1>3. ASSUME pc'[p] = "posting", Needs(p, "post") PROVE PostOK(p)'
  BY <1>1, <1>3 DEF PostOK
<1>4. ASSUME Raise(p) PROVE PostOK(p)'
  <2>1. CASE p \in Workers /\ trying[p]
    BY <1>3, <1>4, <2>1 DEF Raise, Reply, Goto, ChannelOK
  <2>2. CASE ~(p \in Workers /\ trying[p])
    BY <1>2, <1>4, <2>2 DEF Raise, Leave, Goto, ChannelOK
  <2> QED BY <2>1, <2>2
<1>5. CASE Post(p)
  <2>1. lawful'[p] = lawful[p] /\ pc'[p] = "appending" /\ pc[p] = "posting" /\ need[p] \subseteq ScopesOf[p]
    BY <1>5 DEF Post, Authorize, Authorized, Goto, ChannelOK
  <2> QED BY <2>1, Zenon DEF PostOK
<1>6. CASE Denied(p) \/ Fails(p) \/ FailsLate(p)
  BY <1>4, <1>6 DEF Denied, Fails, FailsLate
<1>7. CASE Commit(p) \/ CatchUp(p) \/ Ack(p) \/ Crash(p)
  BY <1>2, <1>7 DEF Commit, Posted, CatchUp, Ack, Crash, Leave, Goto, ChannelOK
<1>8. CASE ReadPage(p)
  BY <1>2, <1>8 DEF ReadPage
<1>9. CASE p \in Orchestrators /\ Orchestrate(p)
  <2>1. CASE \E t \in Tasks : Dispatch(p, t)
    BY <1>3, <2>1 DEF Dispatch, Goto, ChannelOK
  <2>2. CASE Gather(p) \/ NoteResults(p) \/ GatherEnds(p) \/ GatherAcked(p) \/ Restart(p)
    BY <1>2, <2>2 DEF Gather, NoteResults, GatherEnds, GatherAcked, Restart, Return, Leave, Goto, ChannelOK
  <2> QED BY <1>9, <2>1, <2>2 DEF Orchestrate
<1>10. CASE p \in Workers /\ Work(p)
  <2>1. CASE Handle(p)
    BY <1>3, <2>1 DEF Handle, Reply, Goto, ChannelOK
  <2>2. CASE Work(p) /\ ~Handle(p)
    BY <1>2, <2>2 DEF Work, RunOnce, NothingNew, BatchDone, WorkerAcked, Restart, Leave, Goto, ChannelOK
  <2> QED BY <1>10, <2>1, <2>2
<1> QED BY <1>5, <1>6, <1>7, <1>8, <1>9, <1>10 DEF StepOf, Moves, Call

LEMMA LawfulStep == Inv /\ LawfulOK /\ [Next]_vars => LawfulOK'
<1> SUFFICES ASSUME Inv, LawfulOK, [Next]_vars PROVE LawfulOK'
  OBVIOUS
<1>1. \A p \in Callers : PostOK(p)
  BY Zenon DEF LawfulOK, PostsWereAllowed, PostOK
<1>2. ASSUME NEW p \in Callers, StepOf(p) PROVE policy' # Undeclared /\ \A q \in Callers : PostOK(q)'
  <2>1. policy' = policy
    <3>1. CASE Moves(p)
      BY <3>1 DEF Moves, Call, Post, Authorize, Commit, CatchUp, ReadPage, Ack, Denied, Fails, FailsLate, Crash, busVars
    <3>2. CASE ~Moves(p)
      BY <1>2, <3>2 DEF StepOf, Orchestrate, Dispatch, Gather, NoteResults, GatherEnds, GatherAcked, Work,
                RunOnce, NothingNew, Handle, BatchDone, WorkerAcked, Restart, Advance, busVars
    <3> QED BY <3>1, <3>2
  <2>2. ASSUME NEW q \in Callers, q # p PROVE PostOK(q)'
    <3>1. Own(q) /\ pc'[q] = pc[q]
      BY <1>2, <2>2, OwnReads, Frame DEF Inv
    <3> QED BY <1>1, <3>1, Zenon DEF PostOK, Own
  <2>3. PostOK(p)'
    BY <1>1, <1>2, OwnPost DEF LawfulOK
  <2> QED BY <2>1, <2>2, <2>3, Zenon DEF LawfulOK
<1>3. ASSUME NEW q \in Policies, Redeclare(q) PROVE policy' # Undeclared /\ \A p \in Callers : PostOK(p)'
  <2>1. policy' # Undeclared
    BY <1>3 DEF Redeclare, Declare
  <2>2. ASSUME NEW p \in Callers PROVE PostOK(p)'
    <3>1. lawful[p] => lawful'[p]
      BY <1>3, Zenon DEF Redeclare, Declare
    <3>2. pc' = pc /\ need' = need
      BY <1>3 DEF Redeclare, Declare
    <3> QED BY <1>1, <3>1, <3>2, Zenon DEF PostOK
  <2> QED BY <2>1, <2>2
<1>4. CASE UNCHANGED vars
  <2>1. pc' = pc /\ need' = need /\ lawful' = lawful /\ policy' = policy
    BY <1>4 DEF vars, busVars, callVars
  <2> QED BY <2>1, Zenon DEF LawfulOK, PostsWereAllowed
<1>5. CASE policy' # Undeclared /\ \A p \in Callers : PostOK(p)'
  BY <1>5, Zenon DEF LawfulOK, PostsWereAllowed, PostOK
<1> QED BY <1>2, <1>3, <1>4, <1>5, WhoMoves, Zenon

(* PostsWereAllowed, for a channel that is declared from the start: post's two  *)
(* lookups of the policy never let through what no policy allowed.  (While a    *)
(* channel is undeclared the first lookup needs no scope at all, and a          *)
(* declaration before the second lets the post through.)                       *)
THEOREM OnlyAllowedPosts ==
  ASSUME Undeclared \notin FirstPolicy
  PROVE  Spec => []PostsWereAllowed
<1>1. Init => LawfulOK
  BY DEF Init, BusInit, LawfulOK, PostsWereAllowed
<1>2. LawfulOK => PostsWereAllowed
  BY DEF LawfulOK
<1> QED BY <1>1, <1>2, InvStarts, InvStep, LawfulStep, PTL DEF Spec

-----------------------------------------------------------------------------
(* What a worker subject has acknowledged is answered.  A worker that is at a   *)
(* message of its batch has answered those before it; one that acknowledges,   *)
(* all of them.                                                                *)
Answers(log, s, i) ==
  log[i].kind = "task" /\ Addressee[log[i].task] = s
  => \E j \in DOMAIN log : /\ log[j].kind = "result" /\ log[j].task = log[i].task
                           /\ log[j].sender = s

Settled(log, s, n) == \A i \in 1 .. n : Answers(log, s, i)

WorkerOK(w) ==
  /\ pc[w] \in {"reading", "handling"} => Settled(messages, SubjectOf[w], at[w])
  /\ pc[w] \in {"posting", "appending"} =>
       /\ at[w] >= 1 /\ Settled(messages, SubjectOf[w], at[w] - 1)
       /\ messages[at[w]].task = job[w].task
  /\ pc[w] \in {"acking", "advancing"} => Settled(messages, SubjectOf[w], upTo[w])

SettledOK ==
  /\ \A w \in Workers : Settled(messages, SubjectOf[w], cursor[SubjectOf[w]])
  /\ \A w \in Workers : WorkerOK(w)

(* A log only grows, so what is answered stays so.                             *)
LEMMA StaysSettled ==
  ASSUME NEW log \in Seq(Messages), NEW longer \in Seq(Messages), Len(log) <= Len(longer),
         \A i \in 1 .. Len(log) : longer[i] = log[i],
         NEW s, NEW n \in Nat, n <= Len(log), Settled(log, s, n)
  PROVE  Settled(longer, s, n)
<1> SUFFICES ASSUME NEW i \in 1 .. n PROVE Answers(longer, s, i)
  BY DEF Settled
<1>1. i \in 1 .. Len(log) /\ Answers(log, s, i) /\ longer[i] = log[i]
  BY DEF Settled
<1>2. \A j \in DOMAIN log : j \in DOMAIN longer /\ longer[j] = log[j]
  OBVIOUS
<1> QED BY <1>1, <1>2, Zenon DEF Answers

LEMMA Grows ==
  ASSUME Inv, [Next]_vars
  PROVE  /\ messages \in Seq(Messages) /\ messages' \in Seq(Messages)
         /\ Len(messages) <= Len(messages')
         /\ \A i \in 1 .. Len(messages) : messages'[i] = messages[i]
<1>1. messages \in Seq(Messages) /\ Len(messages) \in Nat
  BY DEF Inv, ChannelOK
<1> QED BY <1>1, LogGrows DEF Inv

LEMMA SettledKept ==
  ASSUME Inv, [Next]_vars, NEW s, NEW n \in Nat, n <= Len(messages), Settled(messages, s, n)
  PROVE  Settled(messages', s, n)
  BY Grows, StaysSettled

(* A worker whose batch holds nothing more for it between two places has        *)
(* nothing to answer there.                                                    *)
LEMMA NothingBetween ==
  ASSUME Inv, NEW w \in Workers, NEW n \in Nat, n <= upTo[w],
         Settled(messages, SubjectOf[w], at[w]), \A i \in Mine(w) : i > n
  PROVE  Settled(messages, SubjectOf[w], n)
<1> SUFFICES ASSUME NEW i \in 1 .. n PROVE Answers(messages, SubjectOf[w], i)
  BY DEF Settled
<1>1. at[w] \in Nat /\ upTo[w] \in Nat
  BY DEF Inv, ChannelOK
<1>2. CASE i <= at[w]
  BY <1>1, <1>2 DEF Settled
<1>3. CASE i > at[w]
  <2>1. i \in Batch(w)
    BY <1>1, <1>3 DEF Batch
  <2>2. i \notin Mine(w)
    BY <1>1
  <2> QED BY <2>1, <2>2, Zenon DEF Mine, Answers
<1> QED BY <1>1, <1>2, <1>3

LEMMA OthersStaySettled ==
  ASSUME Inv, [Next]_vars, NEW w \in Workers, WorkerOK(w),
         pc'[w] = pc[w], at'[w] = at[w], upTo'[w] = upTo[w], job'[w] = job[w]
  PROVE  WorkerOK(w)'
<1>1. /\ at[w] \in Nat /\ upTo[w] \in Nat /\ at[w] <= upTo[w] /\ upTo[w] <= Len(messages)
      /\ Len(messages) \in Nat
  BY DEF Inv, ChannelOK
<1>2. pc[w] \in {"reading", "handling"} => Settled(messages', SubjectOf[w], at[w])
  BY <1>1, SettledKept DEF WorkerOK
<1>3. pc[w] \in {"posting", "appending"} =>
       /\ at[w] >= 1 /\ Settled(messages', SubjectOf[w], at[w] - 1)
       /\ messages'[at[w]].task = job[w].task
  <2> SUFFICES ASSUME pc[w] \in {"posting", "appending"}
               PROVE  /\ at[w] >= 1 /\ Settled(messages', SubjectOf[w], at[w] - 1)
                      /\ messages'[at[w]].task = job[w].task
    OBVIOUS
  <2>1. at[w] >= 1 /\ Settled(messages, SubjectOf[w], at[w] - 1) /\ messages[at[w]].task = job[w].task
    BY DEF WorkerOK
  <2>2. at[w] - 1 \in Nat /\ at[w] - 1 <= Len(messages)
    BY <1>1, <2>1
  <2>3. Settled(messages', SubjectOf[w], at[w] - 1)
    BY <2>1, <2>2, SettledKept
  <2>4. messages'[at[w]] = messages[at[w]]
    BY <1>1, <2>1, Grows
  <2> QED BY <2>1, <2>3, <2>4
<1>4. pc[w] \in {"acking", "advancing"} => Settled(messages', SubjectOf[w], upTo[w])
  BY <1>1, SettledKept DEF WorkerOK
<1> QED BY <1>2, <1>3, <1>4 DEF WorkerOK

LEMMA WorkerStep ==
  ASSUME Inv, SettledOK, [Next]_vars, NEW w \in Workers, StepOf(w)
  PROVE  WorkerOK(w)'
<1>1. /\ at[w] \in Nat /\ upTo[w] \in Nat /\ at[w] <= upTo[w] /\ upTo[w] <= Len(messages)
      /\ Len(messages) \in Nat /\ w \in Callers /\ w \notin Orchestrators /\ WorkerOK(w)
      /\ pc \in [Callers -> PCs] /\ at \in [Callers -> Nat] /\ upTo \in [Callers -> Nat]
      /\ job \in [Callers -> Messages \cup {NoJob}]
  BY DEF Inv, ChannelOK, SettledOK
<1>2. ASSUME pc'[w] \in {"idle", "down", "catching"} PROVE WorkerOK(w)'
  BY <1>2 DEF WorkerOK
<1>3. ASSUME NEW n \in Nat, n <= Len(messages), Settled(messages, SubjectOf[w], n)
      PROVE  Settled(messages', SubjectOf[w], n)
  BY <1>3, SettledKept
<1>4. CASE Post(w)
  <2>1. pc'[w] = "appending" /\ pc[w] = "posting" /\ UNCHANGED <<messages, at, upTo, job>>
    BY <1>1, <1>4 DEF Post, Goto
  <2> QED BY <1>1, <2>1 DEF WorkerOK
<1>5. CASE Commit(w)
  <2>1. pc[w] = "appending" /\ pc'[w] = "handling" /\ UNCHANGED <<at, upTo>>
        /\ CommitAppend(w, job[w]) /\ job[w] \in Messages /\ slot[w] = Len(messages) + 1
    BY <1>1, <1>5 DEF Commit, Goto, Posted, Inv, ChannelOK
  <2>2. /\ messages' \in Seq(Messages) /\ Len(messages') = Len(messages) + 1
        /\ \A i \in 1 .. Len(messages) : messages'[i] = messages[i]
        /\ messages'[Len(messages) + 1] = job[w]
    BY <1>1, <2>1, Appends DEF Inv, ChannelOK
  <2>3. at[w] >= 1 /\ Settled(messages, SubjectOf[w], at[w] - 1) /\ messages[at[w]].task = job[w].task
        /\ job[w].kind = "result" /\ job[w].sender = SubjectOf[w]
    BY <1>1, <2>1 DEF WorkerOK, Inv, IssuedOK
  <2>4. at[w] - 1 \in Nat /\ at[w] - 1 <= Len(messages)
    BY <1>1, <2>3
  <2>5. Settled(messages', SubjectOf[w], at[w] - 1)
    BY <1>3, <2>3, <2>4
  <2>6. Answers(messages', SubjectOf[w], at[w])
    <3>1. Len(messages) + 1 \in DOMAIN messages' /\ messages'[at[w]] = messages[at[w]]
      BY <1>1, <2>2, <2>3
    <3> QED BY <2>2, <2>3, <3>1, Zenon DEF Answers
  <2>7. Settled(messages', SubjectOf[w], at[w])
    <3>1. \A i \in 1 .. at[w] : i \in 1 .. (at[w] - 1) \/ i = at[w]
      BY <1>1, <2>3
    <3> QED BY <2>5, <2>6, <3>1, Zenon DEF Settled
  <2> QED BY <2>1, <2>7 DEF WorkerOK
<1>6. CASE CatchUp(w)
  <2>1. at' = [at EXCEPT ![w] = cursor[SubjectOf[w]]] /\ pc'[w] = "reading" /\ UNCHANGED messages
    BY <1>1, <1>6 DEF CatchUp, Goto
  <2>2. Settled(messages, SubjectOf[w], cursor[SubjectOf[w]])
    BY DEF SettledOK
  <2> QED BY <1>1, <2>1, <2>2 DEF WorkerOK
<1>7. CASE ReadPage(w)
  <2>1. pc[w] = "reading" /\ UNCHANGED <<messages, pc, at>>
    BY <1>7 DEF ReadPage, busVars
  <2> QED BY <1>1, <2>1 DEF WorkerOK
<1>8. CASE Ack(w)
  <2>1. pc[w] = "acking" /\ pc'[w] = "advancing" /\ UNCHANGED <<messages, upTo>>
    BY <1>1, <1>8 DEF Ack, Goto
  <2> QED BY <1>1, <2>1 DEF WorkerOK
<1>9. CASE Denied(w) \/ Fails(w) \/ FailsLate(w)
  <2>1. Raise(w)
    BY <1>9 DEF Denied, Fails, FailsLate
  <2>2. CASE trying[w]
    <3>1. pc[w] \in {"posting", "appending"} /\ job[w] \in Messages
      BY <2>2 DEF Inv, TryingOK, ChannelOK
    <3>2. pc'[w] = "posting" /\ job'[w].task = job[w].task /\ UNCHANGED <<at, upTo>>
      BY <1>1, <2>1, <2>2 DEF Raise, Reply, Goto
    <3>3. at[w] >= 1 /\ Settled(messages, SubjectOf[w], at[w] - 1) /\ messages[at[w]].task = job[w].task
      BY <1>1, <3>1 DEF WorkerOK
    <3>4. at[w] - 1 \in Nat /\ at[w] - 1 <= Len(messages)
      BY <1>1, <3>3
    <3>5. Settled(messages', SubjectOf[w], at[w] - 1)
      BY <1>3, <3>3, <3>4
    <3>6. messages'[at[w]] = messages[at[w]]
      BY <1>1, <3>3, Grows
    <3> QED BY <3>2, <3>3, <3>5, <3>6 DEF WorkerOK
  <2>3. CASE ~trying[w]
    <3>1. pc'[w] = "down"
      BY <1>1, <2>1, <2>3 DEF Raise, Leave, Goto
    <3> QED BY <1>2, <3>1
  <2> QED BY <2>2, <2>3
<1>10. CASE RunOnce(w) \/ WorkerAcked(w) \/ Restart(w) \/ Crash(w)
  <2>1. pc'[w] \in {"idle", "down", "catching"}
    BY <1>1, <1>10 DEF RunOnce, WorkerAcked, Restart, Crash, Leave, Goto
  <2> QED BY <1>2, <2>1
<1>11. CASE NothingNew(w)
  <2>1. CASE Leave(w, "idle")
    <3>1. pc'[w] = "idle"
      BY <1>1, <2>1 DEF Leave, Goto
    <3> QED BY <1>2, <3>1
  <2>2. CASE Goto(w, "handling") /\ UNCHANGED <<at, upTo>>
    <3>1. pc[w] = "reading" /\ pc'[w] = "handling" /\ UNCHANGED <<messages, at>>
      BY <1>1, <1>11, <2>2 DEF NothingNew, Goto, busVars
    <3> QED BY <1>1, <3>1 DEF WorkerOK
  <2> QED BY <1>11, <2>1, <2>2 DEF NothingNew
<1>12. CASE Handle(w)
  <2> DEFINE i == Min(Mine(w))
  <2>1. /\ i \in (at[w] + 1) .. upTo[w] /\ messages[i] \in Messages
        /\ \A k \in Mine(w) : i <= k
    BY <1>1, <1>12, NextOfBatch DEF Handle, Inv
  <2>2. /\ at' = [at EXCEPT ![w] = i]
        /\ job' = [job EXCEPT ![w] = [kind |-> "result", task |-> messages[i].task,
                                      sender |-> SubjectOf[w]]]
        /\ pc[w] = "handling" /\ pc' = [pc EXCEPT ![w] = "posting"]
        /\ UNCHANGED messages
    BY <1>12 DEF Handle, Reply, Goto
  <2> HIDE DEF i
  <2>3. i - 1 \in Nat /\ i - 1 <= upTo[w] /\ i >= 1 /\ \A k \in Mine(w) : k > i - 1
    <3>1. \A k \in Mine(w) : k \in Nat
      BY <1>1 DEF Mine, Batch
    <3> QED BY <1>1, <2>1, <3>1
  <2>4. Settled(messages, SubjectOf[w], i - 1)
    BY <1>1, <2>2, <2>3, NothingBetween DEF WorkerOK
  <2>5. at'[w] = i /\ job'[w].task = messages[i].task /\ pc'[w] = "posting"
    BY <1>1, <2>2
  <2> QED BY <2>2, <2>3, <2>4, <2>5 DEF WorkerOK
<1>13. CASE BatchDone(w)
  <2>1. pc[w] = "handling" /\ pc'[w] = "acking" /\ UNCHANGED <<messages, upTo>> /\ Mine(w) = {}
    BY <1>1, <1>13 DEF BatchDone, Goto
  <2>2. Settled(messages, SubjectOf[w], upTo[w])
    BY <1>1, <2>1, NothingBetween DEF WorkerOK
  <2> QED BY <2>1, <2>2 DEF WorkerOK
<1> QED BY <1>1, <1>4, <1>5, <1>6, <1>7, <1>8, <1>9, <1>10, <1>11, <1>12, <1>13
        DEF StepOf, Moves, Call, Work

(* No process of an orchestrator's subject is a worker: they would share a      *)
(* cursor, and a gather would acknowledge tasks.                               *)
Apart == \A o \in Orchestrators, w \in Workers : SubjectOf[o] # SubjectOf[w]

LEMMA CursorSettled ==
  ASSUME Inv, SettledOK, Apart, NEW p \in Callers, StepOf(p), [Next]_vars, NEW w \in Workers
  PROVE  Settled(messages', SubjectOf[w], cursor'[SubjectOf[w]])
<1> DEFINE s == SubjectOf[w]
<1>1. /\ s \in Subjects /\ cursor[s] \in Nat /\ cursor[s] <= Len(messages)
      /\ upTo[p] \in Nat /\ upTo[p] <= Len(messages)
      /\ Settled(messages, s, cursor[s])
  BY SubjectsOf DEF Inv, ChannelOK, SettledOK
<1>2. Settled(messages', s, cursor[s])
  BY <1>1, SettledKept
<1>3. CASE cursor'[s] = cursor[s]
  BY <1>2, <1>3
<1>4. CASE cursor'[s] # cursor[s]
  <2>1. Moving(p)
    BY <1>4, OnlyAdvanceMoves
  <2>2. cursor'[s] = upTo[p] /\ s = SubjectOf[p] /\ pc[p] = "advancing"
    BY <1>1, <1>4, <2>1, AdvanceMoves DEF Inv
  <2>3. p \in Workers
    BY <2>2 DEF Apart
  <2>4. Settled(messages, s, upTo[p])
    BY <2>2, <2>3 DEF SettledOK, WorkerOK
  <2>5. Settled(messages', s, upTo[p])
    BY <1>1, <2>4, SettledKept
  <2> QED BY <2>2, <2>5
<1> QED BY <1>3, <1>4

LEMMA SettledStep == Apart /\ Inv /\ SettledOK /\ [Next]_vars => SettledOK'
<1> SUFFICES ASSUME Apart, Inv, SettledOK, [Next]_vars PROVE SettledOK'
  OBVIOUS
<1>1. ASSUME NEW p \in Callers, StepOf(p) PROVE SettledOK'
  <2>1. ASSUME NEW w \in Workers PROVE WorkerOK(w)'
    <3>1. CASE w = p
      BY <1>1, <3>1, WorkerStep
    <3>2. CASE w # p
      <4>1. w \in Callers /\ WorkerOK(w)
        BY DEF SettledOK
      <4>2. pc'[w] = pc[w] /\ at'[w] = at[w] /\ upTo'[w] = upTo[w] /\ job'[w] = job[w]
        BY <1>1, <3>2, <4>1, Frame DEF Inv
      <4> QED BY <4>1, <4>2, OthersStaySettled
    <3> QED BY <3>1, <3>2
  <2>2. \A w \in Workers : Settled(messages', SubjectOf[w], cursor'[SubjectOf[w]])
    BY <1>1, CursorSettled
  <2> QED BY <2>1, <2>2 DEF SettledOK
<1>2. CASE UNCHANGED <<pc, at, upTo, job, messages, cursor>>
  BY <1>2 DEF SettledOK, WorkerOK
<1> QED BY <1>1, <1>2, WhoMoves DEF Redeclare, Declare, vars, callVars, busVars

(* AckedIsAnswered, for worker subjects no orchestrator shares: whatever raises *)
(* or dies and when, and however many processes share the subject, run_worker   *)
(* acknowledges no task that has not been answered.                            *)
THEOREM AckedAnswered ==
  ASSUME Apart
  PROVE  Spec => []AckedIsAnswered
<1>1. Init => SettledOK
  <2> SUFFICES ASSUME Init PROVE SettledOK
    OBVIOUS
  <2>1. ASSUME NEW w \in Workers PROVE Settled(messages, SubjectOf[w], cursor[SubjectOf[w]])
    <3>1. cursor[SubjectOf[w]] = 0
      BY SubjectsOf DEF Init, BusInit
    <3> QED BY <3>1 DEF Settled
  <2>2. ASSUME NEW w \in Workers PROVE WorkerOK(w)
    <3>1. pc[w] \in {"idle", "absent"}
      BY DEF Init
    <3> QED BY <3>1 DEF WorkerOK
  <2> QED BY <2>1, <2>2 DEF SettledOK
<1>2. SettledOK => AckedIsAnswered
  BY Zenon DEF SettledOK, Settled, Answers, AckedIsAnswered
<1>3. Inv /\ SettledOK /\ [Next]_vars => SettledOK'
  BY SettledStep
<1> QED BY <1>1, <1>2, <1>3, InvStarts, InvStep, PTL DEF Spec

-----------------------------------------------------------------------------
(* What an orchestrator's subject has acknowledged is accounted for.  A gather  *)
(* that is reading starts from what was; when it acknowledges, it holds what it *)
(* was asked for of its batch, and so of all it has acknowledged.               *)
Accounted(t) == t \in collected \cup forgone \/ InHand(t)

Got(n) == \A i \in 1 .. n : messages[i].kind = "result" => Accounted(messages[i].task)

GatherOK(o) ==
  /\ acked[o] \cap wanted[o] \subseteq found[o]
  /\ pc[o] \in {"idle", "posting", "appending", "down", "absent"} => acked[o] = {}
  /\ pc[o] \in {"reading", "acking", "advancing"} => Got(at[o])
  /\ pc[o] \in {"acking", "advancing"} => Answered(o) \cap wanted[o] \subseteq found[o]

CollectedOK ==
  /\ \A o \in Orchestrators : Got(cursor[SubjectOf[o]])
  /\ \A o \in Orchestrators : GatherOK(o)

(* What is accounted for stays so.                                             *)
LEMMA AccountedKept ==
  ASSUME Inv, CollectedOK, NEW p \in Callers, StepOf(p), NEW t, Accounted(t)
  PROVE  Accounted(t)'
<1>0. ChannelOK /\ FunctionsOK
  BY DEF Inv
<1>1. CASE UNCHANGED gatherVars
  BY <1>1 DEF gatherVars, Accounted, InHand
<1>2. ASSUME collected \subseteq collected', forgone \subseteq forgone',
             p \in Orchestrators /\ t \in acked[p] /\ (t \in wanted[p] => t \in found[p])
             => Accounted(t)'
      PROVE  Accounted(t)'
  <2>1. CASE t \in collected \cup forgone
    BY <1>2, <2>1 DEF Accounted
  <2>2. CASE InHand(t)
    <3>1. PICK o \in Orchestrators : t \in acked[o] /\ (t \in wanted[o] => t \in found[o])
      BY <2>2 DEF InHand
    <3>2. CASE o = p
      BY <1>2, <3>1, <3>2
    <3>3. CASE o # p
      <4>1. acked'[o] = acked[o] /\ wanted'[o] = wanted[o] /\ found'[o] = found[o]
        BY <1>0, <3>3, OwnGather
      <4> QED BY <3>1, <4>1 DEF Accounted, InHand
    <3> QED BY <3>2, <3>3
  <2> QED BY <2>1, <2>2 DEF Accounted
<1>3. CASE p \in Orchestrators /\ Gather(p)
  <2>1. pc[p] = "idle" => acked[p] = {}
    BY <1>3 DEF CollectedOK, GatherOK
  <2>2. UNCHANGED <<acked, found, collected, forgone>> /\ (pc[p] = "idle" \/ UNCHANGED wanted)
    BY <1>3 DEF Gather
  <2> QED BY <1>2, <1>3, <2>1, <2>2 DEF Accounted, InHand
<1>4. CASE p \in Orchestrators /\ NoteResults(p)
  <2>1. UNCHANGED <<acked, wanted, collected, forgone>> /\ found[p] \subseteq found'[p]
    BY <1>0, <1>4 DEF NoteResults, FunctionsOK
  <2> QED BY <1>2, <1>4, <2>1 DEF Accounted, InHand
<1>5. ASSUME p \in Orchestrators, NEW a, acked[p] \subseteq a, Return(p, a) PROVE Accounted(t)'
  BY <1>2, <1>5 DEF Return, Accounted
<1>6. CASE p \in Orchestrators /\ GatherAcked(p)
  <2>1. CASE Return(p, acked[p] \cup Answered(p))
    BY <1>5, <1>6, <2>1
  <2>2. CASE /\ acked' = [acked EXCEPT ![p] = @ \cup Answered(p)]
             /\ UNCHANGED <<wanted, found, collected, forgone>>
    <3>1. acked[p] \subseteq acked'[p]
      BY <1>0, <1>6, <2>2 DEF FunctionsOK
    <3> QED BY <1>2, <1>6, <2>2, <3>1 DEF Accounted, InHand
  <2> QED BY <1>6, <2>1, <2>2 DEF GatherAcked
<1>7. CASE p \in Orchestrators /\ GatherEnds(p)
  BY <1>5, <1>7 DEF GatherEnds
<1>8. CASE GivesUp(p)
  BY <1>2, <1>8 DEF GivesUp, GiveUp, Accounted
<1> QED BY <1>0, <1>1, <1>3, <1>4, <1>6, <1>7, <1>8, GatherMoves

LEMMA GotKept ==
  ASSUME Inv, CollectedOK, [Next]_vars, NEW p \in Callers, StepOf(p),
         NEW n \in Nat, n <= Len(messages), Got(n)
  PROVE  Got(n)'
<1> SUFFICES ASSUME NEW i \in 1 .. n, messages'[i].kind = "result"
             PROVE  Accounted(messages[i].task)'
  BY DEF Got
<1>1. i \in 1 .. Len(messages)
  BY Grows
<1>2. messages'[i] = messages[i]
  BY <1>1, Grows
<1>3. PICK t : t = messages[i].task
  OBVIOUS
<1>4. Accounted(t)
  BY <1>2, <1>3 DEF Got
<1>5. Accounted(t)'
  BY <1>4, AccountedKept
<1>6. messages'[i].task = t
  BY <1>2, <1>3
<1> QED BY <1>5, <1>6 DEF Accounted, InHand

LEMMA AnsweredKept ==
  ASSUME Inv, [Next]_vars, NEW o \in Callers, at'[o] = at[o], upTo'[o] = upTo[o]
  PROVE  Answered(o)' = Answered(o)
<1>1. Batch(o)' = Batch(o) /\ \A i \in Batch(o) : i \in 1 .. Len(messages)
  BY DEF Batch, Inv, ChannelOK
<1>2. \A i \in Batch(o) : messages'[i] = messages[i]
  BY <1>1, Grows
<1> QED BY <1>1, <1>2 DEF Answered

LEMMA GatherStep ==
  ASSUME Inv, CollectedOK, [Next]_vars, NEW o \in Orchestrators, StepOf(o)
  PROVE  GatherOK(o)'
<1>1. /\ at[o] \in Nat /\ upTo[o] \in Nat /\ at[o] <= upTo[o] /\ upTo[o] <= Len(messages)
      /\ o \in Callers /\ o \notin Workers /\ GatherOK(o)
      /\ pc \in [Callers -> PCs] /\ at \in [Callers -> Nat] /\ upTo \in [Callers -> Nat]
      /\ ChannelOK /\ FunctionsOK
  BY DEF Inv, ChannelOK, CollectedOK
<1>2. ASSUME EndGather(o), pc'[o] \in {"idle", "down"} PROVE GatherOK(o)'
  <2>1. acked'[o] = {}
    BY <1>2 DEF EndGather
  <2> QED BY <1>2, <2>1 DEF GatherOK
<1>3. CASE GivesUp(o)
  BY <1>2, <1>3 DEF GivesUp, GiveUp
<1>4. CASE Gather(o)
  <2>1. pc'[o] = "catching" /\ UNCHANGED <<acked, found>>
    BY <1>1, <1>4 DEF Gather, Goto
  <2>2. acked[o] = {} \/ UNCHANGED wanted
    BY <1>1, <1>4 DEF Gather, GatherOK
  <2> QED BY <1>1, <2>1, <2>2 DEF GatherOK
<1>5. CASE NoteResults(o)
  <2>1. /\ pc[o] = "reading" /\ pc'[o] = "acking" /\ UNCHANGED <<at, upTo, acked, wanted>>
        /\ found'[o] = found[o] \cup (Answered(o) \cap wanted[o])
    BY <1>1, <1>5 DEF NoteResults, Goto, FunctionsOK
  <2>2. Got(at[o])'
    <3>1. Got(at[o])
      BY <1>1, <2>1 DEF GatherOK
    <3>2. PICK n \in Nat : n = at[o]
      BY <1>1
    <3>3. Got(n)'
      BY <1>1, <3>1, <3>2, GotKept
    <3> QED BY <2>1, <3>2, <3>3
  <2>3. Answered(o)' = Answered(o)
    BY <1>1, <2>1, AnsweredKept
  <2> QED BY <1>1, <2>1, <2>2, <2>3 DEF GatherOK
<1>6. CASE GatherEnds(o)
  <2>1. EndGather(o) /\ pc'[o] = "idle"
    BY <1>1, <1>6 DEF GatherEnds, Return, Leave, Goto
  <2> QED BY <1>2, <2>1
<1>7. CASE GatherAcked(o)
  <2>1. CASE Return(o, acked[o] \cup Answered(o))
    <3>1. EndGather(o) /\ pc'[o] = "idle"
      BY <1>1, <2>1 DEF Return, Leave, Goto
    <3> QED BY <1>2, <3>1
  <2>2. CASE /\ acked' = [acked EXCEPT ![o] = @ \cup Answered(o)] /\ Leave(o, "looping")
             /\ UNCHANGED <<wanted, found>>
    <3>1. pc[o] = "advancing" /\ pc'[o] = "looping" /\ acked'[o] = acked[o] \cup Answered(o)
      BY <1>1, <1>7, <2>2 DEF GatherAcked, Advance, Leave, Goto, FunctionsOK
    <3>2. acked'[o] \cap wanted[o] \subseteq found[o]
      BY <1>1, <3>1 DEF GatherOK
    <3> QED BY <2>2, <3>1, <3>2 DEF GatherOK
  <2> QED BY <1>7, <2>1, <2>2 DEF GatherAcked
<1>8. CASE UNCHANGED gatherVars
  <2>1. UNCHANGED <<acked, wanted, found>> /\ acked[o] \cap wanted[o] \subseteq found[o]
    BY <1>1, <1>8 DEF gatherVars, GatherOK
  <2>2. CASE Denied(o) \/ Fails(o) \/ FailsLate(o) \/ Crash(o)
    <3>1. EndGather(o)
      BY <2>2 DEF Denied, Fails, FailsLate, Crash, GiveUp
    <3>2. pc'[o] \in {"idle", "down"}
      BY <1>1, <2>2 DEF Denied, Fails, FailsLate, Crash, Raise, Leave, Goto
    <3> QED BY <1>2, <3>1, <3>2
  <2>3. CASE Post(o) \/ Commit(o) \/ (\E t \in Tasks : Dispatch(o, t)) \/ Restart(o)
    <3>1. /\ pc[o] \in {"idle", "posting", "appending", "down"}
          /\ pc'[o] \in {"idle", "posting", "appending"}
      BY <1>1, <2>3 DEF Post, Commit, Posted, Dispatch, Restart, Goto
    <3> QED BY <1>1, <2>1, <3>1 DEF GatherOK
  <2>4. CASE CatchUp(o)
    <3>1. at'[o] = cursor[SubjectOf[o]] /\ pc'[o] = "reading"
      BY <1>1, <2>4 DEF CatchUp, Goto
    <3>2. PICK n \in Nat : n = cursor[SubjectOf[o]] /\ n <= Len(messages)
      BY <1>1, SubjectsOf DEF ChannelOK
    <3>3. Got(n)
      BY <3>2 DEF CollectedOK
    <3>4. Got(n)'
      BY <1>1, <3>2, <3>3, GotKept
    <3>5. Got(at[o])'
      BY <3>1, <3>2, <3>4
    <3> QED BY <2>1, <3>1, <3>5 DEF GatherOK
  <2>5. CASE ReadPage(o)
    <3>1. pc[o] = "reading" /\ UNCHANGED <<pc, at>>
      BY <2>5 DEF ReadPage
    <3>2. PICK n \in Nat : n = at[o] /\ n <= Len(messages)
      BY <1>1
    <3>3. Got(n)
      BY <1>1, <3>1, <3>2 DEF GatherOK
    <3>4. Got(n)'
      BY <1>1, <3>2, <3>3, GotKept
    <3>5. Got(at[o])'
      BY <3>1, <3>2, <3>4
    <3> QED BY <2>1, <3>1, <3>5 DEF GatherOK
  <2>6. CASE Ack(o)
    <3>1. pc[o] = "acking" /\ pc'[o] = "advancing" /\ UNCHANGED <<at, upTo>>
      BY <1>1, <2>6 DEF Ack, Goto
    <3>2. PICK n \in Nat : n = at[o] /\ n <= Len(messages)
      BY <1>1
    <3>3. Got(n)
      BY <1>1, <3>1, <3>2 DEF GatherOK
    <3>4. Got(n)'
      BY <1>1, <3>2, <3>3, GotKept
    <3>5. Got(at[o])'
      BY <3>1, <3>2, <3>4
    <3>6. Answered(o)' = Answered(o)
      BY <1>1, <3>1, AnsweredKept
    <3> QED BY <1>1, <2>1, <3>1, <3>5, <3>6 DEF GatherOK
  <2> QED BY <1>1, <1>4, <1>5, <1>6, <1>7, <2>2, <2>3, <2>4, <2>5, <2>6, Zenon
          DEF StepOf, Moves, Call, Orchestrate
<1> QED BY <1>1, <1>3, <1>4, <1>5, <1>6, <1>7, <1>8, GatherMoves

LEMMA OthersGather ==
  ASSUME Inv, CollectedOK, [Next]_vars, NEW p \in Callers, StepOf(p),
         NEW o \in Orchestrators, o # p
  PROVE  GatherOK(o)'
<1>1. /\ at[o] \in Nat /\ at[o] <= Len(messages) /\ o \in Callers /\ GatherOK(o)
      /\ ChannelOK /\ FunctionsOK
  BY DEF Inv, ChannelOK, CollectedOK
<1>2. pc'[o] = pc[o] /\ at'[o] = at[o] /\ upTo'[o] = upTo[o]
  BY <1>1, Frame
<1>3. wanted'[o] = wanted[o] /\ found'[o] = found[o] /\ acked'[o] = acked[o]
  BY <1>1, OwnGather
<1>4. PICK n \in Nat : n = at[o] /\ n <= Len(messages)
  BY <1>1
<1>5. Got(n) => Got(n)'
  BY <1>4, GotKept
<1>6. pc[o] \in {"reading", "acking", "advancing"} => Got(n)'
  BY <1>1, <1>4, <1>5 DEF GatherOK
<1>7. pc'[o] \in {"reading", "acking", "advancing"} => Got(at[o])'
  BY <1>2, <1>4, <1>6
<1>8. Answered(o)' = Answered(o)
  BY <1>1, <1>2, AnsweredKept
<1> QED BY <1>1, <1>2, <1>3, <1>7, <1>8 DEF GatherOK

(* A move of the cursor: of the batch, what was asked for is in hand or         *)
(* returned, and the rest is given up.                                         *)
LEMMA BatchAccounted ==
  ASSUME Inv, CollectedOK, NEW p \in Orchestrators, StepOf(p), ~UNCHANGED cursor,
         NEW t \in Answered(p)
  PROVE  Accounted(t)'
<1>1. /\ pc[p] = "advancing" /\ p \in Callers /\ p \notin Workers
      /\ (t \in wanted[p] => t \in found[p]) /\ FunctionsOK /\ ChannelOK
  BY OnlyAdvanceMoves DEF Moving, CollectedOK, GatherOK, Inv
<1>2. CASE GatherAcked(p)
  <2>1. CASE Return(p, acked[p] \cup Answered(p))
    BY <1>1, <2>1 DEF Return, Accounted
  <2>2. CASE /\ acked' = [acked EXCEPT ![p] = @ \cup Answered(p)]
             /\ UNCHANGED <<wanted, found>>
    <3>1. t \in acked'[p]
      BY <1>1, <2>2 DEF FunctionsOK
    <3> QED BY <1>1, <2>2, <3>1 DEF Accounted, InHand
  <2> QED BY <1>2, <2>1, <2>2 DEF GatherAcked
<1>3. CASE FailsLate(p)
  <2>1. GiveUp(p, Acked(p) \cup Answered(p))
    BY <1>1, <1>3 DEF FailsLate
  <2> QED BY <2>1 DEF GiveUp, Accounted
<1> QED BY <1>1, <1>2, <1>3, OnlyAdvanceMoves

LEMMA CursorCollected ==
  ASSUME Inv, CollectedOK, Apart, NEW p \in Callers, StepOf(p), [Next]_vars,
         NEW o \in Orchestrators
  PROVE  Got(cursor[SubjectOf[o]])'
<1> DEFINE s == SubjectOf[o]
<1>1. /\ s \in Subjects /\ cursor[s] \in Nat /\ cursor[s] <= Len(messages)
      /\ at[p] \in Nat /\ upTo[p] \in Nat /\ at[p] <= upTo[p] /\ upTo[p] <= Len(messages)
      /\ Got(cursor[s])
  BY SubjectsOf DEF Inv, ChannelOK, CollectedOK
<1>2. CASE cursor'[s] = cursor[s]
  <2>1. PICK n \in Nat : n = cursor[s] /\ n <= Len(messages)
    BY <1>1
  <2>2. Got(n)
    BY <1>1, <2>1
  <2>3. Got(n)'
    BY <2>1, <2>2, GotKept
  <2> QED BY <1>2, <2>1, <2>3
<1>3. CASE cursor'[s] # cursor[s]
  <2>1. Moving(p) /\ ~UNCHANGED cursor
    BY <1>3, OnlyAdvanceMoves
  <2>2. cursor'[s] = upTo[p] /\ s = SubjectOf[p] /\ pc[p] = "advancing"
    BY <1>1, <1>3, <2>1, AdvanceMoves DEF Inv
  <2>3. p \in Orchestrators
    BY <2>2 DEF Apart
  <2>4. PICK m \in Nat : m = at[p] /\ m <= Len(messages)
    BY <1>1
  <2>5. Got(m)
    BY <2>2, <2>3, <2>4 DEF CollectedOK, GatherOK
  <2>6. Got(m)'
    BY <2>4, <2>5, GotKept
  <2>7. PICK n \in Nat : n = upTo[p] /\ n <= Len(messages)
    BY <1>1
  <2>8. Got(n)'
    <3> SUFFICES ASSUME NEW i \in 1 .. n, messages'[i].kind = "result"
                 PROVE  Accounted(messages[i].task)'
      BY DEF Got
    <3>1. CASE i <= m
      <4>1. i \in 1 .. m
        BY <2>4, <2>7, <3>1
      <4> QED BY <2>6, <4>1 DEF Got
    <3>2. CASE i > m
      <4>1. i \in Batch(p) /\ i \in 1 .. Len(messages)
        BY <1>1, <2>4, <2>7, <3>2 DEF Batch
      <4>2. messages'[i] = messages[i]
        BY <4>1, Grows
      <4>3. PICK t \in Answered(p) : t = messages[i].task
        BY <4>1, <4>2 DEF Answered
      <4>4. Accounted(t)'
        BY <2>1, <2>3, BatchAccounted
      <4> QED BY <4>2, <4>3, <4>4 DEF Accounted, InHand
    <3> QED BY <2>4, <2>7, <3>1, <3>2
  <2> QED BY <2>2, <2>7, <2>8
<1> QED BY <1>2, <1>3

LEMMA CollectedStep == Apart /\ Inv /\ CollectedOK /\ [Next]_vars => CollectedOK'
<1> SUFFICES ASSUME Apart, Inv, CollectedOK, [Next]_vars PROVE CollectedOK'
  OBVIOUS
<1>1. ASSUME NEW p \in Callers, StepOf(p) PROVE CollectedOK'
  <2>1. ASSUME NEW o \in Orchestrators PROVE GatherOK(o)'
    <3>1. CASE o = p
      BY <1>1, <3>1, GatherStep
    <3>2. CASE o # p
      BY <1>1, <3>2, OthersGather
    <3> QED BY <3>1, <3>2
  <2>2. ASSUME NEW o \in Orchestrators PROVE Got(cursor[SubjectOf[o]])'
    BY <1>1, CursorCollected
  <2> QED BY <2>1, <2>2 DEF CollectedOK
<1>2. CASE UNCHANGED <<pc, at, upTo, gatherVars, messages, cursor>>
  BY <1>2 DEF CollectedOK, GatherOK, Got, Accounted, InHand, Answered, Batch, gatherVars
<1> QED BY <1>1, <1>2, WhoMoves DEF Redeclare, Declare, vars, callVars, busVars

(* NoResultLost: whoever posts, reads, raises or dies and when, and however     *)
(* many rounds and pages a gather takes, a result its subject has acknowledged  *)
(* is one it returned, holds, was not asked for, or gave up by raising or dying *)
(* after the acknowledgement.                                                  *)
THEOREM ResultsReturned ==
  ASSUME Apart
  PROVE  Spec => []NoResultLost
<1>1. Init => CollectedOK
  <2> SUFFICES ASSUME Init PROVE CollectedOK
    OBVIOUS
  <2>1. ASSUME NEW o \in Orchestrators PROVE Got(cursor[SubjectOf[o]])
    <3>1. cursor[SubjectOf[o]] = 0
      BY SubjectsOf DEF Init, BusInit
    <3> QED BY <3>1 DEF Got
  <2>2. ASSUME NEW o \in Orchestrators PROVE GatherOK(o)
    <3>1. pc[o] = "idle" /\ acked[o] = {}
      BY DEF Init
    <3> QED BY <3>1 DEF GatherOK
  <2> QED BY <2>1, <2>2 DEF CollectedOK
<1>2. CollectedOK => NoResultLost
  BY Zenon DEF CollectedOK, Got, Accounted, NoResultLost
<1>3. Inv /\ CollectedOK /\ [Next]_vars => CollectedOK'
  BY CollectedStep
<1> QED BY <1>1, <1>2, <1>3, InvStarts, InvStep, PTL DEF Spec
=============================================================================
