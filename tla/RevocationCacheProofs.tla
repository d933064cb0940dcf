---------------------- MODULE RevocationCacheProofs ------------------------
(* For every set of replicas and threads, every TTL and every bound on the     *)
(* length of a call, the cached revocation list is stale by less than the TTL   *)
(* and one call together.                                                       *)
EXTENDS RevocationCache, TLAPS

(* No call is older than MaxDelay, and no instant lies in the future. *)
DelayOK ==
  /\ \A th \in Threads : pc[th] # "idle" => started[th] <= now /\ now - started[th] <= MaxDelay
  /\ \A r \in Replicas : loadedAt[r] <= now
  /\ \A s \in Subjects : changedAt[s] <= now

(* A call in progress has a subject. *)
SubjectOK == \A th \in Threads : pc[th] # "idle" => subject[th] \in Subjects

(* What a refresh has read differs from the source only where the source has   *)
(* changed since the refresh began.                                            *)
ReadOK ==
  \A th \in Threads, s \in Subjects :
    pc[th] = "swap" /\ (s \in fresh[th]) # (s \in source) => started[th] <= changedAt[s]

(* A late local add or discard undoes only a change made since its call began. *)
WriteOK ==
  \A th \in Threads :
    \/ pc[th] = "adding" /\ subject[th] \notin source
    \/ pc[th] = "discarding" /\ subject[th] \in source
    => started[th] <= changedAt[subject[th]]

(* Where a copy differs from the source, the source has changed since          *)
(* MaxDelay before the copy was loaded.                                        *)
CopyOK ==
  \A r \in Replicas, s \in Subjects :
    primed[r] /\ (s \in cache[r]) # (s \in source) => loadedAt[r] - changedAt[s] <= MaxDelay

(* A thread about to look its subject up, on a copy it found or made fresh. *)
LookupOK ==
  \A th \in Threads :
    pc[th] = "lookup" =>
      /\ primed[Home[th]]
      /\ started[th] - loadedAt[Home[th]] < TTL

Inv ==
  /\ TypeOK /\ DelayOK /\ SubjectOK /\ ReadOK /\ WriteOK /\ CopyOK /\ LookupOK
  /\ BoundedStaleness

USE HomeAssumption, NoSubjectAssumption, TimeAssumption
USE DEF store, copies, calls, promises, vars, PCs, TypeOK

LEMMA InitInv == Init => Inv
  BY DEF Init, Inv, DelayOK, SubjectOK, ReadOK,
     WriteOK, CopyOK, LookupOK, BoundedStaleness, Wrong

-----------------------------------------------------------------------------
LEMMA TickKeeps == ASSUME Inv, Tick PROVE Inv'
  BY DEF Tick, Inv, DelayOK, SubjectOK, ReadOK,
     WriteOK, CopyOK, LookupOK, BoundedStaleness, Wrong

LEMMA BeginKeeps ==
  ASSUME Inv, NEW th \in Threads, NEW s \in Subjects,
         CallIsRevoked(th, s)
  PROVE  Inv'
  BY DEF CallIsRevoked, Begin, Goto, Inv, DelayOK, SubjectOK, ReadOK,
     WriteOK, CopyOK, LookupOK, BoundedStaleness, Wrong

LEMMA CheckKeeps == ASSUME Inv, NEW th \in Threads, CheckFresh(th) PROVE Inv'
  BY DEF CheckFresh, IsFresh, Goto, Inv, DelayOK, SubjectOK, ReadOK,
     WriteOK, CopyOK, LookupOK, BoundedStaleness, Wrong

LEMMA ReadKeeps == ASSUME Inv, NEW th \in Threads, ReadSource(th) PROVE Inv'
  BY DEF ReadSource, Goto, Inv, DelayOK, SubjectOK, ReadOK,
     WriteOK, CopyOK, LookupOK, BoundedStaleness, Wrong

LEMMA EndKeeps ==
  ASSUME Inv, NEW th \in Threads, ReadFails(th) \/ Return(th)
  PROVE  Inv'
<1>0. End(th) /\ UNCHANGED <<now, store, copies, acked>> /\ owed' \in [Threads -> BOOLEAN]
  BY DEF ReadFails, Return, Inv
<1>1. TypeOK' /\ DelayOK' /\ SubjectOK'
  BY <1>0 DEF End, Goto, Inv, DelayOK, SubjectOK
<1>2. ReadOK' /\ WriteOK' /\ CopyOK'
  BY <1>0 DEF End, Goto, Inv, ReadOK, WriteOK, CopyOK
<1>3. LookupOK' /\ BoundedStaleness'
  BY <1>0 DEF End, Goto, Inv, LookupOK, BoundedStaleness, Wrong
<1> QED BY <1>1, <1>2, <1>3 DEF Inv

(* The copy swapped in was read since the call began, so at most MaxDelay ago. *)
LEMMA SwapKeeps == ASSUME Inv, NEW th \in Threads, Swap(th) PROVE Inv'
<1>1. TypeOK' /\ DelayOK' /\ SubjectOK'
  BY DEF Swap, Goto, Inv, DelayOK, SubjectOK
<1>2. ReadOK' /\ WriteOK' /\ BoundedStaleness'
  BY DEF Swap, Goto, Inv, ReadOK, WriteOK, BoundedStaleness, Wrong
<1>3. CopyOK'
  <2>1. \A s \in Subjects :
          (s \in fresh[th]) # (s \in source) => now - changedAt[s] <= MaxDelay
    BY DEF Swap, Inv, ReadOK, DelayOK
  <2> QED BY <2>1 DEF Swap, Inv, CopyOK
<1>4. LookupOK'
  BY DEF Swap, Goto, Inv, DelayOK, LookupOK
<1> QED BY <1>1, <1>2, <1>3, <1>4 DEF Inv

(* Where the copy is wrong about the subject, the source has changed at most   *)
(* MaxDelay before the copy was loaded, and the copy was loaded less than TTL   *)
(* before the call, or since.                                                   *)
LEMMA LookupKeeps == ASSUME Inv, NEW th \in Threads, Lookup(th) PROVE Inv'
<1> DEFINE r == Home[th]
           s == subject[th]
<1>1. TypeOK' /\ DelayOK' /\ SubjectOK'
  BY DEF Lookup, Goto, Inv, DelayOK, SubjectOK
<1>2. ReadOK' /\ WriteOK' /\ CopyOK' /\ LookupOK'
  BY DEF Lookup, Goto, Inv, ReadOK, WriteOK, CopyOK, LookupOK
<1>3. BoundedStaleness'
  <2>1. s \in Subjects /\ primed[r] /\ started[th] - loadedAt[r] < TTL
    BY DEF Lookup, Inv, SubjectOK, LookupOK
  <2>2. (s \in cache[r]) # (s \in source) => started[th] - changedAt[s] < TTL + MaxDelay
    BY <2>1 DEF Inv, CopyOK
  <2> QED BY <2>2 DEF Lookup, Goto, Inv, BoundedStaleness, Wrong
<1> QED BY <1>1, <1>2, <1>3 DEF Inv

LEMMA RevokeKeeps ==
  ASSUME Inv, NEW th \in Threads, NEW s \in Subjects, Revoke(th, s)
  PROVE  Inv'
<1>1. TypeOK' /\ DelayOK' /\ SubjectOK'
  BY DEF Revoke, Begin, Goto, Inv, DelayOK, SubjectOK
<1>2. \A u \in Subjects :
        \/ (u \in source) = (u \in source') /\ changedAt'[u] = changedAt[u]
        \/ changedAt'[u] = now
  BY DEF Revoke, Inv
<1>3. ReadOK' /\ WriteOK'
  BY <1>2 DEF Revoke, Begin, Goto, Inv, DelayOK, SubjectOK, ReadOK, WriteOK
<1>4. CopyOK' /\ LookupOK'
  BY <1>2 DEF Revoke, Begin, Goto, Inv, DelayOK, CopyOK, LookupOK
<1>5. BoundedStaleness'
  BY <1>2 DEF Revoke, Begin, Goto, Inv, DelayOK, SubjectOK, BoundedStaleness, Wrong
<1> QED BY <1>1, <1>3, <1>4, <1>5 DEF Inv

LEMMA RestoreKeeps ==
  ASSUME Inv, NEW th \in Threads, NEW s \in Subjects, Restore(th, s)
  PROVE  Inv'
<1>1. TypeOK' /\ DelayOK' /\ SubjectOK'
  BY DEF Restore, Begin, Goto, Inv, DelayOK, SubjectOK
<1>2. \A u \in Subjects :
        \/ (u \in source) = (u \in source') /\ changedAt'[u] = changedAt[u]
        \/ changedAt'[u] = now
  BY DEF Restore, Inv
<1>3. ReadOK' /\ WriteOK'
  BY <1>2 DEF Restore, Begin, Goto, Inv, DelayOK, SubjectOK, ReadOK, WriteOK
<1>4. CopyOK' /\ LookupOK'
  BY <1>2 DEF Restore, Begin, Goto, Inv, DelayOK, CopyOK, LookupOK
<1>5. BoundedStaleness'
  BY <1>2 DEF Restore, Begin, Goto, Inv, DelayOK, SubjectOK, BoundedStaleness, Wrong
<1> QED BY <1>1, <1>3, <1>4, <1>5 DEF Inv

LEMMA AddKeeps == ASSUME Inv, NEW th \in Threads, AddLocal(th) PROVE Inv'
<1>1. subject[th] \in Subjects
  BY DEF AddLocal, Inv, SubjectOK
<1>2. TypeOK' /\ DelayOK' /\ SubjectOK'
  BY <1>1 DEF AddLocal, End, Goto, Inv, DelayOK, SubjectOK
<1>3. ReadOK' /\ WriteOK'
  BY DEF AddLocal, End, Goto, Inv, ReadOK, WriteOK
<1>4. CopyOK'
  BY <1>1 DEF AddLocal, Inv, DelayOK, WriteOK, CopyOK
<1>5. LookupOK' /\ BoundedStaleness'
  BY DEF AddLocal, End, Goto, Inv, LookupOK, BoundedStaleness, Wrong
<1> QED BY <1>2, <1>3, <1>4, <1>5 DEF Inv

LEMMA DiscardKeeps == ASSUME Inv, NEW th \in Threads, DiscardLocal(th) PROVE Inv'
<1>1. subject[th] \in Subjects
  BY DEF DiscardLocal, Inv, SubjectOK
<1>2. TypeOK' /\ DelayOK' /\ SubjectOK'
  BY <1>1 DEF DiscardLocal, End, Goto, Inv, DelayOK, SubjectOK
<1>3. ReadOK' /\ WriteOK'
  BY DEF DiscardLocal, End, Goto, Inv, ReadOK, WriteOK
<1>4. CopyOK'
  BY <1>1 DEF DiscardLocal, Inv, DelayOK, WriteOK, CopyOK
<1>5. LookupOK' /\ BoundedStaleness'
  BY DEF DiscardLocal, End, Goto, Inv, LookupOK, BoundedStaleness, Wrong
<1> QED BY <1>2, <1>3, <1>4, <1>5 DEF Inv

LEMMA StepInv == Inv /\ [Next]_vars => Inv'
<1> SUFFICES ASSUME Inv, [Next]_vars PROVE Inv'
  OBVIOUS
<1>1. ASSUME NEW th \in Threads, Step(th) PROVE Inv'
  BY <1>1, BeginKeeps, CheckKeeps, ReadKeeps, EndKeeps, SwapKeeps, LookupKeeps,
     RevokeKeeps, RestoreKeeps, AddKeeps, DiscardKeeps DEF Step
<1>2. CASE UNCHANGED vars
  BY <1>2 DEF Inv, DelayOK, SubjectOK, ReadOK,
     WriteOK, CopyOK, LookupOK, BoundedStaleness, Wrong
<1> QED BY <1>1, <1>2, TickKeeps DEF Next

LEMMA SpecInv == Spec => []Inv
  BY InitInv, StepInv, PTL DEF Spec

(* Every variable keeps its type. *)
THEOREM Typing == Spec => []TypeOK
<1>1. Inv => TypeOK
  BY DEF Inv
<1> QED BY <1>1, SpecInv, PTL

(* revocation.py's "bounded by the TTL", made exact: is_revoked contradicts    *)
(* the source only about a change younger than the TTL and one call together.  *)
THEOREM Staleness == Spec => []BoundedStaleness
<1>1. Inv => BoundedStaleness
  BY DEF Inv
<1> QED BY <1>1, SpecInv, PTL
=============================================================================
