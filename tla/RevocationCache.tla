--------------------------- MODULE RevocationCache -------------------------
(* Fleet-wide token revocation (hallpass/revocation.py): one shared durable    *)
(* set of revoked subjects, and on every replica a CachedRevocationList, a     *)
(* TTL-refreshed copy that is_revoked looks at on each verify.  The threads    *)
(* of a replica refresh the copy by reading the source outside the lock and    *)
(* swapping the result in under it; revoke and restore write the source first  *)
(* and the local copy second.                                                  *)
EXTENDS Integers

CONSTANTS
  Replicas,
  Threads,
  Home,       \* Home[th]: the replica th runs on
  Subjects,
  NoSubject,  \* a thread that is in no call
  TTL,        \* ttl_seconds
  MaxDelay,   \* bound: how long a call may take from its start to its end
  MaxTime     \* bound: where the clock stops

ASSUME HomeAssumption == Home \in [Threads -> Replicas]
ASSUME NoSubjectAssumption == NoSubject \notin Subjects
ASSUME TimeAssumption == TTL \in Nat \ {0} /\ MaxDelay \in Nat /\ MaxTime \in Nat

VARIABLES
  now,
  source,        \* the subjects in the shared store
  cache,         \* cache[r]: r's copy
  loadedAt,      \* loadedAt[r]: when r last swapped a copy in
  primed,        \* primed[r]: it has done so at least once
  pc, subject,   \* where th is, and the subject its call is about
  fresh,         \* fresh[th]: what it read from the source
  answer,        \* answer[th]: what is_revoked returns
  started,       \* started[th]: when its call began (history)
  changedAt,     \* changedAt[s]: when s last entered or left the source (history)
  acked,         \* acked[r]: revoked through r, not restored since (history)
  owed           \* owed[th]: its subject was in acked when it called (history)

store == <<source, changedAt>>
copies == <<cache, loadedAt, primed>>
calls == <<pc, subject, fresh, answer, started>>
promises == <<acked, owed>>
vars == <<now, store, copies, calls, promises>>

PCs == {"idle", "check", "read", "swap", "lookup", "answered", "adding", "discarding"}

TypeOK ==
  /\ now \in Nat
  /\ source \in SUBSET Subjects
  /\ changedAt \in [Subjects -> Nat]
  /\ cache \in [Replicas -> SUBSET Subjects]
  /\ loadedAt \in [Replicas -> Nat]
  /\ primed \in [Replicas -> BOOLEAN]
  /\ pc \in [Threads -> PCs]
  /\ subject \in [Threads -> Subjects \cup {NoSubject}]
  /\ fresh \in [Threads -> SUBSET Subjects]
  /\ answer \in [Threads -> BOOLEAN]
  /\ started \in [Threads -> Nat]
  /\ acked \in [Replicas -> SUBSET Subjects]
  /\ owed \in [Threads -> BOOLEAN]

Init ==
  /\ now = 0
  /\ source = {}
  /\ changedAt = [s \in Subjects |-> 0]
  /\ cache = [r \in Replicas |-> {}]
  /\ loadedAt = [r \in Replicas |-> 0]
  /\ primed = [r \in Replicas |-> FALSE]
  /\ pc = [th \in Threads |-> "idle"]
  /\ subject = [th \in Threads |-> NoSubject]
  /\ fresh = [th \in Threads |-> {}]
  /\ answer = [th \in Threads |-> FALSE]
  /\ started = [th \in Threads |-> 0]
  /\ acked = [r \in Replicas |-> {}]
  /\ owed = [th \in Threads |-> FALSE]

Goto(th, l) == pc' = [pc EXCEPT ![th] = l]

Begin(th, s, l) ==
  /\ pc[th] = "idle"
  /\ Goto(th, l)
  /\ subject' = [subject EXCEPT ![th] = s]
  /\ started' = [started EXCEPT ![th] = now]

(* The end of a call forgets what only the call knew. *)
End(th) ==
  /\ Goto(th, "idle")
  /\ subject' = [subject EXCEPT ![th] = NoSubject]
  /\ fresh' = [fresh EXCEPT ![th] = {}]
  /\ answer' = [answer EXCEPT ![th] = FALSE]
  /\ started' = [started EXCEPT ![th] = 0]

(* The clock, which lets no call last longer than MaxDelay. *)
Tick ==
  /\ now < MaxTime
  /\ \A th \in Threads : pc[th] # "idle" => now - started[th] < MaxDelay
  /\ now' = now + 1
  /\ UNCHANGED <<store, copies, calls, promises>>

-----------------------------------------------------------------------------
(* is_revoked *)

CallIsRevoked(th, s) ==
  /\ Begin(th, s, "check")
  /\ owed' = [owed EXCEPT ![th] = s \in acked[Home[th]]]
  /\ UNCHANGED <<now, store, copies, fresh, answer, acked>>

(* Mutant: an off-by-one in the age test. *)
MutantIsFreshAtTTL(r) == primed[r] /\ now - loadedAt[r] <= TTL

IsFresh(r) == primed[r] /\ now - loadedAt[r] < TTL

CheckFresh(th) ==
  /\ pc[th] = "check"
  /\ Goto(th, IF IsFresh(Home[th]) THEN "lookup" ELSE "read")
  /\ UNCHANGED <<now, store, copies, subject, fresh, answer, started, promises>>

(* Outside the lock. *)
ReadSource(th) ==
  /\ pc[th] = "read"
  /\ fresh' = [fresh EXCEPT ![th] = source]
  /\ Goto(th, "swap")
  /\ UNCHANGED <<now, store, copies, subject, answer, started, promises>>

(* The store cannot be read: is_revoked raises. *)
ReadFails(th) ==
  /\ pc[th] = "read"
  /\ End(th)
  /\ owed' = [owed EXCEPT ![th] = FALSE]
  /\ UNCHANGED <<now, store, copies, acked>>

Swap(th) ==
  LET r == Home[th] IN
  /\ pc[th] = "swap"
  /\ cache' = [cache EXCEPT ![r] = fresh[th]]
  /\ loadedAt' = [loadedAt EXCEPT ![r] = now]
  /\ primed' = [primed EXCEPT ![r] = TRUE]
  /\ Goto(th, "lookup")
  /\ UNCHANGED <<now, store, subject, fresh, answer, started, promises>>

Lookup(th) ==
  /\ pc[th] = "lookup"
  /\ answer' = [answer EXCEPT ![th] = subject[th] \in cache[Home[th]]]
  /\ Goto(th, "answered")
  /\ UNCHANGED <<now, store, copies, subject, fresh, started, promises>>

Return(th) ==
  /\ pc[th] = "answered"
  /\ End(th)
  /\ owed' = [owed EXCEPT ![th] = FALSE]
  /\ UNCHANGED <<now, store, copies, acked>>

-----------------------------------------------------------------------------
(* revoke: the source, then the local copy. *)

Revoke(th, s) ==
  /\ Begin(th, s, "adding")
  /\ source' = source \cup {s}
  /\ changedAt' = IF s \in source THEN changedAt ELSE [changedAt EXCEPT ![s] = now]
  /\ UNCHANGED <<now, copies, fresh, answer, promises>>

(* Mutant: the subject is looked up after the call has let go of it. *)
MutantAddLocalLate(th) ==
  /\ pc[th] = "adding"
  /\ End(th)
  /\ cache' = [cache EXCEPT ![Home[th]] = @ \cup {subject'[th]}]
  /\ UNCHANGED <<now, store, loadedAt, primed, promises>>

AddLocal(th) ==
  LET r == Home[th]
      s == subject[th]
  IN
  /\ pc[th] = "adding"
  /\ cache' = [cache EXCEPT ![r] = @ \cup {s}]
  /\ acked' = [acked EXCEPT ![r] = @ \cup ({s} \cap source)]
  /\ End(th)
  /\ UNCHANGED <<now, store, loadedAt, primed, owed>>

(* restore: likewise.  It ends what was promised of earlier revocations. *)

Restore(th, s) ==
  /\ Begin(th, s, "discarding")
  /\ source' = source \ {s}
  /\ changedAt' = IF s \in source THEN [changedAt EXCEPT ![s] = now] ELSE changedAt
  /\ acked' = [r \in Replicas |-> acked[r] \ {s}]
  /\ owed' = [t \in Threads |-> owed[t] /\ subject[t] # s]
  /\ UNCHANGED <<now, copies, fresh, answer>>

DiscardLocal(th) ==
  /\ pc[th] = "discarding"
  /\ cache' = [cache EXCEPT ![Home[th]] = @ \ {subject[th]}]
  /\ End(th)
  /\ UNCHANGED <<now, store, loadedAt, primed, promises>>

-----------------------------------------------------------------------------
Step(th) ==
  \/ \E s \in Subjects : CallIsRevoked(th, s) \/ Revoke(th, s) \/ Restore(th, s)
  \/ CheckFresh(th) \/ ReadSource(th) \/ ReadFails(th) \/ Swap(th)
  \/ Lookup(th) \/ Return(th)
  \/ AddLocal(th) \/ DiscardLocal(th)

Next == Tick \/ \E th \in Threads : Step(th)

Spec == Init /\ [][Next]_vars

-----------------------------------------------------------------------------
(* is_revoked has answered, and not what the source says. *)
Wrong(th) ==
  pc[th] = "answered" /\ (answer[th] # (subject[th] \in source))

(* What the cache does promise, of revocations and of restores alike: a call   *)
(* made when the source had said the same for the TTL and the longest call     *)
(* together answers as the source does, whatever refreshes, revokes and        *)
(* restores overlap with it.                                                   *)
BoundedStaleness ==
  \A th \in Threads :
    Wrong(th) => started[th] - changedAt[subject[th]] < TTL + MaxDelay

(* revocation.py: "the replica that acted sees it immediately": is_revoked,    *)
(* called on a replica on which revoke has returned, says so until a restore.  *)
ActorSeesItAtOnce ==
  \A th \in Threads : pc[th] = "answered" /\ owed[th] => answer[th]
=============================================================================
