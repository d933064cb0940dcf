----------------------------- MODULE RateLimit -----------------------------
(* The two rate limiters, for one subject: FixedWindowRateLimiter              *)
(* (hallpass/ratelimit.py), whose threads share a deque of stamps under a      *)
(* lock, and RedisRateLimiter (hallpass/redis_backends.py), whose replicas     *)
(* share a counter per bucket.  Both read the clock before they reach what is  *)
(* shared, and nothing bounds what lies between: a new connection alone may    *)
(* take 5 s, and the Redis call has no timeout.                                *)
EXTENDS Integers, Sequences, FiniteSets

CONSTANTS
  Threads,   \* threads, or replicas, inside check for the subject
  MaxCalls,  \* max_calls
  Second,    \* the ticks of a second
  Window,    \* window_seconds, in ticks: it need not be whole seconds
  MaxDelay,  \* the longest a check takes from its clock reading to the store
  MaxTime,   \* bound: where the clock stops
  Never      \* a counter without an expiry

ASSUME MaxCallsAssumption == MaxCalls \in Nat \ {0}
ASSUME SecondAssumption == Second \in Nat \ {0}
ASSUME WindowAssumption == Window \in Nat \ {0}
ASSUME DelayAssumption == MaxDelay \in Nat
ASSUME TimeAssumption == MaxTime \in Nat
ASSUME NeverAssumption == Never \notin Nat

VARIABLES
  now,       \* the clock
  backend,   \* the limiter that is deployed
  pc,        \* pc[th]: "idle", "timed" (has read the clock), "first" (has
             \* made the first INCR of a bucket)
  stamp,     \* stamp[th]: the instant th has read
  hits,      \* the deque
  counters,  \* counters[b]: the value of bucket b's key, 0 if there is none
  expiry,    \* expiry[b]: when that key expires
  born,      \* born[b]: when that key was last created (history)
  admitted,  \* the calls counted against the budget and let through, each with
             \* the birth of the key it was counted in (history)
  refused    \* the instant of the last call refused, if any (history)

limiterVars == <<now, backend, pc, stamp, hits, counters, expiry, born,
                 admitted, refused>>

Buckets == 0 .. MaxTime \div Window

LimiterTypeOK ==
  /\ now \in 0 .. MaxTime
  /\ backend \in {"memory", "redis"}
  /\ pc \in [Threads -> {"idle", "timed", "first"}]
  /\ stamp \in [Threads -> 0 .. now]
  /\ hits \in Seq(0 .. now) /\ Len(hits) <= MaxCalls
  /\ counters \in [Buckets -> 0 .. MaxCalls + 1]
  /\ \A b \in Buckets : expiry[b] = Never \/ (expiry[b] > now /\ counters[b] > 0)
  /\ born \in [Buckets -> 0 .. now]
  /\ admitted \subseteq [began : 0 .. now, at : 0 .. now, key : 0 .. now, nth : Nat]
  /\ refused \in 0 .. now \cup {Never}

LimiterInit ==
  /\ now = 0
  /\ backend \in {"memory", "redis"}
  /\ pc = [th \in Threads |-> "idle"]
  /\ stamp = [th \in Threads |-> 0]
  /\ hits = <<>>
  /\ counters = [b \in Buckets |-> 0]
  /\ expiry = [b \in Buckets |-> Never]
  /\ born = [b \in Buckets |-> 0]
  /\ admitted = {}
  /\ refused = Never

Goto(th, l) == pc' = [pc EXCEPT ![th] = l]

Return(th) == Goto(th, "idle") /\ stamp' = [stamp EXCEPT ![th] = 0]

(* Time passes unless a check would take longer than MaxDelay; Redis drops the *)
(* keys that have expired.                                                     *)
LimiterTick ==
  /\ now < MaxTime
  /\ \A th \in Threads : pc[th] = "timed" => now - stamp[th] < MaxDelay
  /\ now' = now + 1
  /\ LET gone(b) == expiry[b] # Never /\ expiry[b] <= now' IN
       /\ counters' = [b \in Buckets |-> IF gone(b) THEN 0 ELSE counters[b]]
       /\ expiry' = [b \in Buckets |-> IF gone(b) THEN Never ELSE expiry[b]]
  /\ UNCHANGED <<backend, pc, stamp, hits, born, admitted, refused>>

ReadClock(th) ==
  /\ pc[th] = "idle"
  /\ Goto(th, "timed")
  /\ stamp' = [stamp EXCEPT ![th] = now]
  /\ UNCHANGED <<now, backend, hits, counters, expiry, born, admitted, refused>>

Bucket(th) == stamp[th] \div Window

Admit(th) ==
  /\ LET same == {a \in admitted : a.began = stamp[th] /\ a.at = now} IN
       admitted' = admitted \cup
         {[began |-> stamp[th], at |-> now, key |-> born'[Bucket(th)],
          nth |-> Cardinality(same) + 1]}
  /\ UNCHANGED refused

Refuse(th) ==
  /\ refused' = stamp[th]
  /\ UNCHANGED admitted

-----------------------------------------------------------------------------
(* FixedWindowRateLimiter.                                                     *)

(* Mutants: an off-by-one in the cutoff; no stamp is ever dropped. *)
MutantPruneEarly(s, cutoff) ==
  LET old == {i \in DOMAIN s : \A j \in 1 .. i : s[j] <= cutoff + 1}
  IN  SubSeq(s, Cardinality(old) + 1, Len(s))
MutantPruneNever(s, cutoff) == s

(* The pop loop: it ends at the first stamp that is young enough. *)
Prune(s, cutoff) ==
  LET old == {i \in DOMAIN s : \A j \in 1 .. i : s[j] <= cutoff}
  IN  SubSeq(s, Cardinality(old) + 1, Len(s))

(* Mutant: refuses one call too late. *)
MutantCheckSlidingOver(th) ==
  LET left == Prune(hits, stamp[th] - Window) IN
  /\ backend = "memory"
  /\ pc[th] = "timed"
  /\ Return(th)
  /\ UNCHANGED <<now, backend, counters, expiry, born>>
  /\ IF Len(left) > MaxCalls
       THEN hits' = left /\ Refuse(th)
       ELSE hits' = Append(left, stamp[th]) /\ Admit(th)

(* The critical section. *)
CheckSliding(th) ==
  LET left == Prune(hits, stamp[th] - Window) IN
  /\ backend = "memory"
  /\ pc[th] = "timed"
  /\ Return(th)
  /\ UNCHANGED <<now, backend, counters, expiry, born>>
  /\ IF Len(left) >= MaxCalls
       THEN hits' = left /\ Refuse(th)
       ELSE hits' = Append(left, stamp[th]) /\ Admit(th)

-----------------------------------------------------------------------------
(* RedisRateLimiter.                                                           *)

(* int(window_seconds) + 1: the key outlives the window by up to a second. *)
KeyLife == (Window \div Second + 1) * Second

(* INCR; the call that makes the counter 1 goes on to set its expiry.  The     *)
(* counter is capped where every higher value means the same.                  *)
Increment(th) ==
  LET hit == Bucket(th) IN
  /\ backend = "redis"
  /\ pc[th] = "timed"
  /\ counters' = [counters EXCEPT ![hit] = IF @ > MaxCalls THEN @ ELSE @ + 1]
  /\ born' = [born EXCEPT ![hit] = IF counters[hit] = 0 THEN now ELSE @]
  /\ IF counters'[hit] = 1 THEN Goto(th, "first") /\ UNCHANGED stamp ELSE Return(th)
  /\ IF counters'[hit] > MaxCalls THEN Refuse(th) ELSE Admit(th)
  /\ UNCHANGED <<now, backend, hits, expiry>>

(* EXPIRE. *)
Expire(th) ==
  /\ pc[th] = "first"
  /\ Return(th)
  /\ expiry' = [expiry EXCEPT ![Bucket(th)] = now + KeyLife]
  /\ UNCHANGED <<now, backend, hits, counters, born, admitted, refused>>

(* The replica dies, or the connection is lost, between the two commands: the  *)
(* attempt is counted, and the counter stays.                                  *)
LoseExpire(th) ==
  /\ pc[th] = "first"
  /\ Return(th)
  /\ UNCHANGED <<now, backend, hits, counters, expiry, born, admitted, refused>>

-----------------------------------------------------------------------------
Check(th) == ReadClock(th) \/ CheckSliding(th) \/ Increment(th) \/ Expire(th) \/ LoseExpire(th)

LimiterNext == LimiterTick \/ \E th \in Threads : Check(th)

LimiterSpec == LimiterInit /\ [][LimiterNext]_limiterVars

-----------------------------------------------------------------------------
Within(from, to) == {a \in admitted : a.began >= from /\ a.at < to}

(* ratelimit.py: "at most max_calls per window_seconds per subject, measured   *)
(* as a true sliding window", though the stamps enter the deque out of order.  *)
(* redis_backends.py: "a burst can straddle a boundary, bounded by 2x within   *)
(* one window" holds of checks that reach Redis within what a key outlives its *)
(* window by.  A check that is later may find its bucket's key gone, and its   *)
(* bucket counted from nothing, once in a window: three budgets, never more.   *)
(* Of the calls that begin and are let through within any one window, no more  *)
(* than that are.                                                              *)
Budget ==
  IF backend = "memory" THEN MaxCalls
  ELSE IF MaxDelay <= KeyLife - Window THEN 2 * MaxCalls ELSE 3 * MaxCalls

WindowBudget ==
  \A from \in 0 .. now : Cardinality(Within(from, from + Window)) <= Budget

(* "one caller's burst": nobody is refused before the budget is used up.  At   *)
(* least max_calls were let through in the window before a refused call, or    *)
(* just before it, by as much as a check may be delayed.                       *)
RefusedOnlyWhenFull ==
  refused # Never =>
    Cardinality({a \in admitted : a.began > refused - Window - MaxDelay})
      >= MaxCalls
=============================================================================
