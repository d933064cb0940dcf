--------------------------- MODULE AdmissionProofs ---------------------------
(* Who is let in, and how often.                                               *)
(*                                                                             *)
(* First the rate limiters, for any number of threads, any budget and window:  *)
(* no window admits more than it should, and nobody is refused before it is    *)
(* used up.                                                                    *)
(*                                                                             *)
(* Then the team, for any number of callers, tokens, keys, agents and          *)
(* processes, and any cache size, TTL and throttle: types, no orphaned agent,  *)
(* no way in for a subject that stays revoked, and keys that follow the        *)
(* provider's.                                                                 *)
EXTENDS Team, RateLimit, SequenceTheorems, FiniteSetTheorems, TLAPS

-----------------------------------------------------------------------------
(* Buckets: the one an instant falls into, and the few that a window meets.    *)
LEMMA BucketBounds ==
  ASSUME NEW s \in Nat
  PROVE  /\ s \div Window \in Nat
         /\ (s \div Window) * Window <= s
         /\ s < (s \div Window) * Window + Window
  BY WindowAssumption

LEMMA BucketOrder ==
  ASSUME NEW s \in Nat, NEW t \in Nat, s <= t
  PROVE  s \div Window <= t \div Window
<1> DEFINE p == s \div Window
           q == t \div Window
<1>1. /\ p \in Nat /\ q \in Nat /\ Window \in Nat \ {0}
      /\ p * Window <= s /\ t < q * Window + Window
  BY BucketBounds, WindowAssumption
<1> HIDE DEF p, q
<1>2. SUFFICES ASSUME p > q PROVE FALSE
  BY <1>1 DEF p, q
<1>3. PICK d \in Nat : p = q + 1 + d
  <2>1. p - q - 1 \in Nat /\ p = q + 1 + (p - q - 1)
    BY <1>1, <1>2
  <2> QED BY <2>1
<1>4. p * Window = q * Window + Window + d * Window /\ d * Window >= 0
  BY <1>1, <1>3
<1> QED BY <1>1, <1>4

LEMMA TwoBuckets ==
  ASSUME NEW from \in Nat, NEW s \in Nat, from <= s, s < from + Window
  PROVE  s \div Window \in {from \div Window, from \div Window + 1}
<1> DEFINE p == from \div Window
           q == s \div Window
<1>1. /\ p \in Nat /\ q \in Nat /\ Window \in Nat \ {0}
      /\ q * Window <= s /\ from < p * Window + Window
  BY BucketBounds, WindowAssumption
<1>2. p <= q
  BY BucketOrder
<1> HIDE DEF p, q
<1>3. SUFFICES ASSUME q > p + 1 PROVE FALSE
  BY <1>1, <1>2 DEF p, q
<1>4. PICK d \in Nat : q = p + 2 + d
  <2>1. q - p - 2 \in Nat /\ q = p + 2 + (q - p - 2)
    BY <1>1, <1>3
  <2> QED BY <2>1
<1>5. q * Window = p * Window + Window + Window + d * Window /\ d * Window >= 0
  BY <1>1, <1>4
<1> QED BY <1>1, <1>5

(* A key outlives its window.                                                  *)
LEMMA KeyOutlives == KeyLife \in Nat /\ KeyLife > Window /\ Window \in Nat \ {0}
<1> DEFINE q == Window \div Second
<1>1. /\ Window \in Nat \ {0} /\ Second \in Nat \ {0} /\ q \in Nat
      /\ Window < q * Second + Second
  BY WindowAssumption, SecondAssumption
<1> HIDE DEF q
<1>2. (q + 1) * Second = q * Second + Second /\ q * Second \in Nat
  BY <1>1
<1>3. KeyLife = (q + 1) * Second
  BY DEF KeyLife, q
<1> QED BY <1>1, <1>2, <1>3

-----------------------------------------------------------------------------
(* Counting.                                                                   *)
LEMMA UpTo ==
  ASSUME NEW n \in Nat
  PROVE  IsFiniteSet(1 .. n) /\ Cardinality(1 .. n) = n
  BY FS_Interval

LEMMA UnionCount ==
  ASSUME NEW S, NEW T, IsFiniteSet(S), IsFiniteSet(T)
  PROVE  /\ IsFiniteSet(S \cup T) /\ Cardinality(S \cup T) \in Nat
         /\ Cardinality(S \cup T) <= Cardinality(S) + Cardinality(T)
<1>1. /\ IsFiniteSet(S \cup T)
      /\ Cardinality(S \cup T) = Cardinality(S) + Cardinality(T) - Cardinality(S \cap T)
  BY FS_Union
<1>2. /\ Cardinality(S \cap T) \in Nat /\ Cardinality(S \cup T) \in Nat
      /\ Cardinality(S) \in Nat /\ Cardinality(T) \in Nat
  BY <1>1, FS_Intersection, FS_CardinalityType
<1> QED BY <1>1, <1>2

(* The pop loop removes a prefix: the stamps no younger than the cutoff up to  *)
(* the first that is.                                                          *)
Young(s, x) == {i \in DOMAIN s : s[i] >= x}

LEMMA PruneIsSuffix ==
  ASSUME NEW s \in Seq(Int), NEW cutoff \in Int
  PROVE  \E k \in 0 .. Len(s) :
           /\ Prune(s, cutoff) = SubSeq(s, k + 1, Len(s))
           /\ \A i \in 1 .. k : s[i] <= cutoff
           /\ k < Len(s) => s[k + 1] > cutoff
<1> DEFINE old == {i \in DOMAIN s : \A j \in 1 .. i : s[j] <= cutoff}
           k == Cardinality(old)
<1>1. Len(s) \in Nat /\ DOMAIN s = 1 .. Len(s) /\ \A i \in 1 .. Len(s) : s[i] \in Int
  OBVIOUS
<1>2. IsFiniteSet(1 .. Len(s)) /\ Cardinality(1 .. Len(s)) = Len(s)
  BY <1>1, UpTo
<1>3. IsFiniteSet(old) /\ k \in Nat /\ k <= Len(s)
  <2>1. old \subseteq 1 .. Len(s)
    BY <1>1
  <2> HIDE DEF old
  <2> QED BY <1>2, <2>1, FS_Subset, FS_CardinalityType
<1>4. ASSUME NEW i \in old PROVE i \in 1 .. k
  <2>1. 1 .. i \subseteq old /\ i \in Nat \ {0}
    BY <1>1, <1>4
  <2>2. Cardinality(1 .. i) = i
    BY <2>1, UpTo
  <2>3. i <= k
    <3> HIDE DEF old
    <3> QED BY <1>3, <2>1, <2>2, FS_Subset
  <2> QED BY <1>3, <2>1, <2>3
<1>5. old = 1 .. k
  <2>1. old \subseteq 1 .. k
    BY <1>4
  <2>2. IsFiniteSet(1 .. k) /\ Cardinality(1 .. k) = k
    BY <1>3, UpTo
  <2> HIDE DEF old
  <2> QED BY <2>1, <2>2, FS_Subset
<1>6. \A i \in 1 .. k : s[i] <= cutoff
  <2> SUFFICES ASSUME NEW i \in 1 .. k PROVE s[i] <= cutoff
    OBVIOUS
  <2>1. i \in old
    BY <1>5
  <2>2. i \in 1 .. i
    BY <1>3
  <2> QED BY <2>1, <2>2
<1>7. ASSUME k < Len(s), ~(s[k + 1] > cutoff) PROVE FALSE
  <2>1. k + 1 \in DOMAIN s
    BY <1>1, <1>3, <1>7
  <2>2. \A j \in 1 .. k + 1 : s[j] <= cutoff
    <3> HIDE DEF k
    <3> QED BY <1>1, <1>3, <1>6, <1>7, <2>1
  <2>3. k + 1 \in old
    BY <2>1, <2>2
  <2>4. k + 1 \in 1 .. k
    BY <1>5, <2>3
  <2> QED BY <1>3, <2>4
<1>8. Prune(s, cutoff) = SubSeq(s, k + 1, Len(s))
  BY DEF Prune
<1>9. k \in 0 .. Len(s)
  BY <1>1, <1>3
<1> HIDE DEF k
<1> QED BY <1>6, <1>7, <1>8, <1>9
(* A suffix of s, position by position.                                        *)
LEMMA Suffix ==
  ASSUME NEW s \in Seq(Int), NEW k \in 0 .. Len(s)
  PROVE  LET left == SubSeq(s, k + 1, Len(s)) IN
         /\ left \in Seq(Int) /\ Len(left) = Len(s) - k
         /\ \A i \in 1 .. Len(s) - k : left[i] = s[k + i]
  OBVIOUS

(* Nothing younger than the cutoff is lost, and nothing is gained.             *)
LEMMA PruneKeepsYoung ==
  ASSUME NEW s \in Seq(Int), NEW cutoff \in Int, NEW x \in Int
  PROVE  LET left == Prune(s, cutoff) IN
         /\ IsFiniteSet(Young(s, x)) /\ IsFiniteSet(Young(left, x))
         /\ Cardinality(Young(s, x)) \in Nat /\ Cardinality(Young(left, x)) \in Nat
         /\ Cardinality(Young(left, x)) <= Cardinality(Young(s, x))
         /\ x > cutoff => Cardinality(Young(left, x)) = Cardinality(Young(s, x))
<1> DEFINE left == Prune(s, cutoff)
<1>1. PICK k \in 0 .. Len(s) :
        /\ left = SubSeq(s, k + 1, Len(s))
        /\ \A i \in 1 .. k : s[i] <= cutoff
  BY PruneIsSuffix
<1>2. /\ left \in Seq(Int) /\ Len(left) = Len(s) - k
      /\ \A i \in 1 .. Len(s) - k : left[i] = s[k + i]
  BY <1>1, Suffix
<1> HIDE DEF left
<1>3. /\ DOMAIN s = 1 .. Len(s) /\ DOMAIN left = 1 .. Len(s) - k
      /\ Len(s) \in Nat /\ Len(left) \in Nat /\ k \in Nat
      /\ \A i \in 1 .. Len(s) : s[i] \in Int
  BY <1>2
<1>4. IsFiniteSet(Young(s, x)) /\ Cardinality(Young(s, x)) \in Nat
  <2>1. Young(s, x) \subseteq 1 .. Len(s)
    BY <1>3 DEF Young
  <2> QED BY <1>3, <2>1, UpTo, FS_Subset, FS_CardinalityType
<1>5. IsFiniteSet(Young(left, x)) /\ Cardinality(Young(left, x)) \in Nat
  <2>1. Young(left, x) \subseteq 1 .. Len(left)
    BY <1>2, <1>3 DEF Young
  <2> QED BY <1>3, <2>1, UpTo, FS_Subset, FS_CardinalityType
<1> DEFINE shift == [i \in Young(left, x) |-> k + i]
<1>6. shift \in Injection(Young(left, x), Young(s, x))
  <2>1. ASSUME NEW i \in Young(left, x) PROVE k + i \in Young(s, x)
    <3>1. i \in 1 .. Len(s) - k /\ left[i] >= x
      BY <1>3 DEF Young
    <3>2. k + i \in 1 .. Len(s) /\ s[k + i] = left[i]
      BY <1>2, <1>3, <3>1
    <3> QED BY <1>3, <3>1, <3>2 DEF Young
  <2>2. \A i, j \in Young(left, x) : k + i = k + j => i = j
    BY <1>3 DEF Young
  <2> QED BY <2>1, <2>2 DEF Injection, IsInjective
<1>7. Cardinality(Young(left, x)) <= Cardinality(Young(s, x))
  BY <1>4, <1>6, FS_Injection
<1>8. ASSUME x > cutoff PROVE Cardinality(Young(left, x)) = Cardinality(Young(s, x))
  <2>1. ASSUME NEW i \in Young(s, x) PROVE \E j \in Young(left, x) : shift[j] = i
    <3>1. i \in 1 .. Len(s) /\ s[i] >= x /\ i \notin 1 .. k
      BY <1>1, <1>3, <1>8 DEF Young
    <3>2. i - k \in 1 .. Len(s) - k /\ k + (i - k) = i
      BY <1>3, <3>1
    <3>3. i - k \in Young(left, x)
      BY <1>2, <1>3, <3>1, <3>2 DEF Young
    <3> QED BY <3>2, <3>3
  <2>2. shift \in Surjection(Young(left, x), Young(s, x))
    BY <1>6, <2>1 DEF Injection, Surjection
  <2> QED BY <1>4, <1>6, <2>2, FS_Injection
<1> QED BY <1>4, <1>5, <1>7, <1>8 DEF left

LEMMA AppendYoung ==
  ASSUME NEW s \in Seq(Int), NEW n \in Int, NEW x \in Int,
         IsFiniteSet(Young(s, x)), Cardinality(Young(s, x)) \in Nat
  PROVE  /\ n >= x => Cardinality(Young(Append(s, n), x)) = Cardinality(Young(s, x)) + 1
         /\ n < x => Cardinality(Young(Append(s, n), x)) = Cardinality(Young(s, x))
<1>1. /\ DOMAIN s = 1 .. Len(s) /\ Len(s) \in Nat
      /\ DOMAIN Append(s, n) = 1 .. Len(s) + 1
      /\ \A i \in 1 .. Len(s) : Append(s, n)[i] = s[i]
      /\ Append(s, n)[Len(s) + 1] = n
  OBVIOUS
<1>2. n >= x => Young(Append(s, n), x) = Young(s, x) \cup {Len(s) + 1}
  BY <1>1 DEF Young
<1>3. n < x => Young(Append(s, n), x) = Young(s, x)
  BY <1>1 DEF Young
<1>4. Len(s) + 1 \notin Young(s, x)
  BY <1>1 DEF Young
<1> QED BY <1>2, <1>3, <1>4, FS_AddElement
-----------------------------------------------------------------------------
(* What is admitted is counted: the history tells any two calls apart.         *)
Since(x) == {a \in admitted : a.began >= x}
InBucket(b) == {a \in admitted : a.began \div Window = b}
Together(a) == {c \in admitted : c.began = a.began /\ c.at = a.at}

Moments == [began : 0 .. now, at : 0 .. now, key : 0 .. now, nth : Nat]

Counted ==
  /\ admitted \subseteq Moments /\ IsFiniteSet(admitted)
  /\ \A a \in admitted : a.nth <= Cardinality(Together(a))

LimiterRanges ==
  /\ now \in 0 .. MaxTime /\ backend \in {"memory", "redis"}
  /\ pc \in [Threads -> {"idle", "timed", "first"}]
  /\ stamp \in [Threads -> 0 .. now]
  /\ hits \in Seq(0 .. now) /\ Len(hits) <= MaxCalls
  /\ counters \in [Buckets -> 0 .. MaxCalls + 1]
  /\ expiry \in [Buckets -> Nat \cup {Never}]
  /\ \A b \in Buckets : expiry[b] = Never \/ (expiry[b] > now /\ counters[b] > 0)
  /\ born \in [Buckets -> 0 .. now]
  /\ refused \in 0 .. now \cup {Never}

LEMMA SubsetsCount ==
  ASSUME Counted, NEW S \in SUBSET admitted
  PROVE  IsFiniteSet(S) /\ Cardinality(S) \in Nat
  BY FS_Subset, FS_CardinalityType DEF Counted

LEMMA Monotone ==
  ASSUME Counted, NEW S, NEW T \in SUBSET admitted, S \subseteq T
  PROVE  Cardinality(S) <= Cardinality(T)
  BY SubsetsCount, FS_Subset

(* The clock moves on.                                                         *)
LEMMA ClockGrows ==
  ASSUME now \in Nat, now' \in Nat, now <= now'
  PROVE  0 .. now \subseteq 0 .. now' /\ Moments \subseteq Moments'
<1>1. 0 .. now \subseteq 0 .. now'
  OBVIOUS
<1> QED BY <1>1 DEF Moments

(* An admitted call is one more than there were.                               *)
LEMMA OneMore ==
  ASSUME LimiterRanges, Counted, UNCHANGED now, NEW th \in Threads, Admit(th),
         Bucket(th) \in Buckets, born' \in [Buckets -> 0 .. now]
  PROVE  /\ Counted'
         /\ \E a \in Moments :
              /\ a \notin admitted /\ admitted' = admitted \cup {a}
              /\ a.began = stamp[th] /\ a.at = now /\ a.key = born'[Bucket(th)]
<1> DEFINE same == {a \in admitted : a.began = stamp[th] /\ a.at = now}
           birth == born'[Bucket(th)]
           new == [began |-> stamp[th], at |-> now, key |-> birth, nth |-> Cardinality(same) + 1]
<1>1. admitted' = admitted \cup {new}
  BY DEF Admit
<1>2. IsFiniteSet(same) /\ Cardinality(same) \in Nat
  BY SubsetsCount
<1>3. new \in Moments
  <2>1. stamp[th] \in 0 .. now /\ now \in 0 .. now /\ birth \in 0 .. now
    BY DEF LimiterRanges
  <2> HIDE DEF same, birth
  <2> QED BY <1>2, <2>1 DEF Moments
<1>4. new \notin admitted
  <2> SUFFICES ASSUME new \in admitted PROVE FALSE
    OBVIOUS
  <2>1. Together(new) = same
    BY DEF Together
  <2>2. Cardinality(same) + 1 <= Cardinality(same)
    <3>1. new.nth <= Cardinality(Together(new))
      BY Zenon DEF Counted
    <3>2. new.nth = Cardinality(same) + 1
      OBVIOUS
    <3> QED BY <2>1, <3>1, <3>2, Zenon
  <2> HIDE DEF same
  <2> QED BY <1>2, <2>2
<1>5. admitted' \subseteq Moments' /\ IsFiniteSet(admitted')
  <2>1. Moments' = Moments
    BY DEF Moments
  <2> HIDE DEF new
  <2> QED BY <1>1, <1>3, <2>1, FS_AddElement DEF Counted
<1>6. ASSUME NEW a \in admitted' PROVE a.nth <= Cardinality(Together(a)')
  <2>1. IsFiniteSet(Together(a)') /\ Cardinality(Together(a)') \in Nat
    <3>1. Together(a)' \subseteq admitted'
      BY DEF Together
    <3> QED BY <1>5, <3>1, FS_Subset, FS_CardinalityType
  <2>2. CASE a = new
    <3>1. Together(a)' = same \cup {new} /\ new \notin same
      BY <1>1, <1>4, <2>2 DEF Together
    <3>2. Cardinality(Together(a)') = Cardinality(same) + 1
      <4> HIDE DEF new, same
      <4> QED BY <1>2, <3>1, FS_AddElement
    <3>3. a.nth = Cardinality(same) + 1
      BY <2>2
    <3> HIDE DEF same, new
    <3> QED BY <1>2, <3>2, <3>3
  <2>3. CASE a \in admitted
    <3>1. Together(a) \subseteq Together(a)'
      BY <1>1 DEF Together
    <3>2. Cardinality(Together(a)) <= Cardinality(Together(a)')
      BY <2>1, <3>1, FS_Subset
    <3>3. a.nth <= Cardinality(Together(a)) /\ a.nth \in Nat
      BY <2>3 DEF Counted, Moments
    <3>4. Cardinality(Together(a)) \in Nat
      <4>1. Together(a) \subseteq admitted
        BY DEF Together
      <4> QED BY <4>1, SubsetsCount
    <3> QED BY <2>1, <3>2, <3>3, <3>4
  <2> HIDE DEF new
  <2> QED BY <1>1, <2>2, <2>3
<1>7. Counted'
  BY <1>5, <1>6 DEF Counted
<1>8. new.began = stamp[th] /\ new.at = now /\ new.key = born'[Bucket(th)]
  OBVIOUS
<1> HIDE DEF new
<1> QED BY <1>1, <1>3, <1>4, <1>7, <1>8

(* ... in every window it began in, and in its bucket.                         *)
LEMMA OneMoreSince ==
  ASSUME LimiterRanges, Counted, UNCHANGED now, NEW th \in Threads, Admit(th),
         Bucket(th) \in Buckets, born' \in [Buckets -> 0 .. now], NEW x \in Int
  PROVE  Cardinality(Since(x)') = IF stamp[th] >= x THEN Cardinality(Since(x)) + 1
                                                    ELSE Cardinality(Since(x))
<1>1. PICK a \in Moments :
        /\ a \notin admitted /\ admitted' = admitted \cup {a} /\ a.began = stamp[th]
  BY OneMore
<1>2. Since(x) \subseteq admitted /\ IsFiniteSet(Since(x)) /\ a \notin Since(x)
  BY <1>1, SubsetsCount DEF Since
<1>3. stamp[th] >= x => Since(x)' = Since(x) \cup {a}
  BY <1>1 DEF Since
<1>4. ~(stamp[th] >= x) => Since(x)' = Since(x)
  BY <1>1 DEF Since
<1> QED BY <1>2, <1>3, <1>4, FS_AddElement

LEMMA OneMoreInBucket ==
  ASSUME LimiterRanges, Counted, UNCHANGED now, NEW th \in Threads, Admit(th),
         Bucket(th) \in Buckets, born' \in [Buckets -> 0 .. now], NEW b
  PROVE  Cardinality(InBucket(b)') = IF Bucket(th) = b THEN Cardinality(InBucket(b)) + 1
                                                       ELSE Cardinality(InBucket(b))
<1>1. PICK a \in Moments :
        /\ a \notin admitted /\ admitted' = admitted \cup {a} /\ a.began = stamp[th]
  BY OneMore
<1>2. InBucket(b) \subseteq admitted /\ IsFiniteSet(InBucket(b)) /\ a \notin InBucket(b)
  BY <1>1, SubsetsCount DEF InBucket
<1>3. a.began \div Window = Bucket(th)
  BY <1>1 DEF Bucket
<1>4. Bucket(th) = b => InBucket(b)' = InBucket(b) \cup {a}
  BY <1>1, <1>3 DEF InBucket
<1>5. Bucket(th) # b => InBucket(b)' = InBucket(b)
  BY <1>1, <1>3 DEF InBucket
<1> QED BY <1>2, <1>4, <1>5, FS_AddElement

-----------------------------------------------------------------------------
(* The inductive invariant.  A check is as fresh as its delay allows, and what *)
(* it lets through began no later than it was let through.                     *)
Timely ==
  /\ \A th \in Threads : pc[th] = "timed" => now - stamp[th] <= MaxDelay
  /\ \A a \in admitted : a.began <= a.at /\ a.at <= a.began + MaxDelay

(* The replica that counted 1 in a bucket has the key to itself until it has   *)
(* set its expiry.                                                             *)
FirstsOK ==
  /\ \A th \in Threads : pc[th] = "first" =>
       backend = "redis" /\ counters[Bucket(th)] > 0 /\ expiry[Bucket(th)] = Never
  /\ \A th, other \in Threads :
       pc[th] = "first" /\ pc[other] = "first" /\ Bucket(th) = Bucket(other) => th = other

(* The deque is sorted up to the longest delay; it holds no call that was not  *)
(* let through, and every one that is young enough to count.                   *)
NearlySorted ==
  \A i, j \in DOMAIN hits : i < j => hits[j] >= hits[i] - MaxDelay

SlidingOK ==
  backend = "memory" =>
    /\ NearlySorted
    /\ \A x \in Int : Cardinality(Young(hits, x)) <= Cardinality(Since(x))
    /\ \A from \in 0 .. now : now < from + Window =>
         Cardinality(Since(from)) <= Cardinality(Young(hits, from))

SlidingBudget ==
  backend = "memory" =>
    \A from \in 0 .. now : Cardinality(Within(from, from + Window)) <= MaxCalls

(* A key counts no more calls than were let through, until they are max_calls. *)
BucketsOK ==
  backend = "redis" =>
    \A b \in Buckets :
      \/ counters[b] <= Cardinality(InBucket(b))
      \/ MaxCalls <= Cardinality(InBucket(b))

(* No key counts more than max_calls.  Of the keys that one bucket has had,    *)
(* each expired a whole KeyLife after its birth, and after all that it         *)
(* counted, before the next was born; no key is older than its bucket.         *)
OfKey(b, k) == {a \in InBucket(b) : a.key = k}

Gone(a, k) == a.key + KeyLife <= k /\ a.at < k

KeyCounts == \A b \in Buckets, k \in Nat : Cardinality(OfKey(b, k)) <= MaxCalls

KeysBorn == \A a \in admitted : a.key <= a.at /\ (a.began \div Window) * Window <= a.key

KeysApart ==
  \A a, c \in admitted :
    a.began \div Window = c.began \div Window =>
      a.key = c.key \/ Gone(a, c.key) \/ Gone(c, a.key)

(* What the bucket's present key has counted, and when it may expire.          *)
KeyLives(b) ==
  /\ b * Window <= born[b]
  /\ Cardinality(OfKey(b, born[b])) <= counters[b]
  /\ expiry[b] # Never => expiry[b] >= born[b] + KeyLife
  /\ \A a \in InBucket(b) : a.key = born[b] \/ Gone(a, born[b])

KeysNow ==
  \A b \in Buckets :
    /\ counters[b] > 0 => KeyLives(b)
    /\ counters[b] = 0 => \A a \in InBucket(b) : Gone(a, now)

KeyBudget == backend = "redis" => KeyCounts /\ KeysBorn /\ KeysApart /\ KeysNow

LimiterInv ==
  LimiterRanges /\ Counted /\ Timely /\ FirstsOK

-----------------------------------------------------------------------------
LEMMA StampRange ==
  ASSUME LimiterRanges, NEW th \in Threads
  PROVE  /\ stamp[th] \in Nat /\ stamp[th] \in 0 .. now /\ now \in Nat
         /\ Bucket(th) \in Buckets /\ Bucket(th) \in Nat
         /\ Bucket(th) * Window <= stamp[th]
         /\ stamp[th] < Bucket(th) * Window + Window
<1>1. stamp[th] \in 0 .. now /\ now \in Nat /\ now <= MaxTime /\ MaxTime \in Nat
  BY TimeAssumption DEF LimiterRanges
<1>2. stamp[th] \in Nat /\ stamp[th] <= MaxTime
  BY <1>1
<1>3. /\ stamp[th] \div Window \in Nat
      /\ (stamp[th] \div Window) * Window <= stamp[th]
      /\ stamp[th] < (stamp[th] \div Window) * Window + Window
  BY <1>2, BucketBounds
<1>4. MaxTime \div Window \in Nat
  BY BucketBounds, TimeAssumption
<1>5. stamp[th] \div Window <= MaxTime \div Window
  BY <1>1, <1>2, BucketOrder
<1> QED BY <1>1, <1>2, <1>3, <1>4, <1>5 DEF Bucket, Buckets

(* The pruned deque is still one.                                              *)
LEMMA PrunedHits ==
  ASSUME LimiterRanges, NEW cutoff \in Int
  PROVE  LET left == Prune(hits, cutoff) IN
         /\ left \in Seq(0 .. now) /\ Len(left) \in Nat /\ Len(left) <= Len(hits)
         /\ hits \in Seq(Int) /\ left \in Seq(Int)
         /\ NearlySorted =>
              /\ \A i, j \in DOMAIN left : i < j => left[j] >= left[i] - MaxDelay
              /\ \A i \in DOMAIN left : left[i] > cutoff - MaxDelay
<1> DEFINE left == Prune(hits, cutoff)
<1>1. hits \in Seq(0 .. now) /\ hits \in Seq(Int) /\ now \in Nat
  <2>1. hits \in Seq(0 .. now) /\ now \in Nat
    BY DEF LimiterRanges
  <2> QED BY <2>1
<1>2. PICK k \in 0 .. Len(hits) :
        /\ left = SubSeq(hits, k + 1, Len(hits))
        /\ k < Len(hits) => hits[k + 1] > cutoff
  BY <1>1, PruneIsSuffix
<1>3. /\ left \in Seq(Int) /\ Len(left) = Len(hits) - k
      /\ \A i \in 1 .. Len(hits) - k : left[i] = hits[k + i]
  BY <1>1, <1>2, Suffix
<1>4. left \in Seq(0 .. now)
  BY <1>1, <1>2
<1> HIDE DEF left
<1>5. /\ DOMAIN hits = 1 .. Len(hits) /\ DOMAIN left = 1 .. Len(hits) - k
      /\ Len(hits) \in Nat /\ k \in Nat /\ k <= Len(hits) /\ MaxDelay \in Nat
      /\ \A i \in 1 .. Len(hits) : hits[i] \in Int
  BY <1>1, <1>3, DelayAssumption
<1>6. ASSUME NearlySorted, NEW i \in DOMAIN left, NEW j \in DOMAIN left, i < j
      PROVE  left[j] >= left[i] - MaxDelay
  <2>1. k + i \in DOMAIN hits /\ k + j \in DOMAIN hits /\ k + i < k + j
    BY <1>5, <1>6
  <2>2. hits[k + j] >= hits[k + i] - MaxDelay
    BY <1>6, <2>1 DEF NearlySorted
  <2>3. left[i] = hits[k + i] /\ left[j] = hits[k + j]
    <3>1. i \in 1 .. Len(hits) - k /\ j \in 1 .. Len(hits) - k
      BY <1>5
    <3> QED BY <1>3, <3>1
  <2> QED BY <2>2, <2>3
<1>7. ASSUME NearlySorted, NEW i \in DOMAIN left PROVE left[i] > cutoff - MaxDelay
  <2>1. 1 \in DOMAIN left /\ left[1] = hits[k + 1] /\ hits[k + 1] > cutoff
        /\ hits[k + 1] \in Int
    <3>1. i \in 1 .. Len(hits) - k
      BY <1>5, <1>7
    <3>2. 1 \in 1 .. Len(hits) - k /\ k + 1 \in 1 .. Len(hits) /\ k < Len(hits)
      BY <1>5, <3>1
    <3> QED BY <1>2, <1>3, <1>5, <3>2
  <2>2. CASE i = 1
    BY <1>5, <2>1, <2>2
  <2>3. CASE i # 1
    <3>1. 1 < i
      BY <1>5, <2>3
    <3>2. left[i] >= left[1] - MaxDelay
      BY <1>6, <1>7, <2>1, <3>1
    <3>3. left[i] \in Int
      BY <1>3, <1>5
    <3> QED BY <1>5, <2>1, <3>2, <3>3
  <2> QED BY <2>2, <2>3
<1>8. Len(left) \in Nat /\ Len(left) <= Len(hits)
  BY <1>3, <1>5
<1> QED BY <1>1, <1>3, <1>4, <1>6, <1>7, <1>8 DEF left

LEMMA LimiterInitInv ==
  ASSUME LimiterInit
  PROVE  LimiterInv /\ SlidingOK /\ SlidingBudget /\ BucketsOK /\ KeyBudget
         /\ RefusedOnlyWhenFull
<1> USE TimeAssumption, MaxCallsAssumption, WindowAssumption, DelayAssumption, NeverAssumption
<1>1. Cardinality({}) = 0 /\ IsFiniteSet({})
  BY FS_EmptySet
<1>2. admitted = {} /\ hits = <<>> /\ now = 0 /\ now \in 0 .. MaxTime /\ 0 \in 0 .. now
  BY DEF LimiterInit
<1>3. LimiterRanges
  BY <1>2 DEF LimiterRanges, LimiterInit
<1>4. Counted /\ Timely /\ FirstsOK
  BY <1>1, <1>2 DEF Counted, Timely, FirstsOK, LimiterInit
<1>5. \A x : Since(x) = {} /\ InBucket(x) = {} /\ \A y : Within(x, y) = {}
  BY <1>2 DEF Since, InBucket, Within
<1>6. \A x : Young(hits, x) = {}
  BY <1>2 DEF Young
<1>7. NearlySorted
  BY <1>2 DEF NearlySorted
<1>8. SlidingOK
  <2>1. \A x : Cardinality(Young(hits, x)) = 0 /\ Cardinality(Since(x)) = 0
    BY <1>1, <1>5, <1>6, Zenon
  <2> QED BY <1>7, <2>1 DEF SlidingOK
<1>9. SlidingBudget
  BY <1>1, <1>5 DEF SlidingBudget
<1>10. \A b \in Buckets : counters[b] = 0 /\ expiry[b] = Never
  BY DEF LimiterInit
<1>11. BucketsOK /\ KeyBudget
  <2>1. \A b : Cardinality(InBucket(b)) = 0 /\ \A k : OfKey(b, k) = {}
    BY <1>1, <1>5, Zenon DEF OfKey
  <2>2. KeyCounts
    BY <1>1, <2>1 DEF KeyCounts
  <2>3. KeysBorn /\ KeysApart
    BY <1>2 DEF KeysBorn, KeysApart
  <2>4. KeysNow
    BY <1>5, <1>10 DEF KeysNow
  <2> QED BY <1>10, <2>1, <2>2, <2>3, <2>4 DEF BucketsOK, KeyBudget
<1>12. RefusedOnlyWhenFull
  BY DEF RefusedOnlyWhenFull, LimiterInit
<1> QED BY <1>3, <1>4, <1>8, <1>9, <1>11, <1>12 DEF LimiterInv

-----------------------------------------------------------------------------
(* One step.  First, what a decision adds to the history.                      *)
LEMMA Decided ==
  ASSUME LimiterInv, NEW th \in Threads, UNCHANGED now, Admit(th) \/ Refuse(th),
         pc[th] = "timed", born' \in [Buckets -> 0 .. now]
  PROVE  /\ Counted' /\ admitted \subseteq admitted'
         /\ \A a \in admitted' : a.began <= a.at /\ a.at <= a.began + MaxDelay
         /\ refused' \in 0 .. now \cup {Never}
<1> USE DEF LimiterInv
<1>1. /\ stamp[th] \in 0 .. now /\ stamp[th] <= now /\ now \in Nat /\ stamp[th] \in Nat
      /\ Bucket(th) \in Buckets /\ now <= stamp[th] + MaxDelay
  BY StampRange, DelayAssumption DEF Timely
<1>2. CASE Admit(th)
  <2>1. Counted'
    BY <1>1, <1>2, OneMore
  <2>2. PICK a \in Moments :
          admitted' = admitted \cup {a} /\ a.began = stamp[th] /\ a.at = now
    BY <1>1, <1>2, OneMore
  <2>3. refused' = refused
    BY <1>2 DEF Admit
  <2> QED BY <1>1, <2>1, <2>2, <2>3 DEF Timely, LimiterRanges
<1>3. CASE Refuse(th)
  <2>1. admitted' = admitted /\ refused' = stamp[th]
    BY <1>3 DEF Refuse
  <2>2. Counted'
    <3>1. Moments' = Moments
      BY DEF Moments
    <3> QED BY <2>1, <3>1 DEF Counted, Together
  <2> QED BY <1>1, <2>1, <2>2 DEF Timely
<1> QED BY <1>2, <1>3

LEMMA TickInv ==
  ASSUME LimiterInv, LimiterTick
  PROVE  LimiterInv'
<1> USE DEF LimiterInv
<1>1. now \in Nat /\ now' = now + 1 /\ now' \in 0 .. MaxTime /\ now' \in Nat /\ now < now'
  BY TimeAssumption DEF LimiterTick, LimiterRanges
<1>2. UNCHANGED <<backend, pc, stamp, hits, born, admitted, refused>>
  BY DEF LimiterTick
<1>3. 0 .. now \subseteq 0 .. now' /\ Moments \subseteq Moments'
  BY <1>1, ClockGrows
<1>4. \A b \in Buckets :
        /\ counters'[b] = IF expiry[b] # Never /\ expiry[b] <= now' THEN 0 ELSE counters[b]
        /\ expiry'[b] = IF expiry[b] # Never /\ expiry[b] <= now' THEN Never ELSE expiry[b]
  BY DEF LimiterTick
<1>5. LimiterRanges'
  <2>1. hits' \in Seq(0 .. now')
    BY <1>2, <1>3, SeqMonotonic DEF LimiterRanges
  <2>2. /\ stamp' \in [Threads -> 0 .. now'] /\ refused' \in 0 .. now' \cup {Never}
        /\ born' \in [Buckets -> 0 .. now']
    BY <1>2, <1>3 DEF LimiterRanges
  <2>3. counters' \in [Buckets -> 0 .. MaxCalls + 1]
    BY MaxCallsAssumption DEF LimiterTick, LimiterRanges
  <2>4. expiry' \in [Buckets -> Nat \cup {Never}]
    BY DEF LimiterTick, LimiterRanges
  <2>5. ASSUME NEW b \in Buckets
        PROVE  expiry'[b] = Never \/ (expiry'[b] > now' /\ counters'[b] > 0)
    <3>1. expiry[b] \in Nat \cup {Never} /\ (expiry[b] = Never \/ counters[b] > 0)
      BY DEF LimiterRanges
    <3> QED BY <1>1, <1>4, <3>1
  <2> QED BY <1>1, <1>2, <2>1, <2>2, <2>3, <2>4, <2>5 DEF LimiterRanges, Buckets
<1>6. Counted'
  BY <1>2, <1>3 DEF Counted, Together
<1>7. Timely'
  <2>1. ASSUME NEW th \in Threads, pc[th] = "timed" PROVE now' - stamp[th] <= MaxDelay
    <3>1. now - stamp[th] < MaxDelay
      BY <2>1 DEF LimiterTick
    <3> QED BY <1>1, <3>1, StampRange, DelayAssumption
  <2> QED BY <1>2, <2>1 DEF Timely
<1>8. FirstsOK'
  <2>1. \A th \in Threads : Bucket(th)' = Bucket(th) /\ Bucket(th) \in Buckets
    BY <1>2, StampRange DEF Bucket
  <2> QED BY <1>2, <1>4, <2>1 DEF FirstsOK
<1> QED BY <1>5, <1>6, <1>7, <1>8

LEMMA ReadClockInv ==
  ASSUME LimiterInv, NEW th \in Threads, ReadClock(th)
  PROVE  LimiterInv'
<1> USE DEF LimiterInv
<1>1. /\ UNCHANGED <<now, backend, hits, counters, expiry, born, admitted, refused>>
      /\ pc[th] = "idle"
      /\ pc' = [pc EXCEPT ![th] = "timed"] /\ stamp' = [stamp EXCEPT ![th] = now]
  BY DEF ReadClock, Goto
<1>2. now \in Nat /\ now \in 0 .. now
  BY DEF LimiterRanges
<1>3. /\ pc'[th] = "timed" /\ stamp'[th] = now
      /\ \A other \in Threads \ {th} : pc'[other] = pc[other] /\ stamp'[other] = stamp[other]
  BY <1>1 DEF LimiterRanges
<1>4. LimiterRanges'
  BY <1>1, <1>2 DEF LimiterRanges, Buckets
<1>5. Counted'
  BY <1>1 DEF Counted, Together, Moments
<1>6. Timely'
  BY <1>1, <1>2, <1>3, DelayAssumption DEF Timely
<1>7. FirstsOK'
  BY <1>1, <1>3 DEF FirstsOK, Bucket
<1> QED BY <1>4, <1>5, <1>6, <1>7

LEMMA BornRange ==
  ASSUME LimiterInv, NEW th \in Threads, CheckSliding(th) \/ Increment(th)
  PROVE  /\ born' \in [Buckets -> 0 .. now] /\ pc[th] = "timed"
         /\ Bucket(th) \in Buckets /\ UNCHANGED now
         /\ Increment(th) =>
              /\ \A b \in Buckets \ {Bucket(th)} : born'[b] = born[b]
              /\ born'[Bucket(th)] = IF counters[Bucket(th)] = 0 THEN now ELSE born[Bucket(th)]
<1> USE DEF LimiterInv
<1>1. Bucket(th) \in Buckets
  BY StampRange
<1>2. born \in [Buckets -> 0 .. now] /\ now \in 0 .. now
  BY DEF LimiterRanges
<1>3. CASE CheckSliding(th)
  BY <1>1, <1>2, <1>3 DEF CheckSliding, Increment
<1>4. CASE Increment(th)
  <2> DEFINE hit == Bucket(th)
             birth == IF counters[hit] = 0 THEN now ELSE born[hit]
  <2>1. born' = [born EXCEPT ![hit] = birth] /\ pc[th] = "timed" /\ UNCHANGED now
    BY <1>4 DEF Increment
  <2>2. birth \in 0 .. now
    BY <1>1, <1>2
  <2> HIDE DEF birth, hit
  <2>3. /\ born' \in [Buckets -> 0 .. now] /\ \A b \in Buckets \ {hit} : born'[b] = born[b]
        /\ hit \in Buckets => born'[hit] = birth
    BY <1>2, <2>1, <2>2
  <2> QED BY <1>1, <2>1, <2>3 DEF hit, birth
<1> QED BY <1>3, <1>4

LEMMA CheckSlidingInv ==
  ASSUME LimiterInv, NEW th \in Threads, CheckSliding(th)
  PROVE  LimiterInv'
<1> USE DEF LimiterInv
<1> DEFINE left == Prune(hits, stamp[th] - Window)
<1>1. /\ UNCHANGED <<now, backend, counters, expiry, born>>
      /\ pc[th] = "timed" /\ backend = "memory"
      /\ pc' = [pc EXCEPT ![th] = "idle"] /\ stamp' = [stamp EXCEPT ![th] = 0]
      /\ Admit(th) \/ Refuse(th)
      /\ hits' = left \/ (Len(left) < MaxCalls /\ hits' = Append(left, stamp[th]))
  <2>1. ASSUME ~(Len(left) >= MaxCalls) PROVE Len(left) < MaxCalls
    <3>1. Len(left) \in Nat
      BY StampRange, PrunedHits, WindowAssumption
    <3> HIDE DEF left
    <3> QED BY <2>1, <3>1, MaxCallsAssumption
  <2> HIDE DEF left
  <2> QED BY <2>1 DEF CheckSliding, Return, Goto, left
<1>2. /\ now \in Nat /\ 0 \in 0 .. now
      /\ stamp[th] \in 0 .. now /\ stamp[th] - Window \in Int
  BY StampRange, WindowAssumption DEF LimiterRanges
<1>3. /\ left \in Seq(0 .. now) /\ Len(left) \in Nat /\ Len(left) <= Len(hits)
      /\ Len(hits) \in Nat /\ Len(hits) <= MaxCalls
  BY <1>2, PrunedHits DEF LimiterRanges
<1> HIDE DEF left
<1>4. hits' \in Seq(0 .. now) /\ Len(hits') <= MaxCalls
  <2>1. CASE hits' = left
    BY <1>3, <2>1, MaxCallsAssumption
  <2>2. CASE Len(left) < MaxCalls /\ hits' = Append(left, stamp[th])
    <3>1. hits' \in Seq(0 .. now) /\ Len(hits') = Len(left) + 1
      BY <1>2, <1>3, <2>2, AppendProperties
    <3> QED BY <1>3, <2>2, <3>1, MaxCallsAssumption
  <2> QED BY <1>1, <2>1, <2>2
<1>5. /\ Counted' /\ \A a \in admitted' : a.began <= a.at /\ a.at <= a.began + MaxDelay
      /\ refused' \in 0 .. now \cup {Never}
  BY <1>1, Decided, BornRange
<1>6. LimiterRanges'
  BY <1>1, <1>2, <1>4, <1>5 DEF LimiterRanges, Buckets
<1>7. /\ pc'[th] = "idle"
      /\ \A other \in Threads \ {th} : pc'[other] = pc[other] /\ stamp'[other] = stamp[other]
  BY <1>1 DEF LimiterRanges
<1>8. Timely'
  BY <1>1, <1>5, <1>7 DEF Timely
<1>9. FirstsOK'
  BY <1>1, <1>7 DEF FirstsOK
<1> QED BY <1>5, <1>6, <1>8, <1>9

(* What INCR does, in its three outcomes.                                      *)
LEMMA Incremented ==
  ASSUME LimiterInv, NEW th \in Threads, Increment(th)
  PROVE  LET hit == Bucket(th) IN
         /\ hit \in Buckets /\ counters[hit] \in 0 .. MaxCalls + 1
         /\ counters' \in [Buckets -> 0 .. MaxCalls + 1]
         /\ \A b \in Buckets \ {hit} : counters'[b] = counters[b]
         /\ \/ counters[hit] < MaxCalls /\ counters'[hit] = counters[hit] + 1 /\ Admit(th)
            \/ counters[hit] >= MaxCalls /\ counters'[hit] = MaxCalls + 1 /\ Refuse(th)
<1> USE DEF LimiterInv
<1> DEFINE hit == Bucket(th)
           c == counters[hit]
<1>1. hit \in Buckets
  BY StampRange
<1>2. counters \in [Buckets -> 0 .. MaxCalls + 1] /\ c \in 0 .. MaxCalls + 1
  BY <1>1 DEF LimiterRanges
<1>3. /\ counters' = [counters EXCEPT ![hit] = IF c > MaxCalls THEN c ELSE c + 1]
      /\ IF counters'[hit] > MaxCalls THEN Refuse(th) ELSE Admit(th)
  BY DEF Increment
<1> HIDE DEF hit
<1>4. /\ counters'[hit] = IF c > MaxCalls THEN c ELSE c + 1
      /\ \A b \in Buckets \ {hit} : counters'[b] = counters[b]
  BY <1>1, <1>2, <1>3
<1>5. (IF c > MaxCalls THEN c ELSE c + 1) \in 0 .. MaxCalls + 1
  BY <1>2, MaxCallsAssumption
<1>6. counters' \in [Buckets -> 0 .. MaxCalls + 1]
  BY <1>1, <1>2, <1>3, <1>5
<1>7. CASE c < MaxCalls
  <2>1. counters'[hit] = c + 1 /\ ~(counters'[hit] > MaxCalls)
    BY <1>2, <1>4, <1>7, MaxCallsAssumption
  <2> QED BY <1>1, <1>2, <1>3, <1>4, <1>6, <1>7, <2>1 DEF hit
<1>8. CASE c >= MaxCalls
  <2>1. counters'[hit] = MaxCalls + 1 /\ counters'[hit] > MaxCalls
    BY <1>2, <1>4, <1>8, MaxCallsAssumption
  <2> QED BY <1>1, <1>2, <1>3, <1>4, <1>6, <1>8, <2>1 DEF hit
<1>9. c < MaxCalls \/ c >= MaxCalls
  BY <1>2, MaxCallsAssumption
<1> QED BY <1>7, <1>8, <1>9

LEMMA IncrementInv ==
  ASSUME LimiterInv, NEW th \in Threads, Increment(th)
  PROVE  LimiterInv'
<1> USE DEF LimiterInv
<1> DEFINE hit == Bucket(th)
<1>1. /\ UNCHANGED <<now, backend, hits, expiry>>
      /\ pc[th] = "timed" /\ backend = "redis"
      /\ \/ counters'[hit] = 1 /\ pc' = [pc EXCEPT ![th] = "first"] /\ stamp' = stamp
         \/ /\ counters'[hit] # 1
            /\ pc' = [pc EXCEPT ![th] = "idle"] /\ stamp' = [stamp EXCEPT ![th] = 0]
  BY DEF Increment, Return, Goto
<1>2. /\ hit \in Buckets /\ counters[hit] \in 0 .. MaxCalls + 1
      /\ counters' \in [Buckets -> 0 .. MaxCalls + 1]
      /\ \A b \in Buckets \ {hit} : counters'[b] = counters[b]
      /\ \/ counters[hit] < MaxCalls /\ counters'[hit] = counters[hit] + 1
         \/ counters[hit] >= MaxCalls /\ counters'[hit] = MaxCalls + 1
      /\ Admit(th) \/ Refuse(th)
  BY Incremented
<1>3. /\ Counted' /\ \A a \in admitted' : a.began <= a.at /\ a.at <= a.began + MaxDelay
      /\ refused' \in 0 .. now \cup {Never}
  BY <1>1, <1>2, Decided, BornRange
<1>4. counters'[hit] > 0 /\ (counters'[hit] = 1 => counters[hit] = 0)
  BY <1>2, MaxCallsAssumption
<1>5. 0 \in 0 .. now
  BY DEF LimiterRanges
<1> HIDE DEF hit
<1>6. LimiterRanges'
  <2>1. stamp' \in [Threads -> 0 .. now] /\ pc' \in [Threads -> {"idle", "timed", "first"}]
    BY <1>1, <1>5 DEF LimiterRanges
  <2>2. \A b \in Buckets : expiry[b] = Never \/ (expiry[b] > now /\ counters'[b] > 0)
    BY <1>2, <1>4 DEF LimiterRanges
  <2> QED BY <1>1, <1>2, <1>3, <2>1, <2>2, BornRange DEF LimiterRanges, Buckets
<1>7. /\ pc'[th] # "timed"
      /\ \A other \in Threads \ {th} : pc'[other] = pc[other] /\ stamp'[other] = stamp[other]
      /\ pc'[th] = "first" => counters'[hit] = 1 /\ stamp'[th] = stamp[th]
  BY <1>1 DEF LimiterRanges
<1>8. Timely'
  BY <1>1, <1>3, <1>7 DEF Timely
<1>9. FirstsOK'
  <2>1. \A other \in Threads \ {th} : Bucket(other)' = Bucket(other) /\ Bucket(other) \in Buckets
    BY <1>7, StampRange DEF Bucket
  <2>2. pc'[th] = "first" => /\ Bucket(th)' = hit /\ counters'[hit] = 1
                             /\ counters[hit] = 0 /\ expiry[hit] = Never
    <3>1. pc'[th] = "first" => Bucket(th)' = hit
      BY <1>7 DEF Bucket, hit
    <3>2. counters[hit] = 0 => expiry[hit] = Never
      BY <1>2 DEF LimiterRanges
    <3> QED BY <1>4, <1>7, <3>1, <3>2
  <2>3. ASSUME NEW other \in Threads, pc'[other] = "first"
        PROVE  /\ backend' = "redis" /\ counters'[Bucket(other)'] > 0
               /\ expiry'[Bucket(other)'] = Never
    <3>1. CASE other = th
      BY <1>1, <1>4, <2>2, <2>3, <3>1
    <3>2. CASE other # th
      <4>1. pc[other] = "first" /\ Bucket(other)' = Bucket(other) /\ Bucket(other) \in Buckets
        BY <1>7, <2>1, <2>3, <3>2
      <4>2. counters[Bucket(other)] > 0 /\ expiry[Bucket(other)] = Never
        BY <4>1 DEF FirstsOK
      <4>3. counters'[Bucket(other)] > 0
        BY <1>2, <1>4, <4>1, <4>2
      <4> QED BY <1>1, <4>1, <4>2, <4>3
    <3> QED BY <3>1, <3>2
  <2>4. ASSUME NEW one \in Threads, NEW other \in Threads,
               pc'[one] = "first", pc'[other] = "first", Bucket(one)' = Bucket(other)'
        PROVE  one = other
    <3>1. \A x \in Threads \ {th} : pc'[x] = "first" =>
            pc[x] = "first" /\ counters[Bucket(x)] > 0
      BY <1>7 DEF FirstsOK
    <3>2. \A x \in Threads \ {th} :
            pc'[x] = "first" /\ pc'[th] = "first" => Bucket(x)' # Bucket(th)'
      BY <2>1, <2>2, <3>1
    <3>3. CASE one # th /\ other # th
      BY <2>1, <2>4, <3>1, <3>3 DEF FirstsOK
    <3> QED BY <2>4, <3>2, <3>3
  <2> QED BY <2>3, <2>4 DEF FirstsOK
<1> QED BY <1>3, <1>6, <1>8, <1>9

LEMMA ExpireInv ==
  ASSUME LimiterInv, NEW th \in Threads, Expire(th) \/ LoseExpire(th)
  PROVE  LimiterInv'
<1> USE DEF LimiterInv
<1>1. /\ UNCHANGED <<now, backend, hits, counters, born, admitted, refused>>
      /\ pc[th] = "first"
      /\ pc' = [pc EXCEPT ![th] = "idle"] /\ stamp' = [stamp EXCEPT ![th] = 0]
      /\ \/ expiry' = expiry
         \/ expiry' = [expiry EXCEPT ![Bucket(th)] = now + KeyLife]
  BY DEF Expire, LoseExpire, Return, Goto
<1>2. /\ Bucket(th) \in Buckets /\ now \in Nat /\ 0 \in 0 .. now
      /\ now + KeyLife \in Nat /\ now + KeyLife > now
  BY StampRange, KeyOutlives DEF LimiterRanges
<1>3. backend = "redis" /\ counters[Bucket(th)] > 0
  BY <1>1 DEF FirstsOK
<1>4. LimiterRanges'
  <2>1. expiry' \in [Buckets -> Nat \cup {Never}]
    BY <1>1, <1>2 DEF LimiterRanges
  <2>2. \A b \in Buckets : expiry'[b] = Never \/ (expiry'[b] > now /\ counters[b] > 0)
    BY <1>1, <1>2, <1>3 DEF LimiterRanges
  <2> QED BY <1>1, <1>2, <2>1, <2>2 DEF LimiterRanges, Buckets
<1>5. Counted'
  BY <1>1 DEF Counted, Together, Moments
<1>6. /\ pc'[th] = "idle"
      /\ \A other \in Threads \ {th} : pc'[other] = pc[other] /\ stamp'[other] = stamp[other]
  BY <1>1 DEF LimiterRanges
<1>7. Timely'
  BY <1>1, <1>6 DEF Timely
<1>8. FirstsOK'
  <2>1. ASSUME NEW other \in Threads, pc'[other] = "first"
        PROVE  /\ other # th /\ pc[other] = "first" /\ Bucket(other)' = Bucket(other)
               /\ backend' = "redis" /\ counters'[Bucket(other)'] > 0
               /\ expiry'[Bucket(other)'] = Never
    <3>1. other # th /\ pc[other] = "first" /\ Bucket(other)' = Bucket(other)
      BY <1>6, <2>1 DEF Bucket
    <3>2. Bucket(other) # Bucket(th) /\ Bucket(other) \in Buckets
      BY <1>1, <3>1, StampRange DEF FirstsOK
    <3>3. /\ expiry[Bucket(other)] = Never /\ counters[Bucket(other)] > 0
          /\ expiry'[Bucket(other)] = expiry[Bucket(other)]
      BY <1>1, <3>1, <3>2 DEF FirstsOK, LimiterRanges
    <3> QED BY <1>1, <1>3, <3>1, <3>3
  <2> QED BY <2>1 DEF FirstsOK
<1> QED BY <1>4, <1>5, <1>7, <1>8

LEMMA LimiterStutter ==
  ASSUME UNCHANGED limiterVars
  PROVE  /\ UNCHANGED <<now, backend, pc, stamp, hits, counters, expiry, born, admitted, refused>>
         /\ \A x : Since(x)' = Since(x) /\ InBucket(x)' = InBucket(x)
  BY DEF limiterVars, Since, InBucket

LEMMA LimiterStep ==
  ASSUME LimiterInv, [LimiterNext]_limiterVars
  PROVE  LimiterInv'
<1>1. CASE LimiterTick
  BY <1>1, TickInv
<1>2. ASSUME NEW th \in Threads, Check(th) PROVE LimiterInv'
  BY <1>2, ReadClockInv, CheckSlidingInv, IncrementInv, ExpireInv DEF Check
<1>3. CASE UNCHANGED limiterVars
  BY <1>3, LimiterStutter DEF LimiterInv, LimiterRanges, Counted, Together, Moments,
       Timely, FirstsOK, Bucket, Buckets
<1> QED BY <1>1, <1>2, <1>3 DEF LimiterNext

-----------------------------------------------------------------------------
(* A step decides a call, in memory or in Redis, or adds nothing to what is     *)
(* counted: a key may expire.                                                  *)
Quiet ==
  /\ UNCHANGED <<backend, hits, born, admitted, refused>>
  /\ now' = now \/ (now' = now + 1 /\ now' \in Nat)
  /\ \A b \in Buckets :
       \/ counters'[b] = counters[b]
       \/ counters'[b] = 0 /\ expiry[b] # Never /\ expiry[b] <= now'
  /\ \A b \in Buckets : expiry'[b] \in {expiry[b], Never, now + KeyLife}

LEMMA LimiterCases ==
  ASSUME LimiterInv, [LimiterNext]_limiterVars
  PROVE  \/ Quiet
         \/ \E th \in Threads : CheckSliding(th) \/ Increment(th)
<1>1. CASE LimiterTick
  <2>1. now \in Nat
    BY DEF LimiterInv, LimiterRanges
  <2>2. \A b \in Buckets :
          \/ counters'[b] = counters[b]
          \/ counters'[b] = 0 /\ expiry[b] # Never /\ expiry[b] <= now'
    BY <1>1 DEF LimiterTick
  <2>3. \A b \in Buckets : expiry'[b] \in {expiry[b], Never}
    BY <1>1 DEF LimiterTick
  <2> QED BY <1>1, <2>1, <2>2, <2>3 DEF LimiterTick, Quiet
<1>2. ASSUME NEW th \in Threads, Check(th), ~(CheckSliding(th) \/ Increment(th))
      PROVE  Quiet
  <2>1. expiry \in [Buckets -> Nat \cup {Never}]
    BY DEF LimiterInv, LimiterRanges
  <2>2. \A b \in Buckets : expiry'[b] \in {expiry[b], Never, now + KeyLife}
    BY <1>2, <2>1 DEF Check, ReadClock, Expire, LoseExpire
  <2> QED BY <1>2, <2>2 DEF Check, ReadClock, Expire, LoseExpire, Quiet
<1>3. CASE UNCHANGED limiterVars
  BY <1>3 DEF limiterVars, Quiet
<1> QED BY <1>1, <1>2, <1>3 DEF LimiterNext

(* The deque after a check, next to the history.                               *)
LEMMA CheckedHits ==
  ASSUME LimiterInv, SlidingOK, NEW th \in Threads, CheckSliding(th)
  PROVE  /\ hits' \in Seq(Int) /\ Len(hits') <= MaxCalls /\ backend = "memory"
         /\ UNCHANGED <<now, backend>> /\ NearlySorted'
         /\ \A x \in Int : Cardinality(Young(hits, x)') <= Cardinality(Since(x)')
         /\ \A from \in 0 .. now : now < from + Window =>
              Cardinality(Since(from)') <= Cardinality(Young(hits, from)')
<1> USE DEF LimiterInv
<1> DEFINE left == Prune(hits, stamp[th] - Window)
<1>1. /\ UNCHANGED <<now, backend>> /\ pc[th] = "timed" /\ backend = "memory"
      /\ \/ hits' = left /\ Refuse(th)
         \/ hits' = Append(left, stamp[th]) /\ Admit(th)
  BY DEF CheckSliding
<1>2. /\ now \in Nat /\ stamp[th] \in Int /\ stamp[th] \in 0 .. now
      /\ stamp[th] - Window \in Int /\ stamp[th] <= now
      /\ now - stamp[th] <= MaxDelay /\ MaxDelay \in Nat /\ Window \in Nat
  BY <1>1, StampRange, WindowAssumption, DelayAssumption DEF Timely
<1>3. NearlySorted
  BY <1>1 DEF SlidingOK
<1>4. /\ left \in Seq(0 .. now) /\ left \in Seq(Int) /\ hits \in Seq(Int)
      /\ \A i, j \in DOMAIN left : i < j => left[j] >= left[i] - MaxDelay
  BY <1>2, <1>3, PrunedHits
<1>5. /\ hits' \in Seq(Int) /\ Len(hits') <= MaxCalls
  <2>1. LimiterInv'
    BY CheckSlidingInv
  <2>2. hits' \in Seq(0 .. now') /\ Len(hits') <= MaxCalls /\ 0 .. now' \subseteq Int
    BY <2>1 DEF LimiterRanges
  <2> QED BY <2>2, SeqMonotonic
<1>6. \A x \in Int :
        /\ IsFiniteSet(Young(left, x)) /\ Cardinality(Young(left, x)) \in Nat
        /\ Cardinality(Young(hits, x)) \in Nat
        /\ Cardinality(Young(left, x)) <= Cardinality(Young(hits, x))
        /\ x > stamp[th] - Window => Cardinality(Young(left, x)) = Cardinality(Young(hits, x))
  BY <1>2, <1>4, PruneKeepsYoung
<1>7. \A x \in Int : Young(hits, x)' = Young(hits', x)
  BY DEF Young
<1>8. \A x \in Int : Cardinality(Since(x)) \in Nat
  <2>1. \A x \in Int : Since(x) \subseteq admitted
    BY DEF Since
  <2> QED BY <2>1, SubsetsCount
<1>9. \A x \in Int : Cardinality(Young(hits, x)) <= Cardinality(Since(x))
  BY <1>1 DEF SlidingOK
<1>10. \A from \in 0 .. now : now < from + Window =>
         /\ Cardinality(Since(from)) <= Cardinality(Young(hits, from))
         /\ from > stamp[th] - Window /\ from \in Int
  BY <1>1, <1>2 DEF SlidingOK
<1> HIDE DEF left
<1>11. CASE hits' = left /\ Refuse(th)
  <2>1. \A x \in Int : Young(hits, x)' = Young(left, x) /\ Since(x)' = Since(x)
    BY <1>7, <1>11 DEF Refuse, Since
  <2>2. NearlySorted'
    BY <1>4, <1>11 DEF NearlySorted
  <2>3. \A x \in Int : Cardinality(Young(hits, x)') <= Cardinality(Since(x)')
    BY <1>6, <1>8, <1>9, <2>1
  <2>4. ASSUME NEW from \in 0 .. now, now < from + Window
        PROVE  Cardinality(Since(from)') <= Cardinality(Young(hits, from)')
    BY <1>6, <1>10, <2>1, <2>4
  <2> QED BY <1>1, <1>5, <2>2, <2>3, <2>4
<1>12. CASE hits' = Append(left, stamp[th]) /\ Admit(th)
  <2>1. \A x \in Int :
          /\ stamp[th] >= x => Cardinality(Young(hits, x)') = Cardinality(Young(left, x)) + 1
          /\ stamp[th] < x => Cardinality(Young(hits, x)') = Cardinality(Young(left, x))
    BY <1>2, <1>4, <1>6, <1>7, <1>12, AppendYoung
  <2>2. \A x \in Int :
          Cardinality(Since(x)') = IF stamp[th] >= x THEN Cardinality(Since(x)) + 1
                                                     ELSE Cardinality(Since(x))
    BY <1>1, <1>12, OneMoreSince, BornRange
  <2>3. NearlySorted'
    <3>1. /\ DOMAIN left = 1 .. Len(left) /\ Len(left) \in Nat
          /\ DOMAIN hits' = 1 .. Len(left) + 1
          /\ hits'[Len(left) + 1] = stamp[th]
          /\ \A i \in 1 .. Len(left) : hits'[i] = left[i] /\ left[i] \in 0 .. now
      BY <1>2, <1>4, <1>12
    <3>2. ASSUME NEW i \in DOMAIN hits', NEW j \in DOMAIN hits', i < j
          PROVE  hits'[j] >= hits'[i] - MaxDelay
      <4>1. CASE j \in 1 .. Len(left)
        <5>1. i \in 1 .. Len(left)
          BY <3>1, <3>2, <4>1
        <5> QED BY <1>4, <3>1, <3>2, <4>1, <5>1
      <4>2. CASE j = Len(left) + 1
        <5>1. i \in 1 .. Len(left)
          BY <3>1, <3>2, <4>2
        <5>2. hits'[i] \in 0 .. now /\ hits'[j] = stamp[th]
          BY <3>1, <4>2, <5>1
        <5> QED BY <1>2, <5>2
      <4> QED BY <3>1, <4>1, <4>2
    <3> QED BY <3>2 DEF NearlySorted
  <2>4. ASSUME NEW x \in Int
        PROVE  Cardinality(Young(hits, x)') <= Cardinality(Since(x)')
    <3>1. stamp[th] >= x \/ stamp[th] < x
      BY <1>2
    <3> QED BY <1>2, <1>6, <1>8, <1>9, <2>1, <2>2, <3>1
  <2>5. ASSUME NEW from \in 0 .. now, now < from + Window
        PROVE  Cardinality(Since(from)') <= Cardinality(Young(hits, from)')
    <3>1. from \in Int /\ (stamp[th] >= from \/ stamp[th] < from)
      BY <1>2
    <3> QED BY <1>2, <1>6, <1>8, <1>10, <2>1, <2>2, <2>5, <3>1
  <2> QED BY <1>1, <1>5, <2>3, <2>4, <2>5
<1> QED BY <1>1, <1>11, <1>12

LEMMA SlidingStep ==
  ASSUME LimiterInv, SlidingOK, [LimiterNext]_limiterVars
  PROVE  SlidingOK'
<1>1. now \in Nat
  BY DEF LimiterInv, LimiterRanges
<1>2. CASE Quiet
  <2>1. SUFFICES ASSUME backend' = "memory"
        PROVE  /\ NearlySorted'
               /\ \A x \in Int : Cardinality(Young(hits, x)') <= Cardinality(Since(x)')
               /\ \A from \in 0 .. now' : now' < from + Window =>
                    Cardinality(Since(from)') <= Cardinality(Young(hits, from)')
    BY DEF SlidingOK
  <2>2. /\ \A x : Since(x)' = Since(x) /\ Young(hits, x)' = Young(hits, x)
        /\ NearlySorted' = NearlySorted
    BY <1>2 DEF Quiet, Since, Young, NearlySorted
  <2>3. /\ NearlySorted
        /\ \A x \in Int : Cardinality(Young(hits, x)) <= Cardinality(Since(x))
        /\ \A from \in 0 .. now : now < from + Window =>
             Cardinality(Since(from)) <= Cardinality(Young(hits, from))
    BY <1>2, <2>1 DEF Quiet, SlidingOK
  <2>4. ASSUME NEW from \in 0 .. now', now' < from + Window
        PROVE  Cardinality(Since(from)) <= Cardinality(Young(hits, from))
    <3>1. CASE from \in 0 .. now
      BY <1>1, <1>2, <2>3, <2>4, <3>1, WindowAssumption DEF Quiet
    <3>2. CASE from \notin 0 .. now
      <4>1. from \in Int /\ from > now
        BY <1>1, <1>2, <2>4, <3>2 DEF Quiet
      <4>2. Since(from) = {}
        BY <1>1, <4>1 DEF LimiterInv, Counted, Moments, Since
      <4>3. Cardinality(Since(from)) = 0
        BY <4>2, FS_EmptySet
      <4>4. Cardinality(Young(hits, from)) \in Nat
        <5>1. hits \in Seq(0 .. now) /\ 0 .. now \subseteq Int
          BY DEF LimiterInv, LimiterRanges
        <5>2. hits \in Seq(Int)
          BY <5>1, SeqMonotonic
        <5> QED BY <4>1, <5>2, PruneKeepsYoung
      <4> QED BY <4>3, <4>4
    <3> QED BY <3>1, <3>2
  <2> QED BY <2>2, <2>3, <2>4
<1>3. ASSUME NEW th \in Threads, CheckSliding(th) PROVE SlidingOK'
  BY <1>3, CheckedHits DEF SlidingOK
<1>4. ASSUME NEW th \in Threads, Increment(th) PROVE SlidingOK'
  BY <1>4 DEF Increment, SlidingOK
<1> QED BY <1>2, <1>3, <1>4, LimiterCases

-----------------------------------------------------------------------------
(* The sliding window admits its budget.                                       *)
LEMMA SlidingBudgetStep ==
  ASSUME LimiterInv, SlidingOK, SlidingBudget, [LimiterNext]_limiterVars
  PROVE  SlidingBudget'
<1>1. now \in Nat /\ MaxCalls \in Nat
  BY MaxCallsAssumption DEF LimiterInv, LimiterRanges
<1>2. CASE Quiet
  <2>1. SUFFICES ASSUME backend' = "memory", NEW from \in 0 .. now'
                 PROVE  Cardinality(Within(from, from + Window)') <= MaxCalls
    BY DEF SlidingBudget, Within
  <2>2. Within(from, from + Window)' = Within(from, from + Window)
    BY <1>2 DEF Quiet, Within
  <2>3. CASE from \in 0 .. now
    BY <1>2, <2>1, <2>2, <2>3 DEF Quiet, SlidingBudget
  <2>4. CASE from \notin 0 .. now
    <3>1. from > now
      BY <1>1, <1>2, <2>1, <2>4 DEF Quiet
    <3>2. Within(from, from + Window) = {}
      BY <1>1, <2>1, <3>1 DEF LimiterInv, Counted, Moments, Within
    <3> QED BY <1>1, <2>2, <3>2, FS_EmptySet
  <2> QED BY <2>3, <2>4
<1>3. ASSUME NEW th \in Threads, CheckSliding(th) PROVE SlidingBudget'
  <2>1. /\ UNCHANGED <<now, backend>> /\ backend = "memory"
        /\ hits' \in Seq(Int) /\ Len(hits') <= MaxCalls
        /\ \A from \in 0 .. now : now < from + Window =>
             Cardinality(Since(from)') <= Cardinality(Young(hits, from)')
    BY <1>3, CheckedHits
  <2>2. Counted'
    BY <1>3, CheckSlidingInv DEF LimiterInv
  <2>3. SUFFICES ASSUME NEW from \in 0 .. now
                 PROVE  Cardinality(Within(from, from + Window)') <= MaxCalls
    BY <2>1 DEF SlidingBudget, Within
  <2>4. IsFiniteSet(Within(from, from + Window)') /\ IsFiniteSet(Since(from)')
        /\ Within(from, from + Window)' \subseteq Since(from)'
        /\ Since(from)' \subseteq admitted'
    <3>1. Within(from, from + Window)' \subseteq admitted' /\ Since(from)' \subseteq admitted'
          /\ Within(from, from + Window)' \subseteq Since(from)'
      BY DEF Within, Since
    <3> QED BY <2>2, <3>1, FS_Subset DEF Counted
  <2>5. Cardinality(Within(from, from + Window)') <= Cardinality(Since(from)')
        /\ Cardinality(Since(from)') \in Nat
        /\ Cardinality(Within(from, from + Window)') \in Nat
    BY <2>4, FS_Subset, FS_CardinalityType
  <2>6. CASE now < from + Window
    <3>1. Young(hits, from)' \subseteq 1 .. Len(hits') /\ Len(hits') \in Nat
      BY <2>1 DEF Young
    <3>2. Cardinality(Young(hits, from)') <= Len(hits')
          /\ Cardinality(Young(hits, from)') \in Nat
      BY <3>1, UpTo, FS_Subset, FS_CardinalityType
    <3>3. Cardinality(Since(from)') <= Cardinality(Young(hits, from)')
      BY <2>1, <2>6
    <3> QED BY <1>1, <2>1, <2>5, <3>1, <3>2, <3>3
  <2>7. CASE ~(now < from + Window)
    <3>1. Within(from, from + Window)' = Within(from, from + Window)
      <4>1. CASE Admit(th)
        <5>1. PICK a \in Moments : admitted' = admitted \cup {a} /\ a.at = now
          BY <1>3, <2>1, <4>1, OneMore, BornRange DEF LimiterInv
        <5>2. ~(a.at < from + Window)
          BY <2>7, <5>1
        <5> QED BY <5>1, <5>2 DEF Within
      <4>2. CASE Refuse(th)
        BY <4>2 DEF Refuse, Within
      <4> QED BY <1>3, <4>1, <4>2 DEF CheckSliding
    <3> QED BY <2>1, <3>1 DEF SlidingBudget
  <2> QED BY <2>6, <2>7
<1>4. ASSUME NEW th \in Threads, Increment(th) PROVE SlidingBudget'
  BY <1>4 DEF Increment, SlidingBudget
<1> QED BY <1>2, <1>3, <1>4, LimiterCases

-----------------------------------------------------------------------------
(* A key counts its bucket.                                                    *)
LEMMA BucketCount ==
  ASSUME LimiterInv, NEW b
  PROVE  IsFiniteSet(InBucket(b)) /\ Cardinality(InBucket(b)) \in Nat
<1>1. InBucket(b) \subseteq admitted
  BY DEF InBucket
<1> QED BY <1>1, SubsetsCount DEF LimiterInv

LEMMA BucketsStep ==
  ASSUME LimiterInv, BucketsOK, [LimiterNext]_limiterVars
  PROVE  BucketsOK'
<1>1. CASE backend = "memory"
  <2>1. backend' = "memory"
    BY <1>1, LimiterCases DEF Quiet, CheckSliding, Increment
  <2> QED BY <2>1 DEF BucketsOK
<1>2. CASE backend = "redis" /\ \E th \in Threads : Increment(th)
  <2>1. PICK th \in Threads : Increment(th)
    BY <1>2
  <2> DEFINE hit == Bucket(th)
  <2>2. /\ hit \in Buckets /\ counters[hit] \in 0 .. MaxCalls + 1
        /\ \A b \in Buckets \ {hit} : counters'[b] = counters[b]
        /\ \/ counters[hit] < MaxCalls /\ counters'[hit] = counters[hit] + 1 /\ Admit(th)
           \/ counters[hit] >= MaxCalls /\ counters'[hit] = MaxCalls + 1 /\ Refuse(th)
        /\ UNCHANGED now
    BY <2>1, Incremented DEF Increment
  <2>3. \A b \in Buckets : /\ \/ counters[b] <= Cardinality(InBucket(b))
                              \/ MaxCalls <= Cardinality(InBucket(b))
                           /\ Cardinality(InBucket(b)) \in Nat
    BY <1>2, BucketCount DEF BucketsOK
  <2>4. CASE Admit(th) /\ counters'[hit] = counters[hit] + 1
    <3>1. \A b \in Buckets :
            Cardinality(InBucket(b)') = IF hit = b THEN Cardinality(InBucket(b)) + 1
                                                   ELSE Cardinality(InBucket(b))
      BY <2>1, <2>2, <2>4, OneMoreInBucket, BornRange DEF LimiterInv
    <3> HIDE DEF hit
    <3>2. ASSUME NEW b \in Buckets
          PROVE  \/ counters'[b] <= Cardinality(InBucket(b)')
                 \/ MaxCalls <= Cardinality(InBucket(b)')
      <4>1. CASE b = hit
        BY <2>2, <2>3, <2>4, <3>1, <4>1, MaxCallsAssumption
      <4>2. CASE b # hit
        BY <2>2, <2>3, <3>1, <4>2
      <4> QED BY <4>1, <4>2
    <3> QED BY <3>2 DEF BucketsOK, Buckets
  <2>5. CASE Refuse(th) /\ counters[hit] >= MaxCalls
    <3>1. \A b : InBucket(b)' = InBucket(b)
      BY <2>5 DEF Refuse, InBucket
    <3> HIDE DEF hit
    <3>2. ASSUME NEW b \in Buckets
          PROVE  \/ counters'[b] <= Cardinality(InBucket(b))
                 \/ MaxCalls <= Cardinality(InBucket(b))
      <4>1. CASE b = hit
        BY <2>2, <2>3, <2>5, <4>1, MaxCallsAssumption
      <4>2. CASE b # hit
        BY <2>2, <2>3, <4>2
      <4> QED BY <4>1, <4>2
    <3> QED BY <3>1, <3>2 DEF BucketsOK, Buckets
  <2> QED BY <2>2, <2>4, <2>5
<1>3. CASE backend = "redis" /\ Quiet
  <2>1. ASSUME NEW b \in Buckets
        PROVE  \/ counters'[b] <= Cardinality(InBucket(b)')
               \/ MaxCalls <= Cardinality(InBucket(b)')
    <3>1. /\ InBucket(b)' = InBucket(b) /\ Cardinality(InBucket(b)) \in Nat
          /\ counters'[b] = counters[b] \/ counters'[b] = 0
      BY <1>3, BucketCount DEF Quiet, InBucket
    <3>2. counters[b] <= Cardinality(InBucket(b)) \/ MaxCalls <= Cardinality(InBucket(b))
      BY <1>3 DEF BucketsOK
    <3> QED BY <3>1, <3>2
  <2> QED BY <2>1 DEF BucketsOK, Buckets
<1>4. backend \in {"memory", "redis"}
  BY DEF LimiterInv, LimiterRanges
<1> QED BY <1>1, <1>2, <1>3, <1>4, LimiterCases DEF CheckSliding

-----------------------------------------------------------------------------
(* A call is refused only when the budget is used up.                          *)
Recent(instant) == {a \in admitted : a.began > instant - Window - MaxDelay}

LEMMA RefusedSliding ==
  ASSUME LimiterInv, SlidingOK, NEW th \in Threads, CheckSliding(th), Refuse(th)
  PROVE  Cardinality(Recent(stamp[th])) >= MaxCalls
<1> DEFINE left == Prune(hits, stamp[th] - Window)
           x == stamp[th] - Window - MaxDelay + 1
<1>1. /\ backend = "memory" /\ stamp[th] \in Int /\ stamp[th] - Window \in Int
      /\ x \in Int /\ MaxDelay \in Nat /\ Window \in Nat /\ MaxCalls \in Nat
  BY StampRange, WindowAssumption, DelayAssumption, MaxCallsAssumption
  DEF CheckSliding, LimiterInv
<1>2. Len(left) >= MaxCalls
  <2>1. CASE Len(left) >= MaxCalls
    BY <2>1
  <2>2. CASE ~(Len(left) >= MaxCalls)
    <3>1. Admit(th)
      BY <2>2 DEF CheckSliding
    <3> QED BY <3>1, OneMore, BornRange DEF LimiterInv, Refuse, CheckSliding
  <2> QED BY <2>1, <2>2
<1>3. /\ left \in Seq(Int) /\ hits \in Seq(Int) /\ Len(left) \in Nat
      /\ \A i \in DOMAIN left : left[i] > stamp[th] - Window - MaxDelay
  BY <1>1, PrunedHits DEF LimiterInv, SlidingOK
<1>4. /\ Cardinality(Young(left, x)) <= Cardinality(Young(hits, x))
      /\ Cardinality(Young(left, x)) \in Nat /\ Cardinality(Young(hits, x)) \in Nat
  BY <1>1, <1>3, PruneKeepsYoung
<1>5. Cardinality(Young(hits, x)) <= Cardinality(Since(x))
  BY <1>1 DEF SlidingOK
<1> HIDE DEF left
<1>6. Young(left, x) = 1 .. Len(left)
  <2>1. DOMAIN left = 1 .. Len(left) /\ \A i \in DOMAIN left : left[i] \in Int
    BY <1>3
  <2>2. \A n \in Int : n > stamp[th] - Window - MaxDelay => n >= x
    BY <1>1
  <2> HIDE DEF x
  <2>3. \A i \in DOMAIN left : left[i] >= x
    BY <1>3, <2>1, <2>2, Zenon
  <2> QED BY <2>1, <2>3 DEF Young
<1>7. Cardinality(Young(left, x)) = Len(left)
  BY <1>3, <1>6, UpTo
<1>8. Since(x) = Recent(stamp[th])
  <2>1. \A a \in admitted : a.began \in Int
    BY DEF LimiterInv, Counted, Moments
  <2>2. \A n \in Int : n >= x <=> n > stamp[th] - Window - MaxDelay
    BY <1>1
  <2> HIDE DEF x
  <2> QED BY <2>1, <2>2 DEF Since, Recent
<1>9. Cardinality(Since(x)) \in Nat
  <2>1. Since(x) \subseteq admitted
    BY DEF Since
  <2> QED BY <2>1, SubsetsCount DEF LimiterInv
<1> HIDE DEF x
<1> QED BY <1>1, <1>2, <1>3, <1>4, <1>5, <1>7, <1>8, <1>9

LEMMA RefusedInBucket ==
  ASSUME LimiterInv, BucketsOK, NEW th \in Threads, Increment(th), Refuse(th)
  PROVE  Cardinality(Recent(stamp[th])) >= MaxCalls
<1> DEFINE hit == Bucket(th)
<1>1. /\ hit \in Buckets /\ counters[hit] \in 0 .. MaxCalls + 1 /\ backend = "redis"
      /\ MaxCalls \in Nat /\ Cardinality(InBucket(hit)) \in Nat
  BY Incremented, BucketCount, MaxCallsAssumption DEF Increment
<1>2. counters[hit] >= MaxCalls
  <2>1. CASE Admit(th)
    BY <2>1, OneMore, BornRange DEF LimiterInv, Refuse, Increment
  <2> QED BY <2>1, Incremented
<1>3. Cardinality(InBucket(hit)) >= MaxCalls
  <2>1. counters[hit] <= Cardinality(InBucket(hit)) \/ MaxCalls <= Cardinality(InBucket(hit))
    BY <1>1 DEF BucketsOK
  <2> HIDE DEF hit
  <2> QED BY <1>1, <1>2, <2>1
<1>4. InBucket(hit) \subseteq Recent(stamp[th])
  <2>1. /\ stamp[th] \in Nat /\ hit \in Nat /\ stamp[th] < hit * Window + Window
        /\ Window \in Nat /\ MaxDelay \in Nat
    BY StampRange, WindowAssumption, DelayAssumption DEF LimiterInv
  <2>2. ASSUME NEW a \in InBucket(hit) PROVE a.began > stamp[th] - Window - MaxDelay
    <3>1. a.began \in Nat /\ a.began \div Window = hit
      BY DEF InBucket, LimiterInv, Counted, Moments
    <3>2. (a.began \div Window) * Window <= a.began
      BY <3>1, BucketBounds
    <3> DEFINE floor == hit * Window
    <3>3. floor \in Int /\ floor <= a.began
      BY <2>1, <3>1, <3>2
    <3> HIDE DEF floor, hit
    <3>4. stamp[th] < floor + Window
      BY <2>1 DEF floor
    <3> QED BY <2>1, <3>1, <3>3, <3>4
  <2> QED BY <2>2 DEF InBucket, Recent
<1>5. Cardinality(InBucket(hit)) <= Cardinality(Recent(stamp[th]))
      /\ Cardinality(Recent(stamp[th])) \in Nat
  <2>1. Recent(stamp[th]) \subseteq admitted
    BY DEF Recent
  <2> QED BY <1>4, <2>1, Monotone, SubsetsCount DEF LimiterInv
<1> HIDE DEF hit
<1> QED BY <1>1, <1>3, <1>5

LEMMA RefusedStep ==
  ASSUME LimiterInv, SlidingOK, BucketsOK, RefusedOnlyWhenFull, [LimiterNext]_limiterVars
  PROVE  RefusedOnlyWhenFull'
<1>1. LimiterInv'
  BY LimiterStep
<1>2. admitted \subseteq admitted'
  <2>1. ASSUME NEW th \in Threads, CheckSliding(th) \/ Increment(th)
        PROVE  admitted \subseteq admitted'
    BY <2>1, Decided, BornRange DEF CheckSliding, Increment
  <2> QED BY <2>1, LimiterCases DEF Quiet
<1>3. ASSUME NEW instant, Cardinality(Recent(instant)) >= MaxCalls
      PROVE  Cardinality({a \in admitted' : a.began > instant - Window - MaxDelay}) >= MaxCalls
  <2> DEFINE later == {a \in admitted' : a.began > instant - Window - MaxDelay}
  <2>1. Recent(instant) \subseteq later /\ later \subseteq admitted'
    BY <1>2 DEF Recent
  <2>2. IsFiniteSet(later) /\ IsFiniteSet(admitted')
    BY <1>1, <2>1, FS_Subset DEF LimiterInv, Counted
  <2> HIDE DEF later
  <2>3. /\ Cardinality(Recent(instant)) <= Cardinality(later)
        /\ Cardinality(Recent(instant)) \in Nat /\ Cardinality(later) \in Nat
    BY <2>1, <2>2, FS_Subset, FS_CardinalityType
  <2>4. Cardinality(later) >= MaxCalls
    BY <1>3, <2>3, MaxCallsAssumption
  <2> QED BY <2>4 DEF later
<1>4. CASE refused' = refused
  <2>1. refused # Never => Cardinality(Recent(refused)) >= MaxCalls
    BY DEF RefusedOnlyWhenFull, Recent
  <2> QED BY <1>3, <1>4, <2>1 DEF RefusedOnlyWhenFull
<1>5. ASSUME NEW th \in Threads, CheckSliding(th) \/ Increment(th), Refuse(th)
      PROVE  RefusedOnlyWhenFull'
  <2>1. Cardinality(Recent(stamp[th])) >= MaxCalls /\ refused' = stamp[th]
    BY <1>5, RefusedSliding, RefusedInBucket DEF Refuse
  <2> QED BY <1>3, <2>1 DEF RefusedOnlyWhenFull
<1>6. ASSUME NEW th \in Threads, CheckSliding(th) \/ Increment(th), ~Refuse(th)
      PROVE  refused' = refused
  BY <1>6 DEF CheckSliding, Increment, Admit
<1> QED BY <1>4, <1>5, <1>6, LimiterCases DEF Quiet

-----------------------------------------------------------------------------
(* A key counts what its bucket admits, and no other key of the bucket lives   *)
(* at the same time.                                                           *)
LEMMA KeysTyped ==
  ASSUME LimiterInv, NEW a \in admitted
  PROVE  /\ a.began \in Nat /\ a.at \in Nat /\ a.key \in Nat /\ now \in Nat
         /\ a.began <= now /\ a.at <= now /\ a.key <= now
         /\ a.began \div Window \in Buckets
<1>1. /\ a.began \in Nat /\ a.at \in Nat /\ a.key \in Nat /\ now \in Nat
      /\ a.began <= now /\ a.at <= now /\ a.key <= now
      /\ a.began <= MaxTime /\ MaxTime \in Nat
  BY TimeAssumption DEF LimiterInv, LimiterRanges, Counted, Moments
<1>2. /\ a.began \div Window \in Nat /\ MaxTime \div Window \in Nat
      /\ a.began \div Window <= MaxTime \div Window
  BY <1>1, BucketBounds, BucketOrder
<1> QED BY <1>1, <1>2 DEF Buckets

LEMMA KeyCount ==
  ASSUME LimiterInv, NEW b, NEW k
  PROVE  IsFiniteSet(OfKey(b, k)) /\ Cardinality(OfKey(b, k)) \in Nat
<1>1. OfKey(b, k) \subseteq admitted
  BY DEF OfKey, InBucket
<1> QED BY <1>1, SubsetsCount DEF LimiterInv

LEMMA PresentKey ==
  ASSUME NEW b, NEW k, born'[b] = k
  PROVE  OfKey(b, born[b])' = OfKey(b, k)'
  BY DEF OfKey

(* Time passes, and keys expire.                                               *)
LEMMA KeysQuiet ==
  ASSUME LimiterInv, KeyBudget, backend = "redis", Quiet
  PROVE  KeyBudget'
<1>1. /\ UNCHANGED <<backend, admitted, born>> /\ Buckets' = Buckets
      /\ now \in Nat /\ now' \in Nat /\ now <= now'
  BY DEF Quiet, LimiterInv, LimiterRanges, Buckets
<1>2. KeyCounts /\ KeysBorn /\ KeysApart /\ KeysNow
  BY DEF KeyBudget
<1>3. \A b, k : InBucket(b)' = InBucket(b) /\ OfKey(b, k)' = OfKey(b, k)
  BY <1>1 DEF InBucket, OfKey
<1>4. KeyCounts' /\ KeysBorn' /\ KeysApart'
  BY <1>1, <1>2, <1>3 DEF KeyCounts, KeysBorn, KeysApart, Gone
<1>5. ASSUME NEW b \in Buckets, NEW a \in InBucket(b)
      PROVE  a.key \in Nat /\ a.at \in Nat /\ a.at <= now
  BY KeysTyped DEF InBucket
<1>6. ASSUME NEW b \in Buckets
      PROVE  /\ born[b] \in Nat /\ born[b] <= now /\ KeyLife \in Nat
             /\ counters[b] \in Nat /\ expiry[b] \in Nat \cup {Never}
             /\ expiry[b] = Never \/ (expiry[b] > now /\ counters[b] > 0)
  BY KeyOutlives, MaxCallsAssumption DEF LimiterInv, LimiterRanges
<1>7. ASSUME NEW b \in Buckets, counters'[b] > 0 PROVE KeyLives(b)'
  <2>1. counters'[b] = counters[b] /\ counters[b] > 0
    BY <1>7 DEF Quiet
  <2>2. KeyLives(b)
    BY <1>2, <2>1 DEF KeysNow
  <2>3. expiry'[b] # Never => expiry'[b] >= born[b] + KeyLife
    <3>1. expiry'[b] \in {expiry[b], Never, now + KeyLife}
      BY DEF Quiet
    <3> QED BY <1>1, <1>6, <2>2, <3>1 DEF KeyLives
  <2> QED BY <1>1, <1>3, <2>1, <2>2, <2>3 DEF KeyLives, Gone
<1>8. ASSUME NEW b \in Buckets, counters'[b] = 0, NEW a \in InBucket(b) PROVE Gone(a, now')
  <2>1. CASE counters[b] = 0
    <3>1. Gone(a, now)
      BY <1>2, <2>1 DEF KeysNow
    <3> QED BY <1>1, <1>5, <1>6, <3>1 DEF Gone
  <2>2. CASE counters[b] # 0
    <3>1. KeyLives(b) /\ expiry[b] # Never /\ expiry[b] <= now' /\ expiry[b] > now
      BY <1>2, <1>6, <1>8, <2>2 DEF KeysNow, Quiet
    <3>2. expiry[b] \in Nat /\ expiry[b] >= born[b] + KeyLife
      BY <1>6, <3>1 DEF KeyLives
    <3>3. a.key = born[b] \/ Gone(a, born[b])
      BY <3>1 DEF KeyLives
    <3> QED BY <1>1, <1>5, <1>6, <3>1, <3>2, <3>3 DEF Gone
  <2> QED BY <2>1, <2>2
<1>9. KeysNow'
  BY <1>1, <1>3, <1>7, <1>8 DEF KeysNow, Gone
<1> QED BY <1>4, <1>9 DEF KeyBudget

(* INCR in a key that has not used its calls up, or in a new one.              *)
LEMMA KeysAdmit ==
  ASSUME LimiterInv, KeyBudget, backend = "redis", NEW th \in Threads, Increment(th), Admit(th),
         counters[Bucket(th)] < MaxCalls, counters'[Bucket(th)] = counters[Bucket(th)] + 1
  PROVE  KeyBudget'
<1> PICK hit \in Buckets : hit = Bucket(th)
  BY StampRange DEF LimiterInv
<1> PICK birth : birth = IF counters[hit] = 0 THEN now ELSE born[hit]
  OBVIOUS
<1>1. /\ UNCHANGED <<now, backend, expiry>> /\ Buckets' = Buckets
      /\ born' \in [Buckets -> 0 .. now] /\ hit \in Buckets /\ hit \in Nat
      /\ born'[hit] = birth /\ birth \in Nat /\ birth <= now /\ now \in Nat
      /\ \A b \in Buckets \ {hit} : born'[b] = born[b] /\ counters'[b] = counters[b]
      /\ hit * Window <= stamp[th] /\ stamp[th] \in Nat /\ stamp[th] <= now
  <2>1. /\ UNCHANGED <<now, backend, expiry>> /\ Buckets' = Buckets
    BY DEF Increment, Buckets
  <2>2. born' \in [Buckets -> 0 .. now] /\ hit \in Buckets /\ born'[hit] = birth
        /\ \A b \in Buckets \ {hit} : born'[b] = born[b] /\ counters'[b] = counters[b]
    BY BornRange, Incremented
  <2>3. /\ hit \in Nat /\ now \in Nat /\ hit * Window <= stamp[th]
        /\ stamp[th] \in Nat /\ stamp[th] <= now
    BY StampRange DEF LimiterInv
  <2>4. birth \in 0 .. now
    BY <2>2
  <2> QED BY <2>1, <2>2, <2>3, <2>4
<1>2. PICK new \in Moments :
        /\ new \notin admitted /\ admitted' = admitted \cup {new}
        /\ new.began = stamp[th] /\ new.at = now /\ new.key = birth
  BY <1>1, OneMore DEF LimiterInv
<1>3. new.began \div Window = hit
  BY <1>2 DEF Bucket
<1>4. /\ KeyCounts /\ KeysBorn /\ KeysApart /\ KeysNow /\ KeyLife \in Nat /\ KeyLife > 0
      /\ counters[hit] \in Nat /\ MaxCalls \in Nat
  <2>1. KeyLife \in Nat /\ KeyLife > 0
    BY KeyOutlives
  <2> QED BY <1>1, <2>1, MaxCallsAssumption DEF KeyBudget, LimiterInv, LimiterRanges
<1>5. \A a \in InBucket(hit) : a.key \in Nat /\ (a.key = birth \/ Gone(a, birth))
  <2>1. \A a \in InBucket(hit) : a.key \in Nat
    BY KeysTyped DEF InBucket
  <2>2. CASE counters[hit] = 0
    BY <1>1, <1>4, <2>1, <2>2 DEF KeysNow
  <2>3. CASE counters[hit] # 0
    <3>1. KeyLives(hit) /\ birth = born[hit]
      BY <1>1, <1>4, <2>3 DEF KeysNow
    <3> QED BY <2>1, <3>1 DEF KeyLives
  <2> QED BY <2>2, <2>3
<1>6. Cardinality(OfKey(hit, birth)) <= counters[hit]
  <2>1. CASE counters[hit] = 0
    <3>1. \A a \in InBucket(hit) : a.key # birth
      <4> SUFFICES ASSUME NEW a \in InBucket(hit), a.key = birth PROVE FALSE
        OBVIOUS
      <4>1. birth = now /\ Gone(a, now)
        BY <1>1, <1>4, <2>1 DEF KeysNow
      <4> QED BY <1>1, <1>4, <1>5, <4>1 DEF Gone
    <3>2. OfKey(hit, birth) = {}
      BY <3>1 DEF OfKey
    <3> QED BY <1>4, <2>1, <3>2, FS_EmptySet
  <2>2. CASE counters[hit] # 0
    <3>1. KeyLives(hit) /\ birth = born[hit]
      BY <1>1, <1>4, <2>2 DEF KeysNow
    <3> QED BY <3>1 DEF KeyLives
  <2> QED BY <2>1, <2>2
<1>7. ASSUME NEW b \in Buckets, NEW k
      PROVE  /\ OfKey(b, k)' = IF b = hit /\ k = birth THEN OfKey(b, k) \cup {new}
                                                       ELSE OfKey(b, k)
             /\ InBucket(b)' = IF b = hit THEN InBucket(b) \cup {new} ELSE InBucket(b)
  BY <1>2, <1>3 DEF OfKey, InBucket
<1>8. Cardinality(OfKey(hit, birth)') <= counters[hit] + 1
  <2>1. /\ OfKey(hit, birth)' = OfKey(hit, birth) \cup {new}
        /\ new \notin OfKey(hit, birth)
    BY <1>1, <1>2, <1>7 DEF OfKey, InBucket
  <2>2. IsFiniteSet(OfKey(hit, birth)) /\ Cardinality(OfKey(hit, birth)) \in Nat
    BY KeyCount
  <2>3. Cardinality(OfKey(hit, birth) \cup {new}) = Cardinality(OfKey(hit, birth)) + 1
    BY <2>1, <2>2, FS_AddElement
  <2>4. Cardinality(OfKey(hit, birth) \cup {new}) <= counters[hit] + 1
    BY <1>4, <1>6, <2>2, <2>3
  <2> QED BY <2>1, <2>4
<1>9. KeyCounts'
  <2> SUFFICES ASSUME NEW b \in Buckets, NEW k \in Nat
               PROVE  Cardinality(OfKey(b, k)') <= MaxCalls
    BY <1>1 DEF KeyCounts, OfKey, InBucket
  <2>1. CASE b = hit /\ k = birth
    <3>1. Cardinality(OfKey(b, k)') \in Nat
      <4>1. LimiterInv'
        BY IncrementInv
      <4>2. Cardinality(OfKey(b, k)') \in Nat
        <5>1. OfKey(b, k)' \subseteq admitted'
          BY DEF OfKey, InBucket
        <5> QED BY <4>1, <5>1, FS_Subset, FS_CardinalityType DEF LimiterInv, Counted
      <4> QED BY <4>2
    <3> QED BY <1>4, <1>8, <2>1, <3>1
  <2>2. CASE ~(b = hit /\ k = birth)
    BY <1>4, <1>7, <2>2 DEF KeyCounts
  <2> QED BY <2>1, <2>2
<1>10. KeysBorn'
  <2>1. new.key <= new.at /\ (new.began \div Window) * Window <= new.key
    <3>1. birth = now \/ (counters[hit] # 0 /\ birth = born[hit])
      OBVIOUS
    <3>2. counters[hit] # 0 => hit * Window <= born[hit]
      BY <1>1, <1>4 DEF KeysNow, KeyLives
    <3> DEFINE floor == hit * Window
    <3>3. floor \in Int /\ floor <= stamp[th] /\ (counters[hit] # 0 => floor <= born[hit])
      BY <1>1, <3>2, WindowAssumption
    <3>4. (new.began \div Window) * Window = floor
      BY <1>3
    <3> HIDE DEF floor
    <3> QED BY <1>1, <1>2, <3>1, <3>3, <3>4
  <2> QED BY <1>2, <1>4, <2>1 DEF KeysBorn
<1>11. KeysApart'
  <2>1. ASSUME NEW a \in admitted, a.began \div Window = hit
        PROVE  a.key = new.key \/ Gone(a, new.key)
    BY <1>2, <1>5, <2>1 DEF InBucket
  <2>2. \A a \in admitted' : a \in admitted \/ a = new
    BY <1>2
  <2>3. \A a, c \in admitted' :
          a.began \div Window = c.began \div Window =>
            a.key = c.key \/ Gone(a, c.key) \/ Gone(c, a.key)
    BY <1>3, <1>4, <2>1, <2>2 DEF KeysApart
  <2> QED BY <2>3 DEF KeysApart, Gone
<1>12. KeysNow'
  <2> SUFFICES ASSUME NEW b \in Buckets
               PROVE  /\ counters'[b] > 0 => KeyLives(b)'
                      /\ counters'[b] = 0 => \A a \in InBucket(b)' : Gone(a, now)
    BY <1>1 DEF KeysNow, Gone
  <2>1. CASE b # hit
    <3>1. /\ InBucket(b)' = InBucket(b) /\ born'[b] = born[b] /\ counters'[b] = counters[b]
          /\ \A k : OfKey(b, k)' = OfKey(b, k)
      BY <1>1, <1>7, <2>1
    <3>2. PICK k : k = born[b]
      OBVIOUS
    <3>3. OfKey(b, born[b])' = OfKey(b, k)
      BY <3>1, <3>2, PresentKey
    <3>4. /\ counters[b] > 0 => KeyLives(b)
          /\ counters[b] = 0 => \A a \in InBucket(b) : Gone(a, now)
      BY <1>4 DEF KeysNow
    <3>5. counters'[b] > 0 => KeyLives(b)'
      BY <1>1, <3>1, <3>2, <3>3, <3>4 DEF KeyLives, Gone
    <3> QED BY <1>1, <3>1, <3>4, <3>5 DEF Gone
  <2>2. CASE b = hit
    <3>1. counters'[hit] = counters[hit] + 1 /\ counters'[hit] # 0 /\ born'[hit] = birth
      BY <1>1, <1>4
    <3>2. hit * Window <= birth
      <4>1. birth = now \/ (counters[hit] # 0 /\ birth = born[hit])
        OBVIOUS
      <4>2. counters[hit] # 0 => hit * Window <= born[hit]
        BY <1>1, <1>4 DEF KeysNow, KeyLives
      <4> DEFINE floor == hit * Window
      <4>3. floor \in Int /\ floor <= stamp[th] /\ (counters[hit] # 0 => floor <= born[hit])
        BY <1>1, <4>2, WindowAssumption
      <4>4. floor <= birth
        <5> HIDE DEF floor
        <5> QED BY <1>1, <4>1, <4>3
      <4> QED BY <4>4
    <3>3. expiry'[hit] # Never => expiry'[hit] >= birth + KeyLife
      <4>1. CASE counters[hit] = 0
        BY <1>1, <4>1 DEF LimiterInv, LimiterRanges
      <4>2. CASE counters[hit] # 0
        BY <1>1, <1>4, <4>2 DEF KeysNow, KeyLives
      <4> QED BY <4>1, <4>2
    <3>4. \A a \in InBucket(hit)' : a.key = birth \/ Gone(a, birth)
      BY <1>1, <1>2, <1>5, <1>7
    <3>5. Cardinality(OfKey(hit, born[hit])') <= counters'[hit]
      <4>1. OfKey(hit, born[hit])' = OfKey(hit, birth)'
        BY <3>1, PresentKey
      <4> QED BY <1>8, <3>1, <4>1
    <3>6. KeyLives(hit)'
      BY <1>1, <3>1, <3>2, <3>3, <3>4, <3>5 DEF KeyLives, Gone
    <3> QED BY <2>2, <3>1, <3>6
  <2> QED BY <2>1, <2>2
<1> QED BY <1>9, <1>10, <1>11, <1>12 DEF KeyBudget

(* INCR in one that has.                                                       *)
LEMMA KeysRefuse ==
  ASSUME LimiterInv, KeyBudget, backend = "redis", NEW th \in Threads, Increment(th), Refuse(th),
         counters[Bucket(th)] >= MaxCalls, counters'[Bucket(th)] = MaxCalls + 1
  PROVE  KeyBudget'
<1> DEFINE hit == Bucket(th)
<1>1. /\ UNCHANGED <<now, backend, expiry, admitted>> /\ Buckets' = Buckets
      /\ hit \in Buckets /\ MaxCalls \in Nat \ {0} /\ counters[hit] \in 0 .. MaxCalls + 1
      /\ \A b \in Buckets : born'[b] = born[b]
      /\ \A b \in Buckets \ {hit} : counters'[b] = counters[b]
  <2>1. /\ \A b \in Buckets \ {hit} : born'[b] = born[b] /\ counters'[b] = counters[b]
        /\ born'[hit] = IF counters[hit] = 0 THEN now ELSE born[hit]
        /\ hit \in Buckets /\ counters[hit] \in 0 .. MaxCalls + 1
    BY BornRange, Incremented
  <2>2. counters[hit] # 0
    BY MaxCallsAssumption
  <2> HIDE DEF hit
  <2> QED BY <2>1, <2>2, MaxCallsAssumption DEF Increment, Refuse, Buckets
<1>2. KeyCounts /\ KeysBorn /\ KeysApart /\ KeysNow
  BY DEF KeyBudget
<1>3. \A b, k : InBucket(b)' = InBucket(b) /\ OfKey(b, k)' = OfKey(b, k)
  BY <1>1 DEF InBucket, OfKey
<1>4. KeyCounts' /\ KeysBorn' /\ KeysApart'
  BY <1>1, <1>2, <1>3 DEF KeyCounts, KeysBorn, KeysApart, Gone
<1>5. ASSUME NEW b \in Buckets
      PROVE  /\ counters'[b] > 0 => KeyLives(b)'
             /\ counters'[b] = 0 => \A a \in InBucket(b)' : Gone(a, now)
  <2>1. OfKey(b, born[b])' = OfKey(b, born[b])
    <3>1. PICK k : k = born[b]
      OBVIOUS
    <3>2. OfKey(b, born[b])' = OfKey(b, k)'
      BY <1>1, <3>1, PresentKey
    <3> QED BY <1>3, <3>1, <3>2
  <2>2. CASE b # hit
    BY <1>1, <1>2, <1>3, <2>1, <2>2 DEF KeysNow, KeyLives, Gone
  <2>3. CASE b = hit
    <3>1. counters'[b] = MaxCalls + 1 /\ counters[b] > 0 /\ counters[b] <= counters'[b]
          /\ counters[b] \in Nat
      BY <1>1, <2>3
    <3>2. KeyLives(b)
      BY <1>2, <3>1 DEF KeysNow
    <3>3. Cardinality(OfKey(b, born[b])) \in Nat
      BY KeyCount
    <3> HIDE DEF hit
    <3>4. Cardinality(OfKey(b, born[b])) <= counters'[b]
      BY <1>1, <3>1, <3>2, <3>3 DEF KeyLives
    <3>5. KeyLives(b)'
      BY <1>1, <1>3, <2>1, <3>2, <3>4 DEF KeyLives, Gone
    <3> QED BY <1>1, <3>1, <3>5
  <2> QED BY <2>2, <2>3
<1>6. KeysNow'
  BY <1>1, <1>5 DEF KeysNow, Gone
<1> QED BY <1>4, <1>6 DEF KeyBudget

LEMMA KeysStep ==
  ASSUME LimiterInv, KeyBudget, [LimiterNext]_limiterVars
  PROVE  KeyBudget'
<1>1. CASE backend = "memory"
  <2>1. backend' = "memory"
    BY <1>1, LimiterCases DEF Quiet, CheckSliding, Increment
  <2> QED BY <2>1 DEF KeyBudget
<1>2. CASE backend = "redis"
  <2>1. ASSUME NEW th \in Threads, CheckSliding(th) PROVE FALSE
    BY <1>2, <2>1 DEF CheckSliding
  <2>2. ASSUME NEW th \in Threads, Increment(th) PROVE KeyBudget'
    BY <1>2, <2>2, Incremented, KeysAdmit, KeysRefuse
  <2> QED BY <1>2, <2>1, <2>2, LimiterCases, KeysQuiet
<1> QED BY <1>1, <1>2 DEF LimiterInv, LimiterRanges

-----------------------------------------------------------------------------
(* Each part is an invariant.                                                  *)
SafeInv == LimiterInv /\ SlidingOK /\ SlidingBudget /\ BucketsOK /\ RefusedOnlyWhenFull

LEMMA LimiterSafe == LimiterSpec => []SafeInv
<1>1. LimiterInit => SafeInv
  BY LimiterInitInv DEF SafeInv
<1>2. SafeInv /\ [LimiterNext]_limiterVars => SafeInv'
  BY LimiterStep, SlidingStep, SlidingBudgetStep, BucketsStep, RefusedStep DEF SafeInv
<1> QED BY <1>1, <1>2, PTL DEF LimiterSpec

(* LimiterTypeOK: the stamps, the deque, the counters and their expiries stay  *)
(* in range; a key that expires holds a count.                                 *)
THEOREM LimiterTyping == LimiterSpec => []LimiterTypeOK
<1>1. SafeInv => LimiterTypeOK
  BY DEF SafeInv, LimiterInv, LimiterRanges, Counted, Moments, LimiterTypeOK
<1> QED BY <1>1, LimiterSafe, PTL

(* Whoever is refused used the budget up: for both limiters, however long a    *)
(* check is delayed between its clock and the store, and though a key may      *)
(* never expire.                                                               *)
THEOREM NoSpareRefusals == LimiterSpec => []RefusedOnlyWhenFull
<1>1. SafeInv => RefusedOnlyWhenFull
  BY DEF SafeInv
<1> QED BY <1>1, LimiterSafe, PTL

(* "a true sliding window": the stamps may enter the deque out of order, but   *)
(* at any delay no window lets more than max_calls begin and through.          *)
THEOREM SlidingWindowHolds == LimiterSpec => [](backend = "memory" => WindowBudget)
<1>1. SafeInv => (backend = "memory" => WindowBudget)
  BY DEF SafeInv, SlidingBudget, WindowBudget, Budget
<1> QED BY <1>1, LimiterSafe, PTL

(* What keys of one bucket admit in one window.  The window meets two keys at  *)
(* most: the third would be born a KeyLife after the second.                   *)
LEMMA TwoKeys ==
  ASSUME LimiterInv, KeyBudget, backend = "redis", NEW from \in 0 .. now, NEW b \in Buckets,
         NEW S, S \subseteq Within(from, from + Window), S \subseteq InBucket(b)
  PROVE  \E k, l \in Nat : S \subseteq OfKey(b, k) \cup OfKey(b, l)
<1>1. CASE S = {}
  BY <1>1
<1>2. CASE \E a, c \in S : a.key # c.key
  <2>1. PICK a \in S, c \in S : a.key # c.key
    BY <1>2
  <2>2. ASSUME NEW d \in S PROVE d.key = a.key \/ d.key = c.key
    <3>1. \A x \in S : /\ x \in admitted /\ x.key \in Nat /\ x.at \in Nat /\ x.key <= x.at
                       /\ x.began >= from /\ x.at < from + Window /\ from <= x.at
                       /\ x.began \div Window = b
      <4> SUFFICES ASSUME NEW x \in S
                   PROVE  /\ x \in admitted /\ x.key \in Nat /\ x.at \in Nat /\ x.key <= x.at
                          /\ x.began >= from /\ x.at < from + Window /\ from <= x.at
                          /\ x.began \div Window = b
        OBVIOUS
      <4>1. x \in admitted /\ x.began >= from /\ x.at < from + Window /\ x.began \div Window = b
        BY DEF Within, InBucket
      <4>2. x.began <= x.at /\ x.key <= x.at
        BY <4>1 DEF LimiterInv, Timely, KeyBudget, KeysBorn
      <4>3. x.key \in Nat /\ x.at \in Nat /\ x.began \in Nat /\ from \in Int
        BY <4>1, KeysTyped
      <4> QED BY <4>1, <4>2, <4>3
    <3>2. \A x, y \in S : x.key = y.key \/ Gone(x, y.key) \/ Gone(y, x.key)
      BY <3>1 DEF KeyBudget, KeysApart
    <3>3. KeyLife \in Nat /\ KeyLife > Window /\ Window \in Nat /\ from \in Nat
      BY KeyOutlives DEF LimiterInv, LimiterRanges
    <3>4. ASSUME NEW x \in S, NEW y \in S, NEW z \in S, Gone(x, y.key), Gone(y, z.key)
          PROVE  FALSE
      BY <3>1, <3>3, <3>4 DEF Gone
    <3> QED BY <2>1, <2>2, <3>2, <3>4
  <2>3. a.key \in Nat /\ c.key \in Nat
    BY KeysTyped DEF InBucket
  <2>4. S \subseteq OfKey(b, a.key) \cup OfKey(b, c.key)
    BY <2>2 DEF OfKey
  <2> QED BY <2>3, <2>4
<1>3. CASE S # {} /\ \A a, c \in S : a.key = c.key
  <2>1. PICK a \in S : TRUE
    BY <1>3
  <2>2. S \subseteq OfKey(b, a.key)
    BY <1>3 DEF OfKey
  <2>3. a.key \in Nat
    BY KeysTyped DEF InBucket
  <2> QED BY <2>2, <2>3
<1> QED BY <1>1, <1>2, <1>3

(* Calls that were let through before their bucket's first key could expire    *)
(* were counted in one key.                                                    *)
LEMMA OneKey ==
  ASSUME LimiterInv, KeyBudget, backend = "redis", NEW b \in Buckets, NEW S,
         S \subseteq InBucket(b), \A a \in S : a.at < b * Window + KeyLife
  PROVE  \E k \in Nat : S \subseteq OfKey(b, k)
<1>1. \A x \in S : /\ x \in admitted /\ x.key \in Nat /\ x.at \in Nat /\ x.key <= x.at
                   /\ x.began \div Window = b /\ b * Window <= x.key
  <2> SUFFICES ASSUME NEW x \in S
               PROVE  /\ x \in admitted /\ x.key \in Nat /\ x.at \in Nat /\ x.key <= x.at
                      /\ x.began \div Window = b /\ b * Window <= x.key
    OBVIOUS
  <2>1. x \in admitted /\ x.began \div Window = b
    BY DEF InBucket
  <2> QED BY <2>1, KeysTyped DEF KeyBudget, KeysBorn
<1>2. ASSUME NEW x \in S, NEW y \in S, Gone(x, y.key) PROVE FALSE
  <2> DEFINE floor == b * Window
  <2>1. /\ floor <= x.key /\ y.at < floor + KeyLife /\ y.key <= y.at
        /\ x.key \in Nat /\ y.key \in Nat /\ y.at \in Nat /\ KeyLife \in Nat
    BY <1>1, KeyOutlives
  <2>2. x.key + KeyLife <= y.key
    BY <1>2 DEF Gone
  <2>3. floor \in Int
    BY KeyOutlives DEF Buckets
  <2> HIDE DEF floor
  <2> QED BY <2>1, <2>2, <2>3
<1>3. \A x, y \in S : x.key = y.key
  BY <1>1, <1>2 DEF KeyBudget, KeysApart
<1>4. CASE S = {}
  BY <1>4
<1>5. CASE S # {}
  <2>1. PICK a \in S : TRUE
    BY <1>5
  <2>2. S \subseteq OfKey(b, a.key)
    BY <1>3 DEF OfKey
  <2> QED BY <1>1, <2>2
<1> QED BY <1>4, <1>5

LEMMA KeysAdd ==
  ASSUME LimiterInv, KeyBudget, backend = "redis", NEW b \in Buckets, NEW k \in Nat, NEW l \in Nat,
         NEW S, S \subseteq OfKey(b, k) \cup OfKey(b, l)
  PROVE  /\ IsFiniteSet(S) /\ Cardinality(S) \in Nat
         /\ Cardinality(S) <= 2 * MaxCalls
         /\ k = l => Cardinality(S) <= MaxCalls
<1>1. /\ IsFiniteSet(OfKey(b, k)) /\ Cardinality(OfKey(b, k)) \in Nat
      /\ IsFiniteSet(OfKey(b, l)) /\ Cardinality(OfKey(b, l)) \in Nat
      /\ Cardinality(OfKey(b, k)) <= MaxCalls /\ Cardinality(OfKey(b, l)) <= MaxCalls
      /\ MaxCalls \in Nat
  BY KeyCount, MaxCallsAssumption DEF KeyBudget, KeyCounts
<1>2. /\ IsFiniteSet(OfKey(b, k) \cup OfKey(b, l))
      /\ Cardinality(OfKey(b, k) \cup OfKey(b, l)) \in Nat
      /\ Cardinality(OfKey(b, k) \cup OfKey(b, l))
           <= Cardinality(OfKey(b, k)) + Cardinality(OfKey(b, l))
  BY <1>1, UnionCount
<1>3. /\ IsFiniteSet(S) /\ Cardinality(S) \in Nat
      /\ Cardinality(S) <= Cardinality(OfKey(b, k) \cup OfKey(b, l))
  BY <1>2, FS_Subset, FS_CardinalityType
<1>4. k = l => S \subseteq OfKey(b, k)
  OBVIOUS
<1>5. Cardinality(S) <= 2 * MaxCalls
  BY <1>1, <1>2, <1>3
<1>6. ASSUME k = l PROVE Cardinality(S) <= MaxCalls
  <2>1. Cardinality(S) <= Cardinality(OfKey(b, k))
    BY <1>1, <1>4, <1>6, FS_Subset
  <2> QED BY <1>1, <1>3, <2>1
<1> QED BY <1>3, <1>5, <1>6

(* A window meets two buckets: two keys of the first, and one of the second;   *)
(* or one of each, if no check is later than a key outlives its window.        *)
LEMMA TwoBucketsAdmit ==
  ASSUME LimiterInv, KeyBudget, backend = "redis", NEW from \in 0 .. now
  PROVE  /\ Cardinality(Within(from, from + Window)) <= 3 * MaxCalls
         /\ MaxDelay <= KeyLife - Window =>
              Cardinality(Within(from, from + Window)) <= 2 * MaxCalls
<1> DEFINE p == from \div Window
           W == Within(from, from + Window)
           first == W \cap InBucket(p)
           second == W \cap InBucket(p + 1)
<1>1. /\ now \in Nat /\ from \in Nat /\ p \in Nat /\ MaxCalls \in Nat
      /\ from < p * Window + Window
      /\ Window \in Nat \ {0} /\ KeyLife \in Nat /\ KeyLife > Window /\ MaxDelay \in Nat
  <2>1. now \in Nat /\ from \in Nat
    BY DEF LimiterInv, LimiterRanges
  <2> QED BY <2>1, BucketBounds, KeyOutlives, MaxCallsAssumption, DelayAssumption
<1>2. \A a \in W : /\ a \in admitted /\ a.began \in Nat /\ a.at \in Nat /\ a.began <= a.at
                   /\ a.at <= a.began + MaxDelay /\ a.at < from + Window
                   /\ a.began \div Window \in {p, p + 1} /\ a.began \div Window \in Buckets
  <2> SUFFICES ASSUME NEW a \in W
               PROVE  /\ a \in admitted /\ a.began \in Nat /\ a.at \in Nat /\ a.began <= a.at
                      /\ a.at <= a.began + MaxDelay /\ a.at < from + Window
                      /\ a.began \div Window \in {p, p + 1} /\ a.began \div Window \in Buckets
    OBVIOUS
  <2>1. a \in admitted /\ a.began >= from /\ a.at < from + Window
    BY DEF Within
  <2>2. a.began <= a.at /\ a.at <= a.began + MaxDelay
    BY <2>1 DEF LimiterInv, Timely
  <2>3. a.began \in Nat /\ a.at \in Nat /\ a.began \div Window \in Buckets
    BY <2>1, KeysTyped
  <2>4. a.began < from + Window
    BY <1>1, <2>1, <2>2, <2>3
  <2> QED BY <1>1, <2>1, <2>2, <2>3, <2>4, TwoBuckets
<1>3. W = first \cup second
  BY <1>2 DEF InBucket
<1>4. (p + 1) * Window = p * Window + Window /\ p * Window \in Nat
  BY <1>1
<1>5. \A a \in second : a.at < (p + 1) * Window + KeyLife
  <2> DEFINE floor == p * Window
  <2> SUFFICES ASSUME NEW a \in second PROVE a.at < floor + Window + KeyLife
    BY <1>4
  <2>1. a.at \in Nat /\ a.at < from + Window /\ from < floor + Window /\ floor \in Nat
    BY <1>1, <1>2, <1>4
  <2> HIDE DEF floor
  <2> QED BY <1>1, <2>1
<1>6. ASSUME MaxDelay <= KeyLife - Window
      PROVE  \A a \in first : a.at < p * Window + KeyLife
  <2> DEFINE floor == p * Window
  <2> SUFFICES ASSUME NEW a \in first PROVE a.at < floor + KeyLife
    OBVIOUS
  <2>1. a.at \in Nat /\ a.began \in Nat /\ a.at <= a.began + MaxDelay /\ a.began \div Window = p
    BY <1>2 DEF InBucket
  <2>2. a.began < floor + Window /\ floor \in Nat
    BY <1>4, <2>1, BucketBounds
  <2> HIDE DEF floor
  <2> QED BY <1>1, <1>6, <2>1, <2>2
<1> HIDE DEF p, W
<1>7. /\ IsFiniteSet(first) /\ Cardinality(first) \in Nat /\ Cardinality(first) <= 2 * MaxCalls
      /\ MaxDelay <= KeyLife - Window => Cardinality(first) <= MaxCalls
  <2>1. CASE p \in Buckets
    <3>1. first \subseteq Within(from, from + Window) /\ first \subseteq InBucket(p)
      BY DEF W
    <3> HIDE DEF first
    <3>2. /\ IsFiniteSet(first) /\ Cardinality(first) \in Nat
          /\ Cardinality(first) <= 2 * MaxCalls
      <4>1. PICK k \in Nat, l \in Nat : first \subseteq OfKey(p, k) \cup OfKey(p, l)
        BY <2>1, <3>1, TwoKeys
      <4> QED BY <2>1, <4>1, KeysAdd
    <3>3. ASSUME MaxDelay <= KeyLife - Window PROVE Cardinality(first) <= MaxCalls
      <4>1. PICK k \in Nat : first \subseteq OfKey(p, k)
        BY <1>6, <2>1, <3>1, <3>3, OneKey
      <4>2. first \subseteq OfKey(p, k) \cup OfKey(p, k)
        BY <4>1
      <4> QED BY <2>1, <4>2, KeysAdd
    <3> QED BY <3>2, <3>3
  <2>2. CASE p \notin Buckets
    <3>1. first = {}
      BY <1>2, <2>2 DEF InBucket
    <3> QED BY <1>1, <3>1, FS_EmptySet
  <2> QED BY <2>1, <2>2
<1>8. /\ IsFiniteSet(second) /\ Cardinality(second) \in Nat
      /\ Cardinality(second) <= MaxCalls
  <2>1. CASE p + 1 \in Buckets
    <3>1. second \subseteq InBucket(p + 1)
      OBVIOUS
    <3> HIDE DEF second
    <3>2. PICK k \in Nat : second \subseteq OfKey(p + 1, k)
      BY <1>5, <2>1, <3>1, OneKey
    <3>3. second \subseteq OfKey(p + 1, k) \cup OfKey(p + 1, k)
      BY <3>2
    <3> QED BY <2>1, <3>3, KeysAdd
  <2>2. CASE p + 1 \notin Buckets
    <3>1. second = {}
      BY <1>2, <2>2 DEF InBucket
    <3> QED BY <1>1, <3>1, FS_EmptySet
  <2> QED BY <2>1, <2>2
<1> HIDE DEF first, second
<1>9. /\ Cardinality(W) \in Nat
      /\ Cardinality(W) <= Cardinality(first) + Cardinality(second)
  BY <1>3, <1>7, <1>8, UnionCount
<1>10. /\ Cardinality(W) <= 3 * MaxCalls
       /\ MaxDelay <= KeyLife - Window => Cardinality(W) <= 2 * MaxCalls
  BY <1>1, <1>7, <1>8, <1>9
<1> QED BY <1>10 DEF W

(* The budget of both limiters, at any delay between the clock and the store:  *)
(* max_calls in a window in memory, twice that for the buckets if every check  *)
(* reaches Redis within what a key outlives its window by, and three times     *)
(* that if not, though a key may never expire.                                 *)
THEOREM BudgetHolds == LimiterSpec => []WindowBudget
<1>1. LimiterInit => SafeInv /\ KeyBudget
  BY LimiterInitInv DEF SafeInv
<1>2. SafeInv /\ KeyBudget /\ [LimiterNext]_limiterVars => (SafeInv /\ KeyBudget)'
  BY LimiterStep, SlidingStep, SlidingBudgetStep, BucketsStep, RefusedStep, KeysStep
  DEF SafeInv
<1>3. SafeInv /\ KeyBudget => WindowBudget
  <2> SUFFICES ASSUME SafeInv, KeyBudget PROVE WindowBudget
    OBVIOUS
  <2>1. CASE backend = "memory"
    BY <2>1 DEF SafeInv, SlidingBudget, WindowBudget, Budget
  <2>2. CASE backend = "redis"
    <3>1. Budget = 2 * MaxCalls \/ Budget = 3 * MaxCalls
      BY <2>2 DEF Budget
    <3>2. Budget = 2 * MaxCalls \/ ~(MaxDelay <= KeyLife - Window)
      BY <2>2 DEF Budget
    <3> QED BY <2>2, <3>1, <3>2, TwoBucketsAdmit DEF SafeInv, WindowBudget, Budget
  <2> QED BY <2>1, <2>2 DEF SafeInv, LimiterInv, LimiterRanges
<1> QED BY <1>1, <1>2, <1>3, PTL DEF LimiterSpec

-----------------------------------------------------------------------------
(* The team and its token verifiers.                                           *)
USE TokensAssumption, TeamAssumption
USE DEF Subjects, Steps, Over, Holders, Forgotten, Retried, Ids, Unborn, Specs

-----------------------------------------------------------------------------
(* Types. *)

LEMMA CacheIsASeq ==
  ASSUME NEW c \in BoundedSeq(Tokens, CacheSize)
  PROVE  c \in Seq(Tokens) /\ Len(c) <= CacheSize
  BY DEF BoundedSeq, SeqOf

LEMMA ShortSeqs ==
  ASSUME NEW c \in Seq(Tokens), Len(c) <= CacheSize
  PROVE  c \in BoundedSeq(Tokens, CacheSize)
<1>1. Len(c) \in 0 .. CacheSize /\ c \in [1 .. Len(c) -> Tokens]
  BY LenProperties
<1>2. [1 .. Len(c) -> Tokens] \in {[1 .. m -> Tokens] : m \in 0 .. CacheSize}
  BY <1>1
<1>3. c \in UNION {[1 .. m -> Tokens] : m \in 0 .. CacheSize}
  BY <1>1, <1>2
<1> QED BY <1>3 DEF BoundedSeq, SeqOf

(* What Remember makes of the cache. *)
LEMMA RoomForOne ==
  ASSUME VerifierTypeOK
  PROVE  /\ Room \in Seq(Tokens) /\ Len(Room) < CacheSize
         /\ IsInjective(Room)
<1>1. cache \in Seq(Tokens) /\ Len(cache) <= CacheSize /\ IsInjective(cache)
  BY CacheIsASeq DEF VerifierTypeOK
<1>2. CASE Len(cache) >= CacheSize
  <2>1. Len(cache) > 0 /\ cache # <<>>
    BY <1>1, <1>2
  <2>2. Tail(cache) \in Seq(Tokens) /\ Len(Tail(cache)) = Len(cache) - 1
    BY <1>1, <2>1
  <2>3. \A i \in 1 .. Len(Tail(cache)) : Tail(cache)[i] = cache[i + 1]
    BY <1>1, <2>1
  <2>4. IsInjective(Tail(cache))
    BY <1>1, <2>1, <2>2, <2>3 DEF IsInjective
  <2> QED BY <1>1, <1>2, <2>2, <2>4 DEF Room
<1>3. CASE ~(Len(cache) >= CacheSize)
  BY <1>1, <1>3 DEF Room
<1> QED BY <1>2, <1>3

LEMMA Remembered ==
  ASSUME VerifierTypeOK, NEW t \in Tokens,
         NEW c, c = IF t \in ToSet(Room) THEN Room ELSE Append(Room, t)
  PROVE  c \in BoundedSeq(Tokens, CacheSize) /\ IsInjective(c)
<1>1. Room \in Seq(Tokens) /\ Len(Room) < CacheSize /\ IsInjective(Room)
  BY RoomForOne
<1>2. Room \in BoundedSeq(Tokens, CacheSize)
  BY <1>1, ShortSeqs
<1>3. ASSUME t \notin ToSet(Room)
      PROVE  /\ Append(Room, t) \in BoundedSeq(Tokens, CacheSize)
             /\ IsInjective(Append(Room, t))
  <2>1. /\ Append(Room, t) \in Seq(Tokens) /\ Len(Append(Room, t)) = Len(Room) + 1
        /\ \A i \in 1 .. Len(Room) : Append(Room, t)[i] = Room[i]
        /\ Append(Room, t)[Len(Room) + 1] = t
    BY <1>1
  <2>2. \A i \in 1 .. Len(Room) : Room[i] # t
    BY <1>1, <1>3 DEF ToSet
  <2>3. Append(Room, t) \in BoundedSeq(Tokens, CacheSize)
    <3>1. Append(Room, t) \in Seq(Tokens) /\ Len(Append(Room, t)) <= CacheSize
      BY <1>1, <2>1
    <3> QED BY <3>1, ShortSeqs, Zenon
  <2>4. IsInjective(Append(Room, t))
    BY <1>1, <2>1, <2>2 DEF IsInjective
  <2> QED BY <2>3, <2>4
<1>4. CASE t \in ToSet(Room)
  BY <1>1, <1>2, <1>4
<1>5. CASE t \notin ToSet(Room)
  BY <1>3, <1>5
<1> QED BY <1>4, <1>5

(* A step of one caller's verify, with the sets it draws from.                  *)
LEMMA VerifierInitTypes == VerifierInit => VerifierTypeOK
<1> SUFFICES ASSUME VerifierInit PROVE VerifierTypeOK
  OBVIOUS
<1>1. cache \in BoundedSeq(Tokens, CacheSize) /\ IsInjective(cache)
  <2>1. cache \in Seq(Tokens) /\ Len(cache) = 0
    BY DEF VerifierInit
  <2>2. cache \in BoundedSeq(Tokens, CacheSize)
    <3>1. Len(cache) <= CacheSize
      BY <2>1
    <3> QED BY <2>1, <3>1, ShortSeqs, Zenon
  <2> QED BY <2>1, <2>2 DEF IsInjective
<1> QED BY <1>1 DEF VerifierInit, VerifierTypeOK

LEMMA VerifyTypes ==
  ASSUME VerifierTypeOK, NEW p \in Callers, NEW t \in Tokens, Verify(p, t)
  PROVE  VerifierTypeOK'
  BY DEF VerifierTypeOK, Verify, To, Cached, jwksVars, worldVars

(* A caller in HttpJwks.get and _key_for: what its steps leave alone, and where *)
(* they lead.                                                                  *)
LookUp(p) == LookUpKey(p) \/ Ask(p) \/ Answer(p) \/ Store(p) \/ FetchFails(p)
LookedUp == {"forcing", "fetching", "refetching", "storing", "restoring", "decoding",
             "unknown", "failed"}
Waiting == {"keying", "forcing"} \cup Holders

LEMMA LookUpMoves ==
  ASSUME NEW p \in Callers, LookUp(p)
  PROVE  /\ step[p] \in Waiting /\ \E s \in LookedUp : To(p, s)
         /\ UNCHANGED <<cache, revoked, worldVars, token, barred>>
         /\ vouched' \in {vouched, vouched \cup {token[p]}}
<1>1. CASE LookUpKey(p)
  BY <1>1 DEF LookUpKey, TakeKey, Waiting, LookedUp
<1>2. CASE Ask(p)
  BY <1>2 DEF Ask, Waiting, LookedUp
<1>3. CASE Answer(p)
  BY <1>3 DEF Answer, Waiting, LookedUp
<1>4. CASE Store(p)
  BY <1>4 DEF Store, TakeKey, Waiting, LookedUp
<1>5. CASE FetchFails(p)
  BY <1>5 DEF FetchFails, TakeKey, Waiting, LookedUp
<1> QED BY <1>1, <1>2, <1>3, <1>4, <1>5 DEF LookUp

LEMMA LookUpTypes ==
  ASSUME VerifierTypeOK, NEW p \in Callers, LookUp(p)
  PROVE  VerifierTypeOK'
<1>1. /\ document' \subseteq Keys /\ answer' \subseteq Keys
      /\ fetchedAgo' \in 0 .. Ttl /\ triedAgo' \in 0 .. Retried
  BY DEF VerifierTypeOK, LookUp, LookUpKey, Ask, Answer, Store, FetchFails, jwksVars
<1>2. cold' \in BOOLEAN /\ lastOk' \in BOOLEAN
  BY Zenon DEF VerifierTypeOK, LookUp, LookUpKey, Ask, Answer, Store, FetchFails, jwksVars
<1>3. PICK s \in LookedUp : To(p, s)
  BY LookUpMoves
<1>4. step[p] \in Waiting /\ UNCHANGED <<cache, revoked, worldVars, token, barred>>
  BY LookUpMoves
<1>5. token[p] \in Tokens
  BY <1>4 DEF VerifierTypeOK, Waiting
<1>6. vouched' \subseteq Tokens
  BY <1>5, LookUpMoves DEF VerifierTypeOK
<1>7. /\ step' \in [Callers -> Steps]
      /\ \A q \in Callers : step'[q] = "none" <=> token'[q] = NoToken
  BY <1>3, <1>4, <1>5 DEF VerifierTypeOK, To, LookedUp
<1> QED BY <1>1, <1>2, <1>4, <1>6, <1>7 DEF VerifierTypeOK, worldVars

LEMMA VerdictTypes ==
  ASSUME VerifierTypeOK, NEW p \in Callers,
         Decode(p) \/ DenyIfRevoked(p) \/ Done(p)
  PROVE  VerifierTypeOK'
<1>1. CASE Decode(p)
  BY <1>1 DEF VerifierTypeOK, Decode, To, jwksVars, worldVars
<1>2. CASE DenyIfRevoked(p)
  BY <1>2 DEF VerifierTypeOK, DenyIfRevoked, To, jwksVars, worldVars
<1>3. CASE Done(p)
  BY <1>3 DEF VerifierTypeOK, Done, To, jwksVars, worldVars
<1> QED BY <1>1, <1>2, <1>3

LEMMA RememberTypes ==
  ASSUME VerifierTypeOK, NEW p \in Callers, Remember(p)
  PROVE  VerifierTypeOK'
<1>1. token[p] \in Tokens
  BY DEF VerifierTypeOK, Remember
<1>2. cache' \in BoundedSeq(Tokens, CacheSize) /\ IsInjective(cache')
  BY <1>1, Remembered DEF Remember
<1> QED BY <1>2 DEF VerifierTypeOK, Remember, To, jwksVars, worldVars

LEMMA WorldTypes ==
  ASSUME VerifierTypeOK, World \/ Tick
  PROVE  VerifierTypeOK'
<1>1. ASSUME NEW s \in Subjects, Revoke(s) \/ Restore(s) PROVE VerifierTypeOK'
  <2>1. revoked' \subseteq Subjects
    <3>1. revoked \subseteq Subjects
      BY DEF VerifierTypeOK
    <3>2. revoked' = revoked \cup {s} \/ revoked' = revoked \ {s}
      BY <1>1 DEF Revoke, Restore
    <3> QED BY <3>1, <3>2
  <2>2. barred' \in [Callers -> BOOLEAN]
    <3>1. CASE Revoke(s)
      BY <3>1 DEF VerifierTypeOK, Revoke, callVars
    <3>2. CASE Restore(s)
      <4>1. barred' = [p \in Callers |-> barred[p] /\ Subject[token[p]] # s]
        BY <3>2 DEF Restore
      <4>2. \A p \in Callers : (barred[p] /\ Subject[token[p]] # s) \in BOOLEAN
        OBVIOUS
      <4> QED BY <4>1, <4>2, Zenon
    <3> QED BY <1>1, <3>1, <3>2
  <2> QED BY <1>1, <2>1, <2>2 DEF VerifierTypeOK, Revoke, Restore, jwksVars, worldVars, callVars
<1>2. ASSUME NEW k \in Keys, Publish(k) \/ Withdraw(k) PROVE VerifierTypeOK'
  BY <1>2 DEF VerifierTypeOK, Publish, Withdraw, jwksVars, callVars
<1>3. ASSUME NEW t \in Tokens, Lapse(t) PROVE VerifierTypeOK'
  BY <1>3 DEF VerifierTypeOK, Lapse, jwksVars, callVars
<1>4. ASSUME Tick PROVE VerifierTypeOK'
  BY <1>4 DEF VerifierTypeOK, Tick, Later, callVars
<1> QED BY <1>1, <1>2, <1>3, <1>4 DEF World

-----------------------------------------------------------------------------
(* What a verdict rests on. *)

(* Who is barred is on the list; and is let through no further than the look   *)
(* at it.                                                                      *)
BarredOK ==
  \A p \in Callers :
    barred[p] =>
      /\ step[p] # "none" /\ Subject[token[p]] \in revoked
      /\ step[p] \notin {"caching", "accepted"}

(* No key of the document has been gone for longer than the document is old,    *)
(* and its fetch took.                                                         *)
KeysOK ==
  \A k \in document : k \in published \/ since[k] <= fetchedAgo + MaxFetch

(* One caller at a time fetches, for as long as a fetch takes; and the answer   *)
(* it has got differs from what is published in what changed since it began.   *)
LockOK ==
  /\ \A p, q \in Callers : step[p] \in Holders /\ step[q] \in Holders => p = q
  /\ \A p \in Callers : step[p] \in Holders => triedAgo <= MaxFetch
  /\ \A p \in Callers : step[p] \in {"storing", "restoring"} =>
       \A k \in Keys : (k \in answer <=> k \in published) \/ since[k] <= triedAgo

(* Whatever is past the lookup of its key, or in the cache, was checked with a  *)
(* key in use.                                                                 *)
Checked == {"decoding", "denying", "caching", "accepted"}
VouchedOK ==
  /\ ToSet(cache) \subseteq vouched
  /\ \A p \in Callers : step[p] \in Checked => token[p] \in vouched

(* The guard verifies a token only for a spec that is being spawned.           *)
GuardedOK == step[Provisioner] # "none" => spawning # NoSpec

(* TypeOK without the verifier's part.                                         *)
TeamTypes ==
  /\ preset \subseteq Scopes
  /\ specs \in [Names -> Specs \cup {NoSpec}]
  /\ handles \subseteq Ids \ Unborn
  /\ agent \in [Ids -> [spec : Specs, token : Tokens] \cup {NoSpec}]
  /\ state \in [Ids -> {"unborn", "running", "told", "gone"}]
  /\ spawning \in Specs \cup {NoSpec}
  /\ active \in Deployments
  /\ events \in 0 .. MaxEvents
  /\ \A i \in Ids : i \notin Unborn => agent[i] # NoSpec

Inv ==
  /\ VerifierTypeOK /\ TeamTypes /\ GuardedOK
  /\ BarredOK /\ KeysOK /\ LockOK /\ VouchedOK /\ NoOrphans

LEMMA InvTypes == Inv => TypeOK
  BY DEF Inv, TypeOK, TeamTypes

LEMMA InitInv == Init => Inv
<1> SUFFICES ASSUME Init PROVE Inv
  OBVIOUS
<1>1. VerifierTypeOK
  BY VerifierInitTypes DEF Init
<1>2. TeamTypes /\ NoOrphans /\ GuardedOK
  BY DEF Init, VerifierInit, TeamTypes, NoOrphans, GuardedOK
<1>3. BarredOK /\ KeysOK /\ LockOK
  BY DEF Init, VerifierInit, BarredOK, KeysOK, LockOK
<1>4. VouchedOK
  <2>1. ToSet(cache) = {}
    BY DEF Init, VerifierInit, ToSet
  <2> QED BY <2>1 DEF Init, VerifierInit, VouchedOK, Checked
<1> QED BY <1>1, <1>2, <1>3, <1>4 DEF Inv

-----------------------------------------------------------------------------
(* Each step is one of the verifier's or leaves it alone, and leaves the team   *)
(* alone or is one of the team's.                                              *)
LEMMA VerifierMoves ==
  ASSUME [Next]_vars
  PROVE  \/ UNCHANGED verifierVars
         \/ \E p \in Callers, t \in Tokens : Verify(p, t)
         \/ \E p \in Callers : VerifyStep(p) \/ Done(p)
         \/ World \/ Tick
<1>1. CASE Provision
  <2>1. CASE \E t \in Tokens : Mint(t)
    BY <2>1 DEF Mint
  <2>2. CASE Launch \/ SpawnFails
    BY <2>2 DEF Launch, SpawnFails
  <2>3. CASE ~(\E t \in Tokens : Mint(t)) /\ ~(Launch \/ SpawnFails)
    BY <1>1, <2>3 DEF Provision, Spawn, MintFails, Terminate, Rotate, Reap, Shutdown, Register
  <2> QED BY <2>1, <2>2, <2>3
<1>2. CASE \E p \in Clients : Present(p) \/ (Done(p) /\ UNCHANGED teamVars)
  BY <1>2 DEF Present, Clients
<1>3. CASE \E i \in Ids : Exit(i)
  BY <1>3 DEF Exit
<1>4. CASE UNCHANGED vars
  BY <1>4 DEF vars
<1> QED BY <1>1, <1>2, <1>3, <1>4 DEF Next

LEMMA TeamMoves ==
  ASSUME [Next]_vars
  PROVE  \/ UNCHANGED teamVars
         \/ Provision
         \/ \E i \in Ids : Exit(i)
         \/ Event /\ UNCHANGED <<preset, specs, handles, agent, state, spawning, active>>
  BY Zenon DEF Next, Present, vars

LEMMA VerifierTypesKept == VerifierTypeOK /\ [Next]_vars => VerifierTypeOK'
<1> SUFFICES ASSUME VerifierTypeOK, [Next]_vars PROVE VerifierTypeOK'
  OBVIOUS
<1>1. CASE UNCHANGED verifierVars
  BY <1>1 DEF verifierVars, jwksVars, worldVars, callVars, VerifierTypeOK
<1>2. ASSUME NEW p \in Callers, VerifyStep(p) PROVE VerifierTypeOK'
  BY <1>2, LookUpTypes, VerdictTypes, RememberTypes DEF VerifyStep, LookUp
<1> QED BY <1>1, <1>2, VerifierMoves, VerifyTypes, VerdictTypes, WorldTypes

LEMMA GuardedKept == VerifierTypeOK /\ GuardedOK /\ [Next]_vars => GuardedOK'
<1> SUFFICES ASSUME VerifierTypeOK, GuardedOK, [Next]_vars PROVE GuardedOK'
  OBVIOUS
<1>1. CASE Provision
  <2>1. CASE \E t \in Tokens : Mint(t)
    BY <2>1 DEF Mint, Verify, To, teamVars, GuardedOK
  <2>2. CASE Launch \/ SpawnFails
    BY <2>2 DEF Launch, SpawnFails, Done, To, VerifierTypeOK, GuardedOK
  <2>3. CASE ~(\E t \in Tokens : Mint(t)) /\ ~(Launch \/ SpawnFails)
    BY <1>1, <2>3 DEF Provision, Spawn, Idle, MintFails, Terminate, Rotate, Reap, Shutdown, Register,
                      verifierVars, callVars, GuardedOK
  <2> QED BY <2>1, <2>2, <2>3
<1>2. ASSUME NEW p \in Clients, Present(p) \/ (Done(p) /\ UNCHANGED teamVars) PROVE GuardedOK'
  BY <1>2 DEF Clients, Present, Verify, Done, To, teamVars, VerifierTypeOK, GuardedOK
<1>3. ASSUME NEW p \in Callers, VerifyStep(p) /\ UNCHANGED teamVars PROVE GuardedOK'
  <2>1. \E s \in Steps : To(p, s)
    BY <1>3, LookUpMoves
       DEF VerifyStep, LookUp, LookedUp, Decode, DenyIfRevoked, Remember
  <2>2. step[p] # "none"
    BY <1>3, LookUpMoves
       DEF VerifyStep, LookUp, Waiting, Decode, DenyIfRevoked, Remember
  <2> QED BY <1>3, <2>1, <2>2 DEF To, teamVars, VerifierTypeOK, GuardedOK
<1>4. CASE UNCHANGED <<step, spawning>>
  BY <1>4 DEF GuardedOK
<1>5. CASE World /\ UNCHANGED spawning
  BY <1>4, <1>5 DEF World, Revoke, Restore, Publish, Withdraw, Lapse, callVars
<1> QED BY <1>1, <1>2, <1>3, <1>4, <1>5
           DEF Next, Exit, Tick, vars, verifierVars, callVars, teamVars

LEMMA TeamTypesKept == VerifierTypeOK /\ TeamTypes /\ GuardedOK /\ [Next]_vars => TeamTypes'
<1> SUFFICES ASSUME VerifierTypeOK, TeamTypes, GuardedOK, [Next]_vars PROVE TeamTypes'
  OBVIOUS
<1>1. CASE UNCHANGED teamVars
  BY <1>1 DEF teamVars, TeamTypes
<1>2. CASE \E spec \in Specs : Spawn(spec)
  BY <1>2 DEF Spawn, TeamTypes
<1>3. CASE MintFails \/ SpawnFails
  BY <1>3 DEF MintFails, SpawnFails, TeamTypes
<1>4. CASE Launch
  <2>1. token[Provisioner] \in Tokens /\ spawning \in Specs
    BY <1>4 DEF Launch, GuardPasses, VerifierTypeOK, TeamTypes, GuardedOK
  <2>2. PICK i \in Unborn :
          /\ state' = [state EXCEPT ![i] = "running"]
          /\ agent' = [agent EXCEPT ![i] = [spec |-> spawning, token |-> token[Provisioner]]]
          /\ handles' = handles \cup {i}
    BY <1>4 DEF Launch
  <2>3. /\ specs' = [specs EXCEPT ![spawning.name] = spawning] /\ spawning' = NoSpec
        /\ UNCHANGED <<preset, active, events>>
    BY <1>4 DEF Launch
  <2>4. [spec |-> spawning, token |-> token[Provisioner]] \in [spec : Specs, token : Tokens]
    BY <2>1
  <2>5. [spec |-> spawning, token |-> token[Provisioner]] # NoSpec
    BY <2>4
  <2> QED BY <2>1, <2>2, <2>3, <2>4, <2>5 DEF TeamTypes
<1>5. CASE Reap \/ Shutdown
  <2>1. CASE Reap
    <3>1. handles' \subseteq handles
      BY <2>1 DEF Reap, Reaped
    <3>2. UNCHANGED <<preset, specs, agent, state, spawning, active, events>>
      BY <2>1 DEF Reap
    <3> QED BY <3>1, <3>2 DEF TeamTypes
  <2>2. CASE Shutdown
    <3>1. state' = Told(handles) /\ UNCHANGED <<preset, specs, handles, agent, spawning, active, events>>
      BY <2>2 DEF Shutdown
    <3>2. /\ state' \in [Ids -> {"unborn", "running", "told", "gone"}]
          /\ \A i \in Ids : state'[i] = "unborn" <=> state[i] = "unborn"
      BY <3>1 DEF Told, TeamTypes
    <3> QED BY <3>1, <3>2 DEF TeamTypes
  <2> QED BY <1>5, <2>1, <2>2
<1>6. CASE \E n \in Names : Terminate(n) \/ Rotate(n)
  <2>1. PICK n \in Names :
          /\ state' = Told({i \in handles : Named(i, n)})
          /\ handles' = handles \ {i \in handles : Named(i, n)}
          /\ spawning' \in {spawning, specs[n], NoSpec}
          /\ UNCHANGED <<preset, specs, agent, active, events>>
    BY <1>6 DEF Terminate, Rotate
  <2>2. /\ state' \in [Ids -> {"unborn", "running", "told", "gone"}]
        /\ \A i \in Ids : state'[i] = "unborn" <=> state[i] = "unborn"
    BY <2>1 DEF Told, TeamTypes
  <2>3. handles' \subseteq handles
    BY <2>1
  <2>4. spawning' \in Specs \cup {NoSpec}
    BY <2>1 DEF TeamTypes
  <2> QED BY <2>1, <2>2, <2>3, <2>4 DEF TeamTypes
<1>7. CASE \E scopes \in SUBSET Scopes : Register(scopes)
  BY <1>7 DEF Register, Event, TeamTypes
<1>8. CASE \E i \in Ids : Exit(i)
  BY <1>8 DEF Exit, Runs, TeamTypes
<1>9. CASE Event /\ UNCHANGED <<preset, specs, handles, agent, state, spawning, active>>
  BY <1>9 DEF Event, TeamTypes
<1> QED BY <1>1, <1>2, <1>3, <1>4, <1>5, <1>6, <1>7, <1>8, <1>9, TeamMoves DEF Provision, Mint

LEMMA NoOrphansKept == TeamTypes /\ NoOrphans /\ [Next]_vars => NoOrphans'
<1> SUFFICES ASSUME TeamTypes, NoOrphans, [Next]_vars PROVE NoOrphans'
  OBVIOUS
<1>1. CASE UNCHANGED <<handles, state>>
  BY <1>1 DEF NoOrphans
<1>2. CASE Launch
  BY <1>2 DEF Launch, TeamTypes, NoOrphans
<1>3. CASE Reap \/ Shutdown
  BY <1>3 DEF Reap, Reaped, Shutdown, Told, Runs, TeamTypes, NoOrphans
<1>4. CASE \E n \in Names : Terminate(n) \/ Rotate(n)
  BY <1>4 DEF Terminate, Rotate, Told, TeamTypes, NoOrphans
<1>5. CASE \E i \in Ids : Exit(i)
  BY <1>5 DEF Exit, TeamTypes, NoOrphans
<1> QED BY <1>1, <1>2, <1>3, <1>4, <1>5, TeamMoves
           DEF Provision, Spawn, Mint, MintFails, SpawnFails, Register, teamVars

LEMMA BarredKept == VerifierTypeOK /\ BarredOK /\ [Next]_vars => BarredOK'
<1> SUFFICES ASSUME VerifierTypeOK, BarredOK, [Next]_vars PROVE BarredOK'
  OBVIOUS
<1>1. CASE UNCHANGED <<revoked, callVars>>
  BY <1>1 DEF callVars, BarredOK
<1>2. ASSUME NEW p \in Callers, NEW t \in Tokens, Verify(p, t) PROVE BarredOK'
  BY <1>2 DEF Verify, Cached, To, VerifierTypeOK, BarredOK
<1>3. ASSUME NEW p \in Callers, VerifyStep(p) PROVE BarredOK'
  <2>1. CASE LookUp(p)
    <3>1. PICK s \in LookedUp : To(p, s)
      BY <2>1, LookUpMoves
    <3>2. step[p] \in Waiting /\ UNCHANGED <<revoked, token, barred>>
      BY <2>1, LookUpMoves
    <3>3. \A q \in Callers : step'[q] = IF q = p THEN s ELSE step[q]
      BY <3>1 DEF To, VerifierTypeOK
    <3> QED BY <3>2, <3>3 DEF LookedUp, BarredOK
  <2>2. ASSUME NEW q \in Callers, barred'[q], Decode(p) \/ DenyIfRevoked(p) \/ Remember(p)
        PROVE  step'[q] # "none" /\ Subject[token'[q]] \in revoked'
    BY <2>2 DEF Decode, DenyIfRevoked, Remember, To, VerifierTypeOK, BarredOK
  <2>3. ASSUME NEW q \in Callers, barred'[q], Decode(p) \/ DenyIfRevoked(p) \/ Remember(p)
        PROVE  step'[q] \notin {"caching", "accepted"}
    BY <2>3 DEF Decode, DenyIfRevoked, Remember, To, VerifierTypeOK, BarredOK
  <2>4. CASE Decode(p) \/ DenyIfRevoked(p) \/ Remember(p)
    BY <2>2, <2>3, <2>4 DEF BarredOK
  <2> QED BY <1>3, <2>1, <2>4 DEF VerifyStep, LookUp
<1>4. ASSUME NEW p \in Callers, Done(p) PROVE BarredOK'
  BY <1>4 DEF Done, To, VerifierTypeOK, BarredOK
<1>5. ASSUME NEW s \in Subjects, Revoke(s) PROVE BarredOK'
  BY <1>5 DEF Revoke, callVars, BarredOK
<1>6. ASSUME NEW s \in Subjects, Restore(s) PROVE BarredOK'
  BY <1>6 DEF Restore, BarredOK
<1>7. CASE World \/ Tick
  BY <1>5, <1>6, <1>1, <1>7 DEF World, Tick, Publish, Withdraw, Lapse
<1> QED BY <1>1, <1>2, <1>3, <1>4, <1>7, VerifierMoves DEF verifierVars

(* What the steps of HttpJwks.get do to the document.                          *)
LEMMA JwksMoves ==
  ASSUME VerifierTypeOK, [Next]_vars
  PROVE  \/ UNCHANGED <<document, fetchedAgo>>
         \/ \E p \in Callers : Store(p)
         \/ Tick
<1>1. ASSUME NEW p \in Callers, VerifyStep(p)
      PROVE  UNCHANGED <<document, fetchedAgo>> \/ Store(p)
  BY <1>1 DEF VerifyStep, LookUpKey, Ask, Answer, FetchFails, Decode, DenyIfRevoked, Remember,
              jwksVars
<1>2. CASE World
  BY <1>2 DEF World, Revoke, Restore, Publish, Withdraw, Lapse, jwksVars
<1> QED BY <1>1, <1>2, VerifierMoves DEF verifierVars, jwksVars, Verify, Done

(* ... and what the provider and time do to its keys.                          *)
LEMMA ProviderMoves ==
  ASSUME VerifierTypeOK, [Next]_vars
  PROVE  \/ UNCHANGED <<published, since>>
         \/ \E k \in Keys : (Publish(k) \/ Withdraw(k)) /\ UNCHANGED <<jwksVars, step>>
         \/ Tick
<1>1. ASSUME NEW p \in Callers, VerifyStep(p) PROVE UNCHANGED <<published, since>>
  BY <1>1, LookUpMoves DEF VerifyStep, LookUp, Decode, DenyIfRevoked, Remember, worldVars
<1>2. CASE World
  BY <1>2 DEF World, Revoke, Restore, Publish, Withdraw, Lapse, worldVars, callVars
<1> QED BY <1>1, <1>2, VerifierMoves DEF verifierVars, worldVars, Verify, Done

LEMMA KeysKept == VerifierTypeOK /\ KeysOK /\ LockOK /\ [Next]_vars => KeysOK'
<1> SUFFICES ASSUME VerifierTypeOK, KeysOK, LockOK, [Next]_vars PROVE KeysOK'
  OBVIOUS
<1>1. CASE UNCHANGED <<document, fetchedAgo>> /\ UNCHANGED <<published, since>>
  BY <1>1 DEF KeysOK
<1>2. ASSUME NEW p \in Callers, Store(p) PROVE KeysOK'
  <2>1. UNCHANGED <<published, since>> /\ document' = answer /\ fetchedAgo' = 0
    BY <1>2 DEF Store, TakeKey, worldVars
  <2>2. \A k \in answer : k \in published \/ since[k] <= MaxFetch
    BY <1>2 DEF Store, LockOK, VerifierTypeOK
  <2> QED BY <2>1, <2>2 DEF KeysOK
<1>3. ASSUME NEW k \in Keys, Publish(k) \/ Withdraw(k), UNCHANGED jwksVars PROVE KeysOK'
  BY <1>3 DEF Publish, Withdraw, jwksVars, VerifierTypeOK, KeysOK
<1>4. CASE Tick
  BY <1>4 DEF Tick, Later, VerifierTypeOK, KeysOK
<1> QED BY <1>1, <1>2, <1>3, <1>4, JwksMoves, ProviderMoves DEF Store, TakeKey, worldVars

(* Who enters HttpJwks.get found the lock free.                                *)
LEMMA LockKept == VerifierTypeOK /\ LockOK /\ [Next]_vars => LockOK'
<1> SUFFICES ASSUME VerifierTypeOK, LockOK, [Next]_vars PROVE LockOK'
  OBVIOUS
<1>1. ASSUME NEW p \in Callers, NEW s \in Steps \ Holders,
             To(p, s), UNCHANGED <<published, since, triedAgo>>, step[p] \notin Holders => UNCHANGED answer
      PROVE  LockOK'
  <2>1. \A q \in Callers : step'[q] = IF q = p THEN s ELSE step[q]
    BY <1>1 DEF To, VerifierTypeOK
  <2> QED BY <1>1, <2>1 DEF LockOK
<1>2. ASSUME NEW p \in Callers, Ask(p) PROVE LockOK'
  <2>1. \A q \in Callers : q # p => step'[q] = step[q] /\ step[q] \notin Holders
    BY <1>2 DEF Ask, Unlocked, To, VerifierTypeOK
  <2>2. step'[p] \in {"fetching", "refetching"} /\ triedAgo' = 0
    BY <1>2 DEF Ask, To, VerifierTypeOK
  <2> QED BY <2>1, <2>2 DEF LockOK
<1>3. ASSUME NEW p \in Callers, Answer(p) PROVE LockOK'
  <2>1. /\ \A q \in Callers : q # p => step'[q] = step[q] /\ step[q] \notin Holders
        /\ step[p] \in Holders
    BY <1>3 DEF Answer, To, VerifierTypeOK, LockOK
  <2>2. answer' = published' /\ UNCHANGED triedAgo
    BY <1>3 DEF Answer, worldVars
  <2> QED BY <2>1, <2>2 DEF LockOK
<1>4. ASSUME NEW p \in Callers, LookUp(p), ~Ask(p), ~Answer(p) PROVE LockOK'
  <2>1. \E s \in Steps \ Holders : To(p, s)
    BY <1>4 DEF LookUp, LookUpKey, Store, FetchFails, TakeKey
  <2>2. UNCHANGED <<published, since, triedAgo>>
    BY <1>4, LookUpMoves DEF LookUp, LookUpKey, Store, FetchFails, jwksVars, worldVars
  <2>3. step[p] \notin Holders => UNCHANGED answer
    BY <1>4 DEF LookUp, LookUpKey, Store, FetchFails, jwksVars
  <2> QED BY <1>1, <2>1, <2>2, <2>3
<1>5. ASSUME NEW p \in Callers, Decode(p) \/ DenyIfRevoked(p) \/ Remember(p) \/ Done(p)
      PROVE  LockOK'
  <2>1. \E s \in Steps \ Holders : To(p, s)
    BY <1>5 DEF Decode, DenyIfRevoked, Remember, Done
  <2>2. UNCHANGED <<published, since, triedAgo, answer>>
    BY <1>5 DEF Decode, DenyIfRevoked, Remember, Done, jwksVars, worldVars
  <2> QED BY <1>1, <2>1, <2>2
<1>6. ASSUME NEW p \in Callers, NEW t \in Tokens, Verify(p, t) PROVE LockOK'
  <2>1. \E s \in Steps \ Holders : To(p, s)
    BY <1>6 DEF Verify, Cached
  <2>2. UNCHANGED <<published, since, triedAgo, answer>>
    BY <1>6 DEF Verify, jwksVars, worldVars
  <2> QED BY <1>1, <2>1, <2>2
<1>7. ASSUME NEW k \in Keys, Publish(k) \/ Withdraw(k), UNCHANGED <<jwksVars, step>> PROVE LockOK'
  BY <1>7 DEF Publish, Withdraw, jwksVars, VerifierTypeOK, LockOK
<1>8. CASE Tick
  <2>1. UNCHANGED <<step, published, answer>>
    BY <1>8 DEF Tick, callVars
  <2>2. ASSUME NEW p \in Callers, step[p] \in Holders
        PROVE  triedAgo' = triedAgo + 1 /\ triedAgo' <= MaxFetch
    BY <1>8, <2>2 DEF Tick, Unlocked, Later, VerifierTypeOK
  <2>3. \A k \in Keys : since'[k] <= since[k] + 1
    BY <1>8 DEF Tick, Later, VerifierTypeOK
  <2>4. \A p \in Callers : step[p] \in {"storing", "restoring"} =>
          \A k \in Keys : (k \in answer <=> k \in published) \/ since'[k] <= triedAgo'
    <3> SUFFICES ASSUME NEW p \in Callers, step[p] \in {"storing", "restoring"},
                        NEW k \in Keys, ~(k \in answer <=> k \in published)
                 PROVE  since'[k] <= triedAgo'
      OBVIOUS
    <3>1. since[k] <= triedAgo
      BY Zenon DEF LockOK
    <3>2. triedAgo' = triedAgo + 1
      BY <2>2
    <3>3. since'[k] \in Nat /\ since[k] \in Nat /\ triedAgo \in Nat
      BY <1>8 DEF Tick, Later, VerifierTypeOK
    <3> QED BY <2>3, <3>1, <3>2, <3>3
  <2> QED BY <2>1, <2>2, <2>4 DEF LockOK
<1>9. CASE UNCHANGED <<published, since, jwksVars, step>>
  BY <1>9 DEF jwksVars, LockOK
<1>10. CASE World
  BY <1>7, <1>9, <1>10 DEF World, Revoke, Restore, Publish, Withdraw, Lapse, worldVars, callVars
<1>11. ASSUME NEW p \in Callers, VerifyStep(p) PROVE LockOK'
  BY <1>2, <1>3, <1>4, <1>5, <1>11 DEF VerifyStep, LookUp
<1> QED BY <1>5, <1>6, <1>8, <1>9, <1>10, <1>11, VerifierMoves DEF verifierVars, worldVars, callVars

(* A key that is taken to check a signature is in use; one that is not found,   *)
(* twice, is new, gone, or looked for in an outage.                            *)
LEMMA TakenInUse ==
  ASSUME VerifierTypeOK, KeysOK, LockOK, NEW p \in Callers, LookUp(p), step'[p] = "decoding"
  PROVE  InUse(Kid[token[p]]) /\ token[p] \in vouched'
<1> DEFINE k == Kid[token[p]]
<1>1. token[p] \in Tokens /\ k \in Keys
  BY LookUpMoves DEF VerifierTypeOK, Waiting
<1>2. LookUpKey(p) \/ Store(p) \/ FetchFails(p)
  BY DEF LookUp, Ask, Answer, To, VerifierTypeOK
<1>3. TakeKey(p) /\ k \in document'
  <2>1. TakeKey(p)
    BY <1>2 DEF LookUpKey, Store, FetchFails, To, VerifierTypeOK
  <2> QED BY <2>1 DEF TakeKey, To, VerifierTypeOK
<1>4. InUse(k)
  <2>1. CASE LookUpKey(p)
    <3>1. fetchedAgo < Ttl \/ ~lastOk'
      BY <2>1 DEF LookUpKey, ServesCached, FreshDocument, jwksVars
    <3>2. k \in published \/ since[k] <= fetchedAgo + MaxFetch
      BY <1>3, <2>1 DEF LookUpKey, jwksVars, KeysOK
    <3> QED BY <1>1, <3>1, <3>2 DEF InUse, VerifierTypeOK
  <2>2. CASE Store(p)
    <3>1. k \in published \/ since[k] <= triedAgo
      BY <1>1, <1>3, <2>2 DEF Store, LockOK
    <3>2. triedAgo <= MaxFetch
      BY <2>2 DEF Store, LockOK
    <3> QED BY <1>1, <3>1, <3>2 DEF InUse, VerifierTypeOK
  <2>3. CASE FetchFails(p)
    BY <2>3 DEF FetchFails, InUse
  <2> QED BY <1>2, <2>1, <2>2, <2>3
<1>5. vouched' = vouched \cup {token[p]}
  BY <1>3, <1>4 DEF TakeKey
<1> QED BY <1>4, <1>5

LEMMA UnknownIsNew ==
  ASSUME VerifierTypeOK, LockOK, NEW p \in Callers, LookUp(p), step'[p] = "unknown"
  PROVE  \/ Kid[token[p]] \notin published \/ since[Kid[token[p]]] <= MaxFetch
         \/ ~lastOk' /\ (triedAgo' < ErrorRetry \/ triedAgo' <= MaxFetch)
<1> DEFINE k == Kid[token[p]]
<1>1. token[p] \in Tokens /\ k \in Keys
  BY LookUpMoves DEF VerifierTypeOK, Waiting
<1>2. LookUpKey(p) \/ Store(p) \/ FetchFails(p)
  BY DEF LookUp, Ask, Answer, To, VerifierTypeOK
<1>3. Forced(p) /\ k \notin document'
  <2>1. TakeKey(p)
    BY <1>2 DEF LookUpKey, Store, FetchFails, To, VerifierTypeOK
  <2> QED BY <2>1 DEF TakeKey, To, VerifierTypeOK
<1>4. CASE LookUpKey(p)
  BY <1>3, <1>4 DEF LookUpKey, ServesCached, jwksVars
<1>5. CASE Store(p)
  <2>1. k \notin published \/ since[k] <= triedAgo
    BY <1>1, <1>3, <1>5 DEF Store, LockOK
  <2>2. triedAgo <= MaxFetch
    BY <1>5 DEF Store, LockOK
  <2> QED BY <1>1, <2>1, <2>2 DEF VerifierTypeOK
<1>6. CASE FetchFails(p)
  BY <1>6 DEF FetchFails, LockOK
<1> QED BY <1>2, <1>4, <1>5, <1>6

LEMMA RoomIsOld ==
  ASSUME VerifierTypeOK
  PROVE  ToSet(Room) \subseteq ToSet(cache)
<1>1. cache \in Seq(Tokens)
  BY CacheIsASeq DEF VerifierTypeOK
<1>2. CASE Len(cache) >= CacheSize
  <2>1. Len(cache) > 0 /\ cache # <<>>
    BY <1>1, <1>2
  <2>2. /\ Len(Tail(cache)) = Len(cache) - 1
        /\ \A i \in 1 .. Len(Tail(cache)) : Tail(cache)[i] = cache[i + 1]
    BY <1>1, <2>1
  <2>3. Tail(cache) \in Seq(Tokens)
    BY <1>1, <2>1
  <2>4. ToSet(Tail(cache)) \subseteq ToSet(cache)
    BY <1>1, <2>1, <2>2, <2>3 DEF ToSet
  <2> QED BY <1>2, <2>4 DEF Room
<1>3. CASE ~(Len(cache) >= CacheSize)
  BY <1>3 DEF Room
<1> QED BY <1>2, <1>3

LEMMA VouchedKept == VerifierTypeOK /\ KeysOK /\ LockOK /\ VouchedOK /\ [Next]_vars => VouchedOK'
<1> SUFFICES ASSUME VerifierTypeOK, KeysOK, LockOK, VouchedOK, [Next]_vars PROVE VouchedOK'
  OBVIOUS
<1>1. ASSUME NEW p \in Callers, NEW t \in Tokens, Verify(p, t) PROVE VouchedOK'
  <2>1. /\ UNCHANGED <<cache, vouched>>
        /\ \A q \in Callers : q # p => step'[q] = step[q] /\ token'[q] = token[q]
        /\ token'[p] = t
    BY <1>1 DEF Verify, To, VerifierTypeOK
  <2>2. step'[p] \in Checked => t \in ToSet(cache)
    BY <1>1 DEF Verify, To, Checked, VerifierTypeOK
  <2> QED BY <2>1, <2>2 DEF VouchedOK
<1>2. ASSUME NEW p \in Callers, LookUp(p) PROVE VouchedOK'
  <2>1. UNCHANGED <<cache, token>> /\ vouched \subseteq vouched'
    BY <1>2, LookUpMoves
  <2>2. \A q \in Callers : q # p => step'[q] = step[q]
    BY <1>2, LookUpMoves DEF To, VerifierTypeOK
  <2>3. step'[p] \in Checked => step'[p] = "decoding"
    BY <1>2, LookUpMoves DEF To, LookedUp, Checked, VerifierTypeOK
  <2> QED BY <1>2, <2>1, <2>2, <2>3, TakenInUse DEF VouchedOK
<1>3. ASSUME NEW p \in Callers, Decode(p) \/ DenyIfRevoked(p) PROVE VouchedOK'
  BY <1>3 DEF Decode, DenyIfRevoked, To, Checked, VerifierTypeOK, VouchedOK
<1>4. ASSUME NEW p \in Callers, Remember(p) PROVE VouchedOK'
  <2>1. /\ step[p] = "caching" /\ token[p] \in Tokens /\ token[p] \in vouched
        /\ UNCHANGED <<token, vouched>>
    BY <1>4 DEF Remember, Checked, VerifierTypeOK, VouchedOK
  <2>2. \A q \in Callers : step'[q] \in Checked => step[q] \in Checked
    BY <1>4 DEF Remember, To, Checked, VerifierTypeOK
  <2>3. Room \in Seq(Tokens)
    BY RoomForOne
  <2>4. ToSet(Append(Room, token[p])) \subseteq ToSet(Room) \cup {token[p]}
    BY <2>1, <2>3 DEF ToSet
  <2>5. ToSet(cache') \subseteq ToSet(Room) \cup {token[p]}
    BY <1>4, <2>4 DEF Remember
  <2> QED BY <2>1, <2>2, <2>5, RoomIsOld DEF VouchedOK
<1>5. ASSUME NEW p \in Callers, Done(p) PROVE VouchedOK'
  BY <1>5 DEF Done, To, Checked, VerifierTypeOK, VouchedOK
<1>6. CASE UNCHANGED <<cache, step, token, vouched>>
  BY <1>6 DEF VouchedOK
<1>7. CASE World \/ Tick
  BY <1>6, <1>7 DEF World, Tick, Revoke, Restore, Publish, Withdraw, Lapse, callVars
<1>8. ASSUME NEW p \in Callers, VerifyStep(p) PROVE VouchedOK'
  BY <1>2, <1>3, <1>4, <1>8 DEF VerifyStep, LookUp
<1> QED BY <1>1, <1>5, <1>6, <1>7, <1>8, VerifierMoves DEF verifierVars, callVars

LEMMA StepInv == Inv /\ [Next]_vars => Inv'
  BY VerifierTypesKept, TeamTypesKept, GuardedKept, BarredKept, KeysKept, LockKept, VouchedKept,
     NoOrphansKept DEF Inv

-----------------------------------------------------------------------------
(* Types, whatever the team and the verifier have been through.                *)
THEOREM Typing == Spec => []TypeOK
  BY InitInv, StepInv, InvTypes, PTL DEF Spec

(* agents.py, reap, rotate and terminate: no running agent is dropped from the  *)
(* team's sight without being told to end, however many share a name.          *)
THEOREM NothingOrphaned == Spec => []NoOrphans
<1>1. Inv => NoOrphans
  BY DEF Inv
<1> QED BY <1>1, InitInv, StepInv, PTL DEF Spec

(* identity.py, verify: a subject that is revoked before a verification begins  *)
(* and stays so is refused, through the cache or past it.                       *)
THEOREM RevokedRefused == Spec => []RevokedStaysOut
<1>1. Inv => RevokedStaysOut
  BY DEF Inv, BarredOK, RevokedStaysOut
<1> QED BY <1>1, InitInv, StepInv, PTL DEF Spec

(* identity.py, HttpJwks and verify: a withdrawn key outlives its TTL, and the  *)
(* fetch that read it, only through failing fetches; a published one is unknown *)
(* only while it is new or just after a fetch failed; and whoever is let in,    *)
(* also from the cache of principals, had its signature checked with a key that *)
(* was in use then.                                                            *)
THEOREM KeysFollow == Spec => KeysFollowTheProvider
<1> DEFINE Follows ==
      \A p \in Callers :
        /\ step[p] # "decoding" /\ step'[p] = "decoding" => InUse(Kid[token[p]])
        /\ step[p] # "unknown" /\ step'[p] = "unknown" =>
             \/ Kid[token[p]] \notin published \/ since[Kid[token[p]]] <= MaxFetch
             \/ ~lastOk' /\ (triedAgo' < ErrorRetry \/ triedAgo' <= MaxFetch)
        /\ step[p] # "accepted" /\ step'[p] = "accepted" => token'[p] \in vouched
<1>1. ASSUME Inv, [Next]_vars PROVE [Follows]_verifierVars
  <2>1. VerifierTypeOK /\ KeysOK /\ LockOK /\ VouchedOK
    BY <1>1 DEF Inv
  <2> SUFFICES ASSUME NEW p \in Callers
               PROVE  /\ step[p] # "decoding" /\ step'[p] = "decoding" => InUse(Kid[token[p]])
                      /\ step[p] # "unknown" /\ step'[p] = "unknown" =>
                           \/ Kid[token[p]] \notin published \/ since[Kid[token[p]]] <= MaxFetch
                           \/ ~lastOk' /\ (triedAgo' < ErrorRetry \/ triedAgo' <= MaxFetch)
                      /\ step[p] # "accepted" /\ step'[p] = "accepted" => token'[p] \in vouched
    OBVIOUS
  <2>2. ASSUME step[p] # step'[p]
        PROVE  \/ \E t \in Tokens : Verify(p, t)
               \/ VerifyStep(p) \/ Done(p)
    <3>1. ASSUME NEW q \in Callers, q # p, NEW s, To(q, s) PROVE step'[p] = step[p]
      BY <3>1 DEF To, VerifierTypeOK
    <3>2. ASSUME NEW q \in Callers, VerifyStep(q) \/ Done(q) PROVE \E s : To(q, s)
      BY <3>2, LookUpMoves DEF VerifyStep, LookUp, Decode, DenyIfRevoked, Remember, Done
    <3>3. ASSUME NEW q \in Callers, NEW t \in Tokens, Verify(q, t) PROVE \E s : To(q, s)
      BY <3>3 DEF Verify
    <3>4. CASE World \/ Tick
      BY <2>2, <3>4 DEF World, Tick, Revoke, Restore, Publish, Withdraw, Lapse, callVars
    <3> QED BY <1>1, <2>2, <3>1, <3>2, <3>3, <3>4, VerifierMoves DEF verifierVars, callVars
  <2>3. ASSUME NEW t \in Tokens, Verify(p, t)
        PROVE  /\ step'[p] \notin {"decoding", "unknown"}
               /\ step'[p] = "accepted" => token'[p] \in vouched
    BY <2>1, <2>3 DEF Verify, Cached, To, VerifierTypeOK, VouchedOK
  <2>4. ASSUME Decode(p) \/ DenyIfRevoked(p) \/ Remember(p) \/ Done(p)
        PROVE  /\ step'[p] \notin {"decoding", "unknown"}
               /\ step'[p] = "accepted" => token'[p] \in vouched
    BY <2>1, <2>4 DEF Decode, DenyIfRevoked, Remember, Done, To, Checked, VerifierTypeOK, VouchedOK
  <2>5. ASSUME LookUp(p) PROVE step'[p] # "accepted"
    BY <2>1, <2>5, LookUpMoves DEF To, LookedUp, VerifierTypeOK
  <2>6. CASE LookUp(p)
    BY <2>1, <2>5, <2>6, TakenInUse, UnknownIsNew
  <2> QED BY <2>2, <2>3, <2>4, <2>6 DEF VerifyStep, LookUp
<1> QED BY <1>1, InitInv, StepInv, PTL DEF Spec, KeysFollowTheProvider
=============================================================================
