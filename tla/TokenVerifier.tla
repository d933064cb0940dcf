---------------------------- MODULE TokenVerifier ----------------------------
(* Token verification (hallpass/identity.py): the cache of verified tokens, the *)
(* JWKS document fetched from the identity provider with its TTL, its stale-    *)
(* on-error fallback and its retry throttle, and the revocation list, as        *)
(* several callers verify at once.                                              *)
EXTENDS Integers, Sequences, SequencesExt, FiniteSets

CONSTANTS
  Callers,     \* whoever calls verify
  Tokens,      \* the tokens ever signed
  Subject,     \* Subject[t]
  Kid,         \* Kid[t]: the key t is signed with
  Keys,        \* the keys the provider may publish
  FirstKeys,   \* those it publishes first
  CacheSize,   \* TokenVerifier cache_size
  Ttl,         \* HttpJwks ttl_seconds, in ticks
  ErrorRetry,  \* HttpJwks error_retry_seconds, in ticks
  MaxFetch,    \* the longest a fetch takes, in ticks: its timeout
  NoToken

ASSUME TokensAssumption ==
  /\ Kid \in [Tokens -> Keys] /\ DOMAIN Subject = Tokens
  /\ FirstKeys \subseteq Keys /\ NoToken \notin Tokens
  /\ CacheSize \in Nat \ {0} /\ Ttl \in Nat \ {0} /\ ErrorRetry \in Nat \ {0}
  /\ MaxFetch \in Nat

Subjects == {Subject[t] : t \in Tokens}

(* Counters stop where every higher value means the same: a key is out of      *)
(* every document it was in, and an attempt is over and may be repeated.       *)
Forgotten == Ttl + MaxFetch
Retried == IF ErrorRetry > MaxFetch THEN ErrorRetry ELSE MaxFetch + 1

VARIABLES
  cache,      \* the verified tokens, oldest first
  document,   \* the keys of the cached JWKS document
  cold,       \* no document has been fetched yet
  fetchedAgo, \* ticks since it was stored (to Ttl)
  triedAgo,   \* ticks since the last attempt to fetch it began (to Retried)
  lastOk,     \* the last attempt that is over succeeded
  answer,     \* the keys the running attempt was answered with
  revoked,    \* the revoked subjects
  published,  \* the keys the provider publishes now
  since,      \* since[k]: ticks since k was published or withdrawn (to Forgotten)
              \* (history)
  lapsed,     \* the tokens past their exp
  step,       \* step[p]: where p's verify is
  token,      \* token[p]: what it verifies
  barred,     \* barred[p]: its subject has been revoked all along (history)
  vouched     \* the tokens whose signature was checked with a key in use (history)

jwksVars == <<document, cold, fetchedAgo, triedAgo, lastOk, answer>>
worldVars == <<published, since, lapsed>>
callVars == <<step, token, barred, vouched>>
verifierVars == <<cache, jwksVars, revoked, worldVars, callVars>>

Over == {"accepted", "refused", "unknown", "failed"}
Steps == {"none", "keying", "forcing", "fetching", "refetching", "storing",
          "restoring", "decoding", "denying", "caching"} \cup Over

VerifierTypeOK ==
  /\ cache \in BoundedSeq(Tokens, CacheSize) /\ IsInjective(cache)
  /\ document \subseteq Keys /\ cold \in BOOLEAN
  /\ fetchedAgo \in 0 .. Ttl /\ triedAgo \in 0 .. Retried /\ lastOk \in BOOLEAN
  /\ answer \subseteq Keys
  /\ revoked \subseteq Subjects /\ published \subseteq Keys /\ lapsed \subseteq Tokens
  /\ since \in [Keys -> 0 .. Forgotten]
  /\ step \in [Callers -> Steps]
  /\ token \in [Callers -> Tokens \cup {NoToken}]
  /\ barred \in [Callers -> BOOLEAN]
  /\ vouched \subseteq Tokens
  /\ \A p \in Callers : step[p] = "none" <=> token[p] = NoToken

VerifierInit ==
  /\ cache = <<>>
  /\ document = {} /\ cold = TRUE /\ fetchedAgo = Ttl /\ triedAgo = Retried /\ lastOk = TRUE
  /\ answer = {}
  /\ revoked = {} /\ lapsed = {}
  /\ published = FirstKeys
  /\ since = [k \in Keys |-> Forgotten]
  /\ step = [p \in Callers |-> "none"]
  /\ token = [p \in Callers |-> NoToken]
  /\ barred = [p \in Callers |-> FALSE]
  /\ vouched = {}

To(p, s) == step' = [step EXCEPT ![p] = s]

(* Mutant: a cached principal is returned without a look at the list.          *)
MutantCachedIgnoresList(t) == "accepted"

(* A cache hit checks the revocation list again.                               *)
Cached(t) == IF Subject[t] \in revoked THEN "refused" ELSE "accepted"

Verify(p, t) ==
  /\ step[p] = "none"
  /\ token' = [token EXCEPT ![p] = t]
  /\ barred' = [barred EXCEPT ![p] = Subject[t] \in revoked]
  /\ To(p, IF t \in ToSet(cache) \ lapsed THEN Cached(t) ELSE "keying")
  /\ UNCHANGED <<cache, jwksVars, revoked, worldVars, vouched>>

-----------------------------------------------------------------------------
(* HttpJwks.get, under its lock: while one caller fetches, the others wait.    *)

Holders == {"fetching", "refetching", "storing", "restoring"}
Unlocked == \A p \in Callers : step[p] \notin Holders
Forced(p) == step[p] \in {"forcing", "refetching", "restoring"}

FreshDocument == fetchedAgo < Ttl

(* Mutant: the document is served at its TTL.                                  *)
MutantServesAnyAge(force) ==
  ~cold /\ (~force \/ (~lastOk /\ triedAgo < ErrorRetry))

ServesCached(force) ==
  /\ ~cold
  /\ \/ FreshDocument /\ ~force
     \/ ~lastOk /\ triedAgo < ErrorRetry

(* A key is in use while it is published and until every document that has it  *)
(* is too old: its answer may be MaxFetch old when it is stored.  An outage    *)
(* prolongs that.                                                              *)
InUse(k) == k \in published \/ since[k] < Forgotten \/ ~lastOk'

(* _key_for: the key from the document, or once more with force_refresh.       *)
TakeKey(p) ==
  LET k == Kid[token[p]] IN
  /\ To(p, IF k \in document' THEN "decoding" ELSE IF Forced(p) THEN "unknown" ELSE "forcing")
  /\ vouched' = IF k \in document' /\ InUse(k) THEN vouched \cup {token[p]} ELSE vouched
  /\ UNCHANGED <<cache, revoked, worldVars, token, barred>>

LookUpKey(p) ==
  /\ step[p] \in {"keying", "forcing"} /\ Unlocked
  /\ ServesCached(Forced(p))
  /\ UNCHANGED jwksVars
  /\ TakeKey(p)

(* The attempt is stamped as it begins, ... *)
Ask(p) ==
  /\ step[p] \in {"keying", "forcing"} /\ Unlocked
  /\ ~ServesCached(Forced(p))
  /\ To(p, IF Forced(p) THEN "refetching" ELSE "fetching")
  /\ triedAgo' = 0
  /\ UNCHANGED <<cache, document, cold, fetchedAgo, lastOk, answer, revoked, worldVars,
                 token, barred, vouched>>

(* ... the provider answers with the keys it has by then, ... *)
Answer(p) ==
  /\ step[p] \in {"fetching", "refetching"}
  /\ To(p, IF Forced(p) THEN "restoring" ELSE "storing")
  /\ answer' = published
  /\ UNCHANGED <<cache, document, cold, fetchedAgo, triedAgo, lastOk, revoked, worldVars,
                 token, barred, vouched>>

(* ... and the document is stamped when it is stored.                          *)
Store(p) ==
  /\ step[p] \in {"storing", "restoring"}
  /\ document' = answer /\ cold' = FALSE /\ fetchedAgo' = 0 /\ lastOk' = TRUE
  /\ answer' = {}
  /\ UNCHANGED triedAgo
  /\ TakeKey(p)

(* No answer, or none that parses: the stale document if there is one, else    *)
(* the error escapes as it is.                                                 *)
FetchFails(p) ==
  /\ step[p] \in Holders
  /\ lastOk' = FALSE /\ answer' = {}
  /\ UNCHANGED <<document, cold, fetchedAgo, triedAgo>>
  /\ IF cold
       THEN To(p, "failed") /\ UNCHANGED <<cache, revoked, worldVars, token, barred, vouched>>
       ELSE TakeKey(p)

-----------------------------------------------------------------------------
Decode(p) ==
  /\ step[p] = "decoding"
  /\ To(p, IF token[p] \in lapsed THEN "refused" ELSE "denying")
  /\ UNCHANGED <<cache, jwksVars, revoked, worldVars, token, barred, vouched>>

DenyIfRevoked(p) ==
  /\ step[p] = "denying"
  /\ To(p, IF Subject[token[p]] \in revoked THEN "refused" ELSE "caching")
  /\ UNCHANGED <<cache, jwksVars, revoked, worldVars, token, barred, vouched>>

(* Mutant: room is made one entry too late.                                    *)
MutantRoomLate == IF Len(cache) > CacheSize THEN Tail(cache) ELSE cache

(* The oldest entry makes room, also for a token that is there already.        *)
Room == IF Len(cache) >= CacheSize THEN Tail(cache) ELSE cache

Remember(p) ==
  /\ step[p] = "caching"
  /\ cache' = IF token[p] \in ToSet(Room) THEN Room ELSE Append(Room, token[p])
  /\ To(p, "accepted")
  /\ UNCHANGED <<jwksVars, revoked, worldVars, token, barred, vouched>>

VerifyStep(p) ==
  \/ LookUpKey(p) \/ Ask(p) \/ Answer(p) \/ Store(p) \/ FetchFails(p)
  \/ Decode(p) \/ DenyIfRevoked(p) \/ Remember(p)

(* The caller takes the verdict.                                               *)
Done(p) ==
  /\ step[p] \in Over
  /\ To(p, "none")
  /\ token' = [token EXCEPT ![p] = NoToken]
  /\ barred' = [barred EXCEPT ![p] = FALSE]
  /\ UNCHANGED <<cache, jwksVars, revoked, worldVars, vouched>>

-----------------------------------------------------------------------------
Revoke(s) ==
  /\ revoked' = revoked \cup {s}
  /\ UNCHANGED <<cache, jwksVars, worldVars, callVars>>

Restore(s) ==
  /\ revoked' = revoked \ {s}
  /\ barred' = [p \in Callers |-> barred[p] /\ Subject[token[p]] # s]
  /\ UNCHANGED <<cache, jwksVars, worldVars, step, token, vouched>>

(* The identity provider rotates its keys.                                     *)
Publish(k) ==
  /\ k \notin published
  /\ published' = published \cup {k}
  /\ since' = [since EXCEPT ![k] = 0]
  /\ UNCHANGED <<cache, jwksVars, revoked, lapsed, callVars>>

Withdraw(k) ==
  /\ k \in published
  /\ published' = published \ {k}
  /\ since' = [since EXCEPT ![k] = 0]
  /\ UNCHANGED <<cache, jwksVars, revoked, lapsed, callVars>>

Lapse(t) ==
  /\ lapsed' = lapsed \cup {t}
  /\ UNCHANGED <<cache, jwksVars, revoked, published, since, callVars>>

Later(n, bound) == IF n < bound THEN n + 1 ELSE n

(* A fetch takes no longer than its timeout.                                   *)
Tick ==
  /\ Unlocked \/ triedAgo < MaxFetch
  /\ fetchedAgo' = Later(fetchedAgo, Ttl)
  /\ triedAgo' = Later(triedAgo, Retried)
  /\ since' = [k \in Keys |-> Later(since[k], Forgotten)]
  /\ UNCHANGED <<cache, document, cold, lastOk, answer, revoked, published, lapsed, callVars>>

-----------------------------------------------------------------------------
(* Who was revoked when its verification began, and still is, is not let in:   *)
(* by no cached principal, and by no check that ran before.                    *)
RevokedStaysOut ==
  \A p \in Callers : step[p] = "accepted" => ~barred[p]

(* The keys verify trusts follow the provider's.  A signature is checked with  *)
(* a key that was withdrawn a TTL and a fetch ago only while fetches fail; a   *)
(* token signed with a published key is refused as unknown only if the key was *)
(* published while its keys were being fetched, or just after a fetch failed.  *)
(* A principal that is let in without a check, from the cache, is one whose    *)
(* signature was once checked with a key in use: that key may be long gone.    *)
KeysFollowTheProvider ==
  [][\A p \in Callers :
       /\ step[p] # "decoding" /\ step'[p] = "decoding" => InUse(Kid[token[p]])
       /\ step[p] # "unknown" /\ step'[p] = "unknown" =>
            \/ Kid[token[p]] \notin published \/ since[Kid[token[p]]] <= MaxFetch
            \/ ~lastOk' /\ (triedAgo' < ErrorRetry \/ triedAgo' <= MaxFetch)
       /\ step[p] # "accepted" /\ step'[p] = "accepted" => token'[p] \in vouched
    ]_verifierVars
=============================================================================
