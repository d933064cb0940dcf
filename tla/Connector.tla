----------------------------- MODULE Connector -----------------------------
(* A connector's tool calls (rest.py, connectors.py) over one user's OAuth     *)
(* connection and the resilient HTTP client.  A call reads the user's          *)
(* credential, sends it through breaker and retries, and on a 401 renews the   *)
(* token once; sign-in, sign-out, refresh and valid_token run beside it.       *)
EXTENDS OAuthConnect, HttpResilience, FiniteSets

CONSTANTS
  Threads,  \* the threads that serve calls
  Scenes    \* deployments: the threads at work, the operations they are asked
            \* for, and what provider, service and process may do (where there
            \* are crashes, responses get lost too)

Operations == {"call", "refresh", "valid_token", "connect", "disconnect"}

ASSUME ThreadsAssumption == IsFiniteSet(Threads)
ASSUME ScenesAssumption ==
  Scenes \subseteq [threads : SUBSET Threads, operations : SUBSET Operations,
                    rotating : BOOLEAN, outages : BOOLEAN, crashes : BOOLEAN]

VARIABLES
  scene,
  pc,       \* pc[p]: where p's operation is
  task,     \* task[p]: the operation p serves; of a call, also what has come of
            \* it: "forbidden" by a 403, sent again ("retry"), or "unserved" by
            \* the token endpoint
  held,     \* held[p]: the access token a call sends
  got,      \* got[p]: the tokens a response brought, until both are stored
  attempt,  \* attempt[p]: retries made of the request under way
  quiet,    \* quiet[p]: nobody was connecting or renewing during p's sign-out (history)
  gone      \* a quiet sign-out is over and no sign-in has begun since (history)

callVars == <<pc, task, held, got, attempt, quiet, gone>>
vars == <<oauthVars, breakerVars, scene, callVars>>

Turns == {"none", "forbidden", "retry", "unserved"}
PCs == {"idle", "checking", "sending", "tripping", "healing", "unauthorized", "rereading",
        "refused", "fetched", "renewing", "exchanging", "redeeming", "storing", "bundling",
        "granting", "deleting", "forgetting", "revoking"}

TypeOK ==
  /\ OAuthTypeOK
  /\ failures \in 0 .. FailureThreshold /\ opened \in BOOLEAN
  /\ age \in 0 .. ResetAfter /\ service \in Services /\ hits \in Nat
  /\ scene \in Scenes
  /\ pc \in [Threads -> PCs]
  /\ task \in [Threads -> Operations \cup Turns]
  /\ held \in [Threads -> 0 .. issued]
  /\ got \in [Threads -> [refresh : 0 .. issued, of : 0 .. issued]]
  /\ attempt \in [Threads -> 0 .. MaxRetries]
  /\ quiet \in [Threads -> BOOLEAN] /\ gone \in BOOLEAN
  /\ opened <=> (failures = FailureThreshold)

Init ==
  /\ scene \in Scenes
  /\ IF "connect" \in scene.operations THEN Disconnected ELSE Connected
  /\ pending = FALSE
  /\ ResilienceInit
  /\ pc = [p \in Threads |-> "idle"]
  /\ task = [p \in Threads |-> "none"]
  /\ held = [p \in Threads |-> 0]
  /\ got = [p \in Threads |-> NoBundle]
  /\ attempt = [p \in Threads |-> 0]
  /\ quiet = [p \in Threads |-> FALSE]
  /\ gone = FALSE

At(p, l) == pc[p] = l
Goto(p, l) == pc' = [pc EXCEPT ![p] = l]

(* The operation returns or raises, and its locals go with it.                 *)
Return(p) ==
  /\ Goto(p, "idle")
  /\ task' = [task EXCEPT ![p] = "none"]
  /\ held' = [held EXCEPT ![p] = 0]
  /\ got' = [got EXCEPT ![p] = NoBundle]
  /\ attempt' = [attempt EXCEPT ![p] = 0]

MayAsk(p, operation) ==
  At(p, "idle") /\ p \in scene.threads /\ operation \in scene.operations

Ask(p, operation) ==
  /\ MayAsk(p, operation)
  /\ task' = [task EXCEPT ![p] = operation]

(* Threads that hold something they may yet put into the vault.                *)
Writing == {p \in Threads : pc[p] \in {"exchanging", "redeeming", "storing", "bundling", "granting"}}
SigningOut == {p \in Threads : pc[p] \in {"forgetting", "revoking"}}

(* A writer that begins now disturbs every sign-out under way.                 *)
Disturbs == quiet' = [p \in Threads |-> quiet[p] /\ p \notin SigningOut]

-----------------------------------------------------------------------------
(* A tool call: credential, circuit breaker, request with retries, answer.     *)

ReadCredential(p) ==
  /\ Ask(p, "call")
  /\ access # 0
  /\ held' = [held EXCEPT ![p] = access]
  /\ Goto(p, "checking")
  /\ UNCHANGED <<oauthVars, breakerVars, scene, got, attempt, quiet, gone>>

PassBreaker(p) ==
  /\ At(p, "checking")
  /\ Passes
  /\ Goto(p, "sending")
  /\ attempt' = [attempt EXCEPT ![p] = 0]
  /\ UNCHANGED <<oauthVars, scene, task, held, got, quiet, gone>>

FailFast(p) ==
  /\ At(p, "checking")
  /\ Blocking
  /\ Return(p)
  /\ UNCHANGED <<oauthVars, breakerVars, scene, quiet, gone>>

(* The retrying client is through with the request.                            *)
Settled(p) == attempt' = [attempt EXCEPT ![p] = 0]

Answered(p) ==
  /\ At(p, "sending") /\ service # "down"
  /\ Hit
  /\ Goto(p, IF Fresh(held[p]) THEN "healing" ELSE "unauthorized")
  /\ Settled(p)
  /\ UNCHANGED <<oauthVars, scene, task, held, got, quiet, gone>>

(* Other client errors (404, 422; of a call sent again, a 403 too) are raised, *)
(* past the breaker's count ...                                                *)
Rejected(p) ==
  /\ At(p, "sending") /\ service = "rejecting"
  /\ Hit
  /\ Return(p)
  /\ UNCHANGED <<oauthVars, scene, quiet, gone>>

(* ... and so is a 403, which renews the token as a 401 does.                  *)
Forbidden(p) ==
  /\ At(p, "sending") /\ service = "rejecting" /\ task[p] = "call"
  /\ Hit
  /\ task' = [task EXCEPT ![p] = "forbidden"]
  /\ Goto(p, "unauthorized")
  /\ Settled(p)
  /\ UNCHANGED <<oauthVars, scene, held, got, quiet, gone>>

(* A 5xx, and a 429 that counts as no outage, are retried.                     *)
Retry(p) ==
  /\ At(p, "sending") /\ service # "answering"
  /\ Retries(attempt[p])
  /\ Hit
  /\ attempt' = [attempt EXCEPT ![p] = @ + 1]
  /\ UNCHANGED <<oauthVars, scene, pc, task, held, got, quiet, gone>>

OutageOutlastsRetries(p) ==
  /\ At(p, "sending") /\ service = "down"
  /\ ~Retries(attempt[p])
  /\ Hit
  /\ Goto(p, "tripping")
  /\ Settled(p)
  /\ UNCHANGED <<oauthVars, scene, task, held, got, quiet, gone>>

Throttled(p) ==
  /\ At(p, "sending") /\ service # "answering"
  /\ ~Retries(attempt[p])
  /\ Hit
  /\ Return(p)
  /\ UNCHANGED <<oauthVars, scene, quiet, gone>>

(* A transport exception of the HTTP library is no ConnectorError: neither     *)
(* client catches it.                                                          *)
ConnectionLost(p) ==
  /\ At(p, "sending") /\ service = "down"
  /\ Return(p)
  /\ UNCHANGED <<oauthVars, breakerVars, scene, quiet, gone>>

CountOutage(p) ==
  /\ At(p, "tripping")
  /\ Trip
  /\ Return(p)
  /\ UNCHANGED <<oauthVars, scene, quiet, gone>>

CountSuccess(p) ==
  /\ At(p, "healing")
  /\ Heal
  /\ Return(p)
  /\ UNCHANGED <<oauthVars, scene, quiet, gone>>

(* The first 401 or 403 renews the token ...                                   *)
RenewAfter401(p) ==
  /\ At(p, "unauthorized") /\ task[p] \in {"call", "forbidden"}
  /\ Goto(p, "renewing")
  /\ UNCHANGED <<oauthVars, breakerVars, scene, task, held, got, attempt, quiet, gone>>

(* ... the second is the caller's.                                             *)
SecondIs401(p) ==
  /\ At(p, "unauthorized") /\ task[p] = "retry"
  /\ Goto(p, "refused")
  /\ UNCHANGED <<oauthVars, breakerVars, scene, task, held, got, attempt, quiet, gone>>

(* The credential is read again: the call is sent once more if it changed.     *)
Reread(p) ==
  /\ At(p, "rereading")
  /\ held' = [held EXCEPT ![p] = access]
  /\ IF access \in {0, held[p]}
     THEN Goto(p, "refused") /\ UNCHANGED task
     ELSE Goto(p, "checking") /\ task' = [task EXCEPT ![p] = "retry"]
  /\ UNCHANGED <<oauthVars, breakerVars, scene, got, attempt, quiet, gone>>

(* A caller sees its call refused for want of a token that works.              *)
Refused(p) ==
  /\ At(p, "refused")
  /\ Return(p)
  /\ UNCHANGED <<oauthVars, breakerVars, scene, quiet, gone>>

-----------------------------------------------------------------------------
(* refresh and valid_token.                                                    *)

AskRefresh(p) ==
  /\ Ask(p, "refresh")
  /\ Goto(p, "renewing")
  /\ UNCHANGED <<oauthVars, breakerVars, scene, held, got, attempt, quiet, gone>>

(* valid_token reads the access token, then the bundle.                        *)
AskValidToken(p) ==
  /\ Ask(p, "valid_token")
  /\ access # 0
  /\ held' = [held EXCEPT ![p] = access]
  /\ Goto(p, "fetched")
  /\ UNCHANGED <<oauthVars, breakerVars, scene, got, attempt, quiet, gone>>

ReadExpiry(p) ==
  /\ At(p, "fetched")
  /\ \E early \in BOOLEAN :
       IF Expiring(bundle, early) /\ bundle.refresh # 0
       THEN Goto(p, "renewing") /\ UNCHANGED <<task, held, got, attempt>>
       ELSE IF Fresh(held[p]) THEN Return(p)
                              ELSE Goto(p, "refused") /\ UNCHANGED <<task, held, got, attempt>>
  /\ UNCHANGED <<oauthVars, breakerVars, scene, quiet, gone>>

ReadBundle(p) ==
  /\ At(p, "renewing")
  /\ IF bundle.refresh # 0
     THEN /\ got' = [got EXCEPT ![p] = [NoBundle EXCEPT !.refresh = bundle.refresh]]
          /\ Goto(p, "exchanging")
          /\ Disturbs
     ELSE Goto(p, "refused") /\ UNCHANGED <<got, quiet>>
  /\ UNCHANGED <<oauthVars, breakerVars, scene, task, held, attempt, gone>>

Exchange(p) ==
  /\ At(p, "exchanging")
  /\ GrantRefresh(got[p].refresh, scene.rotating)
  /\ got' = [got EXCEPT ![p] = [refresh |-> KeepRefresh(got[p].refresh, scene.rotating),
                                of |-> issued + 1]]
  /\ Goto(p, "storing")
  /\ UNCHANGED <<access, bundle, consent, pending, expired, breakerVars, scene,
                 task, held, attempt, quiet, gone>>

ExchangeRefused(p) ==
  /\ At(p, "exchanging")
  /\ got[p].refresh \notin live
  /\ Goto(p, "refused")
  /\ UNCHANGED <<oauthVars, breakerVars, scene, task, held, got, attempt, quiet, gone>>

(* The token endpoint answers with an error (and at the bound on issued tokens *)
(* with nothing else), or its response is lost: the operation fails with that. *)
Unserved(p) ==
  /\ task' = [task EXCEPT ![p] = "unserved"]
  /\ Goto(p, "refused")

ExchangeFails(p) ==
  /\ At(p, "exchanging")
  /\ Unserved(p)
  /\ UNCHANGED <<oauthVars, breakerVars, scene, held, got, attempt, quiet, gone>>

ResponseLost(p) ==
  /\ scene.crashes
  /\ At(p, "exchanging")
  /\ GrantRefresh(got[p].refresh, scene.rotating)
  /\ Unserved(p)
  /\ UNCHANGED <<access, bundle, consent, pending, expired, breakerVars, scene,
                 held, got, attempt, quiet, gone>>

StoreFirst(p) ==
  /\ At(p, "storing")
  /\ StoreAccess(got[p].of)
  /\ Goto(p, "bundling")
  /\ UNCHANGED <<breakerVars, scene, task, held, got, attempt, quiet, gone>>

StoreSecond(p) ==
  /\ At(p, "bundling")
  /\ StoreBundle(got[p].refresh, got[p].of)
  /\ CASE task[p] = "connect" -> Goto(p, "granting") /\ UNCHANGED <<task, held, got, attempt>>
       [] task[p] \in {"call", "forbidden"} ->
            /\ Goto(p, "rereading")
            /\ got' = [got EXCEPT ![p] = NoBundle]
            /\ UNCHANGED <<task, held, attempt>>
       [] OTHER -> Return(p)
  /\ UNCHANGED <<breakerVars, scene, quiet, gone>>

-----------------------------------------------------------------------------
(* Sign-in and sign-out.                                                       *)

AskConnect(p) ==
  /\ MayAsk(p, "connect")
  /\ ~pending
  /\ Start
  /\ UNCHANGED <<breakerVars, scene, callVars>>

Finish(p) ==
  /\ Ask(p, "connect")
  /\ PopPending
  /\ Goto(p, "redeeming")
  /\ gone' = FALSE
  /\ Disturbs
  /\ UNCHANGED <<breakerVars, scene, held, got, attempt>>

(* pop removes an expired record too, and finish raises.                       *)
FinishLate(p) ==
  /\ MayAsk(p, "connect")
  /\ PopPending
  /\ UNCHANGED <<breakerVars, scene, callVars>>

Redeem(p) ==
  /\ At(p, "redeeming")
  /\ GrantCode
  /\ got' = [got EXCEPT ![p] = [refresh |-> issued + 1, of |-> issued + 1]]
  /\ Goto(p, "storing")
  /\ UNCHANGED <<access, bundle, consent, pending, expired, breakerVars, scene,
                 task, held, attempt, quiet, gone>>

RedeemFails(p) ==
  /\ At(p, "redeeming")
  /\ Return(p)
  /\ UNCHANGED <<oauthVars, breakerVars, scene, quiet, gone>>

RecordConsent(p) ==
  /\ At(p, "granting")
  /\ GrantConsent
  /\ Return(p)
  /\ UNCHANGED <<breakerVars, scene, quiet, gone>>

AskDisconnect(p) ==
  /\ Ask(p, "disconnect")
  /\ DeleteAccess
  /\ quiet' = [quiet EXCEPT ![p] = Writing = {}]
  /\ Goto(p, "forgetting")
  /\ UNCHANGED <<breakerVars, scene, held, got, attempt, gone>>

ForgetBundle(p) ==
  /\ At(p, "forgetting")
  /\ DeleteBundle
  /\ Goto(p, "revoking")
  /\ UNCHANGED <<breakerVars, scene, task, held, got, attempt, quiet, gone>>

DropConsent(p) ==
  /\ At(p, "revoking")
  /\ RevokeConsent
  /\ gone' = (gone \/ quiet[p])
  /\ quiet' = [quiet EXCEPT ![p] = FALSE]
  /\ Return(p)
  /\ UNCHANGED <<breakerVars, scene>>

-----------------------------------------------------------------------------
(* The service, the clock and the process.                                     *)

(* Scenes in which renewing is safe.  Of a provider that rotates, a refresh     *)
(* token is good for one renewal: two at once, a crash before the new one is   *)
(* stored, or a lost response, and the connection has none that works.  With   *)
(* any other provider calls and refreshes may race and die.                    *)
Calm ==
  \/ Cardinality(scene.threads) = 1 /\ ~scene.crashes
  \/ ~scene.rotating /\ scene.operations \subseteq {"call", "refresh"}

(* There, an access token outlives the renewal that brought it.                *)
Expire ==
  /\ expired < issued
  /\ Calm => \A p \in Threads : pc[p] \notin {"storing", "bundling", "rereading", "fetched"}
                                /\ task[p] # "retry"
  /\ expired' = expired + 1
  /\ UNCHANGED <<access, bundle, consent, pending, issued, live, breakerVars, scene, callVars>>

Tick ==
  /\ Elapse
  /\ UNCHANGED <<oauthVars, scene, callVars>>

ServiceChanges ==
  /\ scene.outages
  /\ Turn
  /\ UNCHANGED <<oauthVars, scene, callVars>>

(* Vault, consent and sign-ins are in durable stores, the breaker is not.      *)
Crash ==
  /\ scene.crashes
  /\ \E p \in Threads : pc[p] # "idle"
  /\ Forget
  /\ pc' = [p \in Threads |-> "idle"]
  /\ task' = [p \in Threads |-> "none"]
  /\ held' = [p \in Threads |-> 0]
  /\ got' = [p \in Threads |-> NoBundle]
  /\ attempt' = [p \in Threads |-> 0]
  /\ quiet' = [p \in Threads |-> FALSE]
  /\ UNCHANGED <<oauthVars, scene, gone>>

Request(p) ==
  \/ ReadCredential(p) \/ PassBreaker(p) \/ FailFast(p)
  \/ Answered(p) \/ Rejected(p) \/ Forbidden(p) \/ Retry(p)
  \/ OutageOutlastsRetries(p) \/ Throttled(p) \/ ConnectionLost(p)
  \/ CountOutage(p) \/ CountSuccess(p)
  \/ RenewAfter401(p) \/ SecondIs401(p) \/ Reread(p) \/ Refused(p)

Renewal(p) ==
  \/ AskRefresh(p) \/ AskValidToken(p) \/ ReadExpiry(p) \/ ReadBundle(p)
  \/ Exchange(p) \/ ExchangeRefused(p) \/ ExchangeFails(p) \/ ResponseLost(p)
  \/ StoreFirst(p) \/ StoreSecond(p)

Connection(p) ==
  \/ AskConnect(p) \/ Finish(p) \/ FinishLate(p) \/ Redeem(p) \/ RedeemFails(p) \/ RecordConsent(p)
  \/ AskDisconnect(p) \/ ForgetBundle(p) \/ DropConsent(p)

Next ==
  \/ \E p \in Threads : Request(p) \/ Renewal(p) \/ Connection(p)
  \/ Expire \/ Tick \/ ServiceChanges \/ Crash

Spec == Init /\ [][Next]_vars

(* Threads run, calls keep coming and time passes.                             *)
FairSpec ==
  Spec /\ WF_vars(Tick) /\ \A p \in Threads : WF_vars(Request(p)) /\ WF_vars(Renewal(p))

-----------------------------------------------------------------------------
(* In a calm scene no operation fails for a token that has only expired:        *)
(* valid_token returns one that works, and a call that meets a 401 renews it   *)
(* and gets through, also when several meet the 401 at once, and after any of  *)
(* them died between its two stores.  What may still fail is a renewal the     *)
(* token endpoint itself fails, a call that was answered 403, and a refresh    *)
(* nobody is connected for.                                                    *)
RenewalIsTransparent ==
  Calm => \A p \in Threads :
            pc[p] = "refused" =>
              \/ task[p] \in {"unserved", "forbidden"}
              \/ task[p] = "refresh" /\ bundle = NoBundle

(* A sign-out during which nobody was renewing or signing in leaves nothing    *)
(* behind, and nothing that was not a new sign-in brings it back: neither      *)
(* vault slot, nor the consent.                                                *)
DisconnectSticks == gone => access = 0 /\ bundle = NoBundle /\ ~consent

(* While the breaker is open the service sees at most the requests of calls    *)
(* that had passed it before it opened, with their retries.                    *)
HitsWhileOpen == Blocking => hits <= (Cardinality(Threads) - 1) * (1 + MaxRetries)

(* A service that from some time on answers every call, and takes the user's   *)
(* token, is called again: the circuit closes.  (One that goes on answering    *)
(* with client errors may be kept out for ever: a 401, a 403 or a 404 is no    *)
(* outage, but does not close the circuit either.)                             *)
BreakerRecovers ==
  <>[](service = "answering" /\ Fresh(access)) => (opened ~> ~opened)
=============================================================================
