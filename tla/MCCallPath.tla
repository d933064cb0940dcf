----------------------------- MODULE MCCallPath ----------------------------
(* alice has a token with the scope and one without, bob one with it, and      *)
(* there is one bad token; of two connectors one offers the tool "act", which  *)
(* needs the scope, and one that is not available offers "gone".               *)
EXTENDS CallPath, Integers

CONSTANTS th1, th2, full, bare, other, forged, scope, up, down

MCSubjectOf == [tok \in Tokens |-> IF tok = other THEN "bob" ELSE "alice"]
MCScopesOf == [tok \in Tokens |-> IF tok \in {full, other} THEN {scope} ELSE {}]
MCOffers == [k \in Connectors |-> [n \in {IF k = up THEN "act" ELSE "gone"} |-> {scope}]]

-----------------------------------------------------------------------------
(* The assembly of a server, for every configuration, and two starts of it on  *)
(* one node or on two.                                                         *)
A == INSTANCE Assembly

MCStarts == [node : {1, 2}, number : {1, 2}]
MCServices ==
  {[service |-> "github", tools |-> {"act"}, requiresBaseUrl |-> FALSE],
   [service |-> "jira", tools |-> {"gone"}, requiresBaseUrl |-> TRUE]}
MCConfigs ==
  [jwks : BOOLEAN, jwksUrl : BOOLEAN, vaultKey : BOOLEAN, vaultPath : {"memory", "file"},
   databaseUrl : BOOLEAN, redisUrl : BOOLEAN, rateLimit : BOOLEAN, idempotency : BOOLEAN,
   audit : {"none", "file"},
   connectors : {{}, {[service |-> "github", tools |-> {"act"}, available |-> TRUE]},
                 {[service |-> "github", tools |-> {"act"}, available |-> FALSE]}}]
MCEnvironments ==
  [issuer : BOOLEAN, audience : BOOLEAN, jwksUrl : BOOLEAN, vaultKey : BOOLEAN,
   databaseUrl : BOOLEAN, redisUrl : BOOLEAN, auditPath : BOOLEAN,
   serviceClaim : BOOLEAN, serviceValues : {{}, {"client-credentials"}},
   rateLimit : {"", <<0, 60>>, <<120, 60>>, <<120, 0>>}]
MCBuilt == {config \in MCConfigs : ~A!Refused(config)}
MCServed == {env \in MCEnvironments : ~A!ServeRefused(FALSE, env, FALSE)}

MCFetched(config, first, second) ==
  A!Fetched(A!Vault(config, first), first, A!Vault(config, second), second)

(* server.py: "a shared vault requires a stable key", or a replica could not   *)
(* read what another has stored.                                               *)
ASSUME SharedVaultReadable ==
  \A config \in MCBuilt, first, second \in MCStarts :
    config.databaseUrl => MCFetched(config, first, second) = "credential"

(* What is warned of is what the replicas of a shared vault do not share.      *)
ASSUME SplitIsWarned ==
  \A config \in MCBuilt, start \in MCStarts :
    LET app == A!Build(config, start)
    IN  app.vault.place = "postgres" /\ ~app.warned =>
          app.limiter # "memory" /\ app.idempotency \in {"redis", "given"}

(* "the app is single-node ... with neither": a file without a key is kept,    *)
(* counted as durable, passed by the self-check, and unreadable after a start. *)
ASSUME DurableMayBeUnreadable ==
  \E config \in MCBuilt, first, second \in MCStarts :
    LET app == A!Build(config, second)
    IN  /\ A!VaultDurable(app) /\ <<"warn", "ephemeral-vault">> \notin A!Doctor(app)
        /\ first.node = second.node
        /\ MCFetched(config, first, second) = "VaultError"

(* The self-check's warning is never wrong: what it calls ephemeral is gone.   *)
ASSUME EphemeralIsLost ==
  \A config \in MCBuilt, first, second \in MCStarts :
    /\ <<"warn", "ephemeral-vault">> \in A!Doctor(A!Build(config, second))
    /\ first # second
    => MCFetched(config, first, second) = "nothing"

(* DEPLOY.md: with the database and Redis "every store is networked".          *)
ASSUME FleetShares ==
  \A env \in MCServed, start \in MCStarts :
    env.databaseUrl /\ env.redisUrl =>
      LET served == A!Serves(FALSE, env, MCServices, start)
      IN  /\ served.subsystems = "postgres" /\ served.app.audit = "postgres"
          /\ served.app.vault.place = "postgres" /\ served.app.idempotency = "redis"
          /\ served.app.limiter \in {"redis", "none"}

(* DEPLOY.md, "Single node": "SQLite vault, in-process idempotency", and a key *)
(* "so credentials survive a restart".  serve gives build no path and no store: *)
(* no credential survives, whatever the key, and no idempotency key counts.    *)
ASSUME SingleNodeForgets ==
  \A env \in MCServed, first, second \in MCStarts :
    ~env.databaseUrl /\ first # second =>
      /\ MCFetched(A!FromEnv(env, MCServices), first, second) = "nothing"
      /\ ~env.redisUrl => A!Idempotency(A!FromEnv(env, MCServices)) = "none"

(* cli.py: the dev minter is refused "with a production signal present".       *)
ASSUME MinterStaysHome ==
  \A env \in MCEnvironments, loopback, dev \in BOOLEAN, start \in MCStarts :
    /\ ~A!ServeRefused(dev, env, loopback)
    /\ A!Serves(dev, env, MCServices, start).minter
    => /\ loopback /\ ~env.databaseUrl
       /\ A!Serves(dev, env, MCServices, start).control = FALSE

-----------------------------------------------------------------------------
(* The HTTP front, for every request over a few methods, paths and bodies.     *)
H == INSTANCE HttpFront WITH MaxBody <- 2, None <- Nothing

MCBodies ==
  {[kind |-> "absent"], [kind |-> "not json"], [kind |-> "list"]} \cup
  [kind : {"object"}, arguments : {[kind |-> "object", value |-> {"x"}], [kind |-> "list"]},
   key : {[kind |-> "string", value |-> "k"], [kind |-> "number"]},
   approved : {Nothing}]
MCHttpRequests ==
  [method : {"GET", "POST"},
   path : [prefix : {"/healthz", "/readyz", "/tools", "/call/", "/admin", "/admin/", "/other"}],
   length : -1 .. 3 \cup {Nothing}, body : MCBodies]

(* "Cap the body BEFORE reading it": so it is unless the length is negative;   *)
(* and nothing that was not parsed goes anywhere.                              *)
ASSUME BodiesAreBounded ==
  \A r \in MCHttpRequests, size \in 0 .. 4, control \in BOOLEAN :
    /\ H!BytesRead(r, size) > 2 => r.length = -1
    /\ H!Target(r, control) \notin {"refused", "dashboard"} =>
         /\ r.length \in -1 .. 2
         /\ r.length # 0 => r.body.kind # "not json"

(* Without a control plane the admin surface is "the same opaque 404 as any    *)
(* unknown path", whatever the method, length and body.                        *)
ASSUME AdminIsInvisible ==
  \A r \in MCHttpRequests, prefix \in {"/admin", "/admin/"} :
    H!Target([r EXCEPT !.path.prefix = prefix], FALSE)
      = H!Target([r EXCEPT !.path.prefix = "/other"], FALSE)

(* Whatever a client sends, the core is called with a token of the right        *)
(* scheme or none, an object of arguments, and a key that is a string or none.  *)
ASSUME CoreIsCalledInKind ==
  \A r \in MCHttpRequests, scheme \in {"bearer", "basic"}, sent \in BOOLEAN :
    LET header == IF sent THEN [scheme |-> scheme, value |-> "token"] ELSE Nothing
    IN  /\ H!Bearer(header) = IF sent /\ scheme = "bearer" THEN "token" ELSE ""
        /\ H!Arguments(r.body) \in {{}, {"x"}}
        /\ H!IdempotencyKey(r.body) \in {Nothing, "k"}
        /\ r.body.kind # "object" =>
             H!Arguments(r.body) = {} /\ H!IdempotencyKey(r.body) = Nothing

(* A gate is approved by a request that says nothing, and by the word "false".  *)
ASSUME SilenceApproves ==
  /\ H!Approved([kind |-> "absent"])
  /\ H!Approved([kind |-> "object", approved |-> Nothing])
  /\ H!Approved([kind |-> "object", approved |-> [json |-> "string", empty |-> FALSE]])
  /\ ~H!Approved([kind |-> "object", approved |-> [json |-> "false", empty |-> FALSE]])

(* Probes at every instant while the backends come and go: an answer is true   *)
(* of an instant less than ttl ago, and of this one when nothing is cached.    *)
ASSUME ReadinessIsRecent ==
  \A health \in [1 .. 3 -> [vault : BOOLEAN, store : {TRUE, FALSE, Nothing}]], ttl \in 0 .. 3 :
    LET probe[t \in 0 .. 3] ==
          IF t = 0 THEN Nothing
          ELSE H!CheckReadiness(probe[t - 1], ttl, t, health[t].vault, health[t].store)
        Up(t) == health[t].vault /\ health[t].store # FALSE
    IN  \A t \in 1 .. 3 :
          \E u \in 1 .. t : probe[t].ready = Up(u) /\ (t - u < ttl \/ u = t)
=============================================================================
