------------------------------ MODULE Assembly -----------------------------
(* How a server is put together (hallpass/server.py, hallpass/cli.py), what of *)
(* it two starts of it have in common, and what its self-check reports         *)
(* (hallpass/diagnostics.py).  A start is a record of the node a process runs  *)
(* on and of its number there.  A place is where a subsystem keeps its state:  *)
(* a shared "postgres" or "redis", a "file" of the node, the "memory" of one   *)
(* start, or what the caller passed in.                                        *)
LOCAL INSTANCE Integers

(* Whether what one start leaves in a place is there for another.              *)
SamePlace(place, first, second) ==
  \/ place \in {"postgres", "redis"}
  \/ place = "file" /\ first.node = second.node
  \/ place = "memory" /\ first = second

-----------------------------------------------------------------------------
(* build.  A configuration says which of its arguments are given.              *)
Refused(config) ==
  \/ ~config.jwks /\ ~config.jwksUrl
  \/ config.databaseUrl /\ ~config.vaultKey

Vault(config, start) ==
  [place |-> IF config.databaseUrl THEN "postgres" ELSE config.vaultPath,
   key |-> IF config.vaultKey THEN <<"given">> ELSE <<"fresh", start>>]

Idempotency(config) ==
  IF config.idempotency THEN "given" ELSE IF config.redisUrl THEN "redis" ELSE "none"

Limiter(config) ==
  IF ~config.rateLimit THEN "none" ELSE IF config.redisUrl THEN "redis" ELSE "memory"

(* add_connector: the tools of the connectors that say they are available.      *)
Build(config, start) ==
  [vault |-> Vault(config, start),
   idempotency |-> Idempotency(config),
   limiter |-> Limiter(config),
   audit |-> config.audit,
   warned |-> config.databaseUrl /\ ~config.redisUrl,
   tools |-> UNION {k.tools : k \in {j \in config.connectors : j.available}},
   unavailable |-> {k.service : k \in {j \in config.connectors : ~j.available}}]

(* A credential that one start has stored, fetched by another.                 *)
Fetched(stored, first, reading, second) ==
  IF stored.place # reading.place \/ ~SamePlace(stored.place, first, second) THEN "nothing"
  ELSE IF stored.key = reading.key THEN "credential"
  ELSE "VaultError"

VaultDurable(app) == app.vault.place # "memory"

-----------------------------------------------------------------------------
(* doctor.                                                                     *)
Doctor(app) ==
  {f \in {<<"error", "no-tools">>, <<"ok", "tools">>, <<"warn", "unavailable-connectors">>,
          <<"warn", "no-audit">>, <<"warn", "no-rate-limit">>, <<"warn", "ephemeral-vault">>} :
     CASE f[2] = "no-tools" -> app.tools = {}
       [] f[2] = "tools" -> app.tools # {}
       [] f[2] = "unavailable-connectors" -> app.unavailable # {}
       [] f[2] = "no-audit" -> app.audit = "none"
       [] f[2] = "no-rate-limit" -> app.limiter = "none"
       [] f[2] = "ephemeral-vault" -> ~VaultDurable(app)}

(* hallpass doctor: the exit status.                                           *)
DoctorFails(app) == \E f \in Doctor(app) : f[1] = "error"

-----------------------------------------------------------------------------
(* hallpass serve.  An environment says which of its variables are set;        *)
(* rateLimit is "" or a pair of calls and seconds.                             *)
ParseRateLimit(raw) == raw # "" /\ raw[1] >= 1 /\ raw[2] > 0

EnvRefused(env) ==
  \/ ~env.issuer \/ ~env.audience \/ ~env.jwksUrl
  \/ env.serviceClaim /\ env.serviceValues = {}
  \/ env.rateLimit # "" /\ ~ParseRateLimit(env.rateLimit)

AuditFromEnv(env) ==
  IF env.databaseUrl THEN "postgres" ELSE IF env.auditPath THEN "file" ELSE "none"

(* The revocation list, the task queue and the human gates.                    *)
ControlSubsystems(env) == IF env.databaseUrl THEN "postgres" ELSE "memory"

(* load_all: the services that need no base URL of a tenant.                    *)
LoadAll(services) ==
  {[service |-> s.service, tools |-> s.tools, available |-> TRUE] :
     s \in {r \in services : ~r.requiresBaseUrl}}

FromEnv(env, services) ==
  [jwks |-> FALSE, jwksUrl |-> env.jwksUrl,
   vaultKey |-> env.vaultKey, vaultPath |-> "memory",
   databaseUrl |-> env.databaseUrl, redisUrl |-> env.redisUrl,
   rateLimit |-> env.rateLimit # "", idempotency |-> FALSE,
   audit |-> AuditFromEnv(env), connectors |-> LoadAll(services)]

(* dev_app: a key pair of its own, and a minter of tokens for anyone.          *)
DevApp(services) ==
  [jwks |-> TRUE, jwksUrl |-> FALSE, vaultKey |-> FALSE, vaultPath |-> "memory",
   databaseUrl |-> FALSE, redisUrl |-> FALSE, rateLimit |-> FALSE, idempotency |-> FALSE,
   audit |-> "none", connectors |-> LoadAll(services)]

(* What serve puts on the network, and whether it starts at all.               *)
ServeRefused(dev, env, loopback) ==
  IF dev THEN env.databaseUrl \/ ~loopback
  ELSE EnvRefused(env) \/ Refused(FromEnv(env, {}))

Serves(dev, env, services, start) ==
  [app |-> Build(IF dev THEN DevApp(services) ELSE FromEnv(env, services), start),
   minter |-> dev,
   control |-> ~dev,
   subsystems |-> ControlSubsystems(env)]
=============================================================================
