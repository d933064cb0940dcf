----------------------------- MODULE HttpFront -----------------------------
(* What the HTTP transport makes of a request before the core or the control   *)
(* plane sees it (hallpass/http_server.py), and the readiness probe            *)
(* (hallpass/core.py).  A request is a record of method, path, authorization,   *)
(* length and body; a path is cut into the prefix the code looks at and a rest. *)
LOCAL INSTANCE Integers

CONSTANTS
  MaxBody,   \* _MAX_BODY_BYTES
  None       \* no header, no key, no member of a body

(* bearer_from_header: "" when absent or of another scheme.                    *)
Bearer(authorization) ==
  IF authorization # None /\ authorization.scheme = "bearer" THEN authorization.value ELSE ""

(* _dispatch: the length (None: not a number) is looked at before the body is   *)
(* read, and the body before the request goes anywhere.  A negative length      *)
(* reads what the client sends until it closes: size.                           *)
Refusal(req) ==
  IF req.length = None THEN "400"
  ELSE IF req.length > MaxBody THEN "413"
  ELSE IF req.length # 0 /\ req.body.kind = "not json" THEN "400"
  ELSE "no"

BytesRead(req, size) ==
  IF req.length = None \/ req.length > MaxBody THEN 0
  ELSE IF req.length < 0 THEN size
  ELSE req.length

(* handle_request: what a request is for.                                      *)
Route(method, path, control) ==
  IF method = "GET" /\ path.prefix \in {"/healthz", "/readyz", "/tools"} THEN path.prefix
  ELSE IF method = "POST" /\ path.prefix = "/call/" THEN "call"
  ELSE IF control /\ path.prefix = "/admin/" THEN "admin"
  ELSE "nowhere"

(* The dashboard's page is a shell that is served to anyone.                   *)
Target(req, control) ==
  IF control /\ req.method = "GET" /\ req.path.prefix = "/admin" THEN "dashboard"
  ELSE IF Refusal(req) # "no" THEN "refused"
  ELSE Route(req.method, req.path, control)

(* A body that is no object, or arguments that are none, count as empty; a key  *)
(* that is no string counts as none.                                           *)
Arguments(body) ==
  IF body.kind = "object" /\ body.arguments.kind = "object" THEN body.arguments.value ELSE {}

IdempotencyKey(body) ==
  IF body.kind = "object" /\ body.key.kind = "string" THEN body.key.value ELSE None

(* POST /admin/gates/decide: the verdict is the truth value of a member of the  *)
(* body (a zero counts as empty), and an approval when there is none.          *)
Approved(body) ==
  IF body.kind = "object" /\ body.approved # None
    THEN ~(body.approved.json \in {"null", "false"} \/ body.approved.empty)
    ELSE TRUE

-----------------------------------------------------------------------------
(* check_readiness: the probe of the vault and, if there is one, of the         *)
(* idempotency store, or what a probe said less than ttl ago.  memo is None or  *)
(* the answer and the time of the last probe.                                  *)
Usable(memo, ttl, now) == ttl > 0 /\ memo # None /\ now - memo.at < ttl

CheckReadiness(memo, ttl, now, vaultUp, storeUp) ==
  IF Usable(memo, ttl, now) THEN memo
  ELSE [at |-> now, ready |-> vaultUp /\ (storeUp = None \/ storeUp)]
=============================================================================
