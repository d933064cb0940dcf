------------------------------ MODULE CallPath -----------------------------
(* The two operations of a Hallpass (hallpass/core.py) and what its transports *)
(* (hallpass/http_server.py, hallpass/mcp_adapter.py) tell the client.  A call *)
(* carries a token, a tool name and perhaps an idempotency key through the     *)
(* verifier, the rate limiter, the gate, the idempotency store, the handler,   *)
(* the store again and the audit log; a listing or a search goes through the   *)
(* verifier, the gate, a pluggable ranker and the audit log.  Requests are     *)
(* threads of one server: they interleave at every call to one of those, and   *)
(* each of those may fail on its own.                                          *)
EXTENDS Naturals, Sequences

CONSTANTS
  Threads,
  Tokens,
  Valid,         \* tokens whose signature, issuer, audience and exp are good
  SubjectOf,     \* SubjectOf[tok]: the subject tok proves
  ScopesOf,      \* ScopesOf[tok]: the scopes tok carries
  Names,         \* tool names callers ask for, and a ranker may come up with
  Listing, Searching, \* in place of a name: the request is for the catalog, or a search
  Connectors,
  Available,     \* connectors whose available() was true when the server was assembled
  Offers,        \* Offers[k][n]: the required_scopes of the tool n that connector k offers
  Keys,          \* idempotency keys
  NoKey,         \* a request without one
  Nothing,       \* no request, no result
  Budget,        \* max_calls of the limiter
  Faults,        \* what may go wrong: "handler", "upstream", "store", "sink",
                 \* "ranker", "result", "crash", "expiry"
  MaxRequests    \* bound: how many requests are made

Subjects == {SubjectOf[tok] : tok \in Tokens}

(* add_connector: the tools of the connectors that are available are registered. *)
Tools == UNION {DOMAIN Offers[k] : k \in Available}
Required == [n \in Tools |-> Offers[CHOOSE k \in Available : n \in DOMAIN Offers[k]][n]]

ASSUME TokenAssumption ==
  /\ Valid \subseteq Tokens
  /\ DOMAIN SubjectOf = Tokens /\ DOMAIN ScopesOf = Tokens
  /\ Tools \subseteq Names
(* ToolGate.register refuses a name a second time. *)
ASSUME ConnectorAssumption ==
  /\ Available \subseteq Connectors /\ DOMAIN Offers = Connectors
  /\ \A j, k \in Available : j # k => DOMAIN Offers[j] \cap DOMAIN Offers[k] = {}
ASSUME NoKeyAssumption == NoKey \notin Keys
ASSUME CatalogAssumption == Listing \notin Names /\ Searching \notin Names
ASSUME BoundAssumption == Budget \in Nat \ {0} /\ MaxRequests \in Nat

VARIABLES
  revoked,   \* the revocation list the verifier consults
  spent,     \* spent[s]: calls of s in the limiter's current window
  memo,      \* memo[c]: the result remembered under c = <<subject, tool, key>>
  pc, req,   \* where a thread is, and with which request
  result,    \* result[th]: what the handler or the store gave it
  shown,     \* shown[th]: the tools a listing or a search came up with
  trail,     \* trail[th]: the audit events of its request
  left,      \* requests still to be made (bound)
  barred,    \* barred[th]: its subject was revoked when it came in, and since (history)
  known,     \* known[th]: its result was remembered when it came in, and since (history)
  ran        \* ran[c]: handler runs under c that succeeded (history)

shared == <<revoked, spent, memo>>
requests == <<pc, req, result, shown, trail, left>>
history == <<barred, known, ran>>
vars == <<shared, requests, history>>

Calls == Subjects \X Tools \X Keys
Requests ==
  [token : Tokens, tool : Names, key : Keys \cup {NoKey}] \cup
  [token : Tokens, tool : {Listing, Searching}, key : {NoKey}]

(* A result is identified by who ran what under which key. *)
Results == Subjects \X Tools \X (Keys \cup {NoKey})
Events == {"authentication", "rate_limited", "not_authorized", "replay", "allow", "catalog"}

ASSUME NothingAssumption == Nothing \notin Requests \cup Results

(* A call ends with a result, with one of the core's three refusals, with the  *)
(* ConnectorError of a tool whose upstream service failed, or otherwise.       *)
Ends == {"returned", "refused", "upstream", "raised"}
PCs == {"idle", "verify", "limit", "authorize", "lookup", "handle", "put", "record",
        "catalog", "rank"} \cup Ends

TypeOK ==
  /\ revoked \in SUBSET Subjects
  /\ spent \in [Subjects -> 0 .. Budget]
  /\ memo \in [Calls -> Results \cup {Nothing}]
  /\ pc \in [Threads -> PCs]
  /\ req \in [Threads -> Requests \cup {Nothing}]
  /\ result \in [Threads -> Results \cup {Nothing}]
  /\ shown \in [Threads -> SUBSET Tools]
  /\ trail \in [Threads -> Seq(Events)]
  /\ left \in 0 .. MaxRequests
  /\ barred \in [Threads -> BOOLEAN]
  /\ known \in [Threads -> BOOLEAN]
  /\ ran \in [Calls -> Nat]

Init ==
  /\ revoked = {}
  /\ spent = [s \in Subjects |-> 0]
  /\ memo = [c \in Calls |-> Nothing]
  /\ pc = [th \in Threads |-> "idle"]
  /\ req = [th \in Threads |-> Nothing]
  /\ result = [th \in Threads |-> Nothing]
  /\ shown = [th \in Threads |-> {}]
  /\ trail = [th \in Threads |-> <<>>]
  /\ left = MaxRequests
  /\ barred = [th \in Threads |-> FALSE]
  /\ known = [th \in Threads |-> FALSE]
  /\ ran = [c \in Calls |-> 0]

Subject(th) == SubjectOf[req[th].token]
Call(th) == <<Subject(th), req[th].tool, req[th].key>>
HasKey(th) == req[th].key # NoKey
IsCall(th) == req[th].tool \notin {Listing, Searching}

At(th, l) == pc[th] = l
Goto(th, l) == pc' = [pc EXCEPT ![th] = l]

(* _record, and then on to l; a sink that cannot write raises out of the call. *)
Audit(th, event, l) ==
  \/ Goto(th, l) /\ trail' = [trail EXCEPT ![th] = Append(@, event)]
  \/ "sink" \in Faults /\ Goto(th, "raised") /\ UNCHANGED trail

-----------------------------------------------------------------------------
Arrive(th, r) ==
  /\ At(th, "idle")
  /\ left > 0
  /\ left' = left - 1
  /\ req' = [req EXCEPT ![th] = r]
  /\ barred' = [barred EXCEPT ![th] = SubjectOf[r.token] \in revoked]
  /\ LET c == <<SubjectOf[r.token], r.tool, r.key>>
     IN  known' = [known EXCEPT ![th] = c \in Calls /\ memo[c] # Nothing]
  /\ Goto(th, "verify")
  /\ UNCHANGED <<shared, result, shown, trail, ran>>

(* Mutant: the revocation list is not consulted. *)
MutantVerifiesSignature(tok) == tok \in Valid

(* TokenVerifier.verify: a revoked subject is turned away like a bad token. *)
Verifies(tok) == tok \in Valid /\ SubjectOf[tok] \notin revoked

Verify(th) ==
  /\ At(th, "verify")
  /\ \/ /\ Verifies(req[th].token)
        /\ Goto(th, IF IsCall(th) THEN "limit" ELSE "catalog")
        /\ UNCHANGED trail
     \/ ~Verifies(req[th].token) /\ Audit(th, "authentication", "refused")
  /\ UNCHANGED <<shared, req, result, shown, left, history>>

(* Mutant: attempts are counted but never refused. *)
MutantLimitNever(th) ==
  /\ At(th, "limit")
  /\ spent' = [spent EXCEPT ![Subject(th)] = @ + 1]
  /\ Goto(th, "authorize")
  /\ UNCHANGED <<revoked, memo, req, result, shown, trail, left, history>>

(* The limiter counts the attempts it lets pass. *)
Limit(th) ==
  LET s == Subject(th) IN
  /\ At(th, "limit")
  /\ \/ /\ spent[s] < Budget
        /\ spent' = [spent EXCEPT ![s] = @ + 1]
        /\ Goto(th, "authorize")
        /\ UNCHANGED trail
     \/ /\ spent[s] = Budget
        /\ Audit(th, "rate_limited", "refused")
        /\ UNCHANGED spent
  /\ UNCHANGED <<revoked, memo, req, result, shown, left, history>>

(* ToolGate.authorize: unknown and ungranted are one outcome. *)
Authorized(tok, n) == n \in Tools /\ Required[n] \subseteq ScopesOf[tok]

Authorize(th) ==
  LET ok == Authorized(req[th].token, req[th].tool) IN
  /\ At(th, "authorize")
  /\ \/ ok /\ Goto(th, IF HasKey(th) THEN "lookup" ELSE "handle") /\ UNCHANGED trail
     \/ ~ok /\ Audit(th, "not_authorized", "refused")
  /\ UNCHANGED <<shared, req, result, shown, left, history>>

(* Mutants: the store is keyed by tool and key alone; a hit is not looked for. *)
MutantLookupAnySubject(th) ==
  /\ At(th, "lookup")
  /\ \/ \E s \in Subjects :
          LET c == <<s, req[th].tool, req[th].key>> IN
          /\ memo[c] # Nothing
          /\ result' = [result EXCEPT ![th] = memo[c]]
          /\ Audit(th, "replay", "returned")
     \/ /\ memo[Call(th)] = Nothing
        /\ Goto(th, "handle")
        /\ UNCHANGED <<result, trail>>
  /\ UNCHANGED <<shared, req, shown, left, history>>

MutantLookupMiss(th) ==
  /\ At(th, "lookup")
  /\ Goto(th, "handle")
  /\ UNCHANGED <<shared, req, result, shown, trail, left, history>>

(* store.get: a hit is returned in place of a run. *)
Lookup(th) ==
  /\ At(th, "lookup")
  /\ \/ /\ memo[Call(th)] # Nothing
        /\ result' = [result EXCEPT ![th] = memo[Call(th)]]
        /\ Audit(th, "replay", "returned")
     \/ /\ memo[Call(th)] = Nothing
        /\ Goto(th, "handle")
        /\ UNCHANGED <<result, trail>>
     \/ /\ "store" \in Faults
        /\ Goto(th, "raised")
        /\ UNCHANGED <<result, trail>>
  /\ UNCHANGED <<shared, req, shown, left, history>>

(* Mutant: a raising handler is remembered too. *)
MutantHandleRemembersAll(th) ==
  /\ At(th, "handle")
  /\ \E success \in BOOLEAN :
       /\ result' = [result EXCEPT ![th] = Call(th)]
       /\ ran' = IF HasKey(th) /\ success THEN [ran EXCEPT ![Call(th)] = @ + 1] ELSE ran
       /\ Goto(th, IF HasKey(th) THEN "put" ELSE "record")
  /\ UNCHANGED <<shared, req, shown, trail, left, barred, known>>

(* The handler succeeds, or raises out of call_tool. *)
Handle(th) ==
  /\ At(th, "handle")
  /\ \/ /\ result' = [result EXCEPT ![th] = Call(th)]
        /\ ran' = IF HasKey(th) THEN [ran EXCEPT ![Call(th)] = @ + 1] ELSE ran
        /\ Goto(th, IF HasKey(th) THEN "put" ELSE "record")
     \/ /\ \E end \in {"raised", "upstream"} :
             (IF end = "raised" THEN "handler" ELSE end) \in Faults /\ Goto(th, end)
        /\ UNCHANGED <<result, ran>>
  /\ UNCHANGED <<shared, req, shown, trail, left, barred, known>>

(* store.put: overwrites; it may fail after the handler has run. *)
Put(th) ==
  /\ At(th, "put")
  /\ \/ memo' = [memo EXCEPT ![Call(th)] = result[th]] /\ Goto(th, "record")
     \/ "store" \in Faults /\ Goto(th, "raised") /\ UNCHANGED memo
  /\ UNCHANGED <<revoked, spent, req, result, shown, trail, left, history>>

(* Mutant: a full sink is taken for a written event. *)
MutantRecordSilent(th) ==
  /\ At(th, "record")
  /\ Goto(th, "returned")
  /\ UNCHANGED <<shared, req, result, shown, trail, left, history>>

Record(th) ==
  /\ At(th, "record")
  /\ Audit(th, "allow", "returned")
  /\ UNCHANGED <<shared, req, result, shown, left, history>>

(* ToolGate.catalog: the tools this token's scopes cover. *)
Grants(tok) == {n \in Tools : Authorized(tok, n)}

(* list_tools: the catalog, as it is; a search has it ranked first. *)
Catalog(th) ==
  /\ At(th, "catalog")
  /\ shown' = [shown EXCEPT ![th] = Grants(req[th].token)]
  /\ \/ req[th].tool = Searching /\ Goto(th, "rank") /\ UNCHANGED trail
     \/ req[th].tool = Listing /\ Audit(th, "catalog", "returned")
  /\ UNCHANGED <<shared, req, result, left, history>>

(* Mutant: the ranker's hits are taken as they come. *)
MutantRankTrusted(th) ==
  /\ At(th, "rank")
  /\ \E hits \in SUBSET Tools :
       /\ shown' = [shown EXCEPT ![th] = hits]
       /\ Audit(th, "catalog", "returned")
  /\ UNCHANGED <<shared, req, result, left, history>>

(* search_tools: a ranker may come up with any names, or fail; of those within *)
(* the limit, the ones in the catalog it was given are shown.                  *)
Rank(th) ==
  /\ At(th, "rank")
  /\ \/ \E hits \in SUBSET Names :
          /\ shown' = [shown EXCEPT ![th] = hits \cap @]
          /\ Audit(th, "catalog", "returned")
     \/ "ranker" \in Faults /\ Goto(th, "raised") /\ UNCHANGED <<shown, trail>>
  /\ UNCHANGED <<shared, req, result, left, history>>

(* The outcome reaches the caller, who may come again. *)
Forget(th) ==
  /\ Goto(th, "idle")
  /\ req' = [req EXCEPT ![th] = Nothing]
  /\ result' = [result EXCEPT ![th] = Nothing]
  /\ shown' = [shown EXCEPT ![th] = {}]
  /\ trail' = [trail EXCEPT ![th] = <<>>]
  /\ barred' = [barred EXCEPT ![th] = FALSE]
  /\ known' = [known EXCEPT ![th] = FALSE]
  /\ UNCHANGED <<shared, left, ran>>

Finish(th) == pc[th] \in Ends /\ Forget(th)

(* The thread is lost in the middle of the call. *)
Crash(th) == "crash" \in Faults /\ pc[th] \notin Ends \cup {"idle"} /\ Forget(th)

(* What the client is told of a call or listing that has ended.  handle_request *)
(* says 401, 429 or 404 of a refusal and 502 of an upstream's failure; a result *)
(* json.dumps refuses, or any other exception of a call, is 500, while one of a *)
(* listing is not caught and the connection closes with no answer.             *)
NoAnswer == 0
RefusalCode == [authentication |-> 401, rate_limited |-> 429, not_authorized |-> 404]
HttpAnswers(th) ==
  CASE pc[th] = "returned" -> {200} \cup IF IsCall(th) /\ "result" \in Faults THEN {500} ELSE {}
    [] pc[th] = "refused"  -> {RefusalCode[trail[th][1]]}
    [] pc[th] = "upstream" -> {502}
    [] pc[th] = "raised"   -> {IF IsCall(th) THEN 500 ELSE NoAnswer}

(* build_mcp_server: a result is rendered whatever it is, and a caller that is *)
(* not authenticated sees an empty catalog; everything else is an MCP error.   *)
McpAnswers(th) ==
  {IF pc[th] = "returned" \/ (pc[th] = "refused" /\ ~IsCall(th)) THEN "content" ELSE "error"}

-----------------------------------------------------------------------------
(* Around the requests: an operator revokes and restores, the limiter's window *)
(* moves past a call, a remembered result outlives its TTL.                    *)

Revoke(s) ==
  /\ revoked' = revoked \cup {s}
  /\ UNCHANGED <<spent, memo, requests, history>>

Restore(s) ==
  /\ revoked' = revoked \ {s}
  /\ barred' = [th \in Threads |-> barred[th] /\ Subject(th) # s]
  /\ UNCHANGED <<spent, memo, requests, known, ran>>

WindowMoves(s) ==
  /\ spent[s] > 0
  /\ spent' = [spent EXCEPT ![s] = @ - 1]
  /\ UNCHANGED <<revoked, memo, requests, history>>

Expire(c) ==
  /\ "expiry" \in Faults
  /\ memo[c] # Nothing
  /\ memo' = [memo EXCEPT ![c] = Nothing]
  /\ known' = [th \in Threads |-> known[th] /\ Call(th) # c]
  /\ UNCHANGED <<revoked, spent, requests, barred, ran>>

Step(th) ==
  \/ \E r \in Requests : Arrive(th, r)
  \/ Verify(th) \/ Limit(th) \/ Authorize(th) \/ Lookup(th) \/ Handle(th)
  \/ Put(th) \/ Record(th) \/ Catalog(th) \/ Rank(th) \/ Finish(th) \/ Crash(th)

Next ==
  \/ \E th \in Threads : Step(th)
  \/ \E s \in Subjects : Revoke(s) \/ Restore(s) \/ WindowMoves(s)
  \/ \E c \in Calls : Expire(c)

Spec == Init /\ [][Next]_vars

-----------------------------------------------------------------------------
(* revoke_agent: "every live token for subject stops verifying on its next     *)
(* request".  A request that comes in after the revocation never gets as far   *)
(* as the gate, whichever of the subject's tokens it carries.                  *)
RevokedIsOut ==
  \A th \in Threads :
    barred[th] => pc[th] \in {"verify", "refused", "raised"}

(* idempotency.py: "one user's key can never return another user's result";    *)
(* search_tools: "search can never surface a tool the caller could not call":  *)
(* what a caller gets back is what its own subject, tool and key produced, and *)
(* every tool it is shown is one its token may call, whatever the ranker says. *)
OwnResult ==
  \A th \in Threads : pc[th] = "returned" =>
    /\ IsCall(th) => result[th] = Call(th)
    /\ \A n \in shown[th] : Authorized(req[th].token, n)

(* redis_backends.py: "a retry after the first call recorded -- is now         *)
(* strict".  A request that comes in when its result is remembered never runs  *)
(* the handler, whatever else is in flight.                                    *)
RetryNeverReruns ==
  \A th \in Threads : known[th] => pc[th] \notin {"handle", "put", "record"}

(* Over either transport a client that is told of success has left exactly one *)
(* event; one that is told no (401, 404, 429) has left its reason, and nothing *)
(* was run or looked up for it.  No failure of handler, ranker, store or sink  *)
(* changes that.                                                               *)
AnsweredIsAudited ==
  \A th \in Threads : pc[th] \in Ends =>
    /\ 200 \in HttpAnswers(th) \/ "content" \in McpAnswers(th) =>
         \E e \in Events : trail[th] = <<e>>
    /\ HttpAnswers(th) \cap {401, 404, 429} # {} =>
         /\ trail[th] \in {<<"authentication">>, <<"rate_limited">>, <<"not_authorized">>}
         /\ result[th] = Nothing /\ shown[th] = {}

(* "Only successful results are remembered": nothing is stored under a key     *)
(* whose handler never succeeded.                                              *)
RememberedRan == \A c \in Calls : memo[c] # Nothing => ran[c] > 0

(* call_tool: "so a retried mutation happens at most once."                    *)
AtMostOnce == \A c \in Calls : ran[c] <= 1
=============================================================================
