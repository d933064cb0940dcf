---------------------------- MODULE MCConnector ----------------------------
(* One thread that does everything, with a provider that rotates; two whose    *)
(* calls and refreshes meet the same 401, and die; two that do everything, with *)
(* a provider that rotates, and die; and two whose calls meet outages and      *)
(* rejections.                                                                 *)
EXTENDS Connector, TLC

CONSTANTS a, b, nobody

MCScenes ==
  {[threads |-> {a}, operations |-> Operations,
    rotating |-> TRUE, outages |-> FALSE, crashes |-> FALSE],
   [threads |-> {a, b}, operations |-> {"call", "refresh"},
    rotating |-> FALSE, outages |-> FALSE, crashes |-> TRUE],
   [threads |-> {a, b}, operations |-> Operations,
    rotating |-> TRUE, outages |-> FALSE, crashes |-> TRUE],
   [threads |-> {a, b}, operations |-> {"call"},
    rotating |-> FALSE, outages |-> TRUE, crashes |-> FALSE]}

-----------------------------------------------------------------------------
(* The requests of declared endpoints: every endpoint over two names, with      *)
(* every way to carry a credential.                                            *)
R == INSTANCE RestRequest WITH NoBody <- nobody, Overhead <- 5

MCNames == {"id", "key"}
MCEndpoints ==
  [method : {"GET", "POST"}, path : SUBSET MCNames, query : SUBSET MCNames,
   body : SUBSET MCNames, required : {{}, {"key"}}, form : BOOLEAN, graphql : BOOLEAN]
MCAuths ==
  {<<"bearer">>, <<"header", "key">>, <<"query", "key">>,
   <<"multi", << <<"header", "key", "first">>, <<"query", "id", "second">> >> >>}
MCCredential(auth) ==
  IF auth[1] = "multi"
    THEN [kind |-> "object", fields |-> [first |-> "secret 1", second |-> "secret 2"]]
    ELSE "secret"
MCArgs == UNION {[names -> {"value"}] : names \in SUBSET MCNames}
MCRequest(e, auth, args) ==
  R!Request([auth |-> auth, headers |-> "key" :> "fixed"], e, args, MCCredential(auth))

(* A call that keeps to the advertised schema is sent, and every argument of   *)
(* it arrives, unless the credential takes its name.                           *)
ASSUME SchemaIsEnough ==
  \A e \in MCEndpoints, auth \in MCAuths, args \in MCArgs :
    /\ R!RequiredArgs(e) \subseteq DOMAIN args
    /\ DOMAIN args \subseteq R!Properties(e)
    => /\ R!Sends([auth |-> auth], e, args, MCCredential(auth))
       /\ LET sent == MCRequest(e, auth, args)
              body == IF e.form THEN sent.form ELSE sent.json
              carried == R!ApplyAuth(auth, MCCredential(auth), "query")
          IN  \A n \in DOMAIN args :
                \/ n \in DOMAIN sent.path
                \/ n \in DOMAIN sent.params /\ (n \in DOMAIN carried \/ sent.params[n] = "value")
                \/ body # nobody /\ n \in DOMAIN (IF e.graphql THEN body.variables ELSE body)

(* Whatever the arguments and the service's own headers are called, the        *)
(* credential is on the request as the service wants it.                       *)
ASSUME CredentialArrives ==
  \A e \in MCEndpoints, auth \in MCAuths, args \in MCArgs :
    LET sent == MCRequest(e, auth, args)
        headers == R!ApplyAuth(auth, MCCredential(auth), "header")
        params == R!ApplyAuth(auth, MCCredential(auth), "query")
    IN  /\ \A n \in DOMAIN headers : sent.headers[n] = headers[n]
        /\ \A n \in DOMAIN params : sent.params[n] = params[n]

(* A required argument outside the path is advertised, and not insisted on.     *)
ASSUME RequiredIsAdvice ==
  \E e \in MCEndpoints, args \in MCArgs :
    /\ R!Sends([auth |-> <<"bearer">>], e, args, "secret")
    /\ ~(R!RequiredArgs(e) \subseteq DOMAIN args)

(* guard.py: "the returned object stays under max_bytes including its          *)
(* metadata": so it does when the room reserved for the envelope's own keys     *)
(* fits, and nothing of the preview is written longer; not otherwise.          *)
ASSUME EnvelopeFits ==
  \A size \in 0 .. 20, most \in 5 .. 12, keys \in 2 .. 5 :
    \A guarded \in R!GuardedSizes(size, most, keys, 0) : guarded <= most

ASSUME EnvelopeMayNotFit ==
  /\ \E guarded \in R!GuardedSizes(20, 12, 5, 1) : guarded > 12
  /\ \E guarded \in R!GuardedSizes(20, 3, 4, 0) : guarded > 3
=============================================================================
