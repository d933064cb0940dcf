---------------------------- MODULE RestRequest ----------------------------
(* The request a declared endpoint becomes (hallpass/rest.py) and the bound on *)
(* its answer (hallpass/guard.py).  An endpoint names its path, query and body  *)
(* arguments; the arguments of a call are a function on names.                 *)
LOCAL INSTANCE Naturals
LOCAL INSTANCE TLC

CONSTANT
  NoBody,
  Overhead   \* _ENVELOPE_OVERHEAD

(* Endpoint.input_schema.                                                      *)
Properties(endpoint) == endpoint.path \cup endpoint.query \cup endpoint.body
RequiredArgs(endpoint) == endpoint.path \cup endpoint.required

-----------------------------------------------------------------------------
(* _apply_multi: a triple of a placement, a name and a field of the bundle.     *)
MultiFails(spec, bundle) ==
  \/ bundle.kind # "object"
  \/ \E i \in DOMAIN spec : spec[i][3] \notin DOMAIN bundle.fields \/ spec[i][1] \notin {"header", "query"}

ApplyMulti(spec, bundle, where) ==
  LET mine == {i \in DOMAIN spec : spec[i][1] = where}
      names == {spec[i][2] : i \in mine}
      last(n) == CHOOSE i \in mine : spec[i][2] = n /\ \A j \in mine : spec[j][2] = n => j <= i
  IN  [n \in names |-> bundle.fields[spec[last(n)][3]]]

(* _apply_auth: the headers and the query parameters that carry the credential. *)
Schemes == {"bearer", "token", "bot", "basic"}

AuthFails(auth, credential) ==
  IF auth[1] = "multi" THEN MultiFails(auth[2], credential)
  ELSE auth[1] \notin Schemes \cup {"header", "query", "template"}

ApplyAuth(auth, credential, where) ==
  CASE auth[1] = "multi" -> ApplyMulti(auth[2], credential, where)
    [] auth[1] = "query" -> IF where = "query" THEN auth[2] :> credential ELSE <<>>
    [] auth[1] = "header" -> IF where = "header" THEN auth[2] :> credential ELSE <<>>
    [] OTHER -> IF where = "header" THEN "Authorization" :> <<auth, credential>> ELSE <<>>

-----------------------------------------------------------------------------
(* The handler: what of the arguments goes where; the credential's headers and  *)
(* parameters come last.                                                       *)
Given(args, names) == [n \in names \cap DOMAIN args |-> args[n]]

(* Arguments the path needs are missed before anything is sent, others are not. *)
Sends(service, endpoint, args, credential) ==
  endpoint.path \subseteq DOMAIN args /\ ~AuthFails(service.auth, credential)

Body(endpoint, args) ==
  LET given == Given(args, endpoint.body)
  IN  IF endpoint.graphql THEN [query |-> "document", variables |-> given]
      ELSE IF DOMAIN given = {} THEN NoBody ELSE given

Request(service, endpoint, args, credential) ==
  [path |-> Given(args, endpoint.path),
   headers |-> ApplyAuth(service.auth, credential, "header") @@ service.headers,
   params |-> ApplyAuth(service.auth, credential, "query") @@ Given(args, endpoint.query),
   form |-> IF endpoint.form THEN Body(endpoint, args) ELSE NoBody,
   json |-> IF endpoint.form THEN NoBody ELSE Body(endpoint, args)]

-----------------------------------------------------------------------------
(* guard_response: the answer itself, or an envelope with the start of it.      *)
(* Sizes are in bytes; a character cut in two at the end of the preview goes,   *)
(* and JSON may write a preview longer than it is, by the quotes in it for one. *)
PreviewBudget(most) == IF most > Overhead THEN most - Overhead ELSE 0

EnvelopeSizes(most, keys, escapes) ==
  LET room == PreviewBudget(most)
  IN  {keys + preview + escapes : preview \in {p \in 0 .. room : room - p <= 3}}

GuardedSizes(size, most, keys, escapes) ==
  IF size <= most THEN {size} ELSE EnvelopeSizes(most, keys, escapes)
=============================================================================
