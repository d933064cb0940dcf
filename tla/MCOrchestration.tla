-------------------------- MODULE MCOrchestration --------------------------
(* One orchestrator with either two processes of one worker subject, which     *)
(* share a cursor, and one task, or one such process and two tasks.  Only w2   *)
(* has a handler, for t1.  The channel is the direct one of the two subjects,  *)
(* until its policy is replaced by another pair's.                             *)
EXTENDS Orchestration, TLC, SequencesExt

CONSTANTS o, w1, w2, t1, t2

D == INSTANCE Discovery

MCSubjectOf == [p \in Callers |-> IF p = o THEN "orch" ELSE "worker"]
MCScopesOf == [p \in Callers |-> {D!DirectChannel("orch", "worker").scope}]
MCOpen == D!DirectPolicy(D!DirectChannel("worker", "orch"))
MCClosed == D!DirectPolicy(D!DirectChannel("orch", "other"))
MCPolicies == {MCOpen, MCClosed}
MCFirstPolicy == {MCOpen}
MCAsks == {{t1}}
MCAddressee == [t \in Tasks |-> "worker"]
MCHandles == [w \in Workers |-> IF w = w1 THEN {} ELSE {t1}]
MCCrews == {[workers |-> {w1, w2}, tasks |-> {t1}], [workers |-> {w2}, tasks |-> {t1, t2}]}

-----------------------------------------------------------------------------
(* The language of the messages, on every message of short words.  "z" is a    *)
(* zero-width character, "<<z>>" an escape sequence.                           *)
Hidden == {"z"}
Marker == <<"c", "u", "t">>
F == INSTANCE Flex

UpTo(chars, n) == UNION {[1 .. k -> chars] : k \in 0 .. n}
Words == UpTo({"a", "@", "#", "=", "|", "z", " "}, 2)
Letters == [1 .. 1 -> {"a", "@", "#", "=", "|", "z", " "}]
Notes == UpTo({"a", "|", " "}, 3) \cup UpTo({"z", "\r", "="}, 1)

MCMessages ==
  UNION {[kind : Words, to : {<<>>} \cup [1 .. 1 -> Words], refs : {<<>>},
          fields : {{}}, note : {<<>>, <<"|">>}],
         [kind : {<<"a">>}, to : {<<>>}, refs : {<<>>} \cup [1 .. 1 -> Letters],
          fields : {{<<k, v>>} : k \in Words, v \in Letters}, note : {<<>>, <<"a">>}],
         [kind : {<<"a">>, <<"|">>}, to : {<<>>, << <<"@">> >>}, refs : {<<>>},
          fields : {{<< <<"a">>, <<"b">> >>, <<k, <<"c">> >>} : k \in Words \ {<<"a">>}},
          note : Notes]}

(* What a message must be for parse to give it back: keys that neither start    *)
(* with a mark nor contain "=", nothing the sanitizer would change, and a note  *)
(* without blanks around it.                                                    *)
Clean(w) == \A i \in DOMAIN w : w[i] \notin Hidden \cup {"\r"}

Plain(m) ==
  /\ Clean(m.kind) /\ Clean(m.note) /\ F!Strip(m.note) = m.note
  /\ \A i \in DOMAIN m.to : Clean(m.to[i])
  /\ \A i \in DOMAIN m.refs : Clean(m.refs[i])
  /\ \A f \in m.fields :
       /\ Clean(f[1]) /\ Clean(f[2])
       /\ ~Contains(f[1], "=")
       /\ f[1][1] \notin {"@", "#"}

(* flex.py: "parse(encode(m)) == m for any message encode accepts".  It holds  *)
(* of the plain messages, and of no others.                                    *)
ASSUME RoundTrip ==
  \A m \in {n \in MCMessages : F!Accepts(n)} : F!Parse(F!Encode(m)) = m <=> Plain(m)

(* "any occurrence of the boundary tag inside the text is defanged".           *)
ASSUME FramesHold ==
  \A t \in UpTo({"<", ">", "/", "a", " ", "z", "L"}, 4) :
    LET framed == F!FrameUntrusted(t, "L")
    IN  F!Tags(framed, "L") = {<<1, 3>>, <<Len(framed) - 3, Len(framed)>>}

(* sanitize leaves nothing it removes, and a second pass changes nothing.      *)
ASSUME SanitizeSettles ==
  \A t \in UpTo({"a", "z", "\r", "\n"}, 4) :
    LET clean == F!Sanitize(t)
    IN  Clean(clean) /\ F!Sanitize(clean) = clean

(* "the result is truncated to it with a visible marker": so it is when the    *)
(* marker fits; a text is whole or marked in any case.                         *)
ASSUME TruncationFits ==
  \A t \in UpTo({"a", "z"}, 6), most \in 0 .. 6 :
    LET cut == F!SanitizeTo(t, most)
    IN  /\ cut = F!Sanitize(t) \/ \E k \in 0 .. 6 : cut = SubSeq(F!Sanitize(t), 1, k) \o Marker
        /\ most >= Len(Marker) => Len(cut) <= most
        /\ most < Len(F!Sanitize(t)) /\ most < Len(Marker) => Len(cut) > most

-----------------------------------------------------------------------------
(* Finding workers: every router of up to three workers over two scopes.       *)
MCScopeSets == SUBSET {"read", "write"}
MCRouters ==
  UNION {[harness : [ws -> MCScopeSets], count : 0 .. 3] : ws \in SUBSET (1 .. 3)}

(* route: only to a worker "whose harness covers" the task, to none when there *)
(* is none, and as many routes as there are candidates reach each of them.     *)
ASSUME RoutesSpread ==
  \A router \in MCRouters, wants \in MCScopeSets :
    LET able == D!Candidates(router, wants)
        to == D!Routes(router, [i \in 1 .. Cardinality(able) |-> wants])
    IN  {to[i] : i \in DOMAIN to} = able

(* Routes of other needs in between share the counter: a worker may then be    *)
(* passed over for ever.                                                       *)
ASSUME RoutesMayStick ==
  \E router \in MCRouters, wants, other \in MCScopeSets :
    /\ Cardinality(D!Candidates(router, wants)) = 2
    /\ LET to == D!Routes(router, [i \in 1 .. 8 |-> IF i % 2 = 1 THEN wants ELSE other])
       IN  \A i \in {3, 5, 7} : to[i] = to[1]

(* An agent the channel refuses is neither on the roster nor routed to.        *)
ASSUME JoinsTogether ==
  \A scopes, post \in MCScopeSets, router \in MCRouters :
    LET joined == D!JoinChannel("c" :> [post |-> post, read |-> {}], "c", scopes,
                                <<>>, [router EXCEPT !.harness = <<>>], 1, 5)
    IN  /\ 1 \in D!OnRoster(joined.seen, 5) <=> post \subseteq scopes
        /\ 1 \in D!Candidates(joined.router, {}) <=> post \subseteq scopes

(* "stops heartbeating simply ages off", in the order of the announcements;    *)
(* a delayed one that is written last sets last_seen back.                     *)
ASSUME HeartbeatsStand ==
  \A early, late, since \in 0 .. 3 :
    early <= late =>
      LET write(times) == FoldLeft(LAMBDA seen, t : D!TouchPresence(seen, 1, t), <<>>, times)
      IN  /\ 1 \in D!OnRoster(write(<<early, late>>), since) <=> late >= since
          /\ 1 \in D!OnRoster(write(<<late, early>>), since) <=> early >= since

(* dm.py: "the same pair always resolves to the same channel", and "a third    *)
(* party ... cannot post or read it".                                          *)
ASSUME DmsArePrivate ==
  \A a, b, p, q \in 1 .. 4 :
    (a # b /\ p # q) =>
      LET dm == D!DirectChannel(a, b)
          other == D!DirectChannel(p, q)
          policies == D!OpenDm(<<>>, a, b)
      IN  /\ dm = D!DirectChannel(b, a)
          /\ D!Roster(policies, dm.name, {other.scope}, 7 :> 1, 0) # {}
               <=> {a, b} = {p, q}
=============================================================================
