--------------------------- MODULE CallPathProofs --------------------------
(* For any number of requests in flight, tokens, tools and keys, and whichever *)
(* parts fail: revoked subjects stay out, results stay with their owner, a     *)
(* remembered call is not run again, and whoever is answered is audited.       *)
EXTENDS CallPath, TLAPS

(* What holds of a thread wherever it is: it has a request, past the gate only  *)
(* with a registered tool and at the store only with a key; past the handler it *)
(* carries its own result, and a listing shows only tools its token may call;   *)
(* the history flags mean what they say and bar it from where they should; no   *)
(* event is left before the end of a call.                                      *)
Placed(u) ==
  /\ pc[u] # "idle" => req[u] \in Requests
  /\ pc[u] = "idle" => ~barred[u] /\ ~known[u]
  /\ pc[u] \in {"lookup", "handle", "put", "record"} => req[u].tool \in Tools
  /\ pc[u] \in {"lookup", "put"} => HasKey(u)
  /\ pc[u] \in {"catalog", "rank"} => ~IsCall(u)
Carries(u) ==
  /\ pc[u] \in {"put", "record"} => result[u] = Call(u)
  /\ pc[u] = "returned" /\ IsCall(u) => result[u] = Call(u)
  /\ pc[u] \in {"idle", "verify", "limit", "authorize", "refused"} => result[u] = Nothing
  /\ pc[u] = "put" => ran[Call(u)] > 0
Shows(u) ==
  /\ pc[u] \notin {"rank", "returned", "raised"} => shown[u] = {}
  /\ pc[u] # "idle" => \A n \in shown[u] : Authorized(req[u].token, n)
Barred(u) ==
  barred[u] => Subject(u) \in revoked /\ pc[u] \in {"verify", "refused", "raised"}
Known(u) ==
  known[u] => /\ Call(u) \in Calls /\ memo[Call(u)] # Nothing
              /\ pc[u] \notin {"handle", "put", "record"}
Audited(u) ==
  /\ pc[u] \notin Ends => trail[u] = <<>>
  /\ pc[u] = "returned" => trail[u] \in {<<"replay">>, <<"allow">>, <<"catalog">>}
  /\ pc[u] = "refused" =>
       trail[u] \in {<<"authentication">>, <<"rate_limited">>, <<"not_authorized">>}
ThreadOK(u) ==
  Placed(u) /\ Carries(u) /\ Shows(u) /\ Barred(u) /\ Known(u) /\ Audited(u)

(* What is remembered under a call is its own result, of a run that succeeded. *)
MemoOK == \A c \in Calls : memo[c] # Nothing => memo[c] = c /\ ran[c] > 0

Inv == TypeOK /\ MemoOK /\ \A u \in Threads : ThreadOK(u)

USE TokenAssumption, NoKeyAssumption, CatalogAssumption, BoundAssumption, NothingAssumption
USE DEF shared, requests, history, vars, Ends, At

LEMMA SubjectsOK == \A tok \in Tokens : SubjectOf[tok] \in Subjects
  BY DEF Subjects

LEMMA CallsOK ==
  ASSUME NEW th \in Threads, req[th] \in Requests
  PROVE  /\ Subject(th) \in Subjects
         /\ req[th].tool \in Tools => Call(th) \in Results
         /\ req[th].tool \in Tools /\ HasKey(th) => Call(th) \in Calls
  BY SubjectsOK DEF Requests, Subject, Call, Calls, Results, HasKey

(* Where a thread is after Goto and Audit, and that no other thread has moved. *)
LEMMA GotoMoves ==
  ASSUME TypeOK, NEW th \in Threads, NEW l \in PCs, Goto(th, l)
  PROVE  /\ pc' \in [Threads -> PCs] /\ pc'[th] = l
         /\ \A u \in Threads \ {th} : pc'[u] = pc[u]
<1>1. pc \in [Threads -> PCs]  BY DEF TypeOK
<1> QED  BY <1>1 DEF Goto

LEMMA AuditMoves ==
  ASSUME TypeOK, NEW th \in Threads, NEW e \in Events, NEW l \in PCs, Audit(th, e, l)
  PROVE  /\ pc' \in [Threads -> PCs] /\ trail' \in [Threads -> Seq(Events)]
         /\ \A u \in Threads \ {th} : pc'[u] = pc[u] /\ trail'[u] = trail[u]
         /\ \/ pc'[th] = l /\ trail'[th] = Append(trail[th], e)
            \/ pc'[th] = "raised" /\ trail'[th] = trail[th]
<1>1. trail \in [Threads -> Seq(Events)]  BY DEF TypeOK
<1>2. CASE Goto(th, l) /\ trail' = [trail EXCEPT ![th] = Append(@, e)]
  BY <1>1, <1>2, GotoMoves
<1>3. CASE Goto(th, "raised") /\ UNCHANGED trail
  <2>1. "raised" \in PCs  BY DEF PCs
  <2> QED  BY <1>1, <1>3, <2>1, GotoMoves
<1> QED  BY <1>2, <1>3 DEF Audit

LEMMA Labels ==
  /\ PCs = {"idle", "verify", "limit", "authorize", "lookup", "handle", "put", "record",
            "catalog", "rank", "returned", "refused", "upstream", "raised"}
  /\ Events = {"authentication", "rate_limited", "not_authorized", "replay", "allow",
                "catalog"}
  BY DEF PCs, Events

(* A thread that does not move keeps what holds of it, as long as the shared   *)
(* state it relies on is kept.                                                 *)
LEMMA Frame ==
  ASSUME NEW u \in Threads, ThreadOK(u),
         pc'[u] = pc[u], req'[u] = req[u], result'[u] = result[u], shown'[u] = shown[u],
         trail'[u] = trail[u],
         barred'[u] => barred[u] /\ Subject(u) \in revoked',
         known'[u] => known[u] /\ memo'[Call(u)] # Nothing,
         pc[u] = "put" => ran'[Call(u)] > 0
  PROVE  ThreadOK(u)'
  BY DEF ThreadOK, Placed, Carries, Shows, Barred, Known, Audited, Call, Subject, HasKey, IsCall

(* The other threads, when th takes a step inside its call. *)
LEMMA Others ==
  ASSUME Inv, NEW th \in Threads, NEW u \in Threads \ {th},
         pc'[u] = pc[u], req' = req, result'[u] = result[u], shown'[u] = shown[u],
         trail'[u] = trail[u],
         UNCHANGED <<revoked, barred, known>>,
         \A c \in Calls : memo[c] # Nothing => memo'[c] # Nothing,
         \A c \in Calls : ran[c] > 0 => ran'[c] > 0
  PROVE  ThreadOK(u)'
<1>1. ThreadOK(u)  BY DEF Inv
<1>2. pc[u] = "put" => Call(u) \in Calls
  BY <1>1, CallsOK DEF ThreadOK, Placed
<1>3. pc[u] = "put" => ran'[Call(u)] > 0
  BY <1>1, <1>2 DEF ThreadOK, Carries
<1>4. barred'[u] => barred[u] /\ Subject(u) \in revoked'
  BY <1>1 DEF ThreadOK, Barred
<1>5. known'[u] => known[u] /\ memo'[Call(u)] # Nothing
  BY <1>1 DEF ThreadOK, Known
<1> QED  BY <1>1, <1>3, <1>4, <1>5, Frame

LEMMA InitInv == Init => Inv
  BY DEF Init, Inv, TypeOK, PCs, ThreadOK, Placed, Carries, Shows, Barred, Known, Audited, MemoOK,
         Calls, Events

LEMMA VerifyInv ==
  ASSUME Inv, NEW th \in Threads, Verify(th)
  PROVE  Inv'
<1>1. TypeOK /\ ThreadOK(th) /\ MemoOK  BY DEF Inv
<1>2. /\ pc' \in [Threads -> PCs] /\ trail' \in [Threads -> Seq(Events)]
      /\ \A u \in Threads \ {th} : pc'[u] = pc[u] /\ trail'[u] = trail[u]
      /\ \/ /\ Verifies(req[th].token) /\ trail'[th] = trail[th]
            /\ pc'[th] = IF IsCall(th) THEN "limit" ELSE "catalog"
         \/ pc'[th] = "refused" /\ trail'[th] = Append(trail[th], "authentication")
         \/ pc'[th] = "raised" /\ trail'[th] = trail[th]
  <2>1. CASE /\ Verifies(req[th].token)
             /\ Goto(th, IF IsCall(th) THEN "limit" ELSE "catalog") /\ UNCHANGED trail
    <3>1. (IF IsCall(th) THEN "limit" ELSE "catalog") \in PCs  BY Labels
    <3> QED  BY <1>1, <2>1, <3>1, GotoMoves DEF TypeOK
  <2>2. CASE Audit(th, "authentication", "refused")
    BY <1>1, <2>2, AuditMoves, Labels
  <2> QED  BY <2>1, <2>2 DEF Verify
<1>3. TypeOK'  BY <1>1, <1>2 DEF TypeOK, Verify
<1>4. MemoOK'  BY <1>1 DEF MemoOK, Verify
<1>5. ThreadOK(th)'
  <2>1. At(th, "verify") /\ trail[th] = <<>>  BY <1>1 DEF ThreadOK, Audited, Verify
  <2>2. Append(trail[th], "authentication") = <<"authentication">>  BY <2>1
  <2> QED
    BY <1>1, <1>2, <2>1, <2>2
    DEF ThreadOK, Placed, Carries, Shows, Barred, Known, Audited, Verify, Verifies,
        Call, Subject, HasKey, IsCall
<1>6. ASSUME NEW u \in Threads \ {th}  PROVE ThreadOK(u)'
  <2>1. \A c \in Calls : ran'[c] = ran[c]  BY DEF Verify
  <2> QED  BY <1>2, <2>1, Others DEF Verify
<1> QED  BY <1>3, <1>4, <1>5, <1>6 DEF Inv

LEMMA LimitInv ==
  ASSUME Inv, NEW th \in Threads, Limit(th)
  PROVE  Inv'
<1>1. TypeOK /\ ThreadOK(th) /\ MemoOK  BY DEF Inv
<1>2. req[th] \in Requests /\ Subject(th) \in Subjects
  BY <1>1, CallsOK DEF ThreadOK, Placed, Limit
<1>3. /\ pc' \in [Threads -> PCs] /\ trail' \in [Threads -> Seq(Events)]
      /\ \A u \in Threads \ {th} : pc'[u] = pc[u] /\ trail'[u] = trail[u]
      /\ \/ pc'[th] = "authorize" /\ trail'[th] = trail[th]
         \/ pc'[th] = "refused" /\ trail'[th] = Append(trail[th], "rate_limited")
         \/ pc'[th] = "raised" /\ trail'[th] = trail[th]
  <2>1. CASE Goto(th, "authorize") /\ UNCHANGED trail
    BY <1>1, <2>1, GotoMoves, Labels DEF TypeOK
  <2>2. CASE Audit(th, "rate_limited", "refused")
    BY <1>1, <2>2, AuditMoves, Labels
  <2> QED  BY <2>1, <2>2 DEF Limit
<1>4. spent' \in [Subjects -> 0 .. Budget]
  <2>1. spent \in [Subjects -> 0 .. Budget] /\ Budget \in Nat  BY <1>1 DEF TypeOK
  <2>2. CASE /\ spent[Subject(th)] < Budget
             /\ spent' = [spent EXCEPT ![Subject(th)] = @ + 1]
    <3>1. spent[Subject(th)] + 1 \in 0 .. Budget  BY <1>2, <2>1, <2>2
    <3> QED  BY <1>2, <2>1, <2>2, <3>1
  <2>3. CASE UNCHANGED spent  BY <2>1, <2>3
  <2> QED  BY <2>2, <2>3 DEF Limit
<1>5. TypeOK'  BY <1>1, <1>3, <1>4 DEF TypeOK, Limit
<1>6. MemoOK'  BY <1>1 DEF MemoOK, Limit
<1>7. ThreadOK(th)'
  <2>1. At(th, "limit") /\ trail[th] = <<>>  BY <1>1 DEF ThreadOK, Audited, Limit
  <2>2. Append(trail[th], "rate_limited") = <<"rate_limited">>  BY <2>1
  <2> QED
    BY <1>1, <1>3, <2>1, <2>2
    DEF ThreadOK, Placed, Carries, Shows, Barred, Known, Audited, Limit,
        Call, Subject, HasKey, IsCall
<1>8. ASSUME NEW u \in Threads \ {th}  PROVE ThreadOK(u)'
  <2>1. \A c \in Calls : ran'[c] = ran[c]  BY DEF Limit
  <2> QED  BY <1>3, <2>1, Others DEF Limit
<1> QED  BY <1>5, <1>6, <1>7, <1>8 DEF Inv

LEMMA AuthorizeInv ==
  ASSUME Inv, NEW th \in Threads, Authorize(th)
  PROVE  Inv'
<1>1. TypeOK /\ ThreadOK(th) /\ MemoOK  BY DEF Inv
<1>2. /\ pc' \in [Threads -> PCs] /\ trail' \in [Threads -> Seq(Events)]
      /\ \A u \in Threads \ {th} : pc'[u] = pc[u] /\ trail'[u] = trail[u]
      /\ \/ /\ req[th].tool \in Tools
            /\ pc'[th] = IF HasKey(th) THEN "lookup" ELSE "handle"
            /\ trail'[th] = trail[th]
         \/ pc'[th] = "refused" /\ trail'[th] = Append(trail[th], "not_authorized")
         \/ pc'[th] = "raised" /\ trail'[th] = trail[th]
  <2>1. CASE /\ Authorized(req[th].token, req[th].tool)
             /\ Goto(th, IF HasKey(th) THEN "lookup" ELSE "handle") /\ UNCHANGED trail
    <3>1. (IF HasKey(th) THEN "lookup" ELSE "handle") \in PCs  BY Labels
    <3> QED  BY <1>1, <2>1, <3>1, GotoMoves DEF TypeOK, Authorized
  <2>2. CASE Audit(th, "not_authorized", "refused")
    BY <1>1, <2>2, AuditMoves, Labels
  <2> QED  BY <2>1, <2>2 DEF Authorize
<1>3. TypeOK'  BY <1>1, <1>2 DEF TypeOK, Authorize
<1>4. MemoOK'  BY <1>1 DEF MemoOK, Authorize
<1>5. ThreadOK(th)'
  <2>1. At(th, "authorize") /\ trail[th] = <<>>  BY <1>1 DEF ThreadOK, Audited, Authorize
  <2>2. Append(trail[th], "not_authorized") = <<"not_authorized">>  BY <2>1
  <2>3. known[th] => HasKey(th)
    BY <1>1 DEF ThreadOK, Known, Call, Calls, HasKey
  <2> QED
    BY <1>1, <1>2, <2>1, <2>2, <2>3
    DEF ThreadOK, Placed, Carries, Shows, Barred, Known, Audited, Authorize,
        Call, Subject, HasKey, IsCall
<1>6. ASSUME NEW u \in Threads \ {th}  PROVE ThreadOK(u)'
  <2>1. \A c \in Calls : ran'[c] = ran[c]  BY DEF Authorize
  <2> QED  BY <1>2, <2>1, Others DEF Authorize
<1> QED  BY <1>3, <1>4, <1>5, <1>6 DEF Inv

LEMMA LookupInv ==
  ASSUME Inv, NEW th \in Threads, Lookup(th)
  PROVE  Inv'
<1>1. TypeOK /\ ThreadOK(th) /\ MemoOK  BY DEF Inv
<1>2. Call(th) \in Calls /\ Call(th) \in Results
  BY <1>1, CallsOK DEF ThreadOK, Placed, Lookup
<1>3. /\ pc' \in [Threads -> PCs] /\ trail' \in [Threads -> Seq(Events)]
      /\ result' \in [Threads -> Results \cup {Nothing}]
      /\ \A u \in Threads \ {th} :
           pc'[u] = pc[u] /\ trail'[u] = trail[u] /\ result'[u] = result[u]
      /\ \/ /\ pc'[th] = "returned" /\ result'[th] = Call(th)
            /\ trail'[th] = Append(trail[th], "replay")
         \/ memo[Call(th)] = Nothing /\ pc'[th] = "handle" /\ trail'[th] = trail[th]
         \/ pc'[th] = "raised" /\ trail'[th] = trail[th]
  <2>1. CASE /\ memo[Call(th)] # Nothing
             /\ result' = [result EXCEPT ![th] = memo[Call(th)]]
             /\ Audit(th, "replay", "returned")
    <3>1. memo[Call(th)] = Call(th)  BY <1>1, <1>2, <2>1 DEF MemoOK
    <3>2. result \in [Threads -> Results \cup {Nothing}]  BY <1>1 DEF TypeOK
    <3>3. /\ result' \in [Threads -> Results \cup {Nothing}] /\ result'[th] = Call(th)
          /\ \A u \in Threads \ {th} : result'[u] = result[u]
      BY <1>2, <2>1, <3>1, <3>2
    <3> QED  BY <1>1, <2>1, <3>3, AuditMoves, Labels
  <2>2. CASE memo[Call(th)] = Nothing /\ Goto(th, "handle") /\ UNCHANGED <<result, trail>>
    BY <1>1, <2>2, GotoMoves, Labels DEF TypeOK
  <2>3. CASE Goto(th, "raised") /\ UNCHANGED <<result, trail>>
    BY <1>1, <2>3, GotoMoves, Labels DEF TypeOK
  <2> QED  BY <2>1, <2>2, <2>3 DEF Lookup
<1>4. TypeOK'  BY <1>1, <1>3 DEF TypeOK, Lookup
<1>5. MemoOK'  BY <1>1 DEF MemoOK, Lookup
<1>6. ThreadOK(th)'
  <2>1. At(th, "lookup") /\ trail[th] = <<>>  BY <1>1 DEF ThreadOK, Audited, Lookup
  <2>2. Append(trail[th], "replay") = <<"replay">>  BY <2>1
  <2> QED
    BY <1>1, <1>3, <2>1, <2>2
    DEF ThreadOK, Placed, Carries, Shows, Barred, Known, Audited, Lookup,
        Call, Subject, HasKey, IsCall
<1>7. ASSUME NEW u \in Threads \ {th}  PROVE ThreadOK(u)'
  <2>1. \A c \in Calls : ran'[c] = ran[c]  BY DEF Lookup
  <2> QED  BY <1>3, <2>1, Others DEF Lookup
<1> QED  BY <1>4, <1>5, <1>6, <1>7 DEF Inv

LEMMA HandleInv ==
  ASSUME Inv, NEW th \in Threads, Handle(th)
  PROVE  Inv'
<1>1. TypeOK /\ ThreadOK(th) /\ MemoOK  BY DEF Inv
<1>2. /\ Call(th) \in Results /\ (HasKey(th) => Call(th) \in Calls)
      /\ ran \in [Calls -> Nat] /\ result \in [Threads -> Results \cup {Nothing}]
  BY <1>1, CallsOK DEF ThreadOK, Placed, Handle, TypeOK
<1>3. /\ pc' \in [Threads -> PCs]
      /\ result' \in [Threads -> Results \cup {Nothing}]
      /\ ran' \in [Calls -> Nat] /\ \A c \in Calls : ran'[c] >= ran[c]
      /\ \A u \in Threads \ {th} : pc'[u] = pc[u] /\ result'[u] = result[u]
      /\ \/ /\ pc'[th] = IF HasKey(th) THEN "put" ELSE "record"
            /\ result'[th] = Call(th)
            /\ HasKey(th) => ran'[Call(th)] > 0
         \/ pc'[th] \in {"raised", "upstream"} /\ UNCHANGED result
  <2>1. CASE /\ result' = [result EXCEPT ![th] = Call(th)]
             /\ ran' = IF HasKey(th) THEN [ran EXCEPT ![Call(th)] = @ + 1] ELSE ran
             /\ Goto(th, IF HasKey(th) THEN "put" ELSE "record")
    <3>1. (IF HasKey(th) THEN "put" ELSE "record") \in PCs  BY Labels
    <3>2. /\ pc' \in [Threads -> PCs] /\ pc'[th] = IF HasKey(th) THEN "put" ELSE "record"
          /\ \A u \in Threads \ {th} : pc'[u] = pc[u]
      BY <1>1, <2>1, <3>1, GotoMoves
    <3>3. /\ result' \in [Threads -> Results \cup {Nothing}] /\ result'[th] = Call(th)
          /\ \A u \in Threads \ {th} : result'[u] = result[u]
      BY <1>2, <2>1
    <3>4. /\ ran' \in [Calls -> Nat] /\ \A c \in Calls : ran'[c] >= ran[c]
          /\ HasKey(th) => ran'[Call(th)] > 0
      BY <1>2, <2>1
    <3> QED  BY <3>2, <3>3, <3>4
  <2>2. ASSUME NEW end \in {"raised", "upstream"}, Goto(th, end), UNCHANGED <<result, ran>>
        PROVE  /\ pc' \in [Threads -> PCs]
               /\ \A u \in Threads \ {th} : pc'[u] = pc[u]
               /\ pc'[th] \in {"raised", "upstream"}
    BY <1>1, <2>2, GotoMoves, Labels
  <2> QED  BY <1>2, <2>1, <2>2 DEF Handle
<1>4. TypeOK'  BY <1>1, <1>3 DEF TypeOK, Handle
<1>5. MemoOK'
  <2>1. \A c \in Calls : ran[c] \in Nat /\ ran'[c] \in Nat /\ ran'[c] >= ran[c]
    BY <1>2, <1>3
  <2> QED  BY <1>1, <2>1 DEF MemoOK, Handle
<1>6. ThreadOK(th)'
  <2>1. At(th, "handle") /\ ~known[th] /\ UNCHANGED trail
    BY <1>1 DEF ThreadOK, Known, Handle
  <2> QED
    BY <1>1, <1>3, <2>1
    DEF ThreadOK, Placed, Carries, Shows, Barred, Known, Audited, Handle,
        Call, Subject, HasKey, IsCall
<1>7. ASSUME NEW u \in Threads \ {th}  PROVE ThreadOK(u)'
  <2>1. \A c \in Calls : ran[c] \in Nat /\ ran'[c] \in Nat /\ ran'[c] >= ran[c]
    BY <1>2, <1>3
  <2> QED  BY <1>3, <2>1, Others DEF Handle
<1> QED  BY <1>4, <1>5, <1>6, <1>7 DEF Inv

LEMMA PutInv ==
  ASSUME Inv, NEW th \in Threads, Put(th)
  PROVE  Inv'
<1>1. TypeOK /\ ThreadOK(th) /\ MemoOK  BY DEF Inv
<1>2. /\ Call(th) \in Calls /\ Call(th) \in Results /\ ran[Call(th)] > 0
      /\ result[th] = Call(th) /\ memo \in [Calls -> Results \cup {Nothing}]
  BY <1>1, CallsOK DEF ThreadOK, Placed, Carries, Put, TypeOK
<1>3. /\ memo' \in [Calls -> Results \cup {Nothing}]
      /\ \/ memo' = memo
         \/ memo'[Call(th)] = Call(th) /\ \A c \in Calls \ {Call(th)} : memo'[c] = memo[c]
  BY <1>2 DEF Put
<1>4. /\ pc' \in [Threads -> PCs] /\ pc'[th] \in {"record", "raised"}
      /\ \A u \in Threads \ {th} : pc'[u] = pc[u]
  BY <1>1, GotoMoves, Labels DEF Put
<1>5. TypeOK'  BY <1>1, <1>3, <1>4 DEF TypeOK, Put
<1>6. MemoOK'  BY <1>1, <1>2, <1>3 DEF MemoOK, Put
<1>7. ThreadOK(th)'
  <2>1. At(th, "put") /\ ~known[th]  BY <1>1 DEF ThreadOK, Known, Put
  <2> QED
    BY <1>1, <1>4, <2>1
    DEF ThreadOK, Placed, Carries, Shows, Barred, Known, Audited, Put,
        Call, Subject, HasKey, IsCall
<1>8. ASSUME NEW u \in Threads \ {th}  PROVE ThreadOK(u)'
  <2>1. \A c \in Calls : ran'[c] = ran[c]  BY DEF Put
  <2>2. \A c \in Calls : memo[c] # Nothing => memo'[c] # Nothing
    BY <1>2, <1>3, Nothing # Call(th)
  <2> QED  BY <1>4, <2>1, <2>2, Others DEF Put
<1> QED  BY <1>5, <1>6, <1>7, <1>8 DEF Inv

LEMMA RecordInv ==
  ASSUME Inv, NEW th \in Threads, Record(th)
  PROVE  Inv'
<1>1. TypeOK /\ ThreadOK(th) /\ MemoOK  BY DEF Inv
<1>2. /\ pc' \in [Threads -> PCs] /\ trail' \in [Threads -> Seq(Events)]
      /\ \A u \in Threads \ {th} : pc'[u] = pc[u] /\ trail'[u] = trail[u]
      /\ \/ pc'[th] = "returned" /\ trail'[th] = Append(trail[th], "allow")
         \/ pc'[th] = "raised" /\ trail'[th] = trail[th]
  BY <1>1, AuditMoves, Labels DEF Record
<1>3. TypeOK'  BY <1>1, <1>2 DEF TypeOK, Record
<1>4. MemoOK'  BY <1>1 DEF MemoOK, Record
<1>5. ThreadOK(th)'
  <2>1. At(th, "record") /\ trail[th] = <<>>  BY <1>1 DEF ThreadOK, Audited, Record
  <2>2. Append(trail[th], "allow") = <<"allow">>  BY <2>1
  <2> QED
    BY <1>1, <1>2, <2>1, <2>2
    DEF ThreadOK, Placed, Carries, Shows, Barred, Known, Audited, Record,
        Call, Subject, HasKey, IsCall
<1>6. ASSUME NEW u \in Threads \ {th}  PROVE ThreadOK(u)'
  <2>1. \A c \in Calls : ran'[c] = ran[c]  BY DEF Record
  <2> QED  BY <1>2, <2>1, Others DEF Record
<1> QED  BY <1>3, <1>4, <1>5, <1>6 DEF Inv

(* What a listing or a search shows of the tools its token may call. *)
LEMMA ShowsInv ==
  ASSUME Inv, NEW th \in Threads, pc[th] \in {"catalog", "rank"},
         NEW S \in SUBSET Grants(req[th].token),
         shown' = [shown EXCEPT ![th] = S],
         \/ pc[th] = "catalog" /\ Goto(th, "rank") /\ UNCHANGED trail
         \/ Audit(th, "catalog", "returned"),
         UNCHANGED <<shared, req, result, left, history>>
  PROVE  Inv'
<1>1. TypeOK /\ ThreadOK(th) /\ MemoOK  BY DEF Inv
<1>2. /\ pc' \in [Threads -> PCs] /\ trail' \in [Threads -> Seq(Events)]
      /\ \A u \in Threads \ {th} : pc'[u] = pc[u] /\ trail'[u] = trail[u]
      /\ \/ pc'[th] = "rank" /\ trail'[th] = trail[th]
         \/ pc'[th] = "returned" /\ trail'[th] = Append(trail[th], "catalog")
         \/ pc'[th] = "raised" /\ trail'[th] = trail[th]
  <2>1. CASE Goto(th, "rank") /\ UNCHANGED trail
    BY <1>1, <2>1, GotoMoves, Labels DEF TypeOK
  <2>2. CASE Audit(th, "catalog", "returned")
    BY <1>1, <2>2, AuditMoves, Labels
  <2> QED  BY <2>1, <2>2
<1>3. /\ shown' \in [Threads -> SUBSET Tools] /\ shown'[th] = S
      /\ \A u \in Threads \ {th} : shown'[u] = shown[u]
  BY <1>1 DEF TypeOK, Grants
<1>4. TypeOK'  BY <1>1, <1>2, <1>3 DEF TypeOK
<1>5. MemoOK'  BY <1>1 DEF MemoOK
<1>6. ThreadOK(th)'
  <2>1. trail[th] = <<>>  BY <1>1 DEF ThreadOK, Audited
  <2>2. Append(trail[th], "catalog") = <<"catalog">>  BY <2>1
  <2>3. \A n \in S : Authorized(req[th].token, n)  BY DEF Grants
  <2> QED
    BY <1>1, <1>2, <1>3, <2>1, <2>2, <2>3
    DEF ThreadOK, Placed, Carries, Shows, Barred, Known, Audited, Call, Subject, HasKey, IsCall
<1>7. ASSUME NEW u \in Threads \ {th}  PROVE ThreadOK(u)'
  BY <1>2, <1>3, Others
<1> QED  BY <1>4, <1>5, <1>6, <1>7 DEF Inv

LEMMA CatalogInv ==
  ASSUME Inv, NEW th \in Threads, Catalog(th)
  PROVE  Inv'
  BY ShowsInv DEF Catalog

LEMMA RankInv ==
  ASSUME Inv, NEW th \in Threads, Rank(th)
  PROVE  Inv'
<1>1. TypeOK /\ ThreadOK(th) /\ MemoOK  BY DEF Inv
<1>2. shown[th] \in SUBSET Grants(req[th].token)
  BY <1>1 DEF ThreadOK, Shows, Grants, TypeOK, Rank
<1>3. CASE Goto(th, "raised") /\ UNCHANGED <<shown, trail>>
  <2>1. /\ pc' \in [Threads -> PCs] /\ pc'[th] = "raised"
        /\ \A u \in Threads \ {th} : pc'[u] = pc[u]
    BY <1>1, <1>3, GotoMoves, Labels
  <2>2. TypeOK' /\ MemoOK'  BY <1>1, <1>3, <2>1 DEF TypeOK, MemoOK, Rank
  <2>3. ThreadOK(th)'
    BY <1>1, <1>3, <2>1
    DEF ThreadOK, Placed, Carries, Shows, Barred, Known, Audited, Rank,
        Call, Subject, HasKey, IsCall
  <2>4. ASSUME NEW u \in Threads \ {th}  PROVE ThreadOK(u)'
    BY <1>3, <2>1, Others DEF Rank
  <2> QED  BY <2>2, <2>3, <2>4 DEF Inv
<1>4. ASSUME NEW hits \in SUBSET Names,
             shown' = [shown EXCEPT ![th] = hits \cap shown[th]],
             Audit(th, "catalog", "returned")
      PROVE  Inv'
  <2>1. hits \cap shown[th] \in SUBSET Grants(req[th].token)  BY <1>2
  <2> QED  BY <1>4, <2>1, ShowsInv DEF Rank
<1> QED  BY <1>3, <1>4 DEF Rank

LEMMA ArriveInv ==
  ASSUME Inv, NEW th \in Threads, NEW r \in Requests, Arrive(th, r)
  PROVE  Inv'
<1>1. TypeOK /\ ThreadOK(th) /\ MemoOK  BY DEF Inv
<1>2. /\ pc' \in [Threads -> PCs] /\ pc'[th] = "verify"
      /\ \A u \in Threads \ {th} : pc'[u] = pc[u]
  BY <1>1, GotoMoves, Labels DEF Arrive
<1>3. /\ req' \in [Threads -> Requests \cup {Nothing}] /\ req'[th] = r
      /\ \A u \in Threads \ {th} : req'[u] = req[u]
  BY <1>1 DEF TypeOK, Arrive
<1>4. /\ barred' \in [Threads -> BOOLEAN]
      /\ barred'[th] = (SubjectOf[r.token] \in revoked)
      /\ \A u \in Threads \ {th} : barred'[u] = barred[u]
  <2>1. barred \in [Threads -> BOOLEAN]  BY <1>1 DEF TypeOK
  <2>2. barred' = [barred EXCEPT ![th] = SubjectOf[r.token] \in revoked]  BY DEF Arrive
  <2>3. (SubjectOf[r.token] \in revoked) \in BOOLEAN  OBVIOUS
  <2>4. barred' \in [Threads -> BOOLEAN]  BY <2>1, <2>2, <2>3
  <2>5. barred'[th] = (SubjectOf[r.token] \in revoked)  BY <2>1, <2>2
  <2>6. \A u \in Threads \ {th} : barred'[u] = barred[u]  BY <2>1, <2>2
  <2> QED  BY <2>4, <2>5, <2>6, Zenon
<1> DEFINE c == <<SubjectOf[r.token], r.tool, r.key>>
<1>6. /\ known' \in [Threads -> BOOLEAN]
      /\ known'[th] = (c \in Calls /\ memo[c] # Nothing)
      /\ \A u \in Threads \ {th} : known'[u] = known[u]
  BY <1>1, Zenon DEF TypeOK, Arrive
<1>7. left' \in 0 .. MaxRequests  BY <1>1 DEF TypeOK, Arrive
<1>8. TypeOK'  BY <1>1, <1>2, <1>3, <1>4, <1>6, <1>7 DEF TypeOK, Arrive
<1>9. MemoOK'  BY <1>1 DEF MemoOK, Arrive
<1>10. ThreadOK(th)'
  <2>1. Call(th)' = c /\ Subject(th)' = SubjectOf[r.token]  BY <1>3 DEF Call, Subject
  <2>2. trail[th] = <<>> /\ UNCHANGED <<trail, revoked, memo>>
    BY <1>1 DEF ThreadOK, Audited, Arrive
  <2>3. result'[th] = Nothing /\ shown'[th] = {}
    BY <1>1 DEF ThreadOK, Carries, Shows, Arrive
  <2> QED
    BY <1>2, <1>3, <1>4, <1>6, <2>1, <2>2, <2>3
    DEF ThreadOK, Placed, Carries, Shows, Barred, Known, Audited
<1>11. ASSUME NEW u \in Threads \ {th}  PROVE ThreadOK(u)'
  <2>1. ThreadOK(u)  BY DEF Inv
  <2> QED
    BY <1>2, <1>3, <1>4, <1>6, <2>1, Frame DEF Arrive, ThreadOK, Carries, Barred, Known
<1> QED  BY <1>8, <1>9, <1>10, <1>11 DEF Inv

LEMMA ForgetInv ==
  ASSUME Inv, NEW th \in Threads, Forget(th)
  PROVE  Inv'
<1>1. TypeOK /\ ThreadOK(th) /\ MemoOK  BY DEF Inv
<1>2. /\ pc' \in [Threads -> PCs] /\ pc'[th] = "idle"
      /\ \A u \in Threads \ {th} : pc'[u] = pc[u]
  BY <1>1, GotoMoves, Labels DEF Forget
<1>3. /\ req' \in [Threads -> Requests \cup {Nothing}]
      /\ result' \in [Threads -> Results \cup {Nothing}] /\ result'[th] = Nothing
      /\ shown' \in [Threads -> SUBSET Tools] /\ shown'[th] = {}
      /\ \A u \in Threads \ {th} :
           req'[u] = req[u] /\ result'[u] = result[u] /\ shown'[u] = shown[u]
  BY <1>1 DEF TypeOK, Forget
<1>4. /\ trail' \in [Threads -> Seq(Events)] /\ trail'[th] = <<>>
      /\ \A u \in Threads \ {th} : trail'[u] = trail[u]
  <2>1. <<>> \in Seq(Events) /\ trail \in [Threads -> Seq(Events)]  BY <1>1 DEF TypeOK
  <2> QED  BY <2>1 DEF Forget
<1>5. /\ barred' \in [Threads -> BOOLEAN] /\ known' \in [Threads -> BOOLEAN]
      /\ ~barred'[th] /\ ~known'[th]
      /\ \A u \in Threads \ {th} : barred'[u] = barred[u] /\ known'[u] = known[u]
  BY <1>1 DEF TypeOK, Forget
<1>6. TypeOK'  BY <1>1, <1>2, <1>3, <1>4, <1>5 DEF TypeOK, Forget
<1>7. MemoOK'  BY <1>1 DEF MemoOK, Forget
<1>8. ThreadOK(th)'
  BY <1>2, <1>3, <1>4, <1>5 DEF ThreadOK, Placed, Carries, Shows, Barred, Known, Audited
<1>9. ASSUME NEW u \in Threads \ {th}  PROVE ThreadOK(u)'
  <2>1. ThreadOK(u)  BY DEF Inv
  <2> QED
    BY <1>2, <1>3, <1>4, <1>5, <2>1, Frame DEF Forget, ThreadOK, Carries, Barred, Known
<1> QED  BY <1>6, <1>7, <1>8, <1>9 DEF Inv

(* What happens around the requests. *)
LEMMA AroundInv ==
  ASSUME Inv, UNCHANGED <<requests, ran>>,
         \/ \E s \in Subjects : Revoke(s) \/ Restore(s) \/ WindowMoves(s)
         \/ \E c \in Calls : Expire(c)
  PROVE  Inv'
<1>1. TypeOK /\ MemoOK /\ \A u \in Threads : ThreadOK(u)  BY DEF Inv
<1>2. ASSUME NEW s \in Subjects, Revoke(s)  PROVE Inv'
  <2>1. TypeOK'  BY <1>1, <1>2 DEF TypeOK, Revoke
  <2>2. MemoOK'  BY <1>1, <1>2 DEF MemoOK, Revoke
  <2>3. ASSUME NEW u \in Threads  PROVE ThreadOK(u)'
    BY <1>1, <1>2, Frame DEF Revoke, ThreadOK, Carries, Barred, Known
  <2> QED  BY <2>1, <2>2, <2>3 DEF Inv
<1>3. ASSUME NEW s \in Subjects, Restore(s)  PROVE Inv'
  <2>1. barred' \in [Threads -> BOOLEAN]
        /\ \A u \in Threads : barred'[u] => barred[u] /\ Subject(u) # s
    BY <1>1, <1>3 DEF TypeOK, Restore
  <2>2. TypeOK'  BY <1>1, <1>3, <2>1 DEF TypeOK, Restore
  <2>3. MemoOK'  BY <1>1, <1>3 DEF MemoOK, Restore
  <2>4. ASSUME NEW u \in Threads  PROVE ThreadOK(u)'
    BY <1>1, <1>3, <2>1, Frame DEF Restore, ThreadOK, Carries, Barred, Known
  <2> QED  BY <2>2, <2>3, <2>4 DEF Inv
<1>4. ASSUME NEW s \in Subjects, WindowMoves(s)  PROVE Inv'
  <2>1. TypeOK'  BY <1>1, <1>4 DEF TypeOK, WindowMoves
  <2>2. MemoOK'  BY <1>1, <1>4 DEF MemoOK, WindowMoves
  <2>3. ASSUME NEW u \in Threads  PROVE ThreadOK(u)'
    BY <1>1, <1>4, Frame DEF WindowMoves, ThreadOK, Carries, Barred, Known
  <2> QED  BY <2>1, <2>2, <2>3 DEF Inv
<1>5. ASSUME NEW c \in Calls, Expire(c)  PROVE Inv'
  <2>1. known' \in [Threads -> BOOLEAN]
        /\ \A u \in Threads : known'[u] => known[u] /\ Call(u) # c
    BY <1>1, <1>5 DEF TypeOK, Expire
  <2>2. /\ memo' \in [Calls -> Results \cup {Nothing}] /\ memo'[c] = Nothing
        /\ \A d \in Calls \ {c} : memo'[d] = memo[d]
    BY <1>1, <1>5 DEF TypeOK, Expire
  <2>3. TypeOK'  BY <1>1, <1>5, <2>1, <2>2 DEF TypeOK, Expire
  <2>4. MemoOK'  BY <1>1, <1>5, <2>2 DEF MemoOK, Expire
  <2>5. ASSUME NEW u \in Threads  PROVE ThreadOK(u)'
    BY <1>1, <1>5, <2>1, <2>2, Frame DEF Expire, ThreadOK, Carries, Barred, Known
  <2> QED  BY <2>3, <2>4, <2>5 DEF Inv
<1> QED  BY <1>2, <1>3, <1>4, <1>5

LEMMA StepInv == Inv /\ [Next]_vars => Inv'
<1> SUFFICES ASSUME Inv, [Next]_vars PROVE Inv'  OBVIOUS
<1>1. ASSUME NEW th \in Threads, Step(th)  PROVE Inv'
  BY <1>1, ArriveInv, VerifyInv, LimitInv, AuthorizeInv, LookupInv, HandleInv, PutInv,
     RecordInv, CatalogInv, RankInv, ForgetInv DEF Step, Finish, Crash
<1>2. CASE \/ \E s \in Subjects : Revoke(s) \/ Restore(s) \/ WindowMoves(s)
           \/ \E c \in Calls : Expire(c)
  <2>1. UNCHANGED <<requests, ran>>
    BY <1>2 DEF Revoke, Restore, WindowMoves, Expire
  <2> QED  BY <1>2, <2>1, AroundInv
<1>3. CASE UNCHANGED vars
  <2>1. TypeOK' /\ MemoOK'  BY <1>3 DEF Inv, TypeOK, MemoOK
  <2>2. ASSUME NEW u \in Threads  PROVE ThreadOK(u)'
    BY <1>3, Frame DEF Inv, ThreadOK, Carries, Barred, Known
  <2> QED  BY <2>1, <2>2 DEF Inv
<1> QED  BY <1>1, <1>2, <1>3 DEF Next

LEMMA SpecInv == Spec => []Inv
  BY InitInv, StepInv, PTL DEF Spec

(* Typing: every variable stays in its range; in particular no subject is ever  *)
(* counted past the limiter's budget.                                           *)
THEOREM Typing == Spec => []TypeOK
<1>1. Inv => TypeOK  BY DEF Inv
<1> QED  BY <1>1, SpecInv, PTL

(* Whatever is in flight, a request that came in after its subject was revoked  *)
(* never reaches the limiter, the gate, the store or a handler.                 *)
THEOREM RevocationHolds == Spec => []RevokedIsOut
<1>1. Inv => RevokedIsOut  BY DEF Inv, ThreadOK, Barred, RevokedIsOut
<1> QED  BY <1>1, SpecInv, PTL

(* Nobody is handed a result that is not its own subject's, tool's and key's.   *)
THEOREM ResultsAreOwn == Spec => []OwnResult
<1>1. Inv => OwnResult  BY DEF Inv, ThreadOK, Carries, Shows, OwnResult
<1> QED  BY <1>1, SpecInv, PTL

(* A retry that comes in after the first call recorded never runs the handler.  *)
THEOREM StrictRetries == Spec => []RetryNeverReruns
<1>1. Inv => RetryNeverReruns  BY DEF Inv, ThreadOK, Known, RetryNeverReruns
<1> QED  BY <1>1, SpecInv, PTL

(* Whoever is answered, with a result or with a refusal, is audited once.       *)
THEOREM AnswersAudited == Spec => []AnsweredIsAudited
<1>1. ASSUME Inv, NEW th \in Threads, pc[th] \in Ends
      PROVE  /\ 200 \in HttpAnswers(th) \/ "content" \in McpAnswers(th) =>
                  pc[th] \in {"returned", "refused"}
             /\ HttpAnswers(th) \cap {401, 404, 429} # {} => pc[th] = "refused"
  <2>1. CASE pc[th] = "returned"
    <3>1. HttpAnswers(th) \subseteq {200, 500}  BY <2>1 DEF HttpAnswers
    <3> QED  BY <2>1, <3>1
  <2>2. CASE pc[th] \in {"upstream", "raised"}
    <3>1. HttpAnswers(th) \subseteq {500, 502, 0}  BY <2>2 DEF HttpAnswers, NoAnswer
    <3>2. McpAnswers(th) = {"error"}  BY <2>2 DEF McpAnswers
    <3> QED  BY <3>1, <3>2
  <2> QED  BY <1>1, <2>1, <2>2
<1>2. Inv => AnsweredIsAudited
  BY <1>1, Labels DEF Inv, ThreadOK, Carries, Shows, Audited, AnsweredIsAudited
<1> QED  BY <1>2, SpecInv, PTL

(* Only results of handlers that succeeded are ever in the store.               *)
THEOREM OnlySuccesses == Spec => []RememberedRan
<1>1. Inv => RememberedRan  BY DEF Inv, MemoOK, RememberedRan
<1> QED  BY <1>1, SpecInv, PTL
==============================================================================
