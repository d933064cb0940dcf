--------------------------- MODULE ConnectorProofs ---------------------------
(* For any number of threads and tokens, whatever providers, services and       *)
(* processes do: types; a sign-out nobody overlapped is final; an open circuit  *)
(* spares the service; and an expired token is renewed behind the caller's back.*)
EXTENDS Connector, FiniteSetTheorems, TLAPS

USE IssuedAssumption, ResilienceAssumption

-----------------------------------------------------------------------------
(* Most steps leave the connection alone, and most the breaker.                *)
LEMMA WhatHappens ==
  ASSUME [Next]_vars
  PROVE  \/ \E p \in Threads : Request(p) \/ Renewal(p) \/ Connection(p)
         \/ Expire \/ Tick \/ ServiceChanges \/ Crash \/ UNCHANGED vars
  BY DEF Next

ConnectionMoves(p) ==
  \/ Exchange(p) \/ ResponseLost(p) \/ StoreFirst(p) \/ StoreSecond(p)
  \/ AskConnect(p) \/ Finish(p) \/ FinishLate(p) \/ Redeem(p) \/ RecordConsent(p)
  \/ AskDisconnect(p) \/ ForgetBundle(p) \/ DropConsent(p)

LEMMA ConnectionRests ==
  ASSUME [Next]_vars, \A p \in Threads : ~ConnectionMoves(p), ~Expire
  PROVE  UNCHANGED oauthVars
<1>1. ASSUME NEW p \in Threads, Request(p) PROVE UNCHANGED oauthVars
  BY <1>1, Zenon
     DEF Request, ReadCredential, PassBreaker, FailFast, Answered, Rejected, Forbidden, Retry, OutageOutlastsRetries,
         Throttled, ConnectionLost, CountOutage, CountSuccess, RenewAfter401, SecondIs401, Reread, Refused
<1>2. ASSUME NEW p \in Threads, Renewal(p) PROVE UNCHANGED oauthVars
  BY <1>2, Zenon
     DEF Renewal, AskRefresh, AskValidToken, ReadExpiry, ReadBundle, ExchangeRefused, ExchangeFails,
         ConnectionMoves
<1>3. ASSUME NEW p \in Threads, Connection(p) PROVE UNCHANGED oauthVars
  BY <1>3, Zenon DEF Connection, RedeemFails, ConnectionMoves
<1>4. CASE Tick \/ ServiceChanges \/ Crash
  BY <1>4, Zenon DEF Tick, ServiceChanges, Crash
<1>5. CASE UNCHANGED vars
  BY <1>5 DEF vars
<1> QED BY <1>1, <1>2, <1>3, <1>4, <1>5, WhatHappens

BreakerMoves(p) ==
  \/ Answered(p) \/ Rejected(p) \/ Forbidden(p) \/ Retry(p)
  \/ OutageOutlastsRetries(p) \/ Throttled(p)
  \/ CountOutage(p) \/ CountSuccess(p)

LEMMA BreakerRests ==
  ASSUME [Next]_vars, \A p \in Threads : ~BreakerMoves(p), ~Tick, ~ServiceChanges, ~Crash
  PROVE  UNCHANGED breakerVars
<1>1. ASSUME NEW p \in Threads, Request(p) PROVE UNCHANGED breakerVars
  BY <1>1, Zenon
     DEF Request, ReadCredential, PassBreaker, Passes, FailFast, ConnectionLost, RenewAfter401,
         SecondIs401, Reread, Refused, BreakerMoves
<1>2. ASSUME NEW p \in Threads, Renewal(p) PROVE UNCHANGED breakerVars
  BY <1>2, Zenon
     DEF Renewal, AskRefresh, AskValidToken, ReadExpiry, ReadBundle, Exchange, ExchangeRefused,
         ExchangeFails, ResponseLost, StoreFirst, StoreSecond
<1>3. ASSUME NEW p \in Threads, Connection(p) PROVE UNCHANGED breakerVars
  BY <1>3, Zenon
     DEF Connection, AskConnect, Finish, FinishLate, Redeem, RedeemFails, RecordConsent, AskDisconnect,
         ForgetBundle, DropConsent
<1>4. CASE Expire
  BY <1>4, Zenon DEF Expire
<1>5. CASE UNCHANGED vars
  BY <1>5 DEF vars
<1> QED BY <1>1, <1>2, <1>3, <1>4, <1>5, WhatHappens

-----------------------------------------------------------------------------
(* Types.                                                                      *)
BreakerTypeOK ==
  /\ failures \in 0 .. FailureThreshold /\ opened \in BOOLEAN
  /\ age \in 0 .. ResetAfter /\ service \in Services /\ hits \in Nat
  /\ opened <=> (failures = FailureThreshold)

LEMMA BreakerKept == BreakerTypeOK /\ [Next]_vars => BreakerTypeOK'
<1> SUFFICES ASSUME BreakerTypeOK, [Next]_vars PROVE BreakerTypeOK'
  OBVIOUS
<1>1. ASSUME Hit PROVE BreakerTypeOK'
  <2>1. hits' \in Nat
    BY <1>1 DEF Hit, BreakerTypeOK
  <2>2. failures' = failures /\ opened' = opened /\ age' = age /\ service' = service
    BY <1>1 DEF Hit
  <2> QED BY <2>1, <2>2, Zenon DEF BreakerTypeOK
<1>2. ASSUME Trip PROVE BreakerTypeOK'
  <2> DEFINE counted == IF failures < FailureThreshold THEN failures + 1 ELSE failures
             opens == counted = FailureThreshold
  <2>1. /\ failures' = counted /\ opened' = (opened \/ opens) /\ service' = service
        /\ age' = IF opens THEN 0 ELSE age
        /\ hits' = IF opens THEN 0 ELSE hits
    BY <1>2, Zenon DEF Trip
  <2>2. failures' \in 0 .. FailureThreshold /\ age' \in 0 .. ResetAfter /\ hits' \in Nat
    <3>1. /\ failures \in 0 .. FailureThreshold /\ age \in 0 .. ResetAfter /\ hits \in Nat
          /\ 0 \in 0 .. ResetAfter
      BY DEF BreakerTypeOK
    <3>2. counted \in 0 .. FailureThreshold
      BY <3>1
    <3> HIDE DEF opens
    <3> QED BY <2>1, <3>1, <3>2
  <2>3. failures = FailureThreshold => opens
    BY DEF BreakerTypeOK
  <2> HIDE DEF counted
  <2>4. opened' <=> (failures' = FailureThreshold)
    BY <2>1, <2>3, Zenon DEF BreakerTypeOK
  <2>5. opened' \in BOOLEAN
    BY <2>1, Zenon
  <2> QED BY <2>1, <2>2, <2>4, <2>5, Zenon DEF BreakerTypeOK
<1>3. ASSUME Heal \/ Forget PROVE BreakerTypeOK'
  <2>1. failures' = 0 /\ opened' = FALSE /\ age' = 0 /\ hits' = 0 /\ service' = service
    BY <1>3 DEF Heal, Forget
  <2>2. 0 \in 0 .. FailureThreshold /\ 0 \in 0 .. ResetAfter /\ 0 \in Nat /\ 0 # FailureThreshold
    OBVIOUS
  <2> QED BY <2>1, <2>2, Zenon DEF BreakerTypeOK
<1>4. ASSUME Elapse PROVE BreakerTypeOK'
  <2>1. age' \in 0 .. ResetAfter
    BY <1>4 DEF Elapse, Blocking, BreakerTypeOK
  <2>2. failures' = failures /\ opened' = opened /\ service' = service /\ hits' = hits
    BY <1>4 DEF Elapse
  <2> QED BY <2>1, <2>2, Zenon DEF BreakerTypeOK
<1>5. ASSUME Turn PROVE BreakerTypeOK'
  <2>1. service' \in Services
    BY <1>5 DEF Turn
  <2>2. UNCHANGED <<failures, opened, age, hits>>
    BY <1>5 DEF Turn
  <2> QED BY <2>1, <2>2 DEF BreakerTypeOK
<1>6. ASSUME UNCHANGED breakerVars PROVE BreakerTypeOK'
  BY <1>6 DEF breakerVars, BreakerTypeOK
<1>7. ASSUME NEW p \in Threads, BreakerMoves(p) PROVE BreakerTypeOK'
  BY <1>1, <1>2, <1>3, <1>7, Zenon
     DEF BreakerMoves, Answered, Rejected, Forbidden, Retry, OutageOutlastsRetries, Throttled, CountOutage, CountSuccess
<1>8. CASE Tick \/ ServiceChanges \/ Crash
  BY <1>3, <1>4, <1>5, <1>8, Zenon DEF Tick, ServiceChanges, Crash
<1> QED BY <1>6, <1>7, <1>8, BreakerRests

(* The provider's tokens, and where they are kept.                             *)
Tasks == Operations \cup Turns

LocalsOK ==
  /\ pc \in [Threads -> PCs]
  /\ task \in [Threads -> Tasks]
  /\ held \in [Threads -> 0 .. issued]
  /\ got \in [Threads -> [refresh : 0 .. issued, of : 0 .. issued]]
  /\ attempt \in [Threads -> 0 .. MaxRetries]

TokensOK == OAuthTypeOK /\ LocalsOK

(* Nothing that holds tokens outgrows those issued.                            *)
LEMMA Issues ==
  ASSUME TokensOK, [Next]_vars
  PROVE  /\ issued' \in {issued, issued + 1} /\ issued' \in 0 .. MaxIssued
         /\ live' \subseteq 1 .. issued'
         /\ issued \in Nat /\ 0 .. issued \subseteq 0 .. issued' /\ 1 .. issued \subseteq 1 .. issued'
<1>1. issued \in 0 .. MaxIssued /\ live \subseteq 1 .. issued
  BY DEF TokensOK, OAuthTypeOK
<1>2. ASSUME NEW p \in Threads, Exchange(p) \/ ResponseLost(p) \/ Redeem(p)
      PROVE  issued < MaxIssued /\ issued' = issued + 1 /\ live' \subseteq live \cup {issued + 1}
  BY <1>2 DEF Exchange, ResponseLost, GrantRefresh, Redeem, GrantCode
<1>3. ASSUME NEW p \in Threads, ConnectionMoves(p), ~Exchange(p), ~ResponseLost(p), ~Redeem(p)
      PROVE  UNCHANGED <<issued, live>>
  BY <1>3 DEF ConnectionMoves, StoreFirst, StoreAccess, StoreSecond, StoreBundle, AskConnect, Start,
              Finish, FinishLate, PopPending, RecordConsent, GrantConsent, AskDisconnect,
              DeleteAccess, ForgetBundle, DeleteBundle, DropConsent, RevokeConsent
<1>4. CASE Expire
  BY <1>1, <1>4 DEF Expire
<1>5. CASE UNCHANGED oauthVars
  BY <1>1, <1>5 DEF oauthVars
<1>6. CASE \E p \in Threads : ConnectionMoves(p)
  <2>1. PICK p \in Threads : ConnectionMoves(p)
    BY <1>6
  <2>2. CASE Exchange(p) \/ ResponseLost(p) \/ Redeem(p)
    <3>1. issued < MaxIssued /\ issued' = issued + 1 /\ live' \subseteq live \cup {issued + 1}
      BY <1>2, <2>2
    <3> QED BY <1>1, <3>1
  <2>3. CASE ~(Exchange(p) \/ ResponseLost(p) \/ Redeem(p))
    <3>1. UNCHANGED <<issued, live>>
      BY <1>3, <2>1, <2>3
    <3> QED BY <1>1, <3>1
  <2> QED BY <2>2, <2>3
<1> QED BY <1>4, <1>5, <1>6, ConnectionRests

LEMMA ConnectionKept == TokensOK /\ [Next]_vars => OAuthTypeOK'
<1> SUFFICES ASSUME TokensOK, [Next]_vars PROVE OAuthTypeOK'
  OBVIOUS
<1> DEFINE Rows == /\ access' \in 0 .. issued'
                   /\ bundle' \in [refresh : 0 .. issued', of : 0 .. issued']
                   /\ expired' \in 0 .. issued'
           Flags == consent' \in BOOLEAN /\ pending' \in BOOLEAN
<1>1. /\ access \in 0 .. issued /\ bundle \in [refresh : 0 .. issued, of : 0 .. issued]
      /\ expired \in 0 .. issued /\ consent \in BOOLEAN /\ pending \in BOOLEAN
      /\ got \in [Threads -> [refresh : 0 .. issued, of : 0 .. issued]]
  BY Zenon DEF TokensOK, OAuthTypeOK, LocalsOK
<1>2. /\ issued \in Nat /\ issued' \in Nat /\ issued <= issued'
      /\ issued' \in 0 .. MaxIssued /\ live' \subseteq 1 .. issued'
  BY Issues
<1>3. ASSUME access' = access \/ access' = 0 \/ \E p \in Threads : access' = got[p].of,
             bundle' = bundle \/ bundle' = NoBundle
             \/ \E p \in Threads : bundle' = [refresh |-> got[p].refresh, of |-> got[p].of],
             expired' = expired \/ (expired < issued /\ expired' = expired + 1)
      PROVE  Rows
  <2>1. access' \in 0 .. issued'
    BY <1>1, <1>2, <1>3
  <2>2. expired' \in 0 .. issued'
    BY <1>1, <1>2, <1>3
  <2>3. bundle' \in [refresh : 0 .. issued', of : 0 .. issued']
    BY <1>1, <1>2, <1>3 DEF NoBundle
  <2> QED BY <2>1, <2>2, <2>3
<1>4. ASSUME NEW p \in Threads, ConnectionMoves(p) PROVE Rows
  <2>1. CASE Exchange(p) \/ ResponseLost(p) \/ Redeem(p)
    BY <1>3, <2>1 DEF Exchange, ResponseLost, Redeem
  <2>2. CASE StoreFirst(p) \/ StoreSecond(p)
    BY <1>3, <2>2 DEF StoreFirst, StoreAccess, StoreSecond, StoreBundle
  <2>3. CASE AskConnect(p) \/ Finish(p) \/ FinishLate(p) \/ RecordConsent(p)
    BY <1>3, <2>3 DEF AskConnect, Start, Finish, FinishLate, PopPending, RecordConsent, GrantConsent
  <2>4. CASE AskDisconnect(p) \/ ForgetBundle(p) \/ DropConsent(p)
    BY <1>3, <2>4 DEF AskDisconnect, DeleteAccess, ForgetBundle, DeleteBundle, DropConsent, RevokeConsent
  <2> QED BY <1>4, <2>1, <2>2, <2>3, <2>4 DEF ConnectionMoves
<1>5. ASSUME NEW p \in Threads, ConnectionMoves(p) PROVE Flags
  <2>1. consent' = consent \/ consent' = TRUE \/ consent' = FALSE
    BY <1>5 DEF ConnectionMoves, Exchange, ResponseLost, Redeem, StoreFirst, StoreAccess, StoreSecond, StoreBundle,
                AskConnect, Start, Finish, FinishLate, PopPending, RecordConsent, GrantConsent,
                AskDisconnect, DeleteAccess, ForgetBundle, DeleteBundle, DropConsent, RevokeConsent
  <2>2. pending' = pending \/ pending' = TRUE \/ pending' = FALSE
    BY <1>5 DEF ConnectionMoves, Exchange, ResponseLost, Redeem, StoreFirst, StoreAccess, StoreSecond, StoreBundle,
                AskConnect, Start, Finish, FinishLate, PopPending, RecordConsent, GrantConsent,
                AskDisconnect, DeleteAccess, ForgetBundle, DeleteBundle, DropConsent, RevokeConsent
  <2> QED BY <1>1, <2>1, <2>2, Zenon
<1>6. CASE Expire
  <2>1. Rows
    BY <1>3, <1>6 DEF Expire
  <2>2. consent' = consent /\ pending' = pending
    BY <1>6 DEF Expire
  <2> QED BY <1>1, <1>2, <2>1, <2>2, Zenon DEF OAuthTypeOK
<1>7. CASE UNCHANGED oauthVars
  <2>1. Rows
    BY <1>3, <1>7 DEF oauthVars
  <2>2. consent' = consent /\ pending' = pending
    BY <1>7 DEF oauthVars
  <2> QED BY <1>1, <1>2, <2>1, <2>2, Zenon DEF OAuthTypeOK
<1>8. ASSUME NEW p \in Threads, ConnectionMoves(p) PROVE OAuthTypeOK'
  BY <1>2, <1>4, <1>5, <1>8, Zenon DEF OAuthTypeOK
<1> QED BY <1>6, <1>7, <1>8, ConnectionRests

Bundles == [refresh : 0 .. issued, of : 0 .. issued]

(* What a step does to the locals of the thread that makes it.                 *)
Local(p) ==
  /\ \E l \in PCs : Goto(p, l)
  /\ \E k \in Tasks : task' = [task EXCEPT ![p] = k]
  /\ \E n \in 0 .. issued' : held' = [held EXCEPT ![p] = n]
  /\ \E b \in Bundles' : got' = [got EXCEPT ![p] = b]
  /\ \E n \in 0 .. MaxRetries : attempt' = [attempt EXCEPT ![p] = n]

LEMMA ReturnIsLocal ==
  ASSUME TokensOK, [Next]_vars, NEW p \in Threads, Return(p)
  PROVE  Local(p)
<1>1. 0 \in 0 .. issued' /\ 0 \in 0 .. MaxRetries /\ NoBundle \in [refresh : 0 .. issued', of : 0 .. issued']
  <2>1. issued' \in Nat /\ MaxRetries \in Nat
    BY Issues
  <2> QED BY <2>1 DEF NoBundle
<1>2. "idle" \in PCs /\ "none" \in Tasks
  BY DEF PCs, Tasks, Turns
<1> QED BY <1>1, <1>2, Zenon DEF Return, Local, Tasks, Bundles

LEMMA StepIsLocal ==
  ASSUME TokensOK, [Next]_vars, NEW p \in Threads, Request(p) \/ Renewal(p) \/ Connection(p)
  PROVE  Local(p) \/ UNCHANGED <<pc, task, held, got, attempt>>
<1>1. /\ pc[p] \in PCs /\ task[p] \in Tasks
      /\ held[p] \in 0 .. issued' /\ attempt[p] \in 0 .. MaxRetries
      /\ got[p] \in [refresh : 0 .. issued', of : 0 .. issued']
      /\ access \in 0 .. issued' /\ bundle.refresh \in 0 .. issued' /\ issued \in Nat
      /\ 0 \in 0 .. issued' /\ 0 \in 0 .. MaxRetries
      /\ NoBundle \in [refresh : 0 .. issued', of : 0 .. issued']
  <2>1. /\ issued \in Nat /\ 0 .. issued \subseteq 0 .. issued' /\ issued' \in Nat
    BY Issues
  <2>2. /\ access \in 0 .. issued /\ bundle \in [refresh : 0 .. issued, of : 0 .. issued]
    BY DEF TokensOK, OAuthTypeOK
  <2>3. /\ pc[p] \in PCs /\ task[p] \in Tasks
        /\ held[p] \in 0 .. issued /\ attempt[p] \in 0 .. MaxRetries
        /\ got[p] \in [refresh : 0 .. issued, of : 0 .. issued]
    BY DEF TokensOK, LocalsOK
  <2> QED BY <2>1, <2>2, <2>3 DEF NoBundle
<1>2. /\ pc = [pc EXCEPT ![p] = pc[p]] /\ task = [task EXCEPT ![p] = task[p]]
      /\ held = [held EXCEPT ![p] = held[p]] /\ got = [got EXCEPT ![p] = got[p]]
      /\ attempt = [attempt EXCEPT ![p] = attempt[p]]
  BY DEF TokensOK, LocalsOK
<1>3. /\ UNCHANGED pc => \E l \in PCs : Goto(p, l)
      /\ UNCHANGED task => \E k \in Tasks : task' = [task EXCEPT ![p] = k]
      /\ UNCHANGED held => \E n \in 0 .. issued' : held' = [held EXCEPT ![p] = n]
      /\ UNCHANGED got => \E b \in Bundles' : got' = [got EXCEPT ![p] = b]
      /\ UNCHANGED attempt => \E n \in 0 .. MaxRetries : attempt' = [attempt EXCEPT ![p] = n]
  BY <1>1, <1>2, Zenon DEF Goto, Bundles, Tasks
<1>4. ASSUME Return(p) PROVE Local(p)
  BY <1>4, ReturnIsLocal
<1>5. ASSUME ReadCredential(p) PROVE Local(p)
  BY <1>1, <1>3, <1>5 DEF ReadCredential, Ask, Goto, Local, PCs, Tasks, Operations
<1>6. ASSUME PassBreaker(p) PROVE Local(p)
  BY <1>1, <1>3, <1>6 DEF PassBreaker, Goto, Local, PCs
<1>7. ASSUME \/ Answered(p) \/ Forbidden(p) \/ OutageOutlastsRetries(p)
             \/ RenewAfter401(p) \/ SecondIs401(p)
      PROVE  Local(p)
  BY <1>1, <1>3, <1>7
     DEF Answered, Forbidden, OutageOutlastsRetries, Settled, RenewAfter401, SecondIs401,
         Goto, Local, PCs, Tasks, Turns
<1>8. ASSUME Retry(p) PROVE Local(p)
  <2>1. attempt[p] + 1 \in 0 .. MaxRetries /\ attempt' = [attempt EXCEPT ![p] = attempt[p] + 1]
    BY <1>1, <1>8 DEF Retry, Retries
  <2>2. UNCHANGED <<pc, task, held, got>>
    BY <1>8 DEF Retry
  <2> QED BY <1>3, <2>1, <2>2, Zenon DEF Local
<1>9. ASSUME Reread(p) PROVE Local(p)
  BY <1>1, <1>3, <1>9 DEF Reread, Goto, Local, PCs, Tasks, Turns
<1>10. ASSUME Request(p) PROVE Local(p)
  BY <1>4, <1>5, <1>6, <1>7, <1>8, <1>9, <1>10, Zenon
     DEF Request, Rejected, FailFast, Throttled, ConnectionLost, CountOutage, CountSuccess, Refused
<1>11. ASSUME AskRefresh(p) \/ AskDisconnect(p) \/ Finish(p) PROVE Local(p)
  BY <1>3, <1>11 DEF AskRefresh, AskDisconnect, Finish, Ask, Goto, Local, PCs, Tasks, Operations
<1>12. ASSUME AskValidToken(p) PROVE Local(p)
  BY <1>1, <1>3, <1>12 DEF AskValidToken, Ask, Goto, Local, PCs, Tasks, Operations
<1>13. ASSUME ReadExpiry(p) PROVE Local(p)
  <2>1. CASE Return(p)
    BY <1>4, <2>1
  <2>2. CASE UNCHANGED <<task, held, got, attempt>> /\ \E l \in {"renewing", "refused"} : Goto(p, l)
    BY <1>3, <2>2 DEF Local, PCs
  <2> QED BY <1>13, <2>1, <2>2, Zenon DEF ReadExpiry
<1>14. ASSUME ReadBundle(p) PROVE Local(p)
  <2>1. [NoBundle EXCEPT !.refresh = bundle.refresh] \in Bundles'
    BY <1>1 DEF NoBundle, Bundles
  <2>2. \E b \in Bundles' : got' = [got EXCEPT ![p] = b]
    BY <1>3, <1>14, <2>1 DEF ReadBundle
  <2>3. \E l \in PCs : Goto(p, l)
    BY <1>14 DEF ReadBundle, PCs
  <2> QED BY <1>3, <1>14, <2>2, <2>3 DEF ReadBundle, Local
<1>15. ASSUME Exchange(p) \/ Redeem(p) PROVE Local(p)
  <2>1. issued' = issued + 1 /\ issued' \in Nat /\ issued + 1 \in 0 .. issued'
    BY <1>1, <1>15 DEF Exchange, GrantRefresh, Redeem, GrantCode
  <2>2. PICK r \in 0 .. issued' : got' = [got EXCEPT ![p] = [refresh |-> r, of |-> issued + 1]]
    BY <1>1, <1>15, <2>1 DEF Exchange, KeepRefresh, Redeem
  <2>3. [refresh |-> r, of |-> issued + 1] \in Bundles'
    BY <2>1, <2>2 DEF Bundles
  <2>4. \E l \in PCs : Goto(p, l)
    BY <1>15 DEF Exchange, Redeem, PCs
  <2> QED BY <1>3, <1>15, <2>2, <2>3, <2>4 DEF Exchange, Redeem, Local
<1>16. ASSUME ExchangeRefused(p) \/ StoreFirst(p) \/ ForgetBundle(p) PROVE Local(p)
  BY <1>3, <1>16 DEF ExchangeRefused, StoreFirst, ForgetBundle, Goto, Local, PCs
<1>17. ASSUME StoreSecond(p) PROVE Local(p)
  <2>1. CASE Return(p)
    BY <1>4, <2>1
  <2>2. CASE Goto(p, "granting") /\ UNCHANGED <<task, held, got, attempt>>
    BY <1>3, <2>2 DEF Local, PCs
  <2>3. CASE Goto(p, "rereading") /\ got' = [got EXCEPT ![p] = NoBundle] /\ UNCHANGED <<task, held, attempt>>
    BY <1>1, <1>3, <2>3 DEF Local, PCs, Bundles
  <2> QED BY <1>17, <2>1, <2>2, <2>3 DEF StoreSecond
<1>20. ASSUME ExchangeFails(p) \/ ResponseLost(p) PROVE Local(p)
  BY <1>3, <1>20 DEF ExchangeFails, ResponseLost, Unserved, Goto, Local, PCs, Tasks, Turns
<1>18. ASSUME Renewal(p) PROVE Local(p)
  BY <1>4, <1>11, <1>12, <1>13, <1>14, <1>15, <1>16, <1>17, <1>18, <1>20, Zenon DEF Renewal
<1>19. ASSUME Connection(p) PROVE Local(p) \/ UNCHANGED <<pc, task, held, got, attempt>>
  BY <1>4, <1>11, <1>15, <1>16, <1>19, Zenon
     DEF Connection, AskConnect, FinishLate, RedeemFails, RecordConsent, DropConsent, callVars
<1> QED BY <1>10, <1>18, <1>19

LEMMA LocalsKept == TokensOK /\ [Next]_vars => LocalsOK'
<1> SUFFICES ASSUME TokensOK, [Next]_vars PROVE LocalsOK'
  OBVIOUS
<1>1. /\ pc \in [Threads -> PCs] /\ task \in [Threads -> Tasks]
      /\ held \in [Threads -> 0 .. issued'] /\ got \in [Threads -> Bundles']
      /\ attempt \in [Threads -> 0 .. MaxRetries]
      /\ 0 \in 0 .. issued' /\ NoBundle \in Bundles' /\ 0 \in 0 .. MaxRetries
  <2>1. issued \in Nat /\ 0 .. issued \subseteq 0 .. issued' /\ issued' \in Nat /\ MaxRetries \in Nat
    BY Issues
  <2>2. LocalsOK
    BY DEF TokensOK
  <2>3. /\ pc \in [Threads -> PCs] /\ task \in [Threads -> Tasks]
        /\ attempt \in [Threads -> 0 .. MaxRetries]
    BY <2>2, Zenon DEF LocalsOK
  <2>4. held \in [Threads -> 0 .. issued']
    BY <2>1, <2>2 DEF LocalsOK
  <2>5. Bundles \subseteq Bundles'
    BY <2>1 DEF Bundles
  <2>6. got \in [Threads -> Bundles]
    BY <2>2, Zenon DEF LocalsOK, Bundles
  <2>7. 0 \in 0 .. issued' /\ NoBundle \in Bundles' /\ 0 \in 0 .. MaxRetries
    BY <2>1 DEF NoBundle, Bundles
  <2> QED BY <2>3, <2>4, <2>5, <2>6, <2>7
<1>2. ASSUME NEW p \in Threads, Local(p) PROVE LocalsOK'
  BY <1>1, <1>2 DEF Local, Goto, LocalsOK, Tasks, Bundles
<1>3. ASSUME UNCHANGED <<pc, task, held, got, attempt>> PROVE LocalsOK'
  BY <1>1, <1>3, Zenon DEF LocalsOK, Tasks, Bundles
<1>4. CASE Crash
  BY <1>1, <1>4 DEF Crash, LocalsOK, PCs, Tasks, Turns, Bundles
<1>5. CASE Expire \/ Tick \/ ServiceChanges \/ UNCHANGED vars
  BY <1>3, <1>5, Zenon DEF Expire, Tick, ServiceChanges, callVars, vars
<1> QED BY <1>2, <1>3, <1>4, <1>5, StepIsLocal, WhatHappens

-----------------------------------------------------------------------------
(* Sign-outs.  One that nobody overlaps finds the access token gone at every   *)
(* later step and nobody able to bring anything back; once it has forgotten    *)
(* the bundle nobody can begin a renewal either.                               *)
HistoryOK == quiet \in [Threads -> BOOLEAN] /\ gone \in BOOLEAN

SignOutOK ==
  /\ gone => access = 0 /\ bundle = NoBundle /\ ~consent /\ Writing = {}
  /\ \A p \in Threads : quiet[p] =>
       /\ pc[p] \in {"forgetting", "revoking"} /\ access = 0 /\ Writing = {}
       /\ pc[p] = "revoking" => bundle = NoBundle

LEMMA HistoryKept == HistoryOK /\ [Next]_vars => HistoryOK'
<1> SUFFICES ASSUME HistoryOK, [Next]_vars PROVE HistoryOK'
  OBVIOUS
<1>1. ASSUME UNCHANGED <<quiet, gone>> PROVE HistoryOK'
  BY <1>1 DEF HistoryOK
<1>2. ASSUME NEW p \in Threads, Request(p) PROVE HistoryOK'
  BY <1>1, <1>2, Zenon
     DEF Request, ReadCredential, PassBreaker, FailFast, Answered, Rejected, Forbidden, Retry, OutageOutlastsRetries,
         Throttled, ConnectionLost, CountOutage, CountSuccess, RenewAfter401, SecondIs401, Reread, Refused
<1>3. ASSUME Disturbs, gone' \in BOOLEAN PROVE HistoryOK'
  <2>1. \A p \in Threads : (quiet[p] /\ p \notin SigningOut) \in BOOLEAN
    OBVIOUS
  <2> QED BY <1>3, <2>1, Zenon DEF Disturbs, HistoryOK
<1>4. ASSUME NEW p \in Threads, NEW b \in BOOLEAN, quiet' = [quiet EXCEPT ![p] = b], gone' \in BOOLEAN
      PROVE  HistoryOK'
  BY <1>4, Zenon DEF HistoryOK
<1>5. ASSUME NEW p \in Threads, Renewal(p) PROVE HistoryOK'
  BY <1>1, <1>3, <1>5, Zenon
     DEF HistoryOK, Renewal, AskRefresh, AskValidToken, ReadExpiry, ReadBundle, Exchange,
         ExchangeRefused, ExchangeFails, ResponseLost, StoreFirst, StoreSecond
<1>6. ASSUME NEW p \in Threads, Connection(p) PROVE HistoryOK'
  <2>1. CASE \/ AskConnect(p) \/ FinishLate(p) \/ Redeem(p) \/ RedeemFails(p)
             \/ RecordConsent(p) \/ ForgetBundle(p)
    BY <1>1, <2>1, Zenon DEF AskConnect, FinishLate, callVars, Redeem, RedeemFails, RecordConsent, ForgetBundle
  <2>2. CASE Finish(p)
    BY <1>3, <2>2, Zenon DEF Finish
  <2>3. CASE AskDisconnect(p)
    <3>1. (Writing = {}) \in BOOLEAN
      OBVIOUS
    <3> QED BY <1>4, <2>3, <3>1, Zenon DEF AskDisconnect, HistoryOK
  <2>4. CASE DropConsent(p)
    <3>1. (gone \/ quiet[p]) \in BOOLEAN /\ FALSE \in BOOLEAN
      OBVIOUS
    <3> QED BY <1>4, <2>4, <3>1, Zenon DEF DropConsent
  <2> QED BY <1>6, <2>1, <2>2, <2>3, <2>4 DEF Connection
<1>7. CASE Crash
  <2>1. quiet' = [p \in Threads |-> FALSE] /\ gone' = gone
    BY <1>7, Zenon DEF Crash
  <2> QED BY <2>1, Zenon DEF HistoryOK
<1>8. CASE Expire \/ Tick \/ ServiceChanges \/ UNCHANGED vars
  BY <1>1, <1>8, Zenon DEF Expire, Tick, ServiceChanges, callVars, vars
<1> QED BY <1>2, <1>5, <1>6, <1>7, <1>8, WhatHappens

(* A thread that is no sign-out, moving to where it holds nothing to store.    *)
LEMMA Harmless ==
  ASSUME LocalsOK, SignOutOK, NEW p \in Threads, NEW l \in PCs, Goto(p, l),
         pc[p] \notin {"forgetting", "revoking"},
         pc[p] \in {"exchanging", "redeeming", "storing", "bundling", "granting"}
         \/ l \notin {"exchanging", "redeeming", "storing", "bundling", "granting"},
         UNCHANGED <<access, bundle, consent, quiet, gone>>
  PROVE  SignOutOK'
<1>1. Writing = {} => Writing' = {}
  BY DEF LocalsOK, Goto, Writing
<1>2. \A q \in Threads : quiet[q] => q # p
  BY DEF SignOutOK
<1>3. \A q \in Threads : quiet[q] => pc'[q] = pc[q]
  BY <1>2 DEF LocalsOK, Goto
<1> QED BY <1>1, <1>3, Zenon DEF SignOutOK

(* While somebody has something to store, no sign-out counts.                  *)
LEMMA NobodyCounts ==
  ASSUME SignOutOK, NEW p \in Threads, UNCHANGED <<quiet, gone>>,
         pc[p] \in {"exchanging", "redeeming", "storing", "bundling", "granting"}
  PROVE  SignOutOK'
<1>1. Writing # {}
  BY DEF Writing
<1>2. ~gone /\ \A q \in Threads : ~quiet[q]
  BY <1>1, Zenon DEF SignOutOK
<1> QED BY <1>2, Zenon DEF SignOutOK

LEMMA RequestIsHarmless ==
  ASSUME TokensOK, SignOutOK, [Next]_vars, NEW p \in Threads, Request(p)
  PROVE  SignOutOK'
<1>1. UNCHANGED <<access, bundle, consent, quiet, gone>>
  BY Zenon
     DEF oauthVars, Request, ReadCredential, PassBreaker, FailFast, Answered, Rejected, Forbidden, Retry,
         OutageOutlastsRetries, Throttled, ConnectionLost, CountOutage, CountSuccess,
         RenewAfter401, SecondIs401, Reread, Refused
<1>2. pc[p] \notin {"forgetting", "revoking"}
  BY DEF Request, ReadCredential, PassBreaker, FailFast, Answered, Rejected, Forbidden, Retry,
         OutageOutlastsRetries, Throttled, ConnectionLost, CountOutage, CountSuccess,
         RenewAfter401, SecondIs401, Reread, Refused, Ask, MayAsk, At
<1>3. CASE Retry(p)
  <2>1. Goto(p, pc[p]) /\ pc[p] \in PCs /\ pc[p] = "sending"
    BY <1>3 DEF Retry, Goto, At, TokensOK, LocalsOK
  <2> QED BY <1>1, <2>1, Harmless DEF TokensOK
<1>4. CASE ~Retry(p)
  <2>1. PICK l \in {"idle", "checking", "sending", "healing", "unauthorized", "tripping",
                    "renewing", "refused"} : Goto(p, l)
    BY <1>4, Zenon
       DEF Request, ReadCredential, PassBreaker, FailFast, Answered, Rejected, Forbidden, Return,
           OutageOutlastsRetries, Throttled, ConnectionLost, CountOutage, CountSuccess,
           RenewAfter401, SecondIs401, Reread, Refused
  <2>2. /\ l \in PCs
        /\ l \notin {"exchanging", "redeeming", "storing", "bundling", "granting"}
    BY <2>1 DEF PCs
  <2> QED BY <1>1, <1>2, <2>1, <2>2, Harmless DEF TokensOK
<1> QED BY <1>3, <1>4

LEMMA RenewalKeeps ==
  ASSUME TokensOK, SignOutOK, [Next]_vars, NEW p \in Threads, Renewal(p)
  PROVE  SignOutOK'
<1>1. CASE AskRefresh(p) \/ AskValidToken(p) \/ ReadExpiry(p)
  <2>1. PICK l \in {"renewing", "fetched", "idle", "refused"} : Goto(p, l)
    BY <1>1, Zenon DEF AskRefresh, AskValidToken, ReadExpiry, Return
  <2>2. UNCHANGED <<access, bundle, consent, quiet, gone>> /\ pc[p] \notin {"forgetting", "revoking"}
    BY <1>1 DEF AskRefresh, AskValidToken, ReadExpiry, Ask, MayAsk, At, oauthVars
  <2>3. /\ l \in PCs
        /\ l \notin {"exchanging", "redeeming", "storing", "bundling", "granting"}
    BY <2>1 DEF PCs
  <2> QED BY <2>1, <2>2, <2>3, Harmless DEF TokensOK
<1>2. CASE ReadBundle(p) /\ bundle.refresh = 0
  <2>1. UNCHANGED <<access, bundle, consent, quiet, gone>> /\ Goto(p, "refused") /\ pc[p] = "renewing"
    BY <1>2 DEF ReadBundle, At, oauthVars
  <2>2. "refused" \in PCs
    BY DEF PCs
  <2> QED BY <2>1, <2>2, Harmless DEF TokensOK
<1>3. CASE ReadBundle(p) /\ bundle.refresh # 0
  <2>1. ~gone
    BY <1>3 DEF SignOutOK, NoBundle
  <2>2. Disturbs /\ gone' = gone
    BY <1>3 DEF ReadBundle
  <2>3. \A q \in Threads : ~quiet'[q]
    BY <2>2 DEF Disturbs, SigningOut, SignOutOK
  <2> QED BY <2>1, <2>2, <2>3, Zenon DEF SignOutOK
<1>4. CASE \/ Exchange(p) \/ ExchangeRefused(p) \/ ExchangeFails(p) \/ ResponseLost(p)
           \/ StoreFirst(p) \/ StoreSecond(p)
  BY <1>4, NobodyCounts
     DEF Exchange, ExchangeRefused, ExchangeFails, ResponseLost, StoreFirst, StoreSecond, At
<1> QED BY <1>1, <1>2, <1>3, <1>4 DEF Renewal

LEMMA ConnectionKeeps ==
  ASSUME TokensOK, HistoryOK, SignOutOK, [Next]_vars, NEW p \in Threads, Connection(p)
  PROVE  SignOutOK'
<1>1. CASE AskConnect(p) \/ FinishLate(p)
  <2>1. UNCHANGED <<access, bundle, consent, pc, quiet, gone>>
    BY <1>1 DEF AskConnect, FinishLate, Start, PopPending, callVars
  <2> QED BY <2>1 DEF SignOutOK, Writing
<1>2. CASE Redeem(p) \/ RedeemFails(p) \/ RecordConsent(p)
  BY <1>2, NobodyCounts DEF Redeem, RedeemFails, RecordConsent, At
<1>3. CASE Finish(p)
  <2>1. Disturbs /\ gone' = FALSE
    BY <1>3 DEF Finish
  <2>2. \A q \in Threads : ~quiet'[q]
    BY <2>1 DEF Disturbs, SigningOut, SignOutOK
  <2> QED BY <2>1, <2>2, Zenon DEF SignOutOK
<1>4. CASE AskDisconnect(p)
  <2>1. /\ access' = 0 /\ UNCHANGED <<bundle, consent, gone>>
        /\ pc[p] = "idle" /\ pc' = [pc EXCEPT ![p] = "forgetting"]
    BY <1>4 DEF AskDisconnect, DeleteAccess, Ask, MayAsk, At, Goto
  <2>2. /\ pc'[p] = "forgetting" /\ \A q \in Threads : q # p => pc'[q] = pc[q]
        /\ Writing' = Writing
    BY <2>1 DEF TokensOK, LocalsOK, Writing
  <2>3. /\ quiet'[p] => Writing = {}
        /\ \A q \in Threads : q # p => quiet'[q] = quiet[q]
    BY <1>4, Zenon DEF AskDisconnect, HistoryOK
  <2>4. /\ gone' => access' = 0 /\ bundle' = NoBundle /\ ~consent' /\ Writing' = {}
    BY <2>1, <2>2, Zenon DEF SignOutOK
  <2>5. ASSUME NEW q \in Threads, quiet'[q]
        PROVE  /\ pc'[q] \in {"forgetting", "revoking"} /\ access' = 0 /\ Writing' = {}
               /\ pc'[q] = "revoking" => bundle' = NoBundle
    <3>1. CASE q = p
      BY <2>1, <2>2, <2>3, <2>5, <3>1
    <3>2. CASE q # p
      BY <2>1, <2>2, <2>3, <2>5, <3>2 DEF SignOutOK
    <3> QED BY <3>1, <3>2
  <2> QED BY <2>4, <2>5, Zenon DEF SignOutOK
<1>5. CASE ForgetBundle(p)
  <2>1. /\ bundle' = NoBundle /\ UNCHANGED <<access, consent, quiet, gone>>
        /\ pc[p] = "forgetting" /\ pc' = [pc EXCEPT ![p] = "revoking"]
    BY <1>5 DEF ForgetBundle, DeleteBundle, At, Goto
  <2>2. /\ pc'[p] = "revoking" /\ \A q \in Threads : q # p => pc'[q] = pc[q]
        /\ Writing' = Writing
    BY <2>1 DEF TokensOK, LocalsOK, Writing
  <2> QED BY <2>1, <2>2 DEF SignOutOK
<1>6. CASE DropConsent(p)
  <2>1. /\ consent' = FALSE /\ UNCHANGED <<access, bundle>>
        /\ pc[p] = "revoking" /\ pc' = [pc EXCEPT ![p] = "idle"]
    BY <1>6 DEF DropConsent, RevokeConsent, At, Return, Goto
  <2>2. /\ \A q \in Threads : q # p => pc'[q] = pc[q]
        /\ Writing' = Writing
    BY <2>1 DEF TokensOK, LocalsOK, Writing
  <2>3. /\ gone' => gone \/ quiet[p]
        /\ ~quiet'[p] /\ \A q \in Threads : q # p => quiet'[q] = quiet[q]
    BY <1>6, Zenon DEF DropConsent, HistoryOK
  <2>4. gone' => access' = 0 /\ bundle' = NoBundle /\ ~consent' /\ Writing' = {}
    BY <2>1, <2>2, <2>3 DEF SignOutOK
  <2>5. ASSUME NEW q \in Threads, quiet'[q]
        PROVE  /\ pc'[q] \in {"forgetting", "revoking"} /\ access' = 0 /\ Writing' = {}
               /\ pc'[q] = "revoking" => bundle' = NoBundle
    <3>1. q # p /\ quiet[q]
      BY <2>3, <2>5
    <3> QED BY <2>1, <2>2, <3>1 DEF SignOutOK
  <2> QED BY <2>4, <2>5, Zenon DEF SignOutOK
<1> QED BY <1>1, <1>2, <1>3, <1>4, <1>5, <1>6 DEF Connection

LEMMA SignOutKept == TokensOK /\ HistoryOK /\ SignOutOK /\ [Next]_vars => SignOutOK'
<1> SUFFICES ASSUME TokensOK, HistoryOK, SignOutOK, [Next]_vars PROVE SignOutOK'
  OBVIOUS
<1>1. CASE Expire \/ Tick \/ ServiceChanges \/ UNCHANGED vars
  <2>1. UNCHANGED <<access, bundle, consent, pc, quiet, gone>>
    BY <1>1 DEF Expire, Tick, ServiceChanges, callVars, oauthVars, vars
  <2> QED BY <2>1 DEF SignOutOK, Writing
<1>2. CASE Crash
  <2>1. /\ UNCHANGED <<access, bundle, consent, gone>>
        /\ pc' = [p \in Threads |-> "idle"] /\ quiet' = [p \in Threads |-> FALSE]
    BY <1>2 DEF Crash, oauthVars
  <2>2. Writing' = {} /\ \A p \in Threads : ~quiet'[p]
    BY <2>1 DEF Writing
  <2> QED BY <2>1, <2>2, Zenon DEF SignOutOK
<1> QED BY <1>1, <1>2, RequestIsHarmless, RenewalKeeps, ConnectionKeeps, WhatHappens

-----------------------------------------------------------------------------
(* An open circuit.  The requests under way may each reach the service once    *)
(* more for every attempt they have left; whoever opened the circuit has none. *)
Coming ==
  {pk \in Threads \X (0 .. MaxRetries) : pc[pk[1]] = "sending" /\ attempt[pk[1]] <= pk[2]}

HitsBounded ==
  Blocking => hits + Cardinality(Coming) <= (Cardinality(Threads) - 1) * (1 + MaxRetries)

LEMMA ComingIsFinite ==
  /\ IsFiniteSet(Coming) /\ Cardinality(Coming) \in Nat
  /\ Cardinality(Coming') \in Nat
<1>1. IsFiniteSet(0 .. MaxRetries)
  BY FS_Interval
<1>2. IsFiniteSet(Threads \X (0 .. MaxRetries))
  BY <1>1, FS_Product, ThreadsAssumption
<1>3. /\ Coming \subseteq Threads \X (0 .. MaxRetries)
      /\ Coming' \subseteq Threads \X (0 .. MaxRetries)
  BY DEF Coming
<1>4. IsFiniteSet(Coming) /\ IsFiniteSet(Coming')
  BY <1>2, <1>3, FS_Subset
<1> QED BY <1>4, FS_CardinalityType

(* What everybody but p can still send.                                        *)
LEMMA OthersSend ==
  ASSUME NEW p \in Threads, pc[p] # "sending"
  PROVE  Cardinality(Coming) <= (Cardinality(Threads) - 1) * (1 + MaxRetries)
<1> DEFINE others == Threads \ {p}
           most == others \X (0 .. MaxRetries)
<1>1. IsFiniteSet(0 .. MaxRetries) /\ Cardinality(0 .. MaxRetries) = 1 + MaxRetries
  BY FS_Interval
<1>2. IsFiniteSet(others) /\ Cardinality(others) = Cardinality(Threads) - 1
  BY FS_RemoveElement, ThreadsAssumption
<1>3. IsFiniteSet(most) /\ Cardinality(most) = (Cardinality(Threads) - 1) * (1 + MaxRetries)
  <2>1. IsFiniteSet(most) /\ Cardinality(most) = Cardinality(others) * Cardinality(0 .. MaxRetries)
    BY <1>1, <1>2, FS_Product
  <2> QED BY <1>1, <1>2, <2>1, Zenon
<1>4. Coming \subseteq most
  BY DEF Coming
<1> HIDE DEF most
<1> QED BY <1>3, <1>4, FS_Subset

(* A request that goes on has one attempt fewer, one that is over has none.    *)
LEMMA OneFewer ==
  ASSUME NEW p \in Threads, pc[p] = "sending", attempt[p] \in 0 .. MaxRetries,
         \A q \in Threads : q # p => pc'[q] = pc[q] /\ attempt'[q] = attempt[q],
         pc'[p] = "sending" => attempt'[p] = attempt[p] + 1
  PROVE  Cardinality(Coming') <= Cardinality(Coming) - 1
<1> DEFINE spent == <<p, attempt[p]>>
<1>1. spent \in Coming
  BY DEF Coming
<1>2. Coming' \subseteq Coming \ {spent}
  BY DEF Coming
<1>3. IsFiniteSet(Coming \ {spent}) /\ Cardinality(Coming \ {spent}) = Cardinality(Coming) - 1
  BY <1>1, ComingIsFinite, FS_RemoveElement, Zenon
<1>4. Cardinality(Coming') <= Cardinality(Coming \ {spent})
  BY <1>2, <1>3, FS_Subset
<1> QED BY <1>3, <1>4, Zenon

LEMMA NoMoreComing ==
  ASSUME Coming' \subseteq Coming
  PROVE  Cardinality(Coming') <= Cardinality(Coming)
  BY ComingIsFinite, FS_Subset

LEMMA ThreadsCounted == (Cardinality(Threads) - 1) * (1 + MaxRetries) \in Int
<1>1. Cardinality(Threads) \in Nat
  BY FS_CardinalityType, ThreadsAssumption
<1> QED BY <1>1

(* Only p moves, and not into sending.                                         *)
LEMMA OnlyPMoves ==
  ASSUME TokensOK, [Next]_vars, NEW p \in Threads, Request(p) \/ Renewal(p) \/ Connection(p)
  PROVE  \A q \in Threads : q # p => pc'[q] = pc[q] /\ task'[q] = task[q] /\ held'[q] = held[q]
                                       /\ got'[q] = got[q] /\ attempt'[q] = attempt[q]
<1>1. Local(p) \/ UNCHANGED <<pc, task, held, got, attempt>>
  BY StepIsLocal
<1> QED BY <1>1 DEF Local, Goto, TokensOK, LocalsOK

LEMMA StartsNoRequest ==
  ASSUME TokensOK, NEW p \in Threads, ~PassBreaker(p), ~Retry(p),
         Request(p) \/ Renewal(p) \/ Connection(p)
  PROVE  pc'[p] # "sending" \/ UNCHANGED <<pc, attempt>>
<1>1. CASE Request(p)
  <2>1. PICK l \in {"idle", "checking", "healing", "unauthorized", "tripping",
                    "renewing", "refused"} : Goto(p, l)
    BY <1>1, Zenon
       DEF Request, ReadCredential, FailFast, Answered, Rejected, Forbidden, Return,
           OutageOutlastsRetries, Throttled, ConnectionLost, CountOutage, CountSuccess, RenewAfter401, SecondIs401, Reread, Refused
  <2> QED BY <2>1 DEF Goto, TokensOK, LocalsOK
<1>2. CASE Renewal(p)
  <2>1. PICK l \in {"idle", "renewing", "fetched", "refused", "exchanging", "storing", "bundling",
                    "granting", "rereading"} : Goto(p, l)
    BY <1>2, Zenon
       DEF Renewal, AskRefresh, AskValidToken, ReadExpiry, ReadBundle, Exchange, ExchangeRefused,
           ExchangeFails, ResponseLost, Unserved, StoreFirst, StoreSecond, Return
  <2> QED BY <2>1 DEF Goto, TokensOK, LocalsOK
<1>3. CASE AskConnect(p) \/ FinishLate(p)
  BY <1>3 DEF AskConnect, FinishLate, callVars
<1>4. CASE Connection(p) /\ ~(AskConnect(p) \/ FinishLate(p))
  <2>1. PICK l \in {"redeeming", "storing", "idle", "forgetting", "revoking"} : Goto(p, l)
    BY <1>4, Zenon
       DEF Connection, Finish, Redeem, RedeemFails, RecordConsent, AskDisconnect, ForgetBundle, DropConsent, Return
  <2> QED BY <2>1 DEF Goto, TokensOK, LocalsOK
<1> QED BY <1>1, <1>2, <1>3, <1>4

LEMMA HitsKept ==
  ASSUME BreakerTypeOK, TokensOK, HitsBounded, [Next]_vars
  PROVE  HitsBounded'
<1> DEFINE most == (Cardinality(Threads) - 1) * (1 + MaxRetries)
<1>1. most \in Int
  BY ThreadsCounted
<1> HIDE DEF most
<1>2. /\ Blocking => hits + Cardinality(Coming) <= most
      /\ HitsBounded' <=> (Blocking' => hits' + Cardinality(Coming') <= most)
  BY DEF HitsBounded, most
<1>3. /\ hits \in Nat /\ Cardinality(Coming) \in Nat
      /\ hits' \in Nat
  BY ComingIsFinite, BreakerKept DEF BreakerTypeOK
<1>4. Cardinality(Coming') \in Nat
  BY ComingIsFinite
<1>5. ASSUME ~Blocking' PROVE HitsBounded'
  BY <1>2, <1>5
<1>6. ASSUME Coming' \subseteq Coming, Blocking' => Blocking /\ hits' = hits PROVE HitsBounded'
  BY <1>1, <1>2, <1>3, <1>4, <1>6, NoMoreComing
<1>7. ASSUME UNCHANGED breakerVars PROVE Blocking' => Blocking /\ hits' = hits
  BY <1>7 DEF breakerVars, Blocking
<1>8. ASSUME NEW p \in Threads,
             \/ Answered(p) \/ Rejected(p) \/ Forbidden(p)
             \/ Retry(p) \/ OutageOutlastsRetries(p) \/ Throttled(p)
      PROVE  HitsBounded'
  <2>1. Hit /\ pc[p] = "sending" /\ attempt[p] \in 0 .. MaxRetries
    BY <1>8 DEF Answered, Rejected, Forbidden, Retry, OutageOutlastsRetries, Throttled, At, TokensOK, LocalsOK
  <2>2. \A q \in Threads : q # p => pc'[q] = pc[q] /\ attempt'[q] = attempt[q]
    BY <1>8, OnlyPMoves DEF Request
  <2>3. pc'[p] = "sending" => attempt'[p] = attempt[p] + 1
    <3>1. CASE Retry(p)
      BY <3>1 DEF Retry, TokensOK, LocalsOK
    <3>2. CASE \/ Answered(p) \/ Rejected(p) \/ Forbidden(p)
               \/ OutageOutlastsRetries(p) \/ Throttled(p)
      <4>1. PICK l \in {"healing", "unauthorized", "tripping", "idle"} : Goto(p, l)
        BY <3>2, Zenon DEF Answered, Rejected, Forbidden, OutageOutlastsRetries, Throttled, Return
      <4> QED BY <4>1 DEF Goto, TokensOK, LocalsOK
    <3> QED BY <1>8, <3>1, <3>2
  <2>4. Cardinality(Coming') <= Cardinality(Coming) - 1
    BY <2>1, <2>2, <2>3, OneFewer
  <2>5. Blocking' => Blocking /\ hits' = hits + 1
    BY <2>1 DEF Hit, Blocking
  <2> QED BY <1>1, <1>2, <1>3, <1>4, <2>4, <2>5
<1>9. ASSUME NEW p \in Threads, CountOutage(p) PROVE HitsBounded'
  <2>1. Trip /\ pc[p] = "tripping" /\ Return(p)
    BY <1>9 DEF CountOutage, At
  <2>2. pc'[p] = "idle" /\ \A q \in Threads : q # p => pc'[q] = pc[q] /\ attempt'[q] = attempt[q]
    BY <2>1 DEF Return, Goto, TokensOK, LocalsOK
  <2>3. Coming' \subseteq Coming
    BY <2>2 DEF Coming
  <2>4. Cardinality(Coming') <= most
    <3>1. Cardinality(Coming) <= most
      BY <2>1, OthersSend DEF most
    <3> QED BY <1>1, <1>3, <1>4, <2>3, <3>1, NoMoreComing
  <2>5. Blocking' => hits' = 0
    <3>1. Blocking' => failures' = FailureThreshold
      BY BreakerKept, Zenon DEF BreakerTypeOK, Blocking
    <3> QED BY <2>1, <3>1, Zenon DEF Trip
  <2> QED BY <1>1, <1>2, <1>4, <2>4, <2>5
<1>10. ASSUME NEW p \in Threads, CountSuccess(p) PROVE HitsBounded'
  BY <1>5, <1>10, Zenon DEF CountSuccess, Heal, Blocking
<1>11. ASSUME NEW p \in Threads, PassBreaker(p) PROVE HitsBounded'
  BY <1>5, <1>7, <1>11 DEF PassBreaker, Passes
<1>12. ASSUME NEW p \in Threads, Request(p) \/ Renewal(p) \/ Connection(p),
              \A q \in Threads : ~BreakerMoves(q), ~PassBreaker(p), ~Tick, ~ServiceChanges, ~Crash
       PROVE  HitsBounded'
  <2>1. pc'[p] # "sending" \/ UNCHANGED <<pc, attempt>>
    BY <1>12, StartsNoRequest DEF BreakerMoves
  <2>2. Coming' \subseteq Coming
    BY <1>12, <2>1, OnlyPMoves DEF Coming
  <2> QED BY <1>6, <1>7, <1>12, <2>2, BreakerRests
<1>13. CASE Tick \/ ServiceChanges
  <2>1. UNCHANGED <<pc, attempt, hits>> /\ (Blocking' => Blocking)
    <3>1. CASE Tick
      BY <3>1, Zenon DEF Tick, Elapse, callVars
    <3>2. CASE ServiceChanges
      <4>1. UNCHANGED <<opened, age>>
        BY <3>2, Zenon DEF ServiceChanges, Turn
      <4>2. Blocking' <=> Blocking
        BY <4>1 DEF Blocking
      <4> QED BY <3>2, <4>2 DEF ServiceChanges, Turn, callVars
    <3> QED BY <1>13, <3>1, <3>2
  <2>2. Coming' = Coming
    BY <2>1 DEF Coming
  <2> QED BY <1>6, <2>1, <2>2
<1>14. CASE Crash
  BY <1>5, <1>14, Zenon DEF Crash, Forget, Blocking
<1>15. CASE Expire \/ UNCHANGED vars
  <2>1. UNCHANGED <<pc, attempt>> /\ UNCHANGED breakerVars
    BY <1>15 DEF Expire, callVars, vars
  <2>2. Coming' = Coming
    BY <2>1 DEF Coming
  <2> QED BY <1>6, <1>7, <2>1, <2>2
<1>16. ASSUME NEW p \in Threads, BreakerMoves(p) PROVE HitsBounded'
  BY <1>8, <1>9, <1>10, <1>16 DEF BreakerMoves
<1> QED BY <1>11, <1>12, <1>13, <1>14, <1>15, <1>16, WhatHappens

LEMMA SceneStays == [Next]_vars => UNCHANGED scene
<1> SUFFICES ASSUME [Next]_vars PROVE UNCHANGED scene
  OBVIOUS
<1>1. ASSUME NEW p \in Threads, Request(p) PROVE UNCHANGED scene
  BY <1>1, Zenon
     DEF Request, ReadCredential, PassBreaker, FailFast, Answered, Rejected, Forbidden, Retry, OutageOutlastsRetries,
         Throttled, ConnectionLost, CountOutage, CountSuccess, RenewAfter401, SecondIs401, Reread, Refused
<1>2. ASSUME NEW p \in Threads, Renewal(p) PROVE UNCHANGED scene
  BY <1>2, Zenon
     DEF Renewal, AskRefresh, AskValidToken, ReadExpiry, ReadBundle, Exchange, ExchangeRefused,
         ExchangeFails, ResponseLost, StoreFirst, StoreSecond
<1>3. ASSUME NEW p \in Threads, Connection(p) PROVE UNCHANGED scene
  BY <1>3, Zenon
     DEF Connection, AskConnect, Finish, FinishLate, Redeem, RedeemFails, RecordConsent, AskDisconnect,
         ForgetBundle, DropConsent
<1>4. CASE Expire \/ Tick \/ ServiceChanges \/ Crash \/ UNCHANGED vars
  BY <1>4, Zenon DEF Expire, Tick, ServiceChanges, Crash, vars
<1> QED BY <1>1, <1>2, <1>3, <1>4, WhatHappens

-----------------------------------------------------------------------------
(* Renewals: one thread that does everything in a process that does not die,   *)
(* or threads that call and refresh over a provider that does not rotate.      *)
Alone == ~scene.crashes /\ Cardinality(scene.threads) = 1
CallsOnly == ~scene.rotating /\ scene.operations \subseteq {"call", "refresh"}

(* The operation a thread serves fits where it is.                             *)
Duty(p) ==
  /\ pc[p] \in {"checking", "sending"} => task[p] \in {"call", "retry"}
  /\ pc[p] \in {"unauthorized", "rereading"} => task[p] \in {"call", "forbidden"}
  /\ pc[p] = "fetched" => task[p] = "valid_token"
  /\ pc[p] \in {"renewing", "exchanging"}
       => task[p] \in {"call", "forbidden", "refresh", "valid_token"}
  /\ pc[p] \in {"storing", "bundling"}
       => task[p] \in {"call", "forbidden", "refresh", "valid_token", "connect"}
  /\ pc[p] \in {"redeeming", "granting"} => task[p] = "connect"
  /\ pc[p] = "idle" => task[p] = "none"

(* How an operation may fail that nobody has disconnected.                     *)
Excused == {"unserved", "forbidden"}

(* Unless it was answered 403, a call renews only a token that has expired; it *)
(* sends again only one that has not; what is about to be exchanged or stored  *)
(* the provider honours.                                                       *)
TokenOK(p) ==
  /\ /\ pc[p] \in {"unauthorized", "rereading", "renewing", "exchanging", "storing", "bundling"}
     /\ task[p] = "call"
     => held[p] <= expired
  /\ task[p] = "retry" => Fresh(held[p])
  /\ pc[p] \in {"exchanging", "storing", "bundling"} => got[p].refresh \in live
  /\ pc[p] = "storing" => Fresh(got[p].of)
  /\ pc[p] \in {"bundling", "rereading"} => Fresh(access)
  /\ pc[p] = "refused" => task[p] \in Excused \/ (task[p] = "refresh" /\ bundle = NoBundle)

(* The bundle a thread is about to read has what the thread needs.             *)
Supplied(p) ==
  /\ pc[p] = "renewing" => bundle.refresh \in live \/ (task[p] = "refresh" /\ bundle = NoBundle)
  /\ pc[p] = "fetched" => /\ held[p] # 0 /\ bundle.of = held[p]
                          /\ bundle.refresh \in live

LEMMA ReturnServes ==
  ASSUME TokensOK, NEW p \in Threads, Return(p)
  PROVE  Duty(p)' /\ TokenOK(p)' /\ pc'[p] = "idle" /\ task'[p] = "none"
<1>1. pc'[p] = "idle" /\ task'[p] = "none"
  BY DEF Return, Goto, TokensOK, LocalsOK
<1> QED BY <1>1 DEF Duty, TokenOK

LEMMA RequestServes ==
  ASSUME TokensOK, NEW p \in Threads, Request(p), Duty(p), TokenOK(p)
  PROVE  Duty(p)' /\ TokenOK(p)'
<1>1. UNCHANGED oauthVars
  BY Zenon
     DEF Request, ReadCredential, PassBreaker, FailFast, Answered, Rejected, Forbidden, Retry, OutageOutlastsRetries,
         Throttled, ConnectionLost, CountOutage, CountSuccess, RenewAfter401, SecondIs401, Reread, Refused
<1>2. /\ UNCHANGED <<access, bundle, expired, live>>
      /\ access \in Nat /\ expired \in Nat /\ held[p] \in Nat
  BY <1>1 DEF oauthVars, TokensOK, OAuthTypeOK, LocalsOK
<1>3. CASE ReadCredential(p)
  <2>1. pc'[p] = "checking" /\ task'[p] = "call"
    BY <1>3 DEF ReadCredential, Ask, Goto, TokensOK, LocalsOK
  <2> QED BY <2>1 DEF Duty, TokenOK
<1>9. CASE Forbidden(p)
  <2>1. pc'[p] = "unauthorized" /\ task'[p] = "forbidden"
    BY <1>9 DEF Forbidden, Goto, TokensOK, LocalsOK
  <2> QED BY <2>1 DEF Duty, TokenOK
<1>4. CASE PassBreaker(p) \/ Retry(p) \/ OutageOutlastsRetries(p)
  <2>1. /\ pc[p] \in {"checking", "sending"} /\ pc'[p] \in {"sending", "tripping"}
        /\ task'[p] = task[p] /\ held'[p] = held[p]
    BY <1>4 DEF PassBreaker, Retry, OutageOutlastsRetries, Goto, At, TokensOK, LocalsOK
  <2> QED BY <1>2, <2>1 DEF Duty, TokenOK, Fresh
<1>5. CASE Answered(p)
  <2>1. /\ pc'[p] = IF Fresh(held[p]) THEN "healing" ELSE "unauthorized"
        /\ pc[p] = "sending" /\ task'[p] = task[p] /\ held'[p] = held[p]
    BY <1>5 DEF Answered, Goto, At, TokensOK, LocalsOK
  <2>2. CASE Fresh(held[p])
    <3>1. pc'[p] = "healing"
      BY <2>1, <2>2
    <3> QED BY <1>2, <2>1, <2>2, <3>1 DEF Duty, TokenOK, Fresh
  <2>3. CASE ~Fresh(held[p])
    <3>1. pc'[p] = "unauthorized" /\ held[p] <= expired /\ task[p] = "call"
      BY <1>2, <2>1, <2>3 DEF Duty, TokenOK, Fresh
    <3> QED BY <1>2, <2>1, <3>1 DEF Duty, TokenOK, Fresh
  <2> QED BY <2>2, <2>3
<1>6. CASE RenewAfter401(p)
  <2>1. /\ pc[p] = "unauthorized" /\ pc'[p] = "renewing" /\ task[p] \in {"call", "forbidden"}
        /\ task'[p] = task[p] /\ held'[p] = held[p]
    BY <1>6 DEF RenewAfter401, Goto, At, TokensOK, LocalsOK
  <2> QED BY <1>2, <2>1 DEF Duty, TokenOK, Fresh
<1>7. CASE SecondIs401(p)
  <2>1. pc[p] = "unauthorized" /\ task[p] = "retry"
    BY <1>7 DEF SecondIs401, At
  <2> QED BY <2>1 DEF Duty
<1>8. CASE Reread(p)
  <2>1. /\ pc[p] = "rereading" /\ access > expired /\ task[p] \in {"call", "forbidden"}
        /\ task[p] = "call" => held[p] <= expired
    BY <1>8 DEF Reread, At, Duty, TokenOK, Fresh
  <2>2. CASE access \in {0, held[p]}
    <3>1. task[p] = "forbidden"
      BY <1>2, <2>1, <2>2
    <3>2. pc'[p] = "refused" /\ task'[p] = "forbidden"
      BY <1>8, <2>2, <3>1 DEF Reread, Goto, TokensOK, LocalsOK
    <3> QED BY <3>2 DEF Duty, TokenOK, Excused
  <2>3. CASE access \notin {0, held[p]}
    <3>1. pc'[p] = "checking" /\ task'[p] = "retry" /\ held'[p] = access
      BY <1>8, <2>3 DEF Reread, Goto, TokensOK, LocalsOK
    <3> QED BY <1>2, <2>1, <3>1 DEF Duty, TokenOK, Fresh
  <2> QED BY <2>2, <2>3
<1> QED BY <1>3, <1>4, <1>5, <1>6, <1>7, <1>8, <1>9, ReturnServes
        DEF Request, FailFast, Rejected, Throttled, ConnectionLost, CountOutage, CountSuccess, Refused

LEMMA RenewalServes ==
  ASSUME TokensOK, NEW p \in Threads, Renewal(p), Duty(p), TokenOK(p), Supplied(p)
  PROVE  Duty(p)' /\ TokenOK(p)'
<1>1. /\ access \in Nat /\ expired \in Nat /\ issued \in Nat /\ expired <= issued
      /\ live \subseteq Nat \ {0} /\ held[p] \in Nat /\ bundle.of \in Nat
      /\ got[p].refresh \in Nat /\ got[p].of \in Nat
  <2>1. /\ access \in 0 .. issued /\ expired \in 0 .. issued /\ issued \in Nat
        /\ live \subseteq 1 .. issued /\ bundle \in [refresh : 0 .. issued, of : 0 .. issued]
    BY DEF TokensOK, OAuthTypeOK
  <2>2. held[p] \in 0 .. issued /\ got[p] \in [refresh : 0 .. issued, of : 0 .. issued]
    BY DEF TokensOK, LocalsOK
  <2> QED BY <2>1, <2>2
<1>2. CASE AskRefresh(p)
  <2>1. pc'[p] = "renewing" /\ task'[p] = "refresh"
    BY <1>2 DEF AskRefresh, Ask, Goto, TokensOK, LocalsOK
  <2> QED BY <2>1 DEF Duty, TokenOK
<1>3. CASE AskValidToken(p)
  <2>1. pc'[p] = "fetched" /\ task'[p] = "valid_token"
    BY <1>3 DEF AskValidToken, Ask, Goto, TokensOK, LocalsOK
  <2> QED BY <2>1 DEF Duty, TokenOK
<1>4. CASE ReadExpiry(p)
  <2>1. pc[p] = "fetched" /\ task[p] = "valid_token"
    BY <1>4 DEF ReadExpiry, At, Duty
  <2>2. bundle.refresh # 0 /\ held[p] # 0 /\ bundle.of = held[p]
    BY <1>1, <2>1 DEF Supplied
  <2>3. PICK early \in BOOLEAN :
          IF Expiring(bundle, early) /\ bundle.refresh # 0
          THEN Goto(p, "renewing") /\ UNCHANGED <<task, held, got, attempt>>
          ELSE IF Fresh(held[p]) THEN Return(p)
               ELSE Goto(p, "refused") /\ UNCHANGED <<task, held, got, attempt>>
    BY <1>4 DEF ReadExpiry
  <2>4. ~Fresh(held[p]) => Expiring(bundle, early)
    BY <2>2, Zenon DEF Expiring
  <2>5. Return(p) \/ (Goto(p, "renewing") /\ UNCHANGED task)
    BY <2>2, <2>3, <2>4, Zenon
  <2>6. CASE Goto(p, "renewing") /\ UNCHANGED task
    <3>1. pc'[p] = "renewing" /\ task'[p] = "valid_token"
      BY <2>1, <2>6 DEF Goto, TokensOK, LocalsOK
    <3> QED BY <3>1 DEF Duty, TokenOK
  <2> QED BY <2>5, <2>6, ReturnServes
<1>5. CASE ReadBundle(p)
  <2>1. /\ pc[p] = "renewing" /\ task'[p] = task[p] /\ held'[p] = held[p]
        /\ task[p] \in {"call", "forbidden", "refresh", "valid_token"}
        /\ UNCHANGED <<access, bundle, expired, live>>
    BY <1>5 DEF ReadBundle, At, oauthVars, Duty
  <2>2. CASE bundle.refresh # 0
    <3>1. bundle.refresh \in live
      BY <2>1, <2>2 DEF Supplied, NoBundle
    <3>2. pc'[p] = "exchanging" /\ got'[p].refresh = bundle.refresh
      BY <1>5, <2>2 DEF ReadBundle, Goto, NoBundle, TokensOK, LocalsOK
    <3> QED BY <2>1, <3>1, <3>2 DEF Duty, TokenOK, Fresh
  <2>3. CASE bundle.refresh = 0
    <3>1. task[p] = "refresh" /\ bundle = NoBundle
      BY <1>1, <2>1, <2>3 DEF Supplied
    <3>2. pc'[p] = "refused"
      BY <1>5, <2>3 DEF ReadBundle, Goto, TokensOK, LocalsOK
    <3> QED BY <2>1, <3>1, <3>2 DEF Duty, TokenOK
  <2> QED BY <2>2, <2>3
<1>6. CASE Exchange(p)
  <2>1. /\ pc[p] = "exchanging" /\ pc'[p] = "storing" /\ task'[p] = task[p] /\ held'[p] = held[p]
        /\ got'[p].refresh = KeepRefresh(got[p].refresh, scene.rotating)
        /\ got'[p].of = issued + 1 /\ UNCHANGED expired
        /\ GrantRefresh(got[p].refresh, scene.rotating)
    BY <1>6 DEF Exchange, At, Goto, TokensOK, LocalsOK
  <2>2. got'[p].refresh \in live'
    BY <2>1 DEF GrantRefresh, KeepRefresh
  <2>3. got'[p].of > expired
    BY <1>1, <2>1
  <2> QED BY <2>1, <2>2, <2>3 DEF Duty, TokenOK, Fresh
<1>7. CASE ExchangeRefused(p)
  BY <1>7 DEF ExchangeRefused, At, TokenOK
<1>8. CASE StoreFirst(p)
  <2>1. /\ pc[p] = "storing" /\ pc'[p] = "bundling" /\ task'[p] = task[p] /\ held'[p] = held[p]
        /\ got'[p] = got[p] /\ access' = got[p].of /\ UNCHANGED <<expired, live>>
    BY <1>8 DEF StoreFirst, StoreAccess, At, Goto, TokensOK, LocalsOK
  <2> QED BY <2>1 DEF Duty, TokenOK, Fresh
<1>9. CASE StoreSecond(p)
  <2>1. /\ pc[p] = "bundling" /\ (held'[p] = held[p] \/ Return(p))
        /\ UNCHANGED <<access, expired, live>>
    BY <1>9, Zenon DEF StoreSecond, StoreBundle, At
  <2>2. CASE Return(p)
    BY <2>2, ReturnServes
  <2>3. CASE Goto(p, "granting") /\ task[p] = "connect" /\ UNCHANGED <<task, held, got, attempt>>
    <3>1. pc'[p] = "granting" /\ task'[p] = "connect"
      BY <2>3 DEF Goto, TokensOK, LocalsOK
    <3> QED BY <3>1 DEF Duty, TokenOK
  <2>4. CASE /\ Goto(p, "rereading") /\ task[p] \in {"call", "forbidden"}
             /\ UNCHANGED <<task, held, attempt>>
    <3>1. pc'[p] = "rereading" /\ task'[p] = task[p] /\ held'[p] = held[p] /\ pc[p] = "bundling"
      BY <1>9, <2>4 DEF Goto, StoreSecond, At, TokensOK, LocalsOK
    <3> QED BY <2>1, <2>4, <3>1 DEF Duty, TokenOK, Fresh
  <2> QED BY <1>9, <2>2, <2>3, <2>4 DEF StoreSecond
<1>10. CASE ExchangeFails(p) \/ ResponseLost(p)
  <2>1. pc'[p] = "refused" /\ task'[p] = "unserved"
    BY <1>10 DEF ExchangeFails, ResponseLost, Unserved, Goto, TokensOK, LocalsOK
  <2> QED BY <2>1 DEF Duty, TokenOK, Excused
<1> QED BY <1>2, <1>3, <1>4, <1>5, <1>6, <1>7, <1>8, <1>9, <1>10 DEF Renewal

LEMMA ConnectionServes ==
  ASSUME TokensOK, NEW p \in Threads, Connection(p), Duty(p), TokenOK(p)
  PROVE  Duty(p)' /\ TokenOK(p)'
<1>1. CASE AskConnect(p) \/ FinishLate(p)
  <2>1. pc[p] = "idle" /\ pc' = pc /\ task' = task
    BY <1>1 DEF AskConnect, FinishLate, MayAsk, At, callVars
  <2>2. task[p] = "none"
    BY <2>1 DEF Duty
  <2> QED BY <2>1, <2>2 DEF Duty, TokenOK
<1>2. CASE Finish(p) \/ AskDisconnect(p)
  <2>1. /\ pc'[p] \in {"redeeming", "forgetting"} /\ task'[p] \in {"connect", "disconnect"}
        /\ pc'[p] = "redeeming" => task'[p] = "connect"
    BY <1>2 DEF Finish, AskDisconnect, Ask, Goto, TokensOK, LocalsOK
  <2> QED BY <2>1 DEF Duty, TokenOK
<1>3. CASE Redeem(p)
  <2>1. /\ pc[p] = "redeeming" /\ pc'[p] = "storing" /\ task'[p] = task[p]
        /\ got'[p].refresh = issued + 1 /\ got'[p].of = issued + 1
        /\ live' = live \cup {issued + 1} /\ UNCHANGED expired
    BY <1>3 DEF Redeem, GrantCode, At, Goto, TokensOK, LocalsOK
  <2>2. task[p] = "connect"
    BY <2>1 DEF Duty
  <2>3. issued + 1 > expired
    BY DEF TokensOK, OAuthTypeOK
  <2> QED BY <2>1, <2>2, <2>3 DEF Duty, TokenOK, Fresh
<1>4. CASE ForgetBundle(p)
  <2>1. pc[p] = "forgetting" /\ pc'[p] = "revoking" /\ task'[p] = task[p] /\ held'[p] = held[p]
        /\ UNCHANGED expired
    BY <1>4 DEF ForgetBundle, DeleteBundle, At, Goto, TokensOK, LocalsOK
  <2> QED BY <2>1 DEF Duty, TokenOK, Fresh
<1> QED BY <1>1, <1>2, <1>3, <1>4, ReturnServes DEF Connection, RedeemFails, RecordConsent, DropConsent

(* What p's neighbours, the clock and the service do leaves p as it was.       *)
LEMMA Undisturbed ==
  ASSUME TokensOK, NEW p \in Threads, Duty(p), TokenOK(p), pc[p] = "refused" => task[p] \in Excused,
         pc'[p] = pc[p], task'[p] = task[p], held'[p] = held[p], got'[p] = got[p],
         expired' = expired, live \subseteq live', Fresh(access) => Fresh(access')
  PROVE  Duty(p)' /\ TokenOK(p)'
  BY DEF Duty, TokenOK, Fresh

LEMMA ExpiryWaits ==
  ASSUME TokensOK, NEW p \in Threads, Duty(p), TokenOK(p), Expire, Calm
  PROVE  Duty(p)' /\ TokenOK(p)'
<1>1. /\ expired' = expired + 1 /\ expired \in Nat
      /\ pc[p] \notin {"storing", "bundling", "rereading", "fetched"} /\ task[p] # "retry"
      /\ UNCHANGED <<access, bundle, live, pc, task, held, got>>
  BY DEF Expire, callVars, TokensOK, OAuthTypeOK
<1>2. held[p] \in Nat
  BY DEF TokensOK, OAuthTypeOK, LocalsOK
<1>3. held[p] <= expired => held[p] <= expired + 1
  BY <1>1, <1>2
<1> QED BY <1>1, <1>3 DEF Duty, TokenOK

(* Threads that call and refresh: the connection stays, and what renews it.    *)
CallPCs == {"idle", "checking", "sending", "tripping", "healing", "unauthorized",
            "rereading", "renewing", "exchanging", "storing", "bundling", "refused"}
CallTasks == {"none", "call", "retry", "refresh"} \cup Excused

Calling(p) ==
  /\ pc[p] \in CallPCs /\ task[p] \in CallTasks /\ Duty(p) /\ TokenOK(p)
  /\ pc[p] = "refused" => task[p] \in Excused

CallsInv ==
  CallsOnly => /\ access # 0 /\ bundle.refresh \in live
               /\ \A p \in Threads : Calling(p)

LEMMA CallsGoOn ==
  ASSUME TokensOK, CallsInv, CallsOnly, [Next]_vars, NEW p \in Threads,
         Request(p) \/ Renewal(p) \/ Connection(p)
  PROVE  /\ Calling(p)' /\ access' # 0 /\ bundle'.refresh \in live'
         /\ expired' = expired /\ live \subseteq live' /\ (Fresh(access) => Fresh(access'))
<1>1. /\ access # 0 /\ bundle.refresh \in live /\ Calling(p)
      /\ ~scene.rotating /\ scene.operations \subseteq {"call", "refresh"}
  BY DEF CallsInv, CallsOnly
<1>2. pc[p] \in CallPCs /\ task[p] \in CallTasks /\ Duty(p) /\ TokenOK(p)
  BY <1>1 DEF Calling
<1>3. Supplied(p)
  BY <1>1, <1>2 DEF Supplied, CallPCs
<1>4. ~Connection(p)
  BY <1>1, <1>2
     DEF Connection, AskConnect, Finish, FinishLate, Redeem, RedeemFails, RecordConsent, AskDisconnect,
         ForgetBundle, DropConsent, Ask, MayAsk, At, CallPCs
<1>5. Duty(p)' /\ TokenOK(p)'
  BY <1>2, <1>3, <1>4, RequestServes, RenewalServes
<1>6. ASSUME Return(p) PROVE Calling(p)'
  BY <1>5, <1>6, ReturnServes DEF Calling, CallPCs, CallTasks
<1>7. ASSUME NEW l \in CallPCs \ {"refused"}, Goto(p, l),
             UNCHANGED task \/ \E k \in CallTasks : task' = [task EXCEPT ![p] = k]
      PROVE  Calling(p)'
  BY <1>2, <1>5, <1>7 DEF Calling, Goto, TokensOK, LocalsOK
<1>8. CASE Request(p)
  <2>1. UNCHANGED <<access, bundle, expired, live>>
    BY <1>8, Zenon
       DEF oauthVars, Request, ReadCredential, PassBreaker, FailFast, Answered, Rejected, Forbidden, Retry,
           OutageOutlastsRetries, Throttled, ConnectionLost, CountOutage, CountSuccess,
           RenewAfter401, SecondIs401, Reread, Refused
  <2>2. ASSUME Retry(p) PROVE Calling(p)'
    <3>1. UNCHANGED <<pc, task>>
      BY <2>2 DEF Retry
    <3> QED BY <1>1, <1>2, <1>5, <3>1 DEF Calling
  <2>3. ASSUME \/ ReadCredential(p) \/ PassBreaker(p) \/ Answered(p) \/ Forbidden(p)
               \/ OutageOutlastsRetries(p) \/ RenewAfter401(p)
        PROVE  Calling(p)'
    <3>1. PICK l \in {"checking", "sending", "healing", "unauthorized", "tripping", "renewing"} :
            Goto(p, l)
      BY <2>3, Zenon
         DEF ReadCredential, PassBreaker, Answered, Forbidden, OutageOutlastsRetries, RenewAfter401
    <3>2. UNCHANGED task \/ \E k \in {"call", "forbidden"} : task' = [task EXCEPT ![p] = k]
      BY <2>3, Zenon
         DEF ReadCredential, Ask, PassBreaker, Answered, Forbidden, OutageOutlastsRetries, RenewAfter401
    <3>3. l \in CallPCs \ {"refused"} /\ {"call", "forbidden"} \subseteq CallTasks
      BY <3>1 DEF CallPCs, CallTasks, Excused
    <3> QED BY <1>7, <3>1, <3>2, <3>3
  <2>4. ASSUME Reread(p) PROVE Calling(p)'
    <3>1. CASE Goto(p, "refused") /\ UNCHANGED task
      <4>1. pc'[p] = "refused" /\ task'[p] = task[p] /\ pc[p] = "rereading"
        BY <2>4, <3>1 DEF Reread, At, Goto, TokensOK, LocalsOK
      <4>2. task[p] = "forbidden"
        BY <1>2, <1>5, <4>1 DEF Duty, TokenOK, Excused
      <4> QED BY <1>5, <4>1, <4>2 DEF Calling, CallPCs, CallTasks, Excused
    <3>2. CASE Goto(p, "checking") /\ task' = [task EXCEPT ![p] = "retry"]
      BY <1>7, <3>2 DEF CallPCs, CallTasks
    <3> QED BY <2>4, <3>1, <3>2 DEF Reread
  <2>5. ~SecondIs401(p)
    BY <1>2 DEF SecondIs401, At, Duty
  <2>6. ASSUME Return(p) PROVE Calling(p)'
    BY <1>6, <2>6
  <2>7. Calling(p)'
    BY <1>8, <2>2, <2>3, <2>4, <2>5, <2>6
       DEF Request, FailFast, Rejected, Throttled, ConnectionLost, CountOutage, CountSuccess, Refused
  <2> QED BY <1>1, <2>1, <2>7 DEF Fresh
<1>9. CASE Renewal(p)
  <2>1. ~AskValidToken(p) /\ ~ReadExpiry(p)
    BY <1>1, <1>2 DEF AskValidToken, ReadExpiry, Ask, MayAsk, At, CallPCs
  <2>2. ~ExchangeRefused(p)
    BY <1>2 DEF ExchangeRefused, At, TokenOK
  <2>3. CASE ReadBundle(p) \/ AskRefresh(p)
    <3>1. bundle.refresh # 0
      BY <1>1 DEF TokensOK, OAuthTypeOK
    <3>2. PICK l \in {"exchanging", "renewing"} : Goto(p, l)
      BY <2>3, <3>1 DEF ReadBundle, AskRefresh
    <3>3. /\ UNCHANGED <<access, bundle, expired, live>>
          /\ UNCHANGED task \/ task' = [task EXCEPT ![p] = "refresh"]
      BY <2>3 DEF ReadBundle, AskRefresh, Ask, oauthVars
    <3>4. Calling(p)'
      BY <1>7, <3>2, <3>3 DEF CallPCs, CallTasks
    <3> QED BY <1>1, <3>3, <3>4 DEF Fresh
  <2>4. CASE Exchange(p)
    <3>1. /\ Goto(p, "storing") /\ UNCHANGED <<access, bundle, expired, task>> /\ live' = live
      BY <1>1, <2>4 DEF Exchange, GrantRefresh
    <3>2. Calling(p)'
      BY <1>7, <3>1 DEF CallPCs
    <3> QED BY <1>1, <3>1, <3>2 DEF Fresh
  <2>5. CASE StoreFirst(p)
    <3>1. /\ Goto(p, "bundling") /\ UNCHANGED <<bundle, expired, live, task>>
          /\ access' = got[p].of /\ pc[p] = "storing"
      BY <2>5 DEF StoreFirst, StoreAccess, At
    <3>2. got[p].of > expired
      BY <1>2, <3>1 DEF TokenOK, Fresh
    <3>3. expired \in Nat
      BY DEF TokensOK, OAuthTypeOK
    <3>4. access' # 0
      BY <3>1, <3>2, <3>3
    <3>5. Calling(p)'
      BY <1>7, <3>1 DEF CallPCs
    <3> QED BY <1>1, <3>1, <3>2, <3>4, <3>5 DEF Fresh
  <2>6. CASE StoreSecond(p)
    <3>1. /\ pc[p] = "bundling" /\ bundle' = [refresh |-> got[p].refresh, of |-> got[p].of]
          /\ UNCHANGED <<access, expired, live>>
      BY <2>6 DEF StoreSecond, StoreBundle, At
    <3>2. bundle'.refresh \in live'
      BY <1>2, <3>1 DEF TokenOK
    <3>3. Return(p) \/ (Goto(p, "rereading") /\ UNCHANGED task)
      BY <1>2, <2>6 DEF StoreSecond, CallTasks, Excused
    <3>4. Calling(p)'
      BY <1>6, <1>7, <3>3 DEF CallPCs
    <3> QED BY <1>1, <3>1, <3>2, <3>4 DEF Fresh
  <2>7. CASE ExchangeFails(p) \/ ResponseLost(p)
    <3>1. UNCHANGED <<access, bundle, expired, live>>
      BY <1>1, <2>7 DEF ExchangeFails, ResponseLost, GrantRefresh, oauthVars
    <3>2. pc'[p] = "refused" /\ task'[p] = "unserved"
      BY <2>7 DEF ExchangeFails, ResponseLost, Unserved, Goto, TokensOK, LocalsOK
    <3>3. Calling(p)'
      BY <1>5, <3>2 DEF Calling, CallPCs, CallTasks, Excused
    <3> QED BY <1>1, <3>1, <3>3 DEF Fresh
  <2> QED BY <1>9, <2>1, <2>2, <2>3, <2>4, <2>5, <2>6, <2>7 DEF Renewal
<1> QED BY <1>4, <1>8, <1>9

LEMMA CallsKept ==
  ASSUME TokensOK, CallsInv, [Next]_vars
  PROVE  CallsInv'
<1> SUFFICES ASSUME CallsOnly
             PROVE  /\ access' # 0 /\ bundle'.refresh \in live'
                    /\ \A p \in Threads : Calling(p)'
  BY SceneStays DEF CallsInv, CallsOnly
<1>1. access # 0 /\ bundle.refresh \in live /\ \A p \in Threads : Calling(p)
  BY DEF CallsInv
<1>2. CASE \E p \in Threads : Request(p) \/ Renewal(p) \/ Connection(p)
  <2>1. PICK p \in Threads : Request(p) \/ Renewal(p) \/ Connection(p)
    BY <1>2
  <2>2. /\ Calling(p)' /\ access' # 0 /\ bundle'.refresh \in live'
        /\ expired' = expired /\ live \subseteq live' /\ (Fresh(access) => Fresh(access'))
    BY <2>1, CallsGoOn
  <2>3. ASSUME NEW q \in Threads, q # p PROVE Calling(q)'
    <3>1. /\ pc'[q] = pc[q] /\ task'[q] = task[q] /\ held'[q] = held[q] /\ got'[q] = got[q]
      BY <2>1, <2>3, OnlyPMoves
    <3>2. Calling(q)
      BY <1>1
    <3>3. Duty(q)' /\ TokenOK(q)'
      BY <2>2, <3>1, <3>2, Undisturbed DEF Calling
    <3> QED BY <3>1, <3>2, <3>3 DEF Calling
  <2> QED BY <2>2, <2>3
<1>3. CASE Expire
  <2>1. UNCHANGED <<access, bundle, live, pc, task>>
    BY <1>3 DEF Expire, callVars
  <2>2. \A p \in Threads : Duty(p)' /\ TokenOK(p)'
    BY <1>1, <1>3, ExpiryWaits DEF Calling, CallsOnly, Calm
  <2> QED BY <1>1, <2>1, <2>2 DEF Calling
<1>4. CASE Tick \/ ServiceChanges \/ UNCHANGED vars
  <2>1. UNCHANGED <<access, bundle, live, expired, pc, task, held, got>>
    BY <1>4 DEF Tick, ServiceChanges, oauthVars, callVars, vars
  <2> QED BY <1>1, <2>1 DEF Calling, Duty, TokenOK, Fresh
<1>5. CASE Crash
  <2>1. /\ UNCHANGED <<access, bundle, live>>
        /\ \A p \in Threads : pc'[p] = "idle" /\ task'[p] = "none"
    BY <1>5 DEF Crash, oauthVars
  <2> QED BY <1>1, <2>1 DEF Calling, CallPCs, CallTasks, Duty, TokenOK
<1> QED BY <1>2, <1>3, <1>4, <1>5, WhatHappens

(* One thread that does everything: what the vault holds belongs together,     *)
(* except while that thread is between two stores.                             *)
Paired ==
  \/ access = 0 /\ bundle = NoBundle
  \/ access # 0 /\ bundle.of = access /\ bundle.refresh \in live

VaultOK(p) ==
  /\ pc[p] \notin {"storing", "bundling", "forgetting"} => Paired
  /\ pc[p] \in {"checking", "sending", "unauthorized", "fetched"} => access # 0
  /\ pc[p] = "renewing" => access # 0 \/ task[p] = "refresh"
  /\ pc[p] = "fetched" => held[p] = access
  /\ pc[p] = "bundling" => access = got[p].of
  /\ pc[p] = "forgetting" => access = 0

Served == \A p \in Threads : pc[p] # "idle" => p \in scene.threads

AloneInv == Alone => \A p \in scene.threads : Duty(p) /\ TokenOK(p) /\ VaultOK(p)

(* Threads that are not in the scene never move.                               *)
LEMMA WhoMoves ==
  ASSUME Served, NEW p \in Threads, Request(p) \/ Renewal(p) \/ Connection(p)
  PROVE  p \in scene.threads
  BY DEF Served, Ask, MayAsk, At,
         Request, ReadCredential, PassBreaker, FailFast, Answered, Rejected, Forbidden, Retry, OutageOutlastsRetries,
           Throttled, ConnectionLost, CountOutage, CountSuccess, RenewAfter401, SecondIs401, Reread,
           Refused, Renewal, AskRefresh, AskValidToken, ReadExpiry, ReadBundle, Exchange,
           ExchangeRefused, ExchangeFails, ResponseLost, StoreFirst, StoreSecond, Connection, AskConnect, Finish,
           FinishLate, Redeem, RedeemFails, RecordConsent, AskDisconnect, ForgetBundle, DropConsent

LEMMA ServedKept ==
  ASSUME TokensOK, Served, [Next]_vars
  PROVE  Served'
<1>1. UNCHANGED scene
  BY SceneStays
<1>2. ASSUME NEW p \in Threads, Request(p) \/ Renewal(p) \/ Connection(p) PROVE Served'
  BY <1>1, <1>2, OnlyPMoves, WhoMoves DEF Served
<1>3. CASE Expire \/ Tick \/ ServiceChanges \/ UNCHANGED vars
  BY <1>1, <1>3 DEF Expire, Tick, ServiceChanges, callVars, vars, Served
<1>4. CASE Crash
  BY <1>4 DEF Crash, Served
<1> QED BY <1>2, <1>3, <1>4, WhatHappens

(* Back at idle, or anywhere between stores, the vault is as it should be.     *)
LEMMA RequestKeepsVault ==
  ASSUME TokensOK, NEW p \in Threads, Request(p), Duty(p), TokenOK(p), VaultOK(p)
  PROVE  VaultOK(p)'
<1>1. UNCHANGED <<access, bundle, live>>
  BY Zenon
     DEF oauthVars, Request, ReadCredential, PassBreaker, FailFast, Answered, Rejected, Forbidden, Retry,
         OutageOutlastsRetries, Throttled, ConnectionLost, CountOutage, CountSuccess,
         RenewAfter401, SecondIs401, Reread, Refused
<1>2. pc[p] \notin {"storing", "bundling", "forgetting"}
  BY DEF Request, ReadCredential, PassBreaker, FailFast, Answered, Rejected, Forbidden, Retry,
         OutageOutlastsRetries, Throttled, ConnectionLost, CountOutage, CountSuccess,
         RenewAfter401, SecondIs401, Reread, Refused, Ask, MayAsk, At
<1>3. Paired'
  BY <1>1, <1>2 DEF VaultOK, Paired
<1>4. ASSUME Return(p) PROVE VaultOK(p)'
  BY <1>3, <1>4, ReturnServes DEF VaultOK
<1>5. CASE ReadCredential(p)
  <2>1. pc'[p] = "checking" /\ access' # 0
    BY <1>1, <1>5 DEF ReadCredential, Goto, TokensOK, LocalsOK
  <2> QED BY <1>3, <2>1 DEF VaultOK
<1>6. CASE \/ PassBreaker(p) \/ Answered(p) \/ Forbidden(p) \/ Retry(p)
           \/ OutageOutlastsRetries(p) \/ RenewAfter401(p)
  <2>1. /\ pc'[p] \in {"sending", "healing", "unauthorized", "tripping", "renewing"}
        /\ pc[p] \in {"checking", "sending", "unauthorized"}
    BY <1>6
       DEF PassBreaker, Answered, Forbidden, Retry, OutageOutlastsRetries, RenewAfter401, At, Goto,
           TokensOK, LocalsOK
  <2>2. access' # 0
    BY <1>1, <2>1 DEF VaultOK
  <2> QED BY <1>3, <2>1, <2>2 DEF VaultOK
<1>7. CASE SecondIs401(p)
  <2>1. pc'[p] = "refused"
    BY <1>7 DEF SecondIs401, Goto, TokensOK, LocalsOK
  <2> QED BY <1>3, <2>1 DEF VaultOK
<1>8. CASE Reread(p)
  <2>1. pc[p] = "rereading" /\ pc'[p] \in {"refused", "checking"}
    BY <1>8 DEF Reread, At, Goto, TokensOK, LocalsOK
  <2>2. access' # 0
    BY <1>1, <2>1 DEF TokenOK, Fresh, TokensOK, OAuthTypeOK
  <2> QED BY <1>3, <2>1, <2>2 DEF VaultOK
<1> QED BY <1>4, <1>5, <1>6, <1>7, <1>8
        DEF Request, FailFast, Rejected, Throttled, ConnectionLost, CountOutage, CountSuccess, Refused

LEMMA RenewalKeepsVault ==
  ASSUME TokensOK, NEW p \in Threads, Renewal(p), Duty(p), TokenOK(p), VaultOK(p), ~scene.crashes
  PROVE  VaultOK(p)'
<1>1. /\ access \in Nat /\ expired \in Nat
  BY DEF TokensOK, OAuthTypeOK
<1>2. ASSUME UNCHANGED <<access, bundle, live>>, pc[p] \notin {"storing", "bundling", "forgetting"}
      PROVE  Paired'
  BY <1>2 DEF VaultOK, Paired
<1>3. CASE AskRefresh(p) \/ AskValidToken(p) \/ ReadBundle(p) \/ ExchangeRefused(p)
  <2>1. UNCHANGED <<access, bundle, live>> /\ pc[p] \in {"idle", "renewing", "exchanging"}
    BY <1>3 DEF AskRefresh, AskValidToken, ReadBundle, ExchangeRefused, Ask, MayAsk, At, oauthVars
  <2>2. Paired'
    BY <1>2, <2>1
  <2>3. /\ pc'[p] \in {"renewing", "fetched", "exchanging", "refused"}
        /\ pc'[p] = "renewing" => task'[p] = "refresh"
        /\ pc'[p] = "fetched" => access' # 0 /\ held'[p] = access'
    BY <1>3, <2>1
       DEF AskRefresh, AskValidToken, ReadBundle, ExchangeRefused, Ask, Goto, TokensOK, LocalsOK
  <2> QED BY <2>2, <2>3 DEF VaultOK
<1>4. CASE ReadExpiry(p)
  <2>1. UNCHANGED <<access, bundle, live>> /\ pc[p] = "fetched"
    BY <1>4 DEF ReadExpiry, At, oauthVars
  <2>2. Paired' /\ access' # 0
    BY <1>2, <2>1 DEF VaultOK
  <2>3. PICK l \in {"renewing", "refused", "idle"} : Goto(p, l)
    BY <1>4, Zenon DEF ReadExpiry, Return
  <2>4. pc'[p] = l
    BY <2>3 DEF Goto, TokensOK, LocalsOK
  <2> QED BY <2>2, <2>4 DEF VaultOK
<1>5. CASE Exchange(p)
  <2>1. pc'[p] = "storing"
    BY <1>5 DEF Exchange, Goto, TokensOK, LocalsOK
  <2> QED BY <2>1 DEF VaultOK
<1>6. CASE StoreFirst(p)
  <2>1. pc'[p] = "bundling" /\ access' = got[p].of /\ got'[p] = got[p]
    BY <1>6 DEF StoreFirst, StoreAccess, Goto, TokensOK, LocalsOK
  <2> QED BY <2>1 DEF VaultOK
<1>7. CASE StoreSecond(p)
  <2>1. /\ pc[p] = "bundling" /\ bundle' = [refresh |-> got[p].refresh, of |-> got[p].of]
        /\ UNCHANGED <<access, live>>
    BY <1>7 DEF StoreSecond, StoreBundle, At
  <2>2. access > expired /\ access = got[p].of /\ got[p].refresh \in live
    BY <2>1 DEF TokenOK, VaultOK, Fresh
  <2>3. access # 0
    BY <1>1, <2>2
  <2>4. Paired'
    BY <2>1, <2>2, <2>3 DEF Paired
  <2>5. PICK l \in {"granting", "rereading", "idle"} : Goto(p, l)
    BY <1>7, Zenon DEF StoreSecond, Return
  <2>6. pc'[p] = l
    BY <2>5 DEF Goto, TokensOK, LocalsOK
  <2> QED BY <2>4, <2>6 DEF VaultOK
<1>8. CASE ExchangeFails(p)
  <2>1. UNCHANGED <<access, bundle, live>> /\ pc[p] = "exchanging" /\ pc'[p] = "refused"
    BY <1>8 DEF ExchangeFails, Unserved, At, Goto, oauthVars, TokensOK, LocalsOK
  <2>2. Paired'
    BY <1>2, <2>1
  <2> QED BY <2>1, <2>2 DEF VaultOK
<1> QED BY <1>3, <1>4, <1>5, <1>6, <1>7, <1>8 DEF Renewal, ResponseLost

LEMMA ConnectionKeepsVault ==
  ASSUME TokensOK, NEW p \in Threads, Connection(p), VaultOK(p)
  PROVE  VaultOK(p)'
<1>1. CASE AskConnect(p) \/ FinishLate(p)
  <2>1. UNCHANGED <<access, bundle, live, pc, task, held, got>>
    BY <1>1 DEF AskConnect, FinishLate, Start, PopPending, callVars
  <2> QED BY <2>1 DEF VaultOK, Paired
<1>2. CASE Finish(p) \/ RedeemFails(p) \/ RecordConsent(p)
  <2>1. UNCHANGED <<access, bundle, live>> /\ pc[p] \in {"idle", "redeeming", "granting"}
    BY <1>2 DEF Finish, RedeemFails, RecordConsent, PopPending, GrantConsent, Ask, MayAsk, At, oauthVars
  <2>2. Paired'
    BY <2>1 DEF VaultOK, Paired
  <2>3. pc'[p] \in {"redeeming", "idle"}
    BY <1>2, ReturnServes DEF Finish, RedeemFails, RecordConsent, Goto, TokensOK, LocalsOK
  <2> QED BY <2>2, <2>3 DEF VaultOK
<1>3. CASE Redeem(p)
  <2>1. pc'[p] = "storing"
    BY <1>3 DEF Redeem, Goto, TokensOK, LocalsOK
  <2> QED BY <2>1 DEF VaultOK
<1>4. CASE AskDisconnect(p)
  <2>1. pc'[p] = "forgetting" /\ access' = 0
    BY <1>4 DEF AskDisconnect, DeleteAccess, Goto, TokensOK, LocalsOK
  <2> QED BY <2>1 DEF VaultOK
<1>5. CASE ForgetBundle(p)
  <2>1. pc[p] = "forgetting" /\ pc'[p] = "revoking" /\ bundle' = NoBundle /\ access' = access
    BY <1>5 DEF ForgetBundle, DeleteBundle, At, Goto, TokensOK, LocalsOK
  <2> QED BY <2>1 DEF VaultOK, Paired
<1>6. CASE DropConsent(p)
  <2>1. UNCHANGED <<access, bundle, live>> /\ pc[p] = "revoking" /\ Return(p)
    BY <1>6 DEF DropConsent, RevokeConsent, At
  <2>2. Paired' /\ pc'[p] = "idle"
    BY <2>1, ReturnServes DEF VaultOK, Paired
  <2> QED BY <2>2 DEF VaultOK
<1> QED BY <1>1, <1>2, <1>3, <1>4, <1>5, <1>6 DEF Connection

LEMMA AloneKept ==
  ASSUME TokensOK, scene \in Scenes, Served, AloneInv, [Next]_vars
  PROVE  AloneInv'
<1> SUFFICES ASSUME Alone, NEW p \in scene.threads
             PROVE  Duty(p)' /\ TokenOK(p)' /\ VaultOK(p)'
  BY SceneStays DEF AloneInv, Alone
<1>1. p \in Threads /\ scene.threads = {p}
  <2>1. scene.threads \subseteq Threads
    BY ScenesAssumption
  <2>2. IsFiniteSet(scene.threads)
    BY <2>1, FS_Subset, ThreadsAssumption
  <2> QED BY <2>1, <2>2, FS_Singleton DEF Alone
<1>2. Duty(p) /\ TokenOK(p) /\ VaultOK(p)
  BY DEF AloneInv
<1>3. Supplied(p)
  BY <1>2 DEF VaultOK, Paired, Supplied
<1>4. CASE \E q \in Threads : Request(q) \/ Renewal(q) \/ Connection(q)
  <2>1. Request(p) \/ Renewal(p) \/ Connection(p)
    BY <1>1, <1>4, WhoMoves
  <2>2. Duty(p)' /\ TokenOK(p)'
    BY <1>1, <1>2, <1>3, <2>1, RequestServes, RenewalServes, ConnectionServes
  <2>3. VaultOK(p)'
    BY <1>1, <1>2, <2>1, RequestKeepsVault, RenewalKeepsVault, ConnectionKeepsVault DEF Alone
  <2> QED BY <2>2, <2>3
<1>5. CASE Expire
  <2>1. Duty(p)' /\ TokenOK(p)'
    BY <1>1, <1>2, <1>5, ExpiryWaits DEF Alone, Calm
  <2>2. VaultOK(p)'
    BY <1>2, <1>5 DEF Expire, callVars, VaultOK, Paired
  <2> QED BY <2>1, <2>2
<1>6. CASE Tick \/ ServiceChanges \/ UNCHANGED vars
  <2>1. UNCHANGED <<access, bundle, live, expired, pc, task, held, got>>
    BY <1>6 DEF Tick, ServiceChanges, oauthVars, callVars, vars
  <2> QED BY <1>2, <2>1 DEF Duty, TokenOK, VaultOK, Paired, Fresh
<1>7. CASE Crash
  BY <1>7 DEF Crash, Alone
<1> QED BY <1>4, <1>5, <1>6, <1>7, WhatHappens

-----------------------------------------------------------------------------
Inv ==
  /\ BreakerTypeOK /\ TokensOK /\ scene \in Scenes
  /\ HistoryOK /\ SignOutOK /\ HitsBounded
  /\ Served /\ CallsInv /\ AloneInv

LEMMA InvStarts == Init => Inv
<1> SUFFICES ASSUME Init PROVE Inv
  OBVIOUS
<1>1. BreakerTypeOK
  <2>1. failures = 0 /\ opened = FALSE /\ age = 0 /\ service \in Services /\ hits = 0
    BY DEF Init, ResilienceInit, Services
  <2>2. 0 \in 0 .. FailureThreshold /\ 0 \in 0 .. ResetAfter /\ 0 \in Nat /\ 0 # FailureThreshold
    OBVIOUS
  <2> QED BY <2>1, <2>2, Zenon DEF BreakerTypeOK
<1>2. OAuthTypeOK
  <2>1. consent \in BOOLEAN /\ pending \in BOOLEAN
    BY Zenon DEF Init, Disconnected, Connected
  <2>2. /\ access \in 0 .. issued /\ bundle \in [refresh : 0 .. issued, of : 0 .. issued]
        /\ issued \in 0 .. MaxIssued /\ expired \in 0 .. issued /\ live \subseteq 1 .. issued
    <3>1. CASE Disconnected
      BY <3>1 DEF Disconnected, NoBundle
    <3>2. CASE Connected
      BY <3>2 DEF Connected
    <3> QED BY <3>1, <3>2 DEF Init
  <2> QED BY <2>1, <2>2, Zenon DEF OAuthTypeOK
<1>3. LocalsOK
  <2>1. 0 \in 0 .. issued /\ 0 \in 0 .. MaxRetries
    BY <1>2 DEF OAuthTypeOK
  <2> QED BY <2>1 DEF Init, LocalsOK, PCs, NoBundle, Tasks, Turns
<1>4. HistoryOK
  BY Zenon DEF Init, HistoryOK
<1>5. SignOutOK /\ Served
  BY DEF Init, SignOutOK, Served
<1>6. HitsBounded
  BY Zenon DEF Init, ResilienceInit, Blocking, HitsBounded
<1>7. \A p \in Threads : pc[p] = "idle" /\ task[p] = "none"
  BY DEF Init
<1>8. \A p \in Threads : Duty(p) /\ TokenOK(p) /\ Calling(p)
  BY <1>7 DEF Duty, TokenOK, Calling, CallPCs, CallTasks
<1>9. CallsInv
  <2>1. CallsOnly => Connected
    BY DEF Init, CallsOnly
  <2>2. Connected => access # 0 /\ bundle.refresh \in live
    BY DEF Connected
  <2> QED BY <1>8, <2>1, <2>2, Zenon DEF CallsInv
<1>10. AloneInv
  <2>1. Paired
    BY DEF Init, Disconnected, Connected, Paired
  <2>2. scene.threads \subseteq Threads
    BY ScenesAssumption DEF Init
  <2> QED BY <1>7, <1>8, <2>1, <2>2 DEF AloneInv, VaultOK
<1> QED BY <1>1, <1>2, <1>3, <1>4, <1>5, <1>6, <1>9, <1>10 DEF Init, Inv, TokensOK

LEMMA InvStep == Inv /\ [Next]_vars => Inv'
  BY BreakerKept, ConnectionKept, LocalsKept, HistoryKept, SignOutKept, SceneStays,
     HitsKept, ServedKept, CallsKept, AloneKept DEF Inv, TokensOK

(* TypeOK: no thread and no vault row holds a token the provider has not       *)
(* issued, and the circuit is open exactly when the outages counted have       *)
(* reached the threshold (resilience.py).                                      *)
THEOREM Typing == Spec => []TypeOK
<1>1. Inv => TypeOK
  BY Zenon DEF Inv, BreakerTypeOK, TokensOK, LocalsOK, Tasks, HistoryOK, TypeOK
<1> QED BY <1>1, InvStarts, InvStep, PTL DEF Spec

(* DisconnectSticks: what a sign-out that nobody overlapped has deleted stays  *)
(* deleted until the next sign-in, whatever calls, renewals, sign-outs and     *)
(* crashes come after it (oauth.py, disconnect and refresh).                   *)
THEOREM SignOutIsFinal == Spec => []DisconnectSticks
<1>1. Inv => DisconnectSticks
  BY Zenon DEF Inv, SignOutOK, DisconnectSticks
<1> QED BY <1>1, InvStarts, InvStep, PTL DEF Spec

(* HitsWhileOpen: an open circuit spares the service (resilience.py): until it *)
(* lets a call through again, only the requests that were already under way    *)
(* when it opened arrive, and whoever opened it has none left.                 *)
THEOREM OpenCircuitSpares == Spec => []HitsWhileOpen
<1>1. Inv => HitsWhileOpen
  <2> SUFFICES ASSUME Inv, Blocking
               PROVE  hits <= (Cardinality(Threads) - 1) * (1 + MaxRetries)
    BY DEF HitsWhileOpen
  <2> DEFINE most == (Cardinality(Threads) - 1) * (1 + MaxRetries)
  <2>1. hits + Cardinality(Coming) <= most /\ hits \in Nat
    BY DEF Inv, HitsBounded, BreakerTypeOK
  <2>2. Cardinality(Coming) \in Nat /\ most \in Int
    BY ComingIsFinite, ThreadsCounted
  <2> HIDE DEF most
  <2>3. hits <= most
    BY <2>1, <2>2
  <2> QED BY <2>3 DEF most
<1> QED BY <1>1, InvStarts, InvStep, PTL DEF Spec

(* RenewalIsTransparent: a token that has only expired fails no operation      *)
(* (rest.py, the renewal after a 401; oauth.py, valid_token and refresh).  It   *)
(* holds for one thread that does everything in a process that does not die,   *)
(* whatever the provider does, and for any number of threads that call and     *)
(* refresh over a provider that does not rotate, also if the process dies.     *)
(* Failures that are not the token's stay: an error of the token endpoint, a   *)
(* 403, and a refresh with nothing connected.                                  *)
THEOREM ExpiryIsInvisible == Spec => []RenewalIsTransparent
<1>1. Inv => RenewalIsTransparent
  <2> SUFFICES ASSUME Inv, Calm, NEW p \in Threads, pc[p] = "refused"
               PROVE  task[p] \in {"unserved", "forbidden"} \/ (task[p] = "refresh" /\ bundle = NoBundle)
    BY DEF RenewalIsTransparent
  <2>1. CASE CallsOnly
    BY <2>1 DEF Inv, CallsInv, Calling, Excused
  <2>2. CASE Alone
    BY <2>2 DEF Inv, AloneInv, Served, TokenOK, Excused
  <2> QED BY <2>1, <2>2 DEF Calm, CallsOnly, Alone
<1> QED BY <1>1, InvStarts, InvStep, PTL DEF Spec
=============================================================================
