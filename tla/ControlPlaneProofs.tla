------------------------- MODULE ControlPlaneProofs -------------------------
(* What ControlPlane promises, for every set of subjects, scopes, roles and    *)
(* operators.                                                                  *)
EXTENDS ControlPlane, TLAPS

-----------------------------------------------------------------------------
(* The strengthening of AuthorityHasARoot: also what the held roles carry now, *)
(* which the next token is minted with, and the grants that are not active.    *)
Rooted ==
  /\ \A r \in Roles : holders[r] # {} => carries[r] \subseteq rooted
  /\ \A pair \in Pairs : delegated[pair].scopes \subseteq rooted
  /\ \A x \in Subjects : token[x] \subseteq rooted

(* The strengthening of AnswersAreOnRecord: nothing is recorded before the     *)
(* last step of a request.                                                     *)
OnePerRequest ==
  \A p \in Operators :
    /\ pc[p] \notin {"allowed", "denied"} => records[p] = <<>>
    /\ pc[p] \in {"authorizing", "acting", "recording"} \cup Denials => action[p] \in Actions

(* A request about a subject names one. *)
Targeted ==
  \A p \in Operators :
    action[p] \in {"revoke_agent", "restore_agent"} => target[p] \in Subjects

(* The inductive invariant: AuthorityTypeOK is a part of TypeOK. *)
IInv == TypeOK /\ Rooted /\ OnePerRequest /\ AnswersAreOnRecord /\ Targeted

(* The changes of the ledgers, one at a time.                                  *)
LedgerStep ==
  \/ \E r \in Roles, scopes \in SUBSET Scopes : Define(r, scopes)
  \/ \E x \in Subjects, r \in Roles : Assign(x, r)
  \/ \E x \in Subjects, r \in Roles : Unassign(x, r)
  \/ \E g, e \in Subjects, scopes \in SUBSET Scopes, ttl \in 1 .. Forever :
       Delegate(g, e, scopes, ttl)
  \/ \E g, e \in Subjects : Recall(g, e)
  \/ \E x \in Subjects : Mint(x)
  \/ Pass

(* A request touches no ledger, and a change of the ledgers no request.        *)
LEMMA StepsAreSeparate == [Next]_vars => UNCHANGED authorityVars \/ LedgerStep
<1> SUFFICES ASSUME [Next]_vars
             PROVE  UNCHANGED authorityVars \/ LedgerStep
    OBVIOUS
<1>1. CASE \E p \in Operators : Serve(p)
  BY <1>1 DEF Serve, Request, Authorize, Unwired, Read, RevokeAgent, RestoreAgent, DecideGate,
     GateRefuses, Record, RecordRaises, End, Elsewhere
<1>2. CASE RequireGate
  BY <1>2 DEF RequireGate, Elsewhere
<1>3. CASE Change
  BY <1>3 DEF Change, LedgerStep
<1>4. CASE Pass /\ UNCHANGED <<revoked, gate, requestVars, active, audited, changes>>
  BY <1>4 DEF LedgerStep
<1>5. CASE UNCHANGED vars
  BY <1>5 DEF vars
<1> QED BY <1>1, <1>2, <1>3, <1>4, <1>5 DEF Next

-----------------------------------------------------------------------------
LEMMA AuthorityInitType == AuthorityInit => AuthorityTypeOK
<1> SUFFICES ASSUME AuthorityInit PROVE AuthorityTypeOK
    OBVIOUS
<1> USE AuthorityAssumption DEF AuthorityInit
<1>1. carries \in [Roles -> SUBSET Scopes] /\ holders \in [Roles -> SUBSET Subjects]
  OBVIOUS
<1>2. \A x \in Subjects : ScopesFor(x) \in SUBSET Scopes
  BY <1>1 DEF ScopesFor
<1>3. delegated \in [Pairs -> [scopes : SUBSET Scopes, left : 0 .. Forever]]
  BY DEF NoGrant, Forever
<1>4. token \in [Subjects -> SUBSET Scopes] /\ rooted \subseteq Scopes
  BY <1>2
<1>5. \A r \in Roles : holders[r] # {} => r \in defined
  OBVIOUS
<1> QED BY <1>1, <1>3, <1>4, <1>5 DEF AuthorityTypeOK

LEMMA AuthorityInitRooted == AuthorityInit => Rooted
<1> SUFFICES ASSUME AuthorityInit PROVE Rooted
    OBVIOUS
<1> USE AuthorityAssumption DEF AuthorityInit
<1>1. ASSUME NEW r \in Roles, holders[r] # {} PROVE carries[r] \subseteq rooted
  <2>1. PICK x \in Subjects : x \in holders[r]
    BY <1>1
  <2>2. carries[r] \subseteq ScopesFor(x)
    BY <2>1 DEF ScopesFor
  <2> QED BY <2>2
<1>2. \A pair \in Pairs : delegated[pair].scopes \subseteq rooted
  BY DEF NoGrant
<1>3. \A x \in Subjects : token[x] \subseteq rooted
  OBVIOUS
<1> QED BY <1>1, <1>2, <1>3 DEF Rooted

LEMMA AgedType ==
  ASSUME NEW grant \in [scopes : SUBSET Scopes, left : 0 .. Forever]
  PROVE  /\ Aged(grant) \in [scopes : SUBSET Scopes, left : 0 .. Forever]
         /\ Aged(grant).scopes \subseteq grant.scopes
BY AuthorityAssumption DEF Aged, NoGrant, Forever

(* What is delegated to a subject is rooted. *)
LEMMA ActiveRooted ==
  ASSUME Rooted, NEW x \in Subjects
  PROVE  ActiveScopes(x) \subseteq rooted
<1> SUFFICES ASSUME NEW s \in ActiveScopes(x)
             PROVE  s \in rooted
    OBVIOUS
<1>1. PICK g \in Subjects : s \in delegated[<<g, x>>].scopes
  BY DEF ActiveScopes
<1>2. <<g, x>> \in Pairs
  BY DEF Pairs
<1> QED BY <1>1, <1>2 DEF Rooted

(* Every change of the ledgers keeps their types and roots what it hands out.  *)
LEMMA LedgerStepKeeps ==
  AuthorityTypeOK /\ Rooted /\ LedgerStep => AuthorityTypeOK' /\ Rooted'
<1> SUFFICES ASSUME AuthorityTypeOK, Rooted, LedgerStep
             PROVE  AuthorityTypeOK' /\ Rooted'
    OBVIOUS
<1> USE AuthorityAssumption
<1> USE DEF AuthorityTypeOK, Rooted
<1>1. ASSUME NEW r \in Roles, NEW scopes \in SUBSET Scopes, Define(r, scopes)
      PROVE  AuthorityTypeOK' /\ Rooted'
  BY <1>1 DEF Define
<1>2. ASSUME NEW x \in Subjects, NEW r \in Roles, Assign(x, r)
      PROVE  AuthorityTypeOK' /\ Rooted'
  BY <1>2 DEF Assign, Assignable
<1>3. ASSUME NEW x \in Subjects, NEW r \in Roles, Unassign(x, r)
      PROVE  AuthorityTypeOK' /\ Rooted'
  BY <1>3 DEF Unassign
<1>4. ASSUME NEW g \in Subjects, NEW e \in Subjects, NEW scopes \in SUBSET Scopes,
             NEW ttl \in 1 .. Forever, Delegate(g, e, scopes, ttl)
      PROVE  AuthorityTypeOK' /\ Rooted'
  <2>1. [scopes |-> scopes, left |-> ttl] \in [scopes : SUBSET Scopes, left : 0 .. Forever]
    BY DEF Forever
  <2>2. scopes \subseteq rooted
    BY <1>4 DEF Delegate, Bounded
  <2> QED BY <1>4, <2>1, <2>2 DEF Delegate, Pairs
<1>5. ASSUME NEW g \in Subjects, NEW e \in Subjects, Recall(g, e)
      PROVE  AuthorityTypeOK' /\ Rooted'
  <2>1. NoGrant \in [scopes : SUBSET Scopes, left : 0 .. Forever] /\ NoGrant.scopes = {}
    BY DEF NoGrant, Forever
  <2> QED BY <1>5, <2>1 DEF Recall, Pairs
<1>6. ASSUME NEW x \in Subjects, Mint(x)
      PROVE  AuthorityTypeOK' /\ Rooted'
  <2>1. ScopesFor(x) \subseteq rooted
    BY DEF ScopesFor
  <2>2. ActiveScopes(x) \subseteq rooted
    BY ActiveRooted
  <2>3. ScopesFor(x) \cup ActiveScopes(x) \in SUBSET Scopes
    BY <2>1, <2>2
  <2> QED BY <1>6, <2>1, <2>2, <2>3 DEF Mint
<1>7. CASE Pass
  <2>1. \A pair \in Pairs :
          /\ delegated'[pair] \in [scopes : SUBSET Scopes, left : 0 .. Forever]
          /\ delegated'[pair].scopes \subseteq delegated[pair].scopes
    BY <1>7, AgedType DEF Pass
  <2>2. delegated' \in [Pairs -> [scopes : SUBSET Scopes, left : 0 .. Forever]]
    BY <1>7, <2>1 DEF Pass
  <2>3. UNCHANGED <<defined, carries, holders, token, rooted>>
    BY <1>7 DEF Pass
  <2> QED BY <2>1, <2>2, <2>3
<1> QED BY <1>1, <1>2, <1>3, <1>4, <1>5, <1>6, <1>7 DEF LedgerStep

LEMMA InitInv == Init => IInv
<1> SUFFICES ASSUME Init PROVE IInv
    OBVIOUS
<1>1. AuthorityTypeOK /\ Rooted
  BY AuthorityInitType, AuthorityInitRooted DEF Init
<1>2. TypeOK
  BY <1>1, ControlAssumption DEF Init, TypeOK, PCs
<1>3. OnePerRequest /\ AnswersAreOnRecord /\ Targeted
  BY DEF Init, OnePerRequest, AnswersAreOnRecord, Denials, Targeted
<1> QED BY <1>1, <1>2, <1>3 DEF IInv

(* One step of a request keeps the invariant. *)
LEMMA ServeKeeps ==
  ASSUME IInv, NEW p \in Operators, Serve(p) PROVE IInv'
<1> USE ControlAssumption
<1> USE DEF IInv, TypeOK, OnePerRequest, AnswersAreOnRecord, Targeted, Elsewhere, Goto,
            SameRequest, PCs, Denials
<1>0. AuthorityTypeOK' /\ Rooted'
  <2>1. UNCHANGED authorityVars
    BY DEF Serve, Request, Authorize, Unwired, Read, RevokeAgent, RestoreAgent, DecideGate,
       GateRefuses, Record, RecordRaises, End
  <2> QED BY <2>1 DEF authorityVars, AuthorityTypeOK, Rooted
<1>1. CASE Request(p)
  <2>1. PICK x \in Subjects, a \in Actions :
          /\ caller' = [caller EXCEPT ![p] = x] /\ action' = [action EXCEPT ![p] = a]
          /\ IF a \in {"revoke_agent", "restore_agent"}
             THEN \E s \in Subjects : target' = [target EXCEPT ![p] = s]
             ELSE UNCHANGED target
    BY <1>1 DEF Request
  <2>2. /\ pc[p] = "idle" /\ pc' = [pc EXCEPT ![p] = "authorizing"]
        /\ UNCHANGED <<revoked, gate, records, active, audited, changes>>
    BY <1>1 DEF Request
  <2>3. /\ caller'[p] = x /\ action'[p] = a /\ pc'[p] = "authorizing" /\ records'[p] = <<>>
        /\ \A q \in Operators \ {p} : /\ caller'[q] = caller[q] /\ action'[q] = action[q]
                                       /\ pc'[q] = pc[q] /\ target'[q] = target[q]
                                       /\ records'[q] = records[q]
    BY <2>1, <2>2
  <2>4. TypeOK'
    <3>1. /\ caller' \in [Operators -> Subjects \cup {Nobody}]
          /\ action' \in [Operators -> Actions \cup {"none"}]
          /\ pc' \in [Operators -> PCs]
      BY <2>1, <2>2
    <3>2. target' \in [Operators -> Subjects \cup {Nobody}]
      BY <2>1
    <3>3. \A q \in Operators : pc'[q] = "idle" <=> caller'[q] = Nobody
      BY <2>3
    <3> QED BY <1>0, <2>2, <3>1, <3>2, <3>3
  <2>5. Targeted'
    BY <2>1, <2>2, <2>3
  <2>6. OnePerRequest'
    <3>1. ASSUME NEW q \in Operators
          PROVE  /\ pc'[q] \notin {"allowed", "denied"} => records'[q] = <<>>
                 /\ pc'[q] \in {"authorizing", "acting", "recording"} \cup Denials
                      => action'[q] \in Actions
      BY <2>3
    <3> QED BY <3>1
  <2>7. AnswersAreOnRecord'
    <3>1. ASSUME audited, NEW q \in Operators \ {p}
          PROVE  /\ pc'[q] = "allowed" => records'[q] = <<Entry(caller'[q], action'[q], "allow")>>
                 /\ pc'[q] = "denied" =>
                      \/ \E who \in {caller'[q], Nobody} :
                           records'[q] = <<Entry(who, action'[q], "deny")>>
                      \/ records'[q] = <<>> /\ action'[q] \notin Wired
      BY <2>3, <3>1
    <3> QED BY <2>2, <2>3, <3>1
  <2> QED BY <1>0, <2>4, <2>5, <2>6, <2>7
<1>2. CASE Authorize(p)
  <2>1. pc'[p] \in {"acting", "recordingDenial", "recordingUnverified"} /\ pc' = [pc EXCEPT ![p] = pc'[p]]
    BY <1>2 DEF Authorize
  <2> QED BY <1>0, <1>2, <2>1 DEF Authorize
<1>3. CASE Unwired(p)
  BY <1>0, <1>3 DEF Unwired, Available
<1>4. CASE Read(p)
  BY <1>0, <1>4 DEF Read
<1>5. CASE RevokeAgent(p)
  BY <1>0, <1>5 DEF RevokeAgent
<1>6. CASE RestoreAgent(p)
  BY <1>0, <1>6 DEF RestoreAgent
<1>7. CASE DecideGate(p)
  BY <1>0, <1>7 DEF DecideGate
<1>8. CASE GateRefuses(p)
  BY <1>0, <1>8 DEF GateRefuses
<1>9. CASE Record(p)
  <2> DEFINE who == IF pc[p] = "recordingUnverified" THEN Nobody ELSE caller[p]
             decision == IF pc[p] = "recording" THEN "allow" ELSE "deny"
             entry == Entry(who, action[p], decision)
  <2>1. records[p] = <<>> /\ entry \in Entries
    BY <1>9 DEF Record, Entry, Entries
  <2>2. records' = IF audited THEN [records EXCEPT ![p] = <<entry>>] ELSE records
    BY <1>9, <2>1 DEF Record, LeaveRecord
  <2>3. <<entry>> \in Seq(Entries)
    BY <2>1
  <2> QED BY <1>0, <1>9, <2>1, <2>2, <2>3 DEF Record
<1>10. CASE RecordRaises(p)
  BY <1>0, <1>10 DEF RecordRaises
<1>11. CASE End(p)
  BY <1>0, <1>11 DEF End
<1> QED BY <1>1, <1>2, <1>3, <1>4, <1>5, <1>6, <1>7, <1>8, <1>9, <1>10, <1>11 DEF Serve

LEMMA StepInv == IInv /\ [Next]_vars => IInv'
<1> SUFFICES ASSUME IInv, [Next]_vars PROVE IInv'
    OBVIOUS
<1>0. AuthorityTypeOK' /\ Rooted'
  <2>1. CASE UNCHANGED authorityVars
    BY <2>1 DEF authorityVars, AuthorityTypeOK, Rooted, IInv, TypeOK
  <2>2. CASE LedgerStep
    BY <2>2, LedgerStepKeeps DEF IInv, TypeOK
  <2> QED BY <2>1, <2>2, StepsAreSeparate
<1> USE DEF IInv, TypeOK, OnePerRequest, AnswersAreOnRecord, Targeted, requestVars
<1>1. CASE \E p \in Operators : Serve(p)
  BY <1>1, ServeKeeps
<1>2. CASE RequireGate
  BY <1>0, <1>2 DEF RequireGate, Elsewhere
<1>3. CASE Change
  BY <1>0, <1>3 DEF Change
<1>4. CASE Pass /\ UNCHANGED <<revoked, gate, requestVars, active, audited, changes>>
  BY <1>0, <1>4
<1>5. CASE UNCHANGED vars
  BY <1>0, <1>5 DEF vars
<1> QED BY <1>1, <1>2, <1>3, <1>4, <1>5 DEF Next

LEMMA InvHolds == Spec => []IInv
BY InitInv, StepInv, PTL DEF Spec

-----------------------------------------------------------------------------
(* Every variable keeps its type, only idle operators have no caller, and only *)
(* defined roles have holders.                                                 *)
THEOREM TypeCorrect == Spec => []TypeOK
<1>1. IInv => TypeOK
  BY DEF IInv
<1> QED BY <1>1, InvHolds, PTL

(* However scopes are handed on, re-delegated and minted, and whoever lost a   *)
(* role in between, no token and no active grant carries a scope no assigned   *)
(* role has ever carried (roles.py, delegation.py).                            *)
THEOREM AuthorityIsRooted == Spec => []AuthorityHasARoot
<1>1. IInv => AuthorityHasARoot
  BY ActiveRooted DEF IInv, Rooted, AuthorityHasARoot
<1> QED BY <1>1, InvHolds, PTL

(* Where an audit sink is wired, every answered admin request has left exactly *)
(* one record, with what was answered: an allow in the caller's name, or a     *)
(* deny, unless what it asked for is not wired (control.py, _record).          *)
THEOREM EveryAnswerIsOnRecord == Spec => []AnswersAreOnRecord
<1>1. IInv => AnswersAreOnRecord
  BY DEF IInv
<1> QED BY <1>1, InvHolds, PTL
=============================================================================
