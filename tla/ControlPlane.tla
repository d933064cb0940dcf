---------------------------- MODULE ControlPlane ----------------------------
(* The admin surface (hallpass/control.py behind /admin/* of http_server.py):  *)
(* every request is verified and checked for its admin scope, acts on the      *)
(* revocation list or on a human gate, or reads, and writes its audit record,  *)
(* each in a step of its own, while other operators do the same and the        *)
(* ledgers their scopes come from change.                                      *)
EXTENDS Authority, Integers, FiniteSets, Sequences

CONSTANTS
  Operators,    \* threads that serve admin requests
  Humans,       \* the subjects that are not services
  ScopeOf,      \* ScopeOf[a]: the scope action a needs
  Wired,        \* the actions whose subsystem is wired
  Deployments,  \* the operators at work, the changes to the ledgers meanwhile, and
                \* whether there is an audit sink
  Nobody

Reads == {"queue_depth", "audit_tail", "revoked_agents", "pending_gates"}
Actions == Reads \cup {"revoke_agent", "restore_agent", "decide_gate"}

ASSUME ControlAssumption ==
  /\ Humans \subseteq Subjects /\ Nobody \notin Subjects
  /\ ScopeOf \in [Actions -> Scopes] /\ Wired \subseteq Actions
  /\ Deployments \subseteq [operators : SUBSET Operators, changes : Nat, audited : BOOLEAN]

VARIABLES
  revoked,   \* the revoked subjects
  gate,      \* the human gate's status
  pc,        \* pc[p]: where p's request is
  caller,    \* caller[p]: the subject whose token it carries
  action,    \* action[p]: what it asks for
  target,    \* target[p]: the subject it is about
  records,   \* records[p]: the audit records it has left (history)
  active,    \* the operators at work
  audited,   \* an audit sink is wired
  changes    \* changes to the ledgers still to come (bound)

requestVars == <<pc, caller, action, target, records>>
vars == <<authorityVars, revoked, gate, requestVars, active, audited, changes>>

Denials == {"recordingDenial", "recordingUnverified"}
PCs == {"idle", "authorizing", "acting", "recording", "allowed", "denied", "broken"} \cup Denials
Entries == [subject : Subjects \cup {Nobody}, action : Actions, decision : {"allow", "deny"}]

TypeOK ==
  /\ AuthorityTypeOK
  /\ revoked \subseteq Subjects
  /\ gate \in {"none", "pending", "approved", "denied"}
  /\ pc \in [Operators -> PCs]
  /\ caller \in [Operators -> Subjects \cup {Nobody}]
  /\ action \in [Operators -> Actions \cup {"none"}]
  /\ target \in [Operators -> Subjects \cup {Nobody}]
  /\ records \in [Operators -> Seq(Entries)]
  /\ active \subseteq Operators /\ audited \in BOOLEAN /\ changes \in Nat
  /\ \A p \in Operators : pc[p] = "idle" <=> caller[p] = Nobody

Init ==
  /\ AuthorityInit
  /\ revoked = {} /\ gate = "none"
  /\ pc = [p \in Operators |-> "idle"]
  /\ caller = [p \in Operators |-> Nobody]
  /\ action = [p \in Operators |-> "none"]
  /\ target = [p \in Operators |-> Nobody]
  /\ records = [p \in Operators |-> <<>>]
  /\ \E d \in Deployments : active = d.operators /\ changes = d.changes /\ audited = d.audited

Goto(p, l) == pc' = [pc EXCEPT ![p] = l]
SameRequest == UNCHANGED <<caller, action, target>>
Elsewhere == UNCHANGED <<authorityVars, active, audited, changes>>

(* The audit trail is read where it is written.                                *)
Available(a) == a \in Wired /\ (a = "audit_tail" => audited)

-----------------------------------------------------------------------------
Request(p) ==
  /\ p \in active /\ pc[p] = "idle"
  /\ \E x \in Subjects, a \in Actions :
       /\ caller' = [caller EXCEPT ![p] = x]
       /\ action' = [action EXCEPT ![p] = a]
       /\ IF a \in {"revoke_agent", "restore_agent"}
          THEN \E s \in Subjects : target' = [target EXCEPT ![p] = s]
          ELSE UNCHANGED target
  /\ Goto(p, "authorizing")
  /\ UNCHANGED <<revoked, gate, records>> /\ Elsewhere

(* _authorize: the verifier, then the scope; a denial is recorded too, of a     *)
(* token that does not verify under no name.                                   *)
Authorize(p) ==
  /\ pc[p] = "authorizing"
  /\ Goto(p, IF caller[p] \in revoked THEN "recordingUnverified"
             ELSE IF ScopeOf[action[p]] \in token[caller[p]] THEN "acting"
             ELSE "recordingDenial")
  /\ UNCHANGED <<revoked, gate, records>> /\ SameRequest /\ Elsewhere

(* An unwired subsystem: ControlDenied, and nothing in the audit trail.        *)
Unwired(p) ==
  /\ pc[p] = "acting" /\ ~Available(action[p])
  /\ Goto(p, "denied")
  /\ UNCHANGED <<revoked, gate, records>> /\ SameRequest /\ Elsewhere

Read(p) ==
  /\ pc[p] = "acting" /\ action[p] \in Reads /\ Available(action[p])
  /\ Goto(p, "recording")
  /\ UNCHANGED <<revoked, gate, records>> /\ SameRequest /\ Elsewhere

RevokeAgent(p) ==
  /\ pc[p] = "acting" /\ action[p] = "revoke_agent" /\ Available(action[p])
  /\ revoked' = revoked \cup {target[p]}
  /\ Goto(p, "recording")
  /\ UNCHANGED <<gate, records>> /\ SameRequest /\ Elsewhere

RestoreAgent(p) ==
  /\ pc[p] = "acting" /\ action[p] = "restore_agent" /\ Available(action[p])
  /\ revoked' = revoked \ {target[p]}
  /\ Goto(p, "recording")
  /\ UNCHANGED <<gate, records>> /\ SameRequest /\ Elsewhere

DecideGate(p) ==
  /\ pc[p] = "acting" /\ action[p] = "decide_gate" /\ Available(action[p])
  /\ gate = "pending" /\ caller[p] \in Humans
  /\ gate' \in {"approved", "denied"}
  /\ Goto(p, "recording")
  /\ UNCHANGED <<revoked, records>> /\ SameRequest /\ Elsewhere

(* No such gate, a gate decided already, a service: refused, and recorded.     *)
GateRefuses(p) ==
  /\ pc[p] = "acting" /\ action[p] = "decide_gate" /\ Available(action[p])
  /\ gate # "pending" \/ caller[p] \notin Humans
  /\ Goto(p, "recordingDenial")
  /\ UNCHANGED <<revoked, gate, records>> /\ SameRequest /\ Elsewhere

Entry(who, a, decision) == [subject |-> who, action |-> a, decision |-> decision]

(* Mutant: only what was allowed is recorded.                                  *)
MutantRecordAllowsOnly(p) ==
  records' = IF audited /\ pc[p] = "recording"
             THEN [records EXCEPT ![p] = Append(@, Entry(caller[p], action[p], "allow"))]
             ELSE records

(* _record: without a sink nothing is.                                         *)
LeaveRecord(p) ==
  records' = IF audited
             THEN [records EXCEPT ![p] =
                     Append(@, Entry(IF pc[p] = "recordingUnverified" THEN Nobody ELSE caller[p],
                                     action[p],
                                     IF pc[p] = "recording" THEN "allow" ELSE "deny"))]
             ELSE records

Record(p) ==
  /\ pc[p] \in {"recording"} \cup Denials
  /\ LeaveRecord(p)
  /\ Goto(p, IF pc[p] = "recording" THEN "allowed" ELSE "denied")
  /\ UNCHANGED <<revoked, gate>> /\ SameRequest /\ Elsewhere

(* The sink raises: no handler of the admin routes catches it, and what was    *)
(* done stays done.                                                            *)
RecordRaises(p) ==
  /\ audited
  /\ pc[p] \in {"recording"} \cup Denials
  /\ Goto(p, "broken")
  /\ UNCHANGED <<revoked, gate, records>> /\ SameRequest /\ Elsewhere

End(p) ==
  /\ pc[p] \in {"allowed", "denied", "broken"}
  /\ Goto(p, "idle")
  /\ caller' = [caller EXCEPT ![p] = Nobody]
  /\ action' = [action EXCEPT ![p] = "none"]
  /\ target' = [target EXCEPT ![p] = Nobody]
  /\ records' = [records EXCEPT ![p] = <<>>]
  /\ UNCHANGED <<revoked, gate>> /\ Elsewhere

-----------------------------------------------------------------------------
(* A workflow opens the gate, also again after a decision.                     *)
RequireGate ==
  /\ active # {} /\ gate # "pending"
  /\ gate' = "pending"
  /\ UNCHANGED <<revoked, requestVars>> /\ Elsewhere

Change ==
  /\ changes > 0
  /\ changes' = changes - 1
  /\ \/ \E r \in Roles, scopes \in SUBSET Scopes : Define(r, scopes)
     \/ \E x \in Subjects, r \in Roles : Assign(x, r) \/ Unassign(x, r)
     \/ \E g, e \in Subjects :
          \/ \E scopes \in SUBSET Scopes, ttl \in 1 .. Forever : Delegate(g, e, scopes, ttl)
          \/ Recall(g, e)
     \/ \E x \in Subjects : Mint(x)
  /\ UNCHANGED <<revoked, gate, requestVars, active, audited>>

Serve(p) ==
  \/ Request(p) \/ Authorize(p) \/ Unwired(p) \/ Read(p) \/ RevokeAgent(p) \/ RestoreAgent(p)
  \/ DecideGate(p) \/ GateRefuses(p) \/ Record(p) \/ RecordRaises(p) \/ End(p)

Next ==
  \/ \E p \in Operators : Serve(p)
  \/ RequireGate
  \/ Change
  \/ Pass /\ UNCHANGED <<revoked, gate, requestVars, active, audited, changes>>

Spec == Init /\ [][Next]_vars

-----------------------------------------------------------------------------
(* Where an audit sink is wired, whoever has a result has left exactly one      *)
(* record, an allow of that action in the caller's name; and whoever was       *)
(* refused exactly one, a deny, in the caller's name or in none, or else asked *)
(* for a subsystem that is not wired.                                          *)
AnswersAreOnRecord ==
  audited => \A p \in Operators :
    /\ pc[p] = "allowed" => records[p] = <<Entry(caller[p], action[p], "allow")>>
    /\ pc[p] = "denied" =>
         \/ \E who \in {caller[p], Nobody} : records[p] = <<Entry(who, action[p], "deny")>>
         \/ records[p] = <<>> /\ action[p] \notin Wired
=============================================================================
