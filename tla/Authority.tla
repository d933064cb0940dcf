----------------------------- MODULE Authority -----------------------------
(* Where a principal's scopes come from (hallpass/roles.py, delegation.py):    *)
(* standing ones from the roles it holds, temporary ones from what others      *)
(* delegate to it; its token is minted with the union of both and keeps them   *)
(* until the next one is minted.                                               *)
EXTENDS Naturals

CONSTANTS
  Subjects,
  Scopes,
  Roles,
  FirstRoles,  \* FirstRoles[r]: its scopes and holders at first; nobody holds an undefined one
  MaxTtl       \* bound: the longest ttl_seconds of a delegation, in ticks

Forever == MaxTtl + 1
Pairs == Subjects \X Subjects
NoGrant == [scopes |-> {}, left |-> 0]

ASSUME AuthorityAssumption ==
  MaxTtl \in Nat /\ FirstRoles \in [Roles -> [scopes : SUBSET Scopes, holders : SUBSET Subjects]]

VARIABLES
  defined,    \* the roles that are defined
  carries,    \* carries[r]: the scopes of r
  holders,    \* holders[r]: the subjects r is assigned to
  delegated,  \* delegated[<<g, e>>]: what g has granted e, and the ticks left of it
  token,      \* token[x]: the scopes of the token x presents
  rooted      \* the scopes some assigned role has ever carried (history)

authorityVars == <<defined, carries, holders, delegated, token, rooted>>

AuthorityTypeOK ==
  /\ defined \subseteq Roles
  /\ carries \in [Roles -> SUBSET Scopes] /\ holders \in [Roles -> SUBSET Subjects]
  /\ delegated \in [Pairs -> [scopes : SUBSET Scopes, left : 0 .. Forever]]
  /\ token \in [Subjects -> SUBSET Scopes] /\ rooted \subseteq Scopes
  /\ \A r \in Roles : holders[r] # {} => r \in defined

ScopesFor(x) == UNION {carries[r] : r \in {r \in Roles : x \in holders[r]}}

ActiveScopes(x) ==
  UNION {delegated[<<g, x>>].scopes : g \in {g \in Subjects : delegated[<<g, x>>].left > 0}}

AuthorityInit ==
  /\ defined = {r \in Roles : FirstRoles[r].holders # {}}
  /\ carries = [r \in Roles |-> FirstRoles[r].scopes]
  /\ holders = [r \in Roles |-> FirstRoles[r].holders]
  /\ delegated = [pair \in Pairs |-> NoGrant]
  /\ token = [x \in Subjects |-> ScopesFor(x)]
  /\ rooted = UNION {ScopesFor(x) : x \in Subjects}

Define(r, scopes) ==
  /\ defined' = defined \cup {r}
  /\ carries' = [carries EXCEPT ![r] = scopes]
  /\ rooted' = IF holders[r] = {} THEN rooted ELSE rooted \cup scopes
  /\ UNCHANGED <<holders, delegated, token>>

(* Mutant: a role is assigned without looking whether it is defined.           *)
MutantAssignable(r) == TRUE

Assignable(r) == r \in defined

Assign(x, r) ==
  /\ Assignable(r)
  /\ holders' = [holders EXCEPT ![r] = @ \cup {x}]
  /\ rooted' = rooted \cup carries[r]
  /\ UNCHANGED <<defined, carries, delegated, token>>

Unassign(x, r) ==
  /\ x \in holders[r]
  /\ holders' = [holders EXCEPT ![r] = @ \ {x}]
  /\ UNCHANGED <<defined, carries, delegated, token, rooted>>

(* Mutant: what a grantor may hand out is not bounded by what it holds.        *)
MutantBoundedNot(scopes, grantorScopes) == TRUE

Bounded(scopes, grantorScopes) == scopes \subseteq grantorScopes

(* The grantor's scopes are those of its token, as of when that was minted.    *)
Delegate(g, e, scopes, ttl) ==
  /\ Bounded(scopes, token[g])
  /\ delegated' = [delegated EXCEPT ![<<g, e>>] = [scopes |-> scopes, left |-> ttl]]
  /\ UNCHANGED <<defined, carries, holders, token, rooted>>

Recall(g, e) ==
  /\ delegated' = [delegated EXCEPT ![<<g, e>>] = NoGrant]
  /\ UNCHANGED <<defined, carries, holders, token, rooted>>

Mint(x) ==
  /\ token' = [token EXCEPT ![x] = ScopesFor(x) \cup ActiveScopes(x)]
  /\ UNCHANGED <<defined, carries, holders, delegated, rooted>>

(* A grant without a TTL does not age; one that runs out counts no more.       *)
Aged(grant) ==
  IF grant.left \in {0, Forever} THEN grant
  ELSE IF grant.left = 1 THEN NoGrant
  ELSE [grant EXCEPT !.left = @ - 1]

Pass ==
  /\ delegated' = [pair \in Pairs |-> Aged(delegated[pair])]
  /\ UNCHANGED <<defined, carries, holders, token, rooted>>

(* However scopes are handed on, re-delegated and minted, in circles or by a   *)
(* grantor that has since lost them: nobody's token or grant carries a scope   *)
(* that no assigned role has ever carried.                                     *)
AuthorityHasARoot ==
  \A x \in Subjects : token[x] \cup ActiveScopes(x) \subseteq rooted
=============================================================================
