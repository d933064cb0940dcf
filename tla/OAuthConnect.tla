---------------------------- MODULE OAuthConnect ----------------------------
(* One user's connection to one OAuth service (hallpass/oauth.py): the two     *)
(* vault slots a connection occupies, the consent record, the pending sign-in  *)
(* and, outside the program, the provider.  Tokens are numbered in the order   *)
(* the provider issues them; 0 is no token.  Each operator is one call on one  *)
(* store: a caller makes several, and other callers run in between.            *)
EXTENDS Naturals

CONSTANT MaxIssued  \* bound: the tokens the provider issues

ASSUME IssuedAssumption == MaxIssued \in Nat \ {0}

VARIABLES
  access,   \* the vault's service slot: an access token
  bundle,   \* the vault's ":oauth" slot: a refresh token and whose expiry it gives
  consent,  \* a consent record exists
  pending,  \* a sign-in has been started and not yet finished
  issued,   \* the newest token the provider has issued
  expired,  \* access tokens up to this one have expired
  live      \* the refresh tokens the provider still honours

oauthVars == <<access, bundle, consent, pending, issued, expired, live>>

Tokens == 1 .. MaxIssued
NoBundle == [refresh |-> 0, of |-> 0]

OAuthTypeOK ==
  /\ access \in 0 .. issued
  /\ bundle \in [refresh : 0 .. issued, of : 0 .. issued]
  /\ consent \in BOOLEAN /\ pending \in BOOLEAN
  /\ issued \in 0 .. MaxIssued /\ expired \in 0 .. issued
  /\ live \subseteq 1 .. issued

Disconnected ==
  /\ access = 0 /\ bundle = NoBundle /\ consent = FALSE
  /\ issued = 0 /\ expired = 0 /\ live = {}

Connected ==
  /\ access = 1 /\ bundle = [refresh |-> 1, of |-> 1] /\ consent = TRUE
  /\ issued = 1 /\ expired = 0 /\ live = {1}

Fresh(a) == a > expired

(* start, and the single-use pop with which finish begins.                     *)
Start ==
  /\ pending' = TRUE
  /\ UNCHANGED <<access, bundle, consent, issued, expired, live>>

PopPending ==
  /\ pending
  /\ pending' = FALSE
  /\ UNCHANGED <<access, bundle, consent, issued, expired, live>>

(* The provider answers an authorization code with a new pair of tokens, and a *)
(* refresh token it honours with an access token: a rotating provider replaces *)
(* the refresh token, another returns none.                                    *)
GrantCode ==
  /\ issued < MaxIssued
  /\ issued' = issued + 1
  /\ live' = live \cup {issued + 1}

GrantRefresh(r, rotating) ==
  /\ r \in live /\ issued < MaxIssued
  /\ issued' = issued + 1
  /\ live' = IF rotating THEN (live \ {r}) \cup {issued + 1} ELSE live

(* Mutant: a response without a refresh token overwrites the old one.          *)
MutantKeepRefreshNot(r, rotating) == IF rotating THEN issued + 1 ELSE 0

(* The refresh token the bundle will hold: the one returned or the one used.   *)
KeepRefresh(r, rotating) == IF rotating THEN issued + 1 ELSE r

(* Is the token the bundle describes due for renewal?  Always once it has      *)
(* expired; within the leeway, perhaps before.                                 *)
Expiring(b, early) == b.of # 0 /\ (~Fresh(b.of) \/ early)

StoreAccess(a) ==
  /\ access' = a
  /\ UNCHANGED <<bundle, consent, pending, issued, expired, live>>

StoreBundle(r, a) ==
  /\ bundle' = [refresh |-> r, of |-> a]
  /\ UNCHANGED <<access, consent, pending, issued, expired, live>>

GrantConsent ==
  /\ consent' = TRUE
  /\ UNCHANGED <<access, bundle, pending, issued, expired, live>>

DeleteAccess ==
  /\ access' = 0
  /\ UNCHANGED <<bundle, consent, pending, issued, expired, live>>

(* Mutant: disconnect forgets the access token only.                           *)
MutantDeleteBundleNot ==
  UNCHANGED <<access, bundle, consent, pending, issued, expired, live>>

DeleteBundle ==
  /\ bundle' = NoBundle
  /\ UNCHANGED <<access, consent, pending, issued, expired, live>>

RevokeConsent ==
  /\ consent' = FALSE
  /\ UNCHANGED <<access, bundle, pending, issued, expired, live>>
=============================================================================
