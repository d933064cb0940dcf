----------------------------- MODULE Discovery -----------------------------
(* How an orchestrator finds its workers: the presence each one announces on   *)
(* the channel (hallpass/a2a.py), the router they register with when they boot *)
(* (hallpass/orchestrator.py, join_channel of hallpass/agents.py), and the      *)
(* channel of a pair (hallpass/dm.py).  Subjects are numbers, in the order of   *)
(* their names; a table is a function on the subjects it has a row for.         *)
LOCAL INSTANCE Naturals
LOCAL INSTANCE FiniteSets
LOCAL INSTANCE SequencesExt
LOCAL INSTANCE TLC

(* touch_presence: whoever writes last stands, whenever the time it writes was  *)
(* read.                                                                       *)
TouchPresence(seen, subject, at) == subject :> at @@ seen

OnRoster(seen, since) == {s \in DOMAIN seen : seen[s] >= since}

(* announce is a post and roster a read: each with its own scopes, both refused *)
(* alike where there is no channel.                                            *)
Announce(policies, channel, scopes, seen, subject, at) ==
  IF channel \in DOMAIN policies /\ policies[channel].post \subseteq scopes
    THEN TouchPresence(seen, subject, at)
    ELSE seen

Roster(policies, channel, scopes, seen, since) ==
  IF channel \in DOMAIN policies /\ policies[channel].read \subseteq scopes
    THEN OnRoster(seen, since)
    ELSE {}

-----------------------------------------------------------------------------
(* A router: the scopes each worker's harness grants, and a counter of routes.  *)
Register(router, worker, scopes) ==
  [router EXCEPT !.harness = worker :> scopes @@ @]

Candidates(router, need) ==
  {w \in DOMAIN router.harness : need \subseteq router.harness[w]}

(* The pick is from candidates computed in an earlier critical section; the     *)
(* counter is one for all needs.                                               *)
Pick(eligible, count) ==
  SetToSortSeq(eligible, <)[(count % Cardinality(eligible)) + 1]

Counted(router, eligible) ==
  [router EXCEPT !.count = IF eligible = {} THEN @ ELSE @ + 1]

(* The workers a sequence of routes goes to; 0 stands for None.                 *)
Routes(router, needs) ==
  LET route(state, need) ==
        LET eligible == Candidates(state.router, need)
        IN  [router |-> Counted(state.router, eligible),
             to |-> Append(state.to, IF eligible = {} THEN 0
                                     ELSE Pick(eligible, state.router.count))]
  IN  FoldLeft(route, [router |-> router, to |-> <<>>], needs).to

(* join_channel: announced first, and refused means not registered.             *)
JoinChannel(policies, channel, scopes, seen, router, subject, at) ==
  LET after == Announce(policies, channel, scopes, seen, subject, at)
      denied == channel \notin DOMAIN policies \/ ~(policies[channel].post \subseteq scopes)
  IN  [seen |-> after,
       router |-> IF denied THEN router ELSE Register(router, subject, scopes)]

-----------------------------------------------------------------------------
(* direct_channel: one tag for an unordered pair names the channel and is the   *)
(* scope that guards it.                                                       *)
DirectChannel(a, b) == [name |-> {a, b}, scope |-> {a, b}, parties |-> {a, b}]

DirectPolicy(dc) == [post |-> {dc.scope}, read |-> {dc.scope}]

OpenDm(policies, a, b) ==
  LET dc == DirectChannel(a, b) IN dc.name :> DirectPolicy(dc) @@ policies
=============================================================================
