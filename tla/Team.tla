-------------------------------- MODULE Team --------------------------------
(* A team of spawned agents (hallpass/agents.py, minter.py) over the verifier:  *)
(* spawn mints a token, has the provisioning guard verify it and launches a     *)
(* process; the agents present their tokens; processes end when they like.      *)
EXTENDS TokenVerifier

CONSTANTS
  Names,       \* agent names
  Granted,     \* Granted[t]: the scopes token t carries
  IsService,   \* IsService[t]: t verifies as a service principal
  Scopes,
  Provisioner, \* the thread that calls the Team
  Processes,   \* bound: the processes it launches, 1 .. n
  Deployments, \* who is at work: sets of callers
  MaxEvents,   \* bound: revocations, key rotations, expiries and new presets in a run
  NoSpec

Clients == Callers \ {Provisioner}
Specs == [name : Names, scopes : SUBSET Scopes]

ASSUME TeamAssumption ==
  /\ Provisioner \in Callers /\ Processes \in Nat /\ MaxEvents \in Nat
  /\ Deployments \subseteq SUBSET Callers
  /\ Granted \in [Tokens -> SUBSET Scopes] /\ IsService \in [Tokens -> BOOLEAN]
  /\ NoSpec \notin Specs \cup [spec : Specs, token : Tokens]

VARIABLES
  preset,    \* the scopes of the harness the specs name
  specs,     \* specs[n]: the latest spec of agent n
  handles,   \* the processes the team tracks
  agent,     \* agent[i]: what process i was launched as
  state,     \* state[i]: "unborn", "running", "told" to terminate or "gone"
  spawning,  \* the spec being spawned
  active,    \* the callers at work
  events     \* the events so far (bound)

teamVars == <<preset, specs, handles, agent, state, spawning, active, events>>
vars == <<verifierVars, teamVars>>

Ids == 1 .. Processes
Runs(i) == state[i] \in {"running", "told"}
Unborn == {i \in Ids : state[i] = "unborn"}

TypeOK ==
  /\ VerifierTypeOK
  /\ preset \subseteq Scopes
  /\ specs \in [Names -> Specs \cup {NoSpec}]
  /\ handles \subseteq Ids \ Unborn
  /\ agent \in [Ids -> [spec : Specs, token : Tokens] \cup {NoSpec}]
  /\ state \in [Ids -> {"unborn", "running", "told", "gone"}]
  /\ spawning \in Specs \cup {NoSpec}
  /\ active \in Deployments
  /\ events \in 0 .. MaxEvents
  /\ \A i \in Ids : i \notin Unborn => agent[i] # NoSpec

Init ==
  /\ VerifierInit
  /\ preset = Scopes
  /\ specs = [n \in Names |-> NoSpec]
  /\ handles = {}
  /\ agent = [i \in Ids |-> NoSpec]
  /\ state = [i \in Ids |-> "unborn"]
  /\ spawning = NoSpec
  /\ active \in Deployments
  /\ events = 0

Named(i, n) == agent[i] # NoSpec /\ agent[i].spec.name = n

(* A signal: the process goes on until it ends.                                *)
Told(doomed) == [i \in Ids |-> IF i \in doomed /\ state[i] = "running" THEN "told" ELSE state[i]]

Idle == Provisioner \in active /\ spawning = NoSpec /\ step[Provisioner] = "none"

-----------------------------------------------------------------------------
(* spawn: the harness bound, the minted token under the guard, the launch.     *)

WithinHarness(spec) == spec.scopes \subseteq preset

Spawn(spec) ==
  /\ Idle
  /\ WithinHarness(spec)
  /\ spawning' = spec
  /\ UNCHANGED <<verifierVars, preset, specs, handles, agent, state, active, events>>

(* The minter signs whatever it signs, or raises.                              *)
Mint(t) ==
  /\ spawning # NoSpec /\ step[Provisioner] = "none"
  /\ Verify(Provisioner, t)
  /\ UNCHANGED teamVars

MintFails ==
  /\ spawning # NoSpec /\ step[Provisioner] = "none"
  /\ spawning' = NoSpec
  /\ UNCHANGED <<verifierVars, preset, specs, handles, agent, state, active, events>>

GuardPasses ==
  LET t == token[Provisioner]
  IN /\ step[Provisioner] = "accepted"
     /\ Subject[t] = spawning.name /\ IsService[t] /\ Granted[t] = spawning.scopes

Launch ==
  /\ GuardPasses
  /\ \E i \in Unborn :
       /\ \A j \in Unborn : i <= j
       /\ state' = [state EXCEPT ![i] = "running"]
       /\ agent' = [agent EXCEPT ![i] = [spec |-> spawning, token |-> token[Provisioner]]]
       /\ handles' = handles \cup {i}
  /\ specs' = [specs EXCEPT ![spawning.name] = spawning]
  /\ spawning' = NoSpec
  /\ Done(Provisioner)
  /\ UNCHANGED <<preset, active, events>>

(* The guard, or the spawner, raises: nothing is launched.                     *)
SpawnFails ==
  /\ step[Provisioner] \in Over
  /\ spawning' = NoSpec
  /\ Done(Provisioner)
  /\ UNCHANGED <<preset, specs, handles, agent, state, active, events>>

-----------------------------------------------------------------------------
Terminate(n) ==
  /\ Idle
  /\ LET matched == {i \in handles : Named(i, n)}
     IN state' = Told(matched) /\ handles' = handles \ matched
  /\ UNCHANGED <<verifierVars, preset, specs, agent, spawning, active, events>>

(* rotate terminates first and then spawns under the stored spec; the harness  *)
(* bound may refuse it by now, and the agent is gone.                          *)
Rotate(n) ==
  /\ Idle
  /\ specs[n] # NoSpec
  /\ LET matched == {i \in handles : Named(i, n)}
     IN state' = Told(matched) /\ handles' = handles \ matched
  /\ spawning' = IF WithinHarness(specs[n]) THEN specs[n] ELSE NoSpec
  /\ UNCHANGED <<verifierVars, preset, specs, agent, active, events>>

(* Mutant: reap drops by name, and a twin that runs is dropped with the dead.  *)
MutantReapedByName(dead) ==
  {i \in handles : \E j \in dead : Named(j, agent[i].spec.name)}

Reaped(dead) == dead

(* reap: the handles whose process has ended, asked once for the names it      *)
(* returns and once more, later, for those it drops.                           *)
Reap ==
  /\ Idle
  /\ handles' = handles \ Reaped({i \in handles : ~Runs(i)})
  /\ UNCHANGED <<verifierVars, preset, specs, agent, state, spawning, active, events>>

Shutdown ==
  /\ Idle
  /\ state' = Told(handles)
  /\ UNCHANGED <<verifierVars, preset, specs, handles, agent, spawning, active, events>>

Event ==
  /\ events < MaxEvents
  /\ events' = events + 1

(* The registry replaces the harness type.                                     *)
Register(scopes) ==
  /\ Event
  /\ preset' = scopes
  /\ UNCHANGED <<verifierVars, specs, handles, agent, state, spawning, active>>

Exit(i) ==
  /\ Runs(i)
  /\ state' = [state EXCEPT ![i] = "gone"]
  /\ UNCHANGED <<verifierVars, preset, specs, handles, agent, spawning, active, events>>

-----------------------------------------------------------------------------
(* An agent's request reaches the server with a token that was minted for it.  *)
Present(p) ==
  /\ p \in active
  /\ \E t \in Tokens : Verify(p, t)
  /\ UNCHANGED teamVars

Provision ==
  \/ \E spec \in Specs : Spawn(spec)
  \/ \E t \in Tokens : Mint(t)
  \/ MintFails \/ Launch \/ SpawnFails \/ Reap \/ Shutdown
  \/ \E n \in Names : Terminate(n) \/ Rotate(n)
  \/ \E scopes \in SUBSET Scopes : Register(scopes)

World ==
  \/ \E s \in Subjects : Revoke(s) \/ Restore(s)
  \/ \E k \in Keys : Publish(k) \/ Withdraw(k)
  \/ \E t \in Tokens : Lapse(t)

Next ==
  \/ Provision
  \/ \E p \in Clients : Present(p) \/ (Done(p) /\ UNCHANGED teamVars)
  \/ \E p \in Callers : VerifyStep(p) /\ UNCHANGED teamVars
  \/ \E i \in Ids : Exit(i)
  \/ World /\ Event /\ UNCHANGED <<preset, specs, handles, agent, state, spawning, active>>
  \/ Tick /\ UNCHANGED teamVars

Spec == Init /\ [][Next]_vars

-----------------------------------------------------------------------------
(* Whatever spawns, rotations and reaps went before, also of agents of one     *)
(* name: no agent process runs that the team has neither kept a handle of nor  *)
(* told to terminate.                                                          *)
NoOrphans == \A i \in Ids : state[i] = "running" => i \in handles
=============================================================================
