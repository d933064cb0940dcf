# A TLA+ development for hallpass

hallpass is a library and server that stands between AI agents and the tools
they call: it proves who is calling, decides what they may call, runs the tool,
and leaves a record. Around that call path it carries shared state that several
threads, processes and replicas change at once: a revocation list, a task queue,
human gates, a message bus, an agent roster, OAuth tokens. This directory models
that state and its operations in TLA+, checks the models with TLC, and proves
the properties that matter most with TLAPS.

Paths below are relative to `src/src/hallpass/` unless they say otherwise.

## 1. The system: inventory

| component | state it keeps | operations | shared with / called by |
|---|---|---|---|
| call path (`core.py`) | none of its own | `call_tool`, `list_tools`, `search_tools`, readiness | verifier, limiter, gate, idempotency store, handler, audit log |
| tool gate (`gating.py`) | registered tools | `register`, `catalog`, `authorize` | call path |
| token verifier, JWKS cache (`identity.py`) | cached principals, cached key set | `verify`, JWKS `get`/`force_refresh` | call path, control plane; asks the revocation list |
| revocation (`revocation.py`, in-process list in `identity.py`, Postgres store) | durable set of subjects; per replica a copy with a TTL | `revoke`, `restore`, `is_revoked`, refresh | verifier on every request; control plane writes |
| rate limiters (`ratelimit.py`, `redis_backends.py`) | per subject: stamps, or a bucket counter | `check` | call path |
| idempotency stores (`idempotency.py`, `redis_backends.py`) | result per subject, tool, key | `get`, `put`, expiry | call path |
| audit log (`audit.py`, Postgres sink) | events | `record`, queries | call path, control plane |
| human gates (`humangate.py`, Postgres) | a row per gate | `require`, `decide`, `get`, `pending`, `cleared` | control plane, orchestrations |
| control plane (`control.py`) | none of its own | admin views, `decide_gate`, `revoke_agent`, ... | human gates, revocation, audit |
| task queue (`taskqueue.py`, Postgres) | a row per task: status, lease, result | `enqueue`, `claim`, `complete`, `outstanding` | orchestrators put in, workers take out |
| worker loop (`runner.py`) | its position in a pass | `serve_queue`, `run_worker` | task queue; message bus |
| message bus (`a2a.py`, `dm.py`, Postgres) | channels, cursors, presence, policies | `post`, `read`, `ack`, `announce` | orchestrator, workers, agents |
| orchestrator, worker, router (`orchestrator.py`) | outstanding tasks, worker records | `dispatch`, `gather`, `run_once`, `route` | message bus |
| agent team, minting (`agents.py`, `minter.py`) | running agents and tokens | spawn, guard, terminate, reap, rotate | minter, harness |
| OAuth connect, vault, consent (`oauth.py`, `vault.py`, `consent.py`) | pending flows, token rows, consents | start, finish, refresh, disconnect | connectors |
| HTTP resilience (`rest.py`) | breaker state, failure count | call with retry, half-open probe | connectors |
| delegation, roles (`delegation.py`, `roles.py`) | grants with a TTL, roles and their holders | `define`, `assign`, `delegate`, `revoke` | whoever mints tokens |
| approvals, seats (`approvals.py`, `seats.py`) | sign-offs per artifact, who sits where | `record`, `approved`, `bind`, `holder` | workflows outside the code |
| message language, sanitizer, guard, search | none | pure functions on text | several |
| transports, CLI, assembly, catalog, diagnostics | configuration | translation into the calls above | outside world |

What interacts with what:

- A request is one thread through `call_tool`: verify -> limit -> authorize ->
  look up the key -> handler -> remember -> audit. Every arrow is a call into
  state other requests use at the same time, and most of those calls can raise.
- Replicas share the revocation set only through a database, and look at copies.
- Workers share the task queue only through its lock; a lease and a clock decide
  who may take over from whom.
- A human gate is a row which threads of one process share under a lock, and
  replicas share with nothing but the database between them.

Hard behaviours, which `PROJECT.json` lists line by line under `hazards`: a
clock read before a lock is waited for; a read outside a lock whose result is
written under it; select-then-update on a shared row; a lease that runs out
under its holder; a `complete` that raises; a store or sink that fails after the
side effect has happened; late messages, acknowledgements and probes.

What makes each component correct:

- call path: a revoked subject stays out; a result goes only to its own subject,
  tool and key; a remembered call is not run again; whoever is answered is on
  record.
- revocation: copies converge, in both directions, within a stated time.
- task queue and workers: handed out at least once, settled exactly once; nobody
  else is given a task under a live lease; old work first, as far as a claim can
  see it; nothing is stranded.
- human gates: only a human decides, and once. (`decide` names a gate and no
  opening of it: whether the human was shown this opening is not the ledger's.)
- message bus: gap-free sequences, no message skipped, cursors never go back.
- orchestration: every dispatched task is answered, none twice.
- team: an agent's token dies with it; the harness bound holds.
- OAuth: a disconnect is final; token and bundle belong together.
- breaker: opens, probes, closes; a late answer does not undo a newer state.
- rate limits: never more than the budget in a window (twice that across a
  bucket boundary for Redis, three times for calls that reach it late).

## 2. The modules

| module | what it is | code |
|---|---|---|
| `Backlog` | abstract: what a task queue promises | `TaskQueue` facade |
| `TaskQueue` | the rows and the steps of the operations on them | `taskqueue.py`, `PostgresTaskQueueBackend` |
| `ServeQueue` | worker loops over a `TaskQueue`; refines `Backlog` | `runner.py` `serve_queue` |
| `RevocationCache` | replicas and threads over a shared revocation set | `revocation.py` |
| `HumanGate` | the atomic ledger | `humangate.py`, in memory |
| `SharedHumanGate` | read-then-write over a row; refines `HumanGate` if locked | `SqliteHumanGateLedger`, `PostgresHumanGateLedger` |
| `CallPath` | requests through `call_tool`, listings, searches, connectors | `core.py` and what it calls |
| `ChannelLog` | abstract: a log that grows at its end, cursors that go forward | what `a2a.py` says of a channel |
| `A2ABus` | one channel: policy, rows, append lock, cursors | `a2a.py`, its stores |
| `Orchestration` | orchestrators and workers over an `A2ABus`; refines `ChannelLog` | `orchestrator.py`, `runner.py` `run_worker` |
| `RateLimit` | the sliding window and the Redis buckets | `ratelimit.py`, `redis_backends.py` |
| `OAuthConnect` | a user's connection: vault rows, consent, pending sign-in, the provider's tokens | `oauth.py`, `vault.py`, `consent.py` |
| `HttpResilience` | retries and circuit breaker | `rest.py` |
| `Connector` | tool calls, renewals, sign-in and sign-out over both | `rest.py`, `connectors.py`, `oauth.py` |
| `TokenVerifier` | token cache, JWKS cache, revocation list | `identity.py` |
| `Team` | spawned agents over a `TokenVerifier` | `agents.py`, `minter.py` |
| `Authority` | roles, delegations, minted scopes | `roles.py`, `delegation.py` |
| `ControlPlane` | admin requests over an `Authority` | `control.py` |
| `Flex` | the message language, the sanitizer, the untrusted frame | `flex.py`, `sanitize.py` |
| `Discovery` | roster and heartbeats, router, direct channels, joining | `a2a.py`, `orchestrator.py`, `dm.py`, `agents.py` |
| `RestRequest` | what an endpoint declaration turns a call into; the response guard | `rest.py`, `guard.py` |
| `HttpFront` | routes, bodies, status codes, MCP answers, readiness | `http_server.py`, `mcp_adapter.py`, `core.py` |
| `Assembly` | which stores a server is built with, what `doctor` says of it | `server.py`, `cli.py`, `diagnostics.py` |
| `Ledgers` | sign-offs, seats, audit queries | `approvals.py`, `seats.py`, `audit.py` |
| `MC*` | small instances for TLC; the assumptions that check the pure modules | |
| `*Proofs` | theorems and their proofs | |

The state machines keep every step at which another thread, process or replica
can come in between: a clock read before a lock, a row read and then written, a
commit and what follows it. The last six modules before the `MC` ones have no
state: their operators are evaluated by TLC on every small input, in `ASSUME`s of
the `MC` modules, against what the code's words say of them.

### Task queue and workers

`TaskQueue` holds the columns of the table: `status`, `createdAt`, `leasedBy`,
`leasedAt`, `result`. An enqueue is two steps, because every backend reads the
clock before it holds anything the processes share: `Stamp`, then `Insert`, so
rows may appear in another order than that of their stamps. `Lease` and
`Complete` are the other writes; `Claimable` and `Oldest` are the `WHERE` and
`ORDER BY ... LIMIT 1` of a claim. `Complete` is keyed by the task's id alone, as
the code's is: the first caller settles, holder of the lease or not.

`ServeQueue` gives every worker a program counter. A claim reads the clock
(`ReadCutoff`), then locks the oldest row that no other claim has locked
(`LockRow`, `Free`), and commits the lease (`ClaimTask`) or rolls back
(`ClaimRaises`). In Postgres other claims run in between and skip the locked row
(`FOR UPDATE SKIP LOCKED`), and a `complete` waits for it; under SQLite's write
lock and the in-memory one the two steps follow each other, which is one of the
behaviours. `Handle` returns or raises; `Report` is `complete`; `ReportRaises` is
a `complete` that raises inside the `try` (rolled back, or lost after the
commit), which the `except` clause answers with a second report; `LoopDies` is
one that raises where nothing catches it. `Stop`, `Crash` and `Restart` are the
ends and beginnings of a process. `BeginEnqueue`, `EndEnqueue`, `EnqueueRaises`
and `Tick` are the environment. A lease is stamped at some instant between the
cutoff's and now: SQLite and memory stamp under the lock, Postgres before it.

`HandedInOrder` needs to say what a claim could not have seen: `ahead[t]` is what
was taken before `t`'s row was there, or while another claim kept it locked.
Everything else that is younger waits for `t`.

Left out: the operation's name and fields of a task (only "has a handler" is
kept, in `Handles`), the note, and `heartbeat`. Two tasks put in at one instant
are in no promised order.

### Revocation

A thread in `is_revoked` goes `check` (is the copy fresh?), `read` (the source,
outside the lock), `swap` (under it), `lookup`, `answered`. `revoke` and
`restore` write the source and then the local copy. Threads of one replica share
`cache`, `loadedAt`, `primed`. `Tick` is the clock; it lets no call last longer
than `MaxDelay`, so that "how stale" has an answer: the bound holds for whatever
`MaxDelay` really is. `changedAt`, `started`, `acked`, `owed` are history.

### Human gates

`HumanGate` has `Require` and `Decide` as atomic steps. `SharedHumanGate`
divides each into the read and the write that the two SQL ledgers do;
`Locked = TRUE` is the lock one process holds over both, `Locked = FALSE` is
Postgres, where each call has its own READ COMMITTED transaction, or two
processes on one SQLite file. `Die` is a rollback. Reasons, notes and times are
left out. A read that changes nothing (a refusal, a pending gate required
again) is not a step. `decide` takes a gate's id, so a human who was shown one
opening of a gate may decide the next: no property of the ledger can say more
than that each opening is decided once, by a human.

### Call path

A thread carries a request `[token, tool, key]` from `Arrive` to one of three
ends: `returned`, `refused`, `raised`. `Faults` says what may go wrong in a run:
the handler raises, an upstream refuses, the idempotency store raises, the audit
sink raises, the ranker of a search raises, a result cannot be stored, the
thread is lost, a remembered result expires. A result is identified by whose run
it was, so that "another user's result" can be told from one's own.

`Listing` and `Searching` are requests too: they go through the same
verification and no limit, as in the code, and a search's ranker may answer any
choice of any names, which covers the lexical one; the code filters it again.
Connectors are registered when the server is built, an unavailable one leaves no
tools. What HTTP and MCP make of each end is in `HttpFront`; `GET /tools` with a
sink that raises has no answer at all, as in the code.

The neighbours are abstracted to what the call path sees of them: a token is
`Valid` or not (`TokenVerifier` has the rest), the revocation list is the
in-process set, the limiter is a count per subject which falls when the window
moves (`RateLimit` has the rest), a tool is its required scopes. Handlers are
assumed to raise none of the core's own three exceptions, which are how the core
tells its refusals apart. Whether a request without a key ran is not counted.

### Message bus and orchestration

`A2ABus` is one channel. A call looks its policy up twice: `Needs` reads the
scopes (none, when the channel is undeclared), `Authorized` asks later whether
the channel exists and compares. `Declare` may come between. An append computes
`MAX(seq) + 1` under the lock (`BeginAppend`) and inserts the row when it
commits (`CommitAppend`), at the seq it computed, so that two appends without
the lock would overwrite each other. `ack` is two critical sections, the
comparison with the head (`Ack`) and the cursor's maximum (`Advance`).

`Orchestration` runs `dispatch`, `gather`, `run_once` and `run_worker` over it. A
process has a program counter and its batch `(at, upTo]`. `CatchUp` reads the
cursor once, `ReadPage` reads on in pages while others post. A worker handles the
tasks addressed to it one by one (`Handle`: the handler returns, raises, or does
not exist, and a reply is posted each time), then acknowledges the whole batch
(`BatchDone`, `Ack`, `WorkerAcked`). A gather is asked for a set of ids
(`wanted`, one of `Asks`), notes the results among them (`NoteResults`),
acknowledges everything it has read, and goes round up to `Rounds` times. A
process that is not `Reliable` may fail at any step: `Fails` is a store or sink
that raises before or inside a transaction, `FailsLate` an append or a move of
the cursor that commits and then raises, `Crash` the end of the process,
orchestrator or worker. A reply with `ok=True` is inside the handler's `try`, and
is replied to again with `ok=False` (`Raise`). What a gather has acknowledged and
does not return, because it was not asked for it or because it failed after the
acknowledgement (`GiveUp`), is `forgone`; that such results are lost is what the
code does (section 4), and `NoResultLost` says that no other is: neither those of
earlier rounds, nor those another reader or a page boundary comes across. Message
text is in `Flex`, addressing in `Discovery`.

### Rate limits

Both limiters read the clock (`ReadClock`) before they reach what is shared.
`CheckSliding` is the critical section of the deque: the pop loop (`Prune`) stops
at the first stamp that is young enough, though stamps come in out of order.
`Increment` and `Expire` are the two Redis commands, on the bucket of the instant
that was read; `LoseExpire` is a replica that dies in between. The clock counts
parts of a second (`Second` of them), so that a window need not be whole seconds:
`KeyLife` is `int(window) + 1` seconds, and the slack of a key over its window is
anything up to a second. `MaxDelay` is how late a check may reach the store, which
the code does not bound. One subject is modelled: subjects share nothing.

### Connectors, OAuth and resilience

Tokens are numbered in the order the provider issues them: those up to `expired`
have expired, `live` are the refresh tokens it still honours. `access` and
`bundle` are the two rows of the vault, written and read one after the other.
`Connector` has one action per access: a call reads the credential, passes the
breaker or fails fast, is retried, and is counted as an outage or a success
afterwards. The service is down, rejects calls, or answers: a 401 is for a token
that has expired; a rejecting service may meet any call with another client
error (`Rejected`: raised past the breaker, which neither counts it nor closes), a
403 (`Forbidden`) or a 429 (`Retry`, `Throttled`). A first 401 or 403 renews
(`RenewAfter401`, `ReadBundle`, `Exchange`, `StoreFirst`, `StoreSecond`) and the
credential is read again (`Reread`). The token endpoint may refuse a refresh
token, answer with an error (`ExchangeFails`), or have its response lost after it
issued tokens (`ResponseLost`): the exception reaches the caller of the operation,
which ends `refused`.
`Finish` pops the pending sign-in, which works once; `AskDisconnect`,
`ForgetBundle`, `DropConsent` are the three deletions. `hits`, `quiet` and `gone`
are history. Waiting times of retries, PKCE and encryption are left out.

### Tokens and agents

`TokenVerifier` follows `verify` from the cache through `_key_for` (the document,
then once more with `force_refresh`), decoding, the revocation list and the
cache. `ServesCached` is the condition under which `HttpJwks` does not fetch:
young enough, or a failed attempt not long ago, which answers a forced refresh
too. A fetch holds the lock over three steps: the attempt is stamped (`Ask`), the
provider answers with the keys it has by then (`Answer`), the document is stamped
when it is stored (`Store`), in all up to the request's timeout later
(`MaxFetch`); or the fetch fails (`FetchFails`), which serves the stale document,
or with a cold cache lets the transport's exception out (`failed`, and not
`unknown`). Ages are counted as far as they make a difference. `InUse` is what
remains of "the keys are the provider's": a key may be used until a TTL and a
fetch after it was withdrawn, longer while fetches fail. A principal from the
cache is let in without a look at any key; `vouched` says that its signature was
checked with a key in use once.
`Team` spawns over it: harness bound, minted token, guard, launch. A process ends
when it likes; `Terminate`, `Rotate` and `Shutdown` only tell it to. The tokens
presented by agents are verified by other threads at the same time.

### Authority and the control plane

A subject's token holds the union of its roles' and its delegations' scopes, as
of when it was minted (`Mint`); `Delegate` compares with the grantor's token, not
with what the grantor would be given now. `ControlPlane` runs the admin requests
step by step: `Authorize`, the effect, the record, which is kept as what it says
(subject, action, decision). A sink that raises leaves the effect without a
record (`RecordRaises`), an unwired subsystem is a denial without one
(`Unwired`), and a control plane without a sink answers and records nothing
(`audited`).

### What the pure modules are checked for

- `MCOrchestration`: which messages `parse` gives back (`RoundTrip`), that no
  text can close the frame around it (`FramesHold`), that sanitizing twice is
  sanitizing once (`SanitizeSettles`), when truncation fits (`TruncationFits`);
  that routes spread over candidates of one need and may not over two
  (`RoutesSpread`, `RoutesMayStick`); that an agent the channel refuses is
  neither on the roster nor routed to (`JoinsTogether`), when heartbeats stand (`HeartbeatsStand`),
  that a direct channel is two subjects' and nobody else's (`DmsArePrivate`).
- `MCCallPath`: what replicas of one configuration share and what a restart
  loses (`FleetShares`, `SharedVaultReadable`, `EphemeralIsLost`,
  `DurableMayBeUnreadable`, `SingleNodeForgets`), what `doctor` warns of
  (`SplitIsWarned`), that the minter stays at home (`MinterStaysHome`); bodies,
  routes and answers of the HTTP front (`BodiesAreBounded`, `AdminIsInvisible`,
  `CoreIsCalledInKind`, `SilenceApproves`), the readiness cache
  (`ReadinessIsRecent`).
- `MCConnector`: a call that keeps to the advertised schema can be sent
  (`SchemaIsEnough`), the credential arrives whatever arguments are called
  (`CredentialArrives`), required arguments outside the path are advice
  (`RequiredIsAdvice`), when the guard's envelope fits (`EnvelopeFits`,
  `EnvelopeMayNotFit`).
- `MCControlPlane`: authors do not approve their own work while one author is
  named, and may when several are (`AuthorNeverApproves`,
  `AuthorsMayApproveEachOther`), conflicts of duties only grow
  (`ConflictsOnlyGrow`), the two directions of the seat table agree
  (`SeatsAgree`), a query answers the newest events that match
  (`QueriesAreTheNewest`), the sink in memory keeps the latest
  (`MemoryKeepsTheLatest`).

## 3. The runs

| run | instance | shows |
|---|---|---|
| `serve_queue` | 2 workers, one of them reliable, 2 tasks, lease 1, clock to 3 | `LeaseExclusive`, `HandedInOrder`, the queue implements `Backlog`, `EventuallyDrained` |
| `revocation_cache` | 2 threads on one replica, 1 on another, TTL 1, clock to 3 | `BoundedStaleness` |
| `human_gate_locked` | 3 callers, 2 gates, 2 openings each, 2 humans, 1 service | the locked ledger implements the atomic one; `DecidedOnce`, `OnlyHumansDecide` |
| `call_path` | 2 requests in flight, 3 in all, budget 1, every fault | `RevokedIsOut`, `OwnResult`, `RetryNeverReruns`, `AnsweredIsAudited`, `RememberedRan` |
| `orchestration` | 1 orchestrator; 2 processes of one worker subject and 1 task, or 1 process and 2 tasks; gathers of 2 rounds that ask for 1 of them | `AckedIsAnswered`, `NoResultLost`, `PostsWereAllowed`, the channel implements `ChannelLog`, `EventuallyCollected` |
| `rate_limit` | 2 threads or replicas, 2 calls per window of a second and a half, clock to 2.5 s, checks up to 1 s late | `WindowBudget`, `RefusedOnlyWhenFull` |
| `connector` | 1 or 2 threads, 3 tokens, 1 retry, threshold 2 | `RenewalIsTransparent`, `DisconnectSticks`, `HitsWhileOpen`, `BreakerRecovers` |
| `team` | a provisioner with 2 processes, or 2 verifying threads; 2 tokens of one subject, 2 keys | `RevokedStaysOut`, `NoOrphans`, `KeysFollowTheProvider` |
| `governance` | 2 operators and 1 change of the ledgers, 1 operator without an audit sink, or 3 changes | `AuthorityHasARoot`, `AnswersAreOnRecord` |
| `revocation_actor` | as `revocation_cache` | **violates** `ActorSeesItAtOnce` |
| `human_gate_replicas` | as `human_gate_locked`, no lock | **violates** `DecidedOnce` |
| `call_path_store` | one request at a time, the store fails | **violates** `AtMostOnce` |

Every passing run checks its module's `TypeOK` (`SharedTypeOK`, `LimiterTypeOK`)
as well. To run
one: `tlc -config ServeQueue.cfg MCServeQueue`.

**Bounds.**

- `serve_queue`: `MaxTime` ends the clock. With lease 1, time 3 is enough for a
  lease to be taken, to run out, and to be taken over, with the old holder's
  report arriving after that, and for a row that appears after a younger one was
  handed out. `Horizon` ends the time in which the unreliable
  worker may still take a task, and leaves the reliable one enough clock to see
  its lease run out. 1.0 million states.
- `revocation_*`: with TTL 1 and calls of length 1, time 3 has a refresh, a
  change during it, and the answer it makes stale, one instant before the bound
  would be broken; the off-by-one mutant of the age test is caught there.
- `human_gate_*`: `MaxOpenings = 2` is a gate decided, opened again and decided
  again, which is what a stale decision needs; it is also why those runs do not
  check deadlock: a gate decided for the last time is at rest.
- `call_path`: three requests over two threads are a first call, a second one
  overlapping with it, and a retry after either; budget 1 makes the limiter
  refuse. 2.7 million states.
- `orchestration`: `MaxFaults = 1` is one crash, one raising call or one change
  of policy, anywhere; two processes of one subject race for one cursor and give
  one task two results, two tasks fill a page (`PageSize` 2) and leave messages
  for the next. Only `w2` has a handler, for `t1`. The channel starts declared,
  as an administrator leaves it. `w1` is reliable, `w2` and the orchestrator are
  not: the one fault may be a crash of either, or a call of either that raises
  before or after it commits. Gathers ask for `t1` (`Asks`) and come across `t2`'s
  result as well; two rounds are an earlier one whose results a later one must
  not lose. 0.4 million states.
- `rate_limit`: a tick is half a second, the window three, the slack of a key one
  and the delay two: checks are late enough to put stamps out of order and to
  find a key gone, and time 5 has two buckets. The clock ends there, so deadlock
  is not checked. 0.9 million states.
- `connector`: four scenes: one thread that does everything with a provider that
  rotates refresh tokens; two threads whose calls and refreshes meet the same
  401, with a provider that does not rotate, lost responses and crashes; two that
  do everything with one that does, lost responses and crashes; two whose calls
  meet outages and rejections. `MaxIssued = 3` is a sign-in and two renewals. A
  threshold of 2 with 1 retry opens the circuit by two calls, and lets late
  answers come after it. 0.8 million states.
- `team`: a cache of one entry that two tokens, of one subject and two keys, drive
  each other out of; TTL 2, retry 1 and fetches of up to 1 tell a stale document
  from a throttled one, and a key withdrawn during a fetch from one withdrawn
  before; two processes of one name tell dropping by handle from dropping by
  name. `MaxEvents = 2` is a rotation, or a revocation and its restoration. 2.0
  million states.
- `governance`: three changes are an assignment or definition, a delegation and a
  mint, the shortest way of a scope from hand to hand; two operators race for one
  gate while one change takes place, and one serves without a sink.
  `queue_depth` is not wired. 3.9 million states.

**Symmetry** is used where threads, replicas or operators differ in nothing and
no liveness is checked: `revocation_*`, `rate_limit`, `team` (the two verifying
threads), `governance` (the two operators).

**Fairness** is assumed for liveness only.

- `EventuallyDrained`: weak fairness of the clock and of the loop of each worker
  in `Reliable`. The first is physical. The second is what `serve_queue` does
  when its process runs and its handlers return: it polls without end, unless
  `stop` or `max_idle_rounds` tell it to end. Of the other workers only the end
  of their claims' transactions is assumed, by commit or rollback (a database ends
  those of a lost connection); they may die with a task in their hands.
- `EventuallyCollected`: weak fairness of a reliable worker's loop
  (`run_worker` polls, and is started again when a denial ends it), of the
  orchestrator's calls (somebody who dispatches gathers, for whatever ids, and is
  started again), and of the commit of an open transaction, whoever's. It is
  claimed when from some time on the policy admits everybody, for tasks addressed
  to a reliable worker; a result that a gather gave up counts as collected.
- `BreakerRecovers`: weak fairness of the clock and of the steps of calls and
  renewals: a thread in a call goes on, and calls keep coming. It is claimed when
  from some time on the service answers every call and takes the user's token: one
  that answers with client errors is kept out for ever (section 4).

## 4. Where the code and its words part

Three runs end in a counterexample, each to a sentence of the repository:

1. `human_gate_replicas`: "only once" (`humangate.py:42`), "a decision is final"
   (`:97`). Two `decide` calls on Postgres both read `pending`, both pass
   `_decide`, both update by id: one caller is told approved, the other denied,
   and the later write stands. A condition on the status in the UPDATE would
   settle it; the locked run shows what it would restore.
2. `revocation_actor`: "the acting replica sees it at once" (`revocation.py:91`)
   and "concurrent refreshes are harmless" (`:115`). A refresh that read the
   source before the revoke swaps its set in after it. It heals with the next
   refresh: `BoundedStaleness` holds all the same.
3. `call_path_store`: "a retried mutation happens at most once" (`core.py:228`).
   `store.put` comes after the handler; if it raises, the retry runs again.

Others were met while modelling; `PROJECT.json` lists each with the sentence it
contradicts. What the models say in their place:

- *Records.* A handler that raises leaves no audit event (`core.py:285`), nor
  does an admin call of an unwired subsystem (`control.py:112`). What holds is
  `AnsweredIsAudited` and, where a sink is wired, `AnswersAreOnRecord`. Nothing
  ties an admin action to its record: after a sink that raises, or a crash, a
  decision stands with nobody on record for it.
- *Queue and bus.* A `complete(ok=True)` that raises is reported again as a
  failure (`runner.py:126`). A channel declared between the two lookups of a
  call is used without its scopes (`a2a.py:500`): `PostsWereAllowed` holds of
  channels declared before they are used. A gather acknowledges results it was
  not asked for, and loses what it has acknowledged when it raises or dies after
  that (`orchestrator.py:129`): `NoResultLost` counts both as `forgone`, and
  holds of the rest. Routes of two needs may stick to one candidate each
  (`orchestrator.py:235`); a delayed heartbeat sets presence back (`a2a.py:407`).
- *Limits.* A crash between INCR and EXPIRE leaves a counter for ever
  (`redis_backends.py:142`); it is of a bucket nobody counts in again.
  "Bounded by 2x within one window" (`redis_backends.py:101`) needs calls that
  are quick: the bucket is computed (`:140`) before INCR is sent (`:142`), and its
  key lives for `int(window) + 1` seconds from its first call. A call that reaches
  Redis later than that (a new connection is given five seconds, `:135`, the call
  itself any time) may find the key gone, and its bucket admits `max_calls` once
  more. The bound is then three times `max_calls`: a window meets two buckets, and
  only the earlier one's key can have gone within it, once. `WindowBudget` says
  2x where delays stay within the key's slack over the window and 3x where not; in
  the run they do not.
- *Connections.* A renewal that overlaps a sign-out brings the rows back
  (`oauth.py:341`): `DisconnectSticks` holds of sign-outs no writer overlaps.
  `valid_token` may judge one token by another's expiry (`oauth.py:358`):
  `RenewalIsTransparent` holds of one thread, or of calls and refreshes over a
  provider that does not rotate. With one that does, two renewals at once, a crash
  before the new token is stored or a lost response leave no refresh token that
  works (`oauth.py:325`, `:336`). An error of the token endpoint, or a 403, is
  the caller's to see (`rest.py:508`).
  Every caller is a probe of a half-open circuit (`rest.py:291`), a transport
  exception is not counted (`rest.py:297`), and an answer of 401, 403, 404 or 422
  closes nothing (`rest.py:304`).
- *Agents and authority.* `reap` may drop an agent it does not name
  (`agents.py:362`). Delegated scopes can be delegated on for longer than they
  are held (`delegation.py:118`): `AuthorityHasARoot` is what remains true. The
  authors of two versions may approve each other's (`approvals.py:198`).
- *Text and sizes.* `flex.py:98`, `sanitize.py:74`, `guard.py:46`,
  `http_server.py:286`: which inputs each promise holds for is an assumption of
  its `MC` module.
- *Assembly.* A durable vault with a key of its own per start
  (`server.py:105`), a single node that serves without one (`cli.py:106`).

Two assumptions the code makes and does not state turn up as hypotheses:

- `LeaseSafety` needs one `lease_seconds` for all workers. The cutoff of a claim
  is computed from the *claimant's* lease length, so a worker with a short one
  takes tasks that a worker with a long one still holds.
- The docs give the TTL as the time until replicas agree. A call in flight adds
  its own duration to that: a slow refresh installs what it read at its start,
  stamped with its end. `BoundedStaleness` therefore says TTL + `MaxDelay`; the
  keys of the identity provider follow with TTL + `MaxFetch`, for the same reason.

## 5. What is proved

All theorems hold for every value of the constants that meets the named
assumptions of the modules (which TLC evaluates in the runs as well): any number
of workers, tasks, replicas, threads, gates, requests, any lease, TTL and bound.

**`ServeQueueProofs`.** `Typing`, `InOrder`, `LeaseSafety`, `Refinement`. None of
the properties is inductive alone. The invariant `Inv` adds that a worker inside
a pass holds a task that is leased or done and was handed to it
(`HoldersLeased`), that no recorded instant is in the future (`ClockOK`), that
the status column agrees with the history and with the result column
(`StatusOK`), that a claim holds the lock of a row it may take and holds it alone
(`LocksOK`), and that a task under way into the table has no row (`PostingOK`).
`InOrder` is an induction over what is taken, locked rows included
(`TakenInOrder`): a claim takes the oldest of the rows it sees, a row that appears
late notes what was taken before it, and one that a claim has locked notes what
passes it. `LeaseSafety` is a second induction on top of `Inv`, under `SameLease`:
a claim's cutoff lies at least one lease behind the clock, so a row it takes was
leased strictly before that. `Refinement` maps every step that settles to
`Settle` or to a stutter, by `StatusOK`.

**`RevocationCacheProofs`.** `Typing`, `Staleness`. The invariant follows a
change along the pipeline: what a refresh has read differs from the source only
where that changed since it began (`ReadOK`); hence a copy differs only where the
source changed since `MaxDelay` before it was loaded (`CopyOK`); a pending local
add or discard undoes only what happened since its call began (`WriteOK`); and a
thread about to look up does so on a copy loaded less than the TTL before its
call (`LookupOK`).

**`SharedHumanGateProofs`.** `Typing` and `HumansOnly` with or without a lock;
`OnceUnderLock` and `LockedRefinement` with one. `LockInv`
says that at most one caller is between its read and its write (`Alone`), that what it read still
stands (`ReadStands`), and that a pending gate has no grants (`GrantsOK`).

**`CallPathProofs`.** `Typing`, `RevocationHolds`, `ResultsAreOwn`,
`StrictRetries`, `AnswersAudited`, `OnlySuccesses`. The invariant is one
condition per thread (`ThreadOK`: where it can be with which request and which
result, and what its trail may hold) and one on the store (`MemoOK`: what is
remembered under a call is that call's, and it ran). `Frame` and `Others` say
once that a step of one thread leaves the condition of the others alone; there
is one lemma per action.

**`OrchestrationProofs`.** `Typing`, `ChannelIsALog`, `OnlyAllowedPosts`,
`AckedAnswered`, `ResultsReturned`, for any number of orchestrators, workers and
tasks and any failures. `Inv` says that the lock, the program counter and the
seq computed agree, so that an append is at the next seq, and that batches and
cursors stay within the log (`ChannelOK`), that the `try` block is about a reply
(`TryingOK`), and what rounds and drawn ids may be. `ChannelIsALog` is the
refinement: a commit is a `Post`, the second half of an ack an `Acknowledge` or a
stutter, everything else a stutter. The other three are second inductions on top
of `Inv`, each along what a batch owes: what is before `at` in a worker's batch
is answered already (`SettledOK`), what a gather's subject has acknowledged is
collected, in hand or forgone, and what lies before its batch is accounted for
(`CollectedOK`), what has passed both lookups was admitted (`LawfulOK`). Their
hypotheses: the channel starts declared (`OnlyAllowedPosts`); no orchestrator has
a worker's subject, else they would share a cursor (`AckedAnswered`,
`ResultsReturned`). Rounds, crashes of either side and calls that raise after
their commit are all in.

**`AdmissionProofs`, the limiters.** `LimiterTyping`, `NoSpareRefusals`,
`SlidingWindowHolds`, `BudgetHolds`, for any number of threads or replicas, any
budget, window and delay. The
properties count the history, so the invariant counts too. For the deque
(`SlidingOK`): it is sorted up to `MaxDelay` (a stamp is no older than that when
it is put in); for any instant, it holds no more stamps from then on than calls
were let through; and of a window that is not over it holds them all, for the pop
loop removes a prefix of stamps a whole window old (`PruneKeepsYoung`). A call
let through late in a window is therefore one of at most `max_calls` in the deque
(`SlidingBudget`), and what is left when one is refused began in the last window,
give or take the delay (`RefusedSliding`). For the buckets: a key counts no more
calls than were let through, until these are `max_calls` (`BucketsOK`, whatever
expires and whoever dies), and the replica that counted 1 has the key to itself
until it has set its expiry (`FirstsOK`). Their budget is a second induction (`KeyBudget`), over the
keys a bucket has had in turn, told apart by when they were born: each admitted at
most `max_calls`, and two keys of one bucket are a key's life apart. A window
meets two buckets (`TwoBuckets`, `BucketOrder`: division of naturals by the
window, by multiplication); calls let through within it were counted in at most
two keys of the one and one of the other (`TwoKeys`, `OneKey`), and if no check is
later than the key's slack, in one of each.
`Counted` says that the history tells any two calls
apart, so that one more call is one more element (`OneMore`).

**`AdmissionProofs`, the team.** `Typing`, `RevokedRefused`, `KeysFollow`,
`NothingOrphaned`. (Limiters and verifier share the module: both decide whom a
server lets in, and neither uses the other's state.) `GuardedOK` ties a spawn to the verification under it; `BarredOK` says that a
caller past the list, or the cache's own check, is not one that has been revoked
all along; `LockOK` that at most one caller is in a fetch, and no longer than the
fetch may take; `KeysOK` that a key in the document or in an answer under way was
published when the provider answered, so that its age and the fetch's bound how
long the key has been gone; `VouchedOK` that the cache holds only tokens whose
signature was checked with a key in use.

**`ControlPlaneProofs`.** `TypeCorrect`, `AuthorityIsRooted`,
`EveryAnswerIsOnRecord`. `Rooted` adds to the tokens and the active grants
what held roles carry, which the next token is minted with, and grants that are
not active; `OnePerRequest` says which records a request has left, by where it
is. `StepsAreSeparate` says once that a step is
an operator's, the gate's, the ledgers' or the clock's.

**`ConnectorProofs`.** `Typing`, `SignOutIsFinal`, `OpenCircuitSpares` and
`ExpiryIsInvisible`. The invariant `SignOutOK` follows a sign-out that nobody
overlaps: the access token is gone at each of its later steps and no thread holds
anything to store; once the bundle is gone no renewal can begin, for there is
nothing to renew with; and after it only a sign-in, which ends the claim, puts
anything back.
`HitsWhileOpen` bounds what has arrived by what can still arrive: `HitsBounded`
counts, besides the hits, the requests in flight and the attempts left to them,
as the set `Coming` of pairs of a thread and an attempt. The thread that opens
the circuit has none left; every arrival takes a pair out of the set and adds a
hit. It needs a finite set of threads (`ThreadsAssumption`).
`RenewalIsTransparent` is two inductions, for one thread alone in a process that
does not die (`AloneInv`), and for any number that call and refresh over a
provider that does not rotate, in one that may (`CallsInv`): which task a thread is about at which
step (`Duty`); what it holds there and that the provider still honours it
(`TokenOK`: a renewed token is fresh, what is to be exchanged or stored is live);
and that the vault can renew: its bundle's refresh token is live, and alone its
two rows belong together wherever no store is under way (`VaultOK`).
With other writers at work it is false (section 4), which is why `Calm` is part
of the property.

Only model-checked: the three liveness properties, which are out of the prover's
reach, and the assumptions about the pure modules, on the small inputs the `MC`
modules name. Every other property of a passing run is a theorem.

## 6. What is not modelled

- `toolkit.py` (a schema from a Python signature) and `dashboard.py` (a static
  page) keep no state and decide nothing. `catalog.py` is declarations: which
  services are built from it is in `Assembly`, what a declaration turns a call
  into in `RestRequest`; the declarations themselves are data.
- The scoring of the lexical ranker: any ranker is modelled.
- The `migrate` and catalog commands of `cli.py`, and signal handling.
- PKCE, signatures and encryption: a state, token or ciphertext matches or not.
- The dictionary under the in-memory idempotency store, whose unlocked delete by
  two readers of one expired entry is listed as a hazard without a property.
- Waiting times of retries, and concurrent readiness probes.
- How an environment reaches a child process.

Next would come the ends that liveness needs as safety: that a worker that goes
on polling always finds a claim, report or return to make, by the invariants of
section 5; and the promises of the pure modules that do not need induction over
their inputs, as theorems instead of assumptions.
