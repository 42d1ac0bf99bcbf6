# Roundtable core in TLA+

Roundtable is a multi-user chat workspace with an AI assistant. Browsers talk
to a workspace over Socket.IO; workspaces talk to each other over signed HTTP
(bridges, A2A tasks, intent tokens) under contracts that a control plane
distributes in a manifest. This directory specifies the parts of the server and
of its two browser clients whose behaviour depends on the order of asynchronous
steps, on time, or on failures.
Line numbers below are those of the repository's files.

## The system

| Component | State it keeps | Operations | What makes it correct |
|---|---|---|---|
| AI request queue: `sockets/chat/index.ts`, `session.ts`, `consult.ts` | per workspace a queue and a processing flag; per socket `isGenerating`, `abortController`, rate-limit stamps | send-message, stop-generation, disconnect, `@ai-{workspace}` delegation | one request at a time, no flag left up, FIFO, queued requests run |
| Replay prevention: `protocols/nonceStore.ts` | table `intent_nonces`, one in-memory map per process | add, addScoped, cleanup | a nonce is accepted once per TTL, by any replica, across restarts |
| Manifest cache: `utils/fetchManifest.js` | per workspace manifest, fetch and error times, degraded flag | fetchManifest, manifestHealth | bounded staleness, environment only at first boot, honest health |
| Tenant data: `db/adapters/postgresql.js`, `db/rls.js`, `pooled/*`, `tenantCredentials.ts` | rows, pooled connections with their transactions, cache of secrets | statements, grants and taps; fetch, sweep | a request touches its own workspace's rows; its failures stay its own; a rotated secret is used no longer than the TTL |
| Intent pipeline, sender: `tools/intentBridge.ts` | a token, its wake-and-retry loop | build, sign, send, retry | a task that was sent executes at most once and its outcome is reported |
| Intent pipeline, receiver: `routes/a2a.ts` intent/execute, `protocols/intentTokenCodec.ts`, `intentExecutor.ts`, `prerequisites.ts`, `executionProof.ts` | nonce, contract, proofs | verify, consume nonce, decrypt, authorize, execute | nothing runs before every check has passed |
| Intent cache and compiler: `protocols/intentCache.ts`, `intentCompiler.ts` | LRU map with TTL; pure passes | get, set, evict; fuse, dedupe, limit | a cached result is recent and one's own; each step is answered by a statement that covers it |
| A2A tasks: `a2a/server.ts`, `routes/a2a.ts` | task store, cleanup timer | message/send, tasks/get, tasks/cancel | what was answered is final and complete; a task stays readable for an hour |
| Tracing: `tracing/*` | span buffer, sampling | record, flush | each span is written once |
| Bridge sender: `tools/bridgeWorkspace.ts` | a call and its wake loop | sign, send, retry | no repetition of a first request that was taken; a refusal has a cause |
| Bridge receiver: `routes/bridgeReceive.js`, `utils/s2sSig.js`, `middleware/requireHmac.js` | nonces, delegated turns | message, result, delegate | a relay is accepted once; a delegation is reported |
| Tool loop and providers: `services/ai/*` | conversation, tool failures, provider fallback | stream, call tools, break | bounded loops, breaker trips |
| Presence and rooms: `sockets/workspaceHandler.js`, `sockets/index.js` | map of present users, rooms | handshake, register, act, disconnect | presence is what the sockets say |
| Boot and shutdown: `server/index.js`, `db/adapter.js`, `pooled/arthur.js` | the pod's boot chain, the workspace's row | start, seed, sync, shutdown; settings PATCH | a pushed prompt is never reverted by a boot |
| Authentication: `routes/auth.js`, `middleware/requireHmac.js`, `utils/contractAuth.js`, `utils/s2sSig.js`, `utils/contractKeys.js`, `pooled/*` | sessions, keys, nonces | sign in, verify, resolve tenant | modelled where a component relies on it |
| Browser clients: `client/`, `public/` | messages shown, live stream, dialogs | open, connect, load history, handle events, save | nothing announced is lost between history and socket |
| Tools and plugins: `tools/*` other than the bridges, `mcp/*` | none | single calls | which are enabled is modelled; the calls are I/O |

The server is single-threaded: a handler runs without interruption from one
`await` to the next, and anything may run in between. Every model follows this:
one action is one stretch between two awaits. A browser is another process,
and so is every further pod.

## Modules

| Module | Models | Runs | Proofs |
|---|---|---|---|
| `ChatQueue` | the AI request queue of one workspace | `MCChatQueue`, `ChatQueue_*.cfg` | `ChatQueueProofs` |
| `ReplayGuard` | abstract specification: what replay prevention promises | through `NonceStore` | |
| `Clock` | the clock that the two stores below share | | |
| `NonceStore` | one nonce in the table and in the maps of all processes | `MCIntentTransport`, `IntentTransport_safety.cfg` | `StoreProofs` |
| `ManifestCache` | one entry of the manifest cache | the same | `StoreProofs` |
| `RemoteTask` | abstract specification: what sending an intent promises | through `IntentExchange` | |
| `IntentExchange` | one intent token between its sender and the workspace that executes it | the same; `MCIntentExchange`, `IntentExchange_party.cfg` | `IntentExchangeProofs` |
| `ToolLoop` | one turn of the assistant with any of the five providers | `MCToolLoop`, `ToolLoop_*.cfg` | `ToolLoopProofs` |
| `A2aTasks` | the task endpoint, its turns, its store, the spans they leave | `MCA2aTasks`, `A2aTasks_safety.cfg` | `A2aTasksProofs` |
| `Bridge` | messages and delegations between two workspaces: the tool's calls and the control plane's relays | `MCBridge`, `Bridge_calls.cfg` | `BridgeProofs` |
| `TenantData` | rows, transactions, taps and credentials of a pooled service or a dedicated pod | `MCTenantData`, `TenantData_safety.cfg` | `TenantDataProofs` |
| `IntentRun` | what happens to verified intents: policy, cache, compiler, tools, proof | `MCIntentRun`, `IntentRun_*.cfg` | `IntentExchangeProofs` |
| `Boot` | pods that boot and stop, the workspace's row, the settings dialogs | through `Room` | `RoomProofs` |
| `Room` | `Boot` composed with sign-in, sockets, presence, messages and both clients | `MCRoom`, `Room_safety.cfg` | `RoomProofs` |

`Room` extends `Boot`: its next-state relation is that of the pods, the row and
the dialogs, joined with the sockets that live and die with those pods, and
that it implements `Boot` is proved. Elsewhere modules meet at an interface:
a generation of `ChatQueue` is a turn of `ToolLoop`
consumed by the chat, and an answer of `Room`; a turn of `A2aTasks` is one of `ToolLoop` consumed
by a task; a call to a target in `ToolLoop` is an exchange of `IntentExchange`
or a call of `Bridge`; the handler that `IntentExchange` lets run once is a run
of `IntentRun`, whose taps and credentials are those of `TenantData`; the nonce
that `IntentExchange` consumes in one step is the subject of
`NonceStore`, and the contract that its target reads twice comes from the entry
of `ManifestCache`. There each module takes from its neighbour only what the
neighbour's properties promise; they are not composed into one state machine.
Where modules are extended together (by `StoreProofs`, `IntentExchangeProofs` and
`MCIntentTransport`), names say whose they are: `ManifestInit`, `ManifestNext`,
`ManifestSpec` with `CacheTtl` and the calls in `Fetches`; `ExchangeInit`, `ExchangeNext`,
`ExchangeSpec`; `RunInit`, `RunNext`, `RunSpec`.

`MCIntentTransport` puts the three parts that an intent passes on its way side by side: the
nonce store, the manifest cache, the exchange of a token. They share the clock alone, so
its variable `part` says from the start which of the three moves, while the others rest;
every behaviour of each of them up to its horizon (4, 7 and 9 units) is one of the run
`IntentTransport_safety`.

The definitions marked as mutants in the modules are plausible faults of the
definition that follows them; each property of a passing run is violated when
its mutant replaces that definition, so no property holds vacuously.

### ChatQueue

A message stands for the invocation of the `send-message` handler it triggers,
and `pc[m]` for the await it is suspended at. `processing` is
`workspaceProcessing`, `isGenerating` and `controller` are the fields of the
socket, `stamps` is `aiMessageTimestamps`. The queue is the set of messages whose
`pc` is `"queued"`, ordered by `ticket`: `push` gives the next ticket, `shift`
takes the least, the `filter` of disconnect drops those of a socket. A socket
that reconnects is a new socket.

Abstracted: the text of messages (whether one addresses an AI, a bridge or
nobody is a choice), the prompt, the provider's stream (a generation runs until it
ends), usage records.

Runs. `ChatQueue_safety` has two sockets and five messages: enough for two
overlapping generations of one socket, a delegation beside them, and two queued
requests at once. `ChatQueue_live` has three messages, a limit of one per window
and three time units, so that a message is refused in one window and another
passes in the next. It assumes weak
fairness of each handler: its awaits are database calls and HTTP requests, which
settle, and a stream ends because every provider loop is capped (`TurnEnds` of
`ToolLoop`). It does not assume that users send anything. Deadlock is not checked: a finite set of messages is
consumed and then nothing is left to do.

`ChatQueue_queued_runs` shows where the code differs from what it says (see
Findings). Three consequences of the gap between guard and flag can be read off
the model and have no run: requests of a workspace overlap, although session.ts:7
says one at a time; one user can own several queued or running requests, although
index.ts:133 allows one; and a handler that is suspended over its socket's
disconnect queues a request afterwards, which the cleanup at 530 does not see.

Proved for any sets of sockets and messages and any limit: type correctness;
`ProcessingHasOwner`, `BusySocketHasWork`, `ControllerIsLive`, `NoOvertaking`,
`RateRespected`. The inductive invariant adds which of the flags each suspended
handler relies on; it is needed because a finishing generation lowers flags that
another invocation may have raised.

### NonceStore and ReplayGuard

Nonces do not interact, so the module follows one. `expires` and `rowRole` are
its row, `memory[p]` its entry in the map of process `p`. A call takes one
step per query; `Conflict` and `Update` are separate, and replays, cleanups and
crashes come between them. A restarted process is a new member of `Procs`.
Roles matter: row policies hide other roles' rows from UPDATE and DELETE while
the primary key is checked against all rows, and a role without the privilege to
create or update the table falls back to memory.

In `IntentTransport_safety`: a role without UPDATE, failing queries, lost
acknowledgements and crashes; each *store* (the table, or one process's map)
still accepts at most once per TTL, and the module implements `ReplayGuard` with
one guard per store. Time runs to four with a TTL of one, so a nonce expires,
is refreshed and is cleaned up several times. When no query fails and every role
may update, the table is the only store, and the nonce is accepted at most once
per TTL by all processes together (`AtMostOncePerTtl`); that is proved
(`HealthyAcceptsOnce`), and the privileges are needed: without UPDATE a conflict
is an error, and the process accepts a nonce that the table holds.

Proved for all processes, calls, roles, privileges and TTLs: both of the above
(`StoreAcceptsOnce`, `AddImplementsGuard`, `HealthyAcceptsOnce`). The inductive
invariant says that each store still carries a late enough expiry for every
acceptance that is not older than the TTL. Assumed: one clock for the database
and the processes.

### ManifestCache

The control plane holds a version that grows; `replacedAt[v]` is when version
`v` stopped being true. Calls are not coalesced, so several requests are in
flight and resume in any order; `start[c]` is the `now` a call read when it
began, which is also the `lastFetchTime` it stores. `returned` is what the step
just taken returned to its caller, so the properties speak of every return. Time
does not pass while a request is past its timeout.

In `IntentTransport_safety`: three concurrent calls, TTL 1, stale bound 2, timeout 2,
seven time units, one replacement: an older answer overwrites a newer one,
calls that began before a success fail after it, the workspace degrades and
recovers. `BoundedStaleness` is the property to read: whatever the order, what a
call returns was the truth no longer ago than the TTL (hit), the timeout
(fetched) or the stale bound plus the timeout (last known good). Served
versions are *not* monotone: an older answer may overwrite a newer one for up
to one TTL.

Proved for any number of calls and any times: types and all four properties. The
inductive invariant (`ManifestInv`) ties what each call has in hand, and what
the entry holds, to the time at which it was true;
`DegradedServesNothing` is proved under `CacheTtl <= StaleMax + 1`, which the defaults (5 s,
15 min) satisfy and a configured RT_MANIFEST_STALE_MAX_MS of less than the TTL
would not. The legacy mode RT_MANIFEST_FAIL_CLOSED=false is not modelled.

### IntentExchange and RemoteTask

`spc` follows `intentBridge.ts`: the first request, the wake call, the pauses
and retries of the loop. `call[a]` is the handler of request `a` in the target
(`a2a.ts`): arriving, admitted by `requireA2aAuth`, about to consume the nonce,
authorizing, preparing, running, or what it answered. The requests outlive
their timers: a handler whose client gave up goes on, and an old request may
arrive after a new one. The pod stops (its handlers are gone, the nonce store is
not) and boots at any time; the contract is narrowed, re-keyed or revoked at any
time, between the two reads of the manifest too. `runs` and `ended` are history:
how often the intent ran and how it ended.

`RemoteTask` is the promise: at most one run, "success" only of a run that
succeeded, "denied" only of an intent that has not run and never will.

In `IntentTransport_safety`: four requests, timeouts in the proportion of the code's
90, 10, 5, 30 and 250 s (2, 1, 1, 1 and 3 units) and a window of 4 units for
300 s; enough for a first answer, two retries that time out and run late, and a
last one. Deadlock is not checked: an exchange ends. No fairness is
assumed and no liveness stated: what the sender promises about time is
`BoundedCall`. That run has the key of the organisation, on which neither of its
properties depends; `IntentExchange_party` has a party key and shows `NotTurnedAway`
violated (see Findings).

Assumed: perfect cryptography; a nonce store that answers; an intent with side
effects, so that the cache of read-only results is out of play (`IntentRun` has it); a dedicated pod.

Proved for any timeouts and any number of requests: type correctness, that
`IntentExchange` implements `RemoteTask` and `BoundedCall`; and `NotTurnedAway` for a
sender without a party key that gives up a request within the window
(`~PartyKey /\ RetryTimeout <= Window`; in the code 30 of 300 s). The
inductive invariant says that the nonce admits a single handler beyond
`Consume` (`OneHolder`), that an answer "success" or "denied" is true
(`AnswersTrue`), that no request is sent twice (`SlotsFree`), and, per state of
the sender, how late its timer can be (`TimersBounded`). The model is also where
one sees that the token, built once, may expire before the loop ends: 90 + 10 +
250 s are more than its 300 s; the sender then reports "expired".

### ToolLoop

One turn: `pc` is where the generator of `services/ai` is suspended, `round` and
`requests` count, `failures` is the map of the circuit breaker. History says what
happened whatever the keys: `tries` (errors recorded at each key), `flaws` (how often a
target failed or denied a call), `useless` (targets that gave an error no retry can
mend), `rejected` (calls turned away at a door). A call asks a target for an
action, so both tiers of breaker keys exist; which errors it can return
(`Results`) depends on whether its target exists, on what the contract permits and
on what the target has, for an aggregate also of its steps (`Steps`). Any target
may fail. Anthropic runs the calls of a round one after the other, the other
providers all at once after all of them passed the breaker. `aborted` is the
signal: the chat handler (`consumer = "chat"`) leaves at the next event, a task of
another agent reads on until the generator itself looks at the signal. Tools never
see it.

Abstracted: texts, messages and usage; the two-minute limit of Vertex AI and the
cooldown of its fallback are choices.

`ToolLoop_safety`: four rounds, two calls per round, the code's limit of three
failures, a missing target and one that is there and has one of two actions, an
aggregate that may bring the other as a step; all providers but Ollama, whose
loop is Google's in the model. A round of two parallel calls overshoots the limit by
one, which `BreakerTrips` allows and no more. `BlockedForCause` looks from the
other side: what the breaker answers it answers for a cause in the history. A
denial by the route, the executor or for a step of an aggregate is such a cause
against the whole target, and so is a capability it does not have, because the code records
them there (see Observed divergences); a rejected action or another target's failure is none. `TurnEnds`
assumes weak fairness of the turn as a whole: the consumers read until the end,
requests have timeouts, and every call of a tool settles, which for tools without
a timeout of their own is an assumption about the service behind them; it does not
assume that the model stops asking for tools. Deadlock is not checked: a turn ends.

Proved for any targets, contracts, limits and any number of calls per round: all
the safety properties of the run. `BreakerTrips` needs two facts that are not
visible in it: that a key counts every error recorded at it until it trips, and
that a key of lasting errors trips with the first (`BreakerAgrees`); and that
the keys of a call still running had not tripped when it started, so that at
most the results of the same round came since (`RunningPassed`). `BlockedForCause` needs
that the count of each key is covered by the history (`failures` of a target by its `flaws`
unless it is useless, of a call by its rejection).

### A2aTasks

A turn follows `processMessage`: the pre-consults, the stream, the retry when
tools answered and no text came, the end. `store` is `taskStore`, `state` and
`stamp` the status of a task and its time, `text` and `snapshot` the two buffers
the answer is chosen from, `charts` the chart blocks tools produced. Beside
the turns, other requests read and cancel tasks, the timer deletes old ones, the
process restarts (all of this is memory), and root spans go from `buffer` to
`flights`, the batches being inserted, to `logged`. A text is its length, in
units of 100 characters, and the chart blocks it contains. `mode` says whether
the process is dedicated, a domain's, or pooled, and decides who is admitted and
which tasks a caller knows.

`A2aTasks_safety`: two turns, one with room for two units of text and one tool
result, so that every choice between buffers comes up, another beside it; an
hour, a turn limit and the clock of 1, 1 and 2 units; a buffer that drains at
two spans. The thresholds `Follow` and `Substantial` are 0, which makes
both sides of each comparison reachable with short texts; that the figures of server.ts:296-310 (100 and 1500
characters) are the right ones is not checked; their factor of 1.8 is the model's. A turn fails from an error event or whatever throws, also
while it consults before the stream.
`AnsweredFinal` is about completed and failed tasks only: a task that is canceled
while it runs does end completed or failed (see below), and the property says
that nothing changes after that. `TracedOnce` leaves out what a crash loses.
Deadlock is not checked: turns end. No liveness: nothing restarts a turn that
a crash lost.

Proved for any tasks, thresholds, batch sizes and time limits with `TurnLimit <= Hour`:
types and all four properties. The properties speak of turns that have ended, so the
inductive invariant says what a running one keeps for them: its status is not final
(`StatusOfTurn`), it is in the store and its status is not older than it is, so
that the timer cannot have met it (`Timely`), a retry starts from a text with
every chart block (`Whole`), its span is nowhere yet and batches have no span in
common (`Span`, `Apart`). The last makes the count in `TracedOnce` the cardinality of an
empty or a singleton set.

### Bridge

Two ways into a target. A call (`spc`) is one execution of `bridge_workspace`: it
reads the manifest, chooses a key, sends, and when nobody serves the target wakes
it and sends again, each request with a signature of its own; `turn[a]` is what
the target makes of request `a`, which may arrive after its sender gave up. A
relay is signed once by the control plane and may be posted several times;
`at[h]` follows the handler of each copy from the signature through the gate to
the delegated turn and its report. Both meet at the target's pod, which sleeps,
boots and crashes, at the nonce store (`until`) and at the contract, whose version
(`minted`), manifests (`seen`) and party keys (`held`) change at their own pace.

`Bridge_calls`: a call with three requests, a delegation posted twice or a message posted
twice, one at a time: they share nothing but the contract, the pod and the clock
(`Apart` in `MCBridge`); either begins at once, since only differences of times
matter (`AtOnce`); and once a call is sent, its source's manifest and keys rest,
for it does not read them again (`Settled`). A body that breaks ends the call in its
catch, with the first request (`FirstThrows`) as with a retry (`RetryReply`). Times in units: 1 for each of the limit of a request, the pause, the
freshness window, the skew and the store's delay, 2 for the wake loop, 3 for the
TTL of a nonce, which is the sum its assumption asks for (the code's TTL is two windows, see
below), and a clock of 5, past the TTL.

`DelegationReported` assumes weak fairness of the steps of a delegation that
has been answered "delegation_started": its queries answer, its stream is ended
by the 120 s timer at the latest, its report is one request with a limit. It
assumes nothing of senders, and a pod that stops excuses it (`"lost"`).
`OncePerRelay` is about v2 signatures; v1 has no nonce and the model lets its
copies pass. Assumed: perfect cryptography and a nonce store that answers. Deadlock is not checked:
calls and relays end.

Proved for any number of calls, relays, copies and retries: type correctness
and the three safety properties. `OncePerRelay` follows from `ClockAssumption`
(`Skew + Fresh + Delay <= Ttl`; in the code the window is 5 minutes and the TTL 10, so
that for a signer whose clock is the full 5 minutes ahead nothing is left for the
delay, which is why it is stated): a copy that is
still fresh when it arrives reaches the store before the nonce that an
earlier copy stored is forgotten. The inductive invariant keeps the three times
together: when a stamp was made, when a copy that waits arrived, until when its
nonce is kept. `RefusedForCause` needs that requests sent earlier have smaller
numbers and nonces of their own, and that while the contract was never amended
every version seen or held is 0 or 1.

### TenantData

A request is a script of SQL statements (`Scripts`, one for each
method of the adapter and for the intents). Each statement takes a connection of
its pool, and on a pooled service begins a transaction, names its workspace
(`app.workspace_id`), runs, commits and releases (`_tenantQuery`). Rows have a
table and a workspace; `Visible` is the disjunction of the two row-level policies of
`rls.js`. PostgreSQL is external and modelled from how the code uses it: uncommitted
deletions and insertions of a connection, waiting for another's row or
unique key, a transaction that is aborted until it is rolled back, a COMMIT whose
answer is lost. An intent also reads its workspace's credential through the cache
of `tenantCredentials.ts` and uses up a consent tap: the verifier of grants peeks
at it in a transaction that it rolls back, the capability uses it.

`TenantData_safety`: two workspaces, two requests with any script and a third for the
cache, four connections in three pools. Statements do not look at the
credential and the cache not at the rows, so `Apart` in `MCTenantData` explores
the two one at a time; with the clock at rest in the first, two requests that
share one connection after the other, in both orders, and failures at each query
are enough for a setting or a failed transaction to leak; three intents, a
rotation and times beyond the TTL of 2 are enough for a late answer to overwrite
an early one. Deadlock is not checked: requests end.

`OwnRowsOnly` holds also where a statement does not name a workspace (the API
keys), where the policies are all there is. `RotationTakesEffect` holds
although reads are not coalesced, because the expiry counts from before
the read. The plugin's statement and the control plane's rotation are external.

Proved for any workspaces, requests, scripts that they ask for, connections in
the three pools and times: types and all four properties. None of them is about
connections, and all of what can go wrong is on connections, so the inductive
invariant is about those: one that is free is as new, without context,
transaction or uncommitted rows; one that is held belongs to one request, which is
at a statement, its context is that request's workspace wherever a statement may
run, an aborted transaction is about to be rolled back, and what it has deleted and not committed is
locked against the others (`Pooled`, `Held`, `Locked`). From it, each tap is in the table or
was used by exactly one request (`Tapped`). The scripts enter by three lemmas only:
each statement but an intent's is a plain one of the adapter, an intent peeks
before it uses, and only its peek may be rolled back without failing. For the
cache, what is stored or read was true a while ago (`Recent`, `Reading`).
Assumed, because the code does not work otherwise: a secret that is missing is
remembered for a shorter time than one that is found, and a read takes less than
both; the role of the pooled process is no workspace's.

### IntentRun

`run[r]` is one execution of a verified intent under the contract that the
route read: `Receive` is everything up to the first await (the route's check, then
the executor's), `Evaluated` the prerequisites and, without a further await, the cache;
`Work`, `Hop`, `Reply`, `Finish` are the tools, one after the other in an
aggregate. The compiler's passes are operators on sequences of steps
(`Deduplicated`, `Fused`, `Limited`), SQL a record of the clauses they look at.
The data of a workspace is a version; a result is a step and the version it saw,
so that its age can be told (`lastTrue`).

`IntentRun_safety`: every aggregate of up to three of seven steps, each alone,
because an aggregate shares nothing with other runs but the data; and up to
three single intents at once, on a dedicated pod or a pooled service, with
contracts that grant everything, only reading, only the blanket grant of the route,
or demand prerequisites: a limit to an amount, fresh data and a grant, or a kind the
receiver does not know. The clock moves only while read-only intents
run (`Timed`), and rests otherwise (`AtRest`). TTL and tool delay are one unit
each, the data changes twice, the cache holds one entry, so that evictions happen.
Deadlock is not checked: runs end.

A run keeps when its prerequisites were judged (`judged`) and what the verifier of grants
said (`verified`, any answer on a pooled service, no on a dedicated pod, which has
none). `AuthorizedOnly` takes each kind of prerequisite at its word from these
(`Satisfied`), apart from the executor's own evaluation (`Met`).

A merge rebuilds the SQL from the parts the compiler reads, and loses the rest: HAVING, JOIN,
DISTINCT over other columns, further parameters of the tool, and the clauses
themselves where a table without an alias is followed by one (`AliasRead`); totals
meet plain columns. `Fusion` has all of that, and the runs include queries of
each kind. So `StepsAnswered` is stated for aggregates whose queries have nothing to lose
(`NothingToLose`); of every intent it says that its proof names just the statements
behind the data. What goes wrong otherwise is `MergePreserves`, which
`IntentRun_merged` shows violated by the two queries of the compiler's own test (see
Findings). The effects that `EffectsAccounted` expects (`Wanted`) are those left by the
compiler's deduplication, so it does not say that a repeated effect happens twice: it does
not (see Observed divergences). `CachedIsRecent`
allows the TTL and the delay of the tool, because `createdAt` is taken after the
execution.

Proved for any requests, contracts, tools, sizes of the cache and batches of any length:
types and all four properties, `EffectsAccounted` under a condition (`StepsAnswered`
contains its own). The inductive
invariant (`RunInv`) says what a running execution keeps: its plan is that
of its intent, its contract grants each step or the whole, its results answer the statements
done so far and its trace names them (`Honest`), what it has read was true when it asked
or since (`Recent`); an entry of the cache is not older than its data
(`CacheHonest`), and the effects done are those of the plan so far (`AllActed`).

The passes of the compiler keep some positions of a sequence, in their order
(`At`, `Nth`); the lemmas on ranks say that such a selection is a
sequence of the members kept, that it is all of it when all are kept, and that
selecting twice is selecting once. From them: each step of a batch with nothing to lose is
covered by a statement of the plan (`PlanCovers`), and deduplication, fusion and
limits leave the steps with effects as they were, in their order (`PlanEffects`).
For the second, the theorem `EffectsAsAsked` supposes that the queries of an aggregate go
through tools that only read (`QueriesRead`). The code does not see to it:
`fuseQueries` merges by the clauses of the SQL, whatever the tool (see below), so
without the condition two queries through a tool with effects would be one.

### Boot and Room

`Boot` has the pods of a workspace, each somewhere in its chain from `Start` to
"ready", the row of the `workspaces` table, and the settings dialogs of both
clients with their PATCH. A boot reads the prompt (`Check`) and writes the seed in a
later step (`Seed`), reads provider and model and writes them back. `owed` is
the prompt last written on purpose (a push, a save), `raced` says that this write
fell between a pod's reading of an empty row and its seed, the one case the
property excepts.

`Room` extends it: sign-in, tabs and their sockets (`sock[<<t, n>>]`, the n-th
connection of a tab, from the handshake through the asynchronous registration to
the moment the server notices that it is gone), presence per pod, broadcasts
(`inbox[t]`), posted messages, the stream of an answer, and what each client makes
of every event (`React`, `ClassicShows`). A tab reads the history over HTTP
(`ReadHistory`) and shows it later (`ShowHistory`). `Adapter` says whether REDIS_URL
is set: an event reaches the sockets of the pod that emits it, and with the Redis
adapter (sockets/index.js:133-147) those of the others too (`InRoom`), taken to be
there at once. Delivery is in order and the connection may break at any time.

`Room_safety`: what has nothing in common is explored apart (`Few` in `MCRoom`):
two pods in a rolling update with different environments while prompts are
pushed, or one while two dialogs save (`Rolling`, `Saving`); one pod serving,
its row at rest, while users sign in (`SigningIn`), while up to three
tabs connect, reconnect, act and go (`Presence`), or while two messages and an
answer meet a tab that loads (`Talk`). A page of history holds one message, so
that history and live events overlap in every way. `Adapter` is FALSE: these parts have one
pod serving, for which it makes no difference. Deadlock is not checked.

`NothingLost` is about a tab that listened when its history was read and has
stayed connected; `PresenceTrue` about a user's only socket at a pod, because with
two, the disconnect of one removes the user (see below). It holds without the adapter only: a pod
broadcasts the list of its own sockets, and the adapter takes it to all others, where
it replaces theirs.

What a page shows is a set of rows: neither property asks where a row is or
whether it is there twice.

Proved: `PushSurvives` for any number of pods, environments and dialogs; that the
composition implements `Boot` (`Spec => BootSpec`: no step of a tab, a socket or a
stream touches the row or a pod) and, through it, `PushSurvives` of the
composition. The inductive invariant says that while a written prompt is owed and nothing
raced, no pod is about to seed, that a row exists once a pod has registered, and
that what a pod or a dialog is about to write was read or filled in.

Proved as well, for any number of tabs, connections, pods, messages and answers: types,
`NothingLost`, both with and without the adapter, and `PresenceTrue` without it
(`RoomTypes`, `MessagesNotLost`, `PresenceIsTrue`).
Neither is inductive. `RoomInv` adds:
- the sockets of a tab are used in order, so that a new one has no past; a socket
  that is connected or still asks for its user is one its pod has met, and a tab
  that is connected holds a connected socket (`SocketFacts`);
- an entry of presence has the key of its workspace and user and is of a
  socket that the pod has met (`EntryFacts`). Without it, a new socket could
  find a stranger's entry under its key;
- the last list on its way to a tab is the one of its room (`Informed`), where a
  list that is broadcast replaces what was told and no other event
  changes it (`ToldAppend`, `ToldTail`);
- what is stored is of its workspace, and was stored before it is announced
  (`StoredFacts`), so that what was said already when a tab read the history is in it;
- what a tab must not lose it shows or has on its way (`BaseSound`). A page only
  ever grows while it is open: `ClassicGoes` and `ReactGoes` go through every event
  of the two clients, `ShowingStep` through the two merges of the history.

The argument about presence is one lemma (`PresenceStep`) for the four handlers that change
an entry: registering, acting, disconnecting, the recheck. Assumed of the constants: a
posted message is no answer's id, and no pod is called None.

## Findings

`ChatQueue_queued_runs`: index.ts:145 promises that a queued request runs; 451
emits it to the browser, where nothing listens. The run shows a request that
stays handed over for ever although every handler makes progress.

`IntentExchange_party`: docs/README.md:47-48 says that a sleeping target is woken, retried
"with fresh HMAC signatures" and returns its results. The first request names its
sender in X-Contract-Sender, the retry (intentBridge.ts:457-464) does not, so a target
that holds a key per party looks up the signature's key under no name and refuses it. The
run shows the call reported as permanently failed while the contract stands. With the
organisation's key this cannot happen (`OrgKeyNotTurnedAway`).

`IntentRun_merged`: intentCompiler.ts:187 says of a fusion "merged SELECT list,
preserving WHERE/GROUP BY". The expression at 67 takes the word after a table
without an alias for its alias, be it WHERE or GROUP, and 214-215 put the keyword again:
`FROM txns WHERE WHERE user='x'`. The test at tests/protocols/intentCompiler.test.ts:26-37
merges such queries and looks for their columns. The tool for BigQuery returns
the error as data, so the aggregate succeeds, and no step is answered: that is what the run shows.

## Observed divergences

Met while modelling; the models have what the code does, and no run is spent on them.

Queue, nonces, exchange, tool loop:
- session.ts:7 says one AI request at a time per workspace; the flag is read at
  chat/index.ts:140 and raised at 299.
- nonceStore.ts:103-105 says a seen nonce is refused; for a role with only the
  privileges granted at 77 a conflict is an error, and the fallback accepts it.
- the loop of intentBridge.ts sends the same token again (469), so an attempt that timed
  out but ran is followed by "Replay detected", reported as a failure.
- loop.ts:84-92 says a wrong action leaves the target usable. The error for a capability
  the target lacks is recorded at the key of the whole target and disables it at
  once; the denials of a2a.ts:695 and intentExecutor.ts:137, 421 (an aggregate's step) match no
  pattern of 98 and count as failures of it, so that three of them disable it.

Tasks: every turn names a trace, so the 20 % sampling never applies; a task
canceled while it runs ends completed or failed (a2a/server.ts:414, 466); clients
learn a task's id from its final answer only.

Bridge: `AbortSignal.timeout` raises TimeoutError, the catch looks for AbortError
(bridgeWorkspace.ts:282); JSON-RPC errors are reported as success; in the wake
loop a 401 or 403 is retried until the end and reported as "waking"; a retry that
timed out may have been processed and is sent again; a delegation aborted at 120 s
stores its partial text as the answer; error events of its stream are only logged.

Tenant data: postgresql.js:519 and pooled/arthur.js:234 say API keys are per user and workspace;
the table is UNIQUE (user_id, provider) (274), so saving a key fails for a user who has
one elsewhere, after the DELETE of the old one was committed. Nothing calls
`invalidateTenantCredentials`. `upsertUserBySsoId` checks, then inserts.

Intents: `fuseQueries` does not look at HAVING, JOIN, DISTINCT, totals or the other
parameters of a query; fusion and
deduplication change the number and positions of results, which 'concat' and
'last' see (intentCompiler.ts:314-316 says that position matters); fusion moves a read
before an effect that stood between; deduplication drops a repeated tool call with
effects. Equal intents that miss the cache execute beside each other and the last
to end is kept. A hit skips the check of enabled tools for up to 60 s, and its proof
names no SQL.

Lifecycle: `initAdapter` assigns the adapter before it is initialised and drops
the pool of a failed attempt; the seed is read at index.js:747 and written at 749; provider and
model are synced from the environment at each boot, which reverts a user's
choice; "stopped" of an old pod may be written after "active" of a new one; the
check of `allowed_providers` and its PATCH are two statements; shutdown does not
flush the spans. A dialog that is saved before its form has loaded writes its
defaults, and a stale one writes a stale prompt; both count as "on purpose" in
`PushSurvives`.

Rooms and clients: presence is keyed by user, so a second tab's disconnect removes
a user who is still connected, and one that comes before the registration leaves
a ghost; guests and services share one entry; sockets without a session (guests)
are disconnected by every five-minute recheck. React listens from the render after
`connect`, so events before are missed; history is not read again after a
reconnection; what is stored between the reading of the history and the joining of
the room is lost; a message may be shown twice; a tab stays "streaming" when its
server dies. WorkspacePage listens to 'message', which the server never emits, and no
client to 'workspace-reset'.

## What is proved and what is only checked

| Module | Proved for every value of the constants | Checked by TLC only |
|---|---|---|
| `ChatQueue` | types, flags, controllers, FIFO, rate limit | `ProcessingEnds` |
| `NonceStore` | types, at most once per store and over all stores, refinement of `ReplayGuard` | |
| `ManifestCache` | types, all four properties | |
| `IntentExchange` | types, bound, refinement of `RemoteTask`; no refusal for `~PartyKey` and `RetryTimeout <= Window` | |
| `IntentRun` | types, all four properties (`EffectsAccounted` under `QueriesRead`) | |
| `ToolLoop` | types, breaker, cause of a block, requests, what an abort stops | `TurnEnds` |
| `Bridge` | types, `OnlyWakingIsRepeated`, `RefusedForCause`, `OncePerRelay` | `DelegationReported` |
| `Boot` | types, `PushSurvives` | |
| `Room` | types, refinement of `Boot`, `PushSurvives`, `NothingLost`; `PresenceTrue` for `~Adapter` | |
| `A2aTasks` | types, all four properties | |
| `TenantData` | types, all four properties | |

The proofs assume what the ASSUMEs of the modules say of their constants, and the
conditions named in this text (`Healthy` of `NonceStore`, `CacheTtl <= StaleMax + 1`,
`QueriesRead`, `~Adapter`, `~PartyKey` with `RetryTimeout <= Window`);
nothing else. Every safety property that a run checks is proved; types are proved
and mostly not repeated in the runs. Liveness stays with TLC: the proof system has
no rule for fairness here. Recursive definitions and induction over data are out of reach of the
installed provers, so that selections from sequences are written by rank
(`At`, `Nth` in `IntentRun`) and not with the folds of the libraries.

## Not modelled

- Migrations, the SQLite adapter and single SQL statements whose effect no other
  step depends on.
- The legacy mode of the manifest cache, `_legacyRelay` (which nothing calls), the in-pod
  wake of older proxies.
- Tools, MCP and the provider APIs: single calls of external services, abstracted to
  what they may answer. Encryption, hashes and token encoding: perfect.
- Charts, Markdown, layout, usage and admin pages: they keep no state that another part
  reads.
- Logging, metrics, health reports.
