# Formal model of the Atlantis sales platform (SAILES)

TLA+ modules, TLC instances and TLAPS proofs about the services under
`src/services` and `src/shared`. The platform prepares commercial contacts with
agents, has a human approve each of them, and contacts a person only if a
deterministic policy, deciding from the CRM's evidence, allows it at that moment.

## 1. Inventory

| Part | Code (under `src/`) | State it keeps | Operations |
|---|---|---|---|
| Policy gateway: policy | `services/policy_gateway/app/policy.py`, `evidence.py`, `shared/atlantis_contracts/models.py` | none | `EvidenceClient.resolve`, `PolicyEngine.decide` |
| Policy gateway: authorizations | `server.py`, `authorization.py`, `postgres_ledger.py` | contexts in memory (bounded, expiring), rows of `contactability_decision` and `outbound_authorization` | `decide`, `authorize`, `put`/`take`, `issue`, `register` |
| Channel adapters | `services/channel_adapters/app/*` | `consumed_at` of the authorization, in-memory consumption in shadow mode | `verify_and_consume`, provider call, webhooks |
| CRM | `services/crm_api/app/postgres.py`, `repository.py` | suppression, consent ledger, campaign versions and approvals, contacts, facts, ARCO requests | `suppress`, `grant_consent`, `approve_campaign`, `contactability_evidence`, ... |
| Orchestrator, durable | `services/orchestrator/app/postgres_workflow.py` | `graph_run`, `graph_checkpoint`, `workflow_event`, `human_action` | `start`, `get`, `transition`, `decide_human_action` |
| Orchestrator, in memory | `workflow.py`, `server.py` | runs, actions, processed events, checkpoints behind one lock | the same, and `restore`, `expire_human_actions` |
| Outbox and resilience | `postgres_outbox.py`, `resilience.py` | outbox rows, breaker state, attempts | `publish_batch`, `process`, `call` |
| Model gateway | `services/model_gateway/app/*` | daily budget row, reservations with expiry, `model_call` rows | `reserve`, provider fallback, `settle` |
| HTTP router and idempotency | `shared/atlantis_contracts/http.py`, `persistence.py` | claims PENDING/COMPLETED with a TTL, in memory or PostgreSQL | `claim`, handler, `finish`/`abandon` |
| Workload authentication | `security.py`, `middleware.py`, `persistence.py` | nonces, rate windows | verify, claim a nonce |
| Audit | `database/008_pilot_readiness.sql` | hash chain and its head, per tenant | `append_audit_event` |
| Release tooling | `tools/generate_distribution_candidate.py`, `prepare_unsigned_distribution_evidence.py`, `compliance_gate.py`, `deploy/proxmox/validate_infrastructure.sh` | the directories `release/candidate/distribution`, `release/unsigned-evidence`, `release/evidence` | generate, review, prepare, sign, gate |
| Agents, REPEP snapshots, identity, configuration, telemetry, rollout | the rest | none, or files | parsing, signatures, subprocess and file I/O |

How they meet. A caller starts a sales run in the orchestrator, whose stage
APPROVE waits for a human. The policy gateway reads the CRM's evidence over HTTP
(`contactability_evidence`), decides, stores the decision in PostgreSQL and its
context in memory; a second request takes the context once and gets a signed
token whose `jti` is a row of `outbound_authorization`. A channel adapter checks
the token, consumes the row with one guarded UPDATE, and calls the provider. All
services share the idempotent HTTP router, which runs each handler in a thread,
the check of workload signatures with its store of nonces in front of it, and the
databases' row locks. What is deployed has passed the release tools: the generator
writes the candidate evidence, people review and sign it, the gate compares it.

What is hard here: threads of a `ThreadingHTTPServer` interleave inside every
handler; the gateway's process holds state a restart loses, next to rows that
survive; three clocks (gateway, adapters, database) limit the same authorization;
answers of providers get lost after the call took effect; claims, reservations,
tokens, actions and contexts expire while somebody still works on them; stores at
their limit evict live entries. `PROJECT.json` lists each of these hazards at its
line, with the property that watches it or the reason there is none yet.

What makes each part correct, in a sentence:

* policy: no fact missing, lost or forged by the caller opens it;
* authorizations and adapters: one decision, at most one token, at most one call,
  fresh, over the channel and with the content decided;
* suppression: no call rests on evidence that ignores a recorded suppression, and
  a suppression prevails over authorizations given earlier (it does not, see 5);
* durable workflow: checkpoints stay restorable, nothing passes APPROVE without a
  timely human, an event applies once, tables agree with each other, a review that
  came too late is asked for again (it is not, see 5);
* in-memory workflow: the same for requests of a run that do not overlap (it does
  not hold for those that do, see 5), an event or decision at most once for any;
* model budget: reserved and spent units are those of the rows, and stay within
  the limit;
* idempotency: one handler execution per key and body, the answer of the first;
* outbox: every event that can be published is marked so, a second time only after a
  fault, and only when the broker has it (it need not have it, see 5);
* nonces, webhooks: no accepted message is accepted again;
* release: what passes the gate is what was reviewed and signed, by independent
  people, and fits together (neither the review nor the independence is certain, see 5);
* audit: sequence and hash chain without gap or fork.

## 2. Modules

| Module | Models | Notes |
|---|---|---|
| `ContactPolicy` | `evidence.py`, `PolicyEngine.decide` | operators `Resolved` (body overwritten by the CRM's answer) and `Outcome` |
| `PolicyAnswers` | the decide handler's use of the two | a step is the CRM changing one key of its answer, so that `FailClosed` is an action property |
| `PolicyAnswers_proofs` | proofs | see 6 |
| `ContactAuthorization` | policy gateway, ledger, adapters, and the CRM operations a decision depends on | the core; extends `ContactPolicy` |
| `ContactPromise` | abstract: open, allowed or denied, claimed within a window, contacted | implemented by `ContactAuthorization` (`KeepsPromise`) |
| `ContactAuthorization_proofs` | proofs | see 6 |
| `SalesWorkflow` | `PostgresWorkflowRepository` | transactions split at the row lock |
| `SalesRun` | abstract: a run prepares, waits with a deadline, is granted or blocked | implemented by `SalesWorkflow` (`ImplementsRun`) |
| `SalesWorkflow_proofs` | proofs | see 6 |
| `ModelBudget` | `postgres_usage.py`, `ModelGateway.complete` and the handler around them | `reserve` split at its locks |
| `DailyAllowance` | abstract: a request takes its units from a day once, then is charged, gives them back or loses them | implemented by `ModelBudget` (`ImplementsAllowance`) |
| `ModelBudget_proofs` | proofs | see 6 |
| `IdempotentHttp` | `JsonRouter._dispatch` around a handler, both idempotency stores | claim split between INSERT and SELECT |
| `AuditedWrites` | `create_campaign_version`, `approve_campaign`, `upsert_opportunity`, the writes of a run, `app.append_audit_event` | transactions split at their locks |
| `AuditedWrites_proofs` | proofs | see 6 |
| `RequestAdmission` | `security.py`, `middleware.py`, the nonce stores of `persistence.py`, `webhook.py`, `postgres_webhook.py` | the thread of a delivery split between its look at the clock and the store |
| `Requests_proofs` | proofs about `IdempotentHttp` and `RequestAdmission` | see 6 |
| `MemoryWorkflow` | `workflow.py`, the orchestrator's `server.py`, `BoundedTTLMap` | requests split at the engine's lock |
| `EventOutbox` | `postgres_outbox.py` | a batch row by row, in its transaction |
| `Orchestrator_proofs` | proofs about `MemoryWorkflow` and `EventOutbox` | see 6 |
| `ReleasePipeline` | the generator, the preparation of a bundle, the gate, and the people between them | the tools side by side, file by file |
| `ReleasePipeline_proofs` | proofs | see 6 |
| `MC...` | constants for TLC | no definition of a module is replaced; `MCRequests` and `MCPolicyAndProgress` put modules that share no state into one run: each behaviour explores one of them and leaves the others alone |

### PolicyAnswers

`body` is what a caller sent, evidence fields included, `answer` what the CRM says,
`verdict` what the gateway decides of the two: `EvidenceClient.resolve`, then
`PolicyEngine.decide`. The answer is a function on the keys it carries, so that a key
the CRM leaves out gets the default of `resolve`. It starts without any key; then the
CRM gives a key a value (`Says`) or leaves it out (`LeavesOut`).

### ContactAuthorization

State and code: `suppressions`, `consents`, `approved` are rows of the CRM's
tables. `stage`, `request`, `readAt`, `decidedAt`, `outcome` follow one call of
the decide handler (`server.py` 79-90) and its row. `context` is
`DecisionContextStore`, an ordered dictionary with expiry, given by each entry's
place in it; `issuing` are the contexts an authorize handler popped and has not
issued for yet. `ledger` and `consumedAt` are rows of `outbound_authorization`.
`worker` is an adapter thread. `calls` and `sent` are what the provider received;
nothing in the code reads them.

Where handlers are split: the CRM's answer (`ResolveEvidence`), the commit of the
decision (`DecideAndPersist`), the store (`PutContext`); `TakeContext` and `Issue`
or `RefuseToIssue`; `Verify`, `BeginConsume` (now() of the transaction is fixed),
`Consume` or `Replayed` (the guarded UPDATE), `CallProvider`. `RestartGateway` and
`RestartAdapters` lose what is in memory. `GatewayOffset` and `AdapterOffset` are
the differences between the three clocks.

A body that carries `phone_token` reads evidence for the phone and is then refused,
because `ContactabilityRequest` has no such field; its stage is "refused".

Abstracted: signatures and hashes are identities of records (a token is its row of
the ledger; a thread presents a token only for the claims signed in it); the ids
uuid4 gives are fresh; REPEP results are the function `RepepCheck` of the phone.
Each decision id is used by one call of the handler, since `decide` makes it.

### SalesWorkflow

`LockRun` is `SELECT ... FOR UPDATE` with the latest checkpoint read; then a
transaction commits (`Advance`, `AskHuman`, `ExpireAction`, `DecideAction`) or
leaves no trace (`Release`: conflict on the event, ValueError, get, crash, lost
connection). `graph_checkpoint` keeps every checkpoint, since `restore` reads them.

### ModelBudget

`daily` and `reservation` are the two tables of migration 008; `handler` is one call
of `/v1/models/complete`; `used` and `stranded`, which no code reads, are what the
providers consumed and what the day's row lost. A call goes through `BeginReserve` (its transaction fixes `now()` and
`current_date`), `SelectExpired` (`SELECT ... FOR UPDATE`), `Reserve` (from the
first UPDATE of the day's row, which is then held, to the commit), `Answer`,
`FailAttempt` and `GiveUp`, then `Settle` or `RefuseSettle`. `Abort` stands for a
process that dies, a lost connection, and the deadlocks PostgreSQL breaks: two
transactions may hold a reservation's row and the day's row in opposite orders.
`RefuseSettle` includes the second settlement that the handler's `except` tries,
which raises too. In `DailyAllowance` a request holds its units while its reservation is
RESERVED, and for ever once they are stranded. `ProviderHealth` skips no provider, since every request builds a
new one.

### IdempotentHttp

`record` are the rows of `idempotency_record` or the entries of
`MemoryIdempotencyStore._values`; `durable`, chosen once, says which of the two the
service has. `handler` is a thread in `_dispatch`: new, claiming, beaten (its INSERT
found the key taken), running, finishing or failed, ended with a reply. A key stands
for tenant, service and key: the path is not part of it. A body is its hash, an
answer the request whose handler gave it, so that an answer stored under the wrong
key or for the wrong body would be seen. A claim reads the clock (`Receive`) before
it looks at the records (`InsertClaim`, `ReadClaim`, or `ClaimInMemory` under its
lock), as `now()` of the transaction and `self.clock()` do; meanwhile other requests
claim, finish and expire. `finish` and `abandon` touch any record of the same key and
body, whoever claimed it: the code keeps no owner. `by` and `forgotten` are read by no
code: who claimed a record, and whose claims were removed by somebody else.

### AuditedWrites

`campaign`, `version`, `approvals`, `entity`, `audit` and `head` are the committed
rows; `session` are open transactions with the locks they hold and what they have
written. A transaction goes through `Begin` (`_cursor`), `LockRow` (the `INSERT ...
ON CONFLICT DO NOTHING` and `SELECT ... FOR UPDATE` of a campaign, the `SELECT ... FOR
UPDATE` of a version to approve, the upsert of an opportunity, the lock of a run),
for a version `NumberVersion` and `InsertVersion`, then `LockHead` and `AppendEvent`
(the two parts of `append_audit_event`), and ends with `Commit` or `Rollback`. An
insert that conflicts with another open transaction waits for it and the `SELECT ...
FOR UPDATE` after it waits for the same one: the two are one step. Transactions run at
READ COMMITTED, PostgreSQL's default, which nothing in the code changes. `entity` are
the rows with a counter of their own: `opportunity.version`, and the number of the
latest checkpoint of a run, whose rules are in `SalesWorkflow`; the operation "ask" is
the transition that asks a human and appends two events. An event of a run is about
the run, which is its correlation id. The hash of an event covers its number, its
predecessor's hash and `clock_timestamp()`; it stands for the event and is its id
here. The tables are unbounded but for the ids of events.

### RequestAdmission

`kept` are the rows or entries of the nonce store and of the webhook inbox, by when
they are forgotten; `delivery` is one arrival of a message and the thread that serves
it: `Count` (the rate limit), `CheckTimestamp`, then `Remember` or `RefuseKnown`
(`claim`). The order is the code's: a workload request meets the limit after it has
spent its nonce, a webhook before. A store in memory counts from its own clock, the
PostgreSQL nonce store from the timestamp of the request and the clock of the
database, `drift` ahead of the service's; a webhook receipt is never deleted there.
`StopService` loses threads, windows and what is in memory. Right and wrong
signatures are the only ones; a wrong one ends the thread before it meets a store.
`lost`, which no code reads, are the messages a store dropped before their time.

### MemoryWorkflow

`runs` is the server's `BoundedTTLMap`, in the order of its entries, `checkpoints`,
`processed_events` and `human_actions` are the engine's, `serving` is a thread of the
server. A request goes through `ReadRun` (`runs.get`, before the engine's lock), one
step of the engine (`ApplyEvent`, `BurnEvent`, `RepeatEvent`, `DecideHumanAction`,
`RefuseRequest`) and `StoreRun`. As in the code, the engine works on the state the
thread has read, and `decide_human_action` takes any pending action whose hash the
caller has, whether it has expired or not. `BurnEvent` is an event at APPROVE whose
payload is no object: `apply` enters it into `processed_events` before `payload.get`
raises, so that it has no action and no checkpoint, and its retry is answered as
processed. `burnt` are those events, `raced` the runs for which two requests were
served at a time; no code reads either.

### EventOutbox

`session` is the transaction of one `publish_batch`: `Select` locks a batch of rows
that no other session has (`FOR UPDATE SKIP LOCKED`), `Publish` and `PublishRaises`
are one turn of the loop, each with one of the `Outcomes` at the broker,
`CommitBatch` ends it, `LoseSession` is a process or
connection that dies, or an `UPDATE` that raises. psycopg returns a `jsonb` object as
a `dict`, which is no parameter of the `INSERT` of a dead letter: for the events in
`Objects` a publisher that raises ends the whole transaction, the marks of the rows
before included. `RabbitMQPublisher` publishes without confirms and reads no returned
message: a call that returns says as little about the broker as one that raises, and
the row is marked either way. `missed` are the marked events the broker never got,
`unrecorded` the deliveries that no commit recorded; no code reads them. No code of the repository writes `outbox_event` or calls
`publish_batch`; events appear in any order, and the publishers are processes that
call it again and again.

### ReleasePipeline

`candidate`, `staging`, `output` and `evidence` are the directories, one version of
the build for each file; a digest is the content it is the digest of. `generator` and
`preparer` are the two tools, which read and write one file at a time and may stop
anywhere (`FailRun`, `FailPrepare`). `Curate`, `RecordLegalReview` and `ApproveLock`
are the review, `Install` and `UpdateFiles` what people do with a bundle, `Rebuild` a
new image. `PassGate` is `compliance_gate.py --mode distribution`, one operator for
each of its comparisons. A signature covers the subject and the digests of the parts,
not the `signer` written beside it, which may be anything and changed after signing:
`Install` says who used the key of a role (`by`, known to no tool), and `PassGate` is
run on any three `Names`. The gate wants the names to differ and compares no key with
another. `by`, `shipped`, `reviewed` and `torn` are read by no code.

## 3. Runs

| Run | Instance | Shows |
|---|---|---|
| `call_once` | 2 decisions, 2 tokens, 2 voice threads, gateway one tick ahead and adapters one behind | at most one call per decision, calls as decided, consumption fresh, `KeepsPromise` |
| `suppression` | 1 decision, a voice and a WhatsApp thread, endless and brief suppressions and consents, bodies with a phone | `NoCallOnSuppressedEvidence` |
| `revocation` | as `suppression`, voice only | violated: `RevocationPrevails` |
| `global_suppression` | as `revocation` | violated: `NoCallToSuppressedPhone` |
| `run_gate` | 2 runs, 5 events, 2 actions, 2 subject hashes, 2 sessions | `CheckpointsRestorable`, `WaitingHasItsAction`, `HumanGate`, `EveryCheckpointExplained`, `NeverBack`, `ImplementsRun` |
| `overdue` | as `run_gate` | violated: `OverdueAskedAgain` |
| `budget` | 4 requests, one of them above the limit, 2 providers, 2 days, transactions of any length | `CountedExactly`, `WithinLimit`, `ImplementsAllowance` |
| `requests` | 3 requests, 2 keys, 2 bodies, either store, a memory of one entry; beside them 2 messages of a kind, one delivered twice, either store, a database one tick ahead or not; and the in-memory engine: 2 runs, 4 events, 2 actions, 2 threads, a map of one entry | `AnswersAreOwn`, `OnePerKey`, `ClaimsAreOwned`; `AdmittedOnce`; `SerialRunsRestore`, `OneCheckpointPerCause` |
| `audit` | 3 connections, 2 tenants, 2 campaigns, 2 versions, 2 hashes, 1 opportunity, 3 events | `ChainIntact`, `NumbersStayFree`, `VersionsGapless`, `EveryChangeAudited`, `SomeoneProceeds` |
| `release` | 1 image rebuilt once, 2 runs of the generator, 2 bundles, 3 people of whom one has two keys, 3 names to sign with | `ShippedAsSigned`, `ShippedFitsTogether`, `ShippedWasReviewed` |
| `one_signer` | as `release` | violated: `IndependentApprovals` |
| `policy_and_progress` | outbox: 3 events, one always refused, 2 publishers, batches of 2, 2 faults; beside it the durable workflow: 1 run through all stages, 6 events, fair; and the policy alone: 2 channels, 2 purposes, every answer of the CRM, keys missing included, 4 ways to claim otherwise | `DuplicatesHaveCause`, `EventuallyPublished`; `WaitingEnds`; `CallerCannotOverrideEvidence`, `FailClosed` |

Every property of a passing run has a mutant: an operator beside the one it
replaces, commented `mutant:`, with a plausible mistake (a guard dropped, a context
read and not popped, a conflict unnoticed). Under the mutant TLC finds the property
violated, so each property can fail for the reason it is there.

### Bounds

`MaxTime`, `MaxRows`, `Expiries` and the finite sets bound the state only. Two
decisions with two tokens and `MaxContexts = 1` are the smallest instance in which
the store evicts and two tokens could belong to one decision; two threads are what
it takes to race for a consumption. `MaxDecisionAge = 1`, tokens of 2 and
`MaxTime = 4` let contexts, decisions and tokens expire at every point between
their creation and use; `TtlRequests` has one value below, one at and one above
the limits. The offsets have both signs, so that a token can be issued in the
future of the adapters and a decision be read by a clock that runs late. One
suppression and one consent row, endless or brief, are enough: each row acts by
itself in `Suppressed` and `ConsentActive`. In the policy part of `policy_and_progress`
every field of the CRM's answer may be missing, or speak for the contact; those by which a ready
answer closes the door (approval, hash, suppression, REPEP list) also speak
against it.

In `run_gate`, five events take a run through APPROVE to CONVERSE, or two runs to
APPROVE; the later stages are passed in `policy_and_progress`, which has six. `Sla = 1` and
`MaxTime = 2` let an action be decided in time or too late; `AskHuman` is guarded
so that the bounded clock outlives every action.

In `budget`, requests of 2, 1 and 1 units against a limit of 3 make the fourth unit
wait for an expiry or a settlement, a second request can expire the first, a day of
3 ticks puts midnight between a reservation and its settlement, and a request of 4
units never fits. Transactions last as long as the clock: nothing in the code bounds
them (no `statement_timeout` or `lock_timeout` is configured). So a reservation can
be committed and be overdue between the SELECT and the UPDATE of a slow transaction,
which releases it without taking its units off the day; `stranded` are those
reservations, and `CountedExactly` says that nothing else is ever lost.

In `requests`, three requests are one that runs, a repetition, and a third that repeats
either of them or takes the place of its claim; `Capacity = 1` evicts as soon as two
keys are used; with `Ttl = 2` and `MaxTime = 4` a claim runs out, is replaced, and its
first handler still finishes or gives up while the second claim lasts.

A message delivered twice is all a replay takes, and the other message of its kind
fills a store of one entry and uses up the rate. Timestamps are 1, windows of skew 1
and lives of 2 and 3 ticks, so that a message can come from the future or the past,
expire before the clock ends at 4, and come back after that.

The engine in memory gets four events: they take a run to APPROVE and through it while
a second run is started and pushes it out of the map; two actions are one of each run,
or two of one. One thread can be between its reading and its writing of a run while the
other is served.

In `policy_and_progress`, two publishers with batches of two share three rows, so that each
meets rows the other has locked; two faults are one for each, or two in a row. One event
always refused and another with a payload no dead letter can hold are the two ways in
which a row stays; the antecedent of `EventuallyPublished` says when neither starves the
rest.

In `release`, two runs of the generator are what it takes to leave a mixture of an old
and a new one behind, two bundles to replace one that was signed, one rebuild to have
two images. Three names are one for each role; the gate passes on any three that
differ, and as no definition names a name, they are a symmetry set. The candidate directory is left alone once a bundle is in
`release/evidence` and the model ends with the first release: to change the candidate
earlier or later is all the same to what is installed. A third run, with a third
image, can copy notices that are older than a lock that itself was reviewed: no run
that TLC explores here does, and `ShippedWasReviewed` names that case because the
proof, which has no bounds, needs it.

In `audit`, three transactions are two that compete for a row and a third of the
other tenant or on another row that competes for the chain only; two versions of one
campaign are numbered one after the other or at the same time; three events let a
transaction with two follow one with one, in either order. A bound on events stops
the longest behaviours before their last append, where a transaction can still roll
back. `SYMMETRY` is used with invariants, action properties and a refinement, which
treat the permuted values alike, and never with liveness.

Deadlock is checked except in `budget`, `requests`, `release` and `policy_and_progress`: their
calls end, and nothing follows when the clock has reached its bound, the outbox is
empty or a release is out. In the other models a restart, a retried operation or a
transaction without effect is always possible.

## 4. Fairness

One run assumes any, `policy_and_progress`, the outbox and the durable workflow each
its own. `EventuallyPublished` is checked under weak fairness of `PublisherStep` for
each publisher: its process goes on with the batch it has and calls `publish_batch`
again while there are rows. Nothing in the repository calls it, so this is what the
function asks of its deployment; faults are not fair and bounded by `MaxFaults`.

`WaitingEnds` is about the durable workflow, no part of which expires an action by
itself: `decide_human_action` does, when it is called too late. So the run assumes that
such calls keep coming: time passes (`WF` of `Tick`), transactions end (`WF` of
`Release`, a connection or a statement ends), a session that keeps asking for the lock
of a run gets it (`SF` of `LockRun`), and, among the transactions on a run whose action
is overdue, calls of `decide_human_action` recur (`SF` of `LateDecision`). The last is
an assumption about the human's client, not about the code; without it a run may wait
for ever, which is the hazard listed at `postgres_workflow.py:176`.

## 5. Findings

* `revocation`: the governance specification says that a suppression prevails over
  an earlier authorization and invalidates authorizations not consumed. `suppress`
  inserts its row only, nothing writes `revoked_at` from there, and the adapters do
  not look at suppressions: a token stays usable until it expires.
* `global_suppression`: a suppression with scope GLOBAL names a phone. The evidence
  query can match it only by the `phone_token` of the body, and a body with that
  field is answered 500 before a decision exists. No decision sees the row.
* `overdue`: the workflow specification asks that an overdue review whose campaign
  has changed repeats the preflight and is put before a human again.
  `decide_human_action` blocks the run for good, whether the campaign has changed or
  not; a test of the in-memory engine expects the run to be blocked.
* `one_signer`: the release documents forbid one person or key to approve for two
  roles. The gate compares the unsigned names only, so that one person with two keys,
  or one key trusted for two roles, passes under two names. The independence of the
  approvals is that of the keys' holders (`IndependentIfKeysApart`).

Seen while modelling, and not stated as a property:

* Units consumed by a provider's attempt that failed, answered over the budget or
  lacked a key are charged to nobody, and the next provider gets the whole allowance
  again (`gateway.py:187-192`, `server.py:89`). `CountedExactly` counts what is
  settled, which is the cost of the last answer.
* The PostgreSQL idempotency store finds a key taken with one statement and reads the
  row with another. If the first request gives its row up in between, the second, with
  the same body, is told `IDEMPOTENCY_KEY_CONFLICT` (`persistence.py:189-195`).
* The artifact of a release is bound to the signatures only: nothing compares it with
  the images of the lock.
* Two overlapping requests of a run in memory number two checkpoints alike, and
  `restore` refuses the run; `SerialRunsRestore` is about the others.
* The in-memory engine uses up the id of an event whose payload is no object before it
  raises (`workflow.py:66-71`): the retry is answered as processed. The account of
  `OneCheckpointPerCause` names those events (`burnt`).
* The outbox is to lose no event between the transaction and the publication
  (`design.md:213`). A publish that returns without a confirm (`postgres_outbox.py:61`)
  marks an event that the broker need not have; `DuplicatesHaveCause` names those
  events (`missed`).
* The preparation tool is documented to run only when Legal's review is recorded
  (`release/README.md:38`). It asks for the record only if the review queue is there,
  and the generator writes the queue last: a candidate of a run that died before is
  prepared, signed and passed unreviewed. `ShippedWasReviewed` names such runs
  (`torn`).
* The in-memory `decide_human_action` looks neither at the run of an action nor at its
  expiry.

## 6. Proofs

Every invariant and action property that a passing run checks, and the three
refinements, are theorems of the specification too. A component's theorems are in a
module of their own, two components that one run puts together share one.

`PolicyAnswers_proofs` proves, for all bodies, whatever values the CRM may give and
whatever a caller may claim: `CallerNeverOverrides` and `AlwaysFailsClosed`, from
`AnswersAssumption` (a body has the fields of `ContactabilityRequest`). The argument.
`Resolved` replaces every evidence field, so that two bodies that differ there become
one. A step changes one key only; if a fact that counted for the contact is lost in it,
each objection that stood before the loss either stands after it or gives way to
another (a snapshot that is no longer valid takes the objection "listed" with it and
leaves "missing or stale"), which is why the lemma `FactsOnlyHelp` is about the
outcome and not about the set of reasons.

`ContactAuthorization_proofs` proves, for all sets of decisions, tokens, threads,
bodies, manifests and all times, ages and offsets:
`InvariantHolds` (`IInv`), `TypeCorrect`, `OneToken`, `AtMostOneCall`,
`CallsAuthorized`, `SuppressionRespected`, `ConsumptionIsFresh` and
`ImplementsPromise`.

The assumptions are `ClockAssumption` (durations and offsets are integers),
`StoreAssumption` (finitely many decisions), `NullAssumption` (NULL is no other
value) and `BodyAssumption` (a body has the fields the evidence overwrites). TLC
evaluates them in every run of the core.

The argument. None of the properties is inductive. That a decision has one token
holds because it is in exactly one place at a time: in its handler, then in the
store, then with one authorize thread, then in one row of the ledger; `OneShotInv`
and `TokenInv` say so, and a pop that did not remove would break them. That a
token leads to one call holds because the thread between the guarded UPDATE and
the provider is the only one and the first (`WorkerInv`, `CallInv`); a restart
removes it without giving the token back. Freshness adds the issuer's limit on the
age, the limit on the token's life and the database's own comparison
(`ConsumedInv`); the adapters' clock does not enter it. `EvidenceInv` carries what
the CRM said through to the request that is decided, and `Outcome` denies a
suppressed request. The refinement maps a decision to its state in
`ContactPromise` by its row, the consumption and the calls.

`SalesWorkflow_proofs` proves, for all sets of runs, events, actions, hashes and
sessions: `InvariantHolds` (`IInv`), `TypeCorrect`, `GateHolds`, `Restores`,
`WaitsForItsAction`, `NeverGoesBack`, `CheckpointsExplained` and
`ImplementsSalesRun`. The assumptions are `WorkflowAssumption` (`Sla` and `MaxTime`
are integers, the sets finite) and `NullAssumption` (NULL is no other value).

The argument. Every transaction that commits writes a state computed from a
checkpoint it read earlier. `SessionInv` says that the checkpoint a session holds
under the lock is still the latest, and `LatestInv` that the latest agrees with
`graph_run`; so a checkpoint is always numbered after the latest one
(`CheckpointAppends`) and the numbers have no gap. `PhaseInv` ties the stage to the
state of the actions: none before a run asks its human, an approved one once it
runs past APPROVE, and a run that waits or is blocked stands at APPROVE. The steps of sessions are then reduced to what they commit
(`Committed`, `StepCommits`): a start, an advance, a question, a closed action, or
nothing. `NeverBack`, the count of checkpoints and the refinement are proved on
those five cases, the refinement by phase and deadline of each run.

`Requests_proofs` proves of `IdempotentHttp`, for all sets of requests, keys and bodies, every time
to live and capacity, and both stores: `HttpInvariant` (`HttpInv`), `TypeCorrect`,
`OwnAnswers`, `RunsOnce` and `RowsAreOwned`, from `HttpAssumption` alone (numbers are
positive, keys finite, requests no error words, NULL no other value).

The argument. That a handler is not run again holds because the record of a claim
stays: `KeepInv` says that the claim of a request that ran is in place, or has run
out, was given up, or was removed by somebody else; a second run needs the key to be
free at a time not later than now. `RecordInv` ties a record to the request that
claimed it, its body and its expiry, and its answer to a request that asked the same;
a client is given such an answer or its own. A request that finishes or abandons and
is not the owner has outlived or lost its own claim, by `KeepInv` again.

`AuditedWrites_proofs` proves, for all sets of connections, tenants, campaigns,
versions, hashes, entities and events: `InvariantHolds` (`IInv`), `TypeCorrect`,
`ChainHolds`, `VersionsNumbered`, `ChangesAudited`, `NumbersFree` and
`NoCircularWait`, from `AuditAssumption` (ids of tenants, campaigns, versions and
entities are distinct, NULL is no other value).

The argument. What a transaction computed stays true until it commits because it holds
the lock of the row it computed it from: `LockInv` gives a lock one holder, `NumberInv`
says that the number of an uncommitted version is the next one of its campaign,
`LogInv` (`Continues`) that the uncommitted events continue the committed chain. A
commit then extends the chain by one or two events and the campaign by one version,
and each event it adds is new, since its number is above the head's; adding it to the
finite set `audit` changes the counts in `EveryChangeAudited` by one (`Counting`).
Waiting is never circular because the head of a chain is locked last: a transaction
that holds one waits for nobody, without those a transaction that wants one gets it,
and so down to the first lock.

`Orchestrator_proofs` proves of `EventOutbox`, for all sets of events and publishers, every batch size,
every choice of refused events and payloads and any number of faults:
`OutboxInvariant` (`OutboxInv`), `OutboxTypeCorrect` and `DuplicatesAlwaysHaveCause`, from `OutboxAssumption`.
The argument. The rows of a session are unpublished and no two sessions share one
(`LockInv`, what `SKIP LOCKED` gives); they are divided into those still to publish,
those marked and those with a letter (`Sane`). The broker has for its mark every event of `Marked` that it did not miss (`Received`),
and what it missed is marked (`MissedInv`). So a delivery adds an event to `Received`
that was not in it, and a lost transaction takes out those it marked and the broker
received and no others, which is the number it adds to `unrecorded`.

`Requests_proofs` proves of `RequestAdmission`, for all sets of messages and deliveries, every skew,
life, limit and drift: `AdmissionInvariant` (`AdmissionInv`) and `AlwaysAdmittedOnce`, from
`AdmissionAssumption`. The argument. The store knows the message of every admitted
delivery until it is due or was dropped (`Remembered`); an admitted thread saw the
timestamp fresh when it looked (`ThreadSound`). A second admission therefore comes
when the message is due, and the time since its thread looked at the clock is at least
what the life of the entry exceeds the window of the timestamp by: `Margin`.

`ReleasePipeline_proofs` proves, for any number of builds, runs and bundles, any
people and any holders of keys: `ReleaseInvariant` (`IInv`), `ReleaseTypeCorrect`,
`AlwaysShippedAsSigned`, `AlwaysFitsTogether` and `AlwaysReviewed`, and, if nobody
holds the keys of two roles (`KeysApart`), `IndependentIfKeysApart`, from
`ReleaseAssumption` (keys are held by people, bounds are numbers) and `NullAssumption`.
The argument. The lock is written first, so that it is the newest of the files and its
image no older than that of any other (`OrderInv`); the blockers are written late, so
that a candidate whose blockers were cleared is complete (`ProgressInv`). Between runs
the queue is that of the lock or the lock's run has failed (`ReviewInv`), and the
notices are no older than the SBOM or a run for its image has failed (`NoticesInv`).
`StagingInv` carries each of these from the moment a part is copied to the moment the
lock is, against all that happens to the candidate directory in between: the notices
can only get newer, and not newer than the lock. What the gate compares then closes
the circle: an SBOM of the image of the lock makes the notices between the two current.

`Orchestrator_proofs` proves of `MemoryWorkflow`, for all sets of runs, events, actions and threads and
every limit of the map and of the checkpoints: `MemoryInvariant` (`MemoryInv`),
`MemoryTypeCorrect`, `SerialRunsAlwaysRestore` and `AlwaysOneCheckpointPerCause`, from
`MemoryWorkflowAssumption` (runs and actions are finite, limits positive). The
argument. No state held by a thread or the map is numbered past the checkpoints of its
run (`NumbersInv`), so that a run found anywhere has been started. While the requests
of a run do not overlap, its one thread holds the last checkpoint, and so does the map
until the thread makes another (`AloneInv`): the next number is the right one, and a
refused request leaves the map current. The account needs no such condition: a
checkpoint adds one pair to `Written` that was not there, and the engine's lock adds
with it one event that is not burnt, one closed action or one started run
(`CheckpointCounts`); a burnt event adds to neither side.

`ModelBudget_proofs` proves, for all finite sets of requests, all units, limits, days,
lifetimes and numbers of providers: `BudgetInvariant` (`IInv`), `TypeCorrect`,
`AlwaysCountedExactly`, `AlwaysWithinLimit` and `KeepsAllowance`, from
`BudgetAssumption` (numbers are numbers, the requests of a run finitely many) and
`NullAssumption` (NULL is no number and no row). The argument. A transaction gives back
the units of the rows it selected and releases all that are overdue when it updates
them. `SelectedInv` says that what it selected is still reserved, of its day and
overdue, and selected by nobody else: so the units it gives back were counted, and the
rest of what it releases is what it strands. `OwnInv` says that only its own handler
settles a reservation, with a cost within its units and within what was consumed; so
the units that come back at a settlement are counted as well, `GREATEST(0, ...)` never
cuts anything off, and the day stays within the limit because a charge is at most what
was reserved for it. In the refinement, a reservation takes its units and those selected
from their owners, a settlement charges or gives back, and `CountedExactly` turns the
comparison in `Fits` into the guard of `Take`.

The sums are those of the community module `FiniteSetsExt`, defined by a recursive
function under a `CHOOSE`. What they are for a set with one element more, one less, or
split in two (`SumAdd`, `SumRemove`, `SumSplit`) is proved from the well-foundedness of
the subsets of a finite set: a set for which the claim fails and that has no smaller one
does not exist. The induction theorems of the library, which take an operator, are not
needed for that.

Only model-checked: liveness (`WaitingEnds`, `EventuallyPublished`), which is out of the
prover's reach, and the four violations of 5.

## 7. Not modelled, and the plan

What is left is a composition: a voice call end to end, router and token together.

Left out, and why:

* `OutboxWorker`, `RetryPolicy`, `CircuitBreaker` (`resilience.py`): no service calls
  them; each is a function from an item or a counter to the next.
* `expire_human_actions` of the in-memory engine: no service calls it.
* `RepepVerifier` and the REPEP snapshots: imported by no service.
* The in-memory store of the CRM: each operation is one step under one lock.
* Marketia's ingest and push: a filter of fields and one HTTP call, no state.
* The LangGraph adapter and the agents: wiring, pure functions over leads, and a
  subprocess.
* `scan_source` of the gate and the parsing of each evidence document; the shell
  rollout and the probes: reading of files and calls without state of their own.
* Signature schemes, HTTP and OIDC parsing, TLS, telemetry, configuration.
