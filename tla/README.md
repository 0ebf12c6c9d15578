# Verification of the security-incident-triage template

TLA+ models of the template's stateful core, the TLC configurations that check
them on small instances, and TLAPS proofs of their main properties for every
value of the constants. Paths below are relative to the repository root.

## 1. The system

A signed webhook reports a security alert. One transaction stores an incident,
its alert, a timeline entry and an outbox row; a dispatcher publishes the row to
a broker; a worker starts a Mastra workflow run per event; the run investigates,
classifies, plans, and suspends for a human decision taken over HTTP or on the
dashboard; the decision issues a one-time resume token; the resumed run executes
the plan through the containment gateway, verifies it and closes the incident. A
recovery dispatcher in the same poll loop resumes, expires and retries what was
interrupted. Everything durable is in one SQLite/libSQL file; several server
processes may share it. Between two awaits anything may happen, and every
hand-over is guarded by a lease, a fence token, an incident version or a unique
key. These guards are what the project is about.

### Components, state, operations, hazards

| Component (`src/...`) | State | Operations | Hard part | What makes it correct |
|---|---|---|---|---|
| Incident state (`db/incident-operations.ts`) | `incidents.status`, `version`, timeline | create, `transitionIncident` | version compare-and-set from many actors | legal transitions, one winner per version |
| Outbox and dispatcher (`db/outbox-operations.ts`, `background/outbox-dispatcher.ts`) | `outbox_events`, `dead_letter_events` | claim batch, publish, mark, fail, reconcile | leases that lapse while the holder works; marks lost after a publish | every row is published or dead-lettered; no dead letter over a run |
| Worker and consumer ledger (`background/workflow-worker.ts`) | `consumer_effect_ledger` | claim, complete, release, dead-letter, ack/nack | at-least-once delivery, crash between start and commit | one run per event, nothing acknowledged early |
| Investigation start (`db/workflow-run-operations.ts`) | `workflow_runs` | materialise | races the dead letter | run and dead letter exclude each other |
| Approval (`db/approval-*.ts`, `mastra/steps/*approval*.ts`, `approval/workflow-resume-reconciler.ts`) | `approvals`, `approval_resume_tokens`, the suspended run | request, suspend, decide, authorise, resume, expire, recover | decision vs. expiry; crash between decision and resume | one decision; a run resumes only with a consumed token or an expiry; every decision is eventually resumed |
| Containment gateway and claims (`containment/*.ts`) | `containment_actions`, `containment_action_attempts`, mock effects | authorise, claim, apply, verify, finish, reconcile | reclaimed leases, timeouts with a late effect, crash after effect | one open fence, plan order, completed means applied |
| Containment execution and closing (`mastra/steps/execute-containment.ts`, `verify-containment.ts`, `finalize-incident.ts`, `db/containment-outcome-operations.ts`, `containment/partial-retry.ts`) | incident status, outcome event, run marker | enter, loop over plan, record outcome, close | step and retry work on one plan | contained only over a verified plan; contained is closed |
| Recovery dispatcher (`background/phase6-recovery-dispatcher.ts`) | reads all of the above | resume decisions, expire, retry containment, deliver | one row per iteration: head-of-line blocking | each interrupted item is eventually taken up |
| Provider deliveries (`db/provider-delivery-operations.ts`) | generations, leases, attempts | claim, call, persist, reconcile expired | uncertain outcome of a call | one generation current, at most one external ticket |
| Identity effects (`db/provider-effect-operations.ts`, `db/workos-webhook-operations.ts`) | effect ledger, observed webhook events | claim, finish, reconcile, observe | webhook before/after/without the response | effect confirmed once |
| Webhook ingest (`webhooks/routes.ts`, `db/webhook-operations.ts`) | alert events, ordering | ingest | duplicates, reordering | one incident per alert |
| GeoIP cache (`db/geoip-cache-operations.ts`) | entries, refresh leases | claim, complete, release, purge | lease lapses during the call | no stale writer wins |
| Retention (`db/retention-operations.ts`) | source cursor, claims, journal of removals | sweep, by timer or command | bounded sweeps over restarts and failures | no source waits for ever behind the others |
| Runbooks (`db/runbook-*.ts`, `runbooks/*.ts`) | generations, activation, vector indexes, retrievals | stage, index, activate, roll back, clean up, retrieve | two stores, activation by compare-and-set, leases of retrievals | what is active is indexed and searchable; a retrieval names what was in force |
| Server runtime (`background/runtime.ts`) | the poll loop | reconcile, dispatch, purge, recover | an early stage's throw skips the later ones | no stage is starved |
| Evidence, triage, plan (`mastra/steps/*.ts`, `evidence/*.ts`, `triage/*.ts`, `db/phase5-result-operations.ts`) | evidence items, one event per stage, severity column, result of the run | gather, correlate, classify, summarise, propose, validate, persist | two executions of one run with different answers; each write its own transaction | the plan shown for approval is the one the records tell of |
| Analytics export (`analytics/*.ts`) | journal, read model file, lock file | export, ingest, rebuild | overlapping rebuilds of one file | the read model is a prefix of the journal |
| Dashboard, authentication, Redis transport, storage, tools | see `PROJECT.json` | | | |

How they interact: database rows are the only shared state between processes;
the broker carries envelopes (outbox row to worker); the workflow engine is
called by the worker (`startAsync`), the HTTP handlers and the recovery loop
(`resume`); providers are called from the gateway and the delivery code.

`PROJECT.json` lists under `hazards` what in this code a test would hardly
reach, line by line, with the properties that would notice.

## 2. Modules

| Module | What it is |
|---|---|
| `AlertHandoff` | abstract: an accepted alert gets exactly one verdict, a run or a dead letter, for good |
| `AlertPipeline` | outbox, dispatcher, broker, worker, ledger, first workflow step, crashes |
| `AlertPipelineProps` | its properties, inductive invariant and refinement mapping |
| `AlertPipeline_proofs` | TLAPS proofs |
| `ContainmentContract` | abstract: effects counted up one at a time, contained over the whole plan only, closed after contained |
| `Containment` | executors, gateway, claims, effects, outcome, closing, timeouts, crashes |
| `ContainmentProps` | its properties, inductive invariant and refinement mapping |
| `Containment_proofs` | TLAPS proofs |
| `ApprovalAuthority` | abstract: an approval is opened once, gets one verdict for good, and containment is entered only under "approved" |
| `Approval` | request, suspension, decision, token, expiry, reconciler, resumed run, recovery loop, crashes |
| `ApprovalProps` | its properties, inductive invariant and refinement mapping |
| `Approval_proofs` | TLAPS proofs |
| `TicketContract` | abstract: the external ticket of an incident is opened at most once and what it shows only gets newer |
| `TicketDelivery` | claims, generations, fences, calls, uncertain outcomes, reconciliation, the steps and recovery tasks that deliver |
| `TicketDeliveryProps` | its properties and refinement mapping |
| `TicketDelivery_proofs` | TLAPS proofs |
| `IdentityEffects`, `IdentityProps` | one WorkOS effect: action claims, effect ledger, mutation, readback, sweep; properties |
| `GeoIpCache`, `GeoIpProps` | the entry of one address, refresh leases, key rotation, local tier, purge; property |
| `Investigation`, `InvestigationProps`, `Investigation_proofs` | the triage of one run by several executions, from its start to the request for approval; property; TLAPS proofs |
| `AlertIngest`, `AlertIngestProps` | ingest of WorkOS events about one entity: duplicates, order, observed state, dead letters |
| `Runbooks`, `RunbooksProps`, `Runbooks_proofs` | catalogue, vector indexes, activation, rollback, cleanup, retrievals; TLAPS proofs |
| `Retention`, `RetentionProps` | the bounded sweep, its scheduler, the command |
| `Analytics`, `AnalyticsProps` | journal, paging, the read model's file and lock, rebuilds |
| `Parts_proofs` | TLAPS proofs about the effect ledger, the country cache, ingest, retention and the read model, and induction over intervals for two of them |
| `MCSideBySide` | the seven of these that share no state, in one run |
| `SideBySide_proofs` | TLAPS proof that the run of seven parts is each of them |
| `MCApprovalAndAlert` | the approval and, in behaviours of its own, the liveness of the alert pipeline, in one run |
| other `MC*` | instances for TLC |

### AlertPipeline

State: the incident status, one outbox row per event (`published`, `aged`: the
reconciliation grace has passed since `published_at`; `due`: `available_at` is
past; `lease`: whose lease token `available_at` holds; `attempts`), the
unresolved dead letters, the run rows, the consumer ledger (status, fence owner,
live lease, attempts), the stream entries (`bound`: the entry's trace carrier is
still the row's), and per process the dispatcher loop, the worker callback and
the runs it launched that have not taken their first step.

Actions, one per transaction or external call, in the code's order:
`ReceiveAlert` (ingest commit), `ClaimBatch`, `PublishNext`/`PublishThrows`,
`MarkPublished`/`MarkThrows`, `RecordFailure`, `IterationThrows`, `Reconcile`
(dispatcher); `Deliver`, `CheckEnvelope`, `ClaimEffect`, `StartRun`/`StartThrows`,
`CompleteEffect`/`CompleteThrows`, `ReleaseAndNack`, `PersistDeadLetter`,
`SealEffect`, `Ack`, `CallbackThrows` (worker); `MaterializeStart`/
`MaterializeThrows` (first step); `OutboxDue`, `GraceElapses`,
`LedgerLeaseElapses` (time); `Crash`, `BrokerDrops` (environment).
A timestamp comparison becomes a flag, and the elapse actions may set it at any
moment, which covers every schedule of the real clock. A fence is "who claimed
last". The ledger's attempt counter saturates at the budget it is compared with.

### Containment

State: the incident, the correlation of its contained event, whether the
approval has expired, action and attempt rows, attempt counts, lease liveness,
the durable effects of the mock provider, the executors and the provider
operations that were given up on but still run (`late`), and the run marker.
Executors are the workflow step (`Steppers`) and the partial retry of each
recovery loop (`Retriers`); both walk the plan through the same gateway:
`Authorize`, the claim with its four results (`ClaimReplayed`, `ClaimDenied`,
`ClaimReconciled`, `ClaimGranted`) or `ClaimBlocked`, `ApplyEffect`,
`VerifyEffect`, `Finish`, each with its throwing variant, then `ReadIncident`,
`RecordOutcome`, `CloseIncident` and, in the workflow, `MarkRun`. `LateApply` is
a provider operation that `withActionTimeout` has abandoned and that still
reaches the database.

### Approval

State: the incident status, the decision with its author (`actorUserId`; reason
and provenance are folded into the author, since the replay test compares all of
them), the resume token (`none`, `issued`, `consumed`, `resumed`, which stand
for the row and its `consumed_at` and `resumed_at`), `expired` (the clock has
passed the expiry that approval and token share), `lapsed`
(`expiry_resumed_at`), the engine's durable snapshot of the run (status, the
receipt it was resumed with, result), where its first execution is, and one
program counter per request handler and recovery loop. An actor also carries
what the code carries from one await to the next: the request, whether the clock
read before the coming transaction was in time (`intime`), and whether its token
is the stored one (`genuine`).

Actions, in the code's order: `RequestApproval`, `OpenExternal`, `Suspend`,
`StartBreaks` (first execution); `Submit`, `ExpireOnRequest`, `Look`, `Decide`,
`Authorize` (a request, over HTTP or on the dashboard); `PollDecision`,
`PollExpiry`, `ExpireInLoop`, `RetryContainment` (recovery loop); `Check`,
`Resume`, `Recheck`, `Mark` (the reconciler, called by both); `ReadReceipt`,
`EndExpired`, `ReadIncident`, `EnterContainment`, `Contain`, `Close` (the resumed
run, executed in the caller's process); `Expire`, `StepThrows`, `BreakOff` (time
and failures). Containment inside the run is reduced to the incident statuses it
goes through; `Containment` has the detail, and `RetryContainment` stands for the
partial retry in the same reduced form.

The engine is not under `src/`. What is assumed of it is what the callers rely
on: a suspended run has a durable snapshot, `resume` refuses a run whose snapshot
is not suspended, and a failed step is stored as a failed run. It compares and
then stores; with `SingleResume = FALSE` two callers that compare before either
stores both execute the run, which is the weaker assumption.

### TicketDelivery

State: the incident's version and status, one `provider_deliveries` row per
operation (open, and the update of each final status), the generation row with
its owner and fence, what exists at the provider, requests still on the wire,
and the workers: the workflow's steps (`Ask`, `CallStep`, `Contain`, `Finalize`)
and the recovery loop (`DeliverOne`, `RetryContainment`, `CloseRecovered`).
`Deliver` is the claim transaction with its early returns (`ClaimConflicts`,
`ClaimBlocked`, `Claim`); `Reconcile`, `Resolve`, `CheckFence`,
`RecheckIncident`, the call (`CallFinds`, `CallLands`, `CallRefused`,
`CallFails`, `CallTimesOut`), `CheckAgain` and the four ways to persist follow in
the code's order. `WireDelivers` lets an abandoned request arrive later.
The constant `Kinds` lists the providers of the code that are considered. Branches
that no call reaches (a stale generation, a missing open reference) are left out.
A definite failure (`CallFails`) leaves nothing on the wire, or, with Linear, the
request that was sent: the search or the readback in the catch block of `createOnce`
and `updateOnce` (`providers/linear-incident-provider.ts:137-148`, `197-212`) may throw
an error of its own, which the delivery stores like any other failure. Two equal
requests on the wire are one.

Nothing ties a writer to its lease of twice the `timeoutMs`
(`db/provider-delivery-operations.ts:63`), and nothing makes Linear's search see an
issue at once. `Overrun` ends a lease, of the generation or of a delivery, while its
writer or its request is still under way, `SearchMisses` opens an issue although one is
there. The history variable `misled` records the three events after which the ledger
cannot know what the provider holds: a delivery that outlasted the lease of its row, an
error that hid a sent request, a search that missed. Only these steps of the environment
set it, none of the ledger's own, so no mistake in claims, fences, reconciliation or
outcomes is excused by it; nothing but the properties that name it reads it. A lease of
Linear's *generation* that ends under its writer does not set it, and with the mock
provider it excuses nothing. What does happen to a misled ledger is `NoSecondIssue`
(finding 6).

### IdentityEffects

State: the action row, the effect ledger row, what WorkOS has and what its reads
show, requests under way, the callers and whether the approval holds. A caller
claims the action (or is denied it for its rate, after an expired attempt was marked
failed: `ClaimRateLimited`), binds the ledger row, reads, sends, verifies and finishes;
each step may time out, fail or be the caller's last. `Sweep` is the recovery
dispatcher's termination of uncertain rows. `OthersChange` is an administrator.

### Investigation

State: status and severity of the incident, the evidence rows, the payload of
the one event per stage (its id holds only run and stage), the active runbook
generation and the one selected for the run, the stored result, and per
execution the branches of the gather step and where it is. Two executions exist
because a redelivered event may start a run twice (see `AlertPipeline`). The
actions are the steps of `incident-ingestion-workflow.ts`, cut where they write:
`StartInvestigation`, `ValidateScope`, `Inspect` and `PersistEvidence` per branch,
`CorrelateEvents`, `SelectRunbook`, then for each of the four stages `AskModel`
(load and verify the context, ask), for the classification `StoreSeverity`, and
`RecordStage`; `PersistResult`, `RequestApproval`; `Dies` between any two. A fact
has a source, a type, a value, a provenance and whether it is complete, which is
all the policy looks at; ids, hashes and texts are functions of it.

### Runbooks, AlertIngest, GeoIpCache, Retention, Analytics

`Runbooks` keeps generations with their rows, the vector store's indexes, the
activation with its revision and history, cleanup claims and retrieval rows; its
processes are indexers, an operator who rolls back, a cleaner and readers, each
one transaction or one vector call at a time. `AlertIngest` keeps incidents,
the observed state of one membership or session, reserved positions and dead
letters; requests overlap and WorkOS repeats and reorders. `GeoIpCache` keeps the
stored entry with its lease, a local entry per process, and the clock; every
look-up remembers when it asked. `Retention` keeps rows by source and age, the
stored cursor and the scheduler; `Analytics` the journal, the files by inode and
name, the lock, and where each report is.

## 3. Runs

| Run | Instance | Shows |
|---|---|---|
| `alert_pipeline` | 1 event, 2 processes, 2 stream entries, publish budget 1, start budget 2, 1 fault; leases may lapse while work is going on; about 1 million distinct states | `PipelineInv` (inductive), run and dead letter exclude each other, ledger verdicts have a cause, acknowledgements are earned, refinement of `AlertHandoff` |
| `alert_pipeline_lost` | as above, 1 fault | finding 1 |
| `alert_pipeline_poison` | 2 processes, 1 fault | finding 2 |
| `containment` | 1 step, 1 retrier, 2 actions, 3 attempts, 1 fault; approval may expire, leases may lapse at any time; about 404,000 states | fences, plan order, effects, outcome, refinement of the contract, contained is closed |
| `containment_stuck` | approval outlives, patient timers, 1 fault | finding 3 |
| `approval` | 2 handlers, 1 loop, 1 decider with both choices, 1 fault, `SingleResume = FALSE` (about 162,000 states); and the pipeline with 1 process, publish budget 2, 3 faults, patient timers (about 31,000) | one verdict that matches the incident, no resume without authority, marks follow effects, refinement of `ApprovalAuthority`, expiry is settled, a finished run is marked; every accepted alert is eventually started or dead-lettered |
| `approval_interrupted` | the same, `SingleResume = TRUE` | finding 4 |
| `ticket_delivery` | 2 workers (a workflow, a loop), the opening and the updates of every final status, both providers, 2 tries, 7 versions, 2 faults; about 553,000 states | one ticket, "succeeded" is real, updates follow the open, refinement of `TicketContract`, and deliveries conclude while the incident stays put |
| `ticket_delivery_stuck` | the same with a moving incident | finding 5 |
| `ticket_second` | Linear, 1 fault | finding 6 |
| `side_by_side` | see below; about 744,000 states | triage: `PlanHasItsTrail`; WorkOS effects: `OneMutation`, `CompletedIsConfirmed`, `UncertainIsSettledIfRetried`; runbooks: `CatalogueIsConsistent`, `ActiveIsSearchable`, `RetrievalIsAuthoritative`; ingest: `HistoryIsTrue`; GeoIP: `EvidenceMovesForward`; retention: `TurnsComeRound`; analytics: `ReadModelIsPrefix` |
| `identity_stuck` | 2 callers, approval that expires | finding 7 |

`approval` and `side_by_side` check components that share no state, so a product of
them would only multiply; the variable `part` chooses in the initial state which of them
moves, and the fairness of a part asks something only of its own behaviours. The
runbook catalogue is four such parts, since all its processes and
failures at once are too many: two indexers with failures; one indexer, a reader
and failures; an indexer, a reader and rollbacks over three revisions; two
overlapping readers. The read model is two: overlapping reports, and one that is
killed. The instances: two executions, two sources with two answers each and one
activation in between (triage); two callers, two tries, one lag and one mishap
(WorkOS effects); five deliveries, two orders of the same events, one repeat, one
contradiction, one that is not allowed, and two requests (ingest; the events of a
session, which has no previous role, come one at a time); two processes, a key
rotation, time to live 2, lease 2 and clock 3 (GeoIP); four records of three
sources with one candidate per sweep (retention); two journal entries, page size
1, five inodes (analytics).

Bounds, and why they are enough to be interesting. Every invariant talks about
one event or one plan, and events do not share rows (except a batch, which
`BatchSize` bounds), so one event suffices; two processes are the least that
race, and one lapsed lease makes either of them a stale holder. Two stream
entries allow a duplicate next to the original. Publish budget 1 makes the first
failure the last one (dead letter), 2 (for liveness) exercises the retry path; a start budget of 2 has both
a retry and an exhaustion. Two actions are the least plan that has a predecessor
and a partial outcome. One decider with both choices is enough for a replay and for a
conflict; two handlers race with each other, and with the loop there are three
callers of `resume`. Three attempts is the code's own `MAX_ATTEMPTS`.
`MaxFaults` counts crashes, throws and drops (a publish that fails and is not recorded
either is one); with two processes and
free-running leases one fault already leads to every branch (each passing run
reaches every disjunct between them), and the proofs hold for any number.
The proofs remove all of these bounds for the safety properties.

Deadlock checking is off: once budgets, timers and faults are used up the system
has nothing left to do, and that is its normal end.

### Fairness

Weak fairness of the poll loops (a `setInterval` iteration runs again after it
returned or threw), of callbacks and steps that began, and of clocks (a lease, a
backoff or a grace does elapse). Strong fairness of the broker's `Deliver`: Redis
consumer groups re-offer unacknowledged entries (`XAUTOCLAIM`), though not in
any moment at which a given callback happens to be idle. `PatientTimers` assumes
for liveness only that a 60 s lease outlasts a holder that is still working
(milliseconds of database work): without it two holders could take the lease
from each other forever, which the code does not exclude and does not claim to.
In `TicketDelivery` the lapse of leases nobody works under, the wire, due retries and the
workers are weakly fair (nothing is asked of `Overrun` or of a failure), the loop's turn at `deliverOne` strongly, since the workflow may hold
the lease whenever the loop comes round; in `IdentityEffects` the sweep, the lapse
of a lease and what callers began are weakly fair. The other modules state no
liveness.
In `Approval`, steps that
began, polling and the expiry clock are weakly fair; nobody is obliged to decide.
Faults are bounded, so liveness says "if failures stop".

### Findings

1. **Lost alert** (`alert_pipeline_lost`). `workflow-worker.ts:251` completes the
   consumer ledger when `run.startAsync` resolves, before the first step has
   committed the run row. If the process dies in between, the dispatcher's
   reconciliation republishes the event, but each redelivery meets a completed
   ledger and is acknowledged without a start.
2. **Redelivery taken for poison** (`alert_pipeline_poison`). Publisher and
   worker rewrite the trace carrier of the outbox row; the worker then compares
   an earlier envelope's carrier with the row and dead-letters it as a foreign
   message, so the retry delay and the start budget never apply. In the trace a
   publish could not be marked and is repeated after its lease, before the first
   delivery is compared.
3. **Interrupted execution** (`containment_stuck`). The recovery query requires
   an action in `pending`, `failed`, `blocked` or `timed_out`. A crash while the
   last open action is `executing` leaves none, and the incident stays
   `containing`.
4. **Interrupted resume** (`approval_interrupted`). `workflow-resume-reconciler.ts:89-93`
   answers `in_progress` for every active run that recorded the receipt. A crash
   while the run resumed by an expiry executes leaves its snapshot `running` with
   that receipt; nothing restarts it, so every later turn of `expireOne` answers
   `in_progress` and `expiry_resumed_at` stays null. The test
   `phase6-approval-containment.test.ts:508` ("retries expiry resume after a
   process failure following the expiry commit") injects its failure before
   `resume` only.

5. **A delivery that never concludes** (`ticket_delivery_stuck`).
   `provider-delivery-operations.ts:65-99` claims the generation of the incident's
   version as it is now; the fence check (712-738) compares the one stored in the
   delivery row. In the trace the process dies in the opening after a decision moved
   the version; the loop takes the row again and answers `in_progress` for ever, as does
   the retry of a delivery that failed. The test `phase6-approval-containment.test.ts:2888` says
   that the dispatcher "audits a transient external failure and converges by the
   same delivery key".
6. **A second issue** (`ticket_second`). The create is sent, its answer is lost, and the
   marker search in the catch block (`linear-incident-provider.ts:137-148`) throws too.
   What arrives at the delivery code is a plain error, which is stored as `retry`
   (`provider-delivery-operations.ts:488-513`), not as `uncertain`. The retry comes due,
   finds nothing yet and creates an issue; the first request takes effect after it. The
   comment at 456-459 says that a retried create "could duplicate an issue that committed
   after the local deadline" and is left to reconciliation, and the one at 138-139 of the
   provider calls the search "the reconciliation boundary before any retry". A delivery
   that outlasts its lease (63) leads to the same end.
7. **An uncertain effect nobody looks at** (`identity_stuck`). Once the approval has
   expired or three attempts are used, neither the retry's query
   (`phase6-recovery-dispatcher.ts:103-149`) nor the sweep (201-265) selects it; the
   comment at 98-99 says that it does not stay non-terminal for ever. A crash right
   after the ledger claim leaves `claimed`, and one between storing the effect and
   finishing the action leaves a succeeded effect under a failed action.

Observations without a run, met while modelling:

- `evidence/records.ts:71-77` refuses provenance `policy-v1`, which
  `geoip-evidence-provider.ts` emits and `triage/policy-registry.ts:107-115` accepts: a
  run with a known GeoIP country ends at the first verified read of it. In
  `Investigation` it is the second reading of the identity source.
- `classify-severity.ts` commits the severity before the event; an execution that
  then meets the event of another one fails and leaves a severity without a
  completed classification. `PlanHasItsTrail` holds because no result follows.
- A process that dies within the triage leaves the run `running`: the worker finds
  the run on redelivery and completes the event.
- `deliverOne` takes uncertain rows first (their `next_attempt_at` is null), a
  superseded row of a final status throws on every turn with Linear, an uncertain
  update without reference reconciles to nothing: each stands in front of the other
  deliveries. A crash between the retry's close and its delivery
  (`phase6-recovery-dispatcher.ts:175-197`) loses the final ticket update.
- Retention has no status filter on `provider_deliveries.projection`
  (`retention-operations.ts:218-227`): a delivery still waiting after 30 days loses
  its projection and is then skipped for ever. Dead letters are never resolved, so
  that source never selects.
- GeoIP: rotation ignores the running lease of the new key, so that a slower
  look-up may replace newer evidence; `EvidenceMovesForward` excepts it.
- Runbooks: an indexer that fails deletes the index of a generation that another
  command may have activated (`dropped` in the model); a failed retrieval without
  a selection stores a row no later claim accepts.
- Ingest: a repeated state with another event id is a dead letter when a newer event
  came first, although migration 0007:176-177 speaks of delayed retries that
  converge.
- Analytics: the lock file survives a crash, and later runs answer `WRITER_LOCKED`;
  overlapping rebuilds remove and rename each other's file.

### What some properties leave open

- `DeliveryConcludesInTime` speaks of the deliveries of both providers, at the
  incident's present version, and excepts an incident whose deliveries are `Occupied`:
  by an uncertain one, which `deliverOne` takes first, or, with Linear, by one of an
  older version, whose claims keep prolonging the lease that the others only share while
  its own outcome is refused.
- `FinalsFollowOpen` is about the deliveries. That the run ends when the opening fails,
  before it was ever suspended (`open-external-incident.ts:99`), is in `Approval`
  (`StartBreaks`); no property promises anything for its approval.
- `TurnsComeRound` covers retention's turns between sources, not what the minimising of
  a row does to those who wait for it.
- `ReadModelIsPrefix` owes most to the gap check of each ingest, which is one
  transaction; the locking and renaming around it decide which file is read, and
  `AnalyticsInv` shows that every file is a prefix.
- `UncertainIsSettledIfRetried` has one plan: that the sweep and the retry take one row
  per turn, so that one may wait behind another, is not in it.
- `HistoryIsTrue` does not claim that delayed retries converge (see the observations).

## 4. Proofs

`AlertPipeline_proofs`, `Containment_proofs` and `Approval_proofs` prove for every
set of events, processes, executors and people, any number of actions, attempts, budgets and
faults, from the named assumption in each module (`PipelineAssumption`,
`ContainmentAssumption`, `ApprovalAssumption`): type correctness, the inductive invariant, the safety
properties of the runs that follow from it, and the refinement of the abstract specification.

*`PipelineInv`.* `RunExcludesDeadLetter` is not inductive alone: a dispatcher
between claim and failure must still hold a row nobody else gave up on
(`ItemInHand`, `BudgetSpentOnce`: the dispatcher that spent the last attempt is
the one that wrote the dead letter and keeps no row of it in hand); the verdict
that a callback is about to store must still have its cause (`CauseInHand`, which
holds because runs, dead letters and acceptances only grow); and no actor knows
an event before its ingest (`NothingBeforeIngest`), without which the mapping to
`AlertHandoff` would leave "absent" by a run. The refinement proof shows
that every step is an accept, an investigate, a give-up or a stutter.

*`ContainmentInv`.* `CompletedMeansApplied` and `ContainedMeansVerified` need
what executors know between transactions: the attempt in hand exists, a verdict
"completed" was formed over an effect, and "record contained" over a completed
plan (`ExecutorInHand`); an action row mirrors its latest attempt and all earlier
attempts are closed (`ActionMirrorsAttempt`), so a fence test on the latest
attempt is enough; nothing follows a success (`AttemptsInSequence`); an action
is first claimed after its predecessors (`StartedInOrder`) and effects belong to
attempts (`EffectHasAttempt`), which together give `EffectsInPlanOrder`; a fresh
version of a not yet contained incident is what `Enter` relies on
(`EntryIsCurrent`). The refinement counts effects with `Cardinality`; its key
lemma is that one step changes the set of applied actions by at most one element.

*`ApprovalInv`.* The three safety properties are not inductive: a handler that has
just consumed a token or a loop that has just expired the approval acts on it
several transactions later. `ActorInHand` states what each of them may rely on
(its receipt is covered by the approval, the branch of the run matches the
decision, what it is about to mark has had its effect); `TokenFollowsDecision`
ties token to decision, `FirstExecutionFirst` says nobody resumes before the
suspension, and `EndedWithEffect` that a run with a result was resumed, and under
a token only after the decision took effect, which is what `Mark` needs when it
relies on a result somebody else's execution left. The proof classifies every
step by what it does to the rows, the run and the actors (`RowMoves`, `RunMoves`,
`ActorMoves`); `Stable` lists what no step takes back (a decision, a consumed
token, a covered receipt, an effect), so the hands of all other actors stay
valid. For the refinement every step is an open, a settle, an act or a stutter.

*`GeoInv`* (`Parts_proofs`, for any number of processes, any life times and clock).
That evidence moves forward needs that what was asked under a key is no younger than
the running lease of that key (`LeaseIsYounger`) and that a rotation moves nothing from
the new key to the old one (`OldStaysOld`).

*`IdentityInv`* (`Parts_proofs`, for any number of callers, tries, reads and
mishaps). That WorkOS is asked at most once follows because only the caller that
bound the ledger row may send (`EffectIsOwned`); that "completed" was confirmed,
because a caller's verdict is grounded in a readback before it is stored
(`VerdictIsGrounded`).

*`RunbooksInv`* (`Runbooks_proofs`, for any generations, indexing commands, readers and
bounds). `CatalogueIsConsistent` is inductive once a cleanup between its claim and
its completion still has the claim (`Engaged`). That the active generation can be
searched needs that a full index stays full until its generation is claimed for
cleanup, which no step takes back, or a failing indexer drops it (`IndexesStay`). A
retrieval's answer is authoritative because every attempt number belongs to one
reader and to the row's selection (`AttemptsAreOwned`) and the selection was active at
its revision, which later events do not change (`SelectionWasActive`). The proof
classifies every step by what it does to rows, indexes, commands and the retrieval
(`Move`), and shows once that moves keep the invariant.

*`InvestigationInv`* (`Investigation_proofs`, for any executions, sources, readings and
number of activations). `PlanHasItsTrail` says nothing of executions under way, so it
is not inductive. `Grounded` adds what an execution may rely on at each of its writes:
the branches it finished are stored, the facts it goes by verify and are those the
correlation event counts, the stages before its own are completed in the trail, from
the classification on there is no reason against the evidence and the severity column
is the policy's, and after the proposal it is not low. The proof then shows that no
step takes any of that back (`Grows`, `GroundsStay`): evidence is only added, an event
and the severity are written once, and so is the result.

*`UntimedInv`, `RemoteInv` and `TicketInv`* (`TicketDelivery_proofs`, for any number of loops,
versions, tickets and faults). `TypeOK` and `FinalsFollowOpen` hold whatever the timing
(`UntimedInv`): a lease may lapse under its writer and a request arrive at any time, but
a delivered row is never taken back, because every outcome is stored over an active row
only, and neither the run nor the incident nor a delivery gets past the opening before.
`RemoteInv` adds, as unconditionally, what holds of the provider: references are to what
is there, and the mock's writes and requests have the generations of their rows, in
order, because its table takes none older than its newest (`Storable`).
The rest, `TicketInv`, holds until the ledger is misled (`misled \/ TicketInv` is what
`Invariance` says; there is no hypothesis), and the theorems follow from the three for
every behaviour, misled or not. `OneTicket`
speaks of the provider only; it is kept because somebody who calls for an operation
holds its claimed row (`BusyHolds`), alone (`Alone`), with no earlier request still on
the wire, and every write and request carries the generation of its row (`WritesFit`):
a caller that finds nothing is therefore the first to write. The refinement of
`TicketContract` needs in addition that no update passes over a newer one:
Linear's generation stays active, and blocks a newer claim, as long as a request of the
failed containment may still take effect, and the recovered end has a later version
(`FinalsOrdered`); that only the failed containment can be followed by another final
operation, and all of them follow the open, comes from the incident
(`OperationsFit`, `OpenFirst`). One lemma each covers the steps by which a worker ends
its work, proceeds to its outcome, or only reads (`EndKeeps`, `ProceedKeeps`,
`ShiftKeeps`), and `LandsGoes` the two steps that change the provider.

*`IngestInv`* (`Parts_proofs`, for any deliveries and requests). `HistoryIsTrue` speaks of
incidents and answers; it is kept because what is remembered of the entity is what the
last incident reports (`ObservedIsLast`), every reserved position is an incident's
(`PositionsAreIncidents`), and because what bars an alert (a refused state, a taken
identity, a newer event of the stream, a taken position) is never undone
(`BarredStays`): who buries an alert after another request changed the records still
buries one that can be no incident, and a dead letter stays one.

*`RetentionInv`* (`Parts_proofs`, for any number of sources and records, any limits).
`TurnsComeRound` counts sweeps, and the bound is inductive only together with where the
cursor is: a source passed over k times has at most `SourceCount - k` turns before its
own (`WaitersMoveUp`). A sweep that passes over a source with aged records has used up
its limit before that source's turn, so the cursor stops before it and it moves up
(`PassedOverIsLater`, `PlaceAfter`). `PassHasRoom` bounds the batches of a pass.

*`AnalyticsInv`* (`Parts_proofs`, for any reports, page size and journal). Which inode has
the read model's name depends on overlapping rebuilds that take files from each other;
what holds is that every inode, named or not, holds a prefix of the journal
(`FilesArePrefixes`), and that every page exported is in the journal
(`PagesAreJournalled`). `IngestedIsPrefix` says so of a batch: wherever its page begins,
it leaves a prefix or is refused. `AnalyticsAssumption` asks for one inode more than
names and processes can hold, as a file system has.

Sweeps and batches are recursive functions over an interval, so these two proofs need
induction over data. They have it without a theorem that takes a predicate: a set of
naturals has a least element because their order is well founded (`LeastElement`), hence
induction for a set in place of a predicate (`IntervalInduction`) and the existence of a
function that follows a step (`RecursionExists`).

*`RowsAreSingle`* (`Investigation_proofs`) adds to `InvestigationInv` what the types need:
no stage of a run gets a second event and no run a second result.

`SideBySide_proofs` shows that `side_by_side` does check the parts: its specification
implies that of each of the seven (`PartsAreKept`), so that what is proved of a part
holds of it, its `TypeOK` among them.

Only model-checked: liveness (`EventuallyHandedOff`, `ContainedIsClosed`, `ExpiredIsSettled`,
`FinishedIsMarked`, `DeliveryConcludesInTime`, `UncertainIsSettledIfRetried`) and
the violations, since fairness and ENABLED are out of the prover's reach. Every invariant
and every safety property of the steps that a run checks is also proved.

## 5. Plan

Done: the pipeline, containment, approval, tickets, identity effects and the
services around them, each checked, and its safety properties proved. Next, in order
of importance:

1. `Approval`, `Containment` and `TicketDelivery` with several incidents, so that
   the recovery dispatcher's one row per turn is exercised: which interrupted item
   can stand in the way of which other.
2. What a retention sweep does to the tables others read.
3. The dashboard's event stream and its cursor; the rate limiter.

## 6. Not modelled

SQLite transactions are taken as atomic and serialisable, which is what the
repository's `withTransaction` asks for. HTTP parsing, signature checks, HTML,
logging and tracing are left out except where a value decides a branch (the trace
carrier does, see finding 2). In the triage: traces, prompts, summaries and
claims, the choice of actions, and the policies of the other two kinds of
incident, which have the same shape. In the catalogue: loading and chunking of
markdown, embeddings, ranking, dry runs. Retention: what a removal does to rows of
other tables. Ingest: the rate limiter (its clean-up visits only the first
entries of a map, so that expired buckets behind live ones are not freed) and the
demo route. Dashboard queries, sign-in, demo, staging and evaluation tools,
migrations: see the notes in `PROJECT.json`; they read state or run outside the system.

Steps of the code that are one step here, because nothing another actor may do in
between makes a difference: the consumer claim and the reads of dead letters and runs
that follow it (`ClaimEffect`; the facts read only grow, so that a later read is that of
a later claim), and the readiness check and the closing transition (`CloseIncident`; what
readiness asks for is never undone). `Look` in `Approval` compares the author, which
stands for reason and provenance too; that `decideApproval` loses the incident's version
to somebody else and rolls back is the request that breaks off (`BreakOff`).

Where a model allows more than the code: a process of `Analytics` may open a file that
another one has open under its temporary name, which the database's own lock refuses.
Where it is finer: `Investigation` compares all evidence, where the stored result keeps
decision, summary and plan, which agrees in every case the correlation event lets
through; and all readings, where the events of two executions compare reason codes and a
count of evidence, so that of two executions that stop without a result another one may
meet the conflict. Out of reach and left out:
the conflict of an activation that names a generation which is not active
(`ResolveStaged`), which `CatalogueIsConsistent` excludes.

Withdrawn or malformed envelopes (no source row) end as standalone dead letters and touch none of the modelled
rows.
