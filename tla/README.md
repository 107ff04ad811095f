# JLMIRROR: models, checks and proofs

JLMIRROR is a multi-tenant platform for monitoring, alerting and service operations, written
document first: every component has decision records, a reference implementation in Python
or a PostgreSQL schema, and tests. Most of its correctness lives in small protocols between
processes that share a store: claims with leases, fences, append-only evidence, compare and
set. Those protocols are what this directory models. Paths below are relative to `src/`, the
root of the repository, whose Python packages are under `src/src/`.

Each module is read from the code first. Where a document or a test says something else
than the code does, the module follows the code, and the difference is a finding
(`violation` runs) or is listed under *Departures*.

## Inventory

| component | state it keeps | operations | what is hard | correct means |
|---|---|---|---|---|
| outbox ledger, `src/jlmirror_async/outbox.py` | immutable messages, dispatch state, leased claims | append_committed, claim_next, mark_published, mark_publication_ambiguous, quarantine, release_claim, expiry inside every call | leases that run out under a dispatcher that is still at work; a clock read before the lock | only the holder of a record's last claim settles it, and what it was told is done stays done; a claim is given up in the end |
| cross-authority operation ledger, `src/jlmirror_async/reconciliation.py` | operations, attempts, append-only evidence | prepare, begin_attempt, expire, complete, mark_ambiguous, fail_terminal, reconcile | a lost answer from the authority that does the effect | the effect happens once at most, and no attempt follows another without proof that it had none |
| consumer inbox, `src/jlmirror_async/inbox.py` | receipts, executor claims | admit, claim, complete (local, cross authority), bind, require_reconciliation, fail_terminal, both reconciliations | redelivery at any moment; an operation snapshot that is stale when it is used | a receipt that completed is backed by an effect and never executed again |
| SQL guards, `sql/wave2/001..006` | the same tables in PostgreSQL | CHECK constraints and BEFORE UPDATE triggers | reference and schema part ways on a long path | the schema takes the steps of the reference (which ones it refuses: *Departures*) |
| fence authority, `src/jlmirror_authority/fencing.py`, `sql/wave1/001` | one row per scope | initialise, advance, acquire_next_fence, admit_fenced_effect | read, then compare and advance; an advance whose answer is lost | one holder per epoch; effects in the order of the grants |
| browser sessions, `src/jlmirror_authority/session.py` | session records | issue, resolve, rotate, retire | resolve, then compare and set | one live session per login, a logout is final |
| identity and tenant shell (g1), `apps/g1-...`, `src/jlmirror_g1` | login transactions, sessions, lineages, fixture authority | start, callback, view, logout | threads between the locks of three stores | a callback counts once; no view after a logout; a live session can be logged out |
| release deployment authority, `src/jlmirror_release/authority.py` | release target, deployment records | create_or_observe, observe_effect, complete_runtime_verification | an executor that acted unheard, reports that come late | one unresolved operation owns the target; versions name deployments |
| notification delivery (g9), `sql/notification`, `apps/g9-...` | intent, dispatch outbox, attempts, evidence, callback inbox, projection | claim, complete, callback, reconcile, retry | overlapping READ COMMITTED transactions, leases, callbacks that overtake | rows agree, outcomes are final, nothing is invented |
| incident response (g11), `sql/incident_response`, `apps/g11-...` | dedupe entries, events, action queue | ingest_event, process_next | a queue read without claim, decisions on uncommitted work | one executor, bounded retries, an outcome for every request |
| ITSM synchronisation (g10), `sql/itsm`, `apps/g10-...` | sync attempts, provider link | claim, complete, reconcile, schedule retry | a claim that expires under its worker, duplicates answered like claims | one ticket, one link, final outcomes |
| monitoring to alerting transport (g6), `sql/integration`, `apps/g6-...` | publications, receipts with leases | publish with the transition, admit, claim, complete | redelivery, leases that lapse, a source that moves while a receipt is completed | one claim per receipt, settled once, and a lapsed one is settled in the end |
| alert policy and lifecycle (g7), `sql/alerting`, `apps/g7-...` | policy versions, the effective one, alerts, decisions | create and supersede versions, switch, apply evaluation | READ COMMITTED statements in a row; advisory locks per version, not per policy | one active alert; alerts follow the revisions of their subject |
| human operations (g8), `sql/human_operations`, `apps/g8-...` | assignments, acknowledgements, visibility requirements and receipts, responsibility | assign, acknowledge, require, receive, take over | all of them read the alert without locking it | who acted is a chain without gap or fork |
| source validation and host inventory, `sql/wave4/003..019`, `src/jlmirror_monitoring/host_inventory.py` | source evidence, poll epoch and generation, UNLOGGED admission, operations, resources | validate, enqueue, claim, complete, reestablish | polls that complete out of order, a crash that takes the admission | a resource is what the newest telling poll saw; work of a lost admission is never applied |
| problem state, `sql/wave4/042..046` | as above, and one row per provider event | enqueue, claim, complete with evidence, reestablish | a completion that checks its authority twice, the first time unlocked | a problem is active when the newest telling poll reports it |
| health projection, `sql/wave4/047..051` | one row per resource | recompute, under the source's lock | derived from three pieces of state that change separately | current health is what the problems amount to |
| metric definitions and current values, `sql/wave4/020..039`, `src/jlmirror_monitoring` | two more streams of polls, definitions with bindings, current values | enqueue, claim, complete, reestablish, for each stream | polls of the definitions that run at once; samples read again; admissions lost with a crash | a definition is what the newest poll says; a value is the observation accepted last |
| history of metrics (d2), `sql/d2-open-rel-030/004..010` | completeness of a stream, its authority, runs | authority moves, sweep, finalize, gap | a provider that adds and corrects rows behind the sweep | complete means accepted, up to the moment claimed |
| polls across relocation and restore (d2), `sql/d2-open-rel-030/003` | placement, recovery admission, poll authority, claims | fence, relocate, restore, reconcile, claim, settle | a restore takes back the counters that new claims are numbered by | only the latest claim counts as current |
| replay and restore authority (d3 harness), `implementation/d3-identity-security/harness/replay_recovery_*` | consumed assertions, redrive claims, recovery gate, sealed witness | consume, claim, send, probe, seal, restore, recover | a whole database goes back in time; the witness and the provider do not | what was consumed stays consumed; every effect sent is accounted for |
| cache authority (d3 harness), `.../cache_authority_*` | owner's version, transition, scope admission, leases, cache entries | admit, fill, reserve, exclude, drain, commit, release | two databases, a cache that is asked instead of them, and its stale copies | no request is admitted on what its owner has revoked |
| logout callback authority (d3 harness), `.../keycloak_authority_*`, `.../keycloak_callback_*` | replay ledger with leases and frozen effects, callback inbox, mappings, session fences | deliver, store, answer, consume, reconcile, resolve later, drain | a token is answered before it is applied; a lease that lapsed over an effect; mappings that move between delivery and effect | no answered logout is lost; a session ends only by a logout that names it |
| tenant and operation admission, `src/jlmirror_authority/control_plane.py`, `src/jlmirror_g1/authority.py` | none | serial narrowing, final decision | authorities that change between two questions | what is admitted was admissible at one moment |

The inventory is ordered by when a part was modelled. Parts of the repository that carry no protocol of
their own (gateway, read applications, validators, release evidence, telemetry classes) are under *Not
modelled*; `PROJECT.json` lists each with its reason.

Interactions: the inbox asks the operation ledger for a snapshot under the other ledger's
lock and writes after releasing it (ConsumerInbox composes the two); the shell calls the
session authority (BrowserShell extends BrowserSession); dispatchers of the outbox, callers
of the fence and executors of operations keep what they were given and may present it at any
time; g9, g10 and g11 share one pattern, discovery without a claim, claim by a SQL function,
the external call with no transaction open, completion by another SQL function. The polls of a
monitored source work the same way, and meet in the row of the source: inventory completions set the
evidence that problem polls and health depend on, problem completions need the resources the
inventory made, metric polls need its hosts, and health is read off inventory and problems. A new
revision of health is published by g6 in the same transaction; alerting decides on the revisions it
reads; people act over the alerts of g7 without locking them. The replay and the cache
authority of the d3 harness each hold one protocol over two stores that cannot commit together; so
does the logout callback authority, over its ledger, the inbox of stored tokens and the fences.

## Modules

| module | models | specification |
|---|---|---|
| `AsyncOutbox` | outbox.py, one action per public method | `Spec`, `FairSpec` |
| `CrossAuthorityOperation` | reconciliation.py and the external effect authority | `OpSpec` |
| `ConsumerInbox` | inbox.py; EXTENDS CrossAuthorityOperation | `Spec` |
| `Wave2Guards` | the constraints and triggers of sql/wave2, as predicates on rows | none: used by INSTANCE |
| `FenceAuthority` | sql/wave1/001, fencing.py | `FenceSpec` |
| `FencedEffects` | what a fence promises | `FencedSpec`, abstract |
| `BrowserSession` | session.py over the stores of g1 | `SessionSpec` |
| `LoginLifecycle` | what a login promises | `LoginSpec`, abstract |
| `BrowserShell` | the g1 server; EXTENDS BrowserSession | `ShellSpec` |
| `ReleaseTarget` | release authority, executors, target environment | `ReleaseSpec` |
| `NotificationDelivery` | sql/notification, g9 worker and callbacks | `NotificationSpec` |
| `IncidentResponse` | sql/incident_response, g11 service and workers | `ResponseSpec`, `ResponseFairSpec` |
| `TicketSync` | the synchronisation part of sql/itsm, g10 worker | `TicketSpec` |
| `HostInventory` | the source, its validation, its inventory polls and resources | none: composed by `HealthProjection` |
| `ProblemState` | problem polls and problems; EXTENDS HostInventory | none: composed by `HealthProjection` |
| `HealthProjection` | health, crashes of the database, the whole; EXTENDS ProblemState | `HealthSpec` |
| `MetricPolls` | the two metric streams of a source, with crashes; inventory is external | `MetricSpec` |
| `MonitoringResync` | g6: publication, consumers, receipts, leases | `ResyncSpec` (with `ResyncFairness`) |
| `AlertLifecycle` | g7: policy versions, switches, evaluations, alerts of one policy over one subject | `LifecycleSpec` |
| `HumanOperations` | g8 over that lifecycle; EXTENDS AlertLifecycle | `HumanSpec` |
| `HistoryReconciliation` | sql/d2-open-rel-030/004 to 010 for one stream | `HistorySpec` |
| `PollRecovery` | sql/d2-open-rel-030/003 for one source | `PollSpec` |
| `ReplayRecovery` | the replay and restore harness after its last layer | `ReplaySpec` |
| `CacheAuthority` | the cache harness after its last layer, one resource | `CacheSpec` |
| `LogoutCallback` | the Keycloak back-channel logout of the d3 harness after its last layer | `CallbackSpec` |
| `TenantAdmission` | control_plane.py and g1 authority.py, one operation | `AdmissionSpec` |
| `Absent` | `None`, shared by modules that one run checks side by side | |
| `*Proofs` | theorems about the module of the same name; `MonitoringProofs` about `HealthProjection` and `MetricPolls`, `AlertingProofs` about `AlertLifecycle`, `HumanOperations`, `MonitoringResync` and `NotificationDelivery`, `BrowserSessionProofs` about `BrowserShell` and `LogoutCallback` too, `AuthorityProofs` about `FenceAuthority`, `ReplayRecovery`, `PollRecovery`, `TenantAdmission`, `CacheAuthority` and `HistoryReconciliation`, `CrossAuthorityOperationProofs` about `ConsumerInbox` too, `ServiceProofs` about `TicketSync` and `IncidentResponse` | |
| `MC_*` | symmetry sets and the values of constants that are not atoms | |

`MC_ConsumerInbox`, `MC_Authorities`, `MC_Services`, `MC_Alerting` and `MC_HealthProjection` check several
specifications that share no state in one run. The initial state chooses an area, and the steps of a behaviour are those of
its area: the state counts of the areas add up and do not multiply, and each property sees exactly the
behaviours of its own specification.

How state and steps correspond to code:

* **A Python method that holds one lock is one action.** So it is with the outbox, the
  operation ledger and the release authority. Its guard is the conjunction of the checks the
  method makes before it assigns; a call that raises before assigning changes nothing and is
  a stutter.
* **A method that gives up a lock between read and write is two actions**, and others run in
  between: `acquire_next_fence`, `rotate_browser_session`, `retire_browser_session`, the inbox
  methods that take a snapshot (`pending_write` holds what was computed), and each request of
  the shell. The same holds for a caller of the d3 harness that asks one store and then the other
  (`Admit` and then `Consume` in `ReplayRecovery`; every call of the replay ledger, the inbox and the fences
in `LogoutCallback`, with `work` for what the thread holds in between), and for each question of an admission.
* **A SQL function is one action if it locks what it decides on before it reads it**
  (all of g10, the claims of g11, the inventory and metric polls, recomputation of health, all of d2). It is two if it decides on rows other transactions may be
  changing: completion and projection refresh in g9 (`inflight` holds the uncommitted
  writes), completion in g11 (`completing`), and completion of a problem poll: 044 checks the
  authority of the poll with only the operation locked and records the snapshot
  (`CheckAuthority`), then calls 043, which locks the source and checks again (`ApplyProblem`,
  `RetireProblem`, `AbortProblem`). What the first half wrote is seen when the second commits.
  In g7 the switch of a version is two steps (read the version, then lock the effective row)
  and an evaluation three (is the version effective, what is the subject, decide); in g8 the
  calls that read the alert are two.
* **What a process holds is state**: claims, attempts and tokens that were handed out are kept
  for ever and may be presented at any later moment. A process that dies stops presenting them.
* **Time**: the outbox has a clock, since `observed_at` may lag it and its comparisons matter.
  Elsewhere the only thing the code takes from the clock is whether a lease, a session or a
  backoff has run out. There that is a free choice of each call, which covers every clock.
* **External parties** (effect authority, release executors, provider, adapter) are
  actions marked external in `PROJECT.json`, as unreliable as the code must expect.

## Abstractions and assumptions

* Effect authority: an attempt *proven* without effect is refused for good from then on; that is
  what `effect_proven_absent` claims. Reconciliation evidence is truthful. Without that no
  ledger could keep its promise.
* Outbox: a `BrokerPublicationReceipt` is an id and a time, it names neither message nor claim, and
  `mark_published` looks at its type only; so any receipt settles any current claim, and the broker is
  not modelled. That the message was delivered when a record says published is the dispatcher's
  duty: it must call `mark_published` for what it published, and nothing in the ledger checks it. (The
  route `app/routers/async_ops.py` makes the receipt, and the claim, from what its caller sends.)
  Modelled dispatchers present claims they were given, any of them, at any time. The history
  variable `reports` has the settlements that were accepted, which is what their callers know.
* Release evidence is truthful and stays true; each operation has one executor.
* New handles, generations and codes are fresh (long random tokens).
* A protected effect under a fence runs in the transaction that checks the token, as the
  docstring of `admit_fenced_effect` demands.
* Shell: the browser sends callbacks the server redirected it to. There the serial narrowing of the
  tenant admission (`control_plane.py:782`) is one read of the authority, the final admission another;
  `TenantAdmission` models the narrowing question by question.
* Tenant admission: the authorities are external and move between any two questions. A generation
  that was left never comes back; a placement, a grant or a runtime may be withdrawn and
  given again. Every question but the last is asked for the moment the operation came, so a lapse
  in between is noticed by the final decision only. Operations are declared with a step-up.
* g9: one intent (intents share no row), the reads of a projection refresh are one snapshot.
* g10: the adapter is idempotent by `sync_identity`, which the code hands it for that purpose.
* g11: a policy asks for some number of actions; which, and the HTTP layer, are left out.
* Nothing is taken for the absence of a thing: `None` is no number, row, poll, read or capability. The
  assumptions of the modules say so of each set that is tested for it.
* Monitoring: a poll returns anything `collect_host_inventory` and its problem counterpart can
  report, so an unavailable provider names no host. A crash of PostgreSQL truncates UNLOGGED tables
  (the two admissions) and rolls back what is open; it may come at any time. Nothing in the
  repository connects the workers of `app/workers` to these functions, so who calls them, and how
  often, is left open. The text, time and transitions of a problem are not modelled.
* Metrics: a poll reads each item once, as it is at that moment; a sample is a clock and a value, and a
  metric has one item. A definition and its binding are marked together in the code, and are one here.
  Times, revisions and transitions are left out.
* g6: a message stands for one transition of one health projection; delivery may be late, repeated
  and in any order. A consumer may stop at any step.
* g7, g8: one policy over one subject; each change of its class has a revision of its own. Content
  hashes and transition rows are left out.
* d2: the provider adds late rows and corrects earlier ones at any time. What fences, moves and
  restores a cell does so in the order of the script (fence first).
* d3 replay: the witness file and the provider survive a restore, the database does not; the operator
  may die between any two steps of recovery. d3 cache: a lease or a transition may lapse at any time.
* d3 logout: one issuer and one client; a callback is the exact bytes of one token, so that two tokens
  under one `jti` are left out. A local session and its binding are made in one step (`Login`). The
  lease is a flag that may lapse at any time and never comes back. The discovery lists of the drain are
  merged into its claims: whatever a list showed, the claim looks at the row again. Rows the cutover imports
  as completed are there at first, without claims or effect. Nothing obliges the drain to run, so
  that every answered logout is applied in the end is not claimed.
* Payloads, digests, tenants and reasons are model values or small sets; admission records of
  ten columns are one value named by the generation they were granted for.

## Runs

Six runs pass and six show a disagreement with what the repository says. Distinct states are
given for the bounds of the `.cfg` files. Where a module extends another, one run checks the
properties of both: `inbox` is also the run of the operation ledger, `shell` that of the session
authority, `health` that of inventory and problems. A run with areas checks one specification per area.

| run | bounds | states | question and answer |
|---|---|---|---|
| `inbox` | see below | 1,036,973 | three areas: a completed receipt is backed by an effect, one local effect, no repeated execution without proof; an operation takes effect once, no successor without proof; the guards of the tables take every step of the operations and every one of a receipt but redelivery verdicts and retry admission; an answered logout is not lost, and a session ends only by a logout that names it |
| `shell` | 4 handles, 2 logins, 3 threads | 168,398 | no view after logout, a live session can be logged out; `LoginLifecycle` is implemented, and the session authority is used as `BrowserSession` says |
| `authorities` | see below | 1,779,422 | six areas: `FencedEffects` is implemented by the fence; what was consumed stays consumed and effects are accounted for across a restore; admissions see the source and commits hold the scope; complete history was accepted; only the latest poll is current; an admission held at one moment |
| `services` | see below | 160,263 | four areas: what a dispatcher was told is done stays done, and only the holder of the last claim decides; PostgreSQL takes every step of the outbox, claims are released; one operation owns the release target, no confirmation is refused; one open synchronisation with a final outcome; one executor per action request and an outcome for every request no dead worker took along |
| `health` | see below | 2,400,195 | two areas: resources and problems follow the newest poll that could tell, current health is what the problems amount to, work of a lost admission is never applied; definitions follow the newest snapshot, and current values have one writer |
| `alerting` | see below | 805,710 | six areas: one active alert, occurrences in the order of revisions; the history of who acts is complete; a receipt is claimed once; delivery outcomes are final and never made up |
| `notify_twice` | 2 dispatchers, 2 attempts | | violated: one logical attempt is sent twice |
| `response_skew` | 1 delivery with 2 actions, 2 workers, no deaths | | violated: all actions done, the event stays `received` |
| `health_unapplied` | as `health`, with 3 inventory operations and 1 problem operation | | violated: current health that rests on a snapshot that was never applied |
| `replayed_after_restore` | 1 assertion, 1 operation, 1 claim, recovery epochs to 2 | | violated: an assertion is won twice |
| `policy_superseded` | 2 versions, 2 operators, no evaluators | | violated: a superseded version becomes effective |
| `resync_stuck` | 1 transition, 2 consumers, under `ResyncFairness` | | violated: a lapsed receipt stays `processing` for ever |

The areas and their bounds:

* `inbox`. *Messages*: 1 key, 1 operation, 2 executors, 2 scopes, 2 revisions, 2 executions, 3 attempts.
  *Logout*: 1 token of any shape (session, subject or both, which may disagree) delivered and consumed by
  2 workers that may fail or die, 2 sessions and 2 principals, a subject that is unlinked and linked to the other
  principal, mappings out of reach at first. *Logout twice*: 2 tokens that name only the same subject,
  which stays fresh and placed; a worker may die. The tokens are issued before anything else happens.
* `authorities`. *Fence*: 3 callers, 2 generations, 2 states, epochs to 3. *Replay*: 1 assertion, 1
  operation, recovery epochs to 3, 3 claims: two boundaries, so that a dump older than the last one exists.
  *Cache*: 2 transitions by 2 writers, 1 replica, scope epochs to 4. *History*: 1 late or corrected
  observation, 3 moments, 2 generations of the authority, 3 runs. *Polls*: 2 cells, 3 placements, 3
  recovery generations, 4 polls. *Admission*: a tenant or cross-tenant operation, 1 further dimension, 2
  generations of each authority.
* `services`. *Outbox*: 2 dispatchers, 1 identity with 2 meanings, 2 receipts, clock to 3, lag 1, 3 claims. *Release*: 4
  operations, 2 contents. *Tickets*: 2 workers, 3 attempts, 2 deaths. *Response*: 2 deliveries, 2 workers, 1
  action each, 1 death.
* `health`. *Health*: 1 host, 1 problem of 2 views, 2 inventory and 2 problem operations, 1 and 2
  recoveries. *Metrics*: 1 metric whose item changes its value kind or is disabled, samples of 2
  clocks two of which contradict each other, 4 polls, 1 recovery.
* `alerting`. *Policies*: 2 versions, 2 evaluators, 1 operator, 3 revisions. *Actions*, *views*,
  *responsibility*: 2 callers, 2 logical actions, 2 principals. *Resync*: 2 transitions, 2 consumers.
  *Delivery*: 2 dispatchers, 2 attempts, 3 reports, 3 answers.

Why these bounds are enough to mean something: every race here is between two or three parties over
one row, so the runs have two or three of them and one or two rows; retry budgets and
generations go at least one past the first repetition, so that a holder two generations behind
exists; in the fence the last epoch is reached, so that exhaustion is seen. Records of the
outbox share nothing but the order in which claims take them, so one identity (with a second
meaning to be refused) is enough. Hosts and problems do not affect one another except through the
source, so `health` has one of each and spends its states on polls: two of each stream, so that a
poll is overtaken. A stream has no admission before its first recovery. The problem stream
has a second one, so that a poll is completed in an epoch after its own; the inventory has not (that
multiplies the states by five without a new kind of behaviour), and its fence is met there only by the
loss of the admission; the proof covers any number of epochs. In the metrics area one recovery and a
crash give polls of three kinds (before, lost, after), and four polls are two overtakings; the
proofs cover any number. A history begins with a snapshot of its first moment and its owner then asks
for the whole, which is the move that reopens a complete stream. In `shell` every session change that a
request of the shell does not make, a rotation for a step-up, is a step of `BrowserSession` by some other
caller: no route of the server rotates. Deadlock is not checked, since every system here may stop: a bound is reached, handles
run out, or all work is done.

**Types** are proved, where a module has theorems, and are not checked by runs, which spend their
properties on what could be wrong. In the other modules the sets of records (`Transactions`, `Ingests`,
`WorkerStates` and others) document the state.

**Fairness.** Three specifications state it.
`AsyncOutbox.OutboxFairness` (`ClaimsAreReleased`): time passes (`WF Tick`), and some dispatcher keeps
calling `claim_next` or `pending_messages`, each of which expires lapsed claims before anything else
(`WF Expire`); nothing is assumed of the holder of a claim.
`IncidentResponse.ResponseFairness` (`RequestsSettle`): each worker that lives takes its next step, as
the loop of `runtime_entry.py:51` does, which catches every exception and polls for ever; processes may
die, a bounded number of times, and a request whose worker died is excepted, because nothing in the code
takes it over.
`MonitoringResync.ResyncFairness` (the finding `resync_stuck`): messages are delivered again for ever (`SF`
of each admission), consumers go on, and leases lapse; even so a lapsed receipt is not reconciled.
No other liveness property is claimed: the repository has no loop that drives the g9 and g10
workers or their reconciliation, and nothing schedules release observations, redeliveries, polls
or the recovery of the d2 and d3 authorities.

## Findings

* `notify_twice` (code bug). Discovery in g9 takes no claim. A second dispatcher that asks for
  the same row is answered state `processing` with `duplicate` TRUE, and `worker.py:57` sends on
  `processing` without looking at `duplicate`. The authorization document demands that dispatch
  at least once does not duplicate the logical attempt.
* `response_skew` (code bug). `g11_complete_action` decides whether the event is processed by
  looking for unsettled siblings; two completions that overlap each see the other's action still
  dispatching, and neither marks the event.

* `health_unapplied` (code bug). `complete_zabbix_problem_state_with_evidence` checks the authority of
  the poll at `sql/wave4/044:101` with no lock on the source, and inserts the snapshot as complete,
  current and succeeded. An inventory poll that completes as unavailable before 043 takes the lock makes
  043 retire the operation without touching a problem, and the snapshot commits all the same. When a
  later inventory poll is current again and no problem poll was claimed since, `recompute_health_projection`
  finds that snapshot for the newest generation and derives current health from it, though the problems
  it reports were never applied. The health authorization (`AUTHORIZATION.md:65`) gives such a
  snapshot no authority.

* `replayed_after_restore` (code bug). `consume` of the replay harness asks the sealed witness first and
  the database afterwards (`replay_recovery_conformance_runner.py:182`). A caller admitted by the
  witness before a boundary was sealed reaches the database after an older dump was restored, which
  brought its open gate and its old epoch back: until recovery closes the gate it wins an assertion that
  was won before. The runner's summary (`replay_recovery_strict_entrypoint.py:466`) claims that stale
  epochs are fenced. What does hold, `ConsumedStaysConsumed`, is that once witness and database
  admit at the same epoch nothing that was ever won is missing.

* `policy_superseded` (code bug). `g7_set_effective_policy_version` checks `superseded_at` at
  `sql/alerting/001:572`, before it waits for the effective row, and not again. Two switches that overlap
  leave a version in effect that one of them superseded; decision record 72-g16 (line 67) says a
  superseded version cannot be selected again.

* `resync_stuck` (code bug). `consume` (`consumer.py:145`) returns when the admission answers
  `processing`, whatever the lease. Only a claim looks at the lease and turns a lapsed one into
  `reconciliation_required`, and no consumer that finds `processing` claims: the receipt stays. The
  runbook (`RUNBOOK.md:40`) says it becomes `reconciliation_required`.

### Departures

Differences met while modelling that no run states. Each can be followed in the module's actions.

* Inbox: `admit()` of a redelivery moves a receipt of any state, quarantined and terminal ones included
  (`inbox.py:105`), where the SQL guard refuses (`sql/wave2/004:242`) and the document calls
  quarantine durable. For this reason `LedgerGuardsAccept` leaves admission verdicts out.
* Inbox: `reconcile_retry_eligible()` writes after the operation lock is released, so the operation
  may be attempting again; the SQL guard holds `FOR SHARE` locks and refuses. Retry admission is
  left out of `LedgerGuardsAccept` too.
* Inbox: a receipt whose executor died after the operation completed directly cannot be finalized by
  `reconcile_completed()`, which wants an `effect_confirmed` resolution.
* Development fence authority: `bootstrap()` (`app/auth.py:268`) writes epoch 1 over an existing
  row; the SQL initialisation does nothing on conflict.
* Shell: a view requested with a logged-out session is answered 403, the runbook says unauthenticated.
* g9: a projection refresh that computed first and wrote last drops the other's evidence until the
  next refresh; and a retry admitted before the delivery was proven is sent after it.
* g11: a worker can finish the first action before ingestion enqueued the second, so the event is
  processed early; a worker that counts on the attempts it read before others retried makes a fourth
  attempt (what does hold is two retries and one more per worker); a crash between the deduplication entry and the event leaves replays deduplicated
  against nothing.
* Problems: the guard of the table (`sql/wave4/042:253`) demands that every update advances the
  projection revision. The update of a problem that is reported as before (`043:427`) and of one that
  an incomplete snapshot omits (`043:522`) leave it, so the completion of any such poll raises, each
  time, and its operation runs until recovery retires it. The model follows the code (`Unrevised` in
  `Acceptable`); the problem-state authorization (items 4 and 15) has both as ordinary outcomes.
* Problems: the completion of a superseded poll raises at `044:117`, before 043 could retire the
  operation, so the retirement at `043:299` is reached only through the race of `health_unapplied`.
* Problems: an event that was resolved by omission and is reported again makes the completion raise.
* Problems: recovery locks the source and then its operations, a completion its operation and then the
  source. PostgreSQL resolves the deadlock by aborting one (`AbortProblem`, or a recovery that does not
  happen).
* g9: an attempt that is claimed and never completed stays `processing` unless somebody calls the
  reconciliation; nothing in the repository does.
* g8: an acknowledgement is written to an alert that was resolved since it was found active
  (`sql/human_operations/001:608`; `NoLateAcknowledgement` states the contrary and is not run), and a
  visibility requirement likewise; the repetition of an assignment that lost its answer raises
  `active_alert_required` once the alert is resolved, before it looks for its own row; nothing closes the
  assignments of an alert that resolves.
* g7: a version that was switched off keeps the authority of an evaluation that read it as effective:
  such an evaluation may open an alert after the switch.
* g6: nothing in the repository hands what a receipt recorded to the evaluation of g7.
* d2: after a restore the pair of epoch and generation that numbers a claim is given out again
  (`003:135` to `150`); only the recovery generation tells the two claims apart.
* Release: an operation whose runtime verification never succeeds stays in `runtime_verification` and
  keeps the target (`authority.py:300`).
* Source synchronisation: `fetch_pending_ops` (`app/adapters/db_repositories.py:56`) looks for operations no
  worker has claimed; the claim of a worker that died is found by nobody.
* Metrics: `app/workers/metric_current_state.py:85` passes `item_reader=` to
  `collect_metric_current_state`, whose parameter is `reader` (`:184`), so that worker raises after its
  claim committed. A read that failed is handed on as an empty batch and recorded as succeeded
  (`db_repositories.py:374` to `420`). A poll with older samples overwrites the current value, and
  reading the newer accepted sample again does not bring it back (`sql/wave4/031:465`), though the
  current-state authorization (lines 79, 87, 156) wants the value not to go back; `CurrentHasOneWriter`
  states what does hold: the value is the observation accepted last. One sample that conflicts
  refuses its whole batch. No failed poll marks current values as stale.

## Proofs

Eight modules hold theorems, for every value of the constants allowed by the named assumptions.
All follow one argument: a strengthening that holds initially and is preserved by every
action, one lemma per action.

| module | shows | what the strengthening adds |
|---|---|---|
| `AsyncOutboxProofs` | types; `GenerationsUnique`, `SettledByLastHolder`; `DispatchGuardAccepts` | no claim in circulation is ahead of its record's generation, so the next claim is new. Of the settlements: no report is about the claim a record is held under, so its holder is the first to report it; and a final record is not touched again. Of the table: every row meets its constraints, and what lapses at the head of a call is an update of its own |
| `CrossAuthorityOperationProofs` | of operations: types; `EffectAtMostOnce`, `SuccessorNeedsProof`, `SnapshotCoherent`, `CompletedHasEffect`. Of the inbox over them: types; `CompletedIsBacked`, `LocalEffectOnce`, `ReexecutionNeedsProof`. Of both: `LedgerGuardsAccept` (redelivery verdicts and retry admissions left out, see *Departures*); and the row of every receipt, those two included, meets the CHECK constraints | attempts and effects do not exceed the operation's generation, an operation that waits for a successor has a proof about its latest attempt, and proofs of absence are true: so an effect belongs to the only attempt without such a proof. Of the inbox: every receipt, and the one a write under way carries, is sound (its link names an effect that is there, without a link there is no local effect, and an operation admitted again has its absence proven), and no step of the operations makes a sound receipt unsound. Of the tables: rows meet their constraints, evidence that confirms names the outcome the operation has, and the trigger would let a write under way through at any moment until it happens, because a known operation keeps its scope, a completed one stays as it is, and evidence is only added |
| `AuthorityProofs` | of fences: types; `OneHolderPerEpoch`; epochs are never reset; a state other than active is final; `KeepsPromise` (refinement of `FencedEffects`). Of replay: `ConsumedStaysConsumed`, `EffectIsAccountedFor`. Of polls: `OnlyLatestIsCurrent`. Of an admission: `AdmittedAtOneMoment`. Of the cache: `AdmissionsSeeTheSource`, `CommitHoldsTheScope`. Of the history: `CompleteIsAccepted` | no token is ahead of its row, so the epoch an advance grants is new to every token. Of replay: an open witness stands for a table that misses nothing, a sealed one has everything that was won before the database could be replaced, and until the table is rebuilt witness and table together miss nothing; an effect is later than what was fenced, a row in any dump says nothing false of the provider, each row also accounts for whatever a claim could still send, and a sealed witness has every effect, as none can be added before the rows are rebuilt from it. Of polls: recovery generations only grow from claim to claim, and while nothing was restored since, the authority is what the latest claim made it. Of an admission: the evidence of the last decision comes after every question, and if it matches what the operation was told, all of it held when it was taken. Of the cache: who may commit holds the scope; a row of a lease that is not retired is of the scope's epoch; and once the source is revoked, its scope is excluded still or at an epoch later than every entry and copy. Of the history: what was accepted is the provider's, and what a run of the present generation and revision has swept agrees with the provider |
| `BrowserSessionProofs` | types; `OneLiveSessionPerLogin`; one principal per login; retired is final; `KeepsLifecycle` (refinement of `LoginLifecycle`). Of the shell: every step is a step of the sessions or none, hence all of the above; `OneCallbackPerTransaction`, `NoViewAfterLogout`, `LiveCanLogOut`. Of the logout callbacks: types; `AcknowledgedIsOwned`, `OnlyNamedSessionsEnd` | of sessions nothing: types, one live session and one principal per login are inductive together, because a change in flight names a session that exists for good and keeps its principal. Of the shell: the transaction one callback takes stands in for the check that a login has no session yet, the lineage store agrees with the sessions but for the thread that is about to bind or drop one, and each thread's request is where its phase says. Of the callbacks: the frozen effect of a row is one for its token and never changes, a worker past its claim carries the frozen effect whoever claimed the row since, and every generation that passed and every retired session has a row whose effect asked for it |
| `ReleaseTargetProofs` | types; `UnresolvedOwnsTarget`, `VersionNamesOneDeployment`, `ConfirmationNeverRefused`; what runs is current; an aborted operation has no effect; effects only under ownership | what the target environment is like while the authority does not know: an executor acts only for an unconfirmed operation, which owns the target, and what runs is its content or what ran before |
| `ServiceProofs` | of tickets: types; `OneOpenSync`, `OneTicketPerIncident`, `SyncOutcomeIsFinal`; a linked row means a link. Of the incident response: `OneExecutor` | of tickets: the answer "linked" that a worker still carries names the one ticket there is. Of the response: a worker past its claim is the one its row names, and the row is dispatching |
| `MonitoringProofs` | of health: `LostAdmissionFences`, `PresenceFollowsPolls`, `ActiveFollowsSnapshots`, `CurrentHealthMatchesProblems`; `CurrentHasOneWriter`; `DefinitionsFollowPolls` | of health: an admission, when there is one, is for the current epoch, and that epoch is later than every epoch a crash took. No two operations hold one poll and none is ahead of its stream, so what is applied is the newest; the rows are tied to the newest read or snapshot that tells of them, whose poll no step changes. Health that is current cites an operation that has a snapshot, so while that one holds the stream's poll nothing else can be applied. Of values: claims count up in each stream and epoch, so one poll of the values runs at a time, what was accepted was read by a poll, and the last of it is current. Of definitions: every snapshot that was applied was the newest claim's, and the rows follow the last of them |
| `AlertingProofs` | of alerts: types; `OneActiveAlert`, `OccurrencesAdvance`. Of who acts on them: `HistoryIsComplete`. Of the g6 transport: `OneClaimPerReceipt`, `SettledReceiptIsFinal`. Of a notification: `NeverInventsDelivery`, `OutcomeIsFinal` | the advisory lock gives a version one evaluation at a time; so what an evaluation has read is not older than any decision of its version, and an alert is opened only over decided revisions. Of assignments: the history of each alert is finite, so the next revision is new to it. Of the transport: a consumer past its admission has a receipt, and a receipt that was not claimed has no generation yet. Of the notification: what a transaction is about to show is reported, or reported by the attempt it is about to write; that attempt is locked and has no outcome yet, or this one |

`GenerationsUnique`, `SnapshotCoherent`, `CompletedHasEffect`, `OneHolderPerEpoch`,
`OneLiveSessionPerLogin`, `OneTicketPerIncident`, `VersionNamesOneDeployment`, `OneCallbackPerTransaction`
and `SettledReceiptIsFinal` are proved and no longer part of a run.

Only model-checked: liveness, which is out of the prover's reach (`ClaimsAreReleased`, `RequestsSettle`). Every
other property of a passing run is proved. No module declares a RECURSIVE operator.

## Not modelled

* The history projection of metrics: `sql/wave4/040` and `041` are tables with guards, and no
  procedure that projects into them exists (the worker says so). The creation of a source is one
  insertion; the models begin where it ends.
* Quarantine and redrive (`src/jlmirror_async`): one call between checks and without state of its own; it
  belongs into the composition planned below.
* The acceptance of observations of d2 (`001`) and the storage candidates on TimescaleDB; of g6, the
  recovery of publications that are missing; of g10, lifecycle, assignment and comments, which share no row
  with the synchronisation; of the cache harness, admissions composed of four owners and
  the bulkhead of owner reads.
* Reads, static frontends, cookie syntax, telemetry classification, release evidence validation, the
  gateway, the probes of the d3 harness that drive a product and check its answers (of the logout
  callbacks the scenarios only: the operations they drive are modelled), and the
  validators under `tools/`: input and output, or pure checks without state. These are most of the
  lines of the repository: `tools/` alone is half of its Python, and there is no protocol in it to
  state a property about.

## Plan

Done, in this order: outbox, operations, inbox, fence, sessions and shell, release,
notification, incident response, ticket synchronisation, host inventory with problems and health; replay
and restore, cache authority, history and poll recovery, tenant admission, alerting, human operations,
g6 transport, metric polls, logout callbacks. What would come next:

1. **An abstract `EffectOnce`** that outbox, inbox and operations implement together, with
   quarantine and redrive.
2. **Metric polls over `HostInventory`** instead of an external inventory, so that the fences of five
   streams share one source.
3. **Incident lifecycle** of g10 over the links of `TicketSync`.
