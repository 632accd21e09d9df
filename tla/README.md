# Savant in TLA+

Savant is a control plane that tests customer-owned AI workflows. Most of the repository is request
handling, rendering and data transformation. The parts that are hard to get right are the ones where
several processes share PostgreSQL rows across failures: the reservation of test runs and their
dispatch to a customer's harness, the background job queue, and the observed test-bench runs. This
directory models those parts in TLA+, checks the models with TLC and proves theorems about them with
the TLAPS proof system.

Paths below are relative to the repository; `harness/…` stands for
`apps/web/src/server/harness/…`, and likewise `jobs/…`, `test-bench/…` and `skill-intelligence/…`.
`adr-NNNN` is the file of that number in `docs/architecture/`.

## 1. Inventory

The components below are those `PROJECT.json` lists; it also names the ones with no shared state.

### Harness test runs (modelled)

| component | state it keeps | operations | who calls them |
| --- | --- | --- | --- |
| reservation store, `harness/invocation-reservations.ts` | `harness_eval_runs`, `_events`, `_deliveries`, `_transitions` | `reserve`, `markRunning`, `requestCancel`, `applyEvent`, `expireDue`, `getRun` | the API, signed webhooks, the reconciler; `expireDue` and `markRunning` have no caller |
| dispatch lease queue, `harness/dispatch-leases.ts` | `harness_eval_dispatch_leases`, audit rows | `claim`, `renew`, `markDispatchStarted`, `acknowledge`, `recordUnknownOutcome`, `releaseForRetry` | dispatch workers |
| dispatch worker, `harness/dispatch-worker.ts` | none that survives it | `tick`: claim, preflight, marker, invocation, acknowledgement or hold | a host process; any number at once |
| run context loader, `harness/dispatch-run-context.ts` | none | checks the pinned request again before egress | the worker |

They interact through the run row: whoever changes a run locks it first. Runs move
`queued → running → outcome`, with `cancelRequested` on the way; a lease moves
`leased → dispatching → acknowledged | reconciliation`, with `retry` and `exhausted` beside it.
*Hard behaviours*: any number of workers; a worker dies or loses a reply at any step; leases expire
under a live worker; webhooks are repeated, reordered, contradictory, or early; cancellation and expiry
cross dispatch; clocks are read before a lock is waited for. *Correct* means: the customer's harness
is invoked at most once per run, as long as clock readings are current when they are used, and in any
case only under a marker of its own; nothing is sent for a run that was canceled or expired before its
marker; quota is held; outcomes are evidenced by a receipt and never change; the audit explains the
state.

### Harness side services

| component | state it keeps | operations | hard part |
| --- | --- | --- | --- |
| signed event admission and quarantine, `harness/signed-event-admission.ts`, `event-quarantine.ts` (modelled) | `harness_eval_event_quarantine` | `admit`, `record`, `purgeExpired` | a delivery id comes again, well formed or not, after it was accepted or refused; the per-run cap; expiry read before the lock |
| signing key registry, `harness/signing-key-registry.ts` (modelled) | `harness_adapter_signing_keys` | `activate`, `revoke`, `resolveSecrets` | the clock is read before the vault answers; secrets are fetched after the rows were read |
| status connector configuration, `harness/status-connector-config.ts` (modelled but for the HTTP client) | one row per adapter | `save`, `disable`, `activate`, `resolveActive` | credential and endpoint are attested outside any lock |
| provider reconciliation, `harness/provider-reconciliation.ts` (not yet) | observation rows | read the lease, ask the provider, recheck, record | the lease may change during the question |

*Correct* means: a delivery that was accepted is not quarantined afterwards, and a rejection on record
stays as it is until it expires; a key that was barred before a check began does not
verify in it; what is active was checked as it stands.

### Background jobs (modelled)

| component | state it keeps | operations | who calls them |
| --- | --- | --- | --- |
| job queue, `jobs/queue.ts` | `background_jobs` | `enqueue`, `claim` (two statements: retire, then take), `saveProgress`, `release`, `complete`, `fail` | admissions and worker loops |
| worker loops, `jobs/runner.ts` | none that survives them | claim, handle, complete or fail, until nothing is left or time is up | a daily cron, polls and syncs of the user interface, the previous invocation |
| evaluation jobs, `jobs/enqueue.ts` and `runEvalGeneration` in `jobs/runner.ts` | `eval_generation_runs` | admit a run and its job; execute, settle, put back or refuse it | the API; worker loops |

Every write after the claim names the job by id only. A run and its job are rows that no transaction
spans. *Hard*: functions are killed at any point; replies are lost; a run must not stay active for ever;
a job must not be retired while it is being worked on. *Correct* means: one loop has a job and one worker
evaluates a run; every job ends, and its run with it; a scored run is not evaluated again; attempts are
bounded. Repository, organization and observed-run jobs go through the same queue: `JobQueue` models them
by a handler that does anything the queue allows.

### Observed test-bench runs (modelled)

| component | state it keeps | operations | hard part |
| --- | --- | --- | --- |
| observed runs, `test-bench/observed-run-store.ts`, `observed-run-worker.ts` | `test_bench_runs`, its job | `start`, `cancel`, `beginJob`, `recordCase`, `complete`, `fail` | cancellation against claim against `beginJob`; a worker that dies mid-run must not be replaced by one that calls the provider again (adr-0022, adr-0023) |
| call evidence, `provider-call-intents.ts`, `observed-provider-usage.ts` | intents and receipts | record before and after every call | separate transactions around a paid call; a score requires all of them |
| admission, `monetary-admission.ts`, `platform-provider-admission.ts`, `observed-admission-quota.ts` | five ledgers | charged one after another in the transaction of `start` | refusal at the last after charging the first; midnight; several tenants |
| definitions, `definition-store.ts` | `test_bench_definitions` | create, update, archive | a ciphertext is bound to the revision it was sealed for |

*Correct* means: a call leaves at most once and is on record before it does; nothing is announced after
a run is over; a score rests on every call; ledgers agree with the runs and never exceed their caps.

### Key maintenance, skill improvement, Git connections

| component | state it keeps | operations | hard part |
| --- | --- | --- | --- |
| crypto maintenance, `server/security/…` (definitions only) | `crypto_maintenance_operations` | authorize, reserve, start, rewrap a batch, complete, mark uncertain | replies lost after a commit; rewrap crosses edits and archiving |
| skill improvement, `skill-intelligence/service.ts`, `postgres-store.ts` (in part) | `optimization_jobs`, `improvement_recommendations` | request, claim, submit a result; review, modify, stage | rows are replaced whole from the copy that was read; leases that run out; nobody is fenced |
| Git connection, `server/git/…` (in part) | `git_provider_connections`, `_secrets`, `git_oauth_states` | authorize, resolve and refresh, validate, disconnect | a refresh token is accepted once; refresh crosses reauthorization and disconnection |

### Left out

The control plane, assessments, capability policy and the web routes are single-statement writes and
read models; MCP, scanners, evaluators, the SDK, the scripts and the user interface keep no state that
two processes race for. The public catalog's backlog and the billing evidence of the test bench do keep
such state and are in section 6. `PROJECT.json` gives each its reason.

## 2. Modules

| module | what it is |
| --- | --- |
| `HarnessReservations` | the reservation store: rows, receipts, deliveries, audit; one action per operation |
| `HarnessIngress` | EXTENDS `HarnessReservations`: signed deliveries, accepted or quarantined |
| `HarnessDispatch` | EXTENDS `HarnessReservations`: the lease queue and the workers' `tick`, step by step |
| `DispatchOnce` | what queue and workers promise together, with no lease, clock or worker in it; `HarnessDispatch` implements it |
| `DispatchMarked` | what they promise however old their clock readings are; `HarnessDispatch` implements it too |
| `HarnessSigningKeys`, `StatusConnector` | the two registries an adapter depends on |
| `JobQueue` | the table of background jobs and the worker loops, around a handler that does anything |
| `EvalJobs` | EXTENDS `JobQueue`: admission of evaluation runs and the handler that executes them |
| `ObservedRun` | EXTENDS `JobQueue`: observed test-bench runs, their calls and evidence |
| `ObservedOnce` | what an observed run promises of its paid calls; `ObservedRun` implements it |
| `TestBenchAdmission` | the transaction that admits observed runs, over the ledgers of several tenants |
| `CryptoMaintenance` | encrypted definitions under editing and approved rewraps |
| `SkillImprovement` | optimisation jobs and the recommendations people review |
| `GitConnection` | one provider connection and its credential |
| `MCControls`, `MCHarness`, `MCTestBench`, `MCImprovement` | instances for TLC; `EvalJobs` needs none |
| `SumTheorems` | sums of a function over a finite set, as quotas and ledgers take them: what adding, removing or changing one element does |
| `*_proofs` | theorems and their proofs, seven modules (section 5) |

`MCControls`, `MCTestBench` and `MCImprovement` hold several components that share no table, and `MCHarness` two
that share the reservation store. Their variable `part` is chosen in the initial state and only that component steps, so a run checks the union
of their behaviours and never their product. A property of one component holds of the others' initial
state, which never changes.

### HarnessReservations against the code

| TLA+ | code |
| --- | --- |
| `status, request, deadline, external, latest` | the columns of `harness_eval_runs`; `request` stands for digest, cost, key and duration, `"none"` for no row |
| `events, deliveries, trail` | the rows of the run in the three other tables |
| `Reserve` with `KeyUnused`, `HasQuota` | `reserve`: the replay and conflict lookups, the two limits, the insert and its audit row |
| `MarkRunning` = `Startable` and `Start` | `markRunning`; `acknowledge` makes the same row changes |
| `RequestCancel`, `ExpireDue` | the methods of those names; one expiry is one statement over all due runs |
| `ApplyEvent` with `DeliveryKnown`, `EventKnown`, `Admissible` | `applyEvent`: each refusal reason is a conjunct |
| `Readings` | `this.now()` is evaluated before the transaction waits for its locks |

Abstractions. *One tenant and one adapter*: every statement selects by `organization_id`, and the
quota lock is the tenant's row. *Digests*: a request or body is its own digest, so two are equal
exactly when their digests are; a body has a `form`, so one event can come in two bodies. *Refusals
and replays* change nothing: they are stuttering steps, and what matters, that nothing else happens,
is in the guards. *Transactions* that lock before they read are one action each. The audit's action
names are kept; actor, reason and time columns are not.

### HarnessDispatch against the code

| TLA+ | code |
| --- | --- |
| `lease` | the row of `harness_eval_dispatch_leases`; `generation`, `attempt`, `until`, `eligible` are its columns |
| `pc, job` | where a call of `tick` is, and the claim it holds |
| `view` | what claim's query saw: its clock and the due rows |
| `ClaimQuery`, `ClaimLease` | the two halves of `claim` |
| `Renew`, `ReleaseForRetry`, `MarkDispatchStarted`, `Acknowledge`, `RecordUnknownOutcome` | the methods; `Holds` is `lockedLease` |
| `PreflightPass`, `PreflightFail` | load the context, compare it with the claim, look for the adapter, check the time left |
| `Invoke`, `ProviderAnswer` | the adapter call and the reading of its answer |
| `Abandon` | every early end: no work, an exception, a refusal, a lost reply, the death of the process |
| `invocations` | history: how often the harness was really called for the run |

*Why claim is two steps.* Its query says `for update of r skip locked`. At READ COMMITTED the lock is
on the run row alone: PostgreSQL reads the joined lease row from the statement's snapshot and, when
the lock is granted, re-evaluates only a run row that changed. Marking a dispatch changes the lease
and not the run. The upsert that follows overwrites whatever lease it finds, except that a
`reconciliation` row has a `reconciliation_reason` that the upsert keeps and that the check constraint
of migration 0020 forbids to a `leased` row. The tenant row's lock is held from the query to the commit,
which `TenantLocked` keeps from `reserve`, `expireDue` and other claims.

*The fence.* All workers share one worker id: the queue compares id and token, and sharing the id is
the weaker fence. The token is 256 random bits drawn by each claim and is modelled by the generation
that claim wrote; two claims of a run never draw the same one.

*The customer's harness* is a nondeterministic callee: it answers validly, invalidly, late or never
(`ProviderAnswer`), and from the first invocation on it may deliver any signed body of the instance
in any order (`StoreStep`). `MarkRunning` is left out of the composition because `acknowledge` replaced
it and nothing calls it.

*Lag* is how old a clock reading may be when the transaction that took it gets its lock. `Lag = 0` says
readings are current when used; `Lag = 1` lets one tick pass in between. The code reads its clock before it
waits for a lock, so it is a system with some lag, if mostly none to speak of. Three properties speak of
current readings and are checked with `Lag = 0`: `AtMostOnceInvocation`, `InvokerIsFenced` and
`ImplementsDispatchOnce`. Three say what is left of them when readings are old, and hold of any `Lag`:
`EveryCallMarked` (each call has a marker and a claim of its own), `NewestInvokerHolds` (a worker past the marker
whose lease is not its own any more has been overtaken by a later claim) and `ImplementsDispatchMarked`.
`DispatchMarked` differs from `DispatchOnce` by the step `Overtake`, which reopens a run that was marked.

### JobQueue against the code

| TLA+ | code |
| --- | --- |
| `jobs` | `background_jobs`; `key` is organization, kind and `dedupe_key`, `payload` what the job works on |
| `runner` | each worker loop: its place, its job and the attempts that claim returned |
| `Insert`, `Enqueue` with `KeyFree` | the insert `on conflict … do nothing` over the unique index of live jobs |
| `Retire`; `Claim`, `ClaimNothing` | the two statements of `claim` |
| `SaveProgress`, `Release`, `EndRow` | the writes by id of `saveProgress`, `release`, `complete` and `fail` |
| `Complete`, `Fail` | what the loop does with a result and in its catch |
| `Work` | a handler, whatever it does; `EvalJobs` replaces it by one that is modelled |
| `Die`, `Expire` | the function is killed; the lease runs out |

`claim` orders its candidates by kind and age and skips those that another statement has locked, so any
claimable job may be the one it takes. A lease is 330 seconds and the worker routes
limit their function to 300 (`maxDuration`), so a lease is `live` while any loop has the job and `expired`
at some time after that; this is the assumption under which nothing needs a fence. A statement whose
reply is lost may have been committed: `Release`, `Complete` and `Settle` may take effect and still throw.
So after a committed `release` whose reply was lost, another loop may claim the job and the first then
fail it under that loop (`Fail` names no holder); the properties allow for that, and a second job of the
key may then run beside it. `Release` can be refused: a job that such a loop no longer has live may
not become live again beside another of its key.

### EvalJobs against the code

| TLA+ | code |
| --- | --- |
| `runs` | `eval_generation_runs`: status, skill and `job_id` |
| `caller` with `Ask`, `Create`, `EnqueueRun`, `SelectLive`, `RecordJob` | the statements of `queueEvalGeneration`, one step each |
| `Load`, `OutOfTime`, `Refuse`, `Begin`, `OnProgress`, `Settle` | `runEvalGeneration` from its lookup to its final update |
| `GiveUp`, `Requeue`, `ReleaseRetry` | its catch: fail the run, or queue it again and release the job |
| `Throw` | an exception outside its `try`, or inside its `catch`: the loop fails the job |

`Refuse`, `Settle` and `ReleaseRetry` may commit and still throw. The generator, the provider and the
repository decide nondeterministically. A payload is the run it
names and a key is the skill; which commit is pinned and what the cases contain is left out.

### HarnessIngress and the registries against the code

| TLA+ | code |
| --- | --- |
| `Accept`, `Quarantine` | the two ends of `admit`: the store's `applyEvent`, or `record` for a body the store refuses to parse |
| `Retainable` | `record`'s refusals: retention off, an earlier record of the id, an accepted one, the cap |
| `PurgeExpired` | the one statement of `purgeExpired`, by a clock that may be late |
| `BeginActivate`, `CommitActivate` | `activate` to its read of the clock and the vault, and its transaction; `Retired` is what becomes of the replaced key |
| `BeginResolve`, `ReadKeys`, `ResolveEnds` | `resolveSecrets`: the clock, the rows, the secrets one by one |
| `until`, `barred` | history: from when a key must not verify, and what was barred when a lookup began |
| `SnapshotConfig`, `ChecksPass`, `EnableConfig` | `activate` of the connector: snapshot, attestations, comparison; `checked` is history |

`Antedates` are the ages that a submitted validity may have: `activate` takes any `notBefore` not later than
its clock. A lookup that began before a revocation may still answer with the key: nothing in the code could
prevent that. What is barred is fixed when a lookup begins, so `BarredNeverVerifies` speaks of what was barred
by then and not of a revocation between the reading of the rows and the fetching of the secrets.

### ObservedRun and TestBenchAdmission against the code

| TLA+ | code |
| --- | --- |
| `runs` | `test_bench_runs` with its intents and receipts; case i has the executor call 2i - 1 and the judge call 2i |
| `Start`, `Cancel` (`Dequeue`) | `start` and `cancel`, each one transaction with the job |
| `Examine`, `Begin`, `SnapshotInvalid` | `beginJob`: the read and the refusal of a reclaimed job, the update, the snapshot |
| `Intend`, `Send`, `Answer`, `Acknowledge` | the intent, the call, the receipt |
| `RecordCase`, `Score`, `FailRun`, `Abandon` | `recordCase`, `complete`, `fail`, and every exception |
| `sent` | history: how often each call left |
| `tx` in `TestBenchAdmission` | a call of `start` between its lock and its commit; `Plan` is the order of the ledgers |
| `ChargeNext`, `RollBack`, `Admit` | one charging statement, the rollback of all of them, the insert |

A charged ledger row stays locked to the end of its transaction, so `ChargeNext` waits for other
holders; uncommitted charges are in `used`, and nobody reads them because the row is locked. `now()` is the
start of the transaction, so a transaction charges the day on which it began. Days of the model lie in one month.
The caps are constants and the money policy is in force: that an administrator changes a cap or the policy between
two admissions is not modelled. In the checked instance only the money and NIM ledgers refuse, since their caps
are the tight ones; the theorems of section 5 hold for any caps.

### CryptoMaintenance against the code

| TLA+ | code |
| --- | --- |
| `definition` | a row of `test_bench_definitions`; `sealed` is the revision in its ciphertext's associated data, `version` the key's |
| `CreateDefinition`, `UpdateDefinition`, `ArchiveDefinition` | the store's methods; archiving moves the revision on and does not seal again |
| `ReserveOperation` … `MarkUncertain` | the executor's statements; `ExecutorDies` may come between any two |
| `RewrapNext` | one batch: rows nobody has locked, the revision each was sealed for, all or nothing |

### SkillImprovement against the code

| TLA+ | code |
| --- | --- |
| `recs` | the payload of each `improvement_recommendations` row, replaced whole by every writer |
| `work[w]` | a worker's call: its job, the content it was handed, the rows it read (`seen`) |
| `review[v]` | a reviewer's call: the payload it computed from its copy and has yet to save |
| `ClaimNextJob` … `FinishResult` | `claimOptimizationJob` and `submitOptimizationResult`, statement by statement |
| `Reject` … `RecordRelease` | the workflow's decisions, and the statements that follow one |
| `consents`, `releases`, `measured` | history: who approved what, what was staged, what an evaluation ran on |

### GitConnection against the code

| TLA+ | code |
| --- | --- |
| `secret` | the credential, named by its refresh token |
| `ReadStored`, `LockSecret`, `Refresh`, `StoreRefreshed` | `loadStoredCredential`: the first read, the read under the row lock, the provider, the write |
| `MarkAuthFailure`, `RecordValidation` | the status writes after a failure and at the end of `validateConnection` |
| `Authorize`, `UpsertConnection`, `PersistCredential` | `completeAuthorization` after the state was consumed |
| `BeginDisconnect` … `Disconnect` | `disconnectConnection`, its two delete statements apart |
| `accepted`, `spent`, `replayed`, `strays` | the provider's view of the tokens; history |

`PersistCredential` is `writeSecret` as one step: its second statement, which notes the secret's id on the
connection and may wait for that row, is folded in, and no property reads that id.

## 3. What the runs check

| run | instance | what it shows |
| --- | --- | --- |
| `controls` | quota: 5 requests for 3 runs, `MaxActive` 2, `MaxCost` 4, 3 ticks, `Lag` 1; keys: 3 versions, 2 administrators, 1 verifier, 3 ticks, valid from a tick before submission; connector: 2 administrators, 1 lookup, 2 targets, 5 revisions; git: 2 resolvers, 1 authorizer, 2 tokens, 1 mishap | `QuotaHeld`; `BarredNeverVerifies`; `ActiveWasChecked`; `TokensUsedOnce`: a refresh token is spent once however many calls find it due |
| `harness` | 1 run, 5 ticks, `Lag` 1; ingress: 6 bodies, 2 malformed ones, 3 delivery ids, cap 2; dispatch: 2 workers, 2 attempts, lease of 2 ticks | of the store under either: receipts unique and ordered, outcomes evidenced, the audit a chain with one row per receipt, settled runs final, cancellation sticks; ingress: verdicts stand; dispatch: each call has a marker and a claim of its own, a worker past the marker holds the lease or was overtaken, deadlines, refinement of `DispatchMarked` |
| `dispatch` | the dispatch part of `harness`, `Lag` 0 | at-most-once invocation, the fence, refinement of `DispatchOnce` |
| `eval_jobs` | 2 calls, 2 workers, 2 runs, 2 jobs, 2 attempts, 2 mishaps | `OneEvaluator`, `CompletedJobSettled`, `ScoredNotReopened`; `EvaluationsEnd`: every job ends, its run settled or the job failed |
| `test_bench` | queue and runs: 2 loops, 2 rows, 1 key, 2 cases, 3 mishaps; admission: 2 tenants, 2 requests, 2 calls, 2 days, money 2 a day and a month, NIM 1 | `OneHolder`, `CompletedStays`, `FailedOnlyWhenLost`, `JobsEnd` under any handler, and of observed runs; `SpendIsRecorded`, `CompletedJobEndsRun` (so a run that was started is over at last or its job has failed) and refinement of `ObservedOnce`; `LedgersAgree`, `CapsHeld`, `CallsEnd` |
| `improvement` | 2 reviewers and workers, 2 rows, 2 jobs, 2 contents, 2 approvals needed, 1 slip, 4 requests; 2 definitions, 2 approvals, 2 executors, revision 3 | `ApprovedIsValidated`, `ReleasedWasApproved`; `DefinitionsReadable`, `MaintenanceRunsOnce` |
| `stale_clock` | as `dispatch`, `Lag` 1 | *violation*, finding 1 |
| `eval_stranded`, `eval_race` | as `eval_jobs`, 3 mishaps | *violations*, findings 2 and 3 |
| `observed_stranded` | 2 runs, 1 case, 2 mishaps | *violation*, finding 4 |
| `approved_unmeasured` | 1 worker, 1 row, 1 approval needed | *violation*, finding 5 |
| `git_disconnect` | 2 resolvers, no authorizer, 3 tokens | *violation*, finding 6 |

Bounds of the harness. `MaxTime` bounds the clock and is the only guard added for finiteness; attempts are bounded by
the code, generations by attempts, invocations by claims. In the quota part, the cheap requests together exceed
the count and the dear one with any other exceeds the cost, and one key and one run id are used twice,
so each branch of `reserve` is taken. The six bodies of the ingress hold one event in two
forms, an id with another content, a sequence under another id, an outcome for each order, and a body
newer than the outcome; two malformed bodies and three ids fill the cap of two and leave a third to be
refused, and the retention of one tick lets a verdict expire and its id come again. Beside the dispatch queue the store
takes two of those events and no delivery id. The deadline (4) is inside the clock's bound and
exceeds the lease (2), so a lease expires before, at and after the deadline, a second attempt is
possible and is the last.
Two workers are enough for each race (claim against claim, old holder against new holder); the proofs
remove the bound. There is one run because runs share nothing but the tenant's lock; the proofs
cover any number. `dispatch` uses `Lag` 0 since its three properties need current readings, as `stale_clock` shows of
the first. `harness` and `stale_clock` have the same `Lag` and bounds, so the second invocation is among the
behaviours that `harness` checks: a clock that is read before a lock is waited for is caught by the one and its
consequences are bounded by the other.

Bounds of the jobs. `MaxMishaps` bounds deaths, lost replies, releases for want of time and provider errors
together; it is the only bound added, since rows, and so claims, are finite. Two rows let a
second job of the key exist beside one that ended, two loops give each race its two sides, and two mishaps are
enough for a death on each of two attempts, or a lost reply followed by a claim; the third of
`test_bench` allows a retirement after such a claim. `MAX_ATTEMPTS` is 2 instead of 4 and the retry bound 2 instead of 3, so that the last attempt
and the one before it both occur. Two cases put a judge call before an executor call. In the admission,
a tenant's second run is refused by its daily cap on the same day and by its monthly one on the next, and a second
NIM run by the fourth ledger, when three charges have to be undone.

Bounds of the rest. Two tokens let one refresh succeed and its rival find the successor, or an
authorization replace the credential under it; the counterexample run has a third. Three key versions let
a rotation replace the key that replaced one; three ticks let a grace of one end, and a lookup whose reading is
one tick older than a rotation may use the new key where one that is two older may not. A slip is a
call that dies or a lease that ends under its holder; one slip, two workers and two reviewers put
two writers on one row at any pair of statements. `MaxAsks` 4 covers request, two reviews and a
modification. `MaxRevision` 3 leaves a definition one update before its archiving. The
symmetries are over names that no operator orders; runs with liveness declare none.

Deadlock is not checked: a system whose clock has reached its bound and whose runs are settled may stop.

Fairness. None for the harness, and no liveness property there: nothing in the repository schedules
`tick` or `expireDue`, so nothing justifies that either is ever called again; that a run whose worker
died stays open until somebody calls `expireDue` is listed as a hazard. For the jobs, `Fairness`,
`EvalFairness` and `ObservedFairness` are weak fairness of each loop's steps, of the handler's return and of the end of a lease
nobody renews. The code justifies it: `apps/web/vercel.json` calls the worker route by cron, polls and
syncs start loops (`kickBackgroundJobs`), an invocation hands over to the next (`runAndContinue`), and
every function ends. Deaths, lost replies, releases, cancellations and new requests are never owed. The bound on
mishaps is part of the claim: deaths use up a job's attempts, but a release gives one back, so a provider
that fails at every trigger keeps its job live for ever (see the hazard at `runner.ts:275`). For the
admission, `AdmissionFairness` is strong fairness of each call's next statement: PostgreSQL grants a lock
in the order of its requests, and a lock that is taken and given back for ever is enabled infinitely often, not
continuously. In `MCTestBench` each fairness condition is about the step together with its `part`, so it is
vacuous where the part is another.

Mutants. Each property is paired in `PROJECT.json` with a plausible bug in a mapped definition (a
dropped comparison, an off-by-one, a missing check of the run) under which TLC finds it violated. The
mutants are the definitions whose comment begins with "Mutant".

## 4. Findings

1. With a clock read before a lock wait, `markDispatchStarted` can commit `dispatching` for a lease that
   a concurrent `claim`, reading the clock later, sees as expired; claim's upsert then returns the row to
   `leased` and the harness is invoked twice. adr-0012 line 13 says claims exclude `dispatching`.
   (`stale_clock`)
2. When the pinned revision cannot be read, the exception passes the handler by: the job fails and the run
   stays `queued` (`jobs/runner.ts` line 182); a job retired after its attempts leaves its run so too.
   Admission returns that run from then on. adr-0019 line 13 has the run fail closed and queued again,
   adr-0020 line 27 shows an error for a failed job. (`eval_stranded`)
3. Two admissions that both find no active run create one each; the second is attached to the first's job,
   which executes the first run only (`jobs/enqueue.ts` line 31). adr-0020 line 27 follows a
   created run to its completion. (`eval_race`)
4. A job retired after its last attempt leaves its observed run active, in one of the tenant's two places
   (`jobs/queue.ts` line 77); adr-0022 line 21 has an uncertain retry become a failed run. Only a
   cancellation frees the place. (`observed_stranded`)
5. The hash that admits a re-evaluation is taken from the recommendation as it is when the result arrives,
   not from what the worker was handed (`skill-intelligence/service.ts` line 751): a modification made during the
   evaluation is admitted with the scores of the content before it. `service.test.ts` line 367 speaks of
   "the exact new artifact". (`approved_unmeasured`)
6. A refresh that read the credential before a disconnection and got the lock after it finds no row, uses
   its copy and stores the successor: the connection is disconnected and has a credential
   (`git/credential-broker.ts` line 116); `git-provider-integration.md` line 154 says it is deleted.
   (`git_disconnect`)

Three divergences from the documents are in the models without a run of their own. `applyEvent` accepts an
outcome of a run that is still queued (`invocation-reservations.ts` line 243), an edge that adr-0005 line 18
does not draw. A harness whose first event arrives before `acknowledge` commits makes the run `running` while its
lease is `dispatching`, where adr-0012 line 16 has acknowledgement as the only ordinary path. A lease
that ends between the two statements of `claim` gives a job one attempt more than the `MAX_ATTEMPTS` of
`jobs/queue.ts` lines 4 to 6.

Finding 1 is a narrow window. With current readings the run `dispatch` finds no second invocation; what holds
of readings of any age, that there are never more calls than markers or than claims, is checked by `harness`
and proved in section 5.

## 5. What is proved

All theorems hold for every value of the constants that satisfies the modules' assumptions: any
numbers of runs, requests, bodies, workers and attempts, any limits and any clock bound.

Every safety invariant and every action property of a passing run is stated by a theorem about its component, but for
`AtMostOnceInvocation`, `InvokerIsFenced` and `ImplementsDispatchOnce`: they need current clock readings, which
the code does not ensure, so they are model-checked and the theorems state what holds without that.

`SumTheorems` is what the proofs about quotas and ledgers rest on: `SumAdd`, `SumRemove`, `SumSame`, `SumSubset` and
`SumInt`, for integer-valued functions on finite sets. The library's induction theorems take an operator as
a parameter, which the provers cannot instantiate; here the set of counterexamples stands for the
predicate. `LeastNumber` and `MinimalSubset` give it a smallest member, from well-foundedness of `<`
on the naturals, and `SumsExist` and `SumsAgree` refute that member.

`HarnessReservations_proofs`:
- `ReservationsTyped`: `TypeOK`. The only delicate part is `trail`, a sequence of audit rows.
- `SettledRunsAreFinal`, `CancellationsStick`: action properties, from `TypeOK` and each action's guard.
- `KeysNameOneRun`: `KeyNamesOneRun`, which no run checks. `KeyInv` adds `RowsOwned`, that a reserved row holds one of the requests and that
  the request names the row.
- `OutcomesEvidenced`, `ReceiptsConsistent`: in `ReceiptInv`, `Newest` ties the receipts to the row
  (no receipt is ahead of `latest`, which is 0 or the sequence of one; a succeeded, failed or canceled
  run has a receipt at `latest` with that status), and `Unique` and `Delivered` are the parts of
  `ReceiptsAgree`. Without `Newest` a new receipt could share its sequence with an old one.
- `QuotaAlwaysHeld`: `QuotaHeld`. `QuotaInv` adds `KeyInv` and that finitely many runs are active: a
  reservation adds one cost to the sum, which was compared with the limit, and other steps only take runs out.
- `AuditsExplain`: `AuditExplains`. `AuditInv` says that a run's receipts are finitely many, that its trail
  holds as many `applied` rows as it has receipts, that it is empty exactly when there is no row, and that each
  row of it begins where the one before ended, if it says where it begins, and the last ends at the run's status.
- `IngressKeepsStore`: `IngressSpec` implements `Spec`, so all of the above holds of the store behind the
  signed ingress; `IngressTyped`, and the action property `VerdictsAreFinal` (`VerdictsStand`)
  from it and the guards.

`HarnessDispatch_proofs`:
- `DispatchTyped` and `ClaimsBounded` (no run is claimed more than `MaxAttempts` times). The types (`TypeInv`) also
  say that at most one claim is in progress, by the tenant's lock, and that a due run has attempts left.
- `CallsMarked` (`EveryCallMarked`) and `NewestInvokersHold` (`NewestInvokerHolds`).
- `LeasesImplementMarked`: `ImplementsDispatchMarked`. It maps each run's lease and status to a phase (`Phase`), counts the
  run's markers and calls, and shows each action to be the abstract action of that name or a stutter; a claim
  is `Overtake` when the marker it overwrites stands.

All are for any number of workers, provided it is finite, and for readings of any age: no `Lag` is assumed. Neither
property is inductive, because what justifies a call is spread over the audit, the lease and the workers. `MarkInv` is
the types and four parts. `TokensFenced`: a token is at most the row's generation and two workers never hold
the same one. `MarkersCounted`: calls made and workers about to call are together at most the markers, and
markers and workers that may still mark are together at most the attempts; a step moves a worker from one count to
the other. `InvokersMarked`: a worker past the marker whose token is the row's holds it in `dispatching`; if its token is
older, a lease in `Held` stands on a later marker, so the run has two. `AcknowledgedGone`: a run
whose lease is `acknowledged` is no longer queued, so no claim finds it, and `confirmed` is not left.

Three more need none of this: `LeasesEndByDeadline` (`LeaseWithinDeadline`), in whose invariant
`DeadlineInv` a run that was claimed has a row, whose deadline is written once; and `DispatchKeepsCancellations`
(`CancelSticks`) and `DispatchKeepsSettled` (`SettledIsFinal`), action properties of the store that the workers'
writes keep as well: the run they return to late is not queued any more, and all they can add is an audit row.
`HarnessIsEither`, `HarnessTyped` and `HarnessStepsSafe` are about `MCHarness`: what it checks is a behaviour of the ingress or
of the queue. That receipts, evidence and audit are as they should be under the queue too is model-checked; the
theorems about them are about the store and its ingress.

`JobQueue_proofs`, for any numbers of rows, keys and loops:
- `QueueTyped`: `QueueTypeOK`.
- `HeldByOne`: `OneHolder`. Alone it is not inductive: a claim could take a held job. `HolderInv` adds that
  a held job is `OutOfReach`: running or failed, its lease not ended. It may have failed because of
  the lost reply described in section 2, but it is then not claimable. `Expire` keeps that since nobody may have the job.
- `CompletedForGood`: `CompletedStays`, from `HolderInv`: a held job is not complete, so a release cannot
  bring a completed one back.
- `FailuresOfLostJobs`: `FailedOnlyWhenLost`, from `LostInv`, which adds that no loop has a job whose lease ended.

`EvalJobs_proofs`, for any numbers of runs, callers, workers and mishaps, on the invariant of `JobQueue_proofs`:
- `EvaluationsTyped`: `EvalTypeOK`.
- `EvaluatedByOne` and `CompletedSettled`: `OneEvaluator` and `CompletedJobSettled`. `OneHolder` speaks of jobs;
  `EvalInv` adds `JobsOfRuns` (a run has one job at most), `OneCreator` and `Entrusted` (one caller
  at most is about to create it, of a run that was created and has none yet) and `Placed` (what the place of a worker's handler says of its run).
- `ScoredForGood`: `ScoredNotReopened`, an action property, from `EvalInv`.
- `EvaluationJobsEndSoundly`: `CompletedStays` and `FailedOnlyWhenLost` under this handler and its callers.

`Controls_proofs`, the signing keys, for any numbers of administrators and verifiers and any overlaps:
- `KeysTyped`, and `KeysStayInOrder` (at most one active and one retiring key, the active one the newest).
- `BarredKeysNeverVerify`: `BarredNeverVerifies`. The strengthening `KeysInv` has `ExpiryBoundsUse`: a key that may
  still be used expires no later than it becomes barred, although its grace was counted from a clock read
  earlier; and `CallsGoBy`: no call's reading is ahead of the clock, and what was barred when a lookup
  began was barred at its reading.

The status connector: `ConnectorTyped` and `ActiveConnectorsChecked`. `SnapshotsHold` says that an
activation carries a row that was disabled and, once its checks passed, is on their record; with the
revision in the comparison the enabled row is that very one.

The Git connection, for any number of calls, tokens and slips: `GitTyped`, and `RefreshTokensUsedOnce`
(`TokensUsedOnce`). A token is spent before its successor is stored, and the caller may die between the
two. `TokenInv` therefore follows a token from the provider to the row: a token an authorization has not saved
is nobody else's (`UnsavedIsFresh`), the row has one locker (`LockIsHeldOnce`), who presents a token that is
unspent or a stray, whose successor was lost, and is about to store one that is unspent (`HeldTokens`), and the
stored token is spent only while its successor is about to be stored, strays aside (`StoredIsUnspent`).

`ControlsImplementEach` and `ControlsTyped`: the module that checks these components beside the reservations
implements each one's specification whichever `part` steps.

`Improvement_proofs`, key maintenance: `MaintenanceTyped`; `DefinitionsStayReadable`, for which `RoomToArchive` keeps a live
row's revision below the last; and `ApprovalsRunOnce`, from `OperationsAgree` (what an operation's status says
of its batch, and that one operation at most is unfinished) and `ExecutionsAgree` (what the place of an
execution says of its operation, and that no two executions have one approval).

Skill improvement: `ImprovementTyped`, `ApprovalsSound` (`ApprovedIsValidated`) and `ReleasesApproved`
(`ReleasedWasApproved`). Neither property is inductive, since a stale copy may overwrite a row at any
time. `ImprovementInv` makes soundness a property of payloads: every payload that is stored, was read or is about to be saved
is sound (`RecOK`, `WorkOK`, `CallOK`), except that an approval being saved lacks its own author's consent
until the save gives it. Which copy wins then does not matter. `PartsImplementBoth` and `PartsTyped` are about the two
side by side.

`TestBench_proofs`, for any numbers of runs, cases, workers and mishaps, on the invariant of `JobQueue_proofs`:
- `ObservedTyped`: `ObservedTypeOK`. That a worker's next call exists follows only from its place in the run.
- `SpendRecorded`: `SpendIsRecorded`. Neither an intent nor a receipt names a worker, so the strengthening
  `CallsInv` says how far each run is (`InOrder`: its calls are confirmed, announced and sent in order, and
  announced at most one ahead of confirmed), what the place of a worker says of its run (`Placed`), that a run
  has one job (`JobsOfRuns`) and, with `OneHolder`, that one worker at most evaluates it (`OneCaller`).
- `CompletedEndsRun`: `CompletedJobEndsRun`, from `DoneInv`: a worker whose handler returned has left its run
  over, and one about to begin a run finds nobody executing it.
- `ObservedJobsEndSoundly`: `CompletedStays` and `FailedOnlyWhenLost` hold of observed runs too. This is not an instance of
  the theorems on the queue: `cancel` fails a queued job from outside it. With `HandlerLost`, which says of any
  handler that it ends no lease and no job, what is left to show is that `cancel` touches queued jobs only.
- `RunsImplementOnce`: `ImplementsOnce`. A run's page of the book (`Page`) changes by one entry or not at all.

- `AdmissionsTyped`, `LedgersAlwaysAgree` (`LedgersAgree`) and `CapsAlwaysHeld` (`CapsHeld`), for any tenants, sources,
  days, caps and costs. `AdmissionInv` adds `CallsInPlace` (what a call has charged is the beginning of its plan, and
  what its checks found still holds), `TenantsLocked` and `RowsHeldOnce` (one call of a tenant is past the lock, and a ledger row is
  charged by one open transaction, so the row it compared is the row it charges) and `RequestsOnce`. A ledger is then
  the sum over the admitted runs plus what the open transactions charged, and a charge changes one element (`SumTheorems`).
- `BenchTyped`, `BenchSafe` and `BenchStepsSafe`: type, safety invariants and action properties of the run `test_bench`, of
  the composition itself. `BenchInv` says where the runs are not the part that steps that none is started, and `OnFile`
  that a job on file has a payload, without which a completed job would say nothing of a run.

Liveness under fairness is out of these provers' reach: `JobsEnd`, `EvaluationsEnd` and `CallsEnd` are
model-checked only.

## 6. Plan

In order of weight.

1. Provider reconciliation over `HarnessDispatch`: observation, recheck, record.
2. Theorems on the findings of section 4: the assumption under which each documented claim does hold.
3. Repository synchronization: the takeover of a stale sync (`stores-db.ts`), whose failure is recorded
   without a fence.
4. The catalog's backlog and daily budgets as jobs of `JobQueue`; billing evidence and its comparison.
5. The run and AI-secret targets of the key maintenance.

## 7. Not modelled

Cryptography (signatures, digests, envelope encryption) is replaced by equality; HTTP, parsing and
validation by their outcomes; other tenants by the argument above. The database is trusted to run a
transaction atomically and to keep its row locks and constraints. Section 1 and `PROJECT.json` name the
components left out, with the reason for each.
