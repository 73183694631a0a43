# SchemaPilot in TLA+

This directory is a verification development of SchemaPilot: TLA+ modules of
the parts of the system that are hard to test, the TLC configurations that
check them on small instances, and TLAPS proofs that hold for every value of
the constants. All paths below are relative to the repository's root.

The definitions are translated from the code. Every definition that stands for
code is listed with its file and lines in `PROJECT.json` under `map`.

## 1. The system

SchemaPilot turns company data into a governed, queryable foundation. Its
processes share one metadata database (SQLite or PostgreSQL through SQLAlchemy)
and one storage root on a file system:

| process | code | scheduling |
|---|---|---|
| control plane | `backend/control_plane` | FastAPI, `async def` endpoints whose bodies are synchronous code: one body at a time on the event loop; sessions are opened, committed and closed in threads (`get_session` is a synchronous generator) |
| query gateway | `backend/gateway` | FastAPI, the same |
| worker | `backend/workers/service.py` | one loop; every poll tick is one database transaction; several replicas possible |
| AI service, UI, CLI, SDK | `backend/ai_service`, `ui`, `cli`, `sdk` | clients of the first two |

### Components, their state and operations

| component | state | operations | hard behaviour | what makes it correct |
|---|---|---|---|---|
| **Run queue and run life cycle** (`workers/service.py`, `workers/run_processor.py`, `shared_domain/scheduling.py`) | run rows, step rows, schedules, audit events | create run, create schedule, tick: enqueue due schedules, select, claim, execute steps, succeed or fail, commit | several workers on one queue; a tick's commit comes only at its end; row locks; crash between any two steps; strict ingest failing one step explicitly, any other exception implicitly | committed rows agree with steps and events; outcomes final; one run per interval; every queued run ends; workspace limit |
| **Gold publication** (`shared_domain/gold_pointer.py`, `control_plane/gating.py`, publish and rollback endpoints) | `latest.json`, `history.json`, contract reports, blocking review tasks, audit trail | publish, rollback, write report, raise and decide tasks | two files written in place outside the database transaction; the gate reads state others change; commit after the body, in a thread; crash between two writes | only gated builds served; files move as one pointer; the audit trail names what is served; rollback possible |
| **Review queue** (`control_plane/review_repository.py`) | proposals, tasks, approvals | propose, create task, decide | two reviewers decide one task; find-or-create of tasks by two processes | a blocking task blocks until decided; of two conflicting decisions the second is refused; no finding has two open tasks |
| **Discovery and ingest** (`workers/run_processor.py`, `bronze.py`, `shared_domain/connector_state.py`) | connector cursor files, bronze artifacts, catalog rows, evidence bundles, drift/PII/anomaly tasks | discover sources, ingest and profile items, drift gate | cursor file saved before the items are ingested and outside the transaction; summary overwritten before the drift task exists | no item skipped for ever; every finding reaches review; strict runs complete |
| **Audit outbox** (`shared_domain/audit_outbox.py`, `audit_sinks.py`) | outbox rows, the sink | enqueue with the audited change, dispatch a batch | emit then mark, one commit for the batch; older events fill the batch; concurrent dispatchers; timeouts; attempts used up; dispatch only after a request | every committed event delivered at least once, or marked failed; nothing delivered that was rolled back |
| **Gateway** (`gateway/app.py`, `executor.py`, `query_cache.py`, `shared_domain/rate_limit.py`) | concurrency slots, request window, answer cache | query, retrieval, simulation, explain and export; acquire and release | slots kept on early denials; the pointer read for the cache key and again for the query; the time to live starts when the query is over; the decision recorded last | slots come back; a cached answer belongs to its build and is not too old; what is answered is what the decision says |
| **Deletion and retention** (`control_plane/deletion.py`, `retention.py`, `shared_domain/purge.py`) | deletion requests, approvals, legal holds, evidence, artifacts | request, approve, reject, defer, execute, configure retention, purge | separation of duties across calls; a hold placed between approval and execution; files before commit | two persons; nothing destroyed under a hold that was there; nothing removed without a trace |
| **Policy packs and semantic manifests** (`policy_pack_service.py`, `semantic_manifest_service.py`) | active row, staged changes, canary | stage, decide, canary, promote, roll back | deciding a change twice; active row read and written without a condition; row locks on the event loop | only sound and approved versions effective; rollback leads to what was replaced |
| **Authentication and configuration** (`shared_domain/auth.py`, `config.py`) | settings, local tokens, JWKS cache of a process | start, recognise a caller by token, claims header or JWT | three sources of settings merged before validation; keys rotated while they are fetched; a fetch that fails | a caller is accepted only by what the settings name; a withdrawn key goes away; a refusal has a cause |
| **Identifiers** (`shared_domain/ids.py`) | last millisecond and counter of the process | new_ulid | several processes; clock stepping back | unique identifiers |
| Connectors and plugins | | list a source from a cursor | a plugin may honour the cursor or not | modelled as discovery sees them |
| Silver and entity resolution, AI service, catalog, source health, decision engine, secrets, UI/SDK/CLI/tools | | | pure transformations, calls to other systems, single-row reads and writes | |

### How they interact

The control plane creates runs and schedules in the database; workers poll them
there. Workers raise blocking review tasks; the control plane's publish gate
counts them. The publish endpoint moves the pointer files; the gateway reads
them on every query. All three append audit events in the transaction of the
change they tell of, and the outbox forwards those to a sink.

## 2. Plan

In order of importance. Done:

1. **RunQueue**: workers, runs, schedules. Theorems: types, truthful rows; for a
   single worker also final outcomes, the step DAG, one run per interval.
2. **GoldPublish** and the abstract **GoldPointer** it implements. Theorems:
   types, only gated builds served; until the first fault also the audit trail
   and the refinement of GoldPointer.
3. **AuditOutbox**: overlapping dispatches, a sink that times out after
   accepting, a commit that comes only at the end of a batch. Theorems: types,
   truthful marks. What it promises its callers is `MarksTruthful` and
   `EventsSettle`; an abstract module would only repeat them.
4. **Gateway**: slots through every way out of the endpoints, cache and pointer,
   decisions.
5. **DiscoverIngest**: cursor, items, artifacts, findings, strict runs.
6. **ChangeControl**: review decisions, policy packs and semantic manifests on
   one event loop with row locks and threads that commit.
7. **Deletion**: requests, holds, purges.
8. **Authentication**: settings, tokens, JWKS cache.

Every safety and action property a passing run checks is also a theorem; what
the runs check beyond them is liveness (section 6).

Left:

* the Trino executor and the export of the gateway; source freshness and its
  review tasks; identifiers of two processes; two control-plane processes sharing
  the pointer files; the key rotation that makes evidence bundles unreadable;
* reference definitions for the pure algorithms: schedule expressions, scoring
  of decisions, entity-resolution clustering;
* theorems of what is added.

Modules to be proved about use no `RECURSIVE` operators, take all parameters as
`CONSTANTS` with named assumptions, and have one action per operation.

## 3. Modules

| module | models |
|---|---|
| `RunQueue`, `RunQueueProofs`, `MCRunQueue` | the worker's tick, runs, steps, audit events, schedules; proofs; constants of the checked instances |
| `GoldPointer` | abstract: an atomic pointer with its log |
| `GoldPublish`, `GoldPublishProofs` | publish and rollback as the code does them; proofs |
| `AuditOutbox`, `AuditOutboxProofs` | the outbox of one service and its dispatches; proofs |
| `Gateway`, `GatewayProofs`, `MCGateway` | the query gateway of one process; proofs; callers, datasets and manifests of the instance |
| `ChangeControl`, `ChangeControlProofs`, `MCChangeControl` | review tasks, policy packs, semantic manifests; proofs; symmetry of the instance |
| `Deletion`, `DeletionProofs`, `MCDeletion` | deletion requests, retention policy, purge; proofs; symmetry of the instance |
| `DiscoverIngest`, `DiscoverIngestProofs`, `MCDiscoverIngest` | a discover run; proofs; sources and contents of the instance |
| `Authentication`, `AuthenticationProofs`, `MCAuthentication` | settings and callers of one process; proofs; settings files, keys and tokens of the instance |

How they fit together: RunQueue says when a discover run starts and how its
outcome is committed, DiscoverIngest what its steps do; the tasks it raises are
the `open` tasks GoldPublish's gate counts and the ones ChangeControl decides.
GoldPublish moves the pointer that Gateway reads; a crash of its writer is
Gateway's `TruncatePointer` without `WritePointer`. ChangeControl makes packs and
manifests active, Gateway reads what is active (`ChangePack`, `ChangeManifest`).
Authentication yields the claims that Gateway takes as given (`Claims`).

Operators whose comment begins with "Mutant of" are the definition that follows
them with one plausible bug. No specification uses them; replacing the original
by them must break the property named in `PROJECT.json`, which shows that the
property depends on the code being right.

### RunQueue

One worker tick (`process_queued_runs_once`) is one transaction. `db` holds
committed run rows with their steps and events, `buf[w]` the rows worker `w` has
written and not committed, `locks` the row locks; `View(w)` is what a session
of `w` reads at READ COMMITTED. `nextRun`, `bufNext` and `schedLocks` are the
same for schedules.

| action | code |
|---|---|
| `CreateRun`, `CreateRunSchedule` | `api_create_run`, `create_run_schedule`: one committed transaction each |
| `BeginTick`, `EnqueueDueRun`, `FinishEnqueue` | `enqueue_due_scheduled_runs`: read the due schedules, then insert runs and advance `next_run_epoch` in the flush |
| `SelectRun`, `SelectNothing` | `process_next_queued_run`: oldest queued run of a workspace below its limit |
| `ClaimRun` | `process_run_by_id`, start of `_process_queued_run`: the test of the status uses the row already loaded; the UPDATE waits for the lock and has no condition |
| `StartStep`, `SucceedStep` | `_start_step`, `_succeed_step` through the step chain of the run's type |
| `FailStrictIngest` | `_fail_step` and `StrictIngestCompletenessError` |
| `RaiseInStep`, `RaiseUpFront` | any other exception, in a step or before any; `_ensure_failed_run_step` blames one |
| `FinishRun`, `CommitTick` | success of the run; the one commit of the tick |
| `Abort`, `DeadlockVictim`, `Restart` | crash or exception outside the run's handler; the database's deadlock victim; the supervisor |

Abstractions: what a step does to catalog and files is left out; a step may
succeed or raise at any time, which covers it. The step DAGs are chains in the
code (`RUN_STEP_DEFINITIONS`), so a step is its position. Time counts minutes,
the smallest schedule interval. A ULID is a number that grows; an id given up by
a rollback may be used again, which stands for a host with a late clock.

### GoldPublish and GoldPointer

`loop` is the request whose body the event loop runs. The body of a publish reads
the contract report, counts the open tasks (`count`) and reads `latest.json`
(`load_latest`), each a step of its own, as workers and reviewers commit in
between; `gate` is what it knows so far, the report and then the verdict. Both
bodies go on through `open_latest`, `write_latest`, `load_history` (a publish
only), `compare`, `write_history`, `audit`, and leave the loop; the transaction
commits later (`commit`). Opening a file for writing truncates it: until the write the file
holds `Torn`, and a crash leaves it so. `open` counts committed open blocking
tasks by subject; workers raise and reviewers decide them at any time. `told` is
the pointer named by the newest committed audit event, in the order of event
ids. The ghost `cleared` collects the builds whose contracts a publish has read as
passed and for which it then found no blocking task, evaluated from what was read
and not from the gate's answer, so a wrong gate shows.

| action | code |
|---|---|
| `WriteReport`, `RaiseTask`, `DecideTask` | `write_build_contract_report`, `_create_blocking_review_task_if_missing` committed, `decide_review_task` committed |
| `StartPublish`, `CountTasks`, `LoadLatest`, `LatestUnreadable` | `api_publish_build` up to the pointer: `load_build_contract_report`, `unresolved_blocking_task_count` and `evaluate_gold_publish_gate`, `load_latest_gold_pointer` |
| `RefusePublish` | the ways out of a shut gate, with `ensure_contract_failure_review_task`: the task is looked for by the build and its failures (`ContractFailures`), for which the hash of the evidence bundle stands |
| `Rollback` | `api_rollback_build` and the search of `rollback_gold_pointer`; a history that cannot be read, or has no such build, is answered "not found" and changes nothing |
| `OpenLatest` .. `WriteHistory` | `publish_gold_pointer`, `rollback_gold_pointer`, `_load_history`, `_write_history` |
| `AppendAudit`, `Commit`, `RequestFails`, `HistoryUnreadable` | `append_audit_event`, `get_session` |
| `Crash` | death and restart of the control-plane process |

`GoldPointer` is what callers of `gold_pointer.py` rely on: `current` and `log`
move in one step, until something has `failed`; from then on it promises nothing.
`GoldPublish` implements it, with faults, under the mapping of `AtomicPointer`:
while a body is writing, the abstract state is what the body started from, so each
body is one abstract step, taken at its last write, and the first fault is the
abstract failure.

### AuditOutbox

`status` and `attempts` are the committed columns of the outbox rows of one
service; `batch`, `read` and `mark` are the session of each dispatching thread:
the rows it has still to emit, the counts it has read, and what it will write.
`tries` (counted up to `MaxAttempts`) and `accepted` record what has happened at
the sink. Failures and crashes are not bounded.

| action | code |
|---|---|
| `CommitEvent` | `enqueue_audit_outbox_event`, committed with the change it tells of |
| `BeginDispatch`, `Eligible`, `FirstBatch` | the SELECT of `dispatch_audit_outbox_batch`; its LIMIT leaves the younger events to a later dispatch |
| `Accept`, `Refuse` | one turn of its loop: `sink.emit` returns, or raises one of the three listed exceptions, whether or not the sink has taken the event |
| `CommitMarks` | its one commit: the count read plus one for each emitted row, the status only where the session has changed it |
| `DispatchFails` | any other exception, in `emit` or at the commit; `get_session` logs it and goes on |
| `Crash` | death of the process |

A request starts a dispatch when it ends, so `BeginDispatch` may happen at any
time. A SELECT that finds nothing changes nothing and is left out. Threads of the
control plane overlap; the gateway runs the same dispatch in a middleware on its
event loop, which is the instance with one dispatcher. All dispatches update
rows in primary-key order, so their commits cannot deadlock in the database. In
`inline` mode there is no outbox, and nothing here applies.

### Gateway

A body is synchronous code in an `async def` endpoint, so one request (`req`) is
in a body at a time; clock, pointer, pack and manifest change between any two of
its reads. `inflight` and `counts` are the limiter's, `cache` the answer cache
with what each entry says. `early` counts the slots lost since the last start,
`served` the last time each build was the published one, `took` how long the query
of a cache entry ran: ghosts for the properties.

| action | code |
|---|---|
| `TurnAway`, `Admit`, `Simulate` | authentication, `evaluate_access`, `try_acquire`; `policy_simulate` |
| `DenyBinding`, `DenyDatasets`, `DenySemanticQuery`, `DenyAbac`, `DenyEntitlement`, `RaiseEarly` | the ways out between `try_acquire` and the `try` block, where the slot stays taken |
| `Bind`, `Bindable` | `bind_semantic_query` and the datasets it may read: reads the active manifest; a human's SQL passes as it is |
| `BuildKey`, `ServeHit`, `Miss` | `_build_query_cache_key`, which reads the pointer for the first time; `QueryCache.get` |
| `PrepareViews` | `_prepare_published_gold_views` of the DuckDB executor, which reads the pointer again; the query runs from here to `Store` |
| `Store`, `FailExecution` | row filter, masks, `QueryCache.set`, which takes the time the entry expires from its own reading of the clock; the `finally` that releases |
| `BeginSearch`, `Search`, `FailSearch` | the retrieval backends and `_apply_retrieval_row_filter` |
| `DenyAnswer`, `Answer`, `FailAudit`, `Deny`, `Respond` | budgets and provenance checked after the answer is cached; `_record_access_decision` and the response |
| `Restart` | process death: limiter and cache are in memory |
| `Tick`, `TruncatePointer`, `WritePointer`, `ChangePack`, `ChangeManifest` | clock and control plane |

Rows are abstracted to what an answer depends on: text, build, pack, region,
masks, documents. SQL safety checks succeed or fail at will (`FailExecution`).

### ChangeControl

A body runs alone on the event loop (`loop`), writes rows that stay locked
(`txn[r].sent`), and is committed later by a thread the loop starts. `Flush` is
the UPDATE that waits while another session has the row locked: if that session's
commit has still to be handed over by the loop, the loop stands still until
`Restart`. `contended` collects what two open sessions wrote at the same time:
there a state may lose a change, which `UndoLeadsToPredecessor` excepts, and two
reviewers may both be heard, which `ConflictingDecisionRejected` says must not
happen. A row keeps the target it was staged with and nothing looks at its status,
so the later half of a decision may take the row as it stands for the one the
session has read.

| action | code |
|---|---|
| `RequestPackChange`, `RequestManifestChange`, `CreateProposal` | staging with a blocking task |
| `DecideReviewTask`, `DecidePackChange`, `DecideManifestChange` | `decide_review_task`, which looks at no status, takes a word it does not know for "defer" in the task (`Verdict`) and keeps it as it came in the approval row; the first half of the two decision endpoints |
| `ApplyChange`, `DeclineChange`, `StartCanary` | the second half, with `NextState` of the effective row, `Sound` for pack tests and manifest validation |
| `PromoteCanary`, `RollBackPack`, `RollBackManifest` | the endpoints of these names |
| `Flush`, `HandOver`, `Commit`, `Fail`, `Restart` | session, thread, exceptions, process death |

### Deletion

Each request has its own session and may run on any replica: bodies interleave at
every database read and every file. A session keeps the row it has read; an
UPDATE writes the columns whose value differs from that (`Changed`).

| action | code |
|---|---|
| `SubmitDeletion`, `BeginApproval`, `Decide` | `submit_deletion_request`, `approve_deletion_request`: separation of duties on the row read, hold looked up for approvals |
| `BeginExecution`, `CheckHold` .. `MarkExecuted` | `execute_deletion_request`: hold, status, report, evidence, attestation, status |
| `ConfigurePolicy`, `BeginPurge`, `Scan`, `Unlink`, `StorePurgeEvidence` | `configure_retention_policy`, `execute_retention_purge`, `purge_workspace_artifacts` |
| `Send`, `CommitDeletion`, `CommitPolicy`, `CommitPurge`, `Fail` | flush with its row lock, commit, any exception |
| `WriteArtifact`, `Age` | workers and time |

### DiscoverIngest

One run at a time; its database writes commit at its end, whatever its status,
its file writes at once. Owners edit and delete source files between any two of
the four readings an item takes (hash, copy, profile, personal data). `bundles` and
`broken` say of each run what it left unfinished: the items in its completeness
bundle, or those it had failed on when it broke off before storing one.

A cursor is the greatest time stamp listed. In the code it is a string, the time
stamp to the millisecond and the path (`connector_state.py:55`); two files of one
millisecond, or one file edited twice in it, are not modelled.

| action | code |
|---|---|
| `Start`, `Discover`, `DiscoveryFails`, `NextSource` | `_process_discover_run`, connectors, `save_connector_state` before the items |
| `BeginItem`, `Copy`, `WriteManifest` | `_find_existing_artifact`, copy and manifest of `bronze.py` |
| `Profile`, `DetectPii`, `ReviewDrift`, `ReviewAnomalies` | profile overwritten, then the three reviews; a task is found or created (`Standing`, `Raised`); without previous columns (`NoColumns`, an empty file) there is no drift |
| `ItemFails`, `ItemFault` | the exception handler of an item |
| `StoreCompleteness`, `Commit`, `BreakOff`, `Crash` | completeness evidence, strict failure; quota (before or between the items), timeout, a bundle that cannot be stored, a later step (`Breakable`); death |
| `DecideTask`, `Edit` | reviewers, owners |

### Authentication

`LoadedSettings` merges defaults, environment and file in the code's order with
what each parser does to text that does not fit; `Start` admits only settings
that pass `validate`. `LocalToken`, `ClaimsHeader` and `BearerToken` are the
three modes of `auth.py`; a JWT goes on through `UseCachedKeys`, `BeginFetch`,
`FetchKeys` to `Verify`, or ends in `FetchNoKeys` (a refusal) or `FetchRaises` (an
exception `_fetch_jwks_keys` does not catch: an internal error). The entry of the cache expires a time
to live after the time read before the fetch. `served` and `absent` record when
the provider served each key. Text fields of a settings file are given as text: a
list or number there passes `_coerce_config_override` (`config.py:500`), and what
the service then does with it is not modelled (`NumbersAssumption`).

## 4. Runs

| run | expected | question | result |
|---|---|---|---|
| `run_single` | pass | one worker, a crash at any point, runs of every kind and a schedule: are step rows the trace of one pass, is a schedule served once per interval, are outcomes final | yes |
| `run_two` | pass | two workers on one queue, with row locks, crashes and a database deadlock: are committed rows truthful, does every queued run end | yes |
| `gold` | pass | with crashes and failed audits, is anything served that was not cleared; until the first of them, are the two files one atomic pointer, and does the audit trail name it | no; yes |
| `gold_race` | violation | is no blocking task open when a publish moves the pointer | no: finding 1 |
| `outbox` | pass | two dispatches on one outbox whose batches are full, with time-outs, failures and crashes: are marks truthful, is every event sent or given up | yes; yes, unless dispatches fail for ever |
| `gateway` | pass | a human and an AI caller while pointer, pack, manifest and clock move: which slots are lost, is an answer what its decision says, how old is a cached one | exactly those of early ends; yes; less than the time to live and the time its query took |
| `changes` | pass | two sessions that stage, decide, apply, promote and roll back: is only what was approved and sound effective, does rollback lead to the predecessor | yes; yes, but for two sessions writing the same state at the same time |
| `change_conflict` | violation | is the second of two conflicting decisions refused | no: finding 3 |
| `deletion` | pass | deletions and purges with failures anywhere: two persons, evidence, holds | yes |
| `ingest` | pass | discover runs over files that change, with failing items, crashes and reviewers: what does a strict run promise, what may a cursor pass, do findings reach review | yes, with the exceptions the properties name |
| `drift_lost` | violation | does every drift generate a review task | no: finding 2 |
| `auth` | pass | settings from three sources, callers of three modes, keys that rotate: who is recognised, by which keys, why is a caller refused | as documented |

Deadlock is checked in every run but `outbox`, `changes`, `change_conflict`,
`deletion`, `ingest` and `drift_lost`, which really end: every event is settled,
the requests of the bound are used up, or the runs are; and in `changes` the event
loop may block itself for ever (see findings).

### Bounds, and why they are enough

* `run_single`: one worker, two workspaces, two client runs of three types (the
  chain of four steps, a refresh that is switched off, an unknown type), one
  schedule over two minutes, one crash: a crash can fall between any two steps
  of any run, and the schedule falls due twice, once with and once without a
  lost tick before it.
* `run_two`: two workers, two client runs and one scheduled run, up to two runs
  a tick, one crash besides deadlocks. Both workers can overlap on one run, one
  can hold a run the other waits for, and each can wait for the other.
* `gold`: two builds with two snapshots each, two requests at once, four in all:
  enough for publish, publish, rollback and publish again, with commits in either
  order. Two reports let both builds pass, or one fail after it has passed. Two
  faults: a publish meets what a crash left, and fails once more.
* `outbox`: three events, a batch of two, two attempts, two dispatchers: the LIMIT
  cuts an event off behind two older ones, which may use up their attempts, be
  selected again while another dispatch has them, or lose their counts any number
  of times; an event can be selected by both, succeed in one and fail in the
  other, with either commit last.
* `gateway`: two callers (an analyst of one region who may come back as a steward
  without one, and an AI reader entitled to a dataset of this workspace and to one
  of another), three datasets, manifests that read none, one or two of them (of two
  regions), two builds, a cache of one entry, two
  slots, two requests a minute, two minutes, three moves of the world: slots run
  out, windows change, entries expire and are evicted, and the pointer or
  the clock moves between the two reads of a request and while its query runs.
* `changes`, `change_conflict`: three packs and two manifests, one of each unsound, two sessions,
  five requests of which three may stage: a change can be decided twice, applied
  over another, promoted from a canary and rolled back, with two sessions open.
* `deletion`: two actors, one file, two sessions, four requests: file, approve,
  execute and one more (a second decision, a hold, a purge) with any overlap.
* `ingest`: a folder and a plugin that honours its cursor, one file each, three
  contents: one with personal data and an anomaly, one with other columns that
  decodes as latin-1 only, one without columns; the plugin's file starts as the
  first (`MCSpec`), the other as any; two runs, two edits, one decision,
  one fault: a second run meets what the first left, changed once between.
* `auth`: one symmetric key and one that cannot verify, tokens in and out of
  time, settings files that override one another, two rotations over three ticks
  with a time to live of two.

`MaxApiRuns`, `MaxRunId`, `MaxEpoch`, `MaxCrashes` (RunQueue), `MaxRequests`,
`MaxTasks`, `MaxReports`, `MaxFaults` (GoldPublish), `MaxEvents` (AuditOutbox),
`MaxClock`, `MaxMoves` (Gateway, Authentication), `MaxRequests`,
`MaxTasks` (ChangeControl), `MaxRequests`, `MaxWrites` (Deletion) and `MaxRuns`,
`MaxEdits`, `MaxDecisions`, `MaxFaults` (DiscoverIngest) are bounds of the
exploration, guards that the code does not have. The theorems hold for every
value of them. `MaxConcurrent`, `MaxRequests`, `MaxEntries` and `Ttl` of Gateway,
`MaxBatch` and `MaxAttempts` of AuditOutbox are settings of the program.

### Fairness

* RunQueue: `run_forever` loops for ever and the supervisor restarts a worker
  that died (weak fairness of `WorkerStep`). A database grants a row lock in the
  order it was asked for, so a worker that waits in `ClaimRun` gets it when the
  lock becomes free again and again (strong fairness of `ClaimRun`). Nothing is
  assumed of clients, of the clock or of crashes, which are bounded.
* AuditOutbox: a dispatch that has begun goes on, because its thread is scheduled
  and `emit` times out after three seconds (weak fairness of `DispatchStep`).
  Whether another request comes is up to clients, and whether dispatches come
  through is up to sink and database, so `EventsSettle` names both as its premise
  (`DispatchesComeThrough`): if dispatches keep being started and from some time on
  neither raise nor die, then every event settles. A sink that refuses an event for
  ever satisfies it; one that raises an unlisted exception for ever does not (see
  findings).
* DiscoverIngest: the loops over sources and items are sequential code (weak
  fairness of `Ingest`); nothing is assumed of owners, reviewers or failures.
* GoldPublish, Gateway, ChangeControl, Deletion and Authentication state safety only.

`gold_race`, `change_conflict` and `drift_lost` are refuted by finite prefixes that
fairness does not cut short.

## 5. Findings

Each of the three is a violation run whose counterexample follows the code step by
step.

1. A blocking task committed between the gate's count and the pointer write does
   not block the publish (`control_plane/app.py:1361`; `spec/10_PHASES_AND_TASKS.md:561`).
2. A drift without a review task: the profiler reads a file as latin-1 where the
   personal-data reader insists on UTF-8, so the summary of the dataset is
   overwritten and the item fails before its drift is looked at
   (`run_processor.py:735`; `spec/10_PHASES_AND_TASKS.md:423`).
3. Two reviewers who approve and reject one task at the same time are both heard:
   both approval rows are committed, and the later one decides the status
   (`review_repository.py:108`; the optimistic concurrency of
   `spec/10_PHASES_AND_TASKS.md:521-523`).

Met while modelling, and allowed by the modules, but without a run of their own:

* A run can be executed twice by two workers and its outcome overwritten: the
  status test uses the row loaded before the lock (`run_processor.py:189`). The
  limit of active runs per workspace does not hold over workers (`:159`).
* A crash while `history.json` is rewritten makes every rollback fail from then
  on (`gold_pointer.py:98`). Publishing the newest build again with another
  snapshot is served and not recorded (`:39`). When the audit write or the commit
  fails, the request is refused and the new pointer stays
  (`control_plane/app.py:1399`).
* An event can be emitted more often than `max_attempts` times: an exception
  outside the three listed, or a crash, loses the counts of the batch
  (`audit_outbox.py:105`).
* Concurrency slots of requests refused or broken off between `try_acquire` and
  the `try` block are lost until the process restarts (`gateway/app.py:255` to
  505, 1003 to 1128). `SlotsAccounted` says these are the only ones, and
  `LockedOutUntilRestart` what follows; both are proved.
* An event whose emission raises such an exception every time takes its batch with
  it every time, and keeps itself and every event after it pending.
* A cached answer can be older than the time to live, by as long as its query ran
  (`query_cache.py:47`).
* A key server whose answer is cut off (`http.client.HTTPException`) turns into an
  internal error instead of a refusal (`auth.py:300`).
* Two sessions that change the effective state of a kind at the same time can lose
  a change, or skip it at a rollback (`policy_pack_service.py:199`,
  `semantic_manifest_service.py:169`). A deletion request that is executed twice at
  once may share one attestation, and a hold set after the request has read it does
  not stop it (`deletion.py:184`); the properties of Deletion allow both.
* A body that waits for a row lock on the event loop waits for ever if the loop
  has still to hand over the commit of the session that holds it; only a restart
  or the database's lock timeout ends it (`review_repository.py:108`).
* The runbook's OIDC example asks for RS256 (`spec/12_RUNBOOK.md:106`), but
  `_verify_jwt_signature` knows HMAC algorithms only: such a token is always
  refused.
* Each evaluation of a stale source raises another blocking task, because the
  test for an open one looks for the proposal it has just created
  (`source_health.py:135`).
* The semantic drift gate of a run reads the key `semantic_manifest`, while the
  service stores `manifest`: it never fires, and is left out of DiscoverIngest.
* A policy pack is read from its file again when it is applied, under the
  checksum of the request (`policy_pack_service.py:147`).
* After a rotation of the encryption key, storing an evidence bundle that exists
  raises, as the stored envelope differs (`evidence_store.py:69`).

The findings on two workers need two worker processes, which the Helm chart
allows and every rolling update produces for a while.

## 6. Proofs

From the named assumptions on the constants only, for all their values:

* `RunQueueTyped`, `RunsTruthful`: `Spec => []TypeOK`,
  `Spec => []CommittedRunsTruthful`. The property says nothing of rows in
  execution or pending in a session, from which the next commit copies; the
  inductive invariant `IInv` adds them. `PendingRows`: a row a worker has locked
  is either the run it executes, with every step before its position succeeded
  (`Active`), or fit to commit (`Settled`). `ClaimsHeld`: the worker that
  executes a run holds its lock. Lemmas about row updates (`StartRunActive`,
  `SucceedStepActive`, `FailRunSettled`, `SucceedRunSettled`) carry the content;
  `EnsureFailedStepBlames` shows the blame rule always leaves a failed step.
  The theorem includes the behaviours in which a run is executed twice: it is
  still truthful about its last execution.
* `SingleWorkerOutcomeFinal`: with at most one worker,
  `Spec => OutcomeIsFinal`. Needs `Unsettled`: what the worker has locked or
  selected is not yet finished in the database. With two workers it is false.
* `SingleWorkerStepsFollowDag`, `SingleWorkerOneRunPerInterval`: with at most one
  worker, the steps of a row are the trace of one pass, and a schedule enqueues
  one run per interval. `TraceInv` follows the row in execution: nothing behind
  its position was tried twice, nothing from it on has been touched, and what the
  worker lets go is a trace again. `ScheduleInv` counts: the committed runs of a
  schedule fit below its next due time (`ScheduleRoom`), and a pending tick adds
  one run and moves that time by one interval, both or neither (`ScheduleWork`),
  so that a tick lost anywhere loses both. Two workers break all three: each may
  load the same queued run or due schedule before the other has the lock.
* `GoldPublishTyped`, `GoldServesOnlyCleared`. `IInv` adds `BodiesCleared`
  (target and loaded history of a body in flight are cleared) and `BodiesAim` (a
  writing body has a target), which is what survives every interleaving of
  crashes, torn files and failed commits.
* `GoldAuditTrail`: until the first fault, the newest committed event names what
  is served whenever no request is under way. `GoldImplementsPointer`:
  `Spec => ImplementsAtomicPointer`, each step of a body being a stutter or, at its
  last write, one step of GoldPointer, and a fault its failure. Both rest on
  `FaultFree`, which holds as long as there is no fault: one body has the loop (`OneBody`), outside it the files are whole (`FilesWhole`)
  and inside they are as its control point says (`BodiesInStep`); event numbers
  follow the order of the bodies (`NumbersInOrder`), not that of the commits, so
  the highest number among the events committed and still to be committed names
  the pointer (`NewestEventNames`). A failed audit or a torn file breaks either
  (section 5), so neither can promise more. They assume a pointer list is never
  the torn file: `Torn` is outside `Seq(Pointers)`, as a JSON text cut off does
  not parse.
* `OutboxTyped`, `OutboxMarksTruthful`. The rows alone are not inductive: a
  commit copies what a session has read long before. `IInv` adds what each
  session may know of each event (`Knows`): a stale count is never more than the
  emissions there have been, an event marked "sent" is in the sink, and a
  selected event is committed and was below the maximum when it was read.
* `GatewaySlotsAccounted`, `GatewayLockout`. The invariant `SlotInv` ties the
  limiter to the shape of the request (`ReqShape`: who has it, and whether the
  `try` block has been entered). There are four ways a step may treat the slot
  (kept, acquired, released, lost), each a lemma, and every action is one of
  them. The lock-out follows: lost slots only grow, and never exceed the limit.
* `GatewayAnswersAsAudited`. `AnswerInv`: the key of a request is its caller's
  and pack's (`KeyMatches`), and every cache entry is fit for the caller and pack
  its key names (`EntriesAudited`), so a hit is fit for whoever has that key.
* `GatewayEntriesOfTheirBuild`, `GatewayStaleAtMostTtl`. `KeyOfPointer`: the
  build of the key is the published one as long as the pointer has not moved;
  `AgeInv`: an entry expires at the latest `Ttl`, and the time its query took, after
  its build was last seen published, and the build of a running query was the
  published one when its pointer was read.
* `GatewayTyped`. `TypeInv` follows caller, text, pack and build from the request
  (`RequestTyped`) into the cache (`CacheTyped`), which is finite, so that evicting
  one entry makes room for one.
* `DeletionNeedsTwo`, `DeletionAttested`. The committed rows are not inductive:
  a session writes what it established at an earlier read. `Approving` and
  `Filing` say what that is in every phase, and `Grows` why it lasts: approvals
  and files are only added, and a request keeps its requester.
* `DeletionHoldStops`: `HoldInv`, a request that arrived under a hold that still
  stands is in no phase that writes evidence or removes files; numbers of
  requests are unique (`Numbered`), so what others write does not count for it.
* `DeletionRemovals`: `PurgeInv`, a purge under way has found what it removed.
* `DeletionTyped`. `SessionTyped` says what each phase of a session has in hand;
  that a session finds the newest policy needs `Greatest`: a nonempty set of
  numbers up to a bound has a greatest, by well-founded induction on its subsets.
* `OnlyApprovedIsEffective`. A session writes effective states, canaries and
  statuses it has not committed, next to the decision that allows them.
  `ChangeInv`: whatever a session has written or is about to write rests on
  approvals that are committed or its own (`Backed`), changes keep their target
  (`OwnChange`), and the numbers of open sessions are unique, so that no commit
  takes the ground from under another session (`CommitKeeps`).
* `ChangeControlTyped`, `UndoKeepsPredecessor`.
  `RecordInv`: what two open sessions both write is `contended` (`Exclusive`), so
  for the rest what a session read when it wrote is still committed when it
  commits: the state it replaces is the one it remembers as previous
  (`StateWrites`), and there is one effective row of a kind (`OneRowPerKind`).
* `AuthenticationTyped`, `WithdrawnKeysExpire`, `RefusalsHaveCause`,
  `BuiltInTokensReplaced`, `HeaderNeedsTrust`. `KnownUntil`: each key of a set was
  served, and each missing key was not, late enough for the time a cache entry or a
  request keeps the set; it survives rotation and time because the histories only
  grow, and a fetch establishes it whatever passed since its clock was read
  (`FetchKeysKeeps`). `ProcessOfBoot` says settings and tokens are those of the
  environment and file of the start. `NumbersAssumption` (a parsed number is a
  number) is all that is asked of them.
* `FindingsAreAsked`, `ManifestsTellTruth`, `StrictRunsComplete`. A run knows what
  it has not committed, so each invariant speaks of its record. `SurfaceInv`: what a
  profile changed is raised, asked about already, blamed on an item this very run
  failed on or still to be looked at, and items the run has not profiled are as committed
  (`PendingUntouched`). `ArtifactInv`: copies have their own numbers, what is about
  to be copied is not there, and what is about to be described is the one copy the
  description fits. `CompleteInv`: what was found is to do, in work, done or a
  failure.
* `PassedFilesAccountedFor`. The cursor is saved before the items are read, so the
  committed state alone says nothing of a file just passed: `PassedInv` adds that
  the run in progress has found it and will get it in or see it missed
  (`PassedInRun`), that it will not list its source again (`InHand`), and that the
  clock of time stamps is ahead of files and cursors (`Clocked`), so that an edit
  takes a file out of what is passed. The new cursor is the greatest time stamp
  listed (`Greatest` again, `NextCursorMovesOn`).
* `IngestTyped`. `TypeInv` types the record of the run by phase (`RunTyped`) and
  what it has raised (`FindingOK`).

TLC checked the inductive invariants on small instances before they were proved.
The theorems with a hypothesis are the three of a single worker, as in the run that
checks the properties. Without it the properties are false: TLC finds the
violations with two workers and no crash.

Only model-checked: liveness (`QueuedRunsFinish`, `EventsSettle`, `RunsEnd`), which
is out of the prover's reach, and the three violations of section 5, which are counterexamples.

## 7. Not modelled

* The Trino executor and the export of the gateway: they need a Trino server and
  share limiter and decisions with what is modelled.
* Source freshness (`source_health.py`), catalog, scoring of recommendations:
  reads and writes of single rows; the one error met there is listed above.
* Secrets and artifact encryption: one file with one writer, and a pure function
  of payload and key.
* Identifiers: unique, and ordered within a process, in every module.
* Silver, entity resolution and indexing: called by tests and tools, not by the
  run processor; transformations of data without state of their own.
* The AI service, UI, SDK, CLI, tools, migrations: clients, packaging, and calls
  to a language model.

Simplifications to know of: the control plane of GoldPublish and ChangeControl
is one process, the default of every deployment file; a session's rows are those
of PostgreSQL at READ COMMITTED, of whose behaviours SQLite with one writer shows
a subset; an in-place file write is a truncation and one write; in DiscoverIngest
evidence bundles are written whole, files that turn up with an older or an equal
time stamp and changes of a source's scope do not happen, and reviewers' tasks of other
origin are not shown; policy pack files and the encryption key do not change.
