------------------------------ MODULE RunQueue ------------------------------
(***************************************************************************)
(* The worker's run queue: backend/workers/service.py (one poll tick is    *)
(* one database transaction), the run lifecycle of                         *)
(* backend/workers/run_processor.py and the scheduler of                   *)
(* backend/shared_domain/scheduling.py.                                    *)
(*                                                                         *)
(* The metadata database is modelled at READ COMMITTED with row locks: a   *)
(* worker reads committed rows and its own pending writes; its first       *)
(* UPDATE or INSERT of a row takes the row's lock until commit or          *)
(* rollback, and an UPDATE of a row locked by somebody else waits.  SQLite *)
(* (one writer at a time) has a subset of these behaviours: a writer that  *)
(* times out waiting is an Abort.                                          *)
(*                                                                         *)
(* Time is counted in minutes, the granularity of a schedule.              *)
(***************************************************************************)
EXTENDS Naturals, Sequences, FiniteSets

CONSTANTS
    Workers,          \* worker processes (replicas, or old and new pod of a rollout)
    NoWorker,         \* "nobody": the holder of a free row lock
    MaxRunId,         \* bound: run ids are 1..MaxRunId, in ULID order
    MaxApiRuns,       \* bound: runs requested through the control plane
    Workspaces,
    NoWorkspace,
    ApiRunTypes,      \* run types clients ask for (the API validates nothing)
    Schedules,        \* schedule ids, naturals > 0 in primary-key order
    ScheduleWorkspace,
    ScheduleRunType,
    Interval,         \* interval of a schedule, in minutes
    Never,            \* next_run_epoch of a schedule that is absent or disabled
    RefreshEnabled,   \* SCHEMAPILOT_MATERIALIZED_REFRESH_ENABLED
    MaxRunsPerTick,   \* SCHEMAPILOT_WORKER_MAX_RUNS_PER_TICK
    WorkspaceLimit,   \* SCHEMAPILOT_WORKER_MAX_ACTIVE_PER_WORKSPACE
    MaxEpoch,         \* bound on the clock
    MaxCrashes        \* bound on rollbacks and worker deaths

Runs == 1..MaxRunId

\* Run types with a step DAG; any other string is accepted by the API too.
StepTypes == {"discover", "semantic_bootstrap", "materialize_refresh"}

RunTypes == StepTypes \cup {"other"}

ASSUME RunQueueAssumption ==
    /\ NoWorker \notin Workers
    /\ MaxRunId \in Nat
    /\ MaxApiRuns \in Nat
    /\ NoWorkspace \notin Workspaces
    /\ ApiRunTypes \subseteq RunTypes
    /\ Schedules \subseteq Nat \ {0}
    /\ ScheduleWorkspace \in [Schedules -> Workspaces]
    /\ ScheduleRunType \in [Schedules -> RunTypes]
    /\ Interval \in [Schedules -> Nat \ {0}]
    /\ Never \notin Nat
    /\ RefreshEnabled \in BOOLEAN
    /\ MaxRunsPerTick \in Nat \ {0}
    /\ WorkspaceLimit \in Nat \ {0}
    /\ MaxEpoch \in Nat
    /\ MaxCrashes \in Nat

VARIABLES
    now,        \* wall clock, minutes
    db,         \* committed run row of every id, with its steps and audit events
    nextRun,    \* committed next_run_epoch of every schedule
    locks,      \* which worker holds the row lock of a run
    schedLocks, \* which worker holds the row lock of a schedule
    buf,        \* pending (uncommitted) run rows of each worker's session
    bufNext,    \* pending next_run_epoch of each worker's session
    pc,         \* where each worker is in its tick
    due,        \* schedules read as due and not yet written
    seenNow,    \* the time a worker read when its tick began
    cur,        \* the run a worker selected; 0 for none
    pos,        \* the step (1-based) a worker's run has come to
    processed,  \* runs a worker has processed in this tick
    crashes     \* rollbacks so far

vars == <<now, db, nextRun, locks, schedLocks, buf, bufNext, pc, due, seenNow,
          cur, pos, processed, crashes>>

-----------------------------------------------------------------------------
(* Run rows *)

StepStatus == {"queued", "running", "succeeded", "failed"}

StepRows == [status : StepStatus, attempts : Nat]

Events == {"run.started", "run.succeeded", "run.failed"}

Rows == [status : {"absent", "queued", "running", "succeeded", "failed"},
         ws     : Workspaces \cup {NoWorkspace},
         type   : RunTypes,
         sched  : Schedules \cup {0},   \* the schedule that enqueued it; 0: the API
         steps  : Seq(StepRows),
         events : Seq(Events)]

NoRow == [status |-> "absent", ws |-> NoWorkspace, type |-> "other",
          sched |-> 0, steps |-> <<>>, events |-> <<>>]

NewRow(ws, t, s) == [status |-> "queued", ws |-> ws, type |-> t,
                     sched |-> s, steps |-> <<>>, events |-> <<>>]

\* Number of entries of RUN_STEP_DEFINITIONS: every DAG is a chain, so a step
\* is its position and depends on the position before it.
StepCount(t) == CASE t = "discover" -> 4
                  [] t \in {"semantic_bootstrap", "materialize_refresh"} -> 3
                  [] OTHER -> 0

\* Mutant of NewSteps: a status the readers of the table do not know.
NewStepsPending(t) == [k \in 1..StepCount(t) |-> [status |-> "pending", attempts |-> 0]]

NewSteps(t) == [k \in 1..StepCount(t) |-> [status |-> "queued", attempts |-> 0]]

\* The step rows of a run are created by its first execution and found again
\* by a later one.
EnsureSteps(row) == IF row.steps # <<>> THEN row.steps ELSE NewSteps(row.type)

SetStep(row, k, status) == [row EXCEPT !.steps[k].status = status]

BeginStep(row, k) ==
    [row EXCEPT !.steps[k] = [status |-> "running", attempts |-> @.attempts + 1]]

\* Mutant of BlamedStep: always the first step.
BlamedFirstStep(steps, k) == k = 1

\* When an exception leaves a run without a failed step: the running step is
\* blamed, or else the first one.
BlamedStep(steps, k) ==
    IF \E j \in DOMAIN steps : steps[j].status = "running"
    THEN /\ steps[k].status = "running"
         /\ \A j \in DOMAIN steps : steps[j].status = "running" => k <= j
    ELSE k = 1

\* Mutant of EnsureFailedStep: nobody is blamed.
EnsureNoFailedStep(steps) == steps

EnsureFailedStep(steps) ==
    IF \E j \in DOMAIN steps : steps[j].status = "failed"
    THEN steps
    ELSE [k \in DOMAIN steps |->
            IF BlamedStep(steps, k) THEN [steps[k] EXCEPT !.status = "failed"]
                                    ELSE steps[k]]

StartRun(row) == [row EXCEPT !.status = "running",
                             !.steps  = EnsureSteps(row),
                             !.events = Append(@, "run.started")]

SucceedRun(row) == [row EXCEPT !.status = "succeeded",
                               !.events = Append(@, "run.succeeded")]

FailRun(row) == [row EXCEPT !.status = "failed",
                            !.steps  = EnsureFailedStep(@),
                            !.events = Append(@, "run.failed")]

-----------------------------------------------------------------------------
(* The database as one session sees it *)

View(w) == [r \in Runs |-> IF locks[r] = w THEN buf[w][r] ELSE db[r]]

\* Ids no committed or pending row uses.
FreeIds == {r \in Runs : db[r].status = "absent" /\ locks[r] = NoWorker}

\* new_ulid() grows with the clock: the next id is the smallest unused one.  An
\* id given up by a rollback may be taken again, which stands for a host whose
\* clock is behind: its id sorts before ids that are already in the table.
IsNextId(r) == r \in FreeIds /\ \A q \in FreeIds : r <= q

RunningCount(view, ws) ==
    Cardinality({r \in Runs : view[r].status = "running" /\ view[r].ws = ws})

\* Mutant of Candidates: failed runs are polled again.
CandidatesWithFailed(view) ==
    {r \in Runs : /\ view[r].status \in {"queued", "failed"}
                  /\ RunningCount(view, view[r].ws) < WorkspaceLimit}

\* Mutant of Candidates: the candidate itself counts against the limit.
CandidatesOffByOne(view) ==
    {r \in Runs : /\ view[r].status = "queued"
                  /\ RunningCount(view, view[r].ws) + 1 < WorkspaceLimit}

\* Queued runs whose workspace is below its limit.
Candidates(view) ==
    {r \in Runs : /\ view[r].status = "queued"
                  /\ RunningCount(view, view[r].ws) < WorkspaceLimit}

ApiRunCount == Cardinality({r \in Runs : db[r].status # "absent" /\ db[r].sched = 0})

-----------------------------------------------------------------------------
Init ==
    /\ now = 0
    /\ db = [r \in Runs |-> NoRow]
    /\ nextRun = [s \in Schedules |-> Never]
    /\ locks = [r \in Runs |-> NoWorker]
    /\ schedLocks = [s \in Schedules |-> NoWorker]
    /\ buf = [w \in Workers |-> [r \in Runs |-> NoRow]]
    /\ bufNext = [w \in Workers |-> [s \in Schedules |-> Never]]
    /\ pc = [w \in Workers |-> "idle"]
    /\ due = [w \in Workers |-> {}]
    /\ seenNow = [w \in Workers |-> 0]
    /\ cur = [w \in Workers |-> 0]
    /\ pos = [w \in Workers |-> 1]
    /\ processed = [w \in Workers |-> 0]
    /\ crashes = 0

txnVars == <<locks, schedLocks, buf, bufNext>>
workerVars == <<pc, due, seenNow, cur, pos, processed>>

\* Mutant of NextDue: the schedule does not move on.
NextDueUnmoved(s, t) == t

\* next_run_epoch of a schedule that is created, or was found due, at time t.
NextDue(s, t) == t + Interval[s]

(* The control plane *)

\* POST /workspaces/{id}/runs: one request, one committed transaction.
CreateRun ==
    /\ ApiRunCount < MaxApiRuns
    /\ \E r \in Runs, ws \in Workspaces, t \in ApiRunTypes :
          /\ IsNextId(r)
          /\ db' = [db EXCEPT ![r] = NewRow(ws, t, 0)]
    /\ UNCHANGED <<now, nextRun, txnVars, workerVars, crashes>>

\* POST /workspaces/{id}/run-schedules with enabled = true.  A disabled one is
\* never due, like one that does not exist.
CreateRunSchedule(s) ==
    /\ nextRun[s] = Never
    /\ nextRun' = [nextRun EXCEPT ![s] = NextDue(s, now)]
    /\ UNCHANGED <<now, db, txnVars, workerVars, crashes>>

PassTime ==
    /\ now < MaxEpoch
    /\ now' = now + 1
    /\ UNCHANGED <<db, nextRun, txnVars, workerVars, crashes>>

-----------------------------------------------------------------------------
(* A worker tick *)

\* The tick opens a session and reads which schedules are due.
BeginTick(w) ==
    /\ pc[w] = "idle"
    /\ pc' = [pc EXCEPT ![w] = "enqueue"]
    /\ due' = [due EXCEPT ![w] = {s \in Schedules :
                                    nextRun[s] # Never /\ nextRun[s] <= now}]
    /\ seenNow' = [seenNow EXCEPT ![w] = now]
    /\ processed' = [processed EXCEPT ![w] = 0]
    /\ UNCHANGED <<now, db, nextRun, txnVars, cur, pos, crashes>>

\* The flush writes each due schedule, in primary-key order: it inserts a run
\* and advances next_run_epoch from the time read at the start of the tick.
EnqueueDueRun(w) ==
    /\ pc[w] = "enqueue"
    /\ \E s \in due[w], r \in Runs :
          /\ \A s2 \in due[w] : s <= s2
          /\ schedLocks[s] = NoWorker
          /\ IsNextId(r)
          /\ schedLocks' = [schedLocks EXCEPT ![s] = w]
          /\ bufNext' = [bufNext EXCEPT ![w][s] = NextDue(s, seenNow[w])]
          /\ locks' = [locks EXCEPT ![r] = w]
          /\ buf' = [buf EXCEPT ![w][r] =
                        NewRow(ScheduleWorkspace[s], ScheduleRunType[s], s)]
          /\ due' = [due EXCEPT ![w] = @ \ {s}]
    /\ UNCHANGED <<now, db, nextRun, pc, seenNow, cur, pos, processed, crashes>>

FinishEnqueue(w) ==
    /\ pc[w] = "enqueue"
    /\ due[w] = {}
    /\ pc' = [pc EXCEPT ![w] = "select"]
    /\ UNCHANGED <<now, db, nextRun, txnVars, due, seenNow, cur, pos, processed, crashes>>

\* process_next_queued_run: the oldest queued run whose workspace is below its
\* limit.  The row is only read: nothing is locked yet.
SelectRun(w) ==
    /\ pc[w] = "select"
    /\ processed[w] < MaxRunsPerTick
    /\ \E r \in Candidates(View(w)) :
          /\ \A q \in Candidates(View(w)) : r <= q
          /\ cur' = [cur EXCEPT ![w] = r]
    /\ pc' = [pc EXCEPT ![w] = "claim"]
    /\ UNCHANGED <<now, db, nextRun, txnVars, due, seenNow, pos, processed, crashes>>

SelectNothing(w) ==
    /\ pc[w] = "select"
    /\ processed[w] >= MaxRunsPerTick \/ Candidates(View(w)) = {}
    /\ pc' = [pc EXCEPT ![w] = "commit"]
    /\ UNCHANGED <<now, db, nextRun, txnVars, due, seenNow, cur, pos, processed, crashes>>

\* process_run_by_id tests the status of the row object already loaded by the
\* SELECT, which still says "queued"; the UPDATE to "running" then waits for
\* the row's lock and carries no condition on the status it overwrites.
ClaimRun(w) ==
    /\ pc[w] = "claim"
    /\ locks[cur[w]] \in {NoWorker, w}
    /\ locks' = [locks EXCEPT ![cur[w]] = w]
    /\ buf' = [buf EXCEPT ![w][cur[w]] = StartRun(View(w)[cur[w]])]
    /\ pos' = [pos EXCEPT ![w] = 1]
    /\ pc' = [pc EXCEPT ![w] = "exec"]
    /\ UNCHANGED <<now, db, nextRun, schedLocks, bufNext, due, seenNow, cur, processed, crashes>>

CurRow(w) == buf[w][cur[w]]

\* _execute_run raises before any step: unknown type, or refresh switched off.
RefusedUpFront(row) ==
    \/ row.type \notin StepTypes
    \/ row.type = "materialize_refresh" /\ ~RefreshEnabled

StartStep(w) ==
    /\ pc[w] = "exec"
    /\ ~RefusedUpFront(CurRow(w))
    /\ pos[w] <= Len(CurRow(w).steps)
    /\ buf' = [buf EXCEPT ![w][cur[w]] = BeginStep(@, pos[w])]
    /\ pc' = [pc EXCEPT ![w] = "step"]
    /\ UNCHANGED <<now, db, nextRun, locks, schedLocks, bufNext, due, seenNow,
                   cur, pos, processed, crashes>>

SucceedStep(w) ==
    /\ pc[w] = "step"
    /\ buf' = [buf EXCEPT ![w][cur[w]] = SetStep(@, pos[w], "succeeded")]
    /\ pos' = [pos EXCEPT ![w] = @ + 1]
    /\ pc' = [pc EXCEPT ![w] = "exec"]
    /\ UNCHANGED <<now, db, nextRun, locks, schedLocks, bufNext, due, seenNow,
                   cur, processed, crashes>>

\* The run of worker w ends with row; the tick looks for another one.
EndRun(w, row) ==
    /\ buf' = [buf EXCEPT ![w][cur[w]] = row]
    /\ processed' = [processed EXCEPT ![w] = @ + 1]
    /\ pc' = [pc EXCEPT ![w] = "select"]
    /\ UNCHANGED <<now, db, nextRun, locks, schedLocks, bufNext, due, seenNow,
                   cur, pos, crashes>>

\* Strict ingest found missing items: the step is failed explicitly, then
\* StrictIngestCompletenessError is raised.
FailStrictIngest(w) ==
    /\ pc[w] = "step"
    /\ CurRow(w).type = "discover"
    /\ pos[w] = 2
    /\ EndRun(w, FailRun(SetStep(CurRow(w), pos[w], "failed")))

\* Any other exception inside a step: time-out, quota, no source, I/O error.
RaiseInStep(w) ==
    /\ pc[w] = "step"
    /\ EndRun(w, FailRun(CurRow(w)))

RaiseUpFront(w) ==
    /\ pc[w] = "exec"
    /\ RefusedUpFront(CurRow(w))
    /\ EndRun(w, FailRun(CurRow(w)))

FinishRun(w) ==
    /\ pc[w] = "exec"
    /\ ~RefusedUpFront(CurRow(w))
    /\ pos[w] > Len(CurRow(w).steps)
    /\ EndRun(w, SucceedRun(CurRow(w)))

\* The session is closed: locks and pending rows are gone.
CloseSession(w) ==
    /\ locks' = [r \in Runs |-> IF locks[r] = w THEN NoWorker ELSE locks[r]]
    /\ schedLocks' = [s \in Schedules |-> IF schedLocks[s] = w THEN NoWorker
                                                               ELSE schedLocks[s]]
    /\ buf' = [buf EXCEPT ![w] = [r \in Runs |-> NoRow]]
    /\ bufNext' = [bufNext EXCEPT ![w] = [s \in Schedules |-> Never]]
    /\ due' = [due EXCEPT ![w] = {}]
    /\ seenNow' = [seenNow EXCEPT ![w] = 0]
    /\ cur' = [cur EXCEPT ![w] = 0]
    /\ pos' = [pos EXCEPT ![w] = 1]
    /\ processed' = [processed EXCEPT ![w] = 0]

CommitTick(w) ==
    /\ pc[w] = "commit"
    /\ db' = View(w)
    /\ nextRun' = [s \in Schedules |-> IF schedLocks[s] = w THEN bufNext[w][s]
                                                            ELSE nextRun[s]]
    /\ CloseSession(w)
    /\ pc' = [pc EXCEPT ![w] = "idle"]
    /\ UNCHANGED <<now, crashes>>

\* A crash, or an exception outside the run's own handler (lost connection,
\* lock time-out, duplicate key): rollback, and run_forever dies of it.
Abort(w) ==
    /\ pc[w] \notin {"idle", "down"}
    /\ crashes < MaxCrashes
    /\ crashes' = crashes + 1
    /\ CloseSession(w)
    /\ pc' = [pc EXCEPT ![w] = "down"]
    /\ UNCHANGED <<now, db, nextRun>>

\* The worker whose row lock w is waiting for.
BlockedBy(w, v) ==
    \/ pc[w] = "claim" /\ v # w /\ locks[cur[w]] = v
    \/ /\ pc[w] = "enqueue" /\ v # w
       /\ \E s \in due[w] : (\A s2 \in due[w] : s <= s2) /\ schedLocks[s] = v

\* Workers wait for one another in a circle: the database picks a victim, whose
\* statement fails; the session rolls back and the worker dies.
DeadlockVictim(w) ==
    /\ \E S \in SUBSET Workers :
          /\ w \in S
          /\ \A v \in S : /\ \E u \in S : BlockedBy(u, v)
                          /\ \E u \in S : BlockedBy(v, u)
    /\ CloseSession(w)
    /\ pc' = [pc EXCEPT ![w] = "down"]
    /\ UNCHANGED <<now, db, nextRun, crashes>>

\* The supervisor (Kubernetes Deployment) starts the process again.
Restart(w) ==
    /\ pc[w] = "down"
    /\ pc' = [pc EXCEPT ![w] = "idle"]
    /\ UNCHANGED <<now, db, nextRun, txnVars, due, seenNow, cur, pos, processed, crashes>>

-----------------------------------------------------------------------------
\* What a worker process does by itself.
WorkerStep(w) ==
    \/ BeginTick(w) \/ EnqueueDueRun(w) \/ FinishEnqueue(w)
    \/ SelectRun(w) \/ SelectNothing(w) \/ ClaimRun(w)
    \/ StartStep(w) \/ SucceedStep(w)
    \/ FailStrictIngest(w) \/ RaiseInStep(w) \/ RaiseUpFront(w) \/ FinishRun(w)
    \/ CommitTick(w) \/ DeadlockVictim(w) \/ Restart(w)

Next ==
    \/ CreateRun
    \/ \E s \in Schedules : CreateRunSchedule(s)
    \/ PassTime
    \/ \E w \in Workers : WorkerStep(w) \/ Abort(w)

Spec == Init /\ [][Next]_vars

\* run_forever loops for ever and the supervisor restarts a dead worker; a row
\* lock is granted in the order it was asked for, so a worker that waits for one
\* gets it (strong fairness).
FairSpec ==
    /\ Spec
    /\ \A w \in Workers : WF_vars(WorkerStep(w)) /\ SF_vars(ClaimRun(w))

-----------------------------------------------------------------------------
(* Properties *)

\* Every variable has its type.
TypeOK ==
    /\ now \in Nat
    /\ db \in [Runs -> Rows]
    /\ nextRun \in [Schedules -> Nat \cup {Never}]
    /\ locks \in [Runs -> Workers \cup {NoWorker}]
    /\ schedLocks \in [Schedules -> Workers \cup {NoWorker}]
    /\ buf \in [Workers -> [Runs -> Rows]]
    /\ bufNext \in [Workers -> [Schedules -> Nat \cup {Never}]]
    /\ pc \in [Workers -> {"idle", "enqueue", "select", "claim", "exec", "step",
                           "commit", "down"}]
    /\ due \in [Workers -> SUBSET Schedules]
    /\ seenNow \in [Workers -> Nat]
    /\ cur \in [Workers -> Runs \cup {0}]
    /\ pos \in [Workers -> Nat \ {0}]
    /\ processed \in [Workers -> Nat]
    /\ crashes \in Nat

\* What a run row tells its readers.  A succeeded run has every step of its DAG
\* succeeded and ends its audit trail with run.succeeded; a failed one names a
\* failed step (if its type has steps at all) and ends with run.failed; a
\* queued one has left no trace.
TruthfulRow(row) ==
    /\ row.status = "succeeded" =>
          /\ Len(row.steps) = StepCount(row.type)
          /\ \A k \in 1..Len(row.steps) : row.steps[k].status = "succeeded"
          /\ row.events # <<>> /\ row.events[Len(row.events)] = "run.succeeded"
    /\ row.status = "failed" =>
          /\ Len(row.steps) = StepCount(row.type)
          /\ row.steps = <<>> \/ \E k \in 1..Len(row.steps) : row.steps[k].status = "failed"
          /\ row.events # <<>> /\ row.events[Len(row.events)] = "run.failed"
    /\ row.status \in {"queued", "absent"} => row.steps = <<>> /\ row.events = <<>>

\* Whatever workers crash, block or overlap, a committed run is never left in
\* "running" and its status agrees with its steps and its audit events
\* (run_processor.py _process_queued_run, service.py commit and rollback).
CommittedRunsTruthful ==
    \A r \in Runs : db[r].status # "running" /\ TruthfulRow(db[r])

\* An executed step had every step before it succeeded (the DAG of
\* RUN_STEP_DEFINITIONS), and no step of a finished run is still running: with
\* one worker the step rows are the trace of a single pass through the DAG.
StepsFollowDag ==
    \A r \in Runs : \A k \in 1..Len(db[r].steps) :
        /\ db[r].steps[k].attempts <= 1
        /\ db[r].steps[k].status # "running"
        /\ db[r].steps[k].attempts > 0 =>
              \A j \in 1..(k - 1) : db[r].steps[j].status = "succeeded"

\* A run that has succeeded or failed is never touched again: the outcome a
\* client has read stays (service.py polls only queued runs).
OutcomeIsFinal ==
    [][\A r \in Runs : db[r].status \in {"succeeded", "failed"} => db'[r] = db[r]]_vars

\* A schedule enqueues at most one run per interval, whatever crashes between
\* inserting the run and advancing next_run_epoch (enqueue_due_scheduled_runs).
OneRunPerInterval ==
    \A s \in Schedules :
        Interval[s] * Cardinality({r \in Runs : db[r].sched = s}) <= now

\* Every queued run is eventually executed to an outcome, however the polls of
\* several workers block one another and whichever of them crash.
QueuedRunsFinish ==
    \A r \in Runs : db[r].status = "queued" ~> db[r].status \in {"succeeded", "failed"}
====
