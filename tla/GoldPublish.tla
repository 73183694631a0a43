---------------------------- MODULE GoldPublish ----------------------------
(***************************************************************************)
(* Publishing and rolling back gold builds: the two endpoints of           *)
(* backend/control_plane/app.py, the gate of gating.py, the pointer files  *)
(* of backend/shared_domain/gold_pointer.py and the blocking review tasks  *)
(* of review_repository.py, for one workspace.                             *)
(*                                                                         *)
(* An endpoint body is synchronous code in an async function: the bodies   *)
(* of one control plane exclude one another.  Its database transaction is  *)
(* committed after the body, in a thread, so other bodies may run in       *)
(* between; workers commit review tasks at any time.  Pointer files are    *)
(* written in place (truncate, then write), outside any transaction.       *)
(***************************************************************************)
EXTENDS SequencesExt

CONSTANTS
    Builds,
    Snapshots,    \* snapshot_id of the publish payload
    NoPointer,
    Torn,         \* contents of a file cut off between truncate and write
    Requests,     \* requests the control plane handles at the same time
    Nobody,       \* the event loop is free
    Pipeline,     \* subject of the blocking tasks workers raise (drift, PII, ...)
    NoSubject,
    MaxRequests,  \* bound on publish and rollback requests
    MaxTasks,     \* bound on the open tasks of workers
    MaxReports,   \* bound on the contract reports written
    MaxFaults     \* bound on crashes and on failed audit writes and commits

Pointers == [build : Builds, snapshot : Snapshots]

\* A contract failure is told by its build and its failures: the proposal of the
\* task is looked for under the evidence bundle that holds them.
ContractFailures == [build : Builds, failures : {"missing", "failed"}]

Subjects == ContractFailures \cup {Pipeline}

ASSUME GoldPublishAssumption ==
    /\ NoPointer \notin Pointers
    /\ Torn \notin Pointers \cup {NoPointer} \cup Seq(Pointers)
    /\ Nobody \notin Requests
    /\ Pipeline \notin ContractFailures
    /\ NoSubject \notin Subjects
    /\ MaxRequests \in Nat
    /\ MaxTasks \in Nat
    /\ MaxReports \in Nat
    /\ MaxFaults \in Nat

VARIABLES
    report,     \* contracts/<workspace>/<build>.json
    open,       \* committed open blocking review tasks of every subject
    latest,     \* _published/latest.json
    history,    \* _published/history.json
    loop,       \* the request whose body the event loop is running
    pc,         \* where each request is
    op,         \* what each request does
    number,     \* arrival number of a request: its audit event id sorts by it
    target,     \* pointer a body moves to, or would; NoPointer for none
    gate,       \* the report a publish has read, then the verdict of its gate
    loaded,     \* history a body has read
    before,     \* pointer a body replaces
    task,       \* subject of a task a request has inserted and not committed
    told,       \* the committed pointer event with the highest id
    cleared,    \* builds that have passed the publish gate
    requests,   \* requests so far
    reports,    \* reports written so far
    faults      \* faults so far

files == <<latest, history>>
bodyVars == <<op, number, target, gate, loaded, before, task>>
counters == <<requests, reports, faults>>

vars == <<report, open, files, loop, pc, bodyVars, told, cleared, counters>>

-----------------------------------------------------------------------------
Init ==
    /\ report = [b \in Builds |-> "missing"]
    /\ open = [x \in Subjects |-> 0]
    /\ latest = NoPointer
    /\ history = <<>>
    /\ loop = Nobody
    /\ pc = [q \in Requests |-> "idle"]
    /\ op = [q \in Requests |-> "none"]
    /\ number = [q \in Requests |-> 0]
    /\ target = [q \in Requests |-> NoPointer]
    /\ gate = [q \in Requests |-> "none"]
    /\ loaded = [q \in Requests |-> <<>>]
    /\ before = [q \in Requests |-> NoPointer]
    /\ task = [q \in Requests |-> NoSubject]
    /\ told = [number |-> 0, pointer |-> NoPointer]
    /\ cleared = {}
    /\ requests = 0
    /\ reports = 0
    /\ faults = 0

\* unresolved_blocking_task_count is 0.
AllResolved == \A x \in Subjects : open[x] = 0

\* Mutant of GateVerdict: without blocking tasks nobody looks at the contracts.
GateVerdictTasksFirst(q) ==
    CASE AllResolved -> "clear"
      [] gate[q] # "passed" -> gate[q]
      [] OTHER -> "blocked"

\* evaluate_gold_publish_gate; a missing report is a contract failure.
GateVerdict(q) ==
    CASE gate[q] # "passed" -> gate[q]
      [] gate[q] = "passed" /\ ~AllResolved -> "blocked"
      [] OTHER -> "clear"

-----------------------------------------------------------------------------
(* Around the endpoints *)

\* The build pipeline writes the contract report of a build, again after a fix.
WriteReport(b, verdict) ==
    /\ reports < MaxReports
    /\ reports' = reports + 1
    /\ report' = [report EXCEPT ![b] = verdict]
    /\ UNCHANGED <<open, files, loop, pc, bodyVars, told, cleared, requests, faults>>

\* A worker commits a tick that found drift, PII, an anomaly or missing items.
RaiseTask ==
    /\ open[Pipeline] < MaxTasks
    /\ open' = [open EXCEPT ![Pipeline] = @ + 1]
    /\ UNCHANGED <<report, files, loop, pc, bodyVars, told, cleared, counters>>

\* Mutant of DecideTask: a task can be decided twice.
DecideTaskAgain(x) ==
    /\ open' = [open EXCEPT ![x] = @ - 1]
    /\ UNCHANGED <<report, files, loop, pc, bodyVars, told, cleared, counters>>

\* POST review_tasks/{id}/decision: approve, reject and defer all resolve it.
DecideTask(x) ==
    /\ open[x] > 0
    /\ open' = [open EXCEPT ![x] = @ - 1]
    /\ UNCHANGED <<report, files, loop, pc, bodyVars, told, cleared, counters>>

-----------------------------------------------------------------------------
(* The body of an endpoint *)

\* Mutant of Enter: the body does not wait for the event loop.
EnterAtOnce(q, kind, next) ==
    /\ pc[q] = "idle"
    /\ requests < MaxRequests
    /\ requests' = requests + 1
    /\ number' = [number EXCEPT ![q] = requests + 1]
    /\ op' = [op EXCEPT ![q] = kind]
    /\ pc' = [pc EXCEPT ![q] = next]
    /\ loop' = q

Enter(q, kind, next) ==
    /\ loop = Nobody
    /\ EnterAtOnce(q, kind, next)

\* POST builds/{build_id}/publish: first the contract report of the build is read.
StartPublish(q, p) ==
    /\ Enter(q, "publish", "count")
    /\ target' = [target EXCEPT ![q] = p]
    /\ gate' = [gate EXCEPT ![q] = report[p.build]]
    /\ UNCHANGED <<report, open, files, loaded, before, task, told, cleared, reports, faults>>

\* Then unresolved_blocking_task_count, and the gate.
CountTasks(q) ==
    /\ pc[q] = "count"
    /\ gate' = [gate EXCEPT ![q] = GateVerdict(q)]
    /\ cleared' = IF gate[q] = "passed" /\ AllResolved
                  THEN cleared \cup {target[q].build} ELSE cleared
    /\ pc' = [pc EXCEPT ![q] = "load_latest"]
    /\ UNCHANGED <<report, open, files, loop, op, number, target, loaded, before, task,
                   told, counters>>

\* load_latest_gold_pointer, and the gate is open.
LoadLatest(q) ==
    /\ pc[q] = "load_latest"
    /\ latest # Torn
    /\ gate[q] = "clear"
    /\ pc' = [pc EXCEPT ![q] = "open_latest"]
    /\ UNCHANGED <<report, open, files, loop, bodyVars, told, cleared, counters>>

\* The gate is shut: after a contract failure ensure_contract_failure_review_task
\* inserts a blocking task, unless one is open for the same failures.
RefusePublish(q) ==
    /\ pc[q] = "load_latest"
    /\ latest # Torn
    /\ gate[q] # "clear"
    /\ LET failure == [build |-> target[q].build, failures |-> gate[q]]
       IN  task' = IF gate[q] # "blocked" /\ open[failure] = 0
                   THEN [task EXCEPT ![q] = failure] ELSE task
    /\ target' = [target EXCEPT ![q] = NoPointer]
    /\ pc' = [pc EXCEPT ![q] = "audit"]
    /\ UNCHANGED <<report, open, files, loop, op, number, gate, loaded, before, told,
                   cleared, counters>>

\* POST builds/{build_id}/rollback: the last entry of the build.  An unreadable
\* history, or one without the build, is answered "not found".
Rollback(q, b) ==
    /\ history # Torn
    /\ \E i \in DOMAIN history :
          /\ history[i].build = b
          /\ \A j \in DOMAIN history : history[j].build = b => j <= i
          /\ target' = [target EXCEPT ![q] = history[i]]
    /\ loaded' = [loaded EXCEPT ![q] = history]
    /\ Enter(q, "rollback", "open_latest")
    /\ UNCHANGED <<report, open, files, gate, before, task, told, cleared, reports, faults>>

OpenLatest(q) ==
    /\ pc[q] = "open_latest"
    /\ before' = [before EXCEPT ![q] = latest]
    /\ latest' = Torn
    /\ pc' = [pc EXCEPT ![q] = "write_latest"]
    /\ UNCHANGED <<report, open, history, loop, op, number, target, gate, loaded, task,
                   told, cleared, counters>>

WriteLatest(q) ==
    /\ pc[q] = "write_latest"
    /\ latest' = target[q]
    /\ pc' = [pc EXCEPT ![q] = IF op[q] = "publish" THEN "load_history" ELSE "compare"]
    /\ UNCHANGED <<report, open, history, loop, bodyVars, told, cleared, counters>>

\* Only a publish reads the history at this point.
LoadHistory(q) ==
    /\ pc[q] = "load_history"
    /\ history # Torn
    /\ loaded' = [loaded EXCEPT ![q] = history]
    /\ pc' = [pc EXCEPT ![q] = "compare"]
    /\ UNCHANGED <<report, open, files, loop, op, number, target, gate, before, task,
                   told, cleared, counters>>

\* A publish compares builds with the newest entry, a rollback whole pointers.
AlreadyNewest(q) ==
    /\ loaded[q] # <<>>
    /\ IF op[q] = "publish" THEN Last(loaded[q]).build = target[q].build
                            ELSE Last(loaded[q]) = target[q]

SkipHistory(q) ==
    /\ pc[q] = "compare"
    /\ AlreadyNewest(q)
    /\ pc' = [pc EXCEPT ![q] = "audit"]
    /\ UNCHANGED <<report, open, files, loop, bodyVars, told, cleared, counters>>

OpenHistory(q) ==
    /\ pc[q] = "compare"
    /\ ~AlreadyNewest(q)
    /\ history' = Torn
    /\ pc' = [pc EXCEPT ![q] = "write_history"]
    /\ UNCHANGED <<report, open, latest, loop, bodyVars, told, cleared, counters>>

WriteHistory(q) ==
    /\ pc[q] = "write_history"
    /\ history' = Append(loaded[q], target[q])
    /\ pc' = [pc EXCEPT ![q] = "audit"]
    /\ UNCHANGED <<report, open, latest, loop, bodyVars, told, cleared, counters>>

\* append_audit_event succeeds and the body returns.
AppendAudit(q) ==
    /\ pc[q] = "audit"
    /\ pc' = [pc EXCEPT ![q] = "commit"]
    /\ loop' = Nobody
    /\ UNCHANGED <<report, open, files, bodyVars, told, cleared, counters>>

-----------------------------------------------------------------------------
(* The end of a request *)

\* The requests in S are over: their sessions are closed.
Close(S) ==
    /\ pc' = [q \in Requests |-> IF q \in S THEN "idle" ELSE pc[q]]
    /\ op' = [q \in Requests |-> IF q \in S THEN "none" ELSE op[q]]
    /\ number' = [q \in Requests |-> IF q \in S THEN 0 ELSE number[q]]
    /\ target' = [q \in Requests |-> IF q \in S THEN NoPointer ELSE target[q]]
    /\ gate' = [q \in Requests |-> IF q \in S THEN "none" ELSE gate[q]]
    /\ loaded' = [q \in Requests |-> IF q \in S THEN <<>> ELSE loaded[q]]
    /\ before' = [q \in Requests |-> IF q \in S THEN NoPointer ELSE before[q]]
    /\ task' = [q \in Requests |-> IF q \in S THEN NoSubject ELSE task[q]]

\* Mutant of EventPointer: a rollback leaves no event.
EventPointerOfPublish(q) == IF op[q] = "publish" THEN target[q] ELSE NoPointer

\* The pointer the request's audit event tells of.
EventPointer(q) == target[q]

Commit(q) ==
    /\ pc[q] = "commit"
    /\ open' = [x \in Subjects |-> IF x = task[q] THEN open[x] + 1 ELSE open[x]]
    /\ told' = IF EventPointer(q) # NoPointer /\ number[q] > told.number
               THEN [number |-> number[q], pointer |-> EventPointer(q)] ELSE told
    /\ Close({q})
    /\ UNCHANGED <<report, files, loop, cleared, counters>>

\* An exception: the session rolls back, the files stay as they are.
Raise(q) ==
    /\ Close({q})
    /\ loop' = IF loop = q THEN Nobody ELSE loop
    /\ UNCHANGED <<report, open, files, told, cleared, requests, reports>>

\* json.loads raises on a file cut off earlier: latest.json before the gate's
\* verdict is acted on, history.json after latest.json has been rewritten.
LatestUnreadable(q) ==
    /\ pc[q] = "load_latest"
    /\ latest = Torn
    /\ Raise(q)
    /\ UNCHANGED faults

HistoryUnreadable(q) ==
    /\ pc[q] = "load_history"
    /\ history = Torn
    /\ Raise(q)
    /\ UNCHANGED faults

\* The audit write fails (the body raises audit_unavailable), or the commit.
RequestFails(q) ==
    /\ pc[q] \in {"audit", "commit"}
    /\ faults < MaxFaults
    /\ faults' = faults + 1
    /\ Raise(q)

\* The control plane dies and is started again.
Crash ==
    /\ \E q \in Requests : pc[q] # "idle"
    /\ faults < MaxFaults
    /\ faults' = faults + 1
    /\ Close(Requests)
    /\ loop' = Nobody
    /\ UNCHANGED <<report, open, files, told, cleared, requests, reports>>

-----------------------------------------------------------------------------
RequestStep(q) ==
    \/ CountTasks(q) \/ LoadLatest(q) \/ RefusePublish(q) \/ LatestUnreadable(q)
    \/ OpenLatest(q) \/ WriteLatest(q)
    \/ LoadHistory(q) \/ HistoryUnreadable(q) \/ SkipHistory(q)
    \/ OpenHistory(q) \/ WriteHistory(q)
    \/ AppendAudit(q) \/ Commit(q)

StartRequest(q) ==
    \/ \E p \in Pointers : StartPublish(q, p)
    \/ \E b \in Builds : Rollback(q, b)

Around ==
    \/ \E b \in Builds : WriteReport(b, "passed") \/ WriteReport(b, "failed")
    \/ RaiseTask
    \/ \E x \in Subjects : DecideTask(x)

Next ==
    \/ Around
    \/ \E q \in Requests : StartRequest(q) \/ RequestStep(q) \/ RequestFails(q)
    \/ Crash

Spec == Init /\ [][Next]_vars

-----------------------------------------------------------------------------
(* Properties *)

\* Every variable has its type; the request on the event loop is inside its body.
TypeOK ==
    /\ report \in [Builds -> {"missing", "passed", "failed"}]
    /\ open \in [Subjects -> Nat]
    /\ latest \in Pointers \cup {NoPointer, Torn}
    /\ history = Torn \/ history \in Seq(Pointers)
    /\ loop \in Requests \cup {Nobody}
    /\ pc \in [Requests -> {"idle", "count", "load_latest", "open_latest", "write_latest",
                            "load_history", "compare", "write_history", "audit", "commit"}]
    /\ op \in [Requests -> {"none", "publish", "rollback"}]
    /\ number \in [Requests -> Nat]
    /\ target \in [Requests -> Pointers \cup {NoPointer}]
    /\ gate \in [Requests -> {"none", "missing", "failed", "passed", "blocked", "clear"}]
    /\ loaded \in [Requests -> Seq(Pointers)]
    /\ before \in [Requests -> Pointers \cup {NoPointer, Torn}]
    /\ task \in [Requests -> ContractFailures \cup {NoSubject}]
    /\ told \in [number : Nat, pointer : Pointers \cup {NoPointer}]
    /\ cleared \subseteq Builds
    /\ requests \in Nat
    /\ reports \in Nat
    /\ faults \in Nat

\* Whatever is published, rolled back, cut off by a crash or lost with a failed
\* commit, readers and later rollbacks only meet builds that a publish has once let
\* through: it has read the contracts as passed, and then found no blocking task
\* (api_publish_build).
OnlyClearedBuildsServed ==
    /\ latest \in Pointers => latest.build \in cleared
    /\ history # Torn => \A i \in DOMAIN history : history[i].build \in cleared

\* Until something fails the two files, written one after the other and in place,
\* move like one atomic pointer with its log (gold_pointer.py): the body of one
\* request is over before the next one reads either of them.
Moving == loop # Nobody /\ pc[loop] \in {"write_latest", "load_history", "compare",
                                         "write_history"}

AtomicPointer == INSTANCE GoldPointer WITH
    current <- IF Moving THEN before[loop] ELSE latest,
    log     <- IF Moving /\ pc[loop] = "write_history" THEN loaded[loop] ELSE history,
    failed  <- faults > 0

ImplementsAtomicPointer == AtomicPointer!PointerSpec

\* Until something fails, and when no request is under way, the newest pointer event
\* of the audit trail (in event-id order, whatever order the transactions committed
\* in) names the pointer that is served (api_publish_build, api_rollback_build).
AuditTrailNamesServedPointer ==
    faults = 0 /\ (\A q \in Requests : pc[q] = "idle") => told.pointer = latest

\* "Gold publication is blocked when ... required blocking tasks are
\* unresolved": when a publish overwrites latest.json no blocking task is open.
NoPublishOverOpenTasks ==
    [][\A q \in Requests :
          op[q] = "publish" /\ pc[q] = "open_latest" /\ pc'[q] = "write_latest"
              => AllResolved]_vars
====
