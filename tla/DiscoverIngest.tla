--------------------------- MODULE DiscoverIngest ---------------------------
(***************************************************************************)
(* A discover run of one workspace: discovery and connector cursors        *)
(* (_process_discover_run of backend/workers/run_processor.py,             *)
(* shared_domain/connector_state.py, workers/connectors), bronze artifacts *)
(* (workers/bronze.py), profiles (profiler.py, parsing.py), and the review *)
(* tasks raised for personal data, drift, anomalies and incomplete strict  *)
(* runs (pii.py, drift.py, anomaly_detection.py).                          *)
(*                                                                         *)
(* What a run writes to the database is committed when it ends, also when  *)
(* it fails; files are written at once.  One run at a time; owners change  *)
(* the source files under it.                                              *)
(***************************************************************************)
EXTENDS Naturals, FiniteSets

CONSTANTS
    Items,       \* files of the sources, each the dataset of its locator
    SourceOf,    \* source of each item
    Plugins,     \* sources whose connector honours the cursor
    Contents,
    ColumnsOf,   \* schema_columns of a content
    NotUtf8,     \* contents profiled as latin-1 that a second reader rejects
    Sensitive,   \* contents with a column of personal data
    Anomalous,   \* contents whose profile shows an anomaly
    Missing,     \* no such file, no such profile
    NoColumns,   \* schema_columns of an empty file
    NoManifest,  \* copied, manifest not written yet
    Torn,        \* manifest cut off
    MaxRuns,     \* bound on runs
    MaxEdits,    \* bound on the clock of mtimes, so on changes of source files
    MaxDecisions,  \* bound on reviewers' decisions
    MaxFaults    \* bound on crashes and failures

Sources == {SourceOf[i] : i \in Items}
Columns == {ColumnsOf[c] : c \in Contents}

ASSUME IngestAssumption ==
    /\ Missing \notin Contents /\ Missing \notin Columns
    /\ NoManifest \notin Contents /\ Torn \notin Contents
    /\ Plugins \subseteq Sources
    /\ NotUtf8 \subseteq Contents /\ Sensitive \subseteq Contents
    /\ Anomalous \subseteq Contents
    /\ MaxDecisions \in Nat /\ MaxRuns \in Nat /\ MaxEdits \in Nat \ {0} /\ MaxFaults \in Nat

VARIABLES
    file,      \* source files: [content, mtime]
    edits,     \* the clock of mtimes: 1, and a tick for each change
    cursor,    \* connector_state of each source: the last mtime it has seen
    artifact,  \* bronze artifacts: [item, copy, raw, manifest, raced]
    bundles,   \* completeness bundles of the evidence store: [run, failures]
    dataset,   \* committed schema_columns of the datasets
    tasks,     \* committed blocking tasks: [about, run, status]
    run,       \* the run and what it has written but not committed
    last,      \* the last run that was committed
    runs,      \* runs so far
    faults,    \* faults so far
    changes,   \* drift and anomalies of committed profiles: [run, about] (ghost)
    missed,    \* items seen by runs that crashed or did not ingest them (ghost)
    broken     \* runs that broke off: [run, failures] (ghost)

owner == <<file, edits>>
disk == <<cursor, artifact, bundles>>
db == <<dataset, tasks, last>>
ghosts == <<changes, missed, broken>>
vars == <<owner, disk, db, run, runs, faults, ghosts>>

Idle == [phase |-> "idle"]

\* A run starts from what is committed.
NewRun(strict) ==
    [phase |-> "sources", strict |-> strict, sources |-> Sources, todo |-> {},
     found |-> {}, failures |-> {}, done |-> {}, item |-> Missing, hash |-> Missing,
     read |-> Missing, before |-> Missing, raced |-> FALSE, copy |-> 0,
     dataset |-> dataset, seen |-> {}, raised |-> {}]

Init ==
    /\ file \in [Items -> [content : Contents, mtime : {1}]]
    /\ edits = 1
    /\ cursor = [s \in Sources |-> 0]
    /\ artifact = {} /\ bundles = {}
    /\ dataset = [i \in Items |-> Missing]
    /\ tasks = {}
    /\ run = Idle
    /\ last = [id |-> 0, status |-> "none", strict |-> FALSE, found |-> {}]
    /\ runs = 0 /\ faults = 0
    /\ changes = {} /\ missed = {} /\ broken = {}

Start ==
    /\ run.phase = "idle" /\ runs < MaxRuns
    /\ runs' = runs + 1
    /\ \E strict \in BOOLEAN : run' = NewRun(strict)
    /\ UNCHANGED <<owner, disk, db, faults, ghosts>>

(***************************************************************************)
(* Discovery                                                               *)
(***************************************************************************)
\* discover_files lists every file of the root.
FilesListed(s) == {i \in Items : SourceOf[i] = s /\ file[i].content # Missing}

\* The scope a plugin is run with carries the cursor, and what comes back is taken
\* as it is.
PluginListed(s) == {i \in FilesListed(s) : file[i].mtime > cursor[s]}

Listed(s) == IF s \in Plugins THEN PluginListed(s) ELSE FilesListed(s)

\* Mutant: the time of the run becomes the watermark.
NextCursorOfClock(s) == edits + 1

\* max over what was listed and the previous cursor
NextCursor(s) ==
    CHOOSE m \in {cursor[s]} \cup {file[i].mtime : i \in Listed(s)} :
        /\ m >= cursor[s]
        /\ \A i \in Listed(s) : m >= file[i].mtime

Discover ==
    /\ run.phase = "sources"
    /\ \E s \in run.sources :
         /\ run' = [run EXCEPT !.phase = "items", !.sources = @ \ {s},
                               !.todo = Listed(s), !.found = @ \cup Listed(s)]
         /\ cursor' = [cursor EXCEPT ![s] = NextCursor(s)]
    /\ UNCHANGED <<owner, artifact, bundles, db, runs, faults, ghosts>>

Fault == faults < MaxFaults /\ faults' = faults + 1

\* An unreachable root, a connector that is not allowlisted, times out or exits
\* with an error: a failure of the source, and the next source.
DiscoveryFails ==
    /\ run.phase = "sources"
    /\ Fault
    /\ \E s \in run.sources :
         run' = [run EXCEPT !.sources = @ \ {s}, !.failures = @ \cup {s}]
    /\ UNCHANGED <<owner, disk, db, runs, ghosts>>

(***************************************************************************)
(* One item                                                                *)
(***************************************************************************)
\* Mutant: any artifact of the dataset is taken for the one of this content.
ExistingOfDataset(i, content) == {a \in artifact : a.item = i}

\* _find_existing_artifact
Existing(i, content) == {a \in artifact : a.item = i /\ a.manifest = content}

\* A manifest cut off stops the search, unless a match comes first.
Unreadable(i) == \E a \in artifact : a.item = i /\ a.manifest = Torn

\* _upsert_catalog_dataset, the hash of the file and the search for it
BeginItem ==
    /\ run.phase = "items"
    /\ \E i \in run.todo :
         LET content == file[i].content
             begun == [run EXCEPT !.todo = @ \ {i}, !.item = i, !.hash = content,
                                  !.raced = FALSE]
         IN /\ content # Missing
            /\ \/ /\ Existing(i, content) = {} /\ ~Unreadable(i)
                  /\ run' = [begun EXCEPT !.phase = "copy"]
               \/ \E a \in Existing(i, content) :
                    run' = [begun EXCEPT !.phase = "manifest", !.copy = a.copy]
    /\ UNCHANGED <<owner, disk, db, runs, faults, ghosts>>

\* The file is read a second time.
Copy ==
    LET n == Cardinality(artifact) + 1 IN
    /\ run.phase = "copy" /\ file[run.item].content # Missing
    /\ artifact' = artifact \cup {[item |-> run.item, copy |-> n, manifest |-> NoManifest,
                                   raw |-> file[run.item].content, raced |-> run.raced]}
    /\ run' = [run EXCEPT !.phase = "manifest", !.copy = n]
    /\ UNCHANGED <<owner, cursor, bundles, db, runs, faults, ghosts>>

WithManifest(m) ==
    {IF a.copy = run.copy THEN [a EXCEPT !.manifest = m] ELSE a : a \in artifact}

WriteManifest ==
    /\ run.phase = "manifest"
    /\ artifact' = WithManifest(run.hash)
    /\ run' = [run EXCEPT !.phase = "profile"]
    /\ UNCHANGED <<owner, cursor, bundles, db, runs, faults, ghosts>>

\* What is profiled, at the third reading of the file.
Profiled(before) ==
    /\ run.phase = "profile" /\ file[run.item].content # Missing
    /\ run' = [run EXCEPT !.phase = "pii", !.read = file[run.item].content,
                          !.before = before, !.seen = @ \cup {<<run.item, file[run.item].content>>},
                          !.dataset[run.item] = ColumnsOf[file[run.item].content]]
    /\ UNCHANGED <<owner, disk, db, runs, faults, ghosts>>

\* Mutant: the columns to compare with are looked up after they were overwritten.
ProfileFirst == Profiled(ColumnsOf[file[run.item].content])

\* profile_csv_file; the summary of the dataset is overwritten.
Profile == Profiled(run.dataset[run.item])

(***************************************************************************)
(* Findings for review                                                     *)
(***************************************************************************)
\* Each finding is a bundle named by its content, so found again it is the same.
PiiIn(i, content) == IF content \in Sensitive THEN {<<"pii", i, content>>} ELSE {}

\* Mutant: a first profile counts as a change.
DriftAlways(i, old, new) == IF old = new THEN {} ELSE {<<"drift", i, old, new>>}

\* detect_schema_drift, when there are previous columns to compare with
Drift(i, old, new) ==
    IF old \in {Missing, NoColumns, new} THEN {} ELSE {<<"drift", i, old, new>>}

\* detect_profile_anomalies
Anomalies(i, content) == IF content \in Anomalous THEN {<<"anomaly", i, content>>} ELSE {}

Incomplete(n) == <<"completeness", n>>

\* An open task of a committed run, or one this run has raised.
Standing(f) == f \in run.raised \/ \E t \in tasks : t.about = f /\ t.status = "open"

\* Mutant: a task is created whether or not one is open.
RaisedAnew(fs) == run.raised \cup fs

\* _get_or_create_review_proposal, _create_blocking_review_task_if_missing
Raised(fs) == run.raised \cup {f \in fs : ~Standing(f)}

\* _read_csv_column_samples reads the file as UTF-8, without fallback.
Decodable(content) == content \notin NotUtf8

\* _create_pii_review_tasks_from_csv, at the fourth reading of the file.
DetectPii ==
    /\ run.phase = "pii"
    /\ file[run.item].content # Missing /\ Decodable(file[run.item].content)
    /\ run' = [run EXCEPT !.phase = "drift",
                          !.raised = Raised(PiiIn(run.item, file[run.item].content))]
    /\ UNCHANGED <<owner, disk, db, runs, faults, ghosts>>

\* _create_drift_review_task_if_needed
ReviewDrift ==
    /\ run.phase = "drift"
    /\ run' = [run EXCEPT !.phase = "anomaly",
                          !.raised = Raised(Drift(run.item, run.before, ColumnsOf[run.read]))]
    /\ UNCHANGED <<owner, disk, db, runs, faults, ghosts>>

BetweenItems ==
    [run EXCEPT !.phase = "items", !.item = Missing, !.hash = Missing, !.read = Missing,
                !.before = Missing, !.raced = FALSE, !.copy = 0]

\* _create_anomaly_review_task_if_needed, the last part of an item.
ReviewAnomalies ==
    /\ run.phase = "anomaly"
    /\ run' = [BetweenItems EXCEPT !.done = @ \cup {run.item},
                                   !.raised = Raised(Anomalies(run.item, run.read))]
    /\ UNCHANGED <<owner, disk, db, runs, faults, ghosts>>

InItem == {"copy", "manifest", "profile", "pii", "drift", "anomaly"}

\* Mutant: the item is left in the list of the source.
SkippedUntried(i) == run' = [BetweenItems EXCEPT !.todo = @ \cup {i}]

\* Mutant: the failure is swallowed.
SkippedSilently(i) == run' = [BetweenItems EXCEPT !.todo = @ \ {i}]

\* The exception handler of an item: what it wrote so far stays.
Skipped(i) ==
    run' = [BetweenItems EXCEPT !.todo = @ \ {i}, !.failures = @ \cup {i}]

\* Files that went away, a manifest cut off, a file the second reader rejects.
ItemFails ==
    /\ \/ /\ run.phase = "items"
          /\ \E i \in run.todo :
               /\ file[i].content = Missing \/ Unreadable(i)
               /\ Skipped(i)
       \/ /\ run.phase \in {"copy", "profile", "pii"}
          /\ \/ file[run.item].content = Missing
             \/ run.phase = "pii" /\ ~Decodable(file[run.item].content)
          /\ Skipped(run.item)
    /\ UNCHANGED <<owner, disk, db, runs, faults, ghosts>>

\* Any other error inside an item; a manifest that is being written is cut off.
ItemFault ==
    /\ run.phase \in InItem
    /\ Fault
    /\ Skipped(run.item)
    /\ \/ UNCHANGED artifact
       \/ run.phase = "manifest" /\ artifact' = WithManifest(Torn)
    /\ UNCHANGED <<owner, cursor, bundles, db, runs, ghosts>>

NextSource ==
    /\ run.phase = "items" /\ run.todo = {}
    /\ run' = [run EXCEPT !.phase = "sources"]
    /\ UNCHANGED <<owner, disk, db, runs, faults, ghosts>>

(***************************************************************************)
(* End of the run                                                          *)
(***************************************************************************)
\* ingest_completeness_failure or ingest_completeness_warning; a strict run raises
\* a task before it fails (_ensure_ingest_completeness_review_task).
StoreCompleteness ==
    /\ run.phase = "sources" /\ run.sources = {}
    /\ IF run.failures = {}
       THEN /\ run' = [run EXCEPT !.phase = "commit"]
            /\ UNCHANGED bundles
       ELSE /\ bundles' = bundles \cup {[run |-> runs, failures |-> run.failures]}
            /\ run' = [run EXCEPT !.phase = "commit",
                          !.raised = IF run.strict THEN Raised({Incomplete(runs)}) ELSE @]
    /\ UNCHANGED <<owner, cursor, artifact, db, runs, faults, ghosts>>

\* A run commits what it wrote, whatever its status.
CommitRun(status) ==
    /\ dataset' = run.dataset
    /\ tasks' = tasks \cup {[about |-> f, run |-> runs, status |-> "open"] : f \in run.raised}
    /\ last' = [id |-> runs, status |-> status, strict |-> run.strict, found |-> run.found]
    /\ changes' = changes \cup
         {[run |-> runs, about |-> f] :
             f \in (UNION {Drift(i, dataset[i], run.dataset[i]) : i \in Items})
                   \cup (UNION {Anomalies(s[1], s[2]) : s \in run.seen})}
    /\ missed' = (missed \ run.done) \cup (run.found \ run.done)
    /\ run' = Idle

Commit ==
    /\ run.phase = "commit"
    /\ CommitRun(IF run.strict /\ run.failures # {} THEN "failed" ELSE "succeeded")
    /\ UNCHANGED <<owner, disk, runs, faults, broken>>

\* A quota or a timeout between items (:678, :783); a source with more files than
\* the quota (:652); a completeness bundle that cannot be stored (:819, :847); an
\* error or a timeout of the steps after the ingest.
Breakable ==
    \/ run.phase = "items"
    \/ run.phase = "sources" /\ \E s \in run.sources : Listed(s) # {}
    \/ run.phase = "sources" /\ run.sources = {} /\ run.failures # {}
    \/ run.phase = "commit" /\ (run.strict => run.failures = {})

\* The run fails, and what it wrote is committed all the same.
BreakOff ==
    /\ Breakable
    /\ Fault
    /\ CommitRun("failed")
    /\ broken' = broken \cup {[run |-> runs, failures |-> run.failures]}
    /\ UNCHANGED <<owner, disk, runs>>

\* The worker dies: nothing is committed, files stay, one may be cut off.
Crash ==
    /\ run.phase # "idle"
    /\ Fault
    /\ run' = Idle
    /\ missed' = missed \cup run.found
    /\ \/ UNCHANGED <<cursor, artifact>>
       \/ /\ run.phase = "manifest"
          /\ artifact' = WithManifest(Torn)
          /\ UNCHANGED cursor
       \/ /\ run.phase = "sources"      \* load_connector_state ignores a torn file
          /\ \E s \in run.sources : cursor' = [cursor EXCEPT ![s] = 0]
          /\ UNCHANGED artifact
    /\ UNCHANGED <<owner, bundles, db, runs, changes, broken>>

(***************************************************************************)
(* Reviewers, and owners of the sources                                    *)
(***************************************************************************)
\* A decision committed by the control plane, whatever the run is doing.
DecideTask ==
    /\ Cardinality({t \in tasks : t.status = "decided"}) < MaxDecisions
    /\ \E t \in tasks :
         /\ t.status = "open"
         /\ tasks' = (tasks \ {t}) \cup {[t EXCEPT !.status = "decided"]}
    /\ UNCHANGED <<owner, disk, dataset, last, run, runs, faults, ghosts>>

Edit ==
    /\ edits < MaxEdits
    /\ edits' = edits + 1
    /\ \E i \in Items, c \in Contents \cup {Missing} :
         /\ c # file[i].content
         /\ file' = [file EXCEPT ![i] = [content |-> c, mtime |-> edits + 1]]
         /\ run' = IF run.phase = "copy" /\ run.item = i
                   THEN [run EXCEPT !.raced = TRUE] ELSE run
    /\ UNCHANGED <<disk, db, runs, faults, ghosts>>

Ingest ==
    \/ Discover \/ BeginItem \/ Copy \/ WriteManifest \/ Profile \/ DetectPii
    \/ ReviewDrift \/ ReviewAnomalies \/ ItemFails \/ NextSource \/ StoreCompleteness \/ Commit

Next ==
    \/ Start \/ Ingest \/ DiscoveryFails \/ ItemFault \/ BreakOff \/ Crash
    \/ DecideTask \/ Edit

\* The loop over sources and items goes on by itself.
Spec == Init /\ [][Next]_vars /\ WF_vars(Ingest)

-----------------------------------------------------------------------------
(* Properties *)

Findings ==
    ({"pii", "anomaly"} \X Items \X Contents) \cup ({"completeness"} \X (1..MaxRuns))
    \cup {<<"drift", i, c, d>> : i \in Items, c \in Columns, d \in Columns}

\* Every variable has its type; drift is between different columns only.
TypeOK ==
    /\ file \in [Items -> [content : Contents \cup {Missing}, mtime : 0..MaxEdits]]
    /\ cursor \in [Sources -> 0..MaxEdits]
    /\ artifact \subseteq [item : Items, copy : Nat, raw : Contents, raced : BOOLEAN,
                           manifest : Contents \cup {NoManifest, Torn}]
    /\ dataset \in [Items -> Columns \cup {Missing}]
    /\ tasks \subseteq [about : Findings, run : 1..MaxRuns, status : {"open", "decided"}]
    /\ \A t \in tasks : t.about[1] = "drift" => t.about[3] # t.about[4]
    /\ last.status \in {"none", "succeeded", "failed"}
    /\ run.phase \in InItem \cup {"idle", "sources", "items", "commit"}

\* The manifest of an artifact states the hash of the bytes beside it, unless the
\* source file changed between the hash and the copy (bronze.py:42 and :59), and
\* a content is copied once for a dataset: crashes, reruns and edits in any order.
ManifestTellsRaw ==
    \A a \in artifact : a.manifest \in Contents =>
        /\ a.raced \/ a.raw = a.manifest
        /\ \A b \in artifact : b.item = a.item /\ b.manifest = a.manifest => b = a

\* A strict run that succeeded has a catalogued dataset and an artifact with its
\* manifest for every item that was discovered; one that failed for completeness
\* has raised its task (run_processor.py:792).
StrictRunIsComplete ==
    /\ last.status = "succeeded" /\ last.strict =>
        \A i \in last.found :
            /\ dataset[i] # Missing
            /\ \E a \in artifact : a.item = i /\ a.manifest \in Contents \cup {Torn}
    /\ last.status = "failed" /\ (\A b \in broken : b.run # last.id) =>
        /\ last.strict
        /\ \E t \in tasks : t.about = Incomplete(last.id)

\* A file a plugin will not list again, because the saved cursor has passed it, is
\* in bronze, or a run that saw it crashed or did not get it in
\* (run_processor.py:654 saves the cursor before the items are read).
PassedOnlyIfIngestedOrMissed ==
    run.phase = "idle" =>
        \A i \in Items :
            /\ SourceOf[i] \in Plugins /\ file[i].content # Missing
            /\ file[i].mtime <= cursor[SourceOf[i]]
            => i \in missed \/ \E a \in artifact : /\ a.item = i
                                                   /\ a.manifest = file[i].content

About == {t.about : t \in tasks}

\* A change of the columns the catalog shows, or an anomaly of a profile in it, has
\* a task, unless the run that committed it failed on the very item afterwards: then
\* the completeness bundle of that run names the item, or that run broke off before
\* it had stored one (run_processor.py:735 overwrites the profile before :757 and
\* :764 look at it).  And whatever runs find again and reviewers decide meanwhile,
\* no finding has two open tasks.
FindingsSurface ==
    /\ \A c \in changes :
        \/ c.about \in About
        \/ \E b \in bundles \cup broken : b.run = c.run /\ c.about[2] \in b.failures
    /\ \A t, u \in tasks : t.status = "open" /\ u.status = "open" /\ t.about = u.about => t = u

\* spec/10_PHASES_AND_TASKS.md:423: "Drift events generate review tasks with
\* severity and affected downstream models."
DriftGeneratesReviewTask == \A c \in changes : c.about[1] = "drift" => c.about \in About

\* Whatever fails inside an item or a source, a run that is not cut off ends.
RunsEnd == run.phase # "idle" ~> run.phase = "idle"
=============================================================================
