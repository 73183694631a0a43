----------------------- MODULE DiscoverIngestProofs -----------------------
(***************************************************************************)
(* Proofs about DiscoverIngest, for every source, item, content and number *)
(* of runs, faults, edits and decisions: what bronze says of itself, that  *)
(* no finding is lost or asked about twice, that a strict run which        *)
(* succeeds is complete, and that a file a cursor has passed is in bronze  *)
(* or was seen to be missed.  What a run knows is in its own record until  *)
(* it commits, so each invariant speaks of that record as well as of what  *)
(* is committed.                                                           *)
(***************************************************************************)
EXTENDS DiscoverIngest, FiniteSetTheorems, WellFoundedInduction, TLAPS

RunFields == {"phase", "strict", "sources", "todo", "found", "failures", "done", "item",
              "hash", "read", "before", "raced", "copy", "dataset", "seen", "raised"}
TaskFields == {"about", "run", "status"}
Phases == InItem \cup {"idle", "sources", "items", "commit"}

-----------------------------------------------------------------------------
(* What every run looks like *)

Shape ==
    /\ DOMAIN file = Items /\ DOMAIN dataset = Items
    /\ \A i \in Items : file[i].content \in Contents \cup {Missing}
    /\ runs \in Nat
    /\ \A t \in tasks : DOMAIN t = TaskFields
    /\ run.phase \in Phases
    /\ run.phase # "idle" =>
         /\ DOMAIN run = RunFields /\ DOMAIN run.dataset = Items
         /\ run.sources \subseteq Sources /\ run.todo \subseteq Items
    /\ run.phase \in {"sources", "commit"} => run.todo = {}
    /\ run.phase \in InItem => run.item \in Items \ run.todo /\ run.hash \in Contents
    /\ run.phase \in {"pii", "drift", "anomaly"} => run.read \in Contents

LEMMA InitShape == Init => Shape
BY DEF Init, Shape, Idle, Phases, InItem

LEMMA ListedItems == \A s : Listed(s) \subseteq Items
BY DEF Listed, PluginListed, FilesListed

\* What of a run no step about single items touches.
SameElse ==
    /\ DOMAIN run' = RunFields
    /\ run'.strict = run.strict /\ run'.sources = run.sources /\ run'.found = run.found

LEMMA SkipStep ==
    ASSUME Shape, run.phase # "idle", NEW i, Skipped(i)
    PROVE  /\ SameElse /\ run'.phase = "items"
           /\ run'.todo = run.todo \ {i} /\ run'.failures = run.failures \cup {i}
           /\ run'.done = run.done /\ run'.dataset = run.dataset
           /\ run'.seen = run.seen /\ run'.raised = run.raised
           /\ run'.before = Missing /\ run'.raced = FALSE
<1> DEFINE b == BetweenItems
<1>1. /\ DOMAIN b = RunFields /\ b.phase = "items" /\ b.strict = run.strict
      /\ b.sources = run.sources /\ b.found = run.found /\ b.todo = run.todo
      /\ b.failures = run.failures /\ b.done = run.done /\ b.dataset = run.dataset
      /\ b.seen = run.seen /\ b.raised = run.raised
      /\ b.before = Missing /\ b.raced = FALSE
  BY DEF Shape, BetweenItems, RunFields
<1>2. run' = [b EXCEPT !.todo = b.todo \ {i}, !.failures = b.failures \cup {i}]
  BY DEF Skipped
<1> HIDE DEF b
<1> QED BY <1>1, <1>2 DEF SameElse, RunFields

LEMMA BeginStep ==
    ASSUME Shape, BeginItem
    PROVE  \E i \in run.todo :
             /\ SameElse /\ run'.phase \in {"copy", "manifest"}
             /\ run'.todo = run.todo \ {i} /\ run'.item = i
             /\ run'.hash = file[i].content /\ file[i].content \in Contents
             /\ run'.raced = FALSE /\ run'.failures = run.failures
             /\ run'.done = run.done /\ run'.dataset = run.dataset
             /\ run'.seen = run.seen /\ run'.raised = run.raised
             /\ run'.before = run.before
             /\ run'.phase = "copy" => Existing(i, file[i].content) = {}
             /\ run'.phase = "manifest" =>
                  \E a \in Existing(i, file[i].content) : run'.copy = a.copy
<1>1. PICK i \in run.todo :
        LET content == file[i].content
            begun == [run EXCEPT !.todo = @ \ {i}, !.item = i, !.hash = content,
                                 !.raced = FALSE]
        IN /\ content # Missing
           /\ \/ /\ Existing(i, content) = {} /\ ~Unreadable(i)
                 /\ run' = [begun EXCEPT !.phase = "copy"]
              \/ \E a \in Existing(i, content) :
                   run' = [begun EXCEPT !.phase = "manifest", !.copy = a.copy]
  BY DEF BeginItem
<1> DEFINE content == file[i].content
<1> DEFINE begun == [run EXCEPT !.todo = run.todo \ {i}, !.item = i, !.hash = content,
                                !.raced = FALSE]
<1>2. DOMAIN run = RunFields /\ i \in Items /\ content \in Contents
  BY <1>1 DEF Shape, BeginItem
<1>3. /\ DOMAIN begun = RunFields /\ begun.strict = run.strict
      /\ begun.sources = run.sources /\ begun.found = run.found
      /\ begun.todo = run.todo \ {i} /\ begun.item = i /\ begun.hash = content
      /\ begun.raced = FALSE /\ begun.failures = run.failures /\ begun.done = run.done
      /\ begun.dataset = run.dataset /\ begun.seen = run.seen /\ begun.raised = run.raised
      /\ begun.before = run.before
  BY <1>2 DEF RunFields
<1>4. \/ Existing(i, content) = {} /\ run' = [begun EXCEPT !.phase = "copy"]
      \/ \E a \in Existing(i, content) :
           run' = [begun EXCEPT !.phase = "manifest", !.copy = a.copy]
  BY <1>1
<1> HIDE DEF begun, content
<1>5. CASE Existing(i, content) = {} /\ run' = [begun EXCEPT !.phase = "copy"]
  BY <1>2, <1>3, <1>5 DEF SameElse, RunFields, content
<1>6. ASSUME NEW a \in Existing(i, content),
             run' = [begun EXCEPT !.phase = "manifest", !.copy = a.copy]
      PROVE  /\ SameElse /\ run'.phase = "manifest"
             /\ run'.todo = run.todo \ {i} /\ run'.item = i
             /\ run'.hash = content /\ run'.raced = FALSE /\ run'.failures = run.failures
             /\ run'.done = run.done /\ run'.dataset = run.dataset
             /\ run'.seen = run.seen /\ run'.raised = run.raised /\ run'.copy = a.copy
             /\ run'.before = run.before
  BY <1>3, <1>6 DEF SameElse, RunFields
<1> QED BY <1>2, <1>4, <1>5, <1>6 DEF content

LEMMA StoreStep ==
    ASSUME Shape, StoreCompleteness
    PROVE  /\ SameElse /\ run'.phase = "commit" /\ run'.todo = run.todo
           /\ run'.failures = run.failures /\ run'.done = run.done
           /\ run'.dataset = run.dataset /\ run'.seen = run.seen
           /\ run'.before = run.before /\ run'.raced = run.raced
           /\ run'.raised = IF run.failures # {} /\ run.strict
                            THEN Raised({Incomplete(runs)}) ELSE run.raised
           /\ bundles' = IF run.failures = {} THEN bundles
                         ELSE bundles \cup {[run |-> runs, failures |-> run.failures]}
<1>1. DOMAIN run = RunFields
  BY DEF Shape, StoreCompleteness
<1>2. CASE run.failures = {}
  <2>1. run' = [run EXCEPT !.phase = "commit"] /\ bundles' = bundles
    BY <1>2 DEF StoreCompleteness
  <2> QED BY <1>1, <1>2, <2>1 DEF SameElse, RunFields
<1>3. CASE run.failures # {}
  <2> DEFINE raised == IF run.strict THEN Raised({Incomplete(runs)}) ELSE run.raised
  <2>1. /\ run' = [run EXCEPT !.phase = "commit", !.raised = raised]
        /\ bundles' = bundles \cup {[run |-> runs, failures |-> run.failures]}
    BY <1>3 DEF StoreCompleteness
  <2> HIDE DEF raised
  <2>2. /\ SameElse /\ run'.phase = "commit" /\ run'.todo = run.todo
        /\ run'.failures = run.failures /\ run'.done = run.done
        /\ run'.dataset = run.dataset /\ run'.seen = run.seen /\ run'.raised = raised
        /\ run'.before = run.before /\ run'.raced = run.raced
    BY <1>1, <2>1 DEF SameElse, RunFields
  <2> QED BY <1>3, <2>1, <2>2 DEF raised
<1> QED BY <1>2, <1>3

\* Either way an item is given up.
LEMMA ItemFailsStep ==
    ASSUME Shape, ItemFails \/ ItemFault
    PROVE  /\ run.phase \in InItem \cup {"items"}
           /\ \E i : /\ Skipped(i)
                     /\ run.phase \in InItem => i = run.item
                     /\ run.phase = "items" => i \in run.todo
BY DEF ItemFails, ItemFault, InItem

LEMMA StepShape == Shape /\ [Next]_vars => Shape'
<1> SUFFICES ASSUME Shape, [Next]_vars PROVE Shape'
  OBVIOUS
<1> USE DEF Shape, owner, disk, db, ghosts
<1>1. CASE Start
  BY <1>1 DEF Start, NewRun, RunFields, Phases, InItem
<1>2. CASE Discover
  BY <1>2, ListedItems DEF Discover, RunFields, Phases, InItem
<1>3. CASE DiscoveryFails
  BY <1>3 DEF DiscoveryFails, RunFields, Phases, InItem
<1>4. CASE BeginItem
  <2>1. UNCHANGED <<file, dataset, tasks, runs>>
    BY <1>4 DEF BeginItem
  <2>2. run.phase = "items"
    BY <1>4 DEF BeginItem
  <2> QED BY <1>4, <2>1, <2>2, BeginStep DEF SameElse, Phases, InItem
<1>5. CASE Copy
  BY <1>5 DEF Copy, RunFields, Phases, InItem
<1>6. CASE WriteManifest
  BY <1>6 DEF WriteManifest, RunFields, Phases, InItem
<1>7. CASE Profile
  BY <1>7 DEF Profile, Profiled, RunFields, Phases, InItem
<1>8. CASE DetectPii
  BY <1>8 DEF DetectPii, RunFields, Phases, InItem
<1>9. CASE ReviewDrift
  BY <1>9 DEF ReviewDrift, RunFields, Phases, InItem
<1>10. CASE ReviewAnomalies
  BY <1>10 DEF ReviewAnomalies, BetweenItems, RunFields, Phases, InItem
<1>11. CASE ItemFails \/ ItemFault
  <2>1. UNCHANGED <<file, dataset, tasks, runs>>
    BY <1>11 DEF ItemFails, ItemFault
  <2>2. PICK i : Skipped(i)
    BY <1>11, ItemFailsStep
  <2>3. run.phase # "idle"
    BY <1>11, ItemFailsStep DEF InItem
  <2> QED BY <2>1, <2>2, <2>3, SkipStep DEF SameElse, Phases, InItem
<1>13. CASE NextSource
  BY <1>13 DEF NextSource, RunFields, Phases, InItem
<1>14. CASE StoreCompleteness
  <2>1. UNCHANGED <<file, dataset, tasks, runs>> /\ run.phase = "sources"
    BY <1>14 DEF StoreCompleteness
  <2> QED BY <1>14, <2>1, StoreStep DEF SameElse, Phases, InItem
<1>15. CASE Commit \/ BreakOff
  <2>1. /\ run.phase # "idle" /\ run' = Idle /\ dataset' = run.dataset
        /\ tasks' = tasks \cup {[about |-> f, run |-> runs, status |-> "open"] : f \in run.raised}
        /\ UNCHANGED <<file, runs>>
    BY <1>15 DEF Commit, BreakOff, Breakable, CommitRun, owner
  <2> QED BY <2>1 DEF Idle, Phases, InItem, TaskFields
<1>16. CASE Crash
  BY <1>16 DEF Crash, Idle, Phases, InItem
<1>17. CASE DecideTask
  BY <1>17 DEF DecideTask, TaskFields
<1>18. CASE Edit
  BY <1>18 DEF Edit, RunFields, Phases, InItem
<1>19. CASE UNCHANGED vars
  BY <1>19 DEF vars
<1> QED BY <1>1, <1>2, <1>3, <1>4, <1>5, <1>6, <1>7, <1>8, <1>9, <1>10, <1>11,
           <1>13, <1>14, <1>15, <1>16, <1>17, <1>18, <1>19 DEF Next, Ingest

LEMMA ShapeInvariant == Spec => []Shape
BY InitShape, StepShape, PTL DEF Spec

-----------------------------------------------------------------------------
(* Findings *)

\* Items this run has not profiled yet.
Pending(i) ==
    \/ SourceOf[i] \in run.sources \/ i \in run.todo
    \/ run.phase \in {"copy", "manifest", "profile"} /\ i = run.item

PendingUntouched ==
    /\ \A i \in Items : Pending(i) =>
         run.dataset[i] = dataset[i] /\ \A s \in run.seen : s[1] # i
    /\ \A i \in Items : i \in run.todo \/ (run.phase \in InItem /\ i = run.item) =>
         SourceOf[i] \notin run.sources

Known == run.raised \cup About

\* What a profile changed is known, blamed on a failure, or about to be looked at.
DriftKnown ==
    /\ \A i \in Items : \/ Drift(i, dataset[i], run.dataset[i]) \subseteq Known
                        \/ i \in run.failures
                        \/ run.phase \in {"pii", "drift"} /\ i = run.item
    /\ run.phase \in {"pii", "drift"} =>
         run.before = dataset[run.item] /\ run.dataset[run.item] = ColumnsOf[run.read]

AnomaliesKnown ==
    \A s \in run.seen : \/ Anomalies(s[1], s[2]) \subseteq Known
                        \/ s[1] \in run.failures
                        \/ /\ run.phase \in {"pii", "drift", "anomaly"}
                           /\ s[1] = run.item /\ s[2] = run.read

FailuresStored ==
    run.phase = "commit" => \/ run.failures = {}
                            \/ \E b \in bundles : b.run = runs /\ b.failures = run.failures

NoneOpen(f) == ~\E t \in tasks : t.about = f /\ t.status = "open"

RaisedNew == \A f \in run.raised : NoneOpen(f)

\* The two halves of FindingsSurface.
ChangesAnswered ==
    \A c \in changes :
        \/ c.about \in About
        \/ \E b \in bundles \cup broken : b.run = c.run /\ c.about[2] \in b.failures

OneOpenTask ==
    \A t, u \in tasks : t.status = "open" /\ u.status = "open" /\ t.about = u.about => t = u

RunSurfaces ==
    PendingUntouched /\ DriftKnown /\ AnomaliesKnown /\ FailuresStored /\ RaisedNew

SurfaceInv ==
    /\ run.phase # "idle" => RunSurfaces
    /\ ChangesAnswered /\ OneOpenTask

\* Every finding of a step is raised or was already asked about; what is raised has
\* no open task.
LEMMA RaisedKnown ==
    ASSUME NEW fs
    PROVE  /\ run.raised \subseteq Raised(fs)
           /\ fs \subseteq Raised(fs) \cup About
           /\ \A f \in Raised(fs) : f \in run.raised \/ NoneOpen(f)
BY DEF Raised, Standing, About, NoneOpen

\* Steps inside a run, which leave what is committed alone.
Within == UNCHANGED <<dataset, tasks, changes, broken>>

LEMMA WithinKeeps ==
    ASSUME SurfaceInv, Within, bundles \subseteq bundles',
           run'.phase # "idle" => RunSurfaces'
    PROVE  SurfaceInv'
BY DEF SurfaceInv, Within, ChangesAnswered, OneOpenTask, About

LEMMA StartSurfaces ==
    ASSUME Shape, SurfaceInv, Start
    PROVE  SurfaceInv'
<1>1. Within /\ bundles' = bundles
  BY DEF Start, Within, db, disk, ghosts
<1>2. /\ run'.phase = "sources" /\ run'.sources = Sources /\ run'.todo = {}
      /\ run'.failures = {} /\ run'.dataset = dataset /\ run'.seen = {} /\ run'.raised = {}
  BY DEF Start, NewRun
<1>3. RunSurfaces'
  BY <1>1, <1>2 DEF Within, RunSurfaces, PendingUntouched, Pending, DriftKnown, Drift,
     AnomaliesKnown, FailuresStored, RaisedNew, InItem
<1> QED BY <1>1, <1>3, WithinKeeps

\* Steps that neither profile nor raise.
LEMMA QuietKeeps ==
    ASSUME Shape, SurfaceInv, Within, run.phase # "idle",
           run'.dataset = run.dataset, run'.seen = run.seen, run'.raised = run.raised,
           run.failures \subseteq run'.failures,
           bundles \subseteq bundles',
           \A i \in Items : Pending(i)' => Pending(i),
           \A i \in Items : i \in run'.todo \/ (run'.phase \in InItem /\ i = run'.item) =>
               SourceOf[i] \notin run'.sources,
           run.phase \in {"pii", "drift", "anomaly"} => run.item \in run'.failures,
           run'.phase \notin {"pii", "drift"},
           FailuresStored'
    PROVE  SurfaceInv'
<1>1. PendingUntouched'
  BY DEF SurfaceInv, RunSurfaces, PendingUntouched, Within
<1>2. Known' = Known
  BY DEF Known, About, Within
<1>3. DriftKnown'
  BY <1>2 DEF SurfaceInv, RunSurfaces, DriftKnown, Within
<1>4. AnomaliesKnown'
  BY <1>2 DEF SurfaceInv, RunSurfaces, AnomaliesKnown
<1>5. RaisedNew'
  BY DEF SurfaceInv, RunSurfaces, RaisedNew, NoneOpen, Within
<1> QED BY <1>1, <1>3, <1>4, <1>5, WithinKeeps DEF RunSurfaces

LEMMA DiscoverSurfaces ==
    ASSUME Shape, SurfaceInv, Discover
    PROVE  SurfaceInv'
<1>1. PICK s \in run.sources :
        run' = [run EXCEPT !.phase = "items", !.sources = @ \ {s},
                           !.todo = Listed(s), !.found = @ \cup Listed(s)]
  BY DEF Discover
<1>2. Within /\ bundles' = bundles /\ run.phase = "sources" /\ run.todo = {}
  BY DEF Discover, Within, db, ghosts, Shape
<1>3. /\ run'.phase = "items" /\ run'.sources = run.sources \ {s} /\ run'.todo = Listed(s)
      /\ run'.failures = run.failures /\ run'.dataset = run.dataset
      /\ run'.seen = run.seen /\ run'.raised = run.raised
  BY <1>1, <1>2 DEF Shape, RunFields
<1>4. \A i \in Listed(s) : SourceOf[i] = s
  BY DEF Listed, PluginListed, FilesListed
<1>5. \A i \in Items : Pending(i)' => Pending(i)
  BY <1>3, <1>4 DEF Pending
<1>6. FailuresStored'
  BY <1>3 DEF FailuresStored
<1> QED BY <1>2, <1>3, <1>4, <1>5, <1>6, QuietKeeps DEF InItem

LEMMA DiscoveryFailsSurfaces ==
    ASSUME Shape, SurfaceInv, DiscoveryFails
    PROVE  SurfaceInv'
<1>1. PICK s \in run.sources :
        run' = [run EXCEPT !.sources = @ \ {s}, !.failures = @ \cup {s}]
  BY DEF DiscoveryFails
<1>2. Within /\ bundles' = bundles /\ run.phase = "sources" /\ run.todo = {}
  BY DEF DiscoveryFails, Within, db, disk, ghosts, Shape
<1>3. /\ run'.phase = "sources" /\ run'.sources = run.sources \ {s} /\ run'.todo = {}
      /\ run'.failures = run.failures \cup {s} /\ run'.dataset = run.dataset
      /\ run'.seen = run.seen /\ run'.raised = run.raised
  BY <1>1, <1>2 DEF Shape, RunFields
<1>4. \A i \in Items : Pending(i)' => Pending(i)
  BY <1>3 DEF Pending
<1>5. FailuresStored'
  BY <1>3 DEF FailuresStored
<1> QED BY <1>2, <1>3, <1>4, <1>5, QuietKeeps DEF InItem

LEMMA BeginItemSurfaces ==
    ASSUME Shape, SurfaceInv, BeginItem
    PROVE  SurfaceInv'
<1>1. PICK i \in run.todo :
        /\ run'.phase \in {"copy", "manifest"} /\ run'.sources = run.sources
        /\ run'.todo = run.todo \ {i} /\ run'.item = i
        /\ run'.failures = run.failures /\ run'.dataset = run.dataset
        /\ run'.seen = run.seen /\ run'.raised = run.raised
  BY BeginStep DEF SameElse
<1>2. Within /\ bundles' = bundles /\ run.phase = "items"
  BY DEF BeginItem, Within, db, disk, ghosts
<1>3. \A j \in Items : Pending(j)' => Pending(j)
  BY <1>1 DEF Pending
<1>4. \A j \in Items : j \in run'.todo \/ (run'.phase \in InItem /\ j = run'.item) =>
          SourceOf[j] \notin run'.sources
  BY <1>1, <1>2 DEF SurfaceInv, RunSurfaces, PendingUntouched
<1>5. FailuresStored'
  BY <1>1 DEF FailuresStored
<1> QED BY <1>1, <1>2, <1>3, <1>4, <1>5, QuietKeeps

LEMMA CopySurfaces ==
    ASSUME Shape, SurfaceInv, Copy \/ WriteManifest
    PROVE  SurfaceInv'
<1>1. /\ run.phase \in {"copy", "manifest"} /\ run'.phase \in {"manifest", "profile"}
      /\ run'.sources = run.sources /\ run'.todo = run.todo /\ run'.item = run.item
      /\ run'.failures = run.failures /\ run'.dataset = run.dataset
      /\ run'.seen = run.seen /\ run'.raised = run.raised
  BY DEF Copy, WriteManifest, Shape, RunFields
<1>2. Within /\ bundles' = bundles
  BY DEF Copy, WriteManifest, Within, db, ghosts
<1>3. \A j \in Items : Pending(j)' => Pending(j)
  BY <1>1 DEF Pending
<1>4. \A j \in Items : j \in run'.todo \/ (run'.phase \in InItem /\ j = run'.item) =>
          SourceOf[j] \notin run'.sources
  BY <1>1 DEF SurfaceInv, RunSurfaces, PendingUntouched, InItem
<1>5. FailuresStored'
  BY <1>1 DEF FailuresStored
<1> QED BY <1>1, <1>2, <1>3, <1>4, <1>5, QuietKeeps

LEMMA SkipSurfaces ==
    ASSUME Shape, SurfaceInv, ItemFails \/ ItemFault
    PROVE  SurfaceInv'
<1>1. PICK i : /\ Skipped(i) /\ run.phase \in InItem \cup {"items"}
               /\ run.phase \in InItem => i = run.item
  BY ItemFailsStep
<1>2. /\ run'.phase = "items" /\ run'.sources = run.sources
      /\ run'.todo = run.todo \ {i} /\ run'.failures = run.failures \cup {i}
      /\ run'.dataset = run.dataset /\ run'.seen = run.seen /\ run'.raised = run.raised
  BY <1>1, SkipStep DEF SameElse, InItem
<1>3. Within /\ bundles' = bundles
  BY DEF ItemFails, ItemFault, Within, db, disk, ghosts
<1>4. \A j \in Items : Pending(j)' => Pending(j)
  BY <1>2 DEF Pending
<1>5. \A j \in Items : j \in run'.todo \/ (run'.phase \in InItem /\ j = run'.item) =>
          SourceOf[j] \notin run'.sources
  BY <1>1, <1>2 DEF SurfaceInv, RunSurfaces, PendingUntouched, InItem
<1>6. FailuresStored'
  BY <1>2 DEF FailuresStored
<1> QED BY <1>1, <1>2, <1>3, <1>4, <1>5, <1>6, QuietKeeps DEF InItem

LEMMA NextSourceSurfaces ==
    ASSUME Shape, SurfaceInv, NextSource
    PROVE  SurfaceInv'
<1>1. /\ run.phase = "items" /\ run'.phase = "sources" /\ run.todo = {}
      /\ run'.sources = run.sources /\ run'.todo = run.todo
      /\ run'.failures = run.failures /\ run'.dataset = run.dataset
      /\ run'.seen = run.seen /\ run'.raised = run.raised
  BY DEF NextSource, Shape, RunFields
<1>2. Within /\ bundles' = bundles
  BY DEF NextSource, Within, db, disk, ghosts
<1>3. \A j \in Items : Pending(j)' => Pending(j)
  BY <1>1 DEF Pending
<1>4. FailuresStored'
  BY <1>1 DEF FailuresStored
<1> QED BY <1>1, <1>2, <1>3, <1>4, QuietKeeps DEF InItem

LEMMA ProfileSurfaces ==
    ASSUME Shape, SurfaceInv, Profile
    PROVE  SurfaceInv'
<1> DEFINE i == run.item
<1> DEFINE c == file[i].content
<1>1. /\ run.phase = "profile" /\ i \in Items /\ i \notin run.todo /\ c \in Contents
      /\ run' = [run EXCEPT !.phase = "pii", !.read = c, !.before = run.dataset[i],
                            !.seen = @ \cup {<<i, c>>}, !.dataset[i] = ColumnsOf[c]]
  BY DEF Profile, Profiled, Shape, InItem
<1>2. Within /\ bundles' = bundles
  BY DEF Profile, Profiled, Within, db, disk, ghosts
<1>3. /\ run'.phase = "pii" /\ run'.item = i /\ run'.read = c
      /\ run'.before = run.dataset[i] /\ run'.seen = run.seen \cup {<<i, c>>}
      /\ run'.dataset = [run.dataset EXCEPT ![i] = ColumnsOf[c]]
      /\ run'.sources = run.sources /\ run'.todo = run.todo
      /\ run'.failures = run.failures /\ run'.raised = run.raised
  BY <1>1 DEF Shape, RunFields
<1>4. DOMAIN run.dataset = Items
  BY <1>1 DEF Shape
<1> HIDE DEF c
<1>5. Known' = Known /\ dataset' = dataset
  BY <1>2, <1>3 DEF Known, About, Within
<1>6. run.dataset[i] = dataset[i] /\ SourceOf[i] \notin run.sources
  BY <1>1 DEF SurfaceInv, RunSurfaces, PendingUntouched, Pending, InItem
<1>7. PendingUntouched'
  <2>1. \A j \in Items : Pending(j)' => Pending(j) /\ j # i
    BY <1>1, <1>3, <1>6 DEF Pending
  <2>2. \A j \in Items : Pending(j)' =>
          run'.dataset[j] = dataset'[j] /\ \A s \in run'.seen : s[1] # j
    BY <1>1, <1>3, <1>4, <1>5, <2>1 DEF SurfaceInv, RunSurfaces, PendingUntouched
  <2>3. \A j \in Items : j \in run'.todo \/ (run'.phase \in InItem /\ j = run'.item) =>
          SourceOf[j] \notin run'.sources
    BY <1>1, <1>3, <1>6 DEF SurfaceInv, RunSurfaces, PendingUntouched
  <2> QED BY <2>2, <2>3 DEF PendingUntouched
<1>8. DriftKnown'
  <2>1. \A j \in Items : j # i => run'.dataset[j] = run.dataset[j]
    BY <1>3, <1>4
  <2>2. \A j \in Items : \/ Drift(j, dataset[j], run'.dataset[j]) \subseteq Known
                         \/ j \in run'.failures
                         \/ j = i
    BY <1>1, <1>3, <2>1 DEF SurfaceInv, RunSurfaces, DriftKnown
  <2>3. run'.before = dataset[i] /\ run'.dataset[i] = ColumnsOf[c]
    BY <1>1, <1>3, <1>4, <1>6
  <2> QED BY <1>3, <1>5, <2>2, <2>3 DEF DriftKnown
<1>9. AnomaliesKnown'
  <2>1. \A s \in run.seen : Anomalies(s[1], s[2]) \subseteq Known \/ s[1] \in run.failures
    BY <1>1 DEF SurfaceInv, RunSurfaces, AnomaliesKnown
  <2> QED BY <1>3, <1>5, <2>1 DEF AnomaliesKnown
<1>10. FailuresStored' /\ RaisedNew'
  BY <1>1, <1>2, <1>3 DEF SurfaceInv, RunSurfaces, FailuresStored, RaisedNew, NoneOpen, Within
<1> QED BY <1>2, <1>7, <1>8, <1>9, <1>10, WithinKeeps DEF RunSurfaces

\* Steps that raise findings, and profile nothing.
LEMMA RaiseKeeps ==
    ASSUME Shape, SurfaceInv, Within, run.phase # "idle", NEW fs,
           run'.dataset = run.dataset, run'.seen = run.seen, run'.raised = Raised(fs),
           run'.failures = run.failures, run'.sources = run.sources,
           run'.todo = run.todo, bundles \subseteq bundles',
           run'.phase \notin {"copy", "manifest", "profile"},
           run'.phase \in InItem => run.phase \in InItem /\ run'.item = run.item,
           \* whose look is over has raised what it saw
           /\ run.phase \in {"pii", "drift"} /\ run'.phase \notin {"pii", "drift"}
           => Drift(run.item, dataset[run.item], run.dataset[run.item]) \subseteq fs,
           /\ run.phase \in {"pii", "drift", "anomaly"}
           /\ run'.phase \notin {"pii", "drift", "anomaly"}
           => Anomalies(run.item, run.read) \subseteq fs,
           run'.phase \in {"pii", "drift"} =>
               run.phase \in {"pii", "drift"} /\ run'.before = run.before,
           run'.phase \in {"pii", "drift", "anomaly"} => run'.read = run.read,
           FailuresStored'
    PROVE  SurfaceInv'
<1>1. Known \subseteq Known' /\ fs \subseteq Known' /\ dataset' = dataset
  BY RaisedKnown DEF Known, About, Within
<1>2. PendingUntouched'
  BY <1>1 DEF SurfaceInv, RunSurfaces, PendingUntouched, Pending
<1>3. DriftKnown'
  <2>1. \A i \in Items : \/ Drift(i, dataset[i], run.dataset[i]) \subseteq Known'
                         \/ i \in run.failures
                         \/ run'.phase \in {"pii", "drift"} /\ i = run.item
    BY <1>1 DEF SurfaceInv, RunSurfaces, DriftKnown
  <2>2. run'.phase \in {"pii", "drift"} =>
          run'.item = run.item /\ run'.before = dataset[run.item]
          /\ run.dataset[run.item] = ColumnsOf[run.read] /\ run'.read = run.read
    BY DEF SurfaceInv, RunSurfaces, DriftKnown, InItem
  <2> QED BY <1>1, <2>1, <2>2 DEF DriftKnown
<1>4. AnomaliesKnown'
  <2>1. \A s \in run.seen : \/ Anomalies(s[1], s[2]) \subseteq Known'
                            \/ s[1] \in run.failures
                            \/ /\ run'.phase \in {"pii", "drift", "anomaly"}
                               /\ s[1] = run.item /\ s[2] = run.read
    BY <1>1 DEF SurfaceInv, RunSurfaces, AnomaliesKnown
  <2>2. run'.phase \in {"pii", "drift", "anomaly"} =>
          run'.item = run.item /\ run'.read = run.read
    BY DEF InItem
  <2> QED BY <2>1, <2>2 DEF AnomaliesKnown
<1>5. RaisedNew'
  BY RaisedKnown DEF SurfaceInv, RunSurfaces, RaisedNew, NoneOpen, Within
<1> QED BY <1>2, <1>3, <1>4, <1>5, WithinKeeps DEF RunSurfaces

LEMMA DetectPiiSurfaces ==
    ASSUME Shape, SurfaceInv, DetectPii
    PROVE  SurfaceInv'
<1>1. PICK fs : fs = PiiIn(run.item, file[run.item].content)
  OBVIOUS
<1>2. /\ run.phase = "pii" /\ run'.phase = "drift" /\ run'.item = run.item
      /\ run'.read = run.read /\ run'.before = run.before /\ run'.raised = Raised(fs)
      /\ run'.dataset = run.dataset /\ run'.seen = run.seen /\ run'.todo = run.todo
      /\ run'.failures = run.failures /\ run'.sources = run.sources
  BY <1>1 DEF DetectPii, Shape, RunFields
<1>3. Within /\ bundles' = bundles
  BY DEF DetectPii, Within, db, disk, ghosts
<1>4. FailuresStored'
  BY <1>2 DEF FailuresStored
<1> QED BY <1>2, <1>3, <1>4, RaiseKeeps DEF InItem

LEMMA ReviewDriftSurfaces ==
    ASSUME Shape, SurfaceInv, ReviewDrift
    PROVE  SurfaceInv'
<1>1. PICK fs : fs = Drift(run.item, run.before, ColumnsOf[run.read])
  OBVIOUS
<1>2. /\ run.phase = "drift" /\ run'.phase = "anomaly" /\ run'.item = run.item
      /\ run'.read = run.read /\ run'.raised = Raised(fs)
      /\ run'.dataset = run.dataset /\ run'.seen = run.seen /\ run'.todo = run.todo
      /\ run'.failures = run.failures /\ run'.sources = run.sources
  BY <1>1 DEF ReviewDrift, Shape, RunFields
<1>3. Within /\ bundles' = bundles
  BY DEF ReviewDrift, Within, db, disk, ghosts
<1>4. fs = Drift(run.item, dataset[run.item], run.dataset[run.item])
  BY <1>1, <1>2 DEF SurfaceInv, RunSurfaces, DriftKnown
<1>5. FailuresStored'
  BY <1>2 DEF FailuresStored
<1> QED BY <1>2, <1>3, <1>4, <1>5, RaiseKeeps DEF InItem

LEMMA ReviewAnomaliesStep ==
    ASSUME Shape, ReviewAnomalies
    PROVE  /\ SameElse /\ run'.phase = "items" /\ run'.todo = run.todo
           /\ run'.done = run.done \cup {run.item} /\ run'.failures = run.failures
           /\ run'.dataset = run.dataset /\ run'.seen = run.seen
           /\ run'.before = Missing /\ run'.raced = FALSE
           /\ run'.raised = Raised(Anomalies(run.item, run.read))
<1> DEFINE b == BetweenItems
<1>1. run.phase = "anomaly"
  BY DEF ReviewAnomalies
<1>2. /\ DOMAIN b = RunFields /\ b.phase = "items" /\ b.strict = run.strict
      /\ b.sources = run.sources /\ b.found = run.found /\ b.todo = run.todo
      /\ b.failures = run.failures /\ b.done = run.done /\ b.dataset = run.dataset
      /\ b.seen = run.seen /\ b.before = Missing /\ b.raced = FALSE
  BY <1>1 DEF Shape, BetweenItems, RunFields
<1>3. run' = [b EXCEPT !.done = b.done \cup {run.item},
                       !.raised = Raised(Anomalies(run.item, run.read))]
  BY DEF ReviewAnomalies
<1> HIDE DEF b
<1> QED BY <1>2, <1>3 DEF SameElse, RunFields

LEMMA ReviewAnomaliesSurfaces ==
    ASSUME Shape, SurfaceInv, ReviewAnomalies
    PROVE  SurfaceInv'
<1>1. PICK fs : fs = Anomalies(run.item, run.read)
  OBVIOUS
<1>2. /\ run.phase = "anomaly" /\ run'.phase = "items" /\ run'.raised = Raised(fs)
      /\ run'.dataset = run.dataset /\ run'.seen = run.seen /\ run'.todo = run.todo
      /\ run'.failures = run.failures /\ run'.sources = run.sources
  BY <1>1, ReviewAnomaliesStep DEF ReviewAnomalies, SameElse
<1>3. Within /\ bundles' = bundles
  BY DEF ReviewAnomalies, Within, db, disk, ghosts
<1>4. FailuresStored'
  BY <1>2 DEF FailuresStored
<1> QED BY <1>1, <1>2, <1>3, <1>4, RaiseKeeps DEF InItem

LEMMA StoreCompletenessSurfaces ==
    ASSUME Shape, SurfaceInv, StoreCompleteness
    PROVE  SurfaceInv'
<1>1. run.phase = "sources" /\ Within
  BY DEF StoreCompleteness, Within, db, ghosts
<1>2. /\ run'.phase = "commit" /\ run'.failures = run.failures /\ run'.todo = run.todo
      /\ run'.sources = run.sources /\ run'.dataset = run.dataset /\ run'.seen = run.seen
      /\ run'.raised = IF run.failures # {} /\ run.strict
                       THEN Raised({Incomplete(runs)}) ELSE run.raised
      /\ bundles' = IF run.failures = {} THEN bundles
                    ELSE bundles \cup {[run |-> runs, failures |-> run.failures]}
  BY StoreStep DEF SameElse
<1>3. FailuresStored' /\ bundles \subseteq bundles'
  <2>1. CASE run.failures = {}
    BY <1>2, <2>1 DEF FailuresStored
  <2>2. CASE run.failures # {}
    <3>1. PICK b : b = [run |-> runs, failures |-> run.failures]
      OBVIOUS
    <3>2. b \in bundles' /\ b.run = runs /\ b.failures = run.failures
      BY <1>2, <2>2, <3>1
    <3>3. runs' = runs
      BY DEF StoreCompleteness
    <3> QED BY <1>2, <2>2, <3>2, <3>3 DEF FailuresStored
  <2> QED BY <2>1, <2>2
<1>4. Raised({}) = run.raised
  BY DEF Raised
<1>5. PICK fs : run'.raised = Raised(fs)
  BY <1>2, <1>4
<1> QED BY <1>1, <1>2, <1>3, <1>5, RaiseKeeps DEF InItem

\* What a run commits: its findings become tasks.
LEMMA CommitRunTasks ==
    ASSUME SurfaceInv, run.phase # "idle", NEW status, CommitRun(status)
    PROVE  About' = Known /\ OneOpenTask'
<1> DEFINE row(f) == [about |-> f, run |-> runs, status |-> "open"]
<1> DEFINE new == {row(f) : f \in run.raised}
<1>1. tasks' = tasks \cup new
  BY DEF CommitRun
<1>0. \A f : row(f).about = f
  OBVIOUS
<1> HIDE DEF row
<1>2. /\ \A f \in run.raised : \E t \in new : t.about = f
      /\ \A t \in new : t.about \in run.raised
      /\ \A t, u \in new : t.about = u.about => t = u
  BY <1>0
<1> HIDE DEF new
<1>3. About' = Known
  BY <1>1, <1>2 DEF About, Known
<1>4. \A t \in tasks, u \in new : t.status = "open" => t.about # u.about
  BY <1>2 DEF SurfaceInv, RunSurfaces, RaisedNew, NoneOpen
<1>5. OneOpenTask'
  BY <1>1, <1>2, <1>4 DEF SurfaceInv, OneOpenTask
<1> QED BY <1>3, <1>5

\* What a run commits surfaces, if its failures are told by a bundle or by a break.
LEMMA CommitRunSurfaces ==
    ASSUME Shape, SurfaceInv, run.phase \notin InItem \cup {"idle"},
           NEW status, CommitRun(status), bundles' = bundles, broken \subseteq broken',
           run.failures = {} \/ \E b \in bundles \cup broken' :
                                   b.run = runs /\ b.failures = run.failures
    PROVE  SurfaceInv'
<1> DEFINE drifts == UNION {Drift(i, dataset[i], run.dataset[i]) : i \in Items}
<1> DEFINE anomalies == UNION {Anomalies(s[1], s[2]) : s \in run.seen}
<1> DEFINE row(f) == [run |-> runs, about |-> f]
<1>1. changes' = changes \cup {row(f) : f \in drifts \cup anomalies}
  BY DEF CommitRun
<1>2. About' = Known /\ OneOpenTask'
  BY CommitRunTasks
<1>3. \A f : row(f).run = runs /\ row(f).about = f
  OBVIOUS
<1>4. ASSUME NEW i, i \in run.failures
      PROVE  \E b \in bundles \cup broken' : b.run = runs /\ i \in b.failures
  BY <1>4
<1>5. ASSUME NEW i \in Items, NEW f \in Drift(i, dataset[i], run.dataset[i])
      PROVE  f[2] = i /\ (f \in Known \/ i \in run.failures)
  <2>1. f[2] = i
    BY DEF Drift
  <2> QED BY <2>1 DEF SurfaceInv, RunSurfaces, DriftKnown, InItem
<1>6. ASSUME NEW s \in run.seen, NEW f \in Anomalies(s[1], s[2])
      PROVE  f[2] = s[1] /\ (f \in Known \/ s[1] \in run.failures)
  <2>1. f[2] = s[1]
    BY DEF Anomalies
  <2> QED BY <2>1 DEF SurfaceInv, RunSurfaces, AnomaliesKnown, InItem
<1>7. ASSUME NEW f \in drifts \cup anomalies
      PROVE  f \in Known \/ f[2] \in run.failures
  <2>1. CASE f \in drifts
    BY <1>5, <2>1
  <2>2. CASE f \in anomalies
    BY <1>6, <2>2
  <2> QED BY <2>1, <2>2
<1> HIDE DEF drifts, anomalies, row
<1>8. ASSUME NEW c \in changes'
      PROVE  \/ c.about \in Known
             \/ \E b \in bundles \cup broken' : b.run = c.run /\ c.about[2] \in b.failures
  <2>1. CASE c \in changes
    BY <2>1 DEF SurfaceInv, ChangesAnswered, Known
  <2>2. ASSUME NEW f \in drifts \cup anomalies, c = row(f)
        PROVE  \/ c.about \in Known
               \/ \E b \in bundles \cup broken' : b.run = c.run /\ c.about[2] \in b.failures
    <3>1. c.run = runs /\ c.about = f
      BY <1>3, <2>2
    <3> QED BY <1>4, <1>7, <3>1
  <2> QED BY <1>1, <2>1, <2>2
<1>9. ChangesAnswered'
  BY <1>2, <1>8 DEF ChangesAnswered
<1>10. run'.phase = "idle"
  BY DEF CommitRun, Idle
<1> QED BY <1>2, <1>9, <1>10 DEF SurfaceInv

LEMMA CommitSurfaces ==
    ASSUME Shape, SurfaceInv, Commit
    PROVE  SurfaceInv'
<1>1. run.phase = "commit" /\ bundles' = bundles /\ broken' = broken
  BY DEF Commit, disk
<1>2. run.failures = {} \/ \E b \in bundles \cup broken' :
                              b.run = runs /\ b.failures = run.failures
  BY <1>1 DEF SurfaceInv, RunSurfaces, FailuresStored
<1> QED BY <1>1, <1>2, CommitRunSurfaces DEF Commit, InItem

LEMMA BreakOffSurfaces ==
    ASSUME Shape, SurfaceInv, BreakOff
    PROVE  SurfaceInv'
<1>1. PICK b : b = [run |-> runs, failures |-> run.failures]
  OBVIOUS
<1>2. run.phase \notin InItem \cup {"idle"} /\ bundles' = bundles /\ broken' = broken \cup {b}
  BY <1>1 DEF BreakOff, Breakable, InItem, disk
<1>3. b.run = runs /\ b.failures = run.failures
  BY <1>1
<1> QED BY <1>2, <1>3, CommitRunSurfaces DEF BreakOff

LEMMA CrashSurfaces ==
    ASSUME SurfaceInv, Crash
    PROVE  SurfaceInv'
<1>1. Within /\ bundles' = bundles /\ run'.phase = "idle"
  BY DEF Crash, Within, db, Idle
<1> QED BY <1>1, WithinKeeps

LEMMA DecideTaskSurfaces ==
    ASSUME Shape, SurfaceInv, DecideTask
    PROVE  SurfaceInv'
<1>1. PICK t \in tasks :
        t.status = "open" /\ tasks' = (tasks \ {t}) \cup {[t EXCEPT !.status = "decided"]}
  BY DEF DecideTask
<1>2. PICK d : d = [t EXCEPT !.status = "decided"]
  OBVIOUS
<1>3. d.about = t.about /\ d.status = "decided"
  BY <1>2 DEF Shape, TaskFields
<1>4. tasks' = (tasks \ {t}) \cup {d}
  BY <1>1, <1>2
<1>5. About' = About
  BY <1>3, <1>4 DEF About
<1>6. \A u \in tasks' : u.status = "open" => u \in tasks
  BY <1>3, <1>4
<1>7. OneOpenTask'
  BY <1>6 DEF SurfaceInv, OneOpenTask
<1>8. UNCHANGED <<dataset, run, runs, bundles, changes, broken>>
  BY DEF DecideTask, disk, ghosts
<1>9. \A f : NoneOpen(f) => NoneOpen(f)'
  BY <1>6 DEF NoneOpen
<1>10. ChangesAnswered'
  BY <1>5, <1>8 DEF SurfaceInv, ChangesAnswered
<1>11. RunSurfaces => RunSurfaces'
  <2>1. Known' = Known
    BY <1>5, <1>8 DEF Known
  <2>2. RaisedNew => RaisedNew'
    BY <1>8, <1>9 DEF RaisedNew
  <2> QED BY <1>8, <2>1, <2>2 DEF RunSurfaces, PendingUntouched, Pending, DriftKnown,
     AnomaliesKnown, FailuresStored
<1> QED BY <1>7, <1>8, <1>10, <1>11 DEF SurfaceInv

LEMMA EditSurfaces ==
    ASSUME Shape, SurfaceInv, Edit
    PROVE  SurfaceInv'
<1>1. Within /\ bundles' = bundles /\ runs' = runs
  BY DEF Edit, Within, db, disk, ghosts
<1>2. run'.phase = run.phase
      /\ (run.phase # "idle" =>
            /\ run'.item = run.item /\ run'.read = run.read /\ run'.before = run.before
            /\ run'.sources = run.sources /\ run'.todo = run.todo
            /\ run'.failures = run.failures /\ run'.dataset = run.dataset
            /\ run'.seen = run.seen /\ run'.raised = run.raised)
  BY DEF Edit, Shape, RunFields
<1>3. run'.phase # "idle" => RunSurfaces'
  BY <1>1, <1>2 DEF SurfaceInv, RunSurfaces, PendingUntouched, Pending, DriftKnown, Known,
     About, AnomaliesKnown, FailuresStored, RaisedNew, NoneOpen, Within
<1> QED BY <1>1, <1>3, WithinKeeps

LEMMA StutterSurfaces ==
    ASSUME SurfaceInv, UNCHANGED vars
    PROVE  SurfaceInv'
<1>1. Within /\ bundles' = bundles /\ run' = run /\ runs' = runs
  BY DEF vars, disk, db, ghosts, Within
<1>2. run'.phase # "idle" => RunSurfaces'
  BY <1>1 DEF SurfaceInv, RunSurfaces, PendingUntouched, Pending, DriftKnown, Known,
     About, AnomaliesKnown, FailuresStored, RaisedNew, NoneOpen, Within
<1> QED BY <1>1, <1>2, WithinKeeps

\* A change of columns or an anomaly has a task, unless the run that committed it
\* failed on that item: the bundle of that run names it, or the run broke off; and no
\* finding has two open tasks (run_processor.py:735).
THEOREM FindingsAreAsked == Spec => []FindingsSurface
<1>1. Init => SurfaceInv
  BY DEF Init, SurfaceInv, Idle, ChangesAnswered, OneOpenTask
<1>2. Shape /\ SurfaceInv /\ [Next]_vars => SurfaceInv'
  BY StartSurfaces, DiscoverSurfaces, DiscoveryFailsSurfaces, BeginItemSurfaces,
     CopySurfaces, ProfileSurfaces, DetectPiiSurfaces, ReviewDriftSurfaces,
     ReviewAnomaliesSurfaces, SkipSurfaces, NextSourceSurfaces,
     StoreCompletenessSurfaces, CommitSurfaces, BreakOffSurfaces, CrashSurfaces,
     DecideTaskSurfaces, EditSurfaces, StutterSurfaces DEF Next, Ingest
<1>3. SurfaceInv => FindingsSurface
  BY DEF SurfaceInv, ChangesAnswered, OneOpenTask, FindingsSurface
<1> QED BY ShapeInvariant, <1>1, <1>2, <1>3, PTL DEF Spec

-----------------------------------------------------------------------------
(* Artifacts *)

ArtifactFields == {"item", "copy", "raw", "manifest", "raced"}

\* Copies have numbers of their own.
Numbered ==
    /\ IsFiniteSet(artifact)
    /\ \A a \in artifact :
         DOMAIN a = ArtifactFields /\ a.copy \in 1..Cardinality(artifact)
    /\ \A a, b \in artifact : a.copy = b.copy => a = b

\* What a run is about to copy is not there, and changes only under its eyes.
CopyDue ==
    run.phase = "copy" =>
        /\ Existing(run.item, run.hash) = {}
        /\ run.raced \/ file[run.item].content = run.hash

\* What a run is about to describe is the one copy the description fits.
Described(a) ==
    /\ a.copy = run.copy /\ a.item = run.item
    /\ a.raced \/ a.raw = run.hash
    /\ \A b \in artifact : b.item = run.item /\ b.manifest = run.hash => b = a

ManifestDue == run.phase = "manifest" => \E a \in artifact : Described(a)

ArtifactInv == Numbered /\ CopyDue /\ ManifestDue /\ ManifestTellsRaw

\* Writing a manifest replaces one artifact.
LEMMA ManifestWritten ==
    ASSUME Numbered, NEW a \in artifact, a.copy = run.copy, NEW m,
           artifact' = WithManifest(m)
    PROVE  \E d : /\ artifact' = (artifact \ {a}) \cup {d}
                  /\ DOMAIN d = ArtifactFields /\ d.copy = a.copy /\ d.item = a.item
                  /\ d.raw = a.raw /\ d.raced = a.raced /\ d.manifest = m
                  /\ IsFiniteSet(artifact') /\ Cardinality(artifact') = Cardinality(artifact)
<1>1. PICK d : d = [a EXCEPT !.manifest = m]
  OBVIOUS
<1>2. /\ DOMAIN d = ArtifactFields /\ d.copy = a.copy /\ d.item = a.item
      /\ d.raw = a.raw /\ d.raced = a.raced /\ d.manifest = m
  BY <1>1 DEF Numbered, ArtifactFields
<1>3. artifact' = (artifact \ {a}) \cup {d}
  BY <1>1 DEF Numbered, WithManifest
<1>4. d \notin artifact \ {a}
  BY <1>2 DEF Numbered
<1>5. /\ IsFiniteSet(artifact \ {a})
      /\ Cardinality(artifact \ {a}) = Cardinality(artifact) - 1
  BY FS_RemoveElement DEF Numbered
<1>6. /\ IsFiniteSet((artifact \ {a}) \cup {d})
      /\ Cardinality((artifact \ {a}) \cup {d}) = Cardinality(artifact \ {a}) + 1
  BY <1>4, <1>5, FS_AddElement
<1>7. Cardinality(artifact) \in Nat
  BY FS_CardinalityType DEF Numbered
<1> QED BY <1>2, <1>3, <1>5, <1>6, <1>7

\* Torn manifests, and steps that leave bronze alone.
LEMMA NumberedAfter ==
    ASSUME Numbered, NEW a \in artifact, NEW d,
           artifact' = (artifact \ {a}) \cup {d},
           DOMAIN d = ArtifactFields, d.copy = a.copy,
           IsFiniteSet(artifact'), Cardinality(artifact') = Cardinality(artifact)
    PROVE  Numbered'
BY DEF Numbered

LEMMA TornKeeps ==
    ASSUME ArtifactInv, run.phase = "manifest", artifact' = WithManifest(Torn)
    PROVE  Numbered' /\ ManifestTellsRaw'
<1>1. PICK a \in artifact : Described(a)
  BY DEF ArtifactInv, ManifestDue
<1>2. PICK d : /\ artifact' = (artifact \ {a}) \cup {d}
               /\ DOMAIN d = ArtifactFields /\ d.copy = a.copy /\ d.item = a.item
               /\ d.raw = a.raw /\ d.raced = a.raced /\ d.manifest = Torn
               /\ IsFiniteSet(artifact') /\ Cardinality(artifact') = Cardinality(artifact)
  BY <1>1, ManifestWritten DEF Described, ArtifactInv
<1>3. Numbered'
  BY <1>2, NumberedAfter DEF ArtifactInv
<1>4. \A b \in artifact' : b.manifest \in Contents => b \in artifact
  BY <1>2, IngestAssumption
<1>5. ManifestTellsRaw'
  BY <1>4 DEF ArtifactInv, ManifestTellsRaw
<1> QED BY <1>3, <1>5

LEMMA WriteManifestTells ==
    ASSUME Shape, ArtifactInv, WriteManifest
    PROVE  ArtifactInv'
<1>1. run.phase = "manifest" /\ artifact' = WithManifest(run.hash) /\ run.hash \in Contents
      /\ run'.phase = "profile"
  BY DEF WriteManifest, Shape, RunFields, InItem
<1>2. PICK a \in artifact : Described(a)
  BY <1>1 DEF ArtifactInv, ManifestDue
<1>3. PICK d : /\ artifact' = (artifact \ {a}) \cup {d}
               /\ DOMAIN d = ArtifactFields /\ d.copy = a.copy /\ d.item = a.item
               /\ d.raw = a.raw /\ d.raced = a.raced /\ d.manifest = run.hash
               /\ IsFiniteSet(artifact') /\ Cardinality(artifact') = Cardinality(artifact)
  BY <1>1, <1>2, ManifestWritten DEF Described, ArtifactInv
<1>4. Numbered'
  BY <1>3, NumberedAfter DEF ArtifactInv
<1>5. ManifestTellsRaw'
  <2>1. d.raced \/ d.raw = d.manifest
    BY <1>2, <1>3 DEF Described
  <2>2. \A b \in artifact : b # a /\ b.item = d.item => b.manifest # d.manifest
    BY <1>2, <1>3 DEF Described
  <2>3. \A b \in artifact : b.manifest \in Contents => b.raced \/ b.raw = b.manifest
    BY DEF ArtifactInv, ManifestTellsRaw
  <2>4. \A b, c \in artifact :
          b.manifest \in Contents /\ b.item = c.item /\ b.manifest = c.manifest => b = c
    BY DEF ArtifactInv, ManifestTellsRaw
  <2>5. \A b \in artifact' : b.manifest \in Contents => b.raced \/ b.raw = b.manifest
    BY <1>3, <2>1, <2>3
  <2>6. \A b, c \in artifact' :
          b.manifest \in Contents /\ b.item = c.item /\ b.manifest = c.manifest => b = c
    BY <1>3, <2>2, <2>4
  <2> QED BY <2>5, <2>6 DEF ManifestTellsRaw
<1> QED BY <1>1, <1>4, <1>5 DEF ArtifactInv, CopyDue, ManifestDue

LEMMA CopyTells ==
    ASSUME Shape, ArtifactInv, Copy
    PROVE  ArtifactInv'
<1>1. PICK n : n = Cardinality(artifact) + 1
  OBVIOUS
<1>2. PICK d : d = [item |-> run.item, copy |-> n, manifest |-> NoManifest,
                    raw |-> file[run.item].content, raced |-> run.raced]
  OBVIOUS
<1>3. /\ run.phase = "copy" /\ artifact' = artifact \cup {d}
      /\ run'.phase = "manifest" /\ run'.copy = n
      /\ run'.item = run.item /\ run'.hash = run.hash
  BY <1>1, <1>2 DEF Copy, Shape, RunFields
<1>4. /\ DOMAIN d = ArtifactFields /\ d.item = run.item /\ d.copy = n
      /\ d.manifest = NoManifest /\ d.raw = file[run.item].content /\ d.raced = run.raced
  BY <1>2 DEF ArtifactFields
<1>5. Cardinality(artifact) \in Nat
  BY FS_CardinalityType DEF ArtifactInv, Numbered
<1>6. \A a \in artifact : a.copy # n /\ a.copy \in 1..n
  BY <1>1, <1>5 DEF ArtifactInv, Numbered
<1>7. IsFiniteSet(artifact') /\ Cardinality(artifact') = n
  <2>1. d \notin artifact
    BY <1>4, <1>6
  <2> QED BY <1>1, <1>3, <2>1, FS_AddElement DEF ArtifactInv, Numbered
<1>8. Numbered'
  BY <1>1, <1>3, <1>4, <1>5, <1>6, <1>7 DEF ArtifactInv, Numbered
<1>9. d.manifest \notin Contents
  BY <1>4, IngestAssumption
<1>10. ManifestTellsRaw'
  BY <1>3, <1>9 DEF ArtifactInv, ManifestTellsRaw
<1>11. ManifestDue'
  <2>1. d.raced \/ d.raw = run.hash
    BY <1>3, <1>4 DEF ArtifactInv, CopyDue
  <2>2. run.hash \in Contents
    BY <1>3 DEF Shape, InItem
  <2>3. \A b \in artifact : ~(b.item = run.item /\ b.manifest = run.hash)
    BY <1>3 DEF ArtifactInv, CopyDue, Existing
  <2>4. \A b \in artifact' : b.item = run.item /\ b.manifest = run.hash => b = d
    BY <1>3, <2>3
  <2>5. Described(d)'
    BY <1>3, <1>4, <2>1, <2>4 DEF Described
  <2> QED BY <1>3, <2>5 DEF ManifestDue
<1>12. CopyDue'
  BY <1>3 DEF CopyDue
<1> QED BY <1>8, <1>10, <1>11, <1>12 DEF ArtifactInv

LEMMA BeginItemTells ==
    ASSUME Shape, ArtifactInv, BeginItem
    PROVE  ArtifactInv'
<1>1. UNCHANGED <<artifact, file>>
  BY DEF BeginItem, disk, owner
<1>2. PICK i \in run.todo :
        /\ run'.item = i /\ run'.hash = file[i].content /\ file[i].content \in Contents
        /\ run'.phase = "copy" => Existing(i, file[i].content) = {}
        /\ run'.phase = "manifest" =>
             \E a \in Existing(i, file[i].content) : run'.copy = a.copy
  BY BeginStep
<1>3. Numbered' /\ ManifestTellsRaw'
  BY <1>1 DEF ArtifactInv, Numbered, ManifestTellsRaw
<1>4. CopyDue'
  BY <1>1, <1>2 DEF CopyDue, Existing
<1>5. ManifestDue'
  <2> SUFFICES ASSUME run'.phase = "manifest" PROVE \E a \in artifact' : Described(a)'
    BY DEF ManifestDue
  <2>1. PICK a \in Existing(i, file[i].content) : run'.copy = a.copy
    BY <1>2
  <2>2. a \in artifact /\ a.item = i /\ a.manifest = file[i].content
    BY DEF Existing
  <2>3. /\ a.raced \/ a.raw = a.manifest
        /\ \A b \in artifact : b.item = a.item /\ b.manifest = a.manifest => b = a
    BY <1>2, <2>2 DEF ArtifactInv, ManifestTellsRaw
  <2>4. Described(a)'
    BY <1>1, <1>2, <2>1, <2>2, <2>3 DEF Described
  <2> QED BY <1>1, <2>2, <2>4
<1> QED BY <1>3, <1>4, <1>5 DEF ArtifactInv

\* An edit while a run copies is seen as such.
LEMMA EditTells ==
    ASSUME Shape, ArtifactInv, Edit
    PROVE  ArtifactInv'
<1>1. artifact' = artifact
  BY DEF Edit, disk
<1>2. /\ run'.phase = run.phase
      /\ run.phase # "idle" =>
           run'.item = run.item /\ run'.hash = run.hash /\ run'.copy = run.copy
  BY DEF Edit, Shape, RunFields
<1>3. Numbered' /\ ManifestTellsRaw' /\ ManifestDue'
  BY <1>1, <1>2 DEF ArtifactInv, Numbered, ManifestTellsRaw, ManifestDue, Described
<1>4. CopyDue'
  <2> SUFFICES ASSUME run.phase = "copy" PROVE CopyDue'
    BY <1>2 DEF CopyDue
  <2>1. PICK i \in Items, c \in Contents \cup {Missing} :
          /\ file' = [file EXCEPT ![i] = [content |-> c, mtime |-> edits + 1]]
          /\ run' = IF run.phase = "copy" /\ run.item = i
                    THEN [run EXCEPT !.raced = TRUE] ELSE run
    BY DEF Edit
  <2>2. run'.raced \/ file'[run.item].content = run.hash
    <3>1. CASE run.item = i
      BY <2>1, <3>1 DEF Shape, RunFields
    <3>2. CASE run.item # i
      BY <2>1, <3>2 DEF Shape, ArtifactInv, CopyDue, InItem
    <3> QED BY <3>1, <3>2
  <2> QED BY <1>1, <1>2, <2>2 DEF ArtifactInv, CopyDue, Existing
<1> QED BY <1>3, <1>4 DEF ArtifactInv

\* Steps that leave bronze and its files alone, and are about to write nothing.
LEMMA OtherTells ==
    ASSUME ArtifactInv, UNCHANGED artifact, run'.phase \notin {"copy", "manifest"}
    PROVE  ArtifactInv'
BY DEF ArtifactInv, Numbered, ManifestTellsRaw, CopyDue, ManifestDue

LEMMA FaultTells ==
    ASSUME Shape, ArtifactInv, ItemFails \/ ItemFault \/ Crash
    PROVE  ArtifactInv'
<1>1. run'.phase \notin {"copy", "manifest"}
  <2>1. CASE Crash
    BY <2>1 DEF Crash, Idle
  <2>2. CASE ItemFails \/ ItemFault
    <3>1. PICK i : Skipped(i) /\ run.phase # "idle"
      BY <2>2, ItemFailsStep DEF InItem
    <3> QED BY <3>1, SkipStep
  <2> QED BY <2>1, <2>2
<1>2. UNCHANGED artifact \/ (run.phase = "manifest" /\ artifact' = WithManifest(Torn))
  BY DEF ItemFails, ItemFault, Crash, disk
<1> QED BY <1>1, <1>2, OtherTells, TornKeeps DEF ArtifactInv, CopyDue, ManifestDue

LEMMA StepTells == Shape /\ ArtifactInv /\ [Next]_vars => ArtifactInv'
<1> SUFFICES ASSUME Shape, ArtifactInv, [Next]_vars PROVE ArtifactInv'
  OBVIOUS
<1>1. CASE Start \/ Discover \/ DiscoveryFails \/ Profile \/ DetectPii \/ ReviewDrift
           \/ NextSource \/ Commit \/ BreakOff
  <2>1. UNCHANGED artifact
    BY <1>1 DEF Start, Discover, DiscoveryFails, Profile, Profiled, DetectPii, ReviewDrift,
       NextSource, Commit, BreakOff, disk
  <2>2. run'.phase \notin {"copy", "manifest"}
    <3>1. CASE Start \/ Commit \/ BreakOff
      BY <3>1 DEF Start, NewRun, Commit, BreakOff, CommitRun, Idle
    <3>2. CASE Discover \/ DiscoveryFails \/ NextSource
      BY <3>2 DEF Discover, DiscoveryFails, NextSource, Shape, RunFields
    <3>3. CASE Profile \/ DetectPii \/ ReviewDrift
      BY <3>3 DEF Profile, Profiled, DetectPii, ReviewDrift, Shape, RunFields
    <3> QED BY <1>1, <3>1, <3>2, <3>3
  <2> QED BY <2>1, <2>2, OtherTells
<1>2. CASE ReviewAnomalies
  BY <1>2, ReviewAnomaliesStep, OtherTells DEF ReviewAnomalies, disk
<1>3. CASE StoreCompleteness
  BY <1>3, StoreStep, OtherTells DEF StoreCompleteness
<1>4. CASE DecideTask \/ UNCHANGED vars
  <2>1. UNCHANGED <<artifact, file, run>>
    BY <1>4 DEF DecideTask, vars, owner, disk
  <2> QED BY <2>1 DEF ArtifactInv, Numbered, ManifestTellsRaw, CopyDue, Existing,
         ManifestDue, Described
<1> QED BY <1>1, <1>2, <1>3, <1>4, WriteManifestTells, CopyTells, BeginItemTells, EditTells,
           FaultTells DEF Next, Ingest

\* The manifest of an artifact states the hash of the bytes beside it unless the
\* source changed in between, and a content is copied once (bronze.py:42 and :59).
THEOREM ManifestsTellTruth == Spec => []ManifestTellsRaw
<1>1. Init => ArtifactInv
  BY FS_EmptySet DEF Init, ArtifactInv, Numbered, CopyDue, ManifestDue, ManifestTellsRaw, Idle
<1>2. ArtifactInv => ManifestTellsRaw
  BY DEF ArtifactInv
<1> QED BY ShapeInvariant, StepTells, <1>1, <1>2, PTL DEF Spec

-----------------------------------------------------------------------------
(* Strict runs *)

\* An item is in bronze, its manifest written or cut off.
HasArtifact(i) == \E a \in artifact : a.item = i /\ a.manifest \in Contents \cup {Torn}

\* What was found is still to do, in work, done or a failure.
Attempted ==
    \A i \in run.found : \/ i \in run.todo \/ i \in run.done \/ i \in run.failures
                         \/ run.phase \in InItem /\ i = run.item

DoneIsThere ==
    /\ run.done \subseteq Items
    /\ \A i \in run.done : run.dataset[i] # Missing /\ HasArtifact(i)
    /\ run.phase \in {"profile", "pii", "drift", "anomaly"} => HasArtifact(run.item)
    /\ run.phase \in {"pii", "drift", "anomaly"} => run.dataset[run.item] # Missing

FailureAsked ==
    run.phase = "commit" /\ run.strict /\ run.failures # {} => Incomplete(runs) \in Known

CompleteInv ==
    /\ run.phase # "idle" => Attempted /\ DoneIsThere /\ FailureAsked
    /\ StrictRunIsComplete

\* Artifacts stay, and their manifests.
LEMMA ArtifactsStay ==
    ASSUME Shape, ArtifactInv, [Next]_vars
    PROVE  \A i : HasArtifact(i) => HasArtifact(i)'
<1>1. CASE UNCHANGED artifact
  BY <1>1 DEF HasArtifact
<1>2. CASE Copy
  BY <1>2 DEF Copy, HasArtifact
<1>3. ASSUME NEW m \in Contents \cup {Torn}, run.phase = "manifest",
             artifact' = WithManifest(m)
      PROVE  \A i : HasArtifact(i) => HasArtifact(i)'
  <2>1. PICK a \in artifact : Described(a)
    BY <1>3 DEF ArtifactInv, ManifestDue
  <2>2. PICK d : /\ artifact' = (artifact \ {a}) \cup {d}
                 /\ d.item = a.item /\ d.manifest = m
    BY <1>3, <2>1, ManifestWritten DEF Described, ArtifactInv
  <2> QED BY <1>3, <2>2 DEF HasArtifact
<1>4. CASE WriteManifest
  BY <1>3, <1>4 DEF WriteManifest, Shape, InItem
<1>5. CASE ItemFault \/ Crash
  BY <1>1, <1>3, <1>5 DEF ItemFault, Crash
<1> QED BY <1>1, <1>2, <1>4, <1>5 DEF Next, Ingest, vars, disk, Start, Discover, BeginItem,
  Profile, Profiled, DetectPii, ReviewDrift, ReviewAnomalies, ItemFails, NextSource,
  StoreCompleteness, Commit, DiscoveryFails, BreakOff, DecideTask, Edit

\* Steps inside a run leave the last one as it is.
LEMMA LastStays ==
    ASSUME Shape, ArtifactInv, [Next]_vars, CompleteInv,
           UNCHANGED <<dataset, last, broken>>, About' = About
    PROVE  StrictRunIsComplete'
<1>1. \A i : HasArtifact(i) => HasArtifact(i)'
  BY ArtifactsStay
<1>2. last.status = "succeeded" /\ last.strict =>
        \A i \in last.found : dataset[i] # Missing /\ HasArtifact(i)
  BY DEF CompleteInv, StrictRunIsComplete, HasArtifact
<1>3. last.status = "failed" /\ (\A b \in broken : b.run # last.id) =>
        last.strict /\ Incomplete(last.id) \in About
  BY DEF CompleteInv, StrictRunIsComplete, About
<1>4. last.status = "succeeded" /\ last.strict =>
        \A i \in last.found : dataset'[i] # Missing /\ HasArtifact(i)'
  BY <1>1, <1>2
<1>5. Incomplete(last.id) \in About => \E t \in tasks' : t.about = Incomplete(last.id)
  BY DEF About
<1> QED BY <1>3, <1>4, <1>5 DEF StrictRunIsComplete, HasArtifact, Incomplete

\* Steps between items.
LEMMA BetweenKeeps ==
    ASSUME Shape, ArtifactInv, [Next]_vars, CompleteInv, run.phase # "idle",
           UNCHANGED <<dataset, last, broken>>, About' = About,
           run'.phase \notin InItem \cup {"commit"},
           run'.done = run.done, run'.dataset = run.dataset,
           Attempted'
    PROVE  CompleteInv'
<1>1. StrictRunIsComplete'
  BY LastStays
<1>2. DoneIsThere'
  BY ArtifactsStay DEF CompleteInv, DoneIsThere, InItem
<1>3. FailureAsked'
  BY DEF FailureAsked
<1> QED BY <1>1, <1>2, <1>3 DEF CompleteInv

LEMMA StepComplete == Shape /\ ArtifactInv /\ CompleteInv /\ [Next]_vars => CompleteInv'
<1> SUFFICES ASSUME Shape, ArtifactInv, CompleteInv, [Next]_vars PROVE CompleteInv'
  OBVIOUS
<1>1. CASE Start
  <2>1. /\ run'.phase = "sources" /\ run'.todo = {} /\ run'.found = {} /\ run'.done = {}
        /\ run'.failures = {}
    BY <1>1 DEF Start, NewRun
  <2>2. UNCHANGED <<dataset, last, broken, tasks>>
    BY <1>1 DEF Start, db, ghosts
  <2>3. StrictRunIsComplete'
    BY <2>2, LastStays DEF About
  <2> QED BY <2>1, <2>3 DEF CompleteInv, Attempted, DoneIsThere, FailureAsked
<1>2. CASE Discover
  <2>1. PICK s \in run.sources :
          run' = [run EXCEPT !.phase = "items", !.sources = @ \ {s},
                             !.todo = Listed(s), !.found = @ \cup Listed(s)]
    BY <1>2 DEF Discover
  <2>2. /\ run.phase = "sources" /\ run.todo = {}
        /\ UNCHANGED <<dataset, last, broken, tasks>>
    BY <1>2 DEF Discover, Shape, db, ghosts
  <2>3. /\ run'.phase = "items" /\ run'.todo = Listed(s)
        /\ run'.found = run.found \cup Listed(s) /\ run'.done = run.done
        /\ run'.failures = run.failures /\ run'.dataset = run.dataset
    BY <2>1, <2>2 DEF Shape, RunFields
  <2>4. Attempted'
    BY <2>2, <2>3 DEF CompleteInv, Attempted, InItem
  <2> QED BY <2>2, <2>3, <2>4, BetweenKeeps DEF About, InItem
<1>3. CASE DiscoveryFails
  <2>1. PICK s \in run.sources :
          run' = [run EXCEPT !.sources = @ \ {s}, !.failures = @ \cup {s}]
    BY <1>3 DEF DiscoveryFails
  <2>2. /\ run.phase = "sources" /\ UNCHANGED <<dataset, last, broken, tasks>>
    BY <1>3 DEF DiscoveryFails, db, ghosts
  <2>3. /\ run'.phase = "sources" /\ run'.todo = run.todo /\ run'.found = run.found
        /\ run'.done = run.done /\ run'.failures = run.failures \cup {s}
        /\ run'.dataset = run.dataset
    BY <2>1, <2>2 DEF Shape, RunFields
  <2>4. Attempted'
    BY <2>2, <2>3 DEF CompleteInv, Attempted, InItem
  <2> QED BY <2>2, <2>3, <2>4, BetweenKeeps DEF About, InItem
<1>4. CASE BeginItem
  <2>1. PICK i \in run.todo :
          /\ SameElse /\ run'.phase \in {"copy", "manifest"}
          /\ run'.todo = run.todo \ {i} /\ run'.item = i
          /\ run'.failures = run.failures /\ run'.done = run.done
          /\ run'.dataset = run.dataset
    BY <1>4, BeginStep
  <2>2. run.phase = "items" /\ UNCHANGED <<dataset, last, broken, tasks>>
    BY <1>4 DEF BeginItem, db, ghosts
  <2>3. Attempted'
    BY <2>1, <2>2 DEF CompleteInv, Attempted, InItem, SameElse
  <2>4. DoneIsThere' /\ FailureAsked'
    BY <2>1, <2>2, ArtifactsStay DEF CompleteInv, DoneIsThere, FailureAsked
  <2> QED BY <2>2, <2>3, <2>4, LastStays DEF CompleteInv, About
<1>5. CASE Copy \/ WriteManifest
  <2>1. /\ run.phase \in {"copy", "manifest"} /\ run'.phase \in {"manifest", "profile"}
        /\ run'.todo = run.todo /\ run'.item = run.item /\ run'.failures = run.failures
        /\ run'.found = run.found /\ run'.done = run.done /\ run'.dataset = run.dataset
        /\ UNCHANGED <<dataset, last, broken, tasks>>
    BY <1>5 DEF Copy, WriteManifest, Shape, RunFields, db, ghosts
  <2>2. Attempted'
    BY <2>1 DEF CompleteInv, Attempted, InItem
  <2>3. run'.phase = "profile" => HasArtifact(run.item)'
    <3> SUFFICES ASSUME run'.phase = "profile" PROVE HasArtifact(run.item)'
      OBVIOUS
    <3>1. /\ run.phase = "manifest" /\ artifact' = WithManifest(run.hash)
          /\ run.hash \in Contents
      BY <1>5 DEF Copy, WriteManifest, Shape, RunFields, InItem
    <3>2. PICK a \in artifact : Described(a)
      BY <3>1 DEF ArtifactInv, ManifestDue
    <3>3. PICK d : /\ artifact' = (artifact \ {a}) \cup {d}
                   /\ d.item = a.item /\ d.manifest = run.hash
      BY <3>1, <3>2, ManifestWritten DEF Described, ArtifactInv
    <3>4. d.item = run.item
      BY <3>2, <3>3 DEF Described
    <3> QED BY <2>1, <3>1, <3>3, <3>4 DEF HasArtifact
  <2>4. DoneIsThere' /\ FailureAsked'
    BY <2>1, <2>3, ArtifactsStay DEF CompleteInv, DoneIsThere, FailureAsked
  <2> QED BY <2>1, <2>2, <2>4, LastStays DEF CompleteInv, About
<1>6. CASE Profile
  <2>1. PICK c : c = file[run.item].content
    OBVIOUS
  <2>2. /\ run.phase = "profile" /\ run.item \in Items /\ c \in Contents
        /\ DOMAIN run.dataset = Items
    BY <1>6, <2>1 DEF Profile, Profiled, Shape, InItem
  <2>3. /\ run'.phase = "pii" /\ run'.todo = run.todo /\ run'.item = run.item
        /\ run'.failures = run.failures /\ run'.found = run.found /\ run'.done = run.done
        /\ run'.dataset = [run.dataset EXCEPT ![run.item] = ColumnsOf[c]]
        /\ UNCHANGED <<dataset, last, broken, tasks>>
    BY <1>6, <2>1 DEF Profile, Profiled, Shape, RunFields, db, ghosts
  <2>4. ColumnsOf[c] # Missing
    BY <2>2, IngestAssumption DEF Columns
  <2>5. Attempted'
    BY <2>2, <2>3 DEF CompleteInv, Attempted, InItem
  <2>6. DoneIsThere' /\ FailureAsked'
    BY <2>2, <2>3, <2>4, ArtifactsStay DEF CompleteInv, DoneIsThere, FailureAsked
  <2> QED BY <2>3, <2>5, <2>6, LastStays DEF CompleteInv, About
<1>7. CASE DetectPii \/ ReviewDrift
  <2>1. /\ run.phase \in {"pii", "drift"} /\ run'.phase \in {"drift", "anomaly"}
        /\ run'.todo = run.todo /\ run'.item = run.item /\ run'.failures = run.failures
        /\ run'.found = run.found /\ run'.done = run.done /\ run'.dataset = run.dataset
        /\ UNCHANGED <<dataset, last, broken, tasks>>
    BY <1>7 DEF DetectPii, ReviewDrift, Shape, RunFields, db, ghosts
  <2>2. Attempted'
    BY <2>1 DEF CompleteInv, Attempted, InItem
  <2>3. DoneIsThere' /\ FailureAsked'
    BY <2>1, ArtifactsStay DEF CompleteInv, DoneIsThere, FailureAsked
  <2> QED BY <2>1, <2>2, <2>3, LastStays DEF CompleteInv, About
<1>8. CASE ReviewAnomalies
  <2>1. /\ run.phase = "anomaly" /\ run.item \in Items
        /\ UNCHANGED <<dataset, last, broken, tasks>>
    BY <1>8 DEF ReviewAnomalies, Shape, InItem, db, ghosts
  <2>2. /\ run'.phase = "items" /\ run'.todo = run.todo /\ run'.failures = run.failures
        /\ run'.found = run.found /\ run'.done = run.done \cup {run.item}
        /\ run'.dataset = run.dataset
    BY <1>8, ReviewAnomaliesStep DEF SameElse
  <2>3. Attempted'
    BY <2>1, <2>2 DEF CompleteInv, Attempted, InItem
  <2>4. DoneIsThere' /\ FailureAsked'
    BY <2>1, <2>2, ArtifactsStay DEF CompleteInv, DoneIsThere, FailureAsked
  <2> QED BY <2>1, <2>3, <2>4, LastStays DEF CompleteInv, About
<1>9. CASE ItemFails \/ ItemFault
  <2>1. PICK i : /\ Skipped(i) /\ run.phase \in InItem \cup {"items"}
                 /\ run.phase \in InItem => i = run.item
    BY <1>9, ItemFailsStep
  <2>2. /\ run'.phase = "items" /\ run'.todo = run.todo \ {i}
        /\ run'.failures = run.failures \cup {i} /\ run'.found = run.found
        /\ run'.done = run.done /\ run'.dataset = run.dataset
    BY <2>1, SkipStep DEF SameElse, InItem
  <2>3. UNCHANGED <<dataset, last, broken, tasks>>
    BY <1>9 DEF ItemFails, ItemFault, db, ghosts
  <2>4. Attempted'
    BY <2>1, <2>2 DEF CompleteInv, Attempted, InItem
  <2> QED BY <2>1, <2>2, <2>3, <2>4, BetweenKeeps DEF About, InItem
<1>10. CASE NextSource
  <2>1. /\ run.phase = "items" /\ run'.phase = "sources" /\ run'.todo = run.todo
        /\ run'.failures = run.failures /\ run'.found = run.found
        /\ run'.done = run.done /\ run'.dataset = run.dataset
        /\ UNCHANGED <<dataset, last, broken, tasks>>
    BY <1>10 DEF NextSource, Shape, RunFields, db, ghosts
  <2>2. Attempted'
    BY <2>1 DEF CompleteInv, Attempted, InItem
  <2> QED BY <2>1, <2>2, BetweenKeeps DEF About, InItem
<1>11. CASE StoreCompleteness
  <2>1. run.phase = "sources" /\ UNCHANGED <<dataset, last, broken, tasks, runs>>
    BY <1>11 DEF StoreCompleteness, db, ghosts
  <2>2. /\ run'.phase = "commit" /\ run'.todo = run.todo /\ run'.failures = run.failures
        /\ run'.found = run.found /\ run'.done = run.done /\ run'.dataset = run.dataset
        /\ run'.strict = run.strict
        /\ run'.raised = IF run.failures # {} /\ run.strict
                         THEN Raised({Incomplete(runs)}) ELSE run.raised
    BY <1>11, StoreStep DEF SameElse
  <2>3. Attempted'
    BY <2>1, <2>2 DEF CompleteInv, Attempted, InItem
  <2>4. DoneIsThere'
    BY <2>1, <2>2, ArtifactsStay DEF CompleteInv, DoneIsThere
  <2>5. Incomplete(runs) \in Raised({Incomplete(runs)}) \cup About
    BY RaisedKnown
  <2>6. FailureAsked'
    BY <2>1, <2>2, <2>5 DEF FailureAsked, Known, About, Incomplete
  <2> QED BY <2>1, <2>3, <2>4, <2>6, LastStays DEF CompleteInv, About
<1>12. CASE Commit
  <2>1. /\ run.phase = "commit" /\ run'.phase = "idle" /\ dataset' = run.dataset
        /\ broken' = broken /\ artifact' = artifact
        /\ last'.id = runs /\ last'.strict = run.strict /\ last'.found = run.found
        /\ last'.status = IF run.strict /\ run.failures # {} THEN "failed" ELSE "succeeded"
        /\ \A f \in run.raised : \E t \in tasks' : t.about = f
        /\ tasks \subseteq tasks'
    <3>1. /\ run.phase = "commit" /\ run' = Idle /\ dataset' = run.dataset
          /\ broken' = broken /\ artifact' = artifact
      BY <1>12 DEF Commit, CommitRun, disk
    <3>2. last' = [id |-> runs,
                   status |-> IF run.strict /\ run.failures # {} THEN "failed"
                              ELSE "succeeded",
                   strict |-> run.strict, found |-> run.found]
      BY <1>12 DEF Commit, CommitRun
    <3>3. tasks' = tasks
            \cup {[about |-> f, run |-> runs, status |-> "open"] : f \in run.raised}
      BY <1>12 DEF Commit, CommitRun
    <3>4. ASSUME NEW f \in run.raised
          PROVE  \E t \in tasks' : t.about = f
      <4>1. [about |-> f, run |-> runs, status |-> "open"] \in tasks'
        BY <3>3
      <4> QED BY <4>1
    <3> QED BY <3>1, <3>2, <3>3, <3>4 DEF Idle
  <2>2. last'.status = "succeeded" /\ last'.strict =>
          \A i \in last'.found : dataset'[i] # Missing /\ HasArtifact(i)'
    <3> SUFFICES ASSUME run.strict, run.failures = {}, NEW i \in run.found
                 PROVE  dataset'[i] # Missing /\ HasArtifact(i)'
      BY <2>1
    <3>1. i \in run.done
      BY <2>1 DEF CompleteInv, Attempted, Shape, InItem
    <3> QED BY <2>1, <3>1 DEF CompleteInv, DoneIsThere, HasArtifact
  <2>3. last'.status = "failed" =>
          last'.strict /\ \E t \in tasks' : t.about = Incomplete(runs)
    BY <2>1 DEF CompleteInv, FailureAsked, Known, About
  <2> QED BY <2>1, <2>2, <2>3 DEF CompleteInv, StrictRunIsComplete, HasArtifact, Incomplete
<1>13. CASE BreakOff
  <2>1. /\ run'.phase = "idle" /\ last'.id = runs /\ last'.status = "failed"
    BY <1>13 DEF BreakOff, CommitRun, Idle
  <2>2. PICK b : b = [run |-> runs, failures |-> run.failures]
    OBVIOUS
  <2>3. b \in broken' /\ b.run = runs
    BY <1>13, <2>2 DEF BreakOff
  <2> QED BY <2>1, <2>3 DEF CompleteInv, StrictRunIsComplete
<1>14. CASE Crash
  <2>1. run'.phase = "idle" /\ UNCHANGED <<dataset, last, broken, tasks>>
    BY <1>14 DEF Crash, Idle, db
  <2> QED BY <2>1, LastStays DEF CompleteInv, About
<1>15. CASE DecideTask
  <2>1. UNCHANGED <<dataset, last, broken, run, runs, artifact>>
    BY <1>15 DEF DecideTask, disk, ghosts
  <2>2. PICK t \in tasks : tasks' = (tasks \ {t}) \cup {[t EXCEPT !.status = "decided"]}
    BY <1>15 DEF DecideTask
  <2>3. PICK d : d = [t EXCEPT !.status = "decided"]
    OBVIOUS
  <2>4. d.about = t.about
    BY <2>3 DEF Shape, TaskFields
  <2>5. About' = About
    BY <2>2, <2>3, <2>4 DEF About
  <2>6. StrictRunIsComplete'
    BY <2>1, <2>5, LastStays
  <2>7. run.phase # "idle" => Attempted' /\ DoneIsThere' /\ FailureAsked'
    BY <2>1, <2>5 DEF CompleteInv, Attempted, DoneIsThere, HasArtifact, FailureAsked, Known,
                      Incomplete
  <2> QED BY <2>1, <2>6, <2>7 DEF CompleteInv
<1>16. CASE Edit
  <2>1. UNCHANGED <<dataset, last, broken, tasks, runs, artifact>>
    BY <1>16 DEF Edit, db, disk, ghosts
  <2>2. run'.phase = run.phase
        /\ (run.phase # "idle" =>
              /\ run'.item = run.item /\ run'.todo = run.todo /\ run'.found = run.found
              /\ run'.done = run.done /\ run'.failures = run.failures
              /\ run'.dataset = run.dataset /\ run'.raised = run.raised
              /\ run'.strict = run.strict)
    BY <1>16 DEF Edit, Shape, RunFields
  <2>3. run'.phase # "idle" => Attempted' /\ DoneIsThere' /\ FailureAsked'
    BY <2>1, <2>2 DEF CompleteInv, Attempted, DoneIsThere, HasArtifact, FailureAsked, Known,
                      About, Incomplete
  <2> QED BY <2>1, <2>3, LastStays DEF CompleteInv, About
<1>17. CASE UNCHANGED vars
  <2>1. UNCHANGED <<dataset, last, broken, tasks, run, runs, artifact>>
    BY <1>17 DEF vars, db, disk, ghosts
  <2> QED BY <2>1 DEF CompleteInv, Attempted, DoneIsThere, HasArtifact, FailureAsked, Known,
                      About, Incomplete, StrictRunIsComplete
<1> QED BY <1>1, <1>2, <1>3, <1>4, <1>5, <1>6, <1>7, <1>8, <1>9, <1>10, <1>11, <1>12,
           <1>13, <1>14, <1>15, <1>16, <1>17 DEF Next, Ingest

\* A strict run that succeeded got every item in that it found; one that failed for
\* completeness has raised its task (run_processor.py:792).
THEOREM StrictRunsComplete == Spec => []StrictRunIsComplete
<1>1. Init => ArtifactInv /\ CompleteInv
  BY FS_EmptySet DEF Init, ArtifactInv, Numbered, CopyDue, ManifestDue, ManifestTellsRaw, Idle,
     CompleteInv, StrictRunIsComplete
<1>2. CompleteInv => StrictRunIsComplete
  BY DEF CompleteInv
<1> QED BY ShapeInvariant, StepTells, StepComplete, <1>1, <1>2, PTL DEF Spec

-----------------------------------------------------------------------------
(* Cursors *)

\* The clock of mtimes is ahead of every file and every cursor.
Clocked ==
    /\ edits \in 1..MaxEdits /\ DOMAIN cursor = Sources
    /\ \A i \in Items : file[i].mtime \in 1..edits
    /\ \A s \in Sources : cursor[s] \in 0..edits

\* A file the plugin will not list again.
Passed(i) ==
    /\ SourceOf[i] \in Plugins /\ file[i].content # Missing
    /\ file[i].mtime <= cursor[SourceOf[i]]

InBronze(i) == \E a \in artifact : a.item = i /\ a.manifest = file[i].content

\* What the run has in hand it found, of a source it will not look at again.
InHand ==
    /\ run.todo \subseteq run.found /\ run.done \cap run.todo = {}
    /\ run.phase \in InItem => run.item \in run.found \ run.done
    /\ \A i \in run.found : i \in Items /\ SourceOf[i] \notin run.sources
    /\ run.done \subseteq run.found

\* Until the run ends, what it found and has not got in stands for what was missed.
PassedInRun ==
    \A i \in Items : Passed(i) =>
        /\ InBronze(i) \/ i \in missed \/ i \in run.found \ run.done
        /\ i \in run.done => InBronze(i)
        /\ run.phase \in InItem /\ i = run.item =>
             /\ run.hash = file[i].content
             /\ run.phase \notin {"copy", "manifest"} => InBronze(i)

PassedInv ==
    /\ Clocked
    /\ run.phase # "idle" => InHand /\ PassedInRun
    /\ run.phase = "idle" => \A i \in Items : Passed(i) => InBronze(i) \/ i \in missed

\* A nonempty set of numbers up to n has a greatest: the numbers above one of them
\* are fewest for it.
LEMMA Greatest ==
    ASSUME NEW n \in Nat, NEW T, T \subseteq 0..n, T # {}
    PROVE  \E x \in T : \A y \in T : y <= x
<1> DEFINE Above(x) == {z \in T : x <= z}
<1> DEFINE D == {Above(x) : x \in T}
<1>1. D \subseteq FiniteSubsetsOf(T) /\ D # {}
  <2>1. IsFiniteSet(0..n)
    BY FS_Interval
  <2>2. \A U \in SUBSET T : IsFiniteSet(U)
    BY <2>1, FS_Subset
  <2> QED BY <2>2 DEF FiniteSubsetsOf
<1>2. PICK U \in D : \A V \in D : <<V, U>> \notin StrictSubsetOrdering(T)
  <2> HIDE DEF D
  <2> QED BY <1>1, FS_StrictSubsetOrderingWellFounded, WFMin
<1>3. PICK x \in T : U = Above(x)
  BY <1>2
<1>4. ASSUME NEW y \in T, x < y PROVE FALSE
  <2>1. x \in Nat /\ \A z \in T : z \in Nat
    OBVIOUS
  <2>2. ~(y <= x) /\ x <= x /\ \A z \in T : y <= z => x <= z
    BY <1>4, <2>1
  <2>3. Above(y) \subseteq Above(x) /\ x \in Above(x) /\ x \notin Above(y)
    BY <1>3, <2>2
  <2>4. <<Above(y), Above(x)>> \in StrictSubsetOrdering(T)
    BY <2>3 DEF StrictSubsetOrdering
  <2> QED BY <1>2, <1>3, <2>4
<1> QED BY <1>3, <1>4

\* The watermark moves on, past what was listed, and never past the clock.
LEMMA NextCursorMovesOn ==
    ASSUME Clocked, NEW s \in Sources
    PROVE  /\ NextCursor(s) \in 0..edits /\ cursor[s] <= NextCursor(s)
           /\ \A i \in Listed(s) : file[i].mtime <= NextCursor(s)
<1> DEFINE T == {cursor[s]} \cup {file[i].mtime : i \in Listed(s)}
<1>1. edits \in Nat /\ T \subseteq 0..edits /\ T # {}
  BY ListedItems, IngestAssumption DEF Clocked
<1>2. \E m \in T : /\ m >= cursor[s]
                   /\ \A i \in Listed(s) : m >= file[i].mtime
  <2>1. PICK m \in T : \A y \in T : y <= m
    <3> HIDE DEF T
    <3> QED BY <1>1, Greatest
  <2>2. m \in Int /\ \A y \in T : y \in Int
    BY <1>1
  <2> QED BY <2>1, <2>2
<1>3. /\ NextCursor(s) \in T /\ NextCursor(s) >= cursor[s]
      /\ \A i \in Listed(s) : NextCursor(s) >= file[i].mtime
  BY <1>2 DEF NextCursor
<1>4. NextCursor(s) \in Int /\ \A y \in T : y \in Int
  BY <1>1, <1>3
<1> QED BY <1>1, <1>3, <1>4

LEMMA StepClocked == Shape /\ Clocked /\ [Next]_vars => Clocked'
<1> SUFFICES ASSUME Shape, Clocked, [Next]_vars PROVE Clocked'
  OBVIOUS
<1>1. CASE UNCHANGED <<owner, cursor>>
  BY <1>1 DEF Clocked, owner
<1>2. CASE Discover
  <2>1. PICK s \in run.sources : cursor' = [cursor EXCEPT ![s] = NextCursor(s)]
    BY <1>2 DEF Discover
  <2>2. s \in Sources /\ UNCHANGED owner
    BY <1>2 DEF Discover, Shape
  <2> QED BY <2>1, <2>2, NextCursorMovesOn DEF Clocked, owner
<1>3. CASE Crash
  <2>1. UNCHANGED owner
    BY <1>3 DEF Crash
  <2>2. cursor' = cursor \/ \E s \in Sources : cursor' = [cursor EXCEPT ![s] = 0]
    BY <1>3 DEF Crash, Shape
  <2>3. 0 \in 0..edits
    BY IngestAssumption DEF Clocked
  <2> QED BY <2>1, <2>2, <2>3 DEF Clocked, owner
<1>4. CASE Edit
  <2>1. PICK i \in Items, c \in Contents \cup {Missing} :
          file' = [file EXCEPT ![i] = [content |-> c, mtime |-> edits + 1]]
    BY <1>4 DEF Edit
  <2>2. edits' = edits + 1 /\ edits < MaxEdits /\ cursor' = cursor
    BY <1>4 DEF Edit, disk
  <2>3. edits' \in 1..MaxEdits /\ 1..edits \subseteq 1..edits' /\ 0..edits \subseteq 0..edits'
    BY <2>2, IngestAssumption DEF Clocked
  <2>4. ASSUME NEW j \in Items
        PROVE  file'[j].mtime \in 1..edits'
    <3>1. file'[j].mtime = IF j = i THEN edits + 1 ELSE file[j].mtime
      BY <2>1 DEF Shape
    <3>2. edits' \in 1..edits'
      BY <2>3, IngestAssumption
    <3> QED BY <2>2, <2>3, <3>1, <3>2 DEF Clocked
  <2> QED BY <2>2, <2>3, <2>4 DEF Clocked
<1> QED BY <1>1, <1>2, <1>3, <1>4 DEF Next, Ingest, vars, disk, Start, BeginItem, Copy,
  WriteManifest, Profile, Profiled, DetectPii, ReviewDrift, ReviewAnomalies, ItemFails, NextSource,
  StoreCompleteness, Commit, DiscoveryFails, ItemFault, BreakOff, DecideTask

\* Only the manifest of the item in work is written.
LEMMA BronzeStays ==
    ASSUME Shape, ArtifactInv, [Next]_vars, UNCHANGED file, NEW i,
           InBronze(i), ~(run.phase = "manifest" /\ i = run.item)
    PROVE  InBronze(i)'
<1>1. CASE artifact \subseteq artifact'
  BY <1>1 DEF InBronze
<1>2. ASSUME NEW m, run.phase = "manifest", artifact' = WithManifest(m)
      PROVE  InBronze(i)'
  <2>1. PICK a \in artifact : Described(a)
    BY <1>2 DEF ArtifactInv, ManifestDue
  <2>2. PICK d : artifact' = (artifact \ {a}) \cup {d}
    BY <1>2, <2>1, ManifestWritten DEF Described, ArtifactInv
  <2>3. a.item = run.item
    BY <2>1 DEF Described
  <2> QED BY <1>2, <2>2, <2>3 DEF InBronze
<1>3. CASE Copy
  BY <1>1, <1>3 DEF Copy
<1>4. CASE WriteManifest \/ ItemFault \/ Crash
  BY <1>1, <1>2, <1>4 DEF WriteManifest, ItemFault, Crash
<1> QED BY <1>1, <1>3, <1>4 DEF Next, Ingest, vars, disk, Start, Discover, BeginItem,
  Profile, Profiled, DetectPii, ReviewDrift, ReviewAnomalies, ItemFails, NextSource,
  StoreCompleteness, Commit, DiscoveryFails, BreakOff, DecideTask, Edit

\* Steps inside a run that get no item in.
LEMMA InRunKeeps ==
    ASSUME Shape, ArtifactInv, PassedInv, [Next]_vars, run.phase # "idle",
           UNCHANGED <<file, cursor, missed>>,
           run'.found = run.found, run'.done = run.done, run'.todo \subseteq run.todo,
           run'.sources \subseteq run.sources,
           run'.phase \in InItem => run'.item \in run.found \ run.done,
           \A i \in Items : Passed(i) /\ run'.phase \in InItem /\ i = run'.item =>
             /\ run'.hash = file[i].content
             /\ run'.phase \notin {"copy", "manifest"} => InBronze(i)'
    PROVE  InHand' /\ PassedInRun'
<1>1. InHand'
  BY DEF PassedInv, InHand
<1>2. \A i \in Items : Passed(i)' <=> Passed(i)
  BY DEF Passed
<1>3. ASSUME NEW i \in Items, Passed(i)
      PROVE  /\ InBronze(i)' \/ i \in missed' \/ i \in run'.found \ run'.done
             /\ i \in run'.done => InBronze(i)'
  <2>1. CASE run.phase = "manifest" /\ i = run.item
    BY <2>1 DEF PassedInv, InHand, InItem
  <2>2. CASE ~(run.phase = "manifest" /\ i = run.item)
    <3>1. InBronze(i) => InBronze(i)'
      BY <2>2, BronzeStays
    <3> QED BY <1>3, <3>1 DEF PassedInv, PassedInRun
  <2> QED BY <2>1, <2>2
<1> QED BY <1>1, <1>2, <1>3 DEF PassedInRun

LEMMA StartPassed ==
    ASSUME Shape, PassedInv, Start
    PROVE  PassedInv' \/ ~Clocked'
<1>1. /\ run.phase = "idle" /\ UNCHANGED <<file, cursor, missed, artifact>>
  BY DEF Start, owner, disk, ghosts
<1>2. /\ run'.phase = "sources" /\ run'.todo = {} /\ run'.found = {} /\ run'.done = {}
  BY DEF Start, NewRun
<1> QED BY <1>1, <1>2 DEF PassedInv, InHand, PassedInRun, Passed, InBronze, InItem

LEMMA DiscoverPassed ==
    ASSUME Shape, PassedInv, Discover
    PROVE  InHand' /\ PassedInRun'
<1>1. PICK s \in run.sources :
        /\ run' = [run EXCEPT !.phase = "items", !.sources = @ \ {s},
                              !.todo = Listed(s), !.found = @ \cup Listed(s)]
        /\ cursor' = [cursor EXCEPT ![s] = NextCursor(s)]
  BY DEF Discover
<1>2. /\ run.phase = "sources" /\ s \in Sources /\ UNCHANGED <<file, missed, artifact>>
  BY DEF Discover, owner, ghosts, Shape
<1>3. /\ run'.phase = "items" /\ run'.sources = run.sources \ {s} /\ run'.todo = Listed(s)
      /\ run'.found = run.found \cup Listed(s) /\ run'.done = run.done
  BY <1>1, <1>2 DEF Shape, RunFields
<1>4. \A i \in Listed(s) : i \in Items /\ SourceOf[i] = s
  BY DEF Listed, PluginListed, FilesListed
<1>5. InHand /\ PassedInRun
  BY <1>2 DEF PassedInv
<1>6. \A i \in run.found : SourceOf[i] # s
  BY <1>5 DEF InHand
<1>7. InHand'
  BY <1>3, <1>4, <1>5, <1>6 DEF InHand, InItem
<1>8. ASSUME NEW i \in Items, Passed(i)'
      PROVE  Passed(i) \/ i \in Listed(s)
  <2>1. CASE SourceOf[i] = s
    <3>1. file[i].mtime \in Nat /\ cursor[s] \in Nat
      BY <1>2 DEF PassedInv, Clocked
    <3> QED BY <1>2, <1>8, <2>1, <3>1 DEF Passed, Listed, PluginListed, FilesListed
  <2>2. CASE SourceOf[i] # s
    <3>1. cursor'[SourceOf[i]] = cursor[SourceOf[i]]
      BY <1>1, <2>2 DEF PassedInv, Clocked, Sources
    <3> QED BY <1>2, <1>8, <3>1 DEF Passed
  <2> QED BY <2>1, <2>2
<1>9. \A i \in Items : InBronze(i)' <=> InBronze(i)
  BY <1>2 DEF InBronze
<1>10. \A i \in Listed(s) : i \notin run.done
  BY <1>4, <1>5, <1>6 DEF InHand
<1> QED BY <1>2, <1>3, <1>5, <1>7, <1>8, <1>9, <1>10 DEF PassedInRun, InItem

LEMMA BeginItemPassed ==
    ASSUME Shape, ArtifactInv, PassedInv, BeginItem
    PROVE  InHand' /\ PassedInRun'
<1>1. PICK i \in run.todo :
        /\ SameElse /\ run'.phase \in {"copy", "manifest"} /\ run'.todo = run.todo \ {i}
        /\ run'.item = i /\ run'.hash = file[i].content /\ run'.done = run.done
  BY BeginStep
<1>2. run.phase = "items" /\ UNCHANGED <<file, cursor, missed>>
  BY DEF BeginItem, owner, disk, ghosts
<1>3. i \in run.found \ run.done
  BY <1>2 DEF PassedInv, InHand
<1>4. [Next]_vars
  BY DEF Next, Ingest
<1> QED BY <1>1, <1>2, <1>3, <1>4, InRunKeeps DEF SameElse

LEMMA WriteManifestPassed ==
    ASSUME Shape, ArtifactInv, PassedInv, WriteManifest
    PROVE  InHand' /\ PassedInRun'
<1>1. /\ run.phase = "manifest" /\ artifact' = WithManifest(run.hash)
      /\ UNCHANGED <<file, cursor, missed>>
  BY DEF WriteManifest, owner, ghosts
<1>2. /\ run'.phase = "profile" /\ run'.found = run.found /\ run'.done = run.done
      /\ run'.todo = run.todo /\ run'.sources = run.sources /\ run'.item = run.item
      /\ run'.hash = run.hash
  BY <1>1 DEF WriteManifest, Shape, RunFields
<1>3. /\ InHand /\ PassedInRun
  BY <1>1 DEF PassedInv
<1>4. PICK i \in Items : i = run.item
  BY <1>1 DEF Shape, InItem
<1>9. Passed(i) => run.hash = file[i].content
  BY <1>1, <1>3, <1>4 DEF PassedInRun, InItem
<1>5. PICK a \in artifact : Described(a)
  BY <1>1 DEF ArtifactInv, ManifestDue
<1>6. PICK d : /\ artifact' = (artifact \ {a}) \cup {d}
               /\ d.item = a.item /\ d.manifest = run.hash
  BY <1>1, <1>5, ManifestWritten DEF Described, ArtifactInv
<1>7. Passed(i) => InBronze(i)'
  BY <1>1, <1>4, <1>5, <1>6, <1>9 DEF InBronze, Described
<1>8. [Next]_vars
  BY DEF Next, Ingest
<1>10. run.item \in run.found \ run.done
  BY <1>1, <1>3 DEF InHand, InItem
<1> QED BY <1>1, <1>2, <1>4, <1>7, <1>8, <1>9, <1>10, InRunKeeps

LEMMA ReviewAnomaliesPassed ==
    ASSUME Shape, PassedInv, ReviewAnomalies
    PROVE  InHand' /\ PassedInRun'
<1>1. run.phase = "anomaly" /\ UNCHANGED <<file, cursor, missed, artifact>>
  BY DEF ReviewAnomalies, owner, disk, ghosts
<1>2. /\ SameElse /\ run'.phase = "items" /\ run'.todo = run.todo
      /\ run'.done = run.done \cup {run.item}
  BY ReviewAnomaliesStep
<1>3. InHand /\ PassedInRun /\ run.item \in Items \ run.todo
  BY <1>1 DEF PassedInv, Shape, InItem
<1>4. InHand'
  BY <1>1, <1>2, <1>3 DEF InHand, SameElse, InItem
<1>5. \A i \in Items : (Passed(i)' <=> Passed(i)) /\ (InBronze(i)' <=> InBronze(i))
  BY <1>1 DEF Passed, InBronze
<1>6. Passed(run.item) => InBronze(run.item)
  BY <1>1, <1>3 DEF PassedInRun, InItem
<1> QED BY <1>1, <1>2, <1>3, <1>4, <1>5, <1>6 DEF PassedInRun, SameElse, InItem

\* Steps of an item that read, and steps between items and sources.
LEMMA WorkPassed ==
    ASSUME Shape, ArtifactInv, PassedInv,
           \/ DiscoveryFails \/ Copy \/ Profile \/ DetectPii \/ ReviewDrift
           \/ ItemFails \/ ItemFault \/ NextSource \/ StoreCompleteness
    PROVE  InHand' /\ PassedInRun'
<1>1. [Next]_vars /\ UNCHANGED <<file, cursor, missed>>
  BY DEF Next, Ingest, DiscoveryFails, Copy, Profile, Profiled, DetectPii, ReviewDrift, ItemFails,
     ItemFault, NextSource, StoreCompleteness, owner, disk, ghosts
<1>2. CASE DiscoveryFails \/ NextSource
  <2>1. /\ run.phase # "idle" /\ run'.phase \notin InItem
        /\ run'.found = run.found /\ run'.done = run.done /\ run'.todo = run.todo
        /\ run'.sources \subseteq run.sources
    BY <1>2 DEF DiscoveryFails, NextSource, Shape, RunFields, InItem
  <2> QED BY <1>1, <2>1, InRunKeeps
<1>3. CASE StoreCompleteness
  <2>1. /\ run.phase # "idle" /\ run'.phase \notin InItem
        /\ run'.found = run.found /\ run'.done = run.done /\ run'.todo = run.todo
        /\ run'.sources = run.sources
    BY <1>3, StoreStep DEF StoreCompleteness, SameElse, InItem
  <2> QED BY <1>1, <2>1, InRunKeeps
<1>4. CASE ItemFails \/ ItemFault
  <2>1. PICK i : Skipped(i) /\ run.phase \in InItem \cup {"items"}
    BY <1>4, ItemFailsStep
  <2>2. /\ run.phase # "idle" /\ run'.phase \notin InItem
        /\ run'.found = run.found /\ run'.done = run.done /\ run'.todo \subseteq run.todo
        /\ run'.sources = run.sources
    BY <2>1, SkipStep DEF SameElse, InItem
  <2> QED BY <1>1, <2>2, InRunKeeps
<1>5. CASE Copy \/ Profile \/ DetectPii \/ ReviewDrift
  <2>1. /\ run.phase \in InItem /\ DOMAIN run = RunFields
        /\ Copy \/ run.phase \notin {"copy", "manifest"}
    BY <1>5 DEF Copy, Profile, Profiled, DetectPii, ReviewDrift, Shape, InItem
  <2>2. /\ run'.found = run.found /\ run'.done = run.done /\ run'.todo = run.todo
        /\ run'.sources = run.sources /\ run'.item = run.item /\ run'.hash = run.hash
        /\ Copy => run'.phase = "manifest"
    BY <1>5, <2>1 DEF Copy, Profile, Profiled, DetectPii, ReviewDrift, RunFields
  <2>3. InHand /\ PassedInRun
    BY <2>1 DEF PassedInv, InItem
  <2>4. PICK i \in Items : i = run.item
    BY <2>1 DEF Shape
  <2>5. run.phase # "manifest" /\ InBronze(i) => InBronze(i)'
    BY <1>1, BronzeStays
  <2>6. Passed(i) =>
          /\ run.hash = file[i].content
          /\ run.phase \notin {"copy", "manifest"} => InBronze(i)
    BY <2>1, <2>3, <2>4 DEF PassedInRun
  <2>7. run.item \in run.found \ run.done
    BY <2>1, <2>3 DEF InHand
  <2>8. Passed(i) => /\ run'.hash = file[i].content
                     /\ run'.phase \notin {"copy", "manifest"} => InBronze(i)'
    BY <2>1, <2>2, <2>5, <2>6
  <2>9. run.phase # "idle"
    BY <2>1 DEF InItem
  <2> QED BY <1>1, <2>2, <2>4, <2>7, <2>8, <2>9, InRunKeeps
<1> QED BY <1>2, <1>3, <1>4, <1>5

\* A run that ends, or is cut off, leaves what it has not got in to the missed.
LEMMA EndPassed ==
    ASSUME Shape, ArtifactInv, PassedInv, Commit \/ BreakOff \/ Crash
    PROVE  /\ run'.phase = "idle"
           /\ \A i \in Items : Passed(i)' => InBronze(i)' \/ i \in missed'
<1>1. /\ run.phase # "idle" /\ run'.phase = "idle" /\ UNCHANGED file
  BY DEF Commit, BreakOff, Breakable, Crash, CommitRun, Idle, owner
<1>2. InHand /\ PassedInRun
  BY <1>1 DEF PassedInv
<1>3. CASE Commit \/ BreakOff
  <2>1. /\ missed' = (missed \ run.done) \cup (run.found \ run.done)
        /\ UNCHANGED <<cursor, artifact>>
    BY <1>3 DEF Commit, BreakOff, CommitRun, disk
  <2> QED BY <1>1, <1>2, <2>1 DEF PassedInRun, Passed, InBronze
<1>4. CASE Crash
  <2>1. missed' = missed \cup run.found
    BY <1>4 DEF Crash
  <2>2. cursor' = cursor \/ \E s \in Sources : cursor' = [cursor EXCEPT ![s] = 0]
    BY <1>4 DEF Crash, Shape
  <2>3. ASSUME NEW i \in Items, Passed(i)'
        PROVE  Passed(i)
    <3>1. SourceOf[i] \in Sources /\ DOMAIN cursor = Sources
      BY DEF PassedInv, Clocked, Sources
    <3>2. cursor'[SourceOf[i]] = cursor[SourceOf[i]] \/ cursor'[SourceOf[i]] = 0
      BY <2>2, <3>1
    <3>3. file[i].mtime \in Nat \ {0}
      BY IngestAssumption DEF PassedInv, Clocked
    <3> QED BY <1>1, <2>3, <3>2, <3>3 DEF Passed
  <2>4. ASSUME NEW i \in Items, Passed(i)'
        PROVE  InBronze(i)' \/ i \in missed'
    <3>1. Passed(i)
      BY <2>3, <2>4
    <3>2. CASE i \in run.found
      BY <2>1, <3>2
    <3>3. CASE i \notin run.found
      <4>1. InBronze(i) \/ i \in missed
        BY <1>2, <3>1, <3>3 DEF PassedInRun
      <4>2. ~(run.phase = "manifest" /\ i = run.item)
        BY <1>2, <3>3 DEF InHand, InItem
      <4>3. [Next]_vars
        BY <1>4 DEF Next
      <4> QED BY <1>1, <2>1, <4>1, <4>2, <4>3, BronzeStays
    <3> QED BY <3>2, <3>3
  <2> QED BY <1>1, <2>4
<1> QED BY <1>3, <1>4

\* An edited file is later than every cursor.
LEMMA EditPassed ==
    ASSUME Shape, PassedInv, Edit
    PROVE  /\ run.phase # "idle" => InHand' /\ PassedInRun'
           /\ run.phase = "idle" => \A i \in Items : Passed(i)' => InBronze(i)' \/ i \in missed'
           /\ run'.phase = run.phase
<1>1. PICK i \in Items, c \in Contents \cup {Missing} :
        file' = [file EXCEPT ![i] = [content |-> c, mtime |-> edits + 1]]
  BY DEF Edit
<1>2. UNCHANGED <<cursor, artifact, missed>>
  BY DEF Edit, disk, ghosts
<1>3. /\ run'.phase = run.phase
      /\ run.phase # "idle" =>
           /\ run'.item = run.item /\ run'.hash = run.hash /\ run'.todo = run.todo
           /\ run'.found = run.found /\ run'.done = run.done /\ run'.sources = run.sources
  BY DEF Edit, Shape, RunFields
<1>4. ASSUME NEW j \in Items, Passed(j)'
      PROVE  Passed(j) /\ file'[j] = file[j] /\ (InBronze(j) => InBronze(j)')
  <2>1. j # i
    <3>1. SourceOf[i] \in Sources
      BY DEF Sources
    <3>2. cursor[SourceOf[i]] \in 0..edits /\ edits \in Nat
      BY <3>1, IngestAssumption DEF PassedInv, Clocked
    <3>3. file'[i].mtime = edits + 1
      BY <1>1 DEF Shape
    <3>4. ~Passed(i)'
      BY <1>2, <3>2, <3>3 DEF Passed
    <3> QED BY <1>4, <3>4
  <2>2. file'[j] = file[j]
    BY <1>1, <2>1 DEF Shape
  <2> QED BY <1>2, <1>4, <2>2 DEF Passed, InBronze
<1> QED BY <1>2, <1>3, <1>4 DEF PassedInv, InHand, PassedInRun

LEMMA StepPassed == Shape /\ ArtifactInv /\ PassedInv /\ [Next]_vars => PassedInv'
<1> SUFFICES ASSUME Shape, ArtifactInv, PassedInv, [Next]_vars PROVE PassedInv'
  OBVIOUS
<1>1. Clocked'
  BY StepClocked DEF PassedInv
<1>2. CASE Start
  BY <1>1, <1>2, StartPassed
<1>3. CASE /\ InHand' /\ PassedInRun' /\ run'.phase # "idle"
  BY <1>1, <1>3 DEF PassedInv
<1>4. CASE Ingest \/ DiscoveryFails \/ ItemFault
  <2>1. CASE Commit
    BY <1>1, <2>1, EndPassed DEF PassedInv
  <2>2. CASE ~Commit
    <3>1. run'.phase # "idle"
      <4>1. CASE StoreCompleteness
        BY <4>1, StoreStep
      <4>2. CASE ItemFails \/ ItemFault
        BY <4>2, ItemFailsStep, SkipStep DEF InItem
      <4>3. CASE BeginItem
        BY <4>3, BeginStep
      <4>4. CASE ReviewAnomalies
        BY <4>4, ReviewAnomaliesStep
      <4>5. CASE \/ Discover \/ Copy \/ WriteManifest \/ Profile \/ DetectPii \/ ReviewDrift
                 \/ NextSource \/ DiscoveryFails
        BY <4>5 DEF Discover, Copy, WriteManifest, Profile, Profiled, DetectPii, ReviewDrift,
           NextSource, DiscoveryFails, Shape, RunFields
      <4> QED BY <1>4, <2>2, <4>1, <4>2, <4>3, <4>4, <4>5 DEF Ingest
    <3>2. InHand' /\ PassedInRun'
      BY <1>4, <2>2, DiscoverPassed, BeginItemPassed, WriteManifestPassed, ReviewAnomaliesPassed,
         WorkPassed DEF Ingest
    <3> QED BY <1>3, <3>1, <3>2
  <2> QED BY <2>1, <2>2
<1>5. CASE BreakOff \/ Crash
  BY <1>1, <1>5, EndPassed DEF PassedInv
<1>6. CASE DecideTask \/ UNCHANGED vars
  <2>1. UNCHANGED <<file, cursor, artifact, missed, run>>
    BY <1>6 DEF DecideTask, vars, owner, disk, ghosts
  <2> QED BY <1>1, <2>1 DEF PassedInv, InHand, PassedInRun, Passed, InBronze
<1>7. CASE Edit
  BY <1>1, <1>7, EditPassed DEF PassedInv
<1> QED BY <1>2, <1>4, <1>5, <1>6, <1>7 DEF Next

\* The saved cursor passes no file that is neither in bronze nor known to be missed
\* (run_processor.py:654 saves the cursor before the items are read).
THEOREM PassedFilesAccountedFor == Spec => []PassedOnlyIfIngestedOrMissed
<1>1. Init => PassedInv
  <2> SUFFICES ASSUME Init PROVE PassedInv
    OBVIOUS
  <2>1. Clocked
    BY IngestAssumption DEF Init, Clocked
  <2>2. \A i \in Items : ~Passed(i)
    BY DEF Init, Passed, Sources
  <2> QED BY <2>1, <2>2 DEF PassedInv, Init, Idle
<1>2. Init => ArtifactInv
  BY FS_EmptySet DEF Init, ArtifactInv, Numbered, CopyDue, ManifestDue, ManifestTellsRaw, Idle
<1>3. PassedInv => PassedOnlyIfIngestedOrMissed
  BY DEF PassedInv, PassedOnlyIfIngestedOrMissed, Passed, InBronze
<1> QED BY ShapeInvariant, StepTells, StepPassed, <1>1, <1>2, <1>3, PTL DEF Spec

-----------------------------------------------------------------------------
(* Types *)

\* A finding of its kind; drift is between different columns.
FindingOK(f) == f \in Findings /\ (f[1] = "drift" => f[3] # f[4])

RunTyped ==
    /\ runs \in 1..MaxRuns
    /\ run.raced \in BOOLEAN
    /\ run.dataset \in [Items -> Columns \cup {Missing}]
    /\ run.before \in Columns \cup {Missing}
    /\ \A f \in run.raised : FindingOK(f)

TypeInv ==
    /\ TypeOK
    /\ runs \in 0..MaxRuns
    /\ run.phase # "idle" => RunTyped

\* What the detectors find, and the bundle of an incomplete run, are findings.
LEMMA FindingsTyped ==
    /\ \A i \in Items, c \in Contents : \A f \in PiiIn(i, c) \cup Anomalies(i, c) : FindingOK(f)
    /\ \A i \in Items, old \in Columns \cup {Missing}, new \in Columns :
         \A f \in Drift(i, old, new) : FindingOK(f)
    /\ \A n \in 1..MaxRuns : FindingOK(Incomplete(n))
<1>1. ASSUME NEW i \in Items, NEW c \in Contents, NEW f \in PiiIn(i, c) \cup Anomalies(i, c)
      PROVE  FindingOK(f)
  <2>1. f = <<"pii", i, c>> \/ f = <<"anomaly", i, c>>
    BY <1>1 DEF PiiIn, Anomalies
  <2> QED BY <2>1 DEF FindingOK, Findings
<1>2. ASSUME NEW i \in Items, NEW old \in Columns \cup {Missing}, NEW new \in Columns,
             NEW f \in Drift(i, old, new)
      PROVE  FindingOK(f)
  <2>1. f = <<"drift", i, old, new>> /\ old \in Columns /\ old # new
    BY <1>2 DEF Drift
  <2>2. f \in {<<"drift", j, c, d>> : j \in Items, c \in Columns, d \in Columns}
    BY <2>1
  <2> QED BY <2>1, <2>2 DEF FindingOK, Findings
<1>3. ASSUME NEW n \in 1..MaxRuns
      PROVE  FindingOK(Incomplete(n))
  <2>1. Incomplete(n) = <<"completeness", n>>
    BY DEF Incomplete
  <2> QED BY <2>1 DEF FindingOK, Findings
<1> QED BY <1>1, <1>2, <1>3

LEMMA RaisedTyped ==
    ASSUME \A f \in run.raised : FindingOK(f), NEW fs, \A f \in fs : FindingOK(f)
    PROVE  \A f \in Raised(fs) : FindingOK(f)
BY DEF Raised

\* Bronze stays typed: a copy of a content, a manifest of a hash or cut off.
ArtifactsTyped ==
    artifact \subseteq [item : Items, copy : Nat, raw : Contents, raced : BOOLEAN,
                        manifest : Contents \cup {NoManifest, Torn}]

LEMMA ManifestTyped ==
    ASSUME ArtifactsTyped, NEW m \in Contents \cup {Torn}, artifact' = WithManifest(m)
    PROVE  ArtifactsTyped'
BY DEF ArtifactsTyped, WithManifest

LEMMA StepArtifactsTyped ==
    ASSUME Shape, ArtifactInv, TypeInv, [Next]_vars
    PROVE  ArtifactsTyped'
<1>1. ArtifactsTyped
  BY DEF TypeInv, TypeOK, ArtifactsTyped
<1>2. CASE UNCHANGED artifact
  BY <1>1, <1>2 DEF ArtifactsTyped
<1>3. CASE Copy
  <2> DEFINE n == Cardinality(artifact) + 1
  <2> DEFINE d == [item |-> run.item, copy |-> n, manifest |-> NoManifest,
                   raw |-> file[run.item].content, raced |-> run.raced]
  <2>1. /\ run.phase = "copy" /\ file[run.item].content # Missing
        /\ artifact' = artifact \cup {d}
    BY <1>3 DEF Copy
  <2>2. run.item \in Items /\ run.raced \in BOOLEAN
    BY <2>1 DEF Shape, InItem, TypeInv, RunTyped
  <2>3. file[run.item].content \in Contents
    BY <2>1, <2>2 DEF Shape
  <2>4. n \in Nat
    BY FS_CardinalityType DEF ArtifactInv, Numbered
  <2> HIDE DEF n
  <2> QED BY <1>1, <2>1, <2>2, <2>3, <2>4 DEF ArtifactsTyped
<1>4. CASE WriteManifest
  <2>1. artifact' = WithManifest(run.hash) /\ run.hash \in Contents
    BY <1>4 DEF WriteManifest, Shape, InItem
  <2> QED BY <1>1, <2>1, ManifestTyped
<1>5. CASE ItemFault \/ Crash
  BY <1>1, <1>2, <1>5, ManifestTyped DEF ItemFault, Crash
<1> QED BY <1>2, <1>3, <1>4, <1>5 DEF Next, Ingest, vars, disk, Start, Discover, BeginItem,
  Profile, Profiled, DetectPii, ReviewDrift, ReviewAnomalies, ItemFails, NextSource,
  StoreCompleteness, Commit, DiscoveryFails, BreakOff, DecideTask, Edit

\* Source files and cursors, from the clock.
OwnerTyped ==
    /\ file \in [Items -> [content : Contents \cup {Missing}, mtime : 0..MaxEdits]]
    /\ cursor \in [Sources -> 0..MaxEdits]

LEMMA StepOwnerTyped ==
    ASSUME Shape, Clocked, Clocked', OwnerTyped, [Next]_vars
    PROVE  OwnerTyped'
<1>1. CASE UNCHANGED <<owner, cursor>>
  BY <1>1 DEF OwnerTyped, owner
<1>2. CASE Discover
  <2>1. PICK s \in run.sources : cursor' = [cursor EXCEPT ![s] = NextCursor(s)]
    BY <1>2 DEF Discover
  <2>2. s \in Sources /\ UNCHANGED owner
    BY <1>2 DEF Discover, Shape
  <2>3. 0..edits \subseteq 0..MaxEdits
    BY IngestAssumption DEF Clocked
  <2>4. NextCursor(s) \in 0..MaxEdits
    BY <2>2, <2>3, NextCursorMovesOn
  <2> QED BY <2>1, <2>2, <2>4 DEF OwnerTyped, owner
<1>3. CASE Crash
  <2>1. UNCHANGED owner
    BY <1>3 DEF Crash
  <2>2. cursor' = cursor \/ \E s \in Sources : cursor' = [cursor EXCEPT ![s] = 0]
    BY <1>3 DEF Crash, Shape
  <2>3. 0 \in 0..MaxEdits
    BY IngestAssumption
  <2> QED BY <2>1, <2>2, <2>3 DEF OwnerTyped, owner
<1>4. CASE Edit
  <2>1. PICK i \in Items, c \in Contents \cup {Missing} :
          file' = [file EXCEPT ![i] = [content |-> c, mtime |-> edits + 1]]
    BY <1>4 DEF Edit
  <2>2. edits < MaxEdits /\ cursor' = cursor
    BY <1>4 DEF Edit, disk
  <2>3. edits + 1 \in 0..MaxEdits
    BY <2>2, IngestAssumption DEF Clocked
  <2> QED BY <2>1, <2>2, <2>3 DEF OwnerTyped
<1> QED BY <1>1, <1>2, <1>3, <1>4 DEF Next, Ingest, vars, disk, Start, BeginItem, Copy,
  WriteManifest, Profile, Profiled, DetectPii, ReviewDrift, ReviewAnomalies, ItemFails, NextSource,
  StoreCompleteness, Commit, DiscoveryFails, ItemFault, BreakOff, DecideTask

\* The catalog and the tasks a run commits, or a reviewer decides.
Committed ==
    /\ dataset \in [Items -> Columns \cup {Missing}]
    /\ tasks \subseteq [about : Findings, run : 1..MaxRuns, status : {"open", "decided"}]
    /\ \A t \in tasks : t.about[1] = "drift" => t.about[3] # t.about[4]
    /\ last.status \in {"none", "succeeded", "failed"}

LEMMA StepCommitted ==
    ASSUME TypeInv, [Next]_vars
    PROVE  Committed'
<1>1. Committed
  BY DEF TypeInv, TypeOK, Committed
<1>2. CASE UNCHANGED db
  BY <1>1, <1>2 DEF Committed, db
<1>3. CASE Commit \/ BreakOff
  <2>1. run.phase # "idle"
    BY <1>3 DEF Commit, BreakOff, Breakable
  <2>2. PICK status \in {"succeeded", "failed"} :
          /\ dataset' = run.dataset
          /\ tasks' = tasks \cup {[about |-> f, run |-> runs, status |-> "open"] : f \in run.raised}
          /\ last' = [id |-> runs, status |-> status, strict |-> run.strict, found |-> run.found]
    BY <1>3 DEF Commit, BreakOff, CommitRun
  <2>3. ASSUME NEW t \in {[about |-> f, run |-> runs, status |-> "open"] : f \in run.raised}
        PROVE  /\ t \in [about : Findings, run : 1..MaxRuns, status : {"open", "decided"}]
               /\ t.about[1] = "drift" => t.about[3] # t.about[4]
    <3>1. PICK f \in run.raised : t = [about |-> f, run |-> runs, status |-> "open"]
      OBVIOUS
    <3>2. FindingOK(f) /\ runs \in 1..MaxRuns
      BY <2>1 DEF TypeInv, RunTyped
    <3>3. t.about = f
      BY <3>1
    <3> QED BY <3>1, <3>2, <3>3 DEF FindingOK
  <2> QED BY <1>1, <2>1, <2>2, <2>3 DEF Committed, TypeInv, RunTyped
<1>4. CASE DecideTask
  <2>1. PICK t \in tasks : tasks' = (tasks \ {t}) \cup {[t EXCEPT !.status = "decided"]}
    BY <1>4 DEF DecideTask
  <2>2. UNCHANGED <<dataset, last>>
    BY <1>4 DEF DecideTask
  <2>3. PICK d : d = [t EXCEPT !.status = "decided"]
    OBVIOUS
  <2>4. /\ d \in [about : Findings, run : 1..MaxRuns, status : {"open", "decided"}]
        /\ d.about = t.about
    BY <1>1, <2>3 DEF Committed
  <2> QED BY <1>1, <2>1, <2>2, <2>3, <2>4 DEF Committed
<1> QED BY <1>2, <1>3, <1>4 DEF Next, Ingest, vars, Start, Discover, BeginItem, Copy,
  WriteManifest, Profile, Profiled, DetectPii, ReviewDrift, ReviewAnomalies, ItemFails, NextSource,
  StoreCompleteness, DiscoveryFails, ItemFault, Crash, Edit

\* Steps of a run that raise typed findings.
LEMMA RunKeepsType ==
    ASSUME RunTyped, runs' = runs, run'.raced \in BOOLEAN,
           run'.dataset \in [Items -> Columns \cup {Missing}],
           run'.before \in Columns \cup {Missing},
           run'.raised = run.raised
             \/ \E fs : run'.raised = Raised(fs) /\ \A f \in fs : FindingOK(f)
    PROVE  RunTyped'
<1>1. \A f \in run'.raised : FindingOK(f)
  BY RaisedTyped DEF RunTyped
<1> QED BY <1>1 DEF RunTyped, FindingOK

LEMMA StepRunTyped ==
    ASSUME Shape, TypeInv, [Next]_vars, run'.phase # "idle"
    PROVE  RunTyped'
<1>1. CASE Start
  <2>1. runs < MaxRuns /\ runs' = runs + 1
    BY <1>1 DEF Start
  <2>2. runs' \in 1..MaxRuns
    BY <2>1, IngestAssumption DEF TypeInv
  <2>3. /\ run'.raced = FALSE /\ run'.dataset = dataset /\ run'.before = Missing
        /\ run'.raised = {}
    BY <1>1 DEF Start, NewRun
  <2> QED BY <2>2, <2>3 DEF RunTyped, TypeInv, TypeOK
<1> SUFFICES ASSUME ~Start, run.phase # "idle" PROVE RunTyped'
  BY <1>1 DEF Next, Ingest, Discover, DiscoveryFails, BeginItem, Copy, WriteManifest, Profile,
     Profiled, DetectPii, ReviewDrift, ReviewAnomalies, ItemFails, NextSource, StoreCompleteness,
     Commit, ItemFault, BreakOff, Breakable, Crash, DecideTask, Edit, vars, InItem
<1>2. RunTyped /\ DOMAIN run = RunFields
  BY DEF TypeInv, Shape
<1>3. CASE Discover \/ DiscoveryFails \/ Copy \/ WriteManifest \/ NextSource
  <2>1. /\ runs' = runs /\ run'.raced = run.raced /\ run'.dataset = run.dataset
        /\ run'.before = run.before /\ run'.raised = run.raised
    BY <1>2, <1>3 DEF Discover, DiscoveryFails, Copy, WriteManifest, NextSource, RunFields
  <2> QED BY <1>2, <2>1, RunKeepsType DEF RunTyped
<1>4. CASE BeginItem
  <2>1. /\ run'.raced = FALSE /\ run'.dataset = run.dataset
        /\ run'.before = run.before /\ run'.raised = run.raised
    BY <1>4, BeginStep
  <2>2. runs' = runs
    BY <1>4 DEF BeginItem
  <2> QED BY <1>2, <2>1, <2>2, RunKeepsType DEF RunTyped
<1>5. CASE Profile
  <2>1. PICK c : c = file[run.item].content
    OBVIOUS
  <2>2. /\ run.phase = "profile" /\ runs' = runs /\ c # Missing
        /\ run.item \in Items
    BY <1>5, <2>1 DEF Profile, Profiled, Shape, InItem
  <2>3. ColumnsOf[c] \in Columns
    BY <2>1, <2>2 DEF Shape, Columns
  <2>4. /\ run'.raced = run.raced /\ run'.raised = run.raised
        /\ run'.dataset = [run.dataset EXCEPT ![run.item] = ColumnsOf[c]]
        /\ run'.before = run.dataset[run.item]
    BY <1>2, <1>5, <2>1 DEF Profile, Profiled, RunFields
  <2>5. /\ run'.before \in Columns \cup {Missing} /\ run'.raced \in BOOLEAN
        /\ run'.dataset \in [Items -> Columns \cup {Missing}]
    BY <1>2, <2>2, <2>3, <2>4 DEF RunTyped
  <2> QED BY <1>2, <2>2, <2>4, <2>5, RunKeepsType
<1>6. CASE DetectPii
  <2>1. PICK c : c = file[run.item].content
    OBVIOUS
  <2>2. runs' = runs /\ run.item \in Items /\ c \in Contents
    BY <1>6, <2>1 DEF DetectPii, Shape, InItem
  <2>3. /\ run'.raced = run.raced /\ run'.dataset = run.dataset
        /\ run'.before = run.before /\ run'.raised = Raised(PiiIn(run.item, c))
    BY <1>2, <1>6, <2>1 DEF DetectPii, RunFields
  <2>4. \A f \in PiiIn(run.item, c) : FindingOK(f)
    BY <2>2, FindingsTyped
  <2> QED BY <1>2, <2>2, <2>3, <2>4, RunKeepsType DEF RunTyped
<1>7. CASE ReviewDrift
  <2>1. /\ runs' = runs /\ run.item \in Items /\ run.read \in Contents
    BY <1>7 DEF ReviewDrift, Shape, InItem
  <2>2. /\ run'.raced = run.raced /\ run'.dataset = run.dataset /\ run'.before = run.before
        /\ run'.raised = Raised(Drift(run.item, run.before, ColumnsOf[run.read]))
    BY <1>2, <1>7 DEF ReviewDrift, RunFields
  <2>3. ColumnsOf[run.read] \in Columns /\ run.before \in Columns \cup {Missing}
    BY <1>2, <2>1 DEF RunTyped, Columns
  <2>4. \A f \in Drift(run.item, run.before, ColumnsOf[run.read]) : FindingOK(f)
    BY <2>1, <2>3, FindingsTyped
  <2> QED BY <1>2, <2>1, <2>2, <2>4, RunKeepsType DEF RunTyped
<1>8. CASE ReviewAnomalies
  <2>1. /\ runs' = runs /\ run.item \in Items /\ run.read \in Contents
    BY <1>8 DEF ReviewAnomalies, Shape, InItem
  <2>2. /\ run'.raced = FALSE /\ run'.dataset = run.dataset /\ run'.before = Missing
        /\ run'.raised = Raised(Anomalies(run.item, run.read))
    BY <1>8, ReviewAnomaliesStep
  <2>3. \A f \in Anomalies(run.item, run.read) : FindingOK(f)
    BY <2>1, FindingsTyped
  <2> QED BY <1>2, <2>1, <2>2, <2>3, RunKeepsType DEF RunTyped
<1>9. CASE ItemFails \/ ItemFault
  <2>1. PICK i : Skipped(i)
    BY <1>9, ItemFailsStep
  <2>2. runs' = runs
    BY <1>9 DEF ItemFails, ItemFault
  <2>3. /\ run'.raced = FALSE /\ run'.dataset = run.dataset /\ run'.before = Missing
        /\ run'.raised = run.raised
    BY <2>1, SkipStep
  <2> QED BY <1>2, <2>2, <2>3, RunKeepsType DEF RunTyped
<1>10. CASE StoreCompleteness
  <2>1. runs' = runs
    BY <1>10 DEF StoreCompleteness
  <2>2. /\ run'.raced = run.raced /\ run'.dataset = run.dataset /\ run'.before = run.before
        /\ run'.raised = Raised({Incomplete(runs)}) \/ run'.raised = run.raised
    BY <1>10, StoreStep
  <2>3. \A f \in {Incomplete(runs)} : FindingOK(f)
    BY <1>2, FindingsTyped DEF RunTyped
  <2> QED BY <1>2, <2>1, <2>2, <2>3, RunKeepsType DEF RunTyped
<1>11. CASE Commit \/ BreakOff \/ Crash
  BY <1>11 DEF Commit, BreakOff, Crash, CommitRun, Idle
<1>12. CASE DecideTask \/ UNCHANGED vars
  <2>1. UNCHANGED <<run, runs>>
    BY <1>12 DEF DecideTask, vars
  <2> QED BY <1>2, <2>1 DEF RunTyped, FindingOK
<1>13. CASE Edit
  <2>1. /\ runs' = runs /\ run'.raced \in {TRUE, run.raced} /\ run'.dataset = run.dataset
        /\ run'.before = run.before /\ run'.raised = run.raised
    BY <1>2, <1>13 DEF Edit, RunFields
  <2> QED BY <1>2, <2>1, RunKeepsType DEF RunTyped
<1> QED BY <1>3, <1>4, <1>5, <1>6, <1>7, <1>8, <1>9, <1>10, <1>11, <1>12, <1>13
        DEF Next, Ingest

LEMMA StepTyped ==
    Shape /\ ArtifactInv /\ Clocked /\ TypeInv /\ [Next]_vars => TypeInv'
<1> SUFFICES ASSUME Shape, ArtifactInv, Clocked, TypeInv, [Next]_vars PROVE TypeInv'
  OBVIOUS
<1>1. Shape' /\ Clocked'
  BY StepShape, StepClocked
<1>2. OwnerTyped'
  BY <1>1, StepOwnerTyped DEF TypeInv, TypeOK, OwnerTyped
<1>3. ArtifactsTyped' /\ Committed'
  BY StepArtifactsTyped, StepCommitted
<1>4. TypeOK'
  BY <1>1, <1>2, <1>3 DEF TypeOK, OwnerTyped, ArtifactsTyped, Committed, Shape, Phases
<1>5. runs' \in 0..MaxRuns
  <2>1. runs' = runs \/ (runs < MaxRuns /\ runs' = runs + 1)
    BY DEF Next, Ingest, vars, Start, Discover, BeginItem, Copy, WriteManifest, Profile, Profiled,
       DetectPii, ReviewDrift, ReviewAnomalies, ItemFails, NextSource, StoreCompleteness, Commit,
       DiscoveryFails, ItemFault, BreakOff, Crash, DecideTask, Edit
  <2> QED BY <2>1, IngestAssumption DEF TypeInv
<1> QED BY <1>4, <1>5, StepRunTyped DEF TypeInv

\* Every variable keeps its type: manifests hold contents or are cut off, tasks are
\* about findings of known items and runs, and drift is between different columns.
THEOREM IngestTyped == Spec => []TypeOK
<1>1. Init => Clocked /\ ArtifactInv
  <2>1. Init => Clocked
    BY IngestAssumption DEF Init, Clocked
  <2> QED BY <2>1, FS_EmptySet DEF Init, ArtifactInv, Numbered, CopyDue, ManifestDue,
            ManifestTellsRaw, Idle
<1>2. Init => TypeInv
  <2> SUFFICES ASSUME Init PROVE TypeInv
    OBVIOUS
  <2>1. 0 \in 0..MaxEdits /\ 1 \in 0..MaxEdits /\ 0 \in 0..MaxRuns
    BY IngestAssumption
  <2>2. file \in [Items -> [content : Contents \cup {Missing}, mtime : 0..MaxEdits]]
    BY <2>1 DEF Init
  <2>3. TypeOK
    BY <2>1, <2>2 DEF Init, TypeOK, Idle
  <2> QED BY <2>1, <2>3 DEF Init, TypeInv, Idle
<1>3. TypeInv => TypeOK
  BY DEF TypeInv
<1> QED BY ShapeInvariant, StepClocked, StepTells, StepTyped, <1>1, <1>2, <1>3, PTL DEF Spec
=============================================================================
