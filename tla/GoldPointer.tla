---------------------------- MODULE GoldPointer ----------------------------
(***************************************************************************)
(* What backend/shared_domain/gold_pointer.py promises its callers: one    *)
(* current pointer and a log of the pointers published or rolled back to,  *)
(* both moved in one atomic step.  It is promised until a request or the   *)
(* process fails: afterwards the files may hold anything.                  *)
(***************************************************************************)
EXTENDS SequencesExt

CONSTANTS
    Builds,
    Snapshots,
    NoPointer

Pointers == [build : Builds, snapshot : Snapshots]

VARIABLES
    current,    \* latest.json
    log,        \* history.json, oldest first
    failed      \* a request or the process has failed

pointerVars == <<current, log, failed>>

PointerInit ==
    /\ current = NoPointer
    /\ log = <<>>
    /\ failed = FALSE

\* The log tells builds apart, not snapshots: a build published twice in a row
\* is entered once, with the snapshot of the first time.
PublishPointer(p) ==
    /\ ~failed /\ ~failed'
    /\ current' = p
    /\ log' = IF log # <<>> /\ Last(log).build = p.build THEN log ELSE Append(log, p)

\* A rollback goes to the most recent entry of its build, and the log only grows.
RollbackPointer(b) ==
    /\ ~failed /\ ~failed'
    /\ \E i \in DOMAIN log :
          /\ log[i].build = b
          /\ \A j \in DOMAIN log : log[j].build = b => j <= i
          /\ current' = log[i]
          /\ log' = IF Last(log) = log[i] THEN log ELSE Append(log, log[i])

\* The first failure, and whatever happens to the files from then on.
AfterFailure == failed' = TRUE

PointerNext ==
    \/ AfterFailure
    \/ \E p \in Pointers : PublishPointer(p)
    \/ \E b \in Builds : RollbackPointer(b)

PointerSpec == PointerInit /\ [][PointerNext]_pointerVars
====
