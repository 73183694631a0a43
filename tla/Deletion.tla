------------------------------ MODULE Deletion ------------------------------
(***************************************************************************)
(* Deletion requests (backend/control_plane/deletion.py), retention policy *)
(* and purge (retention.py, shared_domain/purge.py) of one workspace, as   *)
(* the endpoints of app.py drive them.                                     *)
(*                                                                         *)
(* Each request runs in a session of its own, on any control-plane         *)
(* replica: bodies interleave at every read of the database and at every   *)
(* file they write or remove.  A session reads what is committed; an       *)
(* UPDATE writes the columns whose value differs from the one it read and  *)
(* waits for the sessions that have the row locked.                        *)
(***************************************************************************)
EXTENDS Naturals, FiniteSets

CONSTANTS
    Actors,       \* stewards and administrators
    Paths,        \* files under purge_root of the workspace
    Requests,     \* requests in flight at the same time
    MaxRequests,  \* bound on the requests
    MaxWrites     \* bound on the files workers write

Ids == 1..MaxRequests

ASSUME DeletionAssumption == MaxRequests \in Nat /\ MaxWrites \in Nat

VARIABLES
    deletion,   \* committed deletion requests: [requester, status, hold] by id
    approvals,  \* committed rows of deletion_approvals
    policy,     \* committed retention policies: [purge, hold] by id
    purges,     \* committed purge runs
    files,      \* reports, evidence bundles and attestations written
    artifact,   \* age of the files of the workspace
    removed,    \* files removed, by the request that removed them (ghost)
    failed,     \* requests that were rolled back (ghost)
    session,    \* session of each request
    requests,   \* requests so far
    writes      \* worker writes so far

db == <<deletion, approvals, policy, purges>>
disk == <<files, artifact, removed>>
counters == <<requests, writes>>
vars == <<db, disk, failed, session, counters>>

Decisions == {"approve", "reject", "defer"}
Statuses == {"requested", "approved", "rejected", "deferred", "blocked", "executed"}
Ages == {"absent", "young", "old"}

None == [x \in {} |-> FALSE]
Column(name, value) == [x \in {name} |-> value]
Merge(f, g) == [x \in DOMAIN f \cup DOMAIN g |-> IF x \in DOMAIN f THEN f[x] ELSE g[x]]

\* Columns of an UPDATE that has read row and assigns new.
Changed(row, new) == [x \in {y \in DOMAIN new : new[y] # row[y]} |-> new[x]]
Updated(row, want) == [x \in DOMAIN row |-> IF x \in DOMAIN want THEN want[x] ELSE row[x]]

\* Latest row of the workspace: order by id, descending.
LatestPolicy(rows) ==
    IF DOMAIN rows = {} THEN [purge |-> FALSE, hold |-> FALSE]
    ELSE rows[CHOOSE x \in DOMAIN rows : \A y \in DOMAIN rows : y <= x]

LegalHoldActive == LatestPolicy(policy).hold

Idle == [phase |-> "idle", id |-> 0, row |-> 0, want |-> None, approval |-> {},
         decision |-> "defer", actor |-> 0, read |-> None, found |-> {},
         left |-> {}, dry |-> FALSE, held |-> FALSE]

Init ==
    /\ deletion = None /\ approvals = {} /\ policy = None /\ purges = {}
    /\ files = {} /\ artifact = [p \in Paths |-> "absent"] /\ removed = {}
    /\ failed = {}
    /\ session = [r \in Requests |-> Idle]
    /\ requests = 0 /\ writes = 0

\* A request arrives; held: a hold was committed by then and has stood since (ghost).
Begin(r, s) ==
    /\ session[r].phase = "idle"
    /\ requests < MaxRequests
    /\ requests' = requests + 1
    /\ session' = [session EXCEPT ![r] =
         [s EXCEPT !.id = requests + 1, !.held = LegalHoldActive]]
    /\ UNCHANGED <<db, disk, failed, writes>>

Goto(r, s) ==
    /\ session' = [session EXCEPT ![r] = s]
    /\ UNCHANGED <<db, failed, counters>>

\* Nothing the session wrote to the database remains.
RollBack(r) ==
    /\ session' = [session EXCEPT ![r] = Idle]
    /\ failed' = failed \cup {session[r].id}
    /\ UNCHANGED <<db, disk, counters>>

(***************************************************************************)
(* Deletion requests                                                       *)
(***************************************************************************)
SubmitDeletion(r) ==
    \E a \in Actors :
        Begin(r, [Idle EXCEPT !.phase = "insert", !.actor = a, !.row = requests + 1,
                  !.want = [requester |-> a, status |-> "requested",
                            hold |-> LegalHoldActive]])

\* Mutant: a requester may approve the request.
BeginApprovalByAnyone(r) ==
    \E a \in Actors, c \in DOMAIN deletion, decision \in Decisions :
        Begin(r, [Idle EXCEPT !.phase = "decide", !.row = c, !.actor = a,
                  !.decision = decision, !.read = deletion[c]])

\* session.get of the row, and separation of duties
BeginApproval(r) ==
    \E a \in Actors, c \in DOMAIN deletion, decision \in Decisions :
        /\ decision = "approve" => deletion[c].requester # a
        /\ Begin(r, [Idle EXCEPT !.phase = "decide", !.row = c, !.actor = a,
                     !.decision = decision, !.read = deletion[c]])

\* Mutant: the decision is taken for the status.
DecideVerbatim(r) ==
    /\ session[r].phase = "decide"
    /\ Goto(r, [session[r] EXCEPT !.phase = "update",
                !.want = [status |-> session[r].decision]])
    /\ UNCHANGED disk

\* The status a decision assigns; a hold is looked up for "approve" only.
Decide(r) ==
    LET s == session[r]
        held == s.decision = "approve" /\ LegalHoldActive
        status == IF held THEN "blocked"
                  ELSE IF s.decision = "approve" THEN "approved"
                  ELSE IF s.decision = "reject" THEN "rejected" ELSE "deferred"
    IN /\ s.phase = "decide"
       /\ Goto(r, [s EXCEPT !.phase = "update",
                   !.want = Changed(s.read, [status |-> status,
                                             hold |-> held \/ s.read.hold]),
                   !.approval = {[row |-> s.row, actor |-> s.actor,
                                  decision |-> s.decision]}])
       /\ UNCHANGED disk

BeginExecution(r) ==
    \E c \in DOMAIN deletion :
        Begin(r, [Idle EXCEPT !.phase = "check", !.row = c, !.read = deletion[c]])

\* Mutant: the flag kept with the request decides.
CheckFlag(r) ==
    /\ session[r].phase = "check"
    /\ IF deletion[session[r].row].hold
       THEN Goto(r, [session[r] EXCEPT !.phase = "update",
                     !.want = [status |-> "blocked"]])
       ELSE /\ session[r].read.status = "approved"
            /\ Goto(r, [session[r] EXCEPT !.phase = "report"])
    /\ UNCHANGED disk

\* The hold is looked up after the row was read.
CheckHold(r) ==
    /\ session[r].phase = "check"
    /\ IF LegalHoldActive
       THEN Goto(r, [session[r] EXCEPT !.phase = "update",
                     !.want = Changed(session[r].read, [status |-> "blocked", hold |-> TRUE])])
       ELSE /\ session[r].read.status = "approved"
            /\ Goto(r, [session[r] EXCEPT !.phase = "report"])
    /\ UNCHANGED disk

\* execute_deletion_workflow, store_evidence_bundle twice: files of request id.
Write(r, phase, kind, next) ==
    /\ session[r].phase = phase
    /\ files' = files \cup {[kind |-> kind, row |-> session[r].row, by |-> session[r].id]}
    /\ Goto(r, [session[r] EXCEPT !.phase = next])
    /\ UNCHANGED <<artifact, removed>>

WriteReport(r) == Write(r, "report", "report", "evidence")

StoreEvidence(r) == Write(r, "evidence", "evidence", "attest")

\* Mutant: an attestation that cannot be stored does not stop the execution.
AttestIfPossible(r) ==
    \/ Write(r, "attest", "attestation", "executed")
    \/ /\ session[r].phase = "attest"
       /\ Goto(r, [session[r] EXCEPT !.phase = "executed"])
       /\ UNCHANGED disk

StoreAttestation(r) == Write(r, "attest", "attestation", "executed")

MarkExecuted(r) ==
    /\ session[r].phase = "executed"
    /\ Goto(r, [session[r] EXCEPT !.phase = "update",
                !.want = Changed(session[r].read, [status |-> "executed", hold |-> FALSE])])
    /\ UNCHANGED disk

(***************************************************************************)
(* Retention policy and purge                                              *)
(***************************************************************************)
\* purge: enabled, purge_enabled and a positive number of days
ConfigurePolicy(r) ==
    \E new \in [purge : BOOLEAN, hold : BOOLEAN] :
        IF DOMAIN policy = {}
        THEN Begin(r, [Idle EXCEPT !.phase = "insert_policy", !.row = requests + 1,
                       !.want = new])
        ELSE \E x \in DOMAIN policy :
               /\ \A y \in DOMAIN policy : y <= x
               /\ Begin(r, [Idle EXCEPT !.phase = "update_policy", !.row = x,
                            !.want = Changed(policy[x], new)])

BeginPurge(r) ==
    /\ LatestPolicy(policy).purge /\ ~LegalHoldActive
    /\ \E dry \in BOOLEAN : Begin(r, [Idle EXCEPT !.phase = "scan", !.dry = dry])

\* Files not changed since the cutoff.
Scan(r) ==
    LET found == {p \in Paths : artifact[p] = "old"}
    IN /\ session[r].phase = "scan"
       /\ Goto(r, [session[r] EXCEPT !.phase = "unlink", !.found = found,
                   !.left = IF session[r].dry THEN {} ELSE found])
       /\ UNCHANGED disk

\* unlink(missing_ok=True): whatever its age is by now
Unlink(r) ==
    /\ session[r].phase = "unlink"
    /\ \E p \in session[r].left :
         /\ artifact' = [artifact EXCEPT ![p] = "absent"]
         /\ removed' = IF artifact[p] = "absent" THEN removed
                       ELSE removed \cup {[by |-> session[r].id, path |-> p]}
         /\ Goto(r, [session[r] EXCEPT !.left = @ \ {p}])
    /\ UNCHANGED files

\* Mutant: the evidence names what is left of the files that were found.
StorePurgeEvidenceOfLeft(r) ==
    /\ session[r].phase = "unlink" /\ session[r].left = {}
    /\ files' = files \cup {[kind |-> "purge", row |-> session[r].id, by |-> session[r].id]}
    /\ Goto(r, [session[r] EXCEPT !.phase = "insert_run",
                !.found = {p \in @ : artifact[p] # "absent"}])
    /\ UNCHANGED <<artifact, removed>>

StorePurgeEvidence(r) ==
    /\ session[r].phase = "unlink" /\ session[r].left = {}
    /\ files' = files \cup {[kind |-> "purge", row |-> session[r].id, by |-> session[r].id]}
    /\ Goto(r, [session[r] EXCEPT !.phase = "insert_run"])
    /\ UNCHANGED <<artifact, removed>>

(***************************************************************************)
(* End of a session                                                        *)
(***************************************************************************)
Writing == {"insert", "insert_policy", "insert_run", "update", "update_policy"}

\* Rows locked by an UPDATE that was sent.
Locked(s) == IF s.phase = "sent" THEN {<<"deletion", s.row>>}
             ELSE IF s.phase = "sent_policy" THEN {<<"policy", s.row>>} ELSE {}

Send(r) ==
    \/ /\ session[r].phase = "update"
       /\ \A q \in Requests \ {r} : <<"deletion", session[r].row>> \notin Locked(session[q])
       /\ Goto(r, [session[r] EXCEPT !.phase = "sent"])
       /\ UNCHANGED disk
    \/ /\ session[r].phase = "update_policy"
       /\ \A q \in Requests \ {r} : <<"policy", session[r].row>> \notin Locked(session[q])
       /\ Goto(r, [session[r] EXCEPT !.phase = "sent_policy"])
       /\ UNCHANGED disk

Finish(r) ==
    /\ session' = [session EXCEPT ![r] = Idle]
    /\ UNCHANGED <<disk, failed, counters>>

CommitDeletion(r) ==
    LET s == session[r] IN
    /\ s.phase \in {"insert", "sent"}
    /\ deletion' = Merge(Column(s.row, IF s.phase = "insert" THEN s.want
                                       ELSE Updated(deletion[s.row], s.want)), deletion)
    /\ approvals' = approvals \cup s.approval
    /\ Finish(r)
    /\ UNCHANGED <<policy, purges>>

CommitPolicy(r) ==
    LET s == session[r] IN
    /\ s.phase \in {"insert_policy", "sent_policy"}
    /\ policy' = Merge(Column(s.row, IF s.phase = "insert_policy" THEN s.want
                                     ELSE Updated(policy[s.row], s.want)), policy)
    /\ session' = [q \in Requests |-> IF q = r THEN Idle ELSE
                     [session[q] EXCEPT !.held = @ /\ LatestPolicy(policy').hold]]
    /\ UNCHANGED <<deletion, approvals, purges, disk, failed, counters>>

CommitPurge(r) ==
    /\ session[r].phase = "insert_run"
    /\ purges' = purges \cup {[id |-> session[r].id, paths |-> session[r].found,
                               dry |-> session[r].dry]}
    /\ Finish(r)
    /\ UNCHANGED <<deletion, approvals, policy>>

\* A refusal (deletion_not_approved), a file that cannot be written or removed,
\* an audit event that cannot be written, a failed commit, or the process dies.
Fail(r) == session[r].phase # "idle" /\ RollBack(r)

(***************************************************************************)
(* Workers write files of the workspace, and files get old.                *)
(***************************************************************************)
WriteArtifact ==
    /\ writes < MaxWrites
    /\ writes' = writes + 1
    /\ \E p \in Paths : artifact' = [artifact EXCEPT ![p] = "young"]
    /\ UNCHANGED <<db, files, removed, failed, session, requests>>

Age ==
    /\ \E p \in Paths : /\ artifact[p] = "young"
                        /\ artifact' = [artifact EXCEPT ![p] = "old"]
    /\ UNCHANGED <<db, files, removed, failed, session, counters>>

DeletionStep(r) ==
    \/ SubmitDeletion(r) \/ BeginApproval(r) \/ Decide(r)
    \/ BeginExecution(r) \/ CheckHold(r) \/ WriteReport(r) \/ StoreEvidence(r)
    \/ StoreAttestation(r) \/ MarkExecuted(r) \/ CommitDeletion(r)

RetentionStep(r) ==
    \/ ConfigurePolicy(r) \/ BeginPurge(r) \/ Scan(r) \/ Unlink(r)
    \/ StorePurgeEvidence(r) \/ CommitPolicy(r) \/ CommitPurge(r)

Next ==
    \/ \E r \in Requests : DeletionStep(r) \/ RetentionStep(r) \/ Send(r) \/ Fail(r)
    \/ WriteArtifact \/ Age

Spec == Init /\ [][Next]_vars

-----------------------------------------------------------------------------
(* Properties *)

\* Every variable has its type.
TypeOK ==
    /\ DOMAIN deletion \subseteq Ids
    /\ \A c \in DOMAIN deletion :
         deletion[c] \in [requester : Actors, status : Statuses, hold : BOOLEAN]
    /\ approvals \subseteq [row : DOMAIN deletion, actor : Actors, decision : Decisions]
    /\ \A x \in DOMAIN policy : policy[x] \in [purge : BOOLEAN, hold : BOOLEAN]
    /\ purges \subseteq [id : Ids, paths : SUBSET Paths, dry : BOOLEAN]
    /\ files \subseteq [kind : {"report", "evidence", "attestation", "purge"},
                        row : Ids, by : Ids]
    /\ artifact \in [Paths -> Ages]
    /\ removed \subseteq [by : Ids, path : Paths]
    /\ requests \in 0..MaxRequests /\ writes \in 0..MaxWrites

\* A request that is approved, or was executed, has a committed approval of
\* somebody who did not file it (deletion.py:130), whatever else was decided and
\* whichever sessions overlapped.
SeparationOfDuties ==
    \A c \in DOMAIN deletion : deletion[c].status \in {"approved", "executed"} =>
        \E a \in approvals : /\ a.row = c /\ a.decision = "approve"
                             /\ a.actor # deletion[c].requester

\* A deletion does not show as executed without the report, the evidence bundle
\* and the attestation of the execution (deletion.py:256): files are written
\* before the row, and a failed or rolled back execution leaves files only.
ExecutedIsAttested ==
    \A c \in DOMAIN deletion : deletion[c].status = "executed" =>
        \E i \in Ids : {[kind |-> k, row |-> c, by |-> i] :
                          k \in {"report", "evidence", "attestation"}} \subseteq files

\* A request that arrives when a legal hold is committed executes no deletion and
\* removes no file as long as that hold stands (deletion.py:186, retention.py:92),
\* whatever was approved before the hold.
HoldStopsDestruction ==
    [][\A r \in Requests :
         session[r].held =>
             /\ \A f \in files' \ files : f.by # session[r].id
             /\ \A x \in removed' \ removed : x.by # session[r].id]_vars

\* What a purge removed is what its committed row names, or the purge is under way
\* or was rolled back after files were gone (retention.py:104); a dry run removes
\* nothing.
RemovalsAccountedFor ==
    /\ \A x \in removed :
         \/ x.by \in failed
         \/ \E r \in Requests : session[r].id = x.by
         \/ \E run \in purges : run.id = x.by /\ ~run.dry /\ x.path \in run.paths
    /\ \A run \in purges :
         [kind |-> "purge", row |-> run.id, by |-> run.id] \in files
=============================================================================
