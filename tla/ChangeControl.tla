--------------------------- MODULE ChangeControl ---------------------------
(***************************************************************************)
(* Governed changes of one workspace: policy packs with their canary       *)
(* (backend/control_plane/policy_pack_service.py), semantic manifests      *)
(* (semantic_manifest_service.py) and the review tasks they raise          *)
(* (review_repository.py), as the endpoints of app.py drive them.          *)
(*                                                                         *)
(* A body runs alone on the event loop, reads what is committed and writes *)
(* rows it keeps locked.  Its commit is handed to a thread later, by the   *)
(* same loop.  A body that has to update a row another session has locked  *)
(* waits on the loop: it goes on when a thread commits that session, and   *)
(* never when the loop had still to hand that commit over.                 *)
(***************************************************************************)
EXTENDS Naturals, FiniteSets

CONSTANTS
    Packs,        \* policy packs that can be asked for
    Manifests,    \* semantic manifests that can be asked for
    Unsound,      \* packs that fail their tests, manifests that are not valid
    NoTarget,     \* nothing effective before
    Requests,     \* requests in flight at the same time
    Nobody,       \* the event loop is free
    MaxRequests,  \* bound on the requests that write
    MaxTasks      \* bound: only the first requests ask for changes

Targets == Packs \cup Manifests
Ids == 1..MaxRequests

ASSUME ChangeControlAssumption ==
    /\ Packs \cap Manifests = {} /\ NoTarget \notin Targets
    /\ Unsound \subseteq Targets
    /\ Nobody \notin Requests
    /\ MaxRequests \in Nat /\ MaxTasks \in Nat

VARIABLES
    change,     \* committed change requests: [target, status] by id
    task,       \* committed status of the review task of a change
    approvals,  \* committed rows of review_approvals
    active,     \* committed rows of the effective state: [target, previous, version]
    canary,     \* committed rows of policy_pack_canary: [target, change, status]
    txn,        \* the session of each request
    loop,       \* request whose body is on the event loop
    requests,   \* requests so far
    contended   \* tasks and kinds of state that two open sessions wrote (ghost)

db == <<change, task, approvals, active, canary>>
vars == <<db, txn, loop, requests, contended>>

Decisions == {"approve", "reject", "defer"}
\* A client may send any word to a review task.
Words == Decisions \cup {"other"}
Verdict(word) ==
    CASE word = "approve" -> "approved"
      [] word = "reject" -> "rejected"
      [] OTHER -> "deferred"

None == [x \in {} |-> NoTarget]
Row(id, value) == [x \in {id} |-> value]
Merge(f, g) == [x \in DOMAIN f \cup DOMAIN g |-> IF x \in DOMAIN f THEN f[x] ELSE g[x]]

\* What a session writes; what it has flushed (sent) stays locked.
NoWrites == [change |-> None, task |-> None, approvals |-> {},
             active |-> None, canary |-> None]
Both(w, v) == [change |-> Merge(w.change, v.change), task |-> Merge(w.task, v.task),
               approvals |-> w.approvals \cup v.approvals,
               active |-> Merge(w.active, v.active), canary |-> Merge(w.canary, v.canary)]
Locks(w) ==
    {<<"change", x>> : x \in DOMAIN w.change} \cup {<<"task", x>> : x \in DOMAIN w.task}
      \cup {<<"active", x>> : x \in DOMAIN w.active}
      \cup {<<"canary", x>> : x \in DOMAIN w.canary}

Idle == [phase |-> "idle", id |-> 0, then |-> "end", decision |-> "defer",
         subject |-> 0, canary |-> FALSE, want |-> NoWrites, sent |-> NoWrites]

\* Effective row of a kind: select ... first() without an order.
KindOf(t) == IF t \in Packs THEN Packs ELSE Manifests
ActiveRows(kind) == {x \in DOMAIN active : active[x].target \in kind}
FirstActive(kind, x) ==
    x \in ActiveRows(kind) \/ (x = 0 /\ ActiveRows(kind) = {})
FirstCanary(x) ==
    \/ x \in DOMAIN canary /\ canary[x].status = "active"
    \/ x = 0 /\ \A y \in DOMAIN canary : canary[y].status # "active"

\* Mutant: the predecessor stays the one there was.
NextStateKeepingPrevious(x, target) ==
    IF x = 0
    THEN [target |-> target, previous |-> NoTarget, version |-> 1]
    ELSE [target |-> target, previous |-> active[x].previous,
          version |-> active[x].version + 1]

\* The state that replaces row x (0: none yet) when target becomes effective.
NextState(x, target) ==
    IF x = 0
    THEN [target |-> target, previous |-> NoTarget, version |-> 1]
    ELSE [target |-> target, previous |-> active[x].target,
          version |-> active[x].version + 1]

Init ==
    /\ change = None /\ task = None /\ approvals = {}
    /\ active = None /\ canary = None
    /\ txn = [r \in Requests |-> Idle]
    /\ loop = Nobody
    /\ requests = 0
    /\ contended = {}

\* Tasks and kinds a session writes: what it has flushed, or x.
KindName(t) == IF t \in Packs THEN "policy_pack" ELSE "semantic_manifest"
Subjects(w) == {<<"task", a.task>> : a \in w.approvals}
                 \cup {<<"state", KindName(w.active[x].target)>> : x \in DOMAIN w.active}
Contend(r, w) ==
    contended' = contended \cup
        (Subjects(w) \cap UNION {Subjects(txn[s].sent) : s \in Requests \ {r}})

\* A body starts: it has read what it needs and flushes its writes.
Begin(r, session) ==
    /\ loop = Nobody /\ txn[r].phase = "idle"
    /\ requests < MaxRequests
    /\ requests' = requests + 1
    /\ loop' = r
    /\ txn' = [txn EXCEPT ![r] = [session EXCEPT !.phase = "flush", !.id = requests + 1]]
    /\ Contend(r, session.want)
    /\ UNCHANGED db

(***************************************************************************)
(* Endpoints                                                               *)
(***************************************************************************)
\* A change of what is not effective already is staged, with a blocking task.
StageChange(r, target) ==
    /\ requests < MaxTasks
    /\ \E x \in 0..MaxRequests :
         FirstActive(KindOf(target), x) /\ (x # 0 => active[x].target # target)
    /\ Begin(r, [Idle EXCEPT
         !.want = [NoWrites EXCEPT
            !.change = Row(requests + 1, [target |-> target, status |-> "staged"]),
            !.task = Row(requests + 1, "open")]])

\* A pack is tested when its change is applied, not when it is asked for.
RequestPackChange(r) == \E target \in Packs : StageChange(r, target)

\* validate_semantic_manifest, at the request and again when it is applied
ManifestValid(m) == m \notin Unsound

RequestManifestChange(r) ==
    \E target \in Manifests : ManifestValid(target) /\ StageChange(r, target)

\* A proposal of a client, with a task of its own.
CreateProposal(r) ==
    /\ requests < MaxTasks
    /\ Begin(r, [Idle EXCEPT !.want = [NoWrites EXCEPT !.task = Row(requests + 1, "open")]])

\* Mutant: the task takes the decision of the payload for its status.
DecidedVerbatim(c, word) ==
    [NoWrites EXCEPT
       !.task = Row(c, word),
       !.approvals = {[task |-> c, decision |-> word]}]

\* decide_review_task, whatever was decided before; a status that stays the same
\* is not written, and the approval row keeps the word as it came.
Decided(c, word) ==
    [NoWrites EXCEPT
       !.task = IF task[c] = Verdict(word) THEN None ELSE Row(c, Verdict(word)),
       !.approvals = {[task |-> c, decision |-> word]}]

DecideReviewTask(r) ==
    \E c \in DOMAIN task, word \in Words :
        Begin(r, [Idle EXCEPT !.want = Decided(c, word)])

\* The decision on a change, where an unknown word is "defer", first decides its
\* task; the body goes on with DeclineChange, ApplyChange or StartCanary.
DecidePackChange(r) ==
    \E c \in DOMAIN change, decision \in Decisions, canaryEnabled \in BOOLEAN :
        /\ change[c].target \in Packs
        /\ Begin(r, [Idle EXCEPT !.want = Decided(c, decision), !.then = "apply",
                     !.subject = c, !.decision = decision, !.canary = canaryEnabled])

DecideManifestChange(r) ==
    \E c \in DOMAIN change, decision \in Decisions :
        /\ change[c].target \in Manifests
        /\ Begin(r, [Idle EXCEPT !.want = Decided(c, decision), !.then = "apply",
                     !.subject = c, !.decision = decision])

\* The effective state and its predecessor change places.
RollBack(r, kind) ==
    \E x \in ActiveRows(kind) :
        /\ active[x].previous # NoTarget
        /\ Begin(r, [Idle EXCEPT
             !.want = [NoWrites EXCEPT !.active = Row(x, NextState(x, active[x].previous))]])

RollBackPack(r) == RollBack(r, Packs)

RollBackManifest(r) == RollBack(r, Manifests)

PromoteCanary(r) ==
    \E y \in DOMAIN canary, x \in 0..MaxRequests :
        /\ FirstCanary(y) /\ FirstActive(Packs, x)
        /\ Begin(r, [Idle EXCEPT
             !.want = [NoWrites EXCEPT
                !.active = Row(IF x = 0 THEN requests + 1 ELSE x,
                               NextState(x, canary[y].target)),
                !.canary = Row(y, [canary[y] EXCEPT !.status = "promoted"])]])

(***************************************************************************)
(* The body of a decision, after its task is decided                       *)
(***************************************************************************)
Continue(r, want) ==
    /\ txn' = [txn EXCEPT ![r] = [@ EXCEPT !.phase = "flush", !.then = "end",
                                           !.want = want]]
    /\ Contend(r, want)
    /\ UNCHANGED <<db, loop, requests>>

\* The body writes the row it read at its start: no session changes the target of a
\* row, and no branch looks at its status, so reading it here is the same.
Status(c, status) == [NoWrites EXCEPT !.change = Row(c, [change[c] EXCEPT !.status = status])]

DeclineChange(r) ==
    /\ txn[r].phase = "apply" /\ txn[r].decision # "approve"
    /\ Continue(r, Status(txn[r].subject, Verdict(txn[r].decision)))

\* evaluate_policy_pack_invariants
PackPasses(p) == p \notin Unsound

Sound(target) == IF target \in Packs THEN PackPasses(target) ELSE ManifestValid(target)

\* Mutant: only a rejection is kept from being applied.
ApplyUnlessRejected(r) ==
    /\ txn[r].phase = "apply" /\ txn[r].decision # "reject" /\ ~txn[r].canary
    /\ Sound(change[txn[r].subject].target)
    /\ \E x \in 0..MaxRequests :
         /\ FirstActive(KindOf(change[txn[r].subject].target), x)
         /\ Continue(r, [Status(txn[r].subject, "applied") EXCEPT
              !.active = Row(IF x = 0 THEN txn[r].id ELSE x,
                             NextState(x, change[txn[r].subject].target))])

\* The change becomes effective, whatever its status was.
ApplyChange(r) ==
    /\ txn[r].phase = "apply" /\ txn[r].decision = "approve" /\ ~txn[r].canary
    /\ Sound(change[txn[r].subject].target)
    /\ \E x \in 0..MaxRequests :
         /\ FirstActive(KindOf(change[txn[r].subject].target), x)
         /\ Continue(r, [Status(txn[r].subject, "applied") EXCEPT
              !.active = Row(IF x = 0 THEN txn[r].id ELSE x,
                             NextState(x, change[txn[r].subject].target))])

\* _upsert_policy_pack_canary replaces the canary that is active.
StartCanary(r) ==
    /\ txn[r].phase = "apply" /\ txn[r].decision = "approve" /\ txn[r].canary
    /\ PackPasses(change[txn[r].subject].target)
    /\ \E y \in 0..MaxRequests :
         /\ FirstCanary(y)
         /\ Continue(r, [Status(txn[r].subject, "canary_active") EXCEPT
              !.canary = Row(IF y = 0 THEN txn[r].id ELSE y,
                             [target |-> change[txn[r].subject].target,
                              change |-> txn[r].subject, status |-> "active"])])

(***************************************************************************)
(* Sessions                                                                *)
(***************************************************************************)
\* An UPDATE waits for the sessions that have the row locked.
Blocked(r) ==
    \E s \in Requests \ {r} : Locks(txn[r].want) \cap Locks(txn[s].sent) # {}

Flush(r) ==
    /\ txn[r].phase = "flush" /\ ~Blocked(r)
    /\ txn' = [txn EXCEPT
         ![r].phase = IF txn[r].then = "apply" THEN "apply" ELSE "ended",
         ![r].want = NoWrites,
         ![r].sent = Both(txn[r].want, txn[r].sent)]
    /\ loop' = IF txn[r].then = "apply" THEN loop ELSE Nobody
    /\ UNCHANGED <<db, requests, contended>>

\* The loop hands the commit of an ended body to a thread.
HandOver(r) ==
    /\ loop = Nobody /\ txn[r].phase = "ended"
    /\ txn' = [txn EXCEPT ![r].phase = "committing"]
    /\ UNCHANGED <<db, loop, requests, contended>>

Commit(r) ==
    /\ txn[r].phase = "committing"
    /\ change' = Merge(txn[r].sent.change, change)
    /\ task' = Merge(txn[r].sent.task, task)
    /\ approvals' = approvals \cup txn[r].sent.approvals
    /\ active' = Merge(txn[r].sent.active, active)
    /\ canary' = Merge(txn[r].sent.canary, canary)
    /\ txn' = [txn EXCEPT ![r] = Idle]
    /\ UNCHANGED <<loop, requests, contended>>

\* An unknown pack, failing tests of a pack, an audit event that cannot be written
\* (append_audit_event) or a failed commit: nothing the session wrote remains.
Fail(r) ==
    /\ \/ txn[r].phase = "committing"
       \/ loop = r /\ txn[r].phase = "apply"
       \/ loop = r /\ txn[r].phase = "flush" /\ txn[r].then = "end"
    /\ txn' = [txn EXCEPT ![r] = Idle]
    /\ loop' = IF loop = r THEN Nobody ELSE loop
    /\ UNCHANGED <<db, requests, contended>>

\* The process dies: sessions are rolled back, a blocked loop is gone.
Restart ==
    /\ \E r \in Requests : txn[r].phase # "idle"
    /\ txn' = [r \in Requests |-> Idle]
    /\ loop' = Nobody
    /\ UNCHANGED <<db, requests, contended>>

Endpoint(r) ==
    \/ RequestPackChange(r) \/ DecidePackChange(r) \/ RollBackPack(r) \/ PromoteCanary(r)
    \/ RequestManifestChange(r) \/ DecideManifestChange(r) \/ RollBackManifest(r)
    \/ CreateProposal(r) \/ DecideReviewTask(r)

Body(r) == DeclineChange(r) \/ ApplyChange(r) \/ StartCanary(r) \/ Flush(r)

Session(r) == HandOver(r) \/ Commit(r) \/ Fail(r)

Next == (\E r \in Requests : Endpoint(r) \/ Body(r) \/ Session(r)) \/ Restart

Spec == Init /\ [][Next]_vars

-----------------------------------------------------------------------------
(* Properties *)

Statuses == {"staged", "applied", "canary_active", "rejected", "deferred"}
TaskStatuses == {"open", "approved", "rejected", "deferred"}

\* Every variable has its type.
TypeOK ==
    /\ DOMAIN change \subseteq Ids
    /\ \A c \in DOMAIN change : change[c] \in [target : Targets, status : Statuses]
    /\ DOMAIN change \subseteq DOMAIN task
    /\ \A c \in DOMAIN task : task[c] \in TaskStatuses
    /\ approvals \subseteq [task : DOMAIN task, decision : Words]
    /\ \A x \in DOMAIN active :
         active[x] \in [target : Targets, previous : Targets \cup {NoTarget}, version : Ids]
    /\ \A y \in DOMAIN canary :
         canary[y] \in [target : Packs, change : DOMAIN change,
                        status : {"active", "promoted"}]
    /\ loop \in Requests \cup {Nobody}
    /\ requests \in 0..MaxRequests

\* Whatever was effective, may be restored by a rollback or is promoted from a
\* canary has passed its tests and was once approved by a committed decision on a
\* change that asked for it
\* (policy_pack_service.py:145, :247, :328): no later rejection, rollback or failed
\* session lets anything else through.
Approved(target) ==
    /\ target \notin Unsound
    /\ \E a \in approvals : /\ a.decision = "approve"
                            /\ a.task \in DOMAIN change
                            /\ change[a.task].target = target

EffectiveWasApproved ==
    /\ \A x \in DOMAIN active :
         /\ Approved(active[x].target)
         /\ active[x].previous # NoTarget => Approved(active[x].previous)
    /\ \A y \in DOMAIN canary : Approved(canary[y].target)

\* Of two opposite decisions that two sessions took on one task at the same time,
\* the second is refused (review_repository.py:108,
\* spec/10_PHASES_AND_TASKS.md:521-523).
ConflictingDecisionRejected ==
    \A a, b \in approvals :
        a.task = b.task /\ <<"task", a.task>> \in contended
            => ~(a.decision = "approve" /\ b.decision = "reject")

\* One row is effective for a kind, and each change of it keeps what it replaces
\* as the target of the next rollback with the next version; two sessions that
\* changed it at the same time may lose a change (policy_pack_service.py:199).
UndoLeadsToPredecessor ==
    [][\A kind \in {Packs, Manifests} :
         \/ \E t \in kind : <<"state", KindName(t)>> \in contended
         \/ /\ Cardinality(ActiveRows(kind)') <= 1
            /\ \A x \in ActiveRows(kind) : active'[x] # active[x] =>
                 /\ active'[x].previous = active[x].target
                 /\ active'[x].version = active[x].version + 1]_vars
=============================================================================
