------------------------ MODULE ChangeControlProofs ------------------------
(***************************************************************************)
(* Proofs about ChangeControl, for every number of requests and whichever  *)
(* sessions overlap, fail or are lost.  What is effective was tested and   *)
(* approved: a session writes rows it could not commit yet, and what it is *)
(* about to make effective rests on decisions that are committed, or on    *)
(* its own, which it commits in the same step (ChangeInv).  An undo leads  *)
(* to the predecessor: the effective state a session has read is still     *)
(* the committed one when it commits, unless another open session writes   *)
(* the same kind (RecordInv).                                              *)
(***************************************************************************)
EXTENDS ChangeControl, FiniteSetTheorems, TLAPS

SessionFields == {"phase", "id", "then", "decision", "subject", "canary", "want", "sent"}
WriteFields == {"change", "task", "approvals", "active", "canary"}
ChangeFields == {"target", "status"}
CanaryFields == {"target", "change", "status"}

\* A target is backed by the committed approvals and those in own.
Backed(own, target) ==
    /\ target \notin Unsound
    /\ \E a \in approvals \cup own : /\ a.decision = "approve"
                                     /\ a.task \in DOMAIN change
                                     /\ change[a.task].target = target

BackedState(own, row) ==
    Backed(own, row.target) /\ (row.previous # NoTarget => Backed(own, row.previous))

\* A session may insert the change of its own number, and keeps the target of others.
OwnChange(c, row, id) ==
    /\ DOMAIN row = ChangeFields
    /\ IF c \in DOMAIN change THEN row.target = change[c].target ELSE c = id

WritesOK(w, id, own) ==
    /\ DOMAIN w = WriteFields
    /\ \A c \in DOMAIN w.change : OwnChange(c, w.change[c], id)
    /\ \A x \in DOMAIN w.active : BackedState(own, w.active[x])
    /\ \A y \in DOMAIN w.canary :
         DOMAIN w.canary[y] = CanaryFields /\ Backed(own, w.canary[y].target)

Decides(rows, c, decision) == \E a \in rows : a.task = c /\ a.decision = decision

SessionOK(s) ==
    /\ DOMAIN s = SessionFields
    /\ WritesOK(s.want, s.id, s.sent.approvals)
    /\ WritesOK(s.sent, s.id, s.sent.approvals)
    /\ IF s.phase = "idle" THEN s = Idle ELSE s.id \in 1..requests
    /\ s.then = "apply" => s.subject \in DOMAIN change
    /\ s.phase = "flush" /\ s.then = "apply" =>
         Decides(s.want.approvals, s.subject, s.decision)
    /\ s.phase = "apply" =>
         s.then = "apply" /\ Decides(s.sent.approvals, s.subject, s.decision)

\* No two open sessions have the same number.
NumbersUnique ==
    \A r, s \in Requests :
        txn[r].phase # "idle" /\ txn[s].phase # "idle" /\ txn[r].id = txn[s].id => r = s

CommittedOK ==
    /\ requests \in Nat
    /\ DOMAIN change \subseteq 1..requests
    /\ \A c \in DOMAIN change : DOMAIN change[c] = ChangeFields
    /\ \A x \in DOMAIN active : BackedState({}, active[x])
    /\ \A y \in DOMAIN canary :
         DOMAIN canary[y] = CanaryFields /\ Backed({}, canary[y].target)

ChangeInv ==
    /\ CommittedOK
    /\ DOMAIN txn = Requests /\ \A r \in Requests : SessionOK(txn[r])
    /\ NumbersUnique

-----------------------------------------------------------------------------
LEMMA NoWritesOK ==
    ASSUME NEW id, NEW own
    PROVE  WritesOK(NoWrites, id, own)
BY DEF WritesOK, NoWrites, None, WriteFields

LEMMA IdleOK == SessionOK(Idle)
<1>1. /\ DOMAIN Idle = SessionFields /\ Idle.want = NoWrites /\ Idle.sent = NoWrites
      /\ Idle.phase = "idle" /\ Idle.then = "end"
  BY DEF Idle, SessionFields
<1> QED BY <1>1, NoWritesOK DEF SessionOK

\* Approvals that come to be known leave what is backed backed.
LEMMA BackedByMore ==
    ASSUME NEW own, NEW more, own \subseteq more
    PROVE  /\ \A target : Backed(own, target) => Backed(more, target)
           /\ \A row : BackedState(own, row) => BackedState(more, row)
           /\ \A w, id : WritesOK(w, id, own) => WritesOK(w, id, more)
<1>1. \A target : Backed(own, target) => Backed(more, target)
  BY DEF Backed
<1>2. \A row : BackedState(own, row) => BackedState(more, row)
  BY <1>1 DEF BackedState
<1> QED BY <1>1, <1>2 DEF WritesOK

\* What two sets of writes have right, both together have.
LEMMA BothOK ==
    ASSUME NEW w, NEW v, NEW id, NEW own, WritesOK(w, id, own), WritesOK(v, id, own)
    PROVE  WritesOK(Both(w, v), id, own)
<1> DEFINE b == Both(w, v)
<1>1. /\ DOMAIN b = WriteFields /\ b.change = Merge(w.change, v.change)
      /\ b.active = Merge(w.active, v.active) /\ b.canary = Merge(w.canary, v.canary)
  BY DEF Both, WriteFields
<1> HIDE DEF b
<1>2. \A c \in DOMAIN b.change : OwnChange(c, b.change[c], id)
  BY <1>1 DEF WritesOK, Merge
<1>3. \A x \in DOMAIN b.active : BackedState(own, b.active[x])
  BY <1>1 DEF WritesOK, Merge
<1>4. \A y \in DOMAIN b.canary :
         DOMAIN b.canary[y] = CanaryFields /\ Backed(own, b.canary[y].target)
  BY <1>1 DEF WritesOK, Merge
<1>5. WritesOK(b, id, own)
  BY <1>1, <1>2, <1>3, <1>4 DEF WritesOK
<1> QED BY <1>5 DEF b

\* The rows of the database are unchanged in every step but a commit.
LEMMA SameRows ==
    ASSUME UNCHANGED db
    PROVE  /\ \A own, target : Backed(own, target)' <=> Backed(own, target)
           /\ \A own, row : BackedState(own, row)' <=> BackedState(own, row)
           /\ \A w, id, own : WritesOK(w, id, own)' <=> WritesOK(w, id, own)
<1>1. change' = change /\ approvals' = approvals
  BY DEF db
<1>2. \A own, target : Backed(own, target)' <=> Backed(own, target)
  BY <1>1 DEF Backed
<1>3. \A own, row : BackedState(own, row)' <=> BackedState(own, row)
  BY <1>2 DEF BackedState
<1> QED BY <1>1, <1>2, <1>3 DEF WritesOK, OwnChange

\* A step that opens, carries on or ends the session of r.
LEMMA SessionStep ==
    ASSUME ChangeInv, UNCHANGED db, NEW r \in Requests, NEW s,
           DOMAIN txn' = Requests, txn'[r] = s, SessionOK(s)',
           \A q \in Requests : q # r => txn'[q] = txn[q],
           requests' \in Nat, requests' >= requests,
           s.phase # "idle" =>
               \/ txn[r].phase # "idle" /\ s.id = txn[r].id
               \/ s.id = requests + 1
    PROVE  ChangeInv'
<1>1. CommittedOK'
  <2>1. UNCHANGED <<change, active, canary>>
    BY DEF db
  <2>2. DOMAIN change \subseteq 1..requests'
    BY DEF ChangeInv, CommittedOK
  <2> QED BY <2>1, <2>2, SameRows DEF ChangeInv, CommittedOK
<1>2. DOMAIN txn' = Requests /\ txn'[r] = s
  OBVIOUS
<1>3. \A q \in Requests : SessionOK(txn[q])'
  <2> SUFFICES ASSUME NEW q \in Requests PROVE SessionOK(txn[q])'
    OBVIOUS
  <2>1. CASE q = r
    BY <1>2, <2>1
  <2>2. CASE q # r
    <3>1. PICK o : o = txn[q] /\ SessionOK(o) /\ txn'[q] = o
      BY <2>2 DEF ChangeInv
    <3>2. o.id \in 1..requests => o.id \in 1..requests'
      BY DEF ChangeInv, CommittedOK
    <3>3. change' = change
      BY DEF db
    <3>4. SessionOK(o)'
      BY <3>1, <3>2, <3>3, SameRows DEF SessionOK
    <3> QED BY <3>1, <3>4
  <2> QED BY <2>1, <2>2
<1>4. NumbersUnique'
  <2> SUFFICES ASSUME NEW p \in Requests, NEW q \in Requests, p # q,
                      txn'[p].phase # "idle", txn'[q].phase # "idle",
                      txn'[p].id = txn'[q].id
               PROVE  FALSE
    BY DEF NumbersUnique
  <2>1. \A o \in Requests : o # r => txn'[o] = txn[o]
    BY DEF ChangeInv
  <2>2. \A o \in Requests : txn[o].phase # "idle" => txn[o].id \in 1..requests
    BY DEF ChangeInv, SessionOK
  <2>3. requests \in Nat
    BY DEF ChangeInv, CommittedOK
  <2> QED BY <1>2, <2>1, <2>2, <2>3 DEF ChangeInv, NumbersUnique
<1> QED BY <1>1, <1>2, <1>3, <1>4 DEF ChangeInv

-----------------------------------------------------------------------------
(* Endpoints *)

LEMMA BeginKeeps ==
    ASSUME ChangeInv, NEW r \in Requests, NEW session, Begin(r, session),
           DOMAIN session = SessionFields, session.sent = NoWrites,
           WritesOK(session.want, requests + 1, {}),
           session.then = "apply" =>
               /\ session.subject \in DOMAIN change
               /\ Decides(session.want.approvals, session.subject, session.decision)
    PROVE  ChangeInv'
<1>0. PICK s : s = [session EXCEPT !.phase = "flush", !.id = requests + 1]
  OBVIOUS
<1>1. /\ DOMAIN s = SessionFields /\ s.phase = "flush" /\ s.id = requests + 1
      /\ s.sent = NoWrites /\ s.want = session.want /\ s.then = session.then
      /\ s.subject = session.subject /\ s.decision = session.decision
  BY <1>0 DEF SessionFields
<1>2. /\ txn' = [txn EXCEPT ![r] = s] /\ UNCHANGED db /\ requests' = requests + 1
  BY <1>0 DEF Begin
<1>3. DOMAIN txn = Requests /\ requests \in Nat
  BY DEF ChangeInv, CommittedOK
<1>4. SessionOK(s)'
  <2>1. s.sent.approvals = {}
    BY <1>1 DEF NoWrites
  <2>2. WritesOK(s.want, s.id, s.sent.approvals) /\ WritesOK(s.sent, s.id, s.sent.approvals)
    BY <1>1, <2>1, NoWritesOK
  <2>3. change' = change
    BY <1>2 DEF db
  <2>4. WritesOK(s.want, s.id, s.sent.approvals)' /\ WritesOK(s.sent, s.id, s.sent.approvals)'
    BY <1>2, <2>2, SameRows
  <2>5. s.id \in 1..requests'
    BY <1>1, <1>2, <1>3
  <2> QED BY <1>1, <2>3, <2>4, <2>5 DEF SessionOK
<1>5. DOMAIN txn' = Requests /\ txn'[r] = s /\ \A q \in Requests : q # r => txn'[q] = txn[q]
  BY <1>2, <1>3
<1>6. requests' \in Nat /\ requests' >= requests
  BY <1>2, <1>3
<1> QED BY <1>1, <1>2, <1>4, <1>5, <1>6, SessionStep

\* A session that ends with what it flushes first.
LEMMA SingleKeeps ==
    ASSUME ChangeInv, NEW r \in Requests, NEW w, Begin(r, [Idle EXCEPT !.want = w]),
           WritesOK(w, requests + 1, {})
    PROVE  ChangeInv'
<1> DEFINE s == [Idle EXCEPT !.want = w]
<1>1. DOMAIN s = SessionFields /\ s.sent = NoWrites /\ s.want = w /\ s.then = "end"
  BY DEF Idle, SessionFields
<1>2. Begin(r, s)
  OBVIOUS
<1> HIDE DEF s
<1> QED BY <1>1, <1>2, BeginKeeps

\* Writes that touch neither effective state nor canary.
LEMMA StageChangeKeeps ==
    ASSUME ChangeInv, NEW r \in Requests, NEW target, StageChange(r, target)
    PROVE  ChangeInv'
<1> DEFINE row == [target |-> target, status |-> "staged"]
<1> DEFINE w == [NoWrites EXCEPT !.change = Row(requests + 1, row),
                                 !.task = Row(requests + 1, "open")]
<1>1. /\ DOMAIN w = WriteFields /\ w.change = Row(requests + 1, row)
      /\ w.active = None /\ w.canary = None
  BY DEF NoWrites, WriteFields
<1>2. requests + 1 \notin DOMAIN change
  BY DEF ChangeInv, CommittedOK
<1>3. Begin(r, [Idle EXCEPT !.want = w])
  BY DEF StageChange
<1>4. DOMAIN row = ChangeFields
  BY DEF ChangeFields
<1> HIDE DEF w, row
<1>5. WritesOK(w, requests + 1, {})
  BY <1>1, <1>2, <1>4 DEF WritesOK, OwnChange, Row, None
<1> QED BY <1>3, <1>5, SingleKeeps

LEMMA CreateProposalKeeps ==
    ASSUME ChangeInv, NEW r \in Requests, CreateProposal(r)
    PROVE  ChangeInv'
<1> DEFINE w == [NoWrites EXCEPT !.task = Row(requests + 1, "open")]
<1>1. DOMAIN w = WriteFields /\ w.change = None /\ w.active = None /\ w.canary = None
  BY DEF NoWrites, WriteFields
<1>2. Begin(r, [Idle EXCEPT !.want = w])
  BY DEF CreateProposal
<1> HIDE DEF w
<1>3. WritesOK(w, requests + 1, {})
  BY <1>1 DEF WritesOK, None
<1> QED BY <1>2, <1>3, SingleKeeps

\* A decision is written as a row of its own, and touches nothing else.
LEMMA DecidedOK ==
    ASSUME NEW c, NEW decision, NEW id, NEW own
    PROVE  /\ WritesOK(Decided(c, decision), id, own)
           /\ Decides(Decided(c, decision).approvals, c, decision)
<1> DEFINE w == Decided(c, decision)
<1>1. /\ DOMAIN w = WriteFields /\ w.change = None /\ w.active = None /\ w.canary = None
      /\ w.approvals = {[task |-> c, decision |-> decision]}
  BY DEF Decided, NoWrites, WriteFields
<1> HIDE DEF w
<1>2. WritesOK(w, id, own) /\ Decides(w.approvals, c, decision)
  BY <1>1 DEF WritesOK, None, Decides
<1> QED BY <1>2 DEF w

LEMMA DecideReviewTaskKeeps ==
    ASSUME ChangeInv, NEW r \in Requests, DecideReviewTask(r)
    PROVE  ChangeInv'
<1>1. PICK c, decision : Begin(r, [Idle EXCEPT !.want = Decided(c, decision)])
  BY DEF DecideReviewTask
<1> QED BY <1>1, DecidedOK, SingleKeeps

LEMMA DecideChangeKeeps ==
    ASSUME ChangeInv, NEW r \in Requests, NEW c \in DOMAIN change, NEW decision,
           NEW session, Begin(r, session),
           DOMAIN session = SessionFields, session.sent = NoWrites,
           session.want = Decided(c, decision), session.subject = c,
           session.decision = decision
    PROVE  ChangeInv'
BY DecidedOK, BeginKeeps

LEMMA DecidePackChangeKeeps ==
    ASSUME ChangeInv, NEW r \in Requests, DecidePackChange(r)
    PROVE  ChangeInv'
<1>1. PICK c \in DOMAIN change, decision \in Decisions, canaryEnabled \in BOOLEAN :
        Begin(r, [Idle EXCEPT !.want = Decided(c, decision), !.then = "apply",
                  !.subject = c, !.decision = decision, !.canary = canaryEnabled])
  BY DEF DecidePackChange
<1> DEFINE s == [Idle EXCEPT !.want = Decided(c, decision), !.then = "apply",
                 !.subject = c, !.decision = decision, !.canary = canaryEnabled]
<1>2. /\ DOMAIN s = SessionFields /\ s.sent = NoWrites /\ s.want = Decided(c, decision)
      /\ s.subject = c /\ s.decision = decision
  BY DEF Idle, SessionFields
<1>3. Begin(r, s)
  BY <1>1
<1> HIDE DEF s
<1> QED BY <1>2, <1>3, DecideChangeKeeps

LEMMA DecideManifestChangeKeeps ==
    ASSUME ChangeInv, NEW r \in Requests, DecideManifestChange(r)
    PROVE  ChangeInv'
<1>1. PICK c \in DOMAIN change, decision \in Decisions :
        Begin(r, [Idle EXCEPT !.want = Decided(c, decision), !.then = "apply",
                  !.subject = c, !.decision = decision])
  BY DEF DecideManifestChange
<1> DEFINE s == [Idle EXCEPT !.want = Decided(c, decision), !.then = "apply",
                 !.subject = c, !.decision = decision]
<1>2. /\ DOMAIN s = SessionFields /\ s.sent = NoWrites /\ s.want = Decided(c, decision)
      /\ s.subject = c /\ s.decision = decision
  BY DEF Idle, SessionFields
<1>3. Begin(r, s)
  BY <1>1
<1> HIDE DEF s
<1> QED BY <1>2, <1>3, DecideChangeKeeps

\* The state that replaces a committed one is backed if its target is.
LEMMA NextStateOK ==
    ASSUME ChangeInv, NEW x, x = 0 \/ x \in DOMAIN active, NEW target, NEW own,
           Backed(own, target)
    PROVE  BackedState(own, NextState(x, target))
<1>1. CASE x = 0
  BY <1>1 DEF NextState, BackedState
<1>2. CASE x # 0
  <2>1. Backed({}, active[x].target)
    BY <1>2 DEF ChangeInv, CommittedOK, BackedState
  <2>2. Backed(own, active[x].target)
    BY <2>1, BackedByMore
  <2>3. /\ NextState(x, target).target = target
        /\ NextState(x, target).previous = active[x].target
    BY <1>2 DEF NextState
  <2> QED BY <2>2, <2>3 DEF BackedState
<1> QED BY <1>1, <1>2

LEMMA FirstActiveCommitted ==
    ASSUME NEW kind, NEW x, FirstActive(kind, x)
    PROVE  x = 0 \/ x \in DOMAIN active
BY DEF FirstActive, ActiveRows

LEMMA RollBackKeeps ==
    ASSUME ChangeInv, NEW r \in Requests, NEW kind, RollBack(r, kind)
    PROVE  ChangeInv'
<1>1. PICK x \in ActiveRows(kind) :
        /\ active[x].previous # NoTarget
        /\ Begin(r, [Idle EXCEPT
             !.want = [NoWrites EXCEPT !.active = Row(x, NextState(x, active[x].previous))]])
  BY DEF RollBack
<1> DEFINE w == [NoWrites EXCEPT !.active = Row(x, NextState(x, active[x].previous))]
<1>2. x \in DOMAIN active
  BY DEF ActiveRows
<1>3. Backed({}, active[x].previous)
  BY <1>1, <1>2 DEF ChangeInv, CommittedOK, BackedState
<1>4. BackedState({}, NextState(x, active[x].previous))
  BY <1>2, <1>3, NextStateOK
<1>5. /\ DOMAIN w = WriteFields /\ w.change = None /\ w.canary = None
      /\ w.active = Row(x, NextState(x, active[x].previous))
  BY DEF NoWrites, WriteFields
<1>6. Begin(r, [Idle EXCEPT !.want = w])
  BY <1>1
<1> HIDE DEF w
<1>7. WritesOK(w, requests + 1, {})
  BY <1>4, <1>5 DEF WritesOK, Row, None
<1> QED BY <1>6, <1>7, SingleKeeps

LEMMA PromoteCanaryKeeps ==
    ASSUME ChangeInv, NEW r \in Requests, PromoteCanary(r)
    PROVE  ChangeInv'
<1>1. PICK y \in DOMAIN canary, x \in 0..MaxRequests :
        /\ FirstCanary(y) /\ FirstActive(Packs, x)
        /\ Begin(r, [Idle EXCEPT
             !.want = [NoWrites EXCEPT
                !.active = Row(IF x = 0 THEN requests + 1 ELSE x,
                               NextState(x, canary[y].target)),
                !.canary = Row(y, [canary[y] EXCEPT !.status = "promoted"])]])
  BY DEF PromoteCanary
<1> DEFINE z == IF x = 0 THEN requests + 1 ELSE x
<1> DEFINE row == [canary[y] EXCEPT !.status = "promoted"]
<1> DEFINE w == [NoWrites EXCEPT !.active = Row(z, NextState(x, canary[y].target)),
                                 !.canary = Row(y, row)]
<1>2. Backed({}, canary[y].target) /\ DOMAIN canary[y] = CanaryFields
  BY DEF ChangeInv, CommittedOK
<1>3. BackedState({}, NextState(x, canary[y].target))
  BY <1>1, <1>2, FirstActiveCommitted, NextStateOK
<1>4. DOMAIN row = CanaryFields /\ row.target = canary[y].target
  BY <1>2 DEF CanaryFields
<1>5. Begin(r, [Idle EXCEPT !.want = w])
  BY <1>1
<1> HIDE DEF z, row
<1>6. /\ DOMAIN w = WriteFields /\ w.change = None
      /\ w.active = Row(z, NextState(x, canary[y].target)) /\ w.canary = Row(y, row)
  BY DEF NoWrites, WriteFields
<1> HIDE DEF w
<1>7. WritesOK(w, requests + 1, {})
  BY <1>2, <1>3, <1>4, <1>6 DEF WritesOK, Row, None
<1> QED BY <1>5, <1>7, SingleKeeps

-----------------------------------------------------------------------------
(* Bodies *)

LEMMA ContinueKeeps ==
    ASSUME ChangeInv, NEW r \in Requests, txn[r].phase = "apply",
           NEW w, Continue(r, w), WritesOK(w, txn[r].id, txn[r].sent.approvals)
    PROVE  ChangeInv'
<1>1. PICK s : s = [txn[r] EXCEPT !.phase = "flush", !.then = "end", !.want = w]
  OBVIOUS
<1>2. SessionOK(txn[r]) /\ DOMAIN txn = Requests /\ requests \in Nat
  BY DEF ChangeInv, CommittedOK
<1>3. /\ DOMAIN s = SessionFields /\ s.phase = "flush" /\ s.then = "end" /\ s.want = w
      /\ s.sent = txn[r].sent /\ s.id = txn[r].id
  BY <1>1, <1>2 DEF SessionOK, SessionFields
<1>4. txn' = [txn EXCEPT ![r] = s] /\ UNCHANGED db /\ requests' = requests
  BY <1>1 DEF Continue
<1>5. WritesOK(s.want, s.id, s.sent.approvals) /\ WritesOK(s.sent, s.id, s.sent.approvals)
      /\ s.id \in 1..requests
  BY <1>2, <1>3 DEF SessionOK
<1>6. SessionOK(s)'
  BY <1>3, <1>4, <1>5, SameRows DEF SessionOK
<1>7. DOMAIN txn' = Requests /\ txn'[r] = s /\ \A q \in Requests : q # r => txn'[q] = txn[q]
  BY <1>2, <1>4
<1> QED BY <1>2, <1>3, <1>4, <1>6, <1>7, SessionStep

\* The change a body is about keeps its target under a new status.
LEMMA StatusOK ==
    ASSUME ChangeInv, NEW c \in DOMAIN change, NEW status, NEW id, NEW own
    PROVE  /\ WritesOK(Status(c, status), id, own)
           /\ DOMAIN Status(c, status) = WriteFields
           /\ \A x \in DOMAIN Status(c, status).change :
                OwnChange(x, Status(c, status).change[x], id)
           /\ Status(c, status).active = None /\ Status(c, status).canary = None
<1> DEFINE row == [change[c] EXCEPT !.status = status]
<1> DEFINE w == Status(c, status)
<1>1. DOMAIN change[c] = ChangeFields
  BY DEF ChangeInv, CommittedOK
<1>2. DOMAIN row = ChangeFields /\ row.target = change[c].target
  BY <1>1 DEF ChangeFields
<1>3. w = [NoWrites EXCEPT !.change = Row(c, row)]
  BY DEF Status
<1> HIDE DEF row, w
<1>4. /\ DOMAIN w = WriteFields /\ w.change = Row(c, row)
      /\ w.active = None /\ w.canary = None
  BY <1>3 DEF NoWrites, WriteFields
<1>5. \A x \in DOMAIN w.change : OwnChange(x, w.change[x], id)
  BY <1>2, <1>4 DEF OwnChange, Row
<1>6. WritesOK(w, id, own)
  BY <1>4, <1>5 DEF WritesOK, None
<1> QED BY <1>4, <1>5, <1>6 DEF w

LEMMA DeclineChangeKeeps ==
    ASSUME ChangeInv, NEW r \in Requests, DeclineChange(r)
    PROVE  ChangeInv'
<1>1. txn[r].subject \in DOMAIN change
  BY DEF ChangeInv, SessionOK, DeclineChange
<1>2. PICK w : w = Status(txn[r].subject, Verdict(txn[r].decision))
  OBVIOUS
<1>3. WritesOK(w, txn[r].id, txn[r].sent.approvals)
  BY <1>1, <1>2, StatusOK
<1> QED BY <1>2, <1>3, ContinueKeeps DEF DeclineChange

\* The body of an approval has what backs the target of its change in its session.
LEMMA ApprovalBacks ==
    ASSUME ChangeInv, NEW r \in Requests, txn[r].phase = "apply",
           txn[r].decision = "approve", change[txn[r].subject].target \notin Unsound
    PROVE  /\ txn[r].subject \in DOMAIN change
           /\ Backed(txn[r].sent.approvals, change[txn[r].subject].target)
<1>1. /\ txn[r].subject \in DOMAIN change
      /\ Decides(txn[r].sent.approvals, txn[r].subject, "approve")
  BY DEF ChangeInv, SessionOK
<1> QED BY <1>1 DEF Decides, Backed

LEMMA ApplyChangeKeeps ==
    ASSUME ChangeInv, NEW r \in Requests, ApplyChange(r)
    PROVE  ChangeInv'
<1> DEFINE c == txn[r].subject
<1> DEFINE target == change[c].target
<1> DEFINE own == txn[r].sent.approvals
<1>1. target \notin Unsound /\ txn[r].phase = "apply" /\ txn[r].decision = "approve"
  BY DEF ApplyChange, Sound, PackPasses, ManifestValid
<1>2. c \in DOMAIN change /\ Backed(own, target)
  BY <1>1, ApprovalBacks
<1>3. PICK x \in 0..MaxRequests :
        /\ FirstActive(KindOf(target), x)
        /\ Continue(r, [Status(c, "applied") EXCEPT
             !.active = Row(IF x = 0 THEN txn[r].id ELSE x, NextState(x, target))])
  BY DEF ApplyChange
<1>4. BackedState(own, NextState(x, target))
  BY <1>2, <1>3, FirstActiveCommitted, NextStateOK
<1>5. PICK z : z = IF x = 0 THEN txn[r].id ELSE x
  OBVIOUS
<1>6. PICK w : w = [Status(c, "applied") EXCEPT !.active = Row(z, NextState(x, target))]
  OBVIOUS
<1>7. Continue(r, w)
  BY <1>3, <1>5, <1>6
<1> HIDE DEF c, target, own
<1>8. /\ DOMAIN w = WriteFields /\ w.change = Status(c, "applied").change
      /\ w.canary = None /\ w.active = Row(z, NextState(x, target))
  BY <1>2, <1>6, StatusOK DEF WriteFields
<1>9. \A y \in DOMAIN w.change : OwnChange(y, w.change[y], txn[r].id)
  BY <1>2, <1>8, StatusOK
<1>10. WritesOK(w, txn[r].id, own)
  BY <1>4, <1>8, <1>9 DEF WritesOK, Row, None
<1> QED BY <1>1, <1>7, <1>10, ContinueKeeps DEF own

LEMMA StartCanaryKeeps ==
    ASSUME ChangeInv, NEW r \in Requests, StartCanary(r)
    PROVE  ChangeInv'
<1> DEFINE c == txn[r].subject
<1> DEFINE target == change[c].target
<1> DEFINE own == txn[r].sent.approvals
<1> DEFINE row == [target |-> target, change |-> c, status |-> "active"]
<1>1. target \notin Unsound /\ txn[r].phase = "apply" /\ txn[r].decision = "approve"
  BY DEF StartCanary, PackPasses
<1>2. c \in DOMAIN change /\ Backed(own, target)
  BY <1>1, ApprovalBacks
<1>3. PICK y \in 0..MaxRequests :
        Continue(r, [Status(c, "canary_active") EXCEPT
             !.canary = Row(IF y = 0 THEN txn[r].id ELSE y, row)])
  BY DEF StartCanary
<1>4. DOMAIN row = CanaryFields /\ row.target = target
  BY DEF CanaryFields
<1>5. PICK z : z = IF y = 0 THEN txn[r].id ELSE y
  OBVIOUS
<1>6. PICK w : w = [Status(c, "canary_active") EXCEPT !.canary = Row(z, row)]
  OBVIOUS
<1>7. Continue(r, w)
  BY <1>3, <1>5, <1>6
<1> HIDE DEF c, target, own, row
<1>8. /\ DOMAIN w = WriteFields /\ w.change = Status(c, "canary_active").change
      /\ w.active = None /\ w.canary = Row(z, row)
  BY <1>2, <1>6, StatusOK DEF WriteFields
<1>9. \A x \in DOMAIN w.change : OwnChange(x, w.change[x], txn[r].id)
  BY <1>2, <1>8, StatusOK
<1>10. WritesOK(w, txn[r].id, own)
  BY <1>2, <1>4, <1>8, <1>9 DEF WritesOK, Row, None
<1> QED BY <1>1, <1>7, <1>10, ContinueKeeps DEF own

-----------------------------------------------------------------------------
(* Sessions *)

LEMMA FlushKeeps ==
    ASSUME ChangeInv, NEW r \in Requests, Flush(r)
    PROVE  ChangeInv'
<1>1. PICK s : s = [txn[r] EXCEPT
             !.phase = IF txn[r].then = "apply" THEN "apply" ELSE "ended",
             !.want = NoWrites, !.sent = Both(txn[r].want, txn[r].sent)]
  OBVIOUS
<1>2. SessionOK(txn[r]) /\ DOMAIN txn = Requests /\ requests \in Nat
  BY DEF ChangeInv, CommittedOK
<1>3. /\ DOMAIN s = SessionFields /\ s.want = NoWrites /\ s.id = txn[r].id
      /\ s.phase = IF txn[r].then = "apply" THEN "apply" ELSE "ended"
      /\ s.sent = Both(txn[r].want, txn[r].sent) /\ s.then = txn[r].then
      /\ s.subject = txn[r].subject /\ s.decision = txn[r].decision
  BY <1>1, <1>2 DEF SessionOK, SessionFields
<1>4. /\ DOMAIN txn' = Requests /\ txn'[r] = s
      /\ \A q \in Requests : q # r => txn'[q] = txn[q]
  BY <1>1, <1>2 DEF Flush
<1>5. UNCHANGED db /\ requests' = requests /\ txn[r].phase = "flush"
  BY DEF Flush
<1>6. s.sent.approvals = txn[r].want.approvals \cup txn[r].sent.approvals
  BY <1>3 DEF Both
<1>7. WritesOK(s.sent, s.id, s.sent.approvals)
  <2>1. /\ WritesOK(txn[r].want, s.id, s.sent.approvals)
        /\ WritesOK(txn[r].sent, s.id, s.sent.approvals)
    BY <1>2, <1>3, <1>6, BackedByMore DEF SessionOK
  <2> QED BY <1>3, <2>1, BothOK
<1>8. /\ s.id \in 1..requests
      /\ s.then = "apply" => s.subject \in DOMAIN change
      /\ s.phase = "apply" =>
           s.then = "apply" /\ Decides(s.sent.approvals, s.subject, s.decision)
  BY <1>2, <1>3, <1>5, <1>6 DEF SessionOK, Decides
<1>9. SessionOK(s)'
  <2>1. WritesOK(s.want, s.id, s.sent.approvals)
    BY <1>3, NoWritesOK
  <2>2. WritesOK(s.want, s.id, s.sent.approvals)' /\ WritesOK(s.sent, s.id, s.sent.approvals)'
    BY <1>5, <1>7, <2>1, SameRows
  <2>3. change' = change /\ s.phase # "idle" /\ s.phase # "flush"
    BY <1>3, <1>5 DEF db
  <2> QED BY <1>3, <1>5, <1>8, <2>2, <2>3 DEF SessionOK, Decides
<1> QED BY <1>2, <1>3, <1>4, <1>5, <1>9, SessionStep

LEMMA HandOverKeeps ==
    ASSUME ChangeInv, NEW r \in Requests, HandOver(r)
    PROVE  ChangeInv'
<1>1. PICK s : s = [txn[r] EXCEPT !.phase = "committing"]
  OBVIOUS
<1>2. SessionOK(txn[r]) /\ DOMAIN txn = Requests /\ requests \in Nat
  BY DEF ChangeInv, CommittedOK
<1>3. /\ DOMAIN s = SessionFields /\ s.want = txn[r].want /\ s.id = txn[r].id
      /\ s.phase = "committing" /\ s.sent = txn[r].sent /\ s.then = txn[r].then
      /\ s.subject = txn[r].subject
  BY <1>1, <1>2 DEF SessionOK, SessionFields
<1>4. /\ DOMAIN txn' = Requests /\ txn'[r] = s
      /\ \A q \in Requests : q # r => txn'[q] = txn[q]
  BY <1>1, <1>2 DEF HandOver
<1>5. UNCHANGED db /\ requests' = requests /\ txn[r].phase = "ended"
  BY DEF HandOver
<1>6. SessionOK(s)'
  <2>1. WritesOK(s.want, s.id, s.sent.approvals)' /\ WritesOK(s.sent, s.id, s.sent.approvals)'
    BY <1>2, <1>3, <1>5, SameRows DEF SessionOK
  <2>2. change' = change
    BY <1>5 DEF db
  <2> QED BY <1>2, <1>3, <1>5, <2>1, <2>2 DEF SessionOK
<1> QED BY <1>2, <1>3, <1>4, <1>5, <1>6, SessionStep

\* Nothing a session wrote remains.
LEMMA FailKeeps ==
    ASSUME ChangeInv, NEW r \in Requests, Fail(r)
    PROVE  ChangeInv'
<1>1. txn' = [txn EXCEPT ![r] = Idle] /\ UNCHANGED db /\ requests' = requests
  BY DEF Fail
<1>2. DOMAIN txn = Requests /\ requests \in Nat
  BY DEF ChangeInv, CommittedOK
<1>3. PICK s : s = Idle
  OBVIOUS
<1>4. SessionOK(s)'
  <2>1. SessionOK(s)
    BY <1>3, IdleOK
  <2>2. change' = change
    BY <1>1 DEF db
  <2> QED BY <1>1, <2>1, <2>2, SameRows DEF SessionOK
<1>5. /\ DOMAIN txn' = Requests /\ txn'[r] = s
      /\ \A q \in Requests : q # r => txn'[q] = txn[q]
  BY <1>1, <1>2, <1>3
<1>6. s.phase = "idle"
  BY <1>3 DEF Idle
<1> QED BY <1>1, <1>2, <1>4, <1>5, <1>6, SessionStep

LEMMA RestartKeeps ==
    ASSUME ChangeInv, Restart
    PROVE  ChangeInv'
<1>1. txn' = [r \in Requests |-> Idle] /\ UNCHANGED db /\ requests' = requests
  BY DEF Restart
<1>2. CommittedOK'
  <2>1. UNCHANGED <<change, active, canary>>
    BY <1>1 DEF db
  <2> QED BY <1>1, <2>1, SameRows DEF ChangeInv, CommittedOK
<1>3. PICK s : s = Idle
  OBVIOUS
<1>4. SessionOK(s)'
  <2>1. SessionOK(s)
    BY <1>3, IdleOK
  <2>2. change' = change
    BY <1>1 DEF db
  <2> QED BY <1>1, <2>1, <2>2, SameRows DEF SessionOK
<1>5. DOMAIN txn' = Requests /\ \A r \in Requests : txn'[r] = s
  BY <1>1, <1>3
<1>6. \A r \in Requests : SessionOK(txn[r])'
  BY <1>4, <1>5
<1>7. NumbersUnique'
  BY <1>1 DEF NumbersUnique, Idle
<1> QED BY <1>2, <1>5, <1>6, <1>7 DEF ChangeInv

LEMMA CommitKeeps ==
    ASSUME ChangeInv, NEW r \in Requests, Commit(r)
    PROVE  ChangeInv'
<1>1. PICK w : w = txn[r].sent
  OBVIOUS
<1>2. PICK id : id = txn[r].id
  OBVIOUS
<1>3. /\ change' = Merge(w.change, change) /\ approvals' = approvals \cup w.approvals
      /\ active' = Merge(w.active, active) /\ canary' = Merge(w.canary, canary)
      /\ txn' = [txn EXCEPT ![r] = Idle] /\ requests' = requests
      /\ txn[r].phase = "committing"
  BY <1>1 DEF Commit
<1>4. WritesOK(w, id, w.approvals) /\ id \in 1..requests
  BY <1>1, <1>2, <1>3 DEF ChangeInv, SessionOK
<1>5. /\ DOMAIN change' = DOMAIN w.change \cup DOMAIN change
      /\ \A c \in DOMAIN change' :
           change'[c] = IF c \in DOMAIN w.change THEN w.change[c] ELSE change[c]
  BY <1>3 DEF Merge
<1>6. \A c \in DOMAIN change : c \in DOMAIN change' /\ change'[c].target = change[c].target
  BY <1>4, <1>5 DEF WritesOK, OwnChange
<1>7. \A own, target : Backed(own, target) => Backed(own, target)'
  BY <1>3, <1>6 DEF Backed
<1>8. \A target : Backed(w.approvals, target) => Backed({}, target)'
  BY <1>3, <1>6 DEF Backed
<1>9. /\ \A own, row : BackedState(own, row) => BackedState(own, row)'
      /\ \A row : BackedState(w.approvals, row) => BackedState({}, row)'
  BY <1>7, <1>8 DEF BackedState
<1>10. CommittedOK'
  <2>1. requests' \in Nat /\ DOMAIN change' \subseteq 1..requests'
    BY <1>3, <1>4, <1>5 DEF ChangeInv, CommittedOK, WritesOK, OwnChange
  <2>2. \A c \in DOMAIN change' : DOMAIN change'[c] = ChangeFields
    BY <1>4, <1>5 DEF ChangeInv, CommittedOK, WritesOK, OwnChange
  <2>3. \A x \in DOMAIN active' : BackedState({}, active[x])'
    <3> SUFFICES ASSUME NEW x \in DOMAIN active' PROVE BackedState({}, active[x])'
      OBVIOUS
    <3>1. PICK row : row = active'[x]
      OBVIOUS
    <3>2. BackedState(w.approvals, row) \/ BackedState({}, row)
      BY <1>3, <1>4, <3>1 DEF Merge, WritesOK, ChangeInv, CommittedOK
    <3>3. BackedState({}, row)'
      BY <1>9, <3>2
    <3> QED BY <3>1, <3>3
  <2>4. \A y \in DOMAIN canary' :
          DOMAIN canary'[y] = CanaryFields /\ Backed({}, canary[y].target)'
    <3> SUFFICES ASSUME NEW y \in DOMAIN canary'
                 PROVE  DOMAIN canary'[y] = CanaryFields /\ Backed({}, canary[y].target)'
      OBVIOUS
    <3>1. PICK row : row = canary'[y]
      OBVIOUS
    <3>2. DOMAIN row = CanaryFields
          /\ (Backed(w.approvals, row.target) \/ Backed({}, row.target))
      BY <1>3, <1>4, <3>1 DEF Merge, WritesOK, ChangeInv, CommittedOK
    <3>3. Backed({}, row.target)'
      BY <1>7, <1>8, <3>2
    <3> QED BY <3>1, <3>2, <3>3
  <2> QED BY <2>1, <2>2, <2>3, <2>4 DEF CommittedOK
<1>11. DOMAIN txn' = Requests /\ txn'[r] = Idle /\ \A q \in Requests : q # r => txn'[q] = txn[q]
  BY <1>3 DEF ChangeInv
<1>12. \A q \in Requests : SessionOK(txn[q])'
  <2> SUFFICES ASSUME NEW q \in Requests PROVE SessionOK(txn[q])'
    OBVIOUS
  <2>1. PICK s : s = txn'[q]
    OBVIOUS
  <2>2. SessionOK(s)
    BY <1>11, <2>1, IdleOK DEF ChangeInv
  <2>3. s.phase # "idle" => s.id # id
    BY <1>2, <1>3, <1>11, <2>1 DEF ChangeInv, NumbersUnique, Idle
  <2>4. \A c, row : OwnChange(c, row, s.id) /\ s.phase # "idle" => OwnChange(c, row, s.id)'
    BY <1>4, <1>5, <1>6, <2>3 DEF OwnChange, WritesOK
  <2>5. CASE s.phase = "idle"
    <3>1. s.want = NoWrites /\ s.sent = NoWrites
      BY <2>2, <2>5 DEF SessionOK, Idle
    <3>2. WritesOK(s.want, s.id, s.sent.approvals)' /\ WritesOK(s.sent, s.id, s.sent.approvals)'
      BY <3>1 DEF WritesOK, NoWrites, None, WriteFields
    <3>3. s.then = "end" /\ DOMAIN s = SessionFields /\ s = Idle
      BY <2>2, <2>5 DEF SessionOK, Idle
    <3>4. SessionOK(s)'
      BY <2>5, <3>2, <3>3 DEF SessionOK
    <3> QED BY <2>1, <3>4
  <2>6. CASE s.phase # "idle"
    <3>1. \A v : WritesOK(v, s.id, s.sent.approvals) => WritesOK(v, s.id, s.sent.approvals)'
      BY <1>7, <1>9, <2>4, <2>6 DEF WritesOK
    <3>2. s.then = "apply" => s.subject \in DOMAIN change'
      BY <1>5, <2>2 DEF SessionOK
    <3>3. SessionOK(s)'
      BY <1>3, <2>2, <2>6, <3>1, <3>2 DEF SessionOK, Decides
    <3> QED BY <2>1, <3>3
  <2> QED BY <2>5, <2>6
<1>13. NumbersUnique'
  BY <1>11 DEF ChangeInv, NumbersUnique, Idle
<1> QED BY <1>10, <1>11, <1>12, <1>13 DEF ChangeInv

-----------------------------------------------------------------------------
LEMMA InitChange == Init => ChangeInv
<1> SUFFICES ASSUME Init PROVE ChangeInv
  OBVIOUS
<1>1. CommittedOK
  BY DEF Init, CommittedOK, None
<1>2. DOMAIN txn = Requests /\ \A r \in Requests : txn[r] = Idle
  BY DEF Init
<1>3. \A r \in Requests : SessionOK(txn[r])
  BY <1>2, IdleOK
<1>4. NumbersUnique
  BY <1>2 DEF NumbersUnique, Idle
<1> QED BY <1>1, <1>2, <1>3, <1>4 DEF ChangeInv

LEMMA StutterKeeps == ChangeInv /\ UNCHANGED vars => ChangeInv'
<1> SUFFICES ASSUME ChangeInv, UNCHANGED vars PROVE ChangeInv'
  OBVIOUS
<1> QED
  BY DEF ChangeInv, vars, db, CommittedOK, NumbersUnique, SessionOK, WritesOK, OwnChange,
         BackedState, Backed, Decides

LEMMA EndpointKeeps ==
    ASSUME ChangeInv, NEW r \in Requests, Endpoint(r)
    PROVE  ChangeInv'
BY StageChangeKeeps, CreateProposalKeeps, DecideReviewTaskKeeps, DecidePackChangeKeeps,
   DecideManifestChangeKeeps, RollBackKeeps, PromoteCanaryKeeps
   DEF Endpoint, RequestPackChange, RequestManifestChange, RollBackPack, RollBackManifest

\* What is effective, may be rolled back to or is promoted from a canary has passed
\* its tests and has a committed approval (policy_pack_service.py:145, :247, :328).
THEOREM OnlyApprovedIsEffective == Spec => []EffectiveWasApproved
<1>1. ChangeInv /\ [Next]_vars => ChangeInv'
  BY EndpointKeeps, DeclineChangeKeeps, ApplyChangeKeeps, StartCanaryKeeps, FlushKeeps,
     HandOverKeeps, CommitKeeps, FailKeeps, RestartKeeps, StutterKeeps
     DEF Next, Body, Session
<1>2. ChangeInv => EffectiveWasApproved
  BY DEF ChangeInv, CommittedOK, BackedState, Backed, EffectiveWasApproved, Approved
<1> QED BY InitChange, <1>1, <1>2, PTL DEF Spec

-----------------------------------------------------------------------------
(* Records: tasks, decisions and effective states                          *)

\* Everything a session has written or is about to write.
Writes(s) == Both(s.want, s.sent)

StateOf(t) == <<"state", KindName(t)>>

ChangeRow == [target : Targets, status : Statuses]
ActiveRow == [target : Targets, previous : Targets \cup {NoTarget}, version : Ids]
CanaryRow == [target : Packs, change : DOMAIN change, status : {"active", "promoted"}]

SameKind(row) == row.previous # NoTarget => KindName(row.previous) = KindName(row.target)

\* A new change comes with its task.
ChangeWrites(w, id) ==
    \A c \in DOMAIN w.change :
        /\ w.change[c] \in ChangeRow
        /\ c \in DOMAIN change \/ (c = id /\ id \in DOMAIN w.task)

\* A session opens the task of its own number or decides one that is committed.
TaskWrites(w, id) ==
    /\ w.approvals \subseteq [task : DOMAIN task, decision : Words]
    /\ \A c \in DOMAIN w.task :
          \/ c = id /\ w.task[c] = "open"
          \/ \E a \in w.approvals : a.task = c /\ w.task[c] = Verdict(a.decision)

\* A session writes one effective state, and while no other session writes its
\* kind, it replaces the one that is committed.
StateWrites(w, id) ==
    /\ \A x, y \in DOMAIN w.active : x = y
    /\ \A x \in DOMAIN w.active :
          /\ w.active[x] \in ActiveRow /\ SameKind(w.active[x]) /\ w.active[x].version <= id
          /\ IF x \in DOMAIN active
             THEN KindName(active[x].target) = KindName(w.active[x].target)
             ELSE x = id
          /\ StateOf(w.active[x].target) \notin contended =>
                IF x \in DOMAIN active
                THEN /\ w.active[x].previous = active[x].target
                     /\ w.active[x].version = active[x].version + 1
                ELSE \A y \in DOMAIN active : KindName(active[y].target) # KindName(w.active[x].target)

CanaryWrites(w) == \A y \in DOMAIN w.canary : w.canary[y] \in CanaryRow

SessionRecorded(s) ==
    /\ s.phase \in {"idle", "flush", "apply", "ended", "committing"}
    /\ s.then \in {"end", "apply"} /\ s.decision \in Decisions
    /\ s.phase # "flush" => s.want = NoWrites
    /\ s.then = "apply" =>
          /\ Writes(s).change = None /\ Writes(s).active = None /\ Writes(s).canary = None
          /\ s.canary => change[s.subject].target \in Packs
    /\ s.phase # "idle" => s.id \notin DOMAIN task /\ s.id \notin DOMAIN active
    /\ ChangeWrites(Writes(s), s.id) /\ TaskWrites(Writes(s), s.id)
    /\ StateWrites(Writes(s), s.id) /\ CanaryWrites(Writes(s))

\* What two open sessions both write is contended.
Exclusive ==
    \A r, s \in Requests : r # s =>
        Subjects(Writes(txn[r])) \cap Subjects(Writes(txn[s])) \subseteq contended

\* The body on the loop is that of the last request.
LoopHeld ==
    /\ loop \in Requests \cup {Nobody}
    /\ \A r \in Requests :
          /\ txn[r].phase \in {"flush", "apply"} <=> loop = r
          /\ loop = r => txn[r].id = requests

RowsRecorded ==
    /\ requests \in 0..MaxRequests
    /\ DOMAIN change \subseteq DOMAIN task /\ \A c \in DOMAIN change : change[c] \in ChangeRow
    /\ DOMAIN task \subseteq 1..requests /\ \A c \in DOMAIN task : task[c] \in TaskStatuses
    /\ approvals \subseteq [task : DOMAIN task, decision : Words]
    /\ \A x \in DOMAIN active :
          /\ x \in 1..requests /\ active[x] \in ActiveRow /\ SameKind(active[x])
          /\ active[x].version <= requests /\ (loop # Nobody => active[x].version < requests)
    /\ \A y \in DOMAIN canary : canary[y] \in CanaryRow

OneRowPerKind ==
    \A x, y \in DOMAIN active :
        KindName(active[x].target) = KindName(active[y].target)
            => x = y \/ StateOf(active[x].target) \in contended

RecordInv ==
    /\ RowsRecorded /\ OneRowPerKind
    /\ LoopHeld /\ Exclusive
    /\ \A r \in Requests : SessionRecorded(txn[r])

-----------------------------------------------------------------------------
(* Writes *)

\* A function, not merely something that can be applied.
IsRows(f) == f = [x \in DOMAIN f |-> f[x]]

LEMMA MergeRows ==
    /\ \A f, g : IsRows(Merge(f, g)) /\ Merge(None, Merge(f, g)) = Merge(f, g)
    /\ \A f : IsRows(f) => Merge(f, None) = f /\ Merge(None, f) = f
    /\ IsRows(None) /\ \A id, value : IsRows(Row(id, value))
<1>1. ASSUME NEW f, IsRows(f) PROVE Merge(f, None) = f /\ Merge(None, f) = f
  <2>1. DOMAIN None = {}
    BY DEF None
  <2>2. /\ Merge(f, None) = [x \in DOMAIN f |-> f[x]]
        /\ Merge(None, f) = [x \in DOMAIN f |-> f[x]]
    BY <2>1 DEF Merge
  <2> QED BY <1>1, <2>2 DEF IsRows
<1>2. \A f, g : IsRows(Merge(f, g))
  BY DEF IsRows, Merge
<1>3. IsRows(None) /\ \A id, value : IsRows(Row(id, value))
  BY DEF IsRows, None, Row
<1> QED BY <1>1, <1>2, <1>3

\* What is flushed moves from one set of writes to the other.
LEMMA FlushedWrites == \A w, v : Both(NoWrites, Both(w, v)) = Both(w, v)
BY MergeRows DEF Both, NoWrites

LEMMA WantAlone ==
    ASSUME NEW w, IsRows(w.change), IsRows(w.task), IsRows(w.active), IsRows(w.canary),
           w = [change |-> w.change, task |-> w.task, approvals |-> w.approvals,
                active |-> w.active, canary |-> w.canary]
    PROVE  Both(w, NoWrites) = w
BY MergeRows DEF Both, NoWrites

\* A session that waits for nothing is contended for what it has flushed.
LEMMA SubjectsQuiet ==
    ASSUME NEW s, s.want = NoWrites
    PROVE  Subjects(Writes(s)) = Subjects(s.sent)
<1>1. /\ Writes(s).approvals = s.sent.approvals
      /\ DOMAIN Writes(s).active = DOMAIN s.sent.active
      /\ \A x \in DOMAIN s.sent.active : Writes(s).active[x] = s.sent.active[x]
  BY DEF Writes, Both, NoWrites, Merge, None
<1> QED BY <1>1 DEF Subjects

LEMMA IdleRecorded ==
    ASSUME NEW s, s = Idle
    PROVE  SessionRecorded(s) /\ Subjects(Writes(s)) = {}
<1>1. /\ s.phase = "idle" /\ s.then = "end" /\ s.decision = "defer"
      /\ s.want = NoWrites /\ s.sent = NoWrites
  BY DEF Idle
<1>2. /\ Writes(s).change = None /\ Writes(s).task = None /\ Writes(s).approvals = {}
      /\ Writes(s).active = None /\ Writes(s).canary = None
  BY <1>1, MergeRows DEF Writes, Both, NoWrites
<1>3. DOMAIN None = {}
  BY DEF None
<1> QED
  BY <1>1, <1>2, <1>3 DEF SessionRecorded, ChangeWrites, TaskWrites, StateWrites, CanaryWrites,
                          Decisions, Subjects

\* Nothing that is recorded is lost while rows stay and contention grows.
LEMMA SameRecords ==
    ASSUME UNCHANGED db, contended \subseteq contended'
    PROVE  /\ \A w, id : ChangeWrites(w, id) => ChangeWrites(w, id)'
           /\ \A w, id : TaskWrites(w, id) => TaskWrites(w, id)'
           /\ \A w, id : StateWrites(w, id) => StateWrites(w, id)'
           /\ \A w : CanaryWrites(w) => CanaryWrites(w)'
           /\ \A s : SessionRecorded(s) => SessionRecorded(s)'
<1>0. UNCHANGED <<change, task, approvals, active, canary>>
  BY DEF db
<1>1. \A w, id : ChangeWrites(w, id) => ChangeWrites(w, id)'
  BY <1>0 DEF ChangeWrites
<1>2. \A w, id : TaskWrites(w, id) => TaskWrites(w, id)'
  BY <1>0 DEF TaskWrites
<1>3. \A w, id : StateWrites(w, id) => StateWrites(w, id)'
  BY <1>0 DEF StateWrites
<1>4. \A w : CanaryWrites(w) => CanaryWrites(w)'
  BY <1>0 DEF CanaryWrites, CanaryRow
<1>5. \A s : SessionRecorded(s) => SessionRecorded(s)'
  BY <1>0, <1>1, <1>2, <1>3, <1>4 DEF SessionRecorded
<1> QED BY <1>1, <1>2, <1>3, <1>4, <1>5

\* A step that opens, carries on or ends the session of r.
LEMMA RecordStep ==
    ASSUME RecordInv, UNCHANGED db, NEW r \in Requests, NEW s,
           txn'[r] = s, SessionRecorded(s)', \A q \in Requests : q # r => txn'[q] = txn[q],
           \A q \in Requests : q # r =>
               Subjects(Writes(s)) \cap Subjects(Writes(txn[q])) \subseteq contended',
           contended \subseteq contended', LoopHeld',
           requests' \in 0..MaxRequests, requests' >= requests,
           loop' = Nobody \/ loop # Nobody \/ requests' > requests
    PROVE  RecordInv'
<1>0. UNCHANGED <<change, task, approvals, active, canary>>
  BY DEF db
<1>1. RowsRecorded'
  <2>1. requests \in Nat /\ requests' \in Nat /\ 1..requests \subseteq 1..requests'
    BY DEF RecordInv, RowsRecorded
  <2>2. \A x \in DOMAIN active : active[x].version \in Nat
    BY DEF RecordInv, RowsRecorded, ActiveRow, Ids
  <2> QED BY <1>0, <2>1, <2>2 DEF RecordInv, RowsRecorded, CanaryRow
<1>2. OneRowPerKind'
  BY <1>0 DEF RecordInv, OneRowPerKind
<1>3. Exclusive'
  BY DEF RecordInv, Exclusive
<1>4. \A q \in Requests : SessionRecorded(txn[q])'
  <2> SUFFICES ASSUME NEW q \in Requests PROVE SessionRecorded(txn[q])'
    OBVIOUS
  <2>1. CASE q = r
    BY <2>1
  <2>2. CASE q # r
    <3>1. PICK o : o = txn[q] /\ txn'[q] = o /\ SessionRecorded(o)
      BY <2>2 DEF RecordInv
    <3>2. SessionRecorded(o)'
      BY <3>1, SameRecords
    <3> QED BY <3>1, <3>2
  <2> QED BY <2>1, <2>2
<1> QED BY <1>1, <1>2, <1>3, <1>4 DEF RecordInv

LEMMA BeginRecorded ==
    ASSUME ChangeInv, RecordInv, NEW r \in Requests, NEW session, Begin(r, session),
           DOMAIN session = SessionFields, session.sent = NoWrites,
           session.then \in {"end", "apply"}, session.decision \in Decisions,
           Both(session.want, NoWrites) = session.want,
           session.then = "apply" =>
               /\ session.want.change = None /\ session.want.active = None
               /\ session.want.canary = None
               /\ session.canary => change[session.subject].target \in Packs,
           ChangeWrites(session.want, requests + 1), TaskWrites(session.want, requests + 1),
           StateWrites(session.want, requests + 1), CanaryWrites(session.want)
    PROVE  RecordInv'
<1>1. PICK s : s = [session EXCEPT !.phase = "flush", !.id = requests + 1]
  OBVIOUS
<1>2. /\ s.phase = "flush" /\ s.id = requests + 1 /\ s.decision = session.decision
      /\ s.sent = NoWrites /\ s.want = session.want /\ s.then = session.then
      /\ s.subject = session.subject /\ s.canary = session.canary
  BY <1>1 DEF SessionFields
<1>3. /\ loop = Nobody /\ loop' = r /\ UNCHANGED db /\ Contend(r, session.want)
      /\ requests < MaxRequests /\ requests' = requests + 1 /\ txn' = [txn EXCEPT ![r] = s]
  BY <1>1 DEF Begin
<1>4. txn'[r] = s /\ \A q \in Requests : q # r => txn'[q] = txn[q]
  BY <1>3 DEF ChangeInv
<1>5. requests \in Nat /\ MaxRequests \in Nat /\ Nobody \notin Requests
  BY ChangeControlAssumption DEF RecordInv, RowsRecorded
<1>6. Writes(s) = session.want
  BY <1>2 DEF Writes
<1>7. contended \subseteq contended'
  BY <1>3 DEF Contend
<1>8. SessionRecorded(s)'
  <2>1. SessionRecorded(s)
    <3>1. s.id \notin DOMAIN task /\ s.id \notin DOMAIN active
      BY <1>2, <1>5 DEF RecordInv, RowsRecorded
    <3> QED BY <1>2, <1>6, <3>1 DEF SessionRecorded
  <2> QED BY <1>3, <1>7, <2>1, SameRecords
<1>9. ASSUME NEW q \in Requests, q # r
      PROVE  Subjects(Writes(s)) \cap Subjects(Writes(txn[q])) \subseteq contended'
  <2>1. txn[q].phase # "flush"
    BY <1>3, <1>5 DEF RecordInv, LoopHeld
  <2>2. Subjects(Writes(txn[q])) = Subjects(txn[q].sent)
    BY <2>1, SubjectsQuiet DEF RecordInv, SessionRecorded
  <2> QED BY <1>3, <1>6, <1>9, <2>2 DEF Contend
<1>10. LoopHeld'
  BY <1>2, <1>3, <1>4, <1>5 DEF RecordInv, LoopHeld
<1>11. requests' \in 0..MaxRequests /\ requests' > requests /\ requests' >= requests
  BY <1>3, <1>5
<1> QED BY <1>3, <1>4, <1>7, <1>8, <1>9, <1>10, <1>11, RecordStep

LEMMA ContinueRecorded ==
    ASSUME ChangeInv, RecordInv, NEW r \in Requests, txn[r].phase = "apply",
           NEW w, Continue(r, w), w.task = None, w.approvals = {},
           IsRows(w.change), IsRows(w.active), IsRows(w.canary),
           ChangeWrites(w, txn[r].id), StateWrites(w, txn[r].id), CanaryWrites(w)
    PROVE  RecordInv'
<1>1. PICK s : s = [txn[r] EXCEPT !.phase = "flush", !.then = "end", !.want = w]
  OBVIOUS
<1>2. PICK o : o = txn[r] /\ SessionRecorded(o) /\ DOMAIN o = SessionFields
  BY DEF RecordInv, ChangeInv, SessionOK
<1>3. /\ s.phase = "flush" /\ s.then = "end" /\ s.want = w /\ s.id = o.id
      /\ s.sent = o.sent /\ s.decision = o.decision
  BY <1>1, <1>2 DEF SessionFields
<1>4. /\ txn' = [txn EXCEPT ![r] = s] /\ UNCHANGED db /\ requests' = requests /\ loop' = loop
      /\ Contend(r, w)
  BY <1>1 DEF Continue
<1>5. txn'[r] = s /\ \A q \in Requests : q # r => txn'[q] = txn[q]
  BY <1>4 DEF ChangeInv
<1>6. contended \subseteq contended'
  BY <1>4 DEF Contend
<1>7. /\ o.want = NoWrites /\ o.phase = "apply" /\ Writes(o).change = None
      /\ Writes(o).active = None /\ Writes(o).canary = None
  <2>1. o.then = "apply" /\ o.phase = "apply"
    BY <1>2 DEF ChangeInv, SessionOK
  <2> QED BY <1>2, <2>1 DEF SessionRecorded
<1>8. /\ DOMAIN o.sent.change = {} /\ DOMAIN o.sent.active = {} /\ DOMAIN o.sent.canary = {}
      /\ Writes(o).task = Merge(None, o.sent.task) /\ Writes(o).approvals = o.sent.approvals
  BY <1>7 DEF Writes, Both, NoWrites, Merge, None
<1>9. /\ Writes(s).change = w.change /\ Writes(s).active = w.active
      /\ Writes(s).canary = w.canary /\ Writes(s).task = Writes(o).task
      /\ Writes(s).approvals = Writes(o).approvals
  BY <1>3, <1>8 DEF Writes, Both, Merge, IsRows
<1>10. SessionRecorded(s)'
  <2>1. ChangeWrites(Writes(s), s.id)
    BY <1>2, <1>3, <1>9 DEF ChangeWrites, None
  <2>2. TaskWrites(Writes(s), s.id)
    BY <1>2, <1>3, <1>9 DEF SessionRecorded, TaskWrites
  <2>3. StateWrites(Writes(s), s.id) /\ CanaryWrites(Writes(s))
    BY <1>2, <1>3, <1>9 DEF StateWrites, CanaryWrites
  <2>4. SessionRecorded(s)
    BY <1>2, <1>3, <1>7, <2>1, <2>2, <2>3 DEF SessionRecorded
  <2> QED BY <1>4, <1>6, <2>4, SameRecords
<1>11. loop = r
  BY <1>2, <1>7 DEF RecordInv, LoopHeld
<1>12. ASSUME NEW q \in Requests, q # r
       PROVE  Subjects(Writes(s)) \cap Subjects(Writes(txn[q])) \subseteq contended'
  <2>1. txn[q].phase # "flush"
    BY <1>11, <1>12 DEF RecordInv, LoopHeld
  <2>2. Subjects(Writes(txn[q])) = Subjects(txn[q].sent)
    BY <2>1, SubjectsQuiet DEF RecordInv, SessionRecorded
  <2>3. Subjects(Writes(s)) = Subjects(w) \cup Subjects(Writes(o))
    BY <1>7, <1>9 DEF Subjects, None
  <2>4. Subjects(Writes(o)) \cap Subjects(Writes(txn[q])) \subseteq contended
    BY <1>2, <1>12 DEF RecordInv, Exclusive
  <2> QED BY <1>4, <1>12, <2>2, <2>3, <2>4 DEF Contend
<1>13. LoopHeld'
  BY <1>2, <1>3, <1>4, <1>5, <1>11 DEF RecordInv, LoopHeld
<1>14. requests' \in 0..MaxRequests /\ requests' >= requests /\ loop # Nobody
  BY <1>4, <1>11, ChangeControlAssumption DEF RecordInv, RowsRecorded
<1> QED BY <1>4, <1>5, <1>6, <1>10, <1>12, <1>13, <1>14, RecordStep

LEMMA FlushRecorded ==
    ASSUME ChangeInv, RecordInv, NEW r \in Requests, Flush(r)
    PROVE  RecordInv'
<1>1. PICK s : s = [txn[r] EXCEPT
             !.phase = IF txn[r].then = "apply" THEN "apply" ELSE "ended",
             !.want = NoWrites, !.sent = Both(txn[r].want, txn[r].sent)]
  OBVIOUS
<1>2. PICK o : o = txn[r] /\ SessionRecorded(o) /\ DOMAIN o = SessionFields
  BY DEF RecordInv, ChangeInv, SessionOK
<1>3. /\ s.phase = IF o.then = "apply" THEN "apply" ELSE "ended"
      /\ s.want = NoWrites /\ s.sent = Both(o.want, o.sent) /\ s.then = o.then
      /\ s.id = o.id /\ s.decision = o.decision /\ s.subject = o.subject /\ s.canary = o.canary
  BY <1>1, <1>2 DEF SessionFields
<1>4. /\ txn'[r] = s /\ \A q \in Requests : q # r => txn'[q] = txn[q]
      /\ UNCHANGED <<db, requests, contended>> /\ o.phase = "flush"
      /\ loop' = IF o.then = "apply" THEN loop ELSE Nobody
  <2>1. txn' = [txn EXCEPT ![r] = s]
    BY <1>1 DEF Flush
  <2> QED BY <1>2, <2>1 DEF Flush, ChangeInv
<1>5. Writes(s) = Writes(o)
  BY <1>3, FlushedWrites DEF Writes
<1>6. SessionRecorded(s)'
  <2>1. SessionRecorded(s)
    BY <1>2, <1>3, <1>4, <1>5 DEF SessionRecorded
  <2> QED BY <1>4, <2>1, SameRecords
<1>7. loop = r /\ o.id = requests
  BY <1>2, <1>4 DEF RecordInv, LoopHeld
<1>8. LoopHeld'
  BY <1>2, <1>3, <1>4, <1>7, ChangeControlAssumption DEF RecordInv, LoopHeld
<1>9. \A q \in Requests : q # r =>
        Subjects(Writes(s)) \cap Subjects(Writes(txn[q])) \subseteq contended'
  BY <1>2, <1>4, <1>5 DEF RecordInv, Exclusive
<1>10. /\ requests' \in 0..MaxRequests /\ requests' >= requests /\ loop # Nobody
       /\ contended \subseteq contended'
  BY <1>4, <1>7, ChangeControlAssumption DEF RecordInv, RowsRecorded
<1> QED BY <1>4, <1>6, <1>8, <1>9, <1>10, RecordStep

LEMMA HandOverRecorded ==
    ASSUME ChangeInv, RecordInv, NEW r \in Requests, HandOver(r)
    PROVE  RecordInv'
<1>1. PICK s : s = [txn[r] EXCEPT !.phase = "committing"]
  OBVIOUS
<1>2. PICK o : o = txn[r] /\ SessionRecorded(o) /\ DOMAIN o = SessionFields
  BY DEF RecordInv, ChangeInv, SessionOK
<1>3. /\ s.phase = "committing" /\ s.want = o.want /\ s.sent = o.sent /\ s.then = o.then
      /\ s.id = o.id /\ s.decision = o.decision /\ s.subject = o.subject /\ s.canary = o.canary
  BY <1>1, <1>2 DEF SessionFields
<1>4. /\ txn'[r] = s /\ \A q \in Requests : q # r => txn'[q] = txn[q]
      /\ UNCHANGED <<db, loop, requests, contended>> /\ o.phase = "ended" /\ loop = Nobody
  BY <1>1, <1>2 DEF HandOver, ChangeInv
<1>5. Writes(s) = Writes(o)
  BY <1>3 DEF Writes
<1>6. SessionRecorded(s)'
  <2>1. SessionRecorded(s)
    BY <1>2, <1>3, <1>4, <1>5 DEF SessionRecorded
  <2> QED BY <1>4, <2>1, SameRecords
<1>7. LoopHeld'
  BY <1>3, <1>4, ChangeControlAssumption DEF RecordInv, LoopHeld
<1>8. \A q \in Requests : q # r =>
        Subjects(Writes(s)) \cap Subjects(Writes(txn[q])) \subseteq contended'
  BY <1>2, <1>4, <1>5 DEF RecordInv, Exclusive
<1>9. /\ requests' \in 0..MaxRequests /\ requests' >= requests /\ loop' = Nobody
      /\ contended \subseteq contended'
  BY <1>4, ChangeControlAssumption DEF RecordInv, RowsRecorded
<1> QED BY <1>4, <1>6, <1>7, <1>8, <1>9, RecordStep

LEMMA FailRecorded ==
    ASSUME ChangeInv, RecordInv, NEW r \in Requests, Fail(r)
    PROVE  RecordInv'
<1>1. PICK s : s = Idle
  OBVIOUS
<1>2. /\ txn'[r] = s /\ \A q \in Requests : q # r => txn'[q] = txn[q]
      /\ UNCHANGED <<db, requests, contended>> /\ loop' = IF loop = r THEN Nobody ELSE loop
  BY <1>1 DEF Fail, ChangeInv
<1>3. SessionRecorded(s)'
  BY <1>1, <1>2, IdleRecorded, SameRecords
<1>4. s.phase = "idle"
  BY <1>1 DEF Idle
<1>5. txn[r].phase \in {"flush", "apply"} <=> loop = r
  BY DEF RecordInv, LoopHeld
<1>6. LoopHeld'
  BY <1>2, <1>4, <1>5, ChangeControlAssumption DEF RecordInv, LoopHeld
<1>7. \A q \in Requests : Subjects(Writes(s)) \cap Subjects(Writes(txn[q])) \subseteq contended'
  BY <1>1, IdleRecorded
<1>8. /\ requests' \in 0..MaxRequests /\ requests' >= requests
      /\ contended \subseteq contended' /\ (loop' = Nobody \/ loop # Nobody)
  BY <1>2, ChangeControlAssumption DEF RecordInv, RowsRecorded, LoopHeld
<1> QED BY <1>2, <1>3, <1>6, <1>7, <1>8, RecordStep

LEMMA RestartRecorded ==
    ASSUME ChangeInv, RecordInv, Restart
    PROVE  RecordInv'
<1>1. PICK s : s = Idle
  OBVIOUS
<1>2. /\ \A q \in Requests : txn'[q] = s
      /\ UNCHANGED <<db, requests, contended>> /\ loop' = Nobody
  BY <1>1 DEF Restart
<1>3. UNCHANGED <<change, task, approvals, active, canary>>
  BY <1>2 DEF db
<1>4. RowsRecorded'
  BY <1>2, <1>3 DEF RecordInv, RowsRecorded, CanaryRow
<1>5. OneRowPerKind'
  BY <1>2, <1>3 DEF RecordInv, OneRowPerKind
<1>6. LoopHeld'
  BY <1>1, <1>2, ChangeControlAssumption DEF LoopHeld, Idle
<1>7. SessionRecorded(s)' /\ Subjects(Writes(s)) = {}
  BY <1>1, <1>2, IdleRecorded, SameRecords
<1>8. \A q \in Requests : SessionRecorded(txn[q])'
  BY <1>2, <1>7
<1>9. Exclusive'
  BY <1>2, <1>7 DEF Exclusive
<1> QED BY <1>4, <1>5, <1>6, <1>8, <1>9 DEF RecordInv

\* A session that ends with what it flushes first.
LEMMA SingleRecorded ==
    ASSUME ChangeInv, RecordInv, NEW r \in Requests, NEW w, Begin(r, [Idle EXCEPT !.want = w]),
           Both(w, NoWrites) = w, ChangeWrites(w, requests + 1), TaskWrites(w, requests + 1),
           StateWrites(w, requests + 1), CanaryWrites(w)
    PROVE  RecordInv'
<1>1. PICK s : s = [Idle EXCEPT !.want = w]
  OBVIOUS
<1>2. /\ DOMAIN s = SessionFields /\ s.sent = NoWrites /\ s.want = w /\ s.then = "end"
      /\ s.decision = "defer" /\ "defer" \in Decisions
  BY <1>1 DEF Idle, SessionFields, Decisions
<1> QED BY <1>1, <1>2, BeginRecorded

LEMMA StageChangeRecorded ==
    ASSUME ChangeInv, RecordInv, NEW r \in Requests, NEW target \in Targets,
           StageChange(r, target)
    PROVE  RecordInv'
<1>1. PICK row : row = [target |-> target, status |-> "staged"]
  OBVIOUS
<1>2. PICK w : w = [NoWrites EXCEPT !.change = Row(requests + 1, row),
                                    !.task = Row(requests + 1, "open")]
  OBVIOUS
<1>3. Begin(r, [Idle EXCEPT !.want = w])
  BY <1>1, <1>2 DEF StageChange
<1>4. w = [change |-> Row(requests + 1, row), task |-> Row(requests + 1, "open"),
           approvals |-> {}, active |-> None, canary |-> None]
  BY <1>2 DEF NoWrites
<1>5. Both(w, NoWrites) = w
  BY <1>4, MergeRows, WantAlone
<1>6. row \in ChangeRow /\ DOMAIN None = {}
  BY <1>1 DEF ChangeRow, Statuses, None
<1>7. /\ ChangeWrites(w, requests + 1) /\ TaskWrites(w, requests + 1)
      /\ StateWrites(w, requests + 1) /\ CanaryWrites(w)
  BY <1>4, <1>6 DEF ChangeWrites, TaskWrites, StateWrites, CanaryWrites, Row
<1> QED BY <1>3, <1>5, <1>7, SingleRecorded

LEMMA CreateProposalRecorded ==
    ASSUME ChangeInv, RecordInv, NEW r \in Requests, CreateProposal(r)
    PROVE  RecordInv'
<1>1. PICK w : w = [NoWrites EXCEPT !.task = Row(requests + 1, "open")]
  OBVIOUS
<1>2. Begin(r, [Idle EXCEPT !.want = w])
  BY <1>1 DEF CreateProposal
<1>3. w = [change |-> None, task |-> Row(requests + 1, "open"),
           approvals |-> {}, active |-> None, canary |-> None]
  BY <1>1 DEF NoWrites
<1>4. Both(w, NoWrites) = w
  BY <1>3, MergeRows, WantAlone
<1>5. DOMAIN None = {}
  BY DEF None
<1>6. /\ ChangeWrites(w, requests + 1) /\ TaskWrites(w, requests + 1)
      /\ StateWrites(w, requests + 1) /\ CanaryWrites(w)
  BY <1>3, <1>5 DEF ChangeWrites, TaskWrites, StateWrites, CanaryWrites, Row
<1> QED BY <1>2, <1>4, <1>6, SingleRecorded

\* A decision is recorded with the verdict its word stands for.
LEMMA DecidedRecorded ==
    ASSUME RecordInv, NEW c \in DOMAIN task, NEW decision \in Words
    PROVE  LET w == Decided(c, decision)
           IN  /\ Both(w, NoWrites) = w
               /\ w.change = None /\ w.active = None /\ w.canary = None
               /\ ChangeWrites(w, requests + 1) /\ TaskWrites(w, requests + 1)
               /\ StateWrites(w, requests + 1) /\ CanaryWrites(w)
<1>1. PICK w : w = Decided(c, decision)
  OBVIOUS
<1>2. PICK a : a = [task |-> c, decision |-> decision]
  OBVIOUS
<1>3. PICK t : t = IF task[c] = Verdict(decision) THEN None ELSE Row(c, Verdict(decision))
  OBVIOUS
<1>4. w = [change |-> None, task |-> t, approvals |-> {a}, active |-> None, canary |-> None]
  BY <1>1, <1>2, <1>3 DEF Decided, NoWrites
<1>5. IsRows(t)
  BY <1>3, MergeRows
<1>6. Both(w, NoWrites) = w
  BY <1>4, <1>5, MergeRows, WantAlone
<1>7. DOMAIN None = {}
  BY DEF None
<1>8. TaskWrites(w, requests + 1)
  <2>1. w.task = t /\ w.approvals = {a} /\ a.task = c /\ a.decision = decision
    BY <1>2, <1>4
  <2>2. w.approvals \subseteq [task : DOMAIN task, decision : Words]
    BY <1>2, <1>4
  <2>3. \A d \in DOMAIN t : d = c /\ t[d] = Verdict(decision)
    BY <1>3, <1>7 DEF Row
  <2> QED BY <2>1, <2>2, <2>3 DEF TaskWrites
<1>9. ChangeWrites(w, requests + 1) /\ StateWrites(w, requests + 1) /\ CanaryWrites(w)
  BY <1>4, <1>7 DEF ChangeWrites, StateWrites, CanaryWrites
<1>10. w.change = None /\ w.active = None /\ w.canary = None
  BY <1>4
<1> QED BY <1>1, <1>6, <1>8, <1>9, <1>10

LEMMA DecideReviewTaskRecorded ==
    ASSUME ChangeInv, RecordInv, NEW r \in Requests, DecideReviewTask(r)
    PROVE  RecordInv'
<1>1. PICK c \in DOMAIN task, word \in Words :
        Begin(r, [Idle EXCEPT !.want = Decided(c, word)])
  BY DEF DecideReviewTask
<1> QED BY <1>1, DecidedRecorded, SingleRecorded

LEMMA DecideChangeRecorded ==
    ASSUME ChangeInv, RecordInv, NEW r \in Requests, NEW c \in DOMAIN change,
           NEW decision \in Decisions, NEW session, Begin(r, session),
           DOMAIN session = SessionFields, session.sent = NoWrites, session.then = "apply",
           session.want = Decided(c, decision), session.subject = c,
           session.decision = decision,
           session.canary => change[c].target \in Packs
    PROVE  RecordInv'
<1>1. c \in DOMAIN task /\ decision \in Words
  BY DEF RecordInv, RowsRecorded, Words
<1> QED BY <1>1, DecidedRecorded, BeginRecorded

LEMMA DecidePackChangeRecorded ==
    ASSUME ChangeInv, RecordInv, NEW r \in Requests, DecidePackChange(r)
    PROVE  RecordInv'
<1>1. PICK c \in DOMAIN change, decision \in Decisions, canaryEnabled \in BOOLEAN :
        /\ change[c].target \in Packs
        /\ Begin(r, [Idle EXCEPT !.want = Decided(c, decision), !.then = "apply",
                     !.subject = c, !.decision = decision, !.canary = canaryEnabled])
  BY DEF DecidePackChange
<1>2. PICK s : s = [Idle EXCEPT !.want = Decided(c, decision), !.then = "apply",
                    !.subject = c, !.decision = decision, !.canary = canaryEnabled]
  OBVIOUS
<1>3. /\ DOMAIN s = SessionFields /\ s.sent = NoWrites /\ s.want = Decided(c, decision)
      /\ s.subject = c /\ s.decision = decision /\ s.then = "apply"
  BY <1>2 DEF Idle, SessionFields
<1> QED BY <1>1, <1>2, <1>3, DecideChangeRecorded

LEMMA DecideManifestChangeRecorded ==
    ASSUME ChangeInv, RecordInv, NEW r \in Requests, DecideManifestChange(r)
    PROVE  RecordInv'
<1>1. PICK c \in DOMAIN change, decision \in Decisions :
        Begin(r, [Idle EXCEPT !.want = Decided(c, decision), !.then = "apply",
                  !.subject = c, !.decision = decision])
  BY DEF DecideManifestChange
<1>2. PICK s : s = [Idle EXCEPT !.want = Decided(c, decision), !.then = "apply",
                    !.subject = c, !.decision = decision]
  OBVIOUS
<1>3. /\ DOMAIN s = SessionFields /\ s.sent = NoWrites /\ s.want = Decided(c, decision)
      /\ s.subject = c /\ s.decision = decision /\ s.then = "apply" /\ s.canary = FALSE
  BY <1>2 DEF Idle, SessionFields
<1> QED BY <1>1, <1>2, <1>3, DecideChangeRecorded

LEMMA KindNames ==
    ASSUME NEW t \in Targets, NEW u \in Targets
    PROVE  /\ u \in KindOf(t) <=> KindName(u) = KindName(t)
           /\ t \in Packs => KindOf(t) = Packs
BY ChangeControlAssumption DEF Targets, KindOf, KindName

\* The next state replaces what is committed of its kind.
LEMMA NextStateRecorded ==
    ASSUME RecordInv, NEW target \in Targets, NEW x, FirstActive(KindOf(target), x),
           NEW id \in Ids, id \notin DOMAIN active,
           \A y \in DOMAIN active : active[y].version < id,
           NEW w, w.active = Row(IF x = 0 THEN id ELSE x, NextState(x, target))
    PROVE  StateWrites(w, id)
<1>0. id \in Nat /\ 1 <= id /\ MaxRequests \in Nat /\ id <= MaxRequests /\ NoTarget \notin Targets
  BY ChangeControlAssumption DEF Ids
<1>1. ASSUME NEW y \in DOMAIN active
      PROVE  /\ active[y].target \in Targets /\ active[y].version \in Nat /\ y # 0
             /\ y \in ActiveRows(KindOf(target)) <=> KindName(active[y].target) = KindName(target)
  <2>1. active[y] \in ActiveRow /\ y \in 1..requests
    BY DEF RecordInv, RowsRecorded
  <2>2. active[y].target \in Targets /\ active[y].version \in Nat
    BY <2>1 DEF ActiveRow, Ids
  <2> QED BY <2>1, <2>2, KindNames DEF ActiveRows
<1>2. PICK z, row : z = (IF x = 0 THEN id ELSE x) /\ row = NextState(x, target)
  OBVIOUS
<1>3. DOMAIN w.active = {z} /\ w.active[z] = row
  BY <1>2 DEF Row
<1>4. CASE x = 0
  <2>1. row \in ActiveRow /\ row.target = target /\ row.previous = NoTarget /\ row.version = 1
    BY <1>0, <1>2, <1>4 DEF NextState, ActiveRow, Ids
  <2>2. \A y \in DOMAIN active : KindName(active[y].target) # KindName(target)
    BY <1>1, <1>4 DEF FirstActive, ActiveRows
  <2> QED BY <1>0, <1>2, <1>3, <1>4, <2>1, <2>2 DEF StateWrites, SameKind
<1>5. CASE x # 0
  <2>1. x \in DOMAIN active /\ KindName(active[x].target) = KindName(target)
    BY <1>1, <1>5 DEF FirstActive, ActiveRows
  <2>2. /\ row.target = target /\ row.previous = active[x].target
        /\ row.version = active[x].version + 1
        /\ row = [target |-> target, previous |-> active[x].target,
                  version |-> active[x].version + 1]
    BY <1>2, <1>5 DEF NextState
  <2>3. active[x].version + 1 <= id /\ active[x].version + 1 \in Ids
    BY <1>0, <1>1, <2>1 DEF Ids
  <2>4. row \in ActiveRow
    BY <1>1, <2>1, <2>2, <2>3 DEF ActiveRow
  <2> QED BY <1>2, <1>3, <1>5, <2>1, <2>2, <2>3, <2>4 DEF StateWrites, SameKind
<1> QED BY <1>4, <1>5

\* A new request has a number nothing committed has.
LEMMA NewNumber ==
    ASSUME RecordInv, requests < MaxRequests, loop = Nobody
    PROVE  /\ requests + 1 \in Ids /\ requests + 1 \notin DOMAIN active
           /\ \A y \in DOMAIN active : active[y].version < requests + 1
<1>1. requests \in Nat /\ MaxRequests \in Nat
  BY ChangeControlAssumption DEF RecordInv, RowsRecorded
<1>2. \A y \in DOMAIN active : y \in 1..requests /\ active[y].version \in Nat
                               /\ active[y].version <= requests
  BY DEF RecordInv, RowsRecorded, ActiveRow, Ids
<1> QED BY <1>1, <1>2 DEF Ids

LEMMA RollBackRecorded ==
    ASSUME ChangeInv, RecordInv, NEW r \in Requests, NEW kind, RollBack(r, kind)
    PROVE  RecordInv'
<1>1. PICK x \in ActiveRows(kind) :
        /\ active[x].previous # NoTarget
        /\ Begin(r, [Idle EXCEPT
             !.want = [NoWrites EXCEPT !.active = Row(x, NextState(x, active[x].previous))]])
  BY DEF RollBack
<1>2. PICK w : w = [NoWrites EXCEPT !.active = Row(x, NextState(x, active[x].previous))]
  OBVIOUS
<1>3. w = [change |-> None, task |-> None, approvals |-> {},
           active |-> Row(x, NextState(x, active[x].previous)), canary |-> None]
  BY <1>2 DEF NoWrites
<1>4. Begin(r, [Idle EXCEPT !.want = w]) /\ Both(w, NoWrites) = w
  <2>1. Begin(r, [Idle EXCEPT !.want = w])
    BY <1>1, <1>2
  <2>2. Both(w, NoWrites) = w
    BY <1>3, MergeRows, WantAlone
  <2> QED BY <2>1, <2>2
<1>5. requests < MaxRequests /\ loop = Nobody
  BY <1>4 DEF Begin
<1>6. /\ x \in DOMAIN active /\ x # 0 /\ active[x].previous \in Targets
      /\ active[x].target \in Targets
      /\ KindName(active[x].previous) = KindName(active[x].target)
  BY <1>1 DEF ActiveRows, RecordInv, RowsRecorded, ActiveRow, SameKind
<1>7. FirstActive(KindOf(active[x].previous), x)
  BY <1>6, KindNames DEF FirstActive, ActiveRows
<1>8. StateWrites(w, requests + 1)
  <2>1. w.active = Row(IF x = 0 THEN requests + 1 ELSE x, NextState(x, active[x].previous))
    BY <1>3, <1>6
  <2> QED BY <1>5, <1>6, <1>7, <2>1, NewNumber, NextStateRecorded
<1>9. DOMAIN None = {}
  BY DEF None
<1>10. ChangeWrites(w, requests + 1) /\ TaskWrites(w, requests + 1) /\ CanaryWrites(w)
  BY <1>3, <1>9 DEF ChangeWrites, TaskWrites, CanaryWrites
<1> QED BY <1>4, <1>8, <1>10, SingleRecorded

LEMMA PromoteCanaryRecorded ==
    ASSUME ChangeInv, RecordInv, NEW r \in Requests, PromoteCanary(r)
    PROVE  RecordInv'
<1>1. PICK y \in DOMAIN canary, x \in 0..MaxRequests :
        /\ FirstActive(Packs, x)
        /\ Begin(r, [Idle EXCEPT
             !.want = [NoWrites EXCEPT
                !.active = Row(IF x = 0 THEN requests + 1 ELSE x,
                               NextState(x, canary[y].target)),
                !.canary = Row(y, [canary[y] EXCEPT !.status = "promoted"])]])
  BY DEF PromoteCanary
<1>2. PICK row : row = [canary[y] EXCEPT !.status = "promoted"]
  OBVIOUS
<1>3. PICK f : f = Row(IF x = 0 THEN requests + 1 ELSE x, NextState(x, canary[y].target))
  OBVIOUS
<1>4. PICK w : w = [NoWrites EXCEPT !.active = f, !.canary = Row(y, row)]
  OBVIOUS
<1>5. w = [change |-> None, task |-> None, approvals |-> {}, active |-> f,
           canary |-> Row(y, row)]
  BY <1>4 DEF NoWrites
<1>6. IsRows(f)
  BY <1>3, MergeRows
<1>7. Begin(r, [Idle EXCEPT !.want = w]) /\ Both(w, NoWrites) = w
  <2>1. Begin(r, [Idle EXCEPT !.want = w])
    BY <1>1, <1>2, <1>3, <1>4
  <2>2. Both(w, NoWrites) = w
    BY <1>5, <1>6, MergeRows, WantAlone
  <2> QED BY <2>1, <2>2
<1>8. requests < MaxRequests /\ loop = Nobody
  BY <1>7 DEF Begin
<1>9. canary[y] \in CanaryRow
  BY DEF RecordInv, RowsRecorded
<1>10. row \in CanaryRow /\ canary[y].target \in Packs
  BY <1>2, <1>9 DEF CanaryRow
<1>11. canary[y].target \in Targets
  BY <1>10 DEF Targets
<1>12. StateWrites(w, requests + 1)
  BY <1>1, <1>3, <1>5, <1>8, <1>10, <1>11, KindNames, NewNumber, NextStateRecorded
<1>13. DOMAIN None = {}
  BY DEF None
<1>14. ChangeWrites(w, requests + 1) /\ TaskWrites(w, requests + 1) /\ CanaryWrites(w)
  BY <1>5, <1>10, <1>13 DEF ChangeWrites, TaskWrites, CanaryWrites, Row
<1> QED BY <1>7, <1>12, <1>14, SingleRecorded

\* The new status of the change a body is about.
LEMMA StatusRecorded ==
    ASSUME RecordInv, NEW c \in DOMAIN change, NEW status \in Statuses
    PROVE  LET w == Status(c, status)
           IN  /\ w.task = None /\ w.approvals = {} /\ w.active = None /\ w.canary = None
               /\ DOMAIN w = WriteFields /\ IsRows(w.change)
               /\ DOMAIN w.change = {c} /\ w.change[c] \in ChangeRow
<1>1. PICK row : row = [change[c] EXCEPT !.status = status]
  OBVIOUS
<1>2. change[c] \in ChangeRow
  BY DEF RecordInv, RowsRecorded
<1>3. row \in ChangeRow
  BY <1>1, <1>2 DEF ChangeRow
<1>4. Status(c, status) = [change |-> Row(c, row), task |-> None, approvals |-> {},
                           active |-> None, canary |-> None]
  BY <1>1 DEF Status, NoWrites
<1>5. IsRows(Row(c, row)) /\ DOMAIN Row(c, row) = {c} /\ Row(c, row)[c] = row
  BY MergeRows DEF Row
<1> QED BY <1>3, <1>4, <1>5 DEF WriteFields

LEMMA DeclineChangeRecorded ==
    ASSUME ChangeInv, RecordInv, NEW r \in Requests, DeclineChange(r)
    PROVE  RecordInv'
<1>1. txn[r].subject \in DOMAIN change /\ Verdict(txn[r].decision) \in Statuses
  <2>1. txn[r].subject \in DOMAIN change
    BY DEF ChangeInv, SessionOK, DeclineChange
  <2>2. txn[r].decision \in Decisions /\ txn[r].decision # "approve"
    BY DEF RecordInv, SessionRecorded, DeclineChange
  <2> QED BY <2>1, <2>2 DEF Decisions, Verdict, Statuses
<1>2. PICK w : w = Status(txn[r].subject, Verdict(txn[r].decision))
  OBVIOUS
<1>3. txn[r].phase = "apply" /\ Continue(r, w) /\ DOMAIN None = {} /\ IsRows(None)
  BY <1>2, MergeRows DEF DeclineChange, None
<1>4. /\ w.task = None /\ w.approvals = {} /\ w.active = None /\ w.canary = None
      /\ IsRows(w.change) /\ DOMAIN w.change = {txn[r].subject}
      /\ w.change[txn[r].subject] \in ChangeRow
  BY <1>1, <1>2, StatusRecorded
<1>5. ChangeWrites(w, txn[r].id) /\ StateWrites(w, txn[r].id) /\ CanaryWrites(w)
  BY <1>1, <1>3, <1>4 DEF ChangeWrites, StateWrites, CanaryWrites
<1> QED BY <1>3, <1>4, <1>5, ContinueRecorded

\* The body of a decision has the last number, which nothing committed has.
LEMMA BodyNumber ==
    ASSUME ChangeInv, RecordInv, NEW r \in Requests, txn[r].phase = "apply"
    PROVE  /\ txn[r].id \in Ids /\ txn[r].id \notin DOMAIN active
           /\ \A y \in DOMAIN active : active[y].version < txn[r].id
           /\ txn[r].subject \in DOMAIN change
           /\ change[txn[r].subject].target \in Targets
           /\ txn[r].canary => change[txn[r].subject].target \in Packs
<1>1. loop = r /\ txn[r].id = requests /\ requests \in Nat /\ requests <= MaxRequests
  BY ChangeControlAssumption DEF RecordInv, LoopHeld, RowsRecorded
<1>2. txn[r].id \in 1..requests /\ txn[r].then = "apply" /\ txn[r].subject \in DOMAIN change
  BY DEF ChangeInv, SessionOK
<1>3. /\ txn[r].id \notin DOMAIN active
      /\ txn[r].canary => change[txn[r].subject].target \in Packs
  BY <1>2 DEF RecordInv, SessionRecorded
<1>4. \A y \in DOMAIN active : active[y].version < requests
  BY <1>1, ChangeControlAssumption DEF RecordInv, RowsRecorded
<1>5. change[txn[r].subject].target \in Targets
  BY <1>2 DEF RecordInv, RowsRecorded, ChangeRow
<1> QED BY <1>1, <1>2, <1>3, <1>4, <1>5, ChangeControlAssumption DEF Ids

LEMMA ApplyChangeRecorded ==
    ASSUME ChangeInv, RecordInv, NEW r \in Requests, ApplyChange(r)
    PROVE  RecordInv'
<1>1. PICK c, target, id : /\ c = txn[r].subject /\ target = change[c].target
                           /\ id = txn[r].id
  OBVIOUS
<1>2. PICK x \in 0..MaxRequests :
        /\ FirstActive(KindOf(target), x)
        /\ Continue(r, [Status(c, "applied") EXCEPT
             !.active = Row(IF x = 0 THEN id ELSE x, NextState(x, target))])
  BY <1>1 DEF ApplyChange
<1>3. PICK f : f = Row(IF x = 0 THEN id ELSE x, NextState(x, target))
  OBVIOUS
<1>4. PICK w : w = [Status(c, "applied") EXCEPT !.active = f]
  OBVIOUS
<1>5. /\ txn[r].phase = "apply" /\ Continue(r, w) /\ IsRows(None) /\ IsRows(f)
      /\ "applied" \in Statuses /\ DOMAIN None = {}
  BY <1>2, <1>3, <1>4, MergeRows DEF ApplyChange, Statuses, None
<1>6. /\ c \in DOMAIN change /\ target \in Targets /\ id \in Ids /\ id \notin DOMAIN active
      /\ \A y \in DOMAIN active : active[y].version < id
  BY <1>1, <1>5, BodyNumber
<1>7. /\ w.task = None /\ w.approvals = {} /\ w.active = f /\ w.canary = None
      /\ IsRows(w.change) /\ DOMAIN w.change = {c} /\ w.change[c] \in ChangeRow
  BY <1>4, <1>5, <1>6, StatusRecorded DEF WriteFields
<1>8. StateWrites(w, id)
  BY <1>2, <1>3, <1>6, <1>7, NextStateRecorded
<1>9. ChangeWrites(w, id) /\ CanaryWrites(w)
  BY <1>5, <1>6, <1>7 DEF ChangeWrites, CanaryWrites
<1> QED BY <1>1, <1>5, <1>7, <1>8, <1>9, ContinueRecorded

LEMMA StartCanaryRecorded ==
    ASSUME ChangeInv, RecordInv, NEW r \in Requests, StartCanary(r)
    PROVE  RecordInv'
<1>1. PICK c, target, id : /\ c = txn[r].subject /\ target = change[c].target
                           /\ id = txn[r].id
  OBVIOUS
<1>2. PICK row : row = [target |-> target, change |-> c, status |-> "active"]
  OBVIOUS
<1>3. PICK y \in 0..MaxRequests :
        Continue(r, [Status(c, "canary_active") EXCEPT
             !.canary = Row(IF y = 0 THEN id ELSE y, row)])
  BY <1>1, <1>2 DEF StartCanary
<1>4. PICK f : f = Row(IF y = 0 THEN id ELSE y, row)
  OBVIOUS
<1>5. PICK w : w = [Status(c, "canary_active") EXCEPT !.canary = f]
  OBVIOUS
<1>6. /\ txn[r].phase = "apply" /\ txn[r].canary /\ Continue(r, w) /\ IsRows(None) /\ IsRows(f)
      /\ "canary_active" \in Statuses /\ DOMAIN None = {}
  BY <1>3, <1>4, <1>5, MergeRows DEF StartCanary, Statuses, None
<1>7. c \in DOMAIN change /\ target \in Packs
  BY <1>1, <1>6, BodyNumber
<1>8. /\ w.task = None /\ w.approvals = {} /\ w.active = None /\ w.canary = f
      /\ IsRows(w.change) /\ DOMAIN w.change = {c} /\ w.change[c] \in ChangeRow
  BY <1>5, <1>6, <1>7, StatusRecorded DEF WriteFields
<1>9. row \in CanaryRow
  BY <1>2, <1>7 DEF CanaryRow
<1>10. ChangeWrites(w, id) /\ StateWrites(w, id) /\ CanaryWrites(w)
  BY <1>4, <1>6, <1>7, <1>8, <1>9 DEF ChangeWrites, StateWrites, CanaryWrites, Row
<1> QED BY <1>1, <1>6, <1>8, <1>10, ContinueRecorded

\* What the commit of w makes of the rows.
Committed(w) ==
    /\ DOMAIN change' = DOMAIN w.change \cup DOMAIN change
    /\ \A c \in DOMAIN change' :
         change'[c] = IF c \in DOMAIN w.change THEN w.change[c] ELSE change[c]
    /\ DOMAIN task' = DOMAIN w.task \cup DOMAIN task
    /\ \A c \in DOMAIN task' :
         task'[c] = IF c \in DOMAIN w.task THEN w.task[c] ELSE task[c]
    /\ DOMAIN active' = DOMAIN w.active \cup DOMAIN active
    /\ \A x \in DOMAIN active' :
         active'[x] = IF x \in DOMAIN w.active THEN w.active[x] ELSE active[x]
    /\ DOMAIN canary' = DOMAIN w.canary \cup DOMAIN canary
    /\ \A y \in DOMAIN canary' :
         canary'[y] = IF y \in DOMAIN w.canary THEN w.canary[y] ELSE canary[y]
    /\ approvals' = approvals \cup w.approvals

LEMMA CommitRows ==
    ASSUME RecordInv, NEW r \in Requests, Commit(r)
    PROVE  Committed(Writes(txn[r]))
<1>1. PICK v, w : v = txn[r].sent /\ w = Writes(txn[r])
  OBVIOUS
<1>2. txn[r].want = NoWrites
  BY DEF Commit, RecordInv, SessionRecorded
<1>3. /\ w.change = Merge(None, v.change) /\ w.task = Merge(None, v.task)
      /\ w.active = Merge(None, v.active) /\ w.canary = Merge(None, v.canary)
      /\ w.approvals = v.approvals
  BY <1>1, <1>2 DEF Writes, Both, NoWrites
<1>5. /\ change' = Merge(v.change, change) /\ task' = Merge(v.task, task)
      /\ active' = Merge(v.active, active) /\ canary' = Merge(v.canary, canary)
      /\ approvals' = approvals \cup v.approvals
  BY <1>1 DEF Commit
<1>6. /\ DOMAIN change' = DOMAIN w.change \cup DOMAIN change
      /\ \A c \in DOMAIN change' :
           change'[c] = IF c \in DOMAIN w.change THEN w.change[c] ELSE change[c]
  <2>1. w.change = Merge(None, v.change) /\ change' = Merge(v.change, change)
    BY <1>3, <1>5
  <2> QED BY <2>1 DEF Merge, None
<1>7. /\ DOMAIN task' = DOMAIN w.task \cup DOMAIN task
      /\ \A c \in DOMAIN task' :
           task'[c] = IF c \in DOMAIN w.task THEN w.task[c] ELSE task[c]
  <2>1. w.task = Merge(None, v.task) /\ task' = Merge(v.task, task)
    BY <1>3, <1>5
  <2> QED BY <2>1 DEF Merge, None
<1>8. /\ DOMAIN active' = DOMAIN w.active \cup DOMAIN active
      /\ \A x \in DOMAIN active' :
           active'[x] = IF x \in DOMAIN w.active THEN w.active[x] ELSE active[x]
  <2>1. w.active = Merge(None, v.active) /\ active' = Merge(v.active, active)
    BY <1>3, <1>5
  <2> QED BY <2>1 DEF Merge, None
<1>9. /\ DOMAIN canary' = DOMAIN w.canary \cup DOMAIN canary
      /\ \A y \in DOMAIN canary' :
           canary'[y] = IF y \in DOMAIN w.canary THEN w.canary[y] ELSE canary[y]
  <2>1. w.canary = Merge(None, v.canary) /\ canary' = Merge(v.canary, canary)
    BY <1>3, <1>5
  <2> QED BY <2>1 DEF Merge, None
<1> QED BY <1>1, <1>3, <1>5, <1>6, <1>7, <1>8, <1>9 DEF Committed

LEMMA CommitRecorded ==
    ASSUME ChangeInv, RecordInv, NEW r \in Requests, Commit(r)
    PROVE  RecordInv'
<1>1. PICK w, id : w = Writes(txn[r]) /\ id = txn[r].id
  OBVIOUS
<1>0. Committed(w)
  BY <1>1, CommitRows
<1>2. /\ DOMAIN change' = DOMAIN w.change \cup DOMAIN change
      /\ \A c \in DOMAIN change' :
           change'[c] = IF c \in DOMAIN w.change THEN w.change[c] ELSE change[c]
      /\ DOMAIN task' = DOMAIN w.task \cup DOMAIN task
      /\ \A c \in DOMAIN task' :
           task'[c] = IF c \in DOMAIN w.task THEN w.task[c] ELSE task[c]
  BY <1>0 DEF Committed
<1>3. /\ DOMAIN active' = DOMAIN w.active \cup DOMAIN active
      /\ \A x \in DOMAIN active' :
           active'[x] = IF x \in DOMAIN w.active THEN w.active[x] ELSE active[x]
      /\ DOMAIN canary' = DOMAIN w.canary \cup DOMAIN canary
      /\ \A y \in DOMAIN canary' :
           canary'[y] = IF y \in DOMAIN w.canary THEN w.canary[y] ELSE canary[y]
      /\ approvals' = approvals \cup w.approvals
  BY <1>0 DEF Committed
<1>4. /\ txn[r].phase = "committing" /\ txn' = [txn EXCEPT ![r] = Idle]
      /\ UNCHANGED <<loop, requests, contended>>
  BY DEF Commit
<1>5. /\ ChangeWrites(w, id) /\ TaskWrites(w, id) /\ StateWrites(w, id) /\ CanaryWrites(w)
      /\ id \notin DOMAIN task /\ id \notin DOMAIN active
  BY <1>1, <1>4 DEF RecordInv, SessionRecorded
<1>6. requests \in Nat /\ id \in 1..requests /\ loop # r /\ (loop # Nobody => id < requests)
  <2>1. requests \in Nat /\ id \in 1..requests
    BY <1>1, <1>4 DEF ChangeInv, SessionOK, CommittedOK
  <2>2. loop # r
    BY <1>4 DEF RecordInv, LoopHeld
  <2>3. ASSUME loop # Nobody PROVE id # requests
    <3>1. loop \in Requests /\ txn[loop].phase \in {"flush", "apply"} /\ txn[loop].id = requests
      BY <2>3 DEF RecordInv, LoopHeld
    <3> QED BY <1>1, <1>4, <2>2, <3>1 DEF ChangeInv, NumbersUnique
  <2> QED BY <2>1, <2>2, <2>3
<1>7. \A c \in DOMAIN w.task : c = id \/ c \in DOMAIN task
  BY <1>5 DEF TaskWrites
<1>8. RowsRecorded'
  <2>1. DOMAIN change' \subseteq DOMAIN task'
    BY <1>2, <1>5 DEF ChangeWrites, RecordInv, RowsRecorded
  <2>2. \A c \in DOMAIN change' : change'[c] \in ChangeRow
    BY <1>2, <1>5 DEF ChangeWrites, RecordInv, RowsRecorded
  <2>3. DOMAIN task' \subseteq 1..requests
    BY <1>2, <1>6, <1>7 DEF RecordInv, RowsRecorded
  <2>4. \A c \in DOMAIN task' : task'[c] \in TaskStatuses
    <3>1. \A d : Verdict(d) \in TaskStatuses
      BY DEF Verdict, TaskStatuses
    <3>2. \A c \in DOMAIN w.task : w.task[c] \in TaskStatuses
      BY <1>5, <3>1 DEF TaskWrites, TaskStatuses
    <3> QED BY <1>2, <3>2 DEF RecordInv, RowsRecorded
  <2>5. approvals' \subseteq [task : DOMAIN task', decision : Words]
    <3>1. approvals \subseteq [task : DOMAIN task', decision : Words]
      BY <1>2 DEF RecordInv, RowsRecorded
    <3>2. w.approvals \subseteq [task : DOMAIN task', decision : Words]
      BY <1>2, <1>5 DEF TaskWrites
    <3> QED BY <1>3, <3>1, <3>2
  <2>6. ASSUME NEW x \in DOMAIN active'
        PROVE  /\ x \in 1..requests /\ active'[x] \in ActiveRow /\ SameKind(active'[x])
               /\ active'[x].version <= requests
               /\ (loop # Nobody => active'[x].version < requests)
    <3>1. CASE x \in DOMAIN w.active
      <4>1. /\ active'[x] \in ActiveRow /\ SameKind(active'[x]) /\ active'[x].version <= id
            /\ x = id \/ x \in DOMAIN active
        BY <1>3, <1>5, <3>1 DEF StateWrites
      <4>2. active'[x].version \in Nat
        BY <4>1 DEF ActiveRow, Ids
      <4> QED BY <1>6, <4>1, <4>2 DEF RecordInv, RowsRecorded
    <3>2. CASE x \notin DOMAIN w.active
      BY <1>3, <3>2 DEF RecordInv, RowsRecorded
    <3> QED BY <3>1, <3>2
  <2>7. \A y \in DOMAIN canary' : canary'[y] \in CanaryRow'
    BY <1>2, <1>3, <1>5 DEF CanaryWrites, CanaryRow, RecordInv, RowsRecorded
  <2>8. requests' \in 0..MaxRequests
    BY <1>4 DEF RecordInv, RowsRecorded
  <2> QED BY <1>4, <2>1, <2>2, <2>3, <2>4, <2>5, <2>6, <2>7, <2>8 DEF RowsRecorded
\* A row keeps its kind, and a new one is the session's own.
<1>10. /\ \A x \in DOMAIN active :
            x \in DOMAIN active' /\ KindName(active'[x].target) = KindName(active[x].target)
       /\ \A x \in DOMAIN active' : x \in DOMAIN active \/ (x = id /\ x \in DOMAIN w.active)
  BY <1>3, <1>5 DEF StateWrites
<1>11. OneRowPerKind'
  <2> SUFFICES ASSUME NEW x \in DOMAIN active', NEW y \in DOMAIN active',
                      KindName(active'[x].target) = KindName(active'[y].target),
                      StateOf(active'[x].target) \notin contended, x # y
               PROVE  FALSE
    BY <1>4 DEF OneRowPerKind
  <2>1. StateOf(active'[y].target) \notin contended
    BY DEF StateOf
  <2>2. CASE x \in DOMAIN active /\ y \in DOMAIN active
    <3>1. StateOf(active[x].target) = StateOf(active'[x].target)
      BY <1>10, <2>2 DEF StateOf
    <3> QED BY <1>10, <2>2, <3>1 DEF RecordInv, OneRowPerKind
  <2>3. ASSUME NEW p \in DOMAIN active', NEW q \in DOMAIN active, p \notin DOMAIN active,
               KindName(active'[p].target) = KindName(active'[q].target),
               StateOf(active'[p].target) \notin contended
        PROVE  FALSE
    <3>1. p \in DOMAIN w.active /\ active'[p] = w.active[p]
      BY <1>3, <1>10, <2>3
    <3>2. KindName(active[q].target) # KindName(w.active[p].target)
      BY <1>5, <2>3, <3>1 DEF StateWrites
    <3> QED BY <1>10, <2>3, <3>1, <3>2
  <2>4. CASE x \notin DOMAIN active
    BY <1>10, <2>3, <2>4
  <2>5. CASE x \in DOMAIN active /\ y \notin DOMAIN active
    BY <2>1, <2>3, <2>5
  <2> QED BY <2>2, <2>4, <2>5
<1>12. txn'[r] = Idle /\ \A q \in Requests : q # r => txn'[q] = txn[q]
  BY <1>4 DEF ChangeInv
<1>13. LoopHeld'
  BY <1>4, <1>6, <1>12 DEF RecordInv, LoopHeld, Idle
<1>14. Exclusive'
  <2>1. PICK s : s = Idle
    OBVIOUS
  <2>2. Subjects(Writes(s)) = {} /\ txn'[r] = s
    BY <1>12, <2>1, IdleRecorded
  <2> QED BY <1>4, <1>12, <2>2 DEF RecordInv, Exclusive
<1>15. ASSUME NEW q \in Requests, q # r, NEW s, s = txn[q]
       PROVE  SessionRecorded(s)'
  <2>1. SessionRecorded(s) /\ SessionOK(s)
    BY <1>15 DEF RecordInv, ChangeInv
  <2>2. s.phase # "idle" => s.id # id
    BY <1>1, <1>4, <1>15 DEF ChangeInv, NumbersUnique
  <2>3. PICK v : v = Writes(s)
    OBVIOUS
  <2>4. Subjects(v) \cap Subjects(w) \subseteq contended
    BY <1>1, <1>15, <2>3 DEF RecordInv, Exclusive
  <2>5. ChangeWrites(v, s.id)'
    BY <1>2, <2>1, <2>3 DEF SessionRecorded, ChangeWrites
  <2>6. TaskWrites(v, s.id)'
    <3>1. TaskWrites(v, s.id)
      BY <2>1, <2>3 DEF SessionRecorded
    <3>2. v.approvals \subseteq [task : DOMAIN task', decision : Words]
      BY <1>2, <3>1 DEF TaskWrites
    <3>3. \A c \in DOMAIN v.task :
             \/ c = s.id /\ v.task[c] = "open"
             \/ \E a \in v.approvals : a.task = c /\ v.task[c] = Verdict(a.decision)
      BY <3>1 DEF TaskWrites
    <3> QED BY <1>4, <3>2, <3>3 DEF TaskWrites
  <2>7. StateWrites(v, s.id)'
    <3>1. StateWrites(v, s.id)
      BY <2>1, <2>3 DEF SessionRecorded
    <3> SUFFICES ASSUME NEW x \in DOMAIN v.active
                 PROVE  /\ IF x \in DOMAIN active'
                           THEN KindName(active'[x].target) = KindName(v.active[x].target)
                           ELSE x = s.id
                        /\ StateOf(v.active[x].target) \notin contended =>
                             IF x \in DOMAIN active'
                             THEN /\ v.active[x].previous = active'[x].target
                                  /\ v.active[x].version = active'[x].version + 1
                             ELSE \A y \in DOMAIN active' :
                                    KindName(active'[y].target) # KindName(v.active[x].target)
      BY <1>4, <3>1 DEF StateWrites
    <3>2. /\ IF x \in DOMAIN active
             THEN KindName(active[x].target) = KindName(v.active[x].target)
             ELSE x = s.id
          /\ StateOf(v.active[x].target) \notin contended =>
               IF x \in DOMAIN active
               THEN /\ v.active[x].previous = active[x].target
                    /\ v.active[x].version = active[x].version + 1
               ELSE \A y \in DOMAIN active :
                      KindName(active[y].target) # KindName(v.active[x].target)
      BY <3>1 DEF StateWrites
    <3>3. s.phase # "idle"
      <4>1. DOMAIN None = {}
        BY DEF None
      <4>2. ASSUME s.phase = "idle" PROVE FALSE
        <5>1. s = Idle
          BY <2>1, <4>2 DEF SessionOK
        <5>2. v.active = Merge(None, None)
          BY <2>3, <5>1 DEF Writes, Both, Idle, NoWrites
        <5> QED BY <4>1, <5>2 DEF Merge
      <4> QED BY <4>2
    <3>4. x \in DOMAIN active <=> x \in DOMAIN active'
      BY <1>10, <2>2, <3>2, <3>3
    <3>5. \A y \in DOMAIN w.active : StateOf(v.active[x].target) \notin contended =>
            KindName(w.active[y].target) # KindName(v.active[x].target)
      BY <2>4 DEF Subjects, StateOf
    <3>6. CASE x \in DOMAIN active
      <4>1. ASSUME StateOf(v.active[x].target) \notin contended PROVE x \notin DOMAIN w.active
        <5>1. ASSUME x \in DOMAIN w.active PROVE FALSE
          <6>1. KindName(active[x].target) = KindName(w.active[x].target)
            BY <1>5, <3>6, <5>1 DEF StateWrites
          <6> QED BY <3>2, <3>5, <3>6, <4>1, <5>1, <6>1
        <5> QED BY <5>1
      <4>2. StateOf(v.active[x].target) \notin contended => active'[x] = active[x]
        BY <1>3, <3>4, <3>6, <4>1
      <4> QED BY <1>10, <3>2, <3>4, <3>6, <4>2
    <3>7. CASE x \notin DOMAIN active
      <4>1. ASSUME StateOf(v.active[x].target) \notin contended, NEW y \in DOMAIN active'
            PROVE  KindName(active'[y].target) # KindName(v.active[x].target)
        <5>1. CASE y \in DOMAIN active
          BY <1>10, <3>2, <3>7, <4>1, <5>1
        <5>2. CASE y \notin DOMAIN active
          BY <1>3, <1>10, <3>5, <4>1, <5>2
        <5> QED BY <5>1, <5>2
      <4> QED BY <3>2, <3>4, <3>7, <4>1
    <3> QED BY <3>6, <3>7
  <2>8. CanaryWrites(v)'
    BY <1>2, <2>1, <2>3 DEF SessionRecorded, CanaryWrites, CanaryRow
  <2>9. s.then = "apply" /\ s.canary => change'[s.subject].target \in Packs
    <3>1. SUFFICES ASSUME s.then = "apply", s.canary PROVE change'[s.subject].target \in Packs
      OBVIOUS
    <3>2. s.subject \in DOMAIN change /\ change[s.subject].target \in Packs
      BY <2>1, <3>1 DEF SessionOK, SessionRecorded
    <3>3. \A c \in DOMAIN change : change'[c].target = change[c].target
      <4>1. PICK u : u = txn[r].sent
        OBVIOUS
      <4>2. change' = Merge(u.change, change) /\ WritesOK(u, txn[r].id, u.approvals)
        BY <4>1 DEF Commit, ChangeInv, SessionOK
      <4> QED BY <4>2 DEF Merge, WritesOK, OwnChange
    <3> QED BY <3>2, <3>3
  <2>10. s.phase # "idle" => s.id \notin DOMAIN task' /\ s.id \notin DOMAIN active'
    BY <1>2, <1>7, <1>10, <2>1, <2>2 DEF SessionRecorded
  <2> QED BY <2>1, <2>3, <2>5, <2>6, <2>7, <2>8, <2>9, <2>10 DEF SessionRecorded
<1>16. \A q \in Requests : SessionRecorded(txn[q])'
  <2> SUFFICES ASSUME NEW q \in Requests PROVE SessionRecorded(txn[q])'
    OBVIOUS
  <2>1. PICK s : s = txn'[q]
    OBVIOUS
  <2>2. CASE q = r
    <3>1. s = Idle
      BY <1>12, <2>1, <2>2
    <3>2. SessionRecorded(s)'
      <4>1. /\ s.phase = "idle" /\ s.then = "end" /\ s.decision = "defer"
            /\ s.want = NoWrites /\ s.sent = NoWrites
        BY <3>1 DEF Idle
      <4>2. /\ Writes(s).change = None /\ Writes(s).task = None /\ Writes(s).approvals = {}
            /\ Writes(s).active = None /\ Writes(s).canary = None
        BY <4>1, MergeRows DEF Writes, Both, NoWrites
      <4>3. DOMAIN None = {}
        BY DEF None
      <4> QED
        BY <4>1, <4>2, <4>3 DEF SessionRecorded, ChangeWrites, TaskWrites, StateWrites,
                                CanaryWrites, Decisions
    <3> QED BY <2>1, <3>2
  <2>3. CASE q # r
    <3>1. s = txn[q]
      BY <1>12, <2>1, <2>3
    <3>2. SessionRecorded(s)'
      BY <1>15, <2>3, <3>1
    <3> QED BY <2>1, <3>2
  <2> QED BY <2>2, <2>3
<1> QED BY <1>8, <1>11, <1>13, <1>14, <1>16 DEF RecordInv

-----------------------------------------------------------------------------
LEMMA InitRecorded == Init => RecordInv
<1> SUFFICES ASSUME Init PROVE RecordInv
  OBVIOUS
<1>1. PICK s : s = Idle
  OBVIOUS
<1>2. SessionRecorded(s) /\ Subjects(Writes(s)) = {} /\ s.phase = "idle"
  BY <1>1, IdleRecorded DEF Idle
<1>3. \A r \in Requests : txn[r] = s
  BY <1>1 DEF Init
<1>4. RowsRecorded /\ OneRowPerKind
  BY ChangeControlAssumption DEF Init, None, RowsRecorded, OneRowPerKind
<1>5. LoopHeld
  BY <1>2, <1>3, ChangeControlAssumption DEF Init, LoopHeld
<1>6. Exclusive /\ \A r \in Requests : SessionRecorded(txn[r])
  BY <1>2, <1>3 DEF Exclusive
<1> QED BY <1>4, <1>5, <1>6 DEF RecordInv

LEMMA StutterRecorded == ChangeInv /\ RecordInv /\ UNCHANGED vars => RecordInv'
<1> SUFFICES ASSUME ChangeInv, RecordInv, UNCHANGED vars PROVE RecordInv'
  OBVIOUS
<1>1. UNCHANGED <<db, txn, loop, requests, contended>>
  BY DEF vars
<1>2. UNCHANGED <<change, task, approvals, active, canary>>
  BY <1>1 DEF db
<1>3. RowsRecorded' /\ OneRowPerKind'
  BY <1>1, <1>2 DEF RecordInv, RowsRecorded, CanaryRow, OneRowPerKind
<1>4. LoopHeld' /\ Exclusive'
  BY <1>1 DEF RecordInv, LoopHeld, Exclusive
<1>5. \A r \in Requests : SessionRecorded(txn[r])'
  <2> SUFFICES ASSUME NEW r \in Requests PROVE SessionRecorded(txn[r])'
    OBVIOUS
  <2>1. PICK s : s = txn[r]
    OBVIOUS
  <2>2. SessionRecorded(s)'
    BY <1>1, <2>1, SameRecords DEF RecordInv
  <2> QED BY <1>1, <2>1, <2>2
<1> QED BY <1>3, <1>4, <1>5 DEF RecordInv

LEMMA EndpointRecorded ==
    ASSUME ChangeInv, RecordInv, NEW r \in Requests, Endpoint(r)
    PROVE  RecordInv'
<1>1. CASE RequestPackChange(r) \/ RequestManifestChange(r)
  <2>1. PICK target \in Targets : StageChange(r, target)
    BY <1>1 DEF RequestPackChange, RequestManifestChange, Targets
  <2> QED BY <2>1, StageChangeRecorded
<1>2. CASE RollBackPack(r) \/ RollBackManifest(r)
  BY <1>2, RollBackRecorded DEF RollBackPack, RollBackManifest
<1> QED
  BY <1>1, <1>2, CreateProposalRecorded, DecideReviewTaskRecorded, DecidePackChangeRecorded,
     DecideManifestChangeRecorded, PromoteCanaryRecorded DEF Endpoint

LEMMA RecordsKept ==
    /\ Init => ChangeInv /\ RecordInv
    /\ ChangeInv /\ RecordInv /\ [Next]_vars => (ChangeInv /\ RecordInv)'
<1>1. ChangeInv /\ [Next]_vars => ChangeInv'
  BY EndpointKeeps, DeclineChangeKeeps, ApplyChangeKeeps, StartCanaryKeeps, FlushKeeps,
     HandOverKeeps, CommitKeeps, FailKeeps, RestartKeeps, StutterKeeps
     DEF Next, Body, Session
<1>2. ChangeInv /\ RecordInv /\ [Next]_vars => RecordInv'
  BY EndpointRecorded, DeclineChangeRecorded, ApplyChangeRecorded, StartCanaryRecorded,
     FlushRecorded, HandOverRecorded, CommitRecorded, FailRecorded, RestartRecorded,
     StutterRecorded DEF Next, Body, Session
<1> QED BY <1>1, <1>2, InitChange, InitRecorded

\* Every variable has its type, whatever sessions overlap, fail or are lost; the
\* version of an effective state never exceeds the number of requests.
THEOREM ChangeControlTyped == Spec => []TypeOK
<1>1. RecordInv => TypeOK
  <2> SUFFICES ASSUME RecordInv PROVE TypeOK
    OBVIOUS
  <2>1. 1..requests \subseteq Ids /\ requests \in 0..MaxRequests
    BY ChangeControlAssumption DEF RecordInv, RowsRecorded, Ids
  <2> QED
    BY <2>1 DEF RecordInv, RowsRecorded, LoopHeld, ChangeRow, ActiveRow, CanaryRow, TypeOK
<1> QED BY <1>1, RecordsKept, PTL DEF Spec

LEMMA AtMostOne ==
    ASSUME NEW S, \A x, y \in S : x = y
    PROVE  Cardinality(S) <= 1
<1>1. CASE S = {}
  BY <1>1, FS_EmptySet
<1>2. CASE S # {}
  <2>1. PICK x : S = {x}
    BY <1>2
  <2>2. Cardinality({x}) = 1
    BY FS_Singleton
  <2> QED BY <2>1, <2>2
<1> QED BY <1>1, <1>2

\* Only a commit changes what is effective.
LEMMA OnlyCommitReplaces ==
    ASSUME Next
    PROVE  UNCHANGED active \/ \E r \in Requests : Commit(r)
<1>1. /\ \A r, session : Begin(r, session) => UNCHANGED active
      /\ \A r, w : Continue(r, w) => UNCHANGED active
  BY DEF Begin, Continue, db
<1>2. ASSUME NEW r, Endpoint(r) PROVE UNCHANGED active
  <2>1. \A target : StageChange(r, target) => UNCHANGED active
    BY <1>1 DEF StageChange
  <2>2. RequestPackChange(r) \/ RequestManifestChange(r) => UNCHANGED active
    BY <2>1 DEF RequestPackChange, RequestManifestChange
  <2>3. RollBackPack(r) \/ RollBackManifest(r) => UNCHANGED active
    BY <1>1 DEF RollBackPack, RollBackManifest, RollBack
  <2>4. DecidePackChange(r) \/ DecideManifestChange(r) \/ DecideReviewTask(r) => UNCHANGED active
    BY <1>1 DEF DecidePackChange, DecideManifestChange, DecideReviewTask
  <2>5. PromoteCanary(r) \/ CreateProposal(r) => UNCHANGED active
    BY <1>1 DEF PromoteCanary, CreateProposal
  <2> QED BY <1>2, <2>2, <2>3, <2>4, <2>5 DEF Endpoint
<1>3. ASSUME NEW r, Body(r) PROVE UNCHANGED active
  <2>1. DeclineChange(r) \/ ApplyChange(r) \/ StartCanary(r) => UNCHANGED active
    BY <1>1 DEF DeclineChange, ApplyChange, StartCanary
  <2> QED BY <1>3, <2>1 DEF Body, Flush, db
<1>4. ASSUME NEW r, HandOver(r) \/ Fail(r) \/ Restart PROVE UNCHANGED active
  BY <1>4 DEF HandOver, Fail, Restart, db
<1> QED BY <1>2, <1>3, <1>4 DEF Next, Session

\* The effective row of a kind is alone, and a commit that replaces it keeps what
\* it replaced as the target of the next rollback, unless two open sessions wrote
\* that kind (policy_pack_service.py:199, semantic_manifest_service.py:156).
THEOREM UndoKeepsPredecessor == Spec => UndoLeadsToPredecessor
<1> DEFINE Step(kind) ==
      \/ \E t \in kind : <<"state", KindName(t)>> \in contended
      \/ /\ Cardinality(ActiveRows(kind)') <= 1
         /\ \A x \in ActiveRows(kind) : active'[x] # active[x] =>
              /\ active'[x].previous = active[x].target
              /\ active'[x].version = active[x].version + 1
<1>1. ASSUME ChangeInv, RecordInv, RecordInv', Next, NEW kind \in {Packs, Manifests}
      PROVE  Step(kind)
  <2> SUFFICES ASSUME \A t \in kind : StateOf(t) \notin contended PROVE Step(kind)
    BY DEF StateOf
  <2>0. \A t, u \in kind : KindName(t) = KindName(u)
    BY ChangeControlAssumption DEF KindName
  <2>1. CASE UNCHANGED active
    <3>1. \A x, y \in ActiveRows(kind)' : x = y
      BY <1>1, <2>0, <2>1 DEF RecordInv, OneRowPerKind, ActiveRows
    <3> QED BY <2>1, <3>1, AtMostOne
  <2>2. ASSUME NEW r \in Requests, Commit(r) PROVE Step(kind)
    <3>1. contended' = contended
      BY <2>2 DEF Commit
    <3>2. Cardinality(ActiveRows(kind)') <= 1
      <4>1. \A t \in kind : StateOf(t) \notin contended'
        BY <3>1
      <4>2. \A x, y \in ActiveRows(kind)' : x = y
        BY <1>1, <2>0, <4>1 DEF RecordInv, OneRowPerKind, ActiveRows
      <4> QED BY <4>2, AtMostOne
    <3>3. PICK w : w = Writes(txn[r])
      OBVIOUS
    <3>4. Committed(w) /\ StateWrites(w, txn[r].id)
      BY <1>1, <2>2, <3>3, CommitRows DEF RecordInv, SessionRecorded
    <3>5. ASSUME NEW x \in ActiveRows(kind), active'[x] # active[x]
          PROVE  /\ active'[x].previous = active[x].target
                 /\ active'[x].version = active[x].version + 1
      <4>1. x \in DOMAIN active /\ active[x].target \in kind
        BY <3>5 DEF ActiveRows
      <4>2. x \in DOMAIN w.active /\ active'[x] = w.active[x]
        BY <3>4, <3>5, <4>1 DEF Committed
      <4>3. KindName(active[x].target) = KindName(w.active[x].target)
        BY <3>4, <4>1, <4>2 DEF StateWrites
      <4>4. StateOf(w.active[x].target) \notin contended
        BY <4>1, <4>3 DEF StateOf
      <4> QED BY <3>4, <4>1, <4>2, <4>4 DEF StateWrites
    <3> QED BY <3>2, <3>5
  <2> QED BY <1>1, <2>1, <2>2, OnlyCommitReplaces
<1>2. ChangeInv /\ RecordInv /\ (ChangeInv /\ RecordInv)' /\ [Next]_vars
        => [\A kind \in {Packs, Manifests} : Step(kind)]_vars
  BY <1>1
<1> QED BY <1>2, RecordsKept, PTL DEF Spec, UndoLeadsToPredecessor
=============================================================================
