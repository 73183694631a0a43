--------------------------- MODULE DeletionProofs ---------------------------
(***************************************************************************)
(* Proofs about Deletion, for any number of sessions, requests and files:  *)
(* two persons for each deletion, no deletion without its evidence, no     *)
(* destruction under a hold, no removal that nothing accounts for, and the *)
(* types of what sessions have in hand and of what is committed.           *)
(***************************************************************************)
EXTENDS Deletion, FiniteSetTheorems, WellFoundedInduction, TLAPS

Fields == {"phase", "id", "row", "want", "approval", "decision", "actor", "read",
           "found", "left", "dry", "held"}

\* What is said of the record of a committed request, and what a session may
\* rely on, does not change back.
HasApproval(c) ==
    \E a \in approvals : /\ a.row = c /\ a.decision = "approve"
                         /\ a.actor # deletion[c].requester

Bundle(c, i, kinds) == {[kind |-> k, row |-> c, by |-> i] : k \in kinds}

Attested(c) == \E i \in Ids : Bundle(c, i, {"report", "evidence", "attestation"}) \subseteq files

Executing == {"report", "evidence", "attest", "executed"}

\* Numbering of requests and sessions.
Numbered ==
    /\ requests \in 0..MaxRequests
    /\ DOMAIN session = Requests
    /\ \A r \in Requests : /\ DOMAIN session[r] = Fields
                           /\ session[r].phase # "idle" => session[r].id \in 1..requests
    /\ \A r, q \in Requests :
         r # q /\ session[r].phase # "idle" /\ session[q].phase # "idle"
           => session[r].id # session[q].id

\* What a session that is to change a deletion request has established.
Approving(r) ==
    /\ session[r].phase \in {"decide", "check", "update", "sent"} \cup Executing
         => session[r].row \in DOMAIN deletion
    /\ session[r].phase = "insert" =>
         /\ session[r].row = session[r].id /\ session[r].row \notin DOMAIN deletion
         /\ DOMAIN session[r].want = {"requester", "status", "hold"}
         /\ session[r].want.status = "requested"
    /\ session[r].phase = "decide" /\ session[r].decision = "approve"
         => deletion[session[r].row].requester # session[r].actor
    /\ session[r].phase = "check" /\ session[r].read.status = "approved"
         => HasApproval(session[r].row)
    /\ session[r].phase \in Executing => HasApproval(session[r].row)
    /\ session[r].phase \in {"update", "sent"} =>
         /\ DOMAIN session[r].want \subseteq {"status", "hold"}
         /\ "status" \in DOMAIN session[r].want =>
              /\ session[r].want.status = "approved" =>
                   \E a \in session[r].approval :
                      /\ a.row = session[r].row /\ a.decision = "approve"
                      /\ a.actor # deletion[session[r].row].requester
              /\ session[r].want.status = "executed" =>
                   HasApproval(session[r].row) /\ Attested(session[r].row)

\* The files an execution has written.
Filing(r) ==
    /\ session[r].phase = "evidence" =>
         Bundle(session[r].row, session[r].id, {"report"}) \subseteq files
    /\ session[r].phase = "attest" =>
         Bundle(session[r].row, session[r].id, {"report", "evidence"}) \subseteq files
    /\ session[r].phase = "executed" => Attested(session[r].row)

Committed ==
    /\ DOMAIN deletion \subseteq 1..requests
    /\ \A c \in DOMAIN deletion :
         /\ DOMAIN deletion[c] = {"requester", "status", "hold"}
         /\ deletion[c].status \in {"approved", "executed"} => HasApproval(c)
         /\ deletion[c].status = "executed" => Attested(c)

Sessions == \A r \in Requests : Approving(r) /\ Filing(r)

Duties == Committed /\ Sessions

-----------------------------------------------------------------------------
(* Numbers *)

LEMMA NumberedBegin ==
  ASSUME Numbered, NEW r \in Requests, NEW s, DOMAIN s = Fields, Begin(r, s)
  PROVE  Numbered'
  <1> DEFINE t == [s EXCEPT !.id = requests + 1, !.held = LegalHoldActive]
  <1>1. DOMAIN t = Fields /\ t.id = requests + 1
    BY DEF Fields
  <1>2. session' = [session EXCEPT ![r] = t] /\ requests' = requests + 1
        /\ requests < MaxRequests
    BY DEF Begin
  <1> HIDE DEF t
  <1>3. /\ requests \in 0..MaxRequests /\ DOMAIN session = Requests
        /\ \A q \in Requests : session[q].phase # "idle" => session[q].id \in 1..requests
    BY DEF Numbered
  <1>4. \A q \in Requests : session'[q] = IF q = r THEN t ELSE session[q]
    BY <1>2, <1>3
  <1>5. requests' \in 0..MaxRequests /\ DOMAIN session' = Requests
    BY <1>2, <1>3, DeletionAssumption
  <1>6. \A q \in Requests : /\ DOMAIN session'[q] = Fields
                            /\ session'[q].phase # "idle" => session'[q].id \in 1..requests'
    BY <1>1, <1>2, <1>3, <1>4, DeletionAssumption DEF Numbered
  <1>7. \A p, q \in Requests :
           p # q /\ session'[p].phase # "idle" /\ session'[q].phase # "idle"
             => session'[p].id # session'[q].id
    BY <1>1, <1>3, <1>4, DeletionAssumption DEF Numbered
  <1> QED
    BY <1>5, <1>6, <1>7 DEF Numbered

\* A session goes on, or ends.
LEMMA NumberedGoesOn ==
  ASSUME Numbered, requests' = requests, DOMAIN session' = Requests,
         \A q \in Requests : /\ DOMAIN session'[q] = Fields
                             /\ session'[q].phase # "idle" =>
                                  session[q].phase # "idle" /\ session'[q].id = session[q].id
  PROVE  Numbered'
  BY DEF Numbered

LEMMA IdleFields == DOMAIN Idle = Fields /\ Idle.phase = "idle" /\ Idle.held = FALSE
  BY DEF Idle, Fields

\* The ways a step of session r can go.
Arrives(r) == SubmitDeletion(r) \/ BeginApproval(r) \/ BeginExecution(r)
                \/ ConfigurePolicy(r) \/ BeginPurge(r)

Continues(r) == Decide(r) \/ CheckHold(r) \/ WriteReport(r) \/ StoreEvidence(r)
                  \/ StoreAttestation(r) \/ MarkExecuted(r) \/ Scan(r) \/ Unlink(r)
                  \/ StorePurgeEvidence(r) \/ Send(r)

Leaves(r) == CommitDeletion(r) \/ CommitPurge(r) \/ Fail(r)

Background == WriteArtifact \/ Age \/ UNCHANGED vars

LEMMA StepForms ==
  ASSUME [Next]_vars
  PROVE  \/ \E r \in Requests : Arrives(r) \/ Continues(r) \/ Leaves(r) \/ CommitPolicy(r)
         \/ Background
  BY DEF Next, DeletionStep, RetentionStep, Arrives, Continues, Leaves, Background

LEMMA ArrivalForm ==
  ASSUME NEW r \in Requests, Arrives(r)
  PROVE  \E s : DOMAIN s = Fields /\ Begin(r, s)
  <1>1. CASE SubmitDeletion(r)
    <2>1. PICK a \in Actors :
            Begin(r, [Idle EXCEPT !.phase = "insert", !.actor = a, !.row = requests + 1,
                      !.want = [requester |-> a, status |-> "requested",
                                hold |-> LegalHoldActive]])
      BY <1>1 DEF SubmitDeletion
    <2> QED
      BY <2>1, IdleFields
  <1>2. CASE BeginApproval(r)
    <2>1. PICK a \in Actors, c \in DOMAIN deletion, decision \in Decisions :
            Begin(r, [Idle EXCEPT !.phase = "decide", !.row = c, !.actor = a,
                      !.decision = decision, !.read = deletion[c]])
      BY <1>2 DEF BeginApproval
    <2> QED
      BY <2>1, IdleFields
  <1>3. CASE BeginExecution(r)
    <2>1. PICK c \in DOMAIN deletion :
            Begin(r, [Idle EXCEPT !.phase = "check", !.row = c, !.read = deletion[c]])
      BY <1>3 DEF BeginExecution
    <2> QED
      BY <2>1, IdleFields
  <1>4. CASE ConfigurePolicy(r)
    <2>1. PICK new \in [purge : BOOLEAN, hold : BOOLEAN] :
            \/ Begin(r, [Idle EXCEPT !.phase = "insert_policy", !.row = requests + 1,
                         !.want = new])
            \/ \E x \in DOMAIN policy :
                 Begin(r, [Idle EXCEPT !.phase = "update_policy", !.row = x,
                           !.want = Changed(policy[x], new)])
      BY <1>4 DEF ConfigurePolicy
    <2> QED
      BY <2>1, IdleFields
  <1>5. CASE BeginPurge(r)
    <2>1. PICK dry \in BOOLEAN : Begin(r, [Idle EXCEPT !.phase = "scan", !.dry = dry])
      BY <1>5 DEF BeginPurge
    <2> QED
      BY <2>1, IdleFields
  <1> QED
    BY <1>1, <1>2, <1>3, <1>4, <1>5 DEF Arrives

\* Fields a session keeps from its start to its end.
Kept(s, t) == DOMAIN t = Fields /\ t.id = s.id /\ t.held = s.held /\ t.row = s.row

\* A session that goes on keeps its number; the others are left alone.
LEMMA ContinueForm ==
  ASSUME Numbered, NEW r \in Requests, Continues(r)
  PROVE  /\ requests' = requests /\ policy' = policy /\ deletion' = deletion
         /\ approvals' = approvals /\ purges' = purges /\ failed' = failed
         /\ DOMAIN session' = Requests /\ DOMAIN session'[r] = Fields
         /\ session[r].phase # "idle"
         /\ session'[r].id = session[r].id /\ session'[r].held = session[r].held
         /\ session'[r].row = session[r].row
         /\ \A q \in Requests \ {r} : session'[q] = session[q]
  <1>1. /\ requests' = requests /\ policy' = policy /\ deletion' = deletion
        /\ approvals' = approvals /\ purges' = purges /\ failed' = failed
    BY DEF Continues, Decide, CheckHold, WriteReport, StoreEvidence, StoreAttestation,
           MarkExecuted, Scan, Unlink, StorePurgeEvidence, Send, Write, Goto, db, counters
  <1>2. session[r].phase # "idle"
    BY DEF Continues, Decide, CheckHold, WriteReport, StoreEvidence, StoreAttestation,
           MarkExecuted, Scan, Unlink, StorePurgeEvidence, Send, Write
  <1>3. DOMAIN session = Requests /\ DOMAIN session[r] = Fields
    BY DEF Numbered
  <1>4. \E s : Goto(r, s) /\ Kept(session[r], s)
    <2>1. CASE Decide(r)
      <3> DEFINE held == session[r].decision = "approve" /\ LegalHoldActive
                 status == IF held THEN "blocked"
                           ELSE IF session[r].decision = "approve" THEN "approved"
                           ELSE IF session[r].decision = "reject" THEN "rejected"
                           ELSE "deferred"
                 want == Changed(session[r].read, [status |-> status,
                                                   hold |-> held \/ session[r].read.hold])
                 approval == {[row |-> session[r].row, actor |-> session[r].actor,
                               decision |-> session[r].decision]}
      <3>1. Goto(r, [session[r] EXCEPT !.phase = "update", !.want = want,
                                       !.approval = approval])
        BY <2>1 DEF Decide
      <3> HIDE DEF held, status, want, approval
      <3>2. Kept(session[r], [session[r] EXCEPT !.phase = "update", !.want = want,
                                                !.approval = approval])
        BY <1>3 DEF Fields, Kept
      <3> QED
        BY <3>1, <3>2
    <2>2. CASE CheckHold(r) /\ LegalHoldActive
      <3> DEFINE want == Changed(session[r].read, [status |-> "blocked", hold |-> TRUE])
      <3>1. Goto(r, [session[r] EXCEPT !.phase = "update", !.want = want])
        BY <2>2 DEF CheckHold
      <3> HIDE DEF want
      <3>2. Kept(session[r], [session[r] EXCEPT !.phase = "update", !.want = want])
        BY <1>3 DEF Fields, Kept
      <3> QED
        BY <3>1, <3>2
    <2>3. CASE CheckHold(r) /\ ~LegalHoldActive
      <3>1. Goto(r, [session[r] EXCEPT !.phase = "report"])
        BY <2>3 DEF CheckHold
      <3> QED
        BY <1>3, <3>1 DEF Fields, Kept
    <2>4. CASE WriteReport(r) \/ StoreEvidence(r) \/ StoreAttestation(r)
      <3>1. \/ Goto(r, [session[r] EXCEPT !.phase = "evidence"])
            \/ Goto(r, [session[r] EXCEPT !.phase = "attest"])
            \/ Goto(r, [session[r] EXCEPT !.phase = "executed"])
        BY <2>4 DEF WriteReport, StoreEvidence, StoreAttestation, Write
      <3> QED
        BY <1>3, <3>1 DEF Fields, Kept
    <2>5. CASE MarkExecuted(r)
      <3> DEFINE want == Changed(session[r].read, [status |-> "executed", hold |-> FALSE])
      <3>1. Goto(r, [session[r] EXCEPT !.phase = "update", !.want = want])
        BY <2>5 DEF MarkExecuted
      <3> HIDE DEF want
      <3>2. Kept(session[r], [session[r] EXCEPT !.phase = "update", !.want = want])
        BY <1>3 DEF Fields, Kept
      <3> QED
        BY <3>1, <3>2
    <2>6. CASE Scan(r)
      <3> DEFINE found == {p \in Paths : artifact[p] = "old"}
                 left == IF session[r].dry THEN {} ELSE found
      <3>1. Goto(r, [session[r] EXCEPT !.phase = "unlink", !.found = found, !.left = left])
        BY <2>6 DEF Scan
      <3> HIDE DEF found, left
      <3>2. Kept(session[r], [session[r] EXCEPT !.phase = "unlink", !.found = found,
                                                !.left = left])
        BY <1>3 DEF Fields, Kept
      <3> QED
        BY <3>1, <3>2
    <2>7. CASE Unlink(r)
      <3>1. PICK p \in session[r].left :
              Goto(r, [session[r] EXCEPT !.left = session[r].left \ {p}])
        BY <2>7 DEF Unlink
      <3> DEFINE left == session[r].left \ {p}
      <3>2. Goto(r, [session[r] EXCEPT !.left = left])
        BY <3>1
      <3> HIDE DEF left
      <3>3. Kept(session[r], [session[r] EXCEPT !.left = left])
        BY <1>3 DEF Fields, Kept
      <3> QED
        BY <3>2, <3>3
    <2>8. CASE StorePurgeEvidence(r) \/ Send(r)
      <3>1. \/ Goto(r, [session[r] EXCEPT !.phase = "insert_run"])
            \/ Goto(r, [session[r] EXCEPT !.phase = "sent"])
            \/ Goto(r, [session[r] EXCEPT !.phase = "sent_policy"])
        BY <2>8 DEF StorePurgeEvidence, Send
      <3> QED
        BY <1>3, <3>1 DEF Fields, Kept
    <2> QED
      BY <2>1, <2>2, <2>3, <2>4, <2>5, <2>6, <2>7, <2>8 DEF Continues
  <1>5. \E s : session' = [session EXCEPT ![r] = s] /\ Kept(session[r], s)
    BY <1>4 DEF Goto
  <1> QED
    BY <1>1, <1>2, <1>3, <1>5 DEF Kept

LEMMA LeaveForm ==
  ASSUME NEW r \in Requests, Leaves(r)
  PROVE  /\ requests' = requests /\ policy' = policy /\ UNCHANGED disk
         /\ session' = [session EXCEPT ![r] = Idle]
         /\ session[r].phase # "idle"
  BY DEF Leaves, CommitDeletion, CommitPurge, Fail, Finish, RollBack, db, disk, counters

LEMMA PolicyForm ==
  ASSUME Numbered, NEW r \in Requests, CommitPolicy(r)
  PROVE  /\ requests' = requests /\ UNCHANGED <<deletion, approvals, purges, disk, failed>>
         /\ session[r].phase \in {"insert_policy", "sent_policy"}
         /\ DOMAIN session' = Requests /\ session'[r] = Idle
         /\ \A q \in Requests \ {r} :
              /\ DOMAIN session'[q] = Fields
              /\ \A f \in Fields \ {"held"} : session'[q][f] = session[q][f]
              /\ session'[q].held = (session[q].held /\ LegalHoldActive')
  <1>1. session' = [q \in Requests |-> IF q = r THEN Idle ELSE
                      [session[q] EXCEPT !.held = @ /\ LatestPolicy(policy').hold]]
    BY DEF CommitPolicy
  <1>2. LatestPolicy(policy').hold = LegalHoldActive'
    BY DEF LegalHoldActive, LatestPolicy
  <1>3. \A q \in Requests : DOMAIN session[q] = Fields
    BY DEF Numbered
  <1>4. DOMAIN session' = Requests /\ session'[r] = Idle
    BY <1>1
  <1>5. \A q \in Requests \ {r} :
          session'[q] = [session[q] EXCEPT !.held = @ /\ LegalHoldActive']
    BY <1>1, <1>2
  <1>6. \A q \in Requests \ {r} :
          /\ DOMAIN session'[q] = Fields
          /\ \A f \in Fields \ {"held"} : session'[q][f] = session[q][f]
          /\ session'[q].held = (session[q].held /\ LegalHoldActive')
    BY <1>3, <1>5 DEF Fields
  <1> QED
    BY <1>4, <1>6 DEF CommitPolicy, counters

LEMMA BackgroundForm ==
  ASSUME Background
  PROVE  UNCHANGED <<db, files, removed, failed, session, requests>>
  BY DEF Background, WriteArtifact, Age, vars, disk, counters

LEMMA NumberedStep ==
  ASSUME Numbered, [Next]_vars
  PROVE  Numbered'
  <1>1. ASSUME NEW r \in Requests, Arrives(r) PROVE Numbered'
    BY <1>1, ArrivalForm, NumberedBegin
  <1>2. ASSUME NEW r \in Requests, Continues(r) PROVE Numbered'
    <2>1. /\ requests' = requests /\ DOMAIN session' = Requests
          /\ DOMAIN session'[r] = Fields /\ session[r].phase # "idle"
          /\ session'[r].id = session[r].id
          /\ \A q \in Requests \ {r} : session'[q] = session[q]
      BY <1>2, ContinueForm
    <2> QED
      BY <2>1, NumberedGoesOn DEF Numbered
  <1>3. ASSUME NEW r \in Requests, Leaves(r) PROVE Numbered'
    <2>1. requests' = requests /\ session' = [session EXCEPT ![r] = Idle]
      BY <1>3, LeaveForm
    <2>2. DOMAIN session' = Requests
          /\ \A q \in Requests : session'[q] = IF q = r THEN Idle ELSE session[q]
      BY <2>1 DEF Numbered
    <2> QED
      BY <2>1, <2>2, IdleFields, NumberedGoesOn DEF Numbered
  <1>4. ASSUME NEW r \in Requests, CommitPolicy(r) PROVE Numbered'
    <2>1. /\ requests' = requests /\ DOMAIN session' = Requests /\ session'[r] = Idle
          /\ \A q \in Requests \ {r} :
               /\ DOMAIN session'[q] = Fields
               /\ session'[q].phase = session[q].phase /\ session'[q].id = session[q].id
      BY <1>4, PolicyForm DEF Fields
    <2> QED
      BY <2>1, IdleFields, NumberedGoesOn
  <1>5. CASE Background
    BY <1>5, BackgroundForm DEF Numbered
  <1> QED
    BY <1>1, <1>2, <1>3, <1>4, <1>5, StepForms

LEMMA SpecNumbered == Spec => []Numbered
  <1>1. Init => Numbered
    BY IdleFields, DeletionAssumption DEF Init, Numbered
  <1> QED
    BY <1>1, NumberedStep, PTL DEF Spec

-----------------------------------------------------------------------------
(* Holds *)

Destroying == Executing \cup {"scan", "unlink", "insert_run"}

HoldInv ==
    \A r \in Requests : session[r].held =>
        /\ LegalHoldActive
        /\ session[r].phase \notin Destroying /\ session[r].phase # "idle"

LEMMA InitHold == Init => HoldInv
  BY DEF Init, Idle, HoldInv

\* What a request is at its arrival.
LEMMA ArrivalPhase ==
  ASSUME Numbered, NEW r \in Requests, Arrives(r)
  PROVE  /\ UNCHANGED <<db, disk, failed>>
         /\ session'[r].phase \in {"insert", "decide", "check", "insert_policy",
                                   "update_policy", "scan"}
         /\ session'[r].held = LegalHoldActive
         /\ session'[r].phase = "scan" => ~LegalHoldActive
         /\ \A q \in Requests \ {r} : session'[q] = session[q]
  <1>1. DOMAIN session = Requests
    BY DEF Numbered
  <1>2. UNCHANGED <<db, disk, failed>>
    BY DEF Arrives, SubmitDeletion, BeginApproval, BeginExecution, ConfigurePolicy,
           BeginPurge, Begin
  <1>3. ASSUME NEW s, DOMAIN s = Fields, Begin(r, s),
               s.phase \in {"insert", "decide", "check", "insert_policy", "update_policy",
                            "scan"},
               s.phase = "scan" => ~LegalHoldActive
        PROVE  /\ session'[r].phase \in {"insert", "decide", "check", "insert_policy",
                                         "update_policy", "scan"}
               /\ session'[r].held = LegalHoldActive
               /\ session'[r].phase = "scan" => ~LegalHoldActive
               /\ \A q \in Requests \ {r} : session'[q] = session[q]
    <2> DEFINE t == [s EXCEPT !.id = requests + 1, !.held = LegalHoldActive]
    <2>1. t.phase = s.phase /\ t.held = LegalHoldActive
      BY <1>3 DEF Fields
    <2>2. session' = [session EXCEPT ![r] = t]
      BY <1>3 DEF Begin
    <2> HIDE DEF t
    <2>3. session'[r] = t /\ \A q \in Requests \ {r} : session'[q] = session[q]
      BY <1>1, <2>2
    <2> QED
      BY <1>3, <2>1, <2>3
  <1>4. CASE SubmitDeletion(r)
    <2>1. PICK a \in Actors :
            Begin(r, [Idle EXCEPT !.phase = "insert", !.actor = a, !.row = requests + 1,
                      !.want = [requester |-> a, status |-> "requested",
                                hold |-> LegalHoldActive]])
      BY <1>4 DEF SubmitDeletion
    <2> QED
      BY <1>2, <1>3, <2>1, IdleFields DEF Fields
  <1>5. CASE BeginApproval(r)
    <2>1. PICK a \in Actors, c \in DOMAIN deletion, decision \in Decisions :
            Begin(r, [Idle EXCEPT !.phase = "decide", !.row = c, !.actor = a,
                      !.decision = decision, !.read = deletion[c]])
      BY <1>5 DEF BeginApproval
    <2> QED
      BY <1>2, <1>3, <2>1, IdleFields DEF Fields
  <1>6. CASE BeginExecution(r)
    <2>1. PICK c \in DOMAIN deletion :
            Begin(r, [Idle EXCEPT !.phase = "check", !.row = c, !.read = deletion[c]])
      BY <1>6 DEF BeginExecution
    <2> QED
      BY <1>2, <1>3, <2>1, IdleFields DEF Fields
  <1>7. CASE ConfigurePolicy(r)
    <2>1. PICK new \in [purge : BOOLEAN, hold : BOOLEAN] :
            \/ Begin(r, [Idle EXCEPT !.phase = "insert_policy", !.row = requests + 1,
                         !.want = new])
            \/ \E x \in DOMAIN policy :
                 Begin(r, [Idle EXCEPT !.phase = "update_policy", !.row = x,
                           !.want = Changed(policy[x], new)])
      BY <1>7 DEF ConfigurePolicy
    <2>2. CASE Begin(r, [Idle EXCEPT !.phase = "insert_policy", !.row = requests + 1,
                         !.want = new])
      BY <1>2, <1>3, <2>2, IdleFields DEF Fields
    <2>3. CASE \E x \in DOMAIN policy :
                 Begin(r, [Idle EXCEPT !.phase = "update_policy", !.row = x,
                           !.want = Changed(policy[x], new)])
      <3>1. PICK x \in DOMAIN policy :
              Begin(r, [Idle EXCEPT !.phase = "update_policy", !.row = x,
                        !.want = Changed(policy[x], new)])
        BY <2>3
      <3> QED
        BY <1>2, <1>3, <3>1, IdleFields DEF Fields
    <2> QED
      BY <2>1, <2>2, <2>3
  <1>8. CASE BeginPurge(r)
    <2>1. PICK dry \in BOOLEAN : Begin(r, [Idle EXCEPT !.phase = "scan", !.dry = dry])
      BY <1>8 DEF BeginPurge
    <2>2. ~LegalHoldActive
      BY <1>8 DEF BeginPurge
    <2> QED
      BY <1>2, <1>3, <2>1, <2>2, IdleFields DEF Fields
  <1> QED
    BY <1>4, <1>5, <1>6, <1>7, <1>8 DEF Arrives

\* The phase a session goes on to.
LEMMA ContinuePhase ==
  ASSUME Numbered, NEW r \in Requests, Continues(r)
  PROVE  \/ Decide(r) /\ session'[r].phase = "update"
         \/ CheckHold(r) /\ LegalHoldActive /\ session'[r].phase = "update"
         \/ CheckHold(r) /\ ~LegalHoldActive /\ session'[r].phase = "report"
         \/ WriteReport(r) /\ session'[r].phase = "evidence"
         \/ StoreEvidence(r) /\ session'[r].phase = "attest"
         \/ StoreAttestation(r) /\ session'[r].phase = "executed"
         \/ MarkExecuted(r) /\ session'[r].phase = "update"
         \/ Scan(r) /\ session'[r].phase = "unlink"
         \/ Unlink(r) /\ session'[r].phase = "unlink"
         \/ StorePurgeEvidence(r) /\ session'[r].phase = "insert_run"
         \/ Send(r) /\ session[r].phase \in {"update", "update_policy"}
              /\ session'[r].phase = IF session[r].phase = "update" THEN "sent"
                                     ELSE "sent_policy"
  <1>1. DOMAIN session = Requests /\ DOMAIN session[r] = Fields
    BY DEF Numbered
  <1>2. CASE Decide(r)
    BY <1>1, <1>2 DEF Decide, Goto, Fields
  <1>3. CASE CheckHold(r)
    BY <1>1, <1>3 DEF CheckHold, Goto, Fields
  <1>4. CASE WriteReport(r)
    BY <1>1, <1>4 DEF WriteReport, Write, Goto, Fields
  <1>5. CASE StoreEvidence(r)
    BY <1>1, <1>5 DEF StoreEvidence, Write, Goto, Fields
  <1>6. CASE StoreAttestation(r)
    BY <1>1, <1>6 DEF StoreAttestation, Write, Goto, Fields
  <1>7. CASE MarkExecuted(r)
    BY <1>1, <1>7 DEF MarkExecuted, Goto, Fields
  <1>8. CASE Scan(r)
    BY <1>1, <1>8 DEF Scan, Goto, Fields
  <1>9. CASE Unlink(r)
    BY <1>1, <1>9 DEF Unlink, Goto, Fields
  <1>10. CASE StorePurgeEvidence(r)
    BY <1>1, <1>10 DEF StorePurgeEvidence, Goto, Fields
  <1>11. CASE Send(r)
    BY <1>1, <1>11 DEF Send, Goto, Fields
  <1> QED
    BY <1>2, <1>3, <1>4, <1>5, <1>6, <1>7, <1>8, <1>9, <1>10, <1>11 DEF Continues

LEMMA HoldStep ==
  ASSUME Numbered, HoldInv, [Next]_vars
  PROVE  HoldInv'
  <1>1. ASSUME policy' = policy PROVE LegalHoldActive' = LegalHoldActive
    BY <1>1 DEF LegalHoldActive, LatestPolicy
  <1>2. ASSUME NEW r \in Requests, Arrives(r) PROVE HoldInv'
    <2>1. /\ policy' = policy
          /\ session'[r].phase \in {"insert", "decide", "check", "insert_policy",
                                    "update_policy", "scan"}
          /\ session'[r].held = LegalHoldActive
          /\ session'[r].phase = "scan" => ~LegalHoldActive
          /\ \A q \in Requests \ {r} : session'[q] = session[q]
      BY <1>2, ArrivalPhase DEF db
    <2>2. LegalHoldActive' = LegalHoldActive
      BY <1>1, <2>1
    <2> QED
      BY <2>1, <2>2 DEF HoldInv, Destroying, Executing
  <1>3. ASSUME NEW r \in Requests, Continues(r) PROVE HoldInv'
    <2>1. /\ policy' = policy /\ session'[r].held = session[r].held
          /\ \A q \in Requests \ {r} : session'[q] = session[q]
      BY <1>3, ContinueForm
    <2>2. LegalHoldActive' = LegalHoldActive
      BY <1>1, <2>1
    <2>3. session[r].held => session'[r].phase \in {"update", "sent", "sent_policy"}
      <3> SUFFICES ASSUME session[r].held
                   PROVE  session'[r].phase \in {"update", "sent", "sent_policy"}
        OBVIOUS
      <3>1. LegalHoldActive /\ session[r].phase \notin Destroying
        BY DEF HoldInv
      <3>2. ~WriteReport(r) /\ ~StoreEvidence(r) /\ ~StoreAttestation(r) /\ ~MarkExecuted(r)
            /\ ~Scan(r) /\ ~Unlink(r) /\ ~StorePurgeEvidence(r)
        BY <3>1 DEF WriteReport, StoreEvidence, StoreAttestation, MarkExecuted, Scan, Unlink,
                    StorePurgeEvidence, Write, Destroying, Executing
      <3> QED
        BY <1>3, <3>1, <3>2, ContinuePhase
    <2> QED
      BY <2>1, <2>2, <2>3 DEF HoldInv, Destroying, Executing
  <1>4. ASSUME NEW r \in Requests, Leaves(r) PROVE HoldInv'
    <2>1. policy' = policy /\ session' = [session EXCEPT ![r] = Idle]
      BY <1>4, LeaveForm
    <2>2. LegalHoldActive' = LegalHoldActive
      BY <1>1, <2>1
    <2>3. \A q \in Requests : session'[q] = IF q = r THEN Idle ELSE session[q]
      BY <2>1 DEF Numbered
    <2> QED
      BY <2>2, <2>3, IdleFields DEF HoldInv
  <1>5. ASSUME NEW r \in Requests, CommitPolicy(r) PROVE HoldInv'
    <2>1. /\ session'[r] = Idle
          /\ \A q \in Requests \ {r} :
               /\ session'[q].phase = session[q].phase
               /\ session'[q].held = (session[q].held /\ LegalHoldActive')
      BY <1>5, PolicyForm DEF Fields
    <2>2. ASSUME NEW q \in Requests, session'[q].held
          PROVE  /\ LegalHoldActive'
                 /\ session'[q].phase \notin Destroying /\ session'[q].phase # "idle"
      <3>1. q # r
        BY <2>1, <2>2, IdleFields
      <3>2. session[q].held /\ LegalHoldActive'
        BY <2>1, <2>2, <3>1
      <3> QED
        BY <2>1, <3>1, <3>2 DEF HoldInv
    <2> QED
      BY <2>2 DEF HoldInv
  <1>6. CASE Background
    <2>1. policy' = policy /\ session' = session
      BY <1>6, BackgroundForm DEF db
    <2> QED
      BY <1>1, <2>1 DEF HoldInv
  <1> QED
    BY <1>2, <1>3, <1>4, <1>5, <1>6, StepForms

\* Who writes a file or removes one.
LEMMA DestroysAsItself ==
  ASSUME Numbered, [Next]_vars
  PROVE  /\ \A f \in files' \ files : \E r \in Requests :
              session[r].phase \in Destroying /\ f.by = session[r].id
         /\ \A x \in removed' \ removed : \E r \in Requests :
              session[r].phase \in Destroying /\ x.by = session[r].id
  <1>1. ASSUME NEW r \in Requests, Arrives(r) PROVE UNCHANGED disk
    BY <1>1, ArrivalPhase
  <1>2. ASSUME NEW r \in Requests, Leaves(r) \/ CommitPolicy(r) PROVE UNCHANGED disk
    BY <1>2, LeaveForm DEF CommitPolicy
  <1>3. ASSUME NEW r \in Requests, Continues(r)
        PROVE  /\ \A f \in files' \ files :
                    session[r].phase \in Destroying /\ f.by = session[r].id
               /\ \A x \in removed' \ removed :
                    session[r].phase \in Destroying /\ x.by = session[r].id
    <2>1. CASE Decide(r) \/ CheckHold(r) \/ MarkExecuted(r) \/ Scan(r) \/ Send(r)
      BY <2>1 DEF Decide, CheckHold, MarkExecuted, Scan, Send, disk
    <2>2. CASE WriteReport(r) \/ StoreEvidence(r) \/ StoreAttestation(r)
      BY <2>2 DEF WriteReport, StoreEvidence, StoreAttestation, Write, Destroying, Executing
    <2>3. CASE Unlink(r)
      BY <2>3 DEF Unlink, Destroying
    <2>4. CASE StorePurgeEvidence(r)
      BY <2>4 DEF StorePurgeEvidence, Destroying
    <2> QED
      BY <1>3, <2>1, <2>2, <2>3, <2>4 DEF Continues
  <1>4. CASE Background
    BY <1>4, BackgroundForm
  <1> QED
    BY <1>1, <1>2, <1>3, <1>4, StepForms DEF disk

\* deletion.py:186, retention.py:92: a request that finds a legal hold committed
\* at its arrival writes no evidence of a deletion and removes no file while that
\* hold stands, for any number of sessions that place, lift and purge meanwhile.
THEOREM DeletionHoldStops == Spec => HoldStopsDestruction
  <1>1. ASSUME Numbered, HoldInv, [Next]_vars
        PROVE  [\A r \in Requests :
                  session[r].held =>
                      /\ \A f \in files' \ files : f.by # session[r].id
                      /\ \A x \in removed' \ removed : x.by # session[r].id]_vars
    <2> SUFFICES ASSUME NEW r \in Requests, session[r].held
                 PROVE  /\ \A f \in files' \ files : f.by # session[r].id
                        /\ \A x \in removed' \ removed : x.by # session[r].id
      OBVIOUS
    <2>1. session[r].phase \notin Destroying /\ session[r].phase # "idle"
      BY <1>1 DEF HoldInv
    <2>2. ASSUME NEW q \in Requests, session[q].phase \in Destroying
          PROVE  session[q].id # session[r].id
      BY <1>1, <2>1, <2>2 DEF Numbered, Destroying, Executing
    <2> QED
      BY <1>1, <2>2, DestroysAsItself
  <1>2. Numbered /\ HoldInv /\ [Next]_vars => HoldInv'
    BY HoldStep
  <1> QED
    BY <1>1, <1>2, InitHold, SpecNumbered, PTL DEF Spec, HoldStopsDestruction

-----------------------------------------------------------------------------
(* Duties and evidence *)

\* Approvals and files are kept, and a request keeps who filed it.
Grows ==
    /\ approvals \subseteq approvals' /\ files \subseteq files'
    /\ \A c \in DOMAIN deletion : /\ c \in DOMAIN deletion'
                                  /\ deletion'[c].requester = deletion[c].requester

LEMMA Lasting ==
  ASSUME Grows
  PROVE  /\ \A c \in DOMAIN deletion : HasApproval(c) => HasApproval(c)'
         /\ \A c : Attested(c) => Attested(c)'
  <1>1. ASSUME NEW c \in DOMAIN deletion, HasApproval(c) PROVE HasApproval(c)'
    BY <1>1 DEF Grows, HasApproval
  <1>2. ASSUME NEW c, Attested(c) PROVE Attested(c)'
    BY <1>2 DEF Grows, Attested, Bundle
  <1> QED
    BY <1>1, <1>2

\* A session that does not move keeps what it has established.
LEMMA OthersStay ==
  ASSUME NEW q \in Requests, Approving(q), Filing(q), Grows,
         \A f \in Fields \ {"held"} : session'[q][f] = session[q][f],
         session[q].phase = "insert" => session[q].row \notin DOMAIN deletion'
  PROVE  Approving(q)' /\ Filing(q)'
  <1>1. /\ session'[q].phase = session[q].phase /\ session'[q].row = session[q].row
        /\ session'[q].id = session[q].id /\ session'[q].want = session[q].want
        /\ session'[q].decision = session[q].decision /\ session'[q].actor = session[q].actor
        /\ session'[q].read = session[q].read /\ session'[q].approval = session[q].approval
    BY DEF Fields
  <1>2. Filing(q)'
    <2>1. \A kinds : Bundle(session[q].row, session[q].id, kinds) \subseteq files =>
                       Bundle(session'[q].row, session'[q].id, kinds) \subseteq files'
      BY <1>1 DEF Grows, Bundle
    <2> QED
      BY <1>1, <2>1, Lasting DEF Filing, Bundle
  <1>3. session'[q].phase = "insert" =>
          /\ session'[q].row = session'[q].id /\ session'[q].row \notin DOMAIN deletion'
          /\ DOMAIN session'[q].want = {"requester", "status", "hold"}
          /\ session'[q].want.status = "requested"
    BY <1>1 DEF Approving
  <1>4. CASE session[q].phase \in {"decide", "check", "update", "sent"} \cup Executing
    <2>1. /\ session[q].row \in DOMAIN deletion /\ session'[q].row \in DOMAIN deletion'
          /\ deletion'[session'[q].row].requester = deletion[session[q].row].requester
      BY <1>1, <1>4 DEF Approving, Grows
    <2>2. HasApproval(session[q].row) => HasApproval(session[q].row)'
      BY <1>1, <2>1 DEF HasApproval, Grows
    <2>3. Attested(session[q].row) => Attested(session[q].row)'
      BY <1>1 DEF Attested, Bundle, Grows
    <2>4. CASE session[q].phase \in {"update", "sent"}
      <3>1. /\ DOMAIN session[q].want \subseteq {"status", "hold"}
            /\ "status" \in DOMAIN session[q].want =>
                 /\ session[q].want.status = "approved" =>
                      \E a \in session[q].approval :
                         /\ a.row = session[q].row /\ a.decision = "approve"
                         /\ a.actor # deletion[session[q].row].requester
                 /\ session[q].want.status = "executed" =>
                      HasApproval(session[q].row) /\ Attested(session[q].row)
        BY <2>4 DEF Approving
      <3>2. session'[q].phase \in {"update", "sent"} /\ session'[q].phase \notin Executing
        BY <1>1, <2>4 DEF Executing
      <3> QED
        BY <1>1, <1>2, <2>1, <2>2, <2>3, <3>1, <3>2 DEF Approving
    <2>5. CASE session[q].phase \in {"decide", "check"} \cup Executing
      BY <1>1, <1>2, <2>1, <2>2, <2>3, <2>5 DEF Approving, Executing
    <2> QED
      BY <1>4, <2>4, <2>5
  <1>5. CASE session[q].phase \notin {"decide", "check", "update", "sent"} \cup Executing
    BY <1>1, <1>2, <1>3, <1>5 DEF Approving, Executing
  <1> QED
    BY <1>4, <1>5

\* A session that neither changes a deletion request nor executes one.
LEMMA NothingToShow ==
  ASSUME NEW q \in Requests,
         session'[q].phase \in {"idle", "insert_policy", "update_policy", "sent_policy",
                                "scan", "unlink", "insert_run"}
  PROVE  Approving(q)' /\ Filing(q)'
  BY DEF Approving, Filing, Executing

LEMMA CommittedStays ==
  ASSUME Committed, Grows, deletion' = deletion, requests' \in Nat,
         requests \in Nat, requests <= requests'
  PROVE  Committed'
  <1>1. DOMAIN deletion' \subseteq 1..requests'
    BY DEF Committed
  <1>2. \A c \in DOMAIN deletion : /\ HasApproval(c) => HasApproval(c)'
                                   /\ Attested(c) => Attested(c)'
    BY Lasting
  <1> QED
    BY <1>1, <1>2 DEF Committed

LEMMA DutiesArrive ==
  ASSUME Numbered, Duties, NEW r \in Requests, Arrives(r)
  PROVE  Duties'
  <1>1. UNCHANGED <<db, disk>> /\ \A q \in Requests \ {r} : session'[q] = session[q]
    BY ArrivalPhase
  <1>2. Grows /\ deletion' = deletion
    BY <1>1 DEF Grows, db, disk
  <1>3. requests' = requests + 1 /\ requests \in Nat
    <2>1. \E s : Begin(r, s)
      BY ArrivalForm
    <2> QED
      BY <2>1, DeletionAssumption DEF Begin, Numbered
  <1>4. Committed'
    BY <1>2, <1>3, CommittedStays DEF Duties
  <1>5. \A q \in Requests \ {r} : Approving(q)' /\ Filing(q)'
    <2> TAKE q \in Requests \ {r}
    <2>1. Approving(q) /\ Filing(q)
      BY DEF Duties, Sessions
    <2>2. session[q].phase = "insert" => session[q].row \notin DOMAIN deletion'
      BY <1>2, <2>1 DEF Approving
    <2> QED
      BY <1>1, <1>2, <2>1, <2>2, OthersStay
  <1>6. ASSUME NEW s, DOMAIN s = Fields, Begin(r, s)
        PROVE  /\ session'[r].id = requests + 1
               /\ \A f \in Fields \ {"id", "held"} : session'[r][f] = s[f]
    <2> DEFINE t == [s EXCEPT !.id = requests + 1, !.held = LegalHoldActive]
    <2>1. t.id = requests + 1 /\ \A f \in Fields \ {"id", "held"} : t[f] = s[f]
      BY <1>6 DEF Fields
    <2>2. session' = [session EXCEPT ![r] = t]
      BY <1>6 DEF Begin
    <2> HIDE DEF t
    <2> QED
      BY <2>1, <2>2 DEF Numbered
  <1>7. CASE SubmitDeletion(r)
    <2>1. PICK a \in Actors :
            Begin(r, [Idle EXCEPT !.phase = "insert", !.actor = a, !.row = requests + 1,
                      !.want = [requester |-> a, status |-> "requested",
                                hold |-> LegalHoldActive]])
      BY <1>7 DEF SubmitDeletion
    <2> DEFINE want == [requester |-> a, status |-> "requested", hold |-> LegalHoldActive]
               s == [Idle EXCEPT !.phase = "insert", !.actor = a, !.row = requests + 1,
                                 !.want = want]
    <2>2. DOMAIN s = Fields /\ s.phase = "insert" /\ s.row = requests + 1 /\ s.want = want
      BY DEF Idle, Fields
    <2>3. Begin(r, s)
      BY <2>1
    <2>4. DOMAIN want = {"requester", "status", "hold"} /\ want.status = "requested"
      OBVIOUS
    <2> HIDE DEF want, s
    <2>5. /\ session'[r].id = requests + 1 /\ session'[r].phase = "insert"
          /\ session'[r].row = requests + 1 /\ session'[r].want = want
      BY <1>6, <2>2, <2>3 DEF Fields
    <2>6. requests + 1 \notin DOMAIN deletion'
      BY <1>2, <1>3 DEF Duties, Committed
    <2>7. Approving(r)' /\ Filing(r)'
      BY <2>4, <2>5, <2>6 DEF Approving, Filing, Executing
    <2> QED
      BY <1>4, <1>5, <2>7 DEF Duties, Sessions
  <1>8. CASE BeginApproval(r)
    <2>1. PICK a \in Actors, c \in DOMAIN deletion, decision \in Decisions :
            /\ decision = "approve" => deletion[c].requester # a
            /\ Begin(r, [Idle EXCEPT !.phase = "decide", !.row = c, !.actor = a,
                         !.decision = decision, !.read = deletion[c]])
      BY <1>8 DEF BeginApproval
    <2> DEFINE s == [Idle EXCEPT !.phase = "decide", !.row = c, !.actor = a,
                                 !.decision = decision, !.read = deletion[c]]
    <2>2. DOMAIN s = Fields /\ s.phase = "decide" /\ s.row = c /\ s.actor = a
          /\ s.decision = decision
      BY DEF Idle, Fields
    <2>3. Begin(r, s)
      BY <2>1
    <2> HIDE DEF s
    <2>4. /\ session'[r].phase = "decide" /\ session'[r].row = c
          /\ session'[r].actor = a /\ session'[r].decision = decision
      BY <1>6, <2>2, <2>3 DEF Fields
    <2>5. Approving(r)' /\ Filing(r)'
      BY <1>2, <2>1, <2>4 DEF Approving, Filing, Executing
    <2> QED
      BY <1>4, <1>5, <2>5 DEF Duties, Sessions
  <1>9. CASE BeginExecution(r)
    <2>1. PICK c \in DOMAIN deletion :
            Begin(r, [Idle EXCEPT !.phase = "check", !.row = c, !.read = deletion[c]])
      BY <1>9 DEF BeginExecution
    <2> DEFINE s == [Idle EXCEPT !.phase = "check", !.row = c, !.read = deletion[c]]
    <2>2. DOMAIN s = Fields /\ s.phase = "check" /\ s.row = c /\ s.read = deletion[c]
      BY DEF Idle, Fields
    <2>3. Begin(r, s)
      BY <2>1
    <2> HIDE DEF s
    <2>4. session'[r].phase = "check" /\ session'[r].row = c /\ session'[r].read = deletion[c]
      BY <1>6, <2>2, <2>3 DEF Fields
    <2>5. deletion[c].status = "approved" => HasApproval(c)
      BY DEF Duties, Committed
    <2>6. HasApproval(c) => HasApproval(c)'
      BY <1>2, Lasting
    <2>7. HasApproval(c)' => HasApproval(session[r].row)'
      BY <2>4 DEF HasApproval
    <2>8. Approving(r)' /\ Filing(r)'
      BY <1>2, <2>4, <2>5, <2>6, <2>7 DEF Approving, Filing, Executing
    <2> QED
      BY <1>4, <1>5, <2>8 DEF Duties, Sessions
  <1>10. CASE ConfigurePolicy(r) \/ BeginPurge(r)
    <2>1. session'[r].phase \in {"insert_policy", "update_policy", "scan"}
      <3>1. CASE BeginPurge(r)
        <4>1. PICK dry \in BOOLEAN : Begin(r, [Idle EXCEPT !.phase = "scan", !.dry = dry])
          BY <3>1 DEF BeginPurge
        <4> DEFINE s == [Idle EXCEPT !.phase = "scan", !.dry = dry]
        <4>2. DOMAIN s = Fields /\ s.phase = "scan"
          BY DEF Idle, Fields
        <4>3. Begin(r, s)
          BY <4>1
        <4> HIDE DEF s
        <4> QED
          BY <1>6, <4>2, <4>3 DEF Fields
      <3>2. CASE ConfigurePolicy(r)
        <4>1. PICK new \in [purge : BOOLEAN, hold : BOOLEAN] :
                \/ Begin(r, [Idle EXCEPT !.phase = "insert_policy", !.row = requests + 1,
                             !.want = new])
                \/ \E x \in DOMAIN policy :
                     Begin(r, [Idle EXCEPT !.phase = "update_policy", !.row = x,
                               !.want = Changed(policy[x], new)])
          BY <3>2 DEF ConfigurePolicy
        <4> DEFINE s == [Idle EXCEPT !.phase = "insert_policy", !.row = requests + 1,
                                     !.want = new]
        <4>2. DOMAIN s = Fields /\ s.phase = "insert_policy"
          BY DEF Idle, Fields
        <4>3. \A x : /\ DOMAIN [Idle EXCEPT !.phase = "update_policy", !.row = x,
                                            !.want = Changed(policy[x], new)] = Fields
                     /\ [Idle EXCEPT !.phase = "update_policy", !.row = x,
                         !.want = Changed(policy[x], new)].phase = "update_policy"
          BY DEF Idle, Fields
        <4>4. CASE Begin(r, s)
          <5> HIDE DEF s
          <5> QED
            BY <1>6, <4>2, <4>4 DEF Fields
        <4>5. CASE \E x \in DOMAIN policy :
                     Begin(r, [Idle EXCEPT !.phase = "update_policy", !.row = x,
                               !.want = Changed(policy[x], new)])
          <5>1. PICK x \in DOMAIN policy :
                  Begin(r, [Idle EXCEPT !.phase = "update_policy", !.row = x,
                            !.want = Changed(policy[x], new)])
            BY <4>5
          <5> DEFINE u == [Idle EXCEPT !.phase = "update_policy", !.row = x,
                                       !.want = Changed(policy[x], new)]
          <5>2. DOMAIN u = Fields /\ u.phase = "update_policy" /\ Begin(r, u)
            BY <4>3, <5>1
          <5> HIDE DEF u
          <5> QED
            BY <1>6, <5>2 DEF Fields
        <4> QED
          BY <4>1, <4>4, <4>5
      <3> QED
        BY <1>10, <3>1, <3>2
    <2> QED
      BY <1>4, <1>5, <2>1, NothingToShow DEF Duties, Sessions
  <1> QED
    BY <1>7, <1>8, <1>9, <1>10 DEF Arrives

LEMMA ChangedColumns ==
  ASSUME NEW row, NEW s, NEW h
  PROVE  LET want == Changed(row, [status |-> s, hold |-> h])
         IN  /\ DOMAIN want \subseteq {"status", "hold"}
             /\ "status" \in DOMAIN want => want.status = s
  BY DEF Changed

LEMMA DutiesContinue ==
  ASSUME Numbered, Duties, NEW r \in Requests, Continues(r)
  PROVE  Duties'
  <1>1. /\ requests' = requests /\ deletion' = deletion /\ approvals' = approvals
        /\ session'[r].row = session[r].row /\ session'[r].id = session[r].id
        /\ \A q \in Requests \ {r} : session'[q] = session[q]
    BY ContinueForm
  <1>2. files \subseteq files'
    BY DEF Continues, Decide, CheckHold, WriteReport, StoreEvidence, StoreAttestation,
           MarkExecuted, Scan, Unlink, StorePurgeEvidence, Send, Write, disk
  <1>3. Grows
    BY <1>1, <1>2 DEF Grows
  <1>4. Committed'
    BY <1>1, <1>3, CommittedStays DEF Duties, Numbered
  <1>5. \A q \in Requests \ {r} : Approving(q)' /\ Filing(q)'
    <2> TAKE q \in Requests \ {r}
    <2>1. Approving(q) /\ Filing(q)
      BY DEF Duties, Sessions
    <2>2. session[q].phase = "insert" => session[q].row \notin DOMAIN deletion'
      BY <1>1, <2>1 DEF Approving
    <2> QED
      BY <1>1, <1>3, <2>1, <2>2, OthersStay
  <1>6. Approving(r) /\ Filing(r) /\ DOMAIN session = Requests /\ DOMAIN session[r] = Fields
    BY DEF Duties, Sessions, Numbered
  <1>7. /\ HasApproval(session[r].row) => HasApproval(session[r].row)'
        /\ Attested(session[r].row) => Attested(session[r].row)'
    BY <1>1, <1>2 DEF HasApproval, Attested, Bundle
  <1>8. Approving(r)' /\ Filing(r)'
    <2>1. CASE Decide(r)
      <3> DEFINE held == session[r].decision = "approve" /\ LegalHoldActive
                 status == IF held THEN "blocked"
                           ELSE IF session[r].decision = "approve" THEN "approved"
                           ELSE IF session[r].decision = "reject" THEN "rejected"
                           ELSE "deferred"
                 want == Changed(session[r].read, [status |-> status,
                                                   hold |-> held \/ session[r].read.hold])
                 approval == [row |-> session[r].row, actor |-> session[r].actor,
                              decision |-> session[r].decision]
      <3>1. /\ session[r].phase = "decide"
            /\ Goto(r, [session[r] EXCEPT !.phase = "update", !.want = want,
                                          !.approval = {approval}])
        BY <2>1 DEF Decide
      <3>2. /\ DOMAIN want \subseteq {"status", "hold"}
            /\ "status" \in DOMAIN want => want.status = status
        BY ChangedColumns
      <3>3. /\ status # "executed"
            /\ status = "approved" => session[r].decision = "approve"
        OBVIOUS
      <3>4. approval.row = session[r].row /\ approval.actor = session[r].actor
            /\ approval.decision = session[r].decision
        OBVIOUS
      <3> HIDE DEF held, status, want, approval
      <3>5. session'[r].phase = "update" /\ session'[r].want = want
            /\ session'[r].approval = {approval}
        BY <1>6, <3>1 DEF Goto, Fields
      <3>6. /\ session[r].row \in DOMAIN deletion
            /\ session[r].decision = "approve"
                 => deletion[session[r].row].requester # session[r].actor
        BY <1>6, <3>1 DEF Approving
      <3> QED
        BY <1>1, <3>2, <3>3, <3>4, <3>5, <3>6 DEF Approving, Filing, Executing
    <2>2. CASE CheckHold(r) /\ LegalHoldActive
      <3> DEFINE want == Changed(session[r].read, [status |-> "blocked", hold |-> TRUE])
      <3>1. /\ session[r].phase = "check"
            /\ Goto(r, [session[r] EXCEPT !.phase = "update", !.want = want])
        BY <2>2 DEF CheckHold
      <3>2. /\ DOMAIN want \subseteq {"status", "hold"}
            /\ "status" \in DOMAIN want => want.status = "blocked"
        BY ChangedColumns
      <3> HIDE DEF want
      <3>3. session'[r].phase = "update" /\ session'[r].want = want
        BY <1>6, <3>1 DEF Goto, Fields
      <3>4. session[r].row \in DOMAIN deletion
        BY <1>6, <3>1 DEF Approving
      <3> QED
        BY <1>1, <3>2, <3>3, <3>4 DEF Approving, Filing, Executing
    <2>3. CASE CheckHold(r) /\ ~LegalHoldActive
      <3>1. session[r].phase = "check" /\ session[r].read.status = "approved"
        BY <2>3 DEF CheckHold
      <3>2. session'[r].phase = "report"
        BY <1>6, <2>3 DEF CheckHold, Goto, Fields
      <3>3. session[r].row \in DOMAIN deletion /\ HasApproval(session[r].row)
        BY <1>6, <3>1 DEF Approving
      <3> QED
        BY <1>1, <1>7, <3>2, <3>3 DEF Approving, Filing, Executing
    <2>4. CASE WriteReport(r) \/ StoreEvidence(r) \/ StoreAttestation(r)
      <3>1. session[r].phase \in Executing /\ session'[r].phase \in Executing
        BY <1>6, <2>4 DEF WriteReport, StoreEvidence, StoreAttestation, Write, Goto, Fields,
                          Executing
      <3>2. session[r].row \in DOMAIN deletion /\ HasApproval(session[r].row)
        BY <1>6, <3>1 DEF Approving
      <3>3. Approving(r)'
        BY <1>1, <1>7, <3>1, <3>2 DEF Approving, Executing
      <3>4. CASE WriteReport(r)
        <4>1. session'[r].phase = "evidence"
          BY <1>6, <3>4 DEF WriteReport, Write, Goto, Fields
        <4>2. Bundle(session[r].row, session[r].id, {"report"}) \subseteq files'
          BY <3>4 DEF WriteReport, Write, Bundle
        <4> QED
          BY <1>1, <3>3, <4>1, <4>2 DEF Filing, Bundle
      <3>5. CASE StoreEvidence(r)
        <4>1. session[r].phase = "evidence" /\ session'[r].phase = "attest"
          BY <1>6, <3>5 DEF StoreEvidence, Write, Goto, Fields
        <4>2. Bundle(session[r].row, session[r].id, {"report", "evidence"}) \subseteq files'
          BY <1>6, <3>5, <4>1 DEF Filing, StoreEvidence, Write, Bundle
        <4> QED
          BY <1>1, <3>3, <4>1, <4>2 DEF Filing, Bundle
      <3>6. CASE StoreAttestation(r)
        <4>1. session[r].phase = "attest" /\ session'[r].phase = "executed"
          BY <1>6, <3>6 DEF StoreAttestation, Write, Goto, Fields
        <4>2. Bundle(session[r].row, session[r].id,
                     {"report", "evidence", "attestation"}) \subseteq files'
          BY <1>6, <3>6, <4>1 DEF Filing, StoreAttestation, Write, Bundle
        <4>3. session[r].id \in Ids
          BY <4>1, DeletionAssumption DEF Numbered, Ids
        <4>4. Attested(session[r].row)'
          BY <1>1, <4>2, <4>3 DEF Attested, Bundle
        <4> QED
          BY <3>3, <4>1, <4>4 DEF Filing
      <3> QED
        BY <2>4, <3>4, <3>5, <3>6
    <2>5. CASE MarkExecuted(r)
      <3> DEFINE want == Changed(session[r].read, [status |-> "executed", hold |-> FALSE])
      <3>1. /\ session[r].phase = "executed"
            /\ Goto(r, [session[r] EXCEPT !.phase = "update", !.want = want])
        BY <2>5 DEF MarkExecuted
      <3>2. /\ DOMAIN want \subseteq {"status", "hold"}
            /\ "status" \in DOMAIN want => want.status = "executed"
        BY ChangedColumns
      <3> HIDE DEF want
      <3>3. session'[r].phase = "update" /\ session'[r].want = want
        BY <1>6, <3>1 DEF Goto, Fields
      <3>4. /\ session[r].row \in DOMAIN deletion /\ HasApproval(session[r].row)
            /\ Attested(session[r].row)
        BY <1>6, <3>1 DEF Approving, Filing, Executing
      <3> QED
        BY <1>1, <1>7, <3>2, <3>3, <3>4 DEF Approving, Filing, Executing
    <2>6. CASE Scan(r) \/ Unlink(r) \/ StorePurgeEvidence(r)
      <3>1. session'[r].phase \in {"unlink", "insert_run"}
        BY <1>6, <2>6 DEF Scan, Unlink, StorePurgeEvidence, Goto, Fields
      <3> QED
        BY <3>1, NothingToShow
    <2>7. CASE Send(r)
      <3>1. \/ session[r].phase = "update" /\ session'[r] = [session[r] EXCEPT !.phase = "sent"]
            \/ session'[r] = [session[r] EXCEPT !.phase = "sent_policy"]
        BY <1>6, <2>7 DEF Send, Goto
      <3>2. CASE session[r].phase = "update"
                   /\ session'[r] = [session[r] EXCEPT !.phase = "sent"]
        <4>1. /\ session'[r].phase = "sent" /\ session'[r].want = session[r].want
              /\ session'[r].approval = session[r].approval
          BY <1>6, <3>2 DEF Fields
        <4>2. /\ session[r].row \in DOMAIN deletion
              /\ DOMAIN session[r].want \subseteq {"status", "hold"}
              /\ "status" \in DOMAIN session[r].want =>
                   /\ session[r].want.status = "approved" =>
                        \E a \in session[r].approval :
                           /\ a.row = session[r].row /\ a.decision = "approve"
                           /\ a.actor # deletion[session[r].row].requester
                   /\ session[r].want.status = "executed" =>
                        HasApproval(session[r].row) /\ Attested(session[r].row)
          BY <1>6, <3>2 DEF Approving
        <4> QED
          BY <1>1, <1>7, <4>1, <4>2 DEF Approving, Filing, Executing
      <3>3. CASE session'[r] = [session[r] EXCEPT !.phase = "sent_policy"]
        BY <1>6, <3>3, NothingToShow DEF Fields
      <3> QED
        BY <3>1, <3>2, <3>3
    <2> QED
      BY <2>1, <2>2, <2>3, <2>4, <2>5, <2>6, <2>7 DEF Continues
  <1> QED
    BY <1>4, <1>5, <1>8 DEF Duties, Sessions

\* A deletion request is filed or changed; what it shows has been established.
LEMMA DutiesCommit ==
  ASSUME Numbered, Duties, NEW r \in Requests, CommitDeletion(r)
  PROVE  Duties'
  <1> DEFINE s == session[r]
             new == IF s.phase = "insert" THEN s.want ELSE Updated(deletion[s.row], s.want)
  <1>1. /\ s.phase \in {"insert", "sent"}
        /\ deletion' = Merge(Column(s.row, new), deletion)
        /\ approvals' = approvals \cup s.approval
        /\ files' = files /\ requests' = requests
        /\ session' = [session EXCEPT ![r] = Idle]
    BY DEF CommitDeletion, Finish, disk, counters
  <1>2. DOMAIN deletion' = DOMAIN deletion \cup {s.row}
        /\ \A c \in DOMAIN deletion' : deletion'[c] = IF c = s.row THEN new ELSE deletion[c]
    BY <1>1 DEF Merge, Column
  <1>3. Approving(r) /\ Committed /\ s.id \in 1..requests
    BY <1>1 DEF Duties, Sessions, Numbered
  <1>4. \A q \in Requests : session'[q] = IF q = r THEN Idle ELSE session[q]
    BY <1>1 DEF Numbered
  <1>5. CASE s.phase = "insert"
    <2>1. /\ s.row = s.id /\ s.row \notin DOMAIN deletion
          /\ DOMAIN new = {"requester", "status", "hold"} /\ new.status = "requested"
      BY <1>3, <1>5 DEF Approving
    <2> HIDE DEF new
    <2>2. Grows
      BY <1>1, <1>2, <2>1 DEF Grows
    <2>3. Committed'
      <3>1. DOMAIN deletion' \subseteq 1..requests'
        BY <1>1, <1>2, <1>3, <2>1 DEF Committed
      <3>2. \A c \in DOMAIN deletion : /\ HasApproval(c) => HasApproval(c)'
                                       /\ Attested(c) => Attested(c)'
        BY <2>2, Lasting
      <3> QED
        BY <1>2, <1>3, <2>1, <3>1, <3>2 DEF Committed
    <2>4. ASSUME NEW q \in Requests \ {r} PROVE Approving(q)' /\ Filing(q)'
      <3>1. Approving(q) /\ Filing(q) /\ session'[q] = session[q]
        BY <1>4 DEF Duties, Sessions
      <3>2. session[q].phase = "insert" => session[q].row \notin DOMAIN deletion'
        <4>1. session[q].phase = "insert" => session[q].id # s.id
          BY <1>5 DEF Numbered
        <4> QED
          BY <1>2, <2>1, <3>1, <4>1 DEF Approving
      <3> QED
        BY <2>2, <3>1, <3>2, OthersStay
    <2> QED
      BY <1>4, <2>3, <2>4, IdleFields, NothingToShow DEF Duties, Sessions
  <1>6. CASE s.phase = "sent"
    <2>1. /\ s.row \in DOMAIN deletion /\ DOMAIN s.want \subseteq {"status", "hold"}
          /\ "status" \in DOMAIN s.want =>
               /\ s.want.status = "approved" =>
                    \E a \in s.approval : /\ a.row = s.row /\ a.decision = "approve"
                                          /\ a.actor # deletion[s.row].requester
               /\ s.want.status = "executed" => HasApproval(s.row) /\ Attested(s.row)
      BY <1>3, <1>6 DEF Approving
    <2>2. DOMAIN deletion[s.row] = {"requester", "status", "hold"}
      BY <1>3, <2>1 DEF Committed
    <2>3. /\ DOMAIN new = {"requester", "status", "hold"}
          /\ new.requester = deletion[s.row].requester
          /\ new.status = IF "status" \in DOMAIN s.want THEN s.want.status
                          ELSE deletion[s.row].status
      BY <1>6, <2>1, <2>2 DEF Updated
    <2> HIDE DEF new
    <2>4. Grows
      BY <1>1, <1>2, <2>1, <2>3 DEF Grows
    <2>5. \A c \in DOMAIN deletion : /\ HasApproval(c) => HasApproval(c)'
                                     /\ Attested(c) => Attested(c)'
      BY <2>4, Lasting
    <2>6. ASSUME NEW c \in DOMAIN deletion'
          PROVE  /\ DOMAIN deletion'[c] = {"requester", "status", "hold"}
                 /\ deletion'[c].status \in {"approved", "executed"} => HasApproval(c)'
                 /\ deletion'[c].status = "executed" => Attested(c)'
      <3>1. c \in DOMAIN deletion
        BY <1>2, <2>1
      <3>2. CASE c # s.row \/ "status" \notin DOMAIN s.want
        BY <1>2, <1>3, <2>3, <2>5, <3>1, <3>2 DEF Committed
      <3>3. CASE c = s.row /\ "status" \in DOMAIN s.want
        <4>1. deletion'[c] = new /\ new.status = s.want.status
          BY <1>2, <2>3, <3>3
        <4>2. s.want.status = "executed" => HasApproval(c)' /\ Attested(c)'
          BY <2>1, <2>5, <3>1, <3>3
        <4>3. s.want.status = "approved" => HasApproval(c)'
          BY <1>1, <2>1, <2>3, <3>3, <4>1 DEF HasApproval
        <4> QED
          BY <2>3, <4>1, <4>2, <4>3
      <3> QED
        BY <3>2, <3>3
    <2>7. Committed'
      BY <1>1, <1>2, <1>3, <2>1, <2>6 DEF Committed
    <2>8. ASSUME NEW q \in Requests \ {r} PROVE Approving(q)' /\ Filing(q)'
      <3>1. Approving(q) /\ Filing(q) /\ session'[q] = session[q]
        BY <1>4 DEF Duties, Sessions
      <3>2. session[q].phase = "insert" => session[q].row \notin DOMAIN deletion'
        BY <1>2, <2>1, <3>1 DEF Approving
      <3> QED
        BY <2>4, <3>1, <3>2, OthersStay
    <2> QED
      BY <1>4, <2>7, <2>8, IdleFields, NothingToShow DEF Duties, Sessions
  <1> QED
    BY <1>1, <1>5, <1>6

\* Steps that leave the deletion requests and the executing sessions alone.
LEMMA DutiesAside ==
  ASSUME Numbered, Duties, deletion' = deletion, approvals' = approvals, files' = files,
         requests' = requests,
         \A q \in Requests : \/ session'[q].phase = "idle"
                             \/ \A f \in Fields \ {"held"} : session'[q][f] = session[q][f]
  PROVE  Duties'
  <1>1. Grows
    BY DEF Grows
  <1>2. Committed'
    BY <1>1, CommittedStays DEF Duties, Numbered
  <1>3. ASSUME NEW q \in Requests PROVE Approving(q)' /\ Filing(q)'
    <2>1. Approving(q) /\ Filing(q)
      BY DEF Duties, Sessions
    <2>2. session[q].phase = "insert" => session[q].row \notin DOMAIN deletion'
      BY <2>1 DEF Approving
    <2>3. CASE session'[q].phase = "idle"
      BY <2>3, NothingToShow
    <2>4. CASE \A f \in Fields \ {"held"} : session'[q][f] = session[q][f]
      BY <1>1, <2>1, <2>2, <2>4, OthersStay
    <2> QED
      BY <2>3, <2>4
  <1> QED
    BY <1>2, <1>3 DEF Duties, Sessions

LEMMA DutiesStep ==
  ASSUME Numbered, Duties, [Next]_vars
  PROVE  Duties'
  <1>1. ASSUME NEW r \in Requests, Leaves(r) PROVE Duties'
    <2>1. CASE CommitDeletion(r)
      BY <2>1, DutiesCommit
    <2>2. CASE CommitPurge(r) \/ Fail(r)
      <3>1. /\ deletion' = deletion /\ approvals' = approvals /\ files' = files
            /\ requests' = requests /\ session' = [session EXCEPT ![r] = Idle]
        BY <2>2 DEF CommitPurge, Fail, RollBack, Finish, db, disk, counters
      <3>2. \A q \in Requests : session'[q] = IF q = r THEN Idle ELSE session[q]
        BY <3>1 DEF Numbered
      <3> QED
        BY <3>1, <3>2, IdleFields, DutiesAside
    <2> QED
      BY <1>1, <2>1, <2>2 DEF Leaves
  <1>2. ASSUME NEW r \in Requests, CommitPolicy(r) PROVE Duties'
    <2>1. /\ requests' = requests /\ UNCHANGED <<deletion, approvals, purges, disk, failed>>
          /\ session'[r] = Idle
          /\ \A q \in Requests \ {r} :
               \A f \in Fields \ {"held"} : session'[q][f] = session[q][f]
      BY <1>2, PolicyForm
    <2> QED
      BY <2>1, IdleFields, DutiesAside DEF disk
  <1>3. CASE Background
    BY <1>3, BackgroundForm, DutiesAside DEF db
  <1> QED
    BY <1>1, <1>2, <1>3, DutiesArrive, DutiesContinue, StepForms

LEMMA SpecDuties == Spec => []Duties
  <1>1. Init => Duties
    BY DEF Init, None, Idle, Duties, Committed, Sessions, Approving, Filing, Executing
  <1> QED
    BY <1>1, DutiesStep, SpecNumbered, PTL DEF Spec

\* deletion.py:130: a deletion is approved or executed only with a committed
\* approval of somebody who did not file it, for any number of sessions that
\* decide, decide again, execute and fail in any order.
THEOREM DeletionNeedsTwo == Spec => []SeparationOfDuties
  <1>1. Duties => SeparationOfDuties
    BY DEF Duties, Committed, HasApproval, SeparationOfDuties
  <1> QED
    BY <1>1, SpecDuties, PTL

\* deletion.py:256: a deletion shows as executed only when report, evidence
\* bundle and attestation of one execution are in the store, whatever failed.
THEOREM DeletionAttested == Spec => []ExecutedIsAttested
  <1>1. Duties => ExecutedIsAttested
    BY DEF Duties, Committed, Attested, Bundle, ExecutedIsAttested
  <1> QED
    BY <1>1, SpecDuties, PTL

-----------------------------------------------------------------------------
(* Removals *)

Evidence(i) == [kind |-> "purge", row |-> i, by |-> i]

\* A file is gone: for a purge that failed, one under way that found the file, or
\* one on record.
Accounted(x) ==
    \/ x.by \in failed
    \/ \E r \in Requests :
         /\ session[r].phase \in {"unlink", "insert_run"} /\ session[r].id = x.by
         /\ x.path \in session[r].found /\ ~session[r].dry
    \/ \E run \in purges : run.id = x.by /\ ~run.dry /\ x.path \in run.paths

\* What a purge has found, what is left of it, and its evidence.
Purging(r) ==
    /\ session[r].phase = "unlink" =>
         /\ session[r].left \subseteq session[r].found
         /\ session[r].dry => session[r].left = {}
    /\ session[r].phase = "insert_run" => Evidence(session[r].id) \in files

PurgeInv ==
    /\ \A x \in removed : Accounted(x)
    /\ \A r \in Requests : Purging(r)
    /\ \A run \in purges : Evidence(run.id) \in files

\* The purge steps of a session.
LEMMA ScanShape ==
  ASSUME Numbered, NEW r \in Requests, Scan(r)
  PROVE  /\ session[r].phase = "scan" /\ session'[r].phase = "unlink"
         /\ session'[r].left \subseteq session'[r].found
         /\ session'[r].dry => session'[r].left = {}
  <1> DEFINE found == {p \in Paths : artifact[p] = "old"}
             left == IF session[r].dry THEN {} ELSE found
  <1>1. session[r].phase = "scan"
        /\ session' = [session EXCEPT ![r] = [session[r] EXCEPT
                          !.phase = "unlink", !.found = found, !.left = left]]
    BY DEF Scan, Goto
  <1>2. DOMAIN session = Requests /\ DOMAIN session[r] = Fields
    BY DEF Numbered
  <1>3. left \subseteq found /\ (session[r].dry => left = {})
    OBVIOUS
  <1> HIDE DEF found, left
  <1>4. /\ session'[r].phase = "unlink" /\ session'[r].found = found
        /\ session'[r].left = left /\ session'[r].dry = session[r].dry
    BY <1>1, <1>2 DEF Fields
  <1> QED
    BY <1>1, <1>3, <1>4

LEMMA UnlinkShape ==
  ASSUME Numbered, NEW r \in Requests, Unlink(r)
  PROVE  /\ session[r].phase = "unlink" /\ session'[r].phase = "unlink" /\ files' = files
         /\ session'[r].found = session[r].found /\ session'[r].dry = session[r].dry
         /\ session'[r].left \subseteq session[r].left
         /\ \E p \in session[r].left :
              removed' \subseteq removed \cup {[by |-> session[r].id, path |-> p]}
  <1>1. PICK p \in session[r].left :
          /\ session[r].phase = "unlink" /\ files' = files
          /\ removed' \subseteq removed \cup {[by |-> session[r].id, path |-> p]}
          /\ session' = [session EXCEPT ![r] =
                           [session[r] EXCEPT !.left = session[r].left \ {p}]]
    BY DEF Unlink, Goto
  <1> DEFINE left == session[r].left \ {p}
  <1>2. left \subseteq session[r].left
    OBVIOUS
  <1>3. session' = [session EXCEPT ![r] = [session[r] EXCEPT !.left = left]]
    BY <1>1
  <1>4. DOMAIN session = Requests /\ DOMAIN session[r] = Fields
    BY DEF Numbered
  <1> HIDE DEF left
  <1>5. /\ session'[r].phase = session[r].phase /\ session'[r].left = left
        /\ session'[r].found = session[r].found /\ session'[r].dry = session[r].dry
    BY <1>3, <1>4 DEF Fields
  <1> QED
    BY <1>1, <1>2, <1>5

LEMMA EvidenceShape ==
  ASSUME Numbered, NEW r \in Requests, StorePurgeEvidence(r)
  PROVE  /\ session[r].phase = "unlink" /\ session'[r].phase = "insert_run"
         /\ session'[r].found = session[r].found /\ session'[r].dry = session[r].dry
         /\ files' = files \cup {Evidence(session[r].id)} /\ removed' = removed
  <1>1. /\ session[r].phase = "unlink" /\ removed' = removed
        /\ files' = files \cup {Evidence(session[r].id)}
        /\ session' = [session EXCEPT ![r] = [session[r] EXCEPT !.phase = "insert_run"]]
    BY DEF StorePurgeEvidence, Goto, Evidence
  <1> QED
    BY <1>1 DEF Numbered, Fields

\* Steps that remove nothing and move no purge.
LEMMA PurgeAside ==
  ASSUME PurgeInv, removed' = removed, files \subseteq files', failed \subseteq failed',
         \A run \in purges' : run \in purges \/ Evidence(run.id) \in files',
         purges \subseteq purges',
         \A q \in Requests :
           \/ session[q].phase \notin {"unlink", "insert_run"}
                /\ session'[q].phase \notin {"unlink", "insert_run"}
           \/ /\ session'[q].phase = session[q].phase /\ session'[q].id = session[q].id
              /\ session'[q].found = session[q].found /\ session'[q].left = session[q].left
              /\ session'[q].dry = session[q].dry
           \/ /\ session'[q].phase = "idle"
              /\ \/ session[q].id \in failed'
                 \/ \E run \in purges' : /\ run.id = session[q].id
                                         /\ run.paths = session[q].found
                                         /\ run.dry = session[q].dry
  PROVE  PurgeInv'
  <1>1. \A x \in removed' : Accounted(x)'
    <2> SUFFICES ASSUME NEW x \in removed PROVE Accounted(x)'
      OBVIOUS
    <2>1. Accounted(x)
      BY DEF PurgeInv
    <2>2. CASE x.by \in failed
      BY <2>2 DEF Accounted
    <2>3. CASE \E r \in Requests :
                 /\ session[r].phase \in {"unlink", "insert_run"} /\ session[r].id = x.by
                 /\ x.path \in session[r].found /\ ~session[r].dry
      <3>1. PICK r \in Requests :
              /\ session[r].phase \in {"unlink", "insert_run"} /\ session[r].id = x.by
              /\ x.path \in session[r].found /\ ~session[r].dry
        BY <2>3
      <3> QED
        BY <3>1 DEF Accounted
    <2>4. CASE \E run \in purges : run.id = x.by /\ ~run.dry /\ x.path \in run.paths
      BY <2>4 DEF Accounted
    <2> QED
      BY <2>1, <2>2, <2>3, <2>4 DEF Accounted
  <1>2. \A r \in Requests : Purging(r)'
    <2> TAKE r \in Requests
    <2>1. Purging(r)
      BY DEF PurgeInv
    <2> QED
      BY <2>1 DEF Purging, Evidence
  <1>3. \A run \in purges' : Evidence(run.id) \in files'
    BY DEF PurgeInv
  <1> QED
    BY <1>1, <1>2, <1>3 DEF PurgeInv, Evidence

\* A purge goes on: what it removes it has found.
LEMMA PurgeGoesOn ==
  ASSUME Numbered, PurgeInv, NEW r \in Requests, Continues(r),
         session'[r].phase \in {"unlink", "insert_run"},
         \/ session[r].phase = "scan"
         \/ /\ session'[r].found = session[r].found /\ session'[r].dry = session[r].dry,
         files \subseteq files', Purging(r)',
         \A x \in removed' : \/ x \in removed
                             \/ /\ x.by = session[r].id
                                /\ x.path \in session'[r].found /\ ~session'[r].dry
  PROVE  PurgeInv'
  <1>1. /\ purges' = purges /\ failed' = failed /\ session'[r].id = session[r].id
        /\ \A q \in Requests \ {r} : session'[q] = session[q]
    BY ContinueForm
  <1>2. ASSUME NEW x \in removed' PROVE Accounted(x)'
    <2>1. CASE x \notin removed
      BY <1>1, <2>1 DEF Accounted
    <2>2. CASE x \in removed
      <3>1. Accounted(x)
        BY <2>2 DEF PurgeInv
      <3>2. CASE x.by \in failed \/ \E run \in purges :
                   run.id = x.by /\ ~run.dry /\ x.path \in run.paths
        BY <1>1, <3>2 DEF Accounted
      <3>3. CASE \E q \in Requests :
                   /\ session[q].phase \in {"unlink", "insert_run"} /\ session[q].id = x.by
                   /\ x.path \in session[q].found /\ ~session[q].dry
        <4>1. PICK q \in Requests :
                /\ session[q].phase \in {"unlink", "insert_run"} /\ session[q].id = x.by
                /\ x.path \in session[q].found /\ ~session[q].dry
          BY <3>3
        <4>2. /\ session'[q].phase \in {"unlink", "insert_run"} /\ session'[q].id = x.by
              /\ x.path \in session'[q].found /\ ~session'[q].dry
          BY <1>1, <4>1
        <4> QED
          BY <4>2 DEF Accounted
      <3> QED
        BY <3>1, <3>2, <3>3 DEF Accounted
    <2> QED
      BY <2>1, <2>2
  <1>3. ASSUME NEW q \in Requests PROVE Purging(q)'
    <2>1. Purging(q)
      BY DEF PurgeInv
    <2> QED
      BY <1>1, <2>1 DEF Purging, Evidence
  <1>4. \A run \in purges' : Evidence(run.id) \in files'
    BY <1>1 DEF PurgeInv
  <1> QED
    BY <1>2, <1>3, <1>4 DEF PurgeInv, Evidence

LEMMA PurgeContinues ==
  ASSUME Numbered, PurgeInv, NEW r \in Requests, Continues(r)
  PROVE  PurgeInv'
  <1>1. Purging(r)
    BY DEF PurgeInv
  <1>2. CASE Scan(r)
    <2>1. /\ session[r].phase = "scan" /\ session'[r].phase = "unlink"
          /\ session'[r].left \subseteq session'[r].found
          /\ session'[r].dry => session'[r].left = {}
      BY <1>2, ScanShape
    <2>2. removed' = removed /\ files' = files
      BY <1>2 DEF Scan, disk
    <2>3. Purging(r)'
      BY <2>1 DEF Purging
    <2> QED
      BY <2>1, <2>2, <2>3, PurgeGoesOn
  <1>3. CASE Unlink(r)
    <2>1. /\ session[r].phase = "unlink" /\ session'[r].phase = "unlink" /\ files' = files
          /\ session'[r].found = session[r].found /\ session'[r].dry = session[r].dry
          /\ session'[r].left \subseteq session[r].left
      BY <1>3, UnlinkShape
    <2>2. PICK p \in session[r].left :
            removed' \subseteq removed \cup {[by |-> session[r].id, path |-> p]}
      BY <1>3, UnlinkShape
    <2>3. p \in session[r].found /\ ~session[r].dry
      BY <1>1, <2>1 DEF Purging
    <2>4. Purging(r)'
      BY <1>1, <2>1 DEF Purging
    <2> QED
      BY <2>1, <2>2, <2>3, <2>4, PurgeGoesOn
  <1>4. CASE StorePurgeEvidence(r)
    <2>1. /\ session[r].phase = "unlink" /\ session'[r].phase = "insert_run"
          /\ session'[r].found = session[r].found /\ session'[r].dry = session[r].dry
          /\ files' = files \cup {Evidence(session[r].id)} /\ removed' = removed
      BY <1>4, EvidenceShape
    <2>2. session'[r].id = session[r].id
      BY ContinueForm
    <2>3. Purging(r)'
      BY <2>1, <2>2 DEF Purging, Evidence
    <2> QED
      BY <2>1, <2>3, PurgeGoesOn
  <1>5. CASE ~Scan(r) /\ ~Unlink(r) /\ ~StorePurgeEvidence(r)
    <2>1. /\ purges' = purges /\ failed' = failed
          /\ \A q \in Requests \ {r} : session'[q] = session[q]
      BY ContinueForm
    <2>2. removed' = removed /\ files \subseteq files'
      BY <1>5 DEF Continues, Decide, CheckHold, WriteReport, StoreEvidence, StoreAttestation,
                  MarkExecuted, Send, Write, disk
    <2>3. session'[r].phase \notin {"unlink", "insert_run"}
      BY <1>5, ContinuePhase
    <2>4. session[r].phase \notin {"unlink", "insert_run"}
      BY <1>5 DEF Continues, Decide, CheckHold, WriteReport, StoreEvidence, StoreAttestation,
                  MarkExecuted, Send, Write
    <2> QED
      BY <2>1, <2>2, <2>3, <2>4, PurgeAside
  <1> QED
    BY <1>2, <1>3, <1>4, <1>5

LEMMA PurgeLeaves ==
  ASSUME Numbered, PurgeInv, NEW r \in Requests, Leaves(r)
  PROVE  PurgeInv'
  <1>1. /\ removed' = removed /\ files' = files
        /\ session' = [session EXCEPT ![r] = Idle]
    BY LeaveForm DEF disk
  <1>2. \A q \in Requests : session'[q] = IF q = r THEN Idle ELSE session[q]
    BY <1>1 DEF Numbered
  <1>3. session'[r].phase = "idle"
    BY <1>2, IdleFields
  <1>4. CASE CommitDeletion(r)
    <2>1. /\ session[r].phase \in {"insert", "sent"} /\ purges' = purges /\ failed' = failed
      BY <1>4 DEF CommitDeletion, Finish
    <2> QED
      BY <1>1, <1>2, <1>3, <2>1, PurgeAside
  <1>5. CASE CommitPurge(r)
    <2> DEFINE row == [id |-> session[r].id, paths |-> session[r].found,
                       dry |-> session[r].dry]
    <2>1. /\ session[r].phase = "insert_run" /\ failed' = failed
          /\ purges' = purges \cup {row}
      BY <1>5 DEF CommitPurge, Finish
    <2>2. row.id = session[r].id /\ row.paths = session[r].found /\ row.dry = session[r].dry
      OBVIOUS
    <2> HIDE DEF row
    <2>3. Evidence(row.id) \in files
      BY <2>1, <2>2 DEF PurgeInv, Purging
    <2>4. \A run \in purges' : run \in purges \/ Evidence(run.id) \in files'
      BY <1>1, <2>1, <2>3
    <2>5. \E run \in purges' : /\ run.id = session[r].id /\ run.paths = session[r].found
                               /\ run.dry = session[r].dry
      BY <2>1, <2>2
    <2> QED
      BY <1>1, <1>2, <1>3, <2>1, <2>4, <2>5, PurgeAside
  <1>6. CASE Fail(r)
    <2>1. purges' = purges /\ failed' = failed \cup {session[r].id}
      BY <1>6 DEF Fail, RollBack, db
    <2> QED
      BY <1>1, <1>2, <1>3, <2>1, PurgeAside
  <1> QED
    BY <1>4, <1>5, <1>6 DEF Leaves

LEMMA PurgeStep ==
  ASSUME Numbered, PurgeInv, [Next]_vars
  PROVE  PurgeInv'
  <1>1. ASSUME NEW r \in Requests, Arrives(r) PROVE PurgeInv'
    <2>1. /\ UNCHANGED <<db, disk, failed>>
          /\ session'[r].phase \notin {"unlink", "insert_run"}
          /\ \A q \in Requests \ {r} : session'[q] = session[q]
      BY <1>1, ArrivalPhase
    <2>2. session[r].phase = "idle"
      BY <1>1, ArrivalForm DEF Begin
    <2> QED
      BY <2>1, <2>2, PurgeAside DEF db, disk
  <1>2. ASSUME NEW r \in Requests, CommitPolicy(r) PROVE PurgeInv'
    <2>1. /\ UNCHANGED <<deletion, approvals, purges, disk, failed>>
          /\ session[r].phase \in {"insert_policy", "sent_policy"} /\ session'[r] = Idle
          /\ \A q \in Requests \ {r} :
               /\ session'[q].phase = session[q].phase /\ session'[q].id = session[q].id
               /\ session'[q].found = session[q].found /\ session'[q].left = session[q].left
               /\ session'[q].dry = session[q].dry
      BY <1>2, PolicyForm DEF Fields
    <2> QED
      BY <2>1, IdleFields, PurgeAside DEF disk
  <1>3. CASE Background
    BY <1>3, BackgroundForm, PurgeAside DEF db
  <1> QED
    BY <1>1, <1>2, <1>3, PurgeContinues, PurgeLeaves, StepForms

\* retention.py:104: a file that a purge removed is named by a purge row that is
\* no dry run and has its evidence, or its purge is still under way or failed, for
\* any number of purges over the same files.
THEOREM DeletionRemovals == Spec => []RemovalsAccountedFor
  <1>1. Init => PurgeInv
    BY DEF Init, Idle, PurgeInv, Purging
  <1>2. PurgeInv /\ Numbered /\ [Next]_vars => PurgeInv'
    BY PurgeStep
  <1>3. PurgeInv => RemovalsAccountedFor
    BY DEF PurgeInv, Accounted, Evidence, RemovalsAccountedFor
  <1> QED
    BY <1>1, <1>2, <1>3, SpecNumbered, PTL DEF Spec

-----------------------------------------------------------------------------
(* Types *)

DeletionRow == [requester : Actors, status : Statuses, hold : BOOLEAN]
PolicyRow == [purge : BOOLEAN, hold : BOOLEAN]

\* Columns of an UPDATE of a row of this type.
StatusColumns(want) ==
    /\ DOMAIN want \subseteq {"status", "hold"}
    /\ "status" \in DOMAIN want => want.status \in Statuses
    /\ "hold" \in DOMAIN want => want.hold \in BOOLEAN

PolicyColumns(want) ==
    /\ DOMAIN want \subseteq {"purge", "hold"}
    /\ \A x \in DOMAIN want : want[x] \in BOOLEAN

\* What a session carries from one of its steps to the next; rows are the ids of
\* committed deletion requests, policies those of committed policies.
SessionTyped(s, rows, policies) ==
    /\ s.phase = "insert" => s.row \in Ids /\ s.want \in DeletionRow /\ s.approval = {}
    /\ s.phase \in {"decide", "check"} \cup Executing => s.row \in rows /\ s.read \in DeletionRow
    /\ s.phase = "decide" => s.actor \in Actors /\ s.decision \in Decisions
    /\ s.phase \in {"check"} \cup Executing => s.approval = {}
    /\ s.phase \in {"update", "sent"} =>
         /\ s.row \in rows /\ StatusColumns(s.want)
         /\ s.approval \subseteq [row : {s.row}, actor : Actors, decision : Decisions]
    /\ s.phase = "insert_policy" => s.row \in Ids /\ s.want \in PolicyRow
    /\ s.phase \in {"update_policy", "sent_policy"} =>
         s.row \in policies /\ PolicyColumns(s.want)
    /\ s.phase \in {"scan", "unlink", "insert_run"} => s.dry \in BOOLEAN
    /\ s.phase \in {"unlink", "insert_run"} => s.found \subseteq Paths /\ s.left \subseteq s.found

SessionsTyped == \A r \in Requests : SessionTyped(session[r], DOMAIN deletion, DOMAIN policy)

TypeInv == TypeOK /\ DOMAIN policy \subseteq Ids /\ SessionsTyped

\* A nonempty set of numbers up to n has a greatest: the numbers above one of them
\* are fewest for it.
LEMMA Greatest ==
  ASSUME NEW n \in Nat, NEW T, T \subseteq 0..n, T # {}
  PROVE  \E x \in T : \A y \in T : y <= x
  <1> DEFINE Above(x) == {z \in T : x <= z}
  <1> DEFINE D == {Above(x) : x \in T}
  <1>1. D \subseteq FiniteSubsetsOf(T) /\ D # {}
    <2>1. IsFiniteSet(0..n)
      BY FS_Interval
    <2>2. \A U \in SUBSET T : IsFiniteSet(U)
      BY <2>1, FS_Subset
    <2> QED BY <2>2 DEF FiniteSubsetsOf
  <1>2. PICK U \in D : \A V \in D : <<V, U>> \notin StrictSubsetOrdering(T)
    <2> HIDE DEF D
    <2> QED BY <1>1, FS_StrictSubsetOrderingWellFounded, WFMin
  <1>3. PICK x \in T : U = Above(x)
    BY <1>2
  <1>4. ASSUME NEW y \in T, x < y PROVE FALSE
    <2>1. x \in Nat /\ \A z \in T : z \in Nat
      OBVIOUS
    <2>2. ~(y <= x) /\ x <= x /\ \A z \in T : y <= z => x <= z
      BY <1>4, <2>1
    <2>3. Above(y) \subseteq Above(x) /\ x \in Above(x) /\ x \notin Above(y)
      BY <1>3, <2>2
    <2>4. <<Above(y), Above(x)>> \in StrictSubsetOrdering(T)
      BY <2>3 DEF StrictSubsetOrdering
    <2> QED BY <1>2, <1>3, <2>4
  <1> QED BY <1>3, <1>4

LEMMA HoldTyped ==
  ASSUME TypeInv
  PROVE  LegalHoldActive \in BOOLEAN
  <1>1. CASE DOMAIN policy = {}
    BY <1>1 DEF LegalHoldActive, LatestPolicy
  <1>2. CASE DOMAIN policy # {}
    <2>1. \E x \in DOMAIN policy : \A y \in DOMAIN policy : y <= x
      BY <1>2, DeletionAssumption, Greatest DEF TypeInv, Ids
    <2>2. PICK x \in DOMAIN policy : LatestPolicy(policy) = policy[x]
      BY <1>2, <2>1 DEF LatestPolicy
    <2> QED
      BY <2>2 DEF LegalHoldActive, TypeInv, TypeOK
  <1> QED
    BY <1>1, <1>2

\* Rows are only added.
LEMMA RowsAdded ==
  ASSUME NEW s, NEW rows, NEW policies, SessionTyped(s, rows, policies),
         NEW rows2, NEW policies2, rows \subseteq rows2, policies \subseteq policies2
  PROVE  SessionTyped(s, rows2, policies2)
  BY DEF SessionTyped

\* The number of a session and what is remembered of holds are no matter here.
Alike(s, t) ==
    /\ t.phase = s.phase /\ t.row = s.row /\ t.want = s.want /\ t.approval = s.approval
    /\ t.decision = s.decision /\ t.actor = s.actor /\ t.read = s.read
    /\ t.found = s.found /\ t.left = s.left /\ t.dry = s.dry

LEMMA AlikeTyped ==
  ASSUME NEW s, NEW t, Alike(s, t), NEW rows, NEW policies, SessionTyped(s, rows, policies)
  PROVE  SessionTyped(t, rows, policies)
  BY DEF SessionTyped, Alike

LEMMA IdleTyped == \A rows, policies : SessionTyped(Idle, rows, policies)
  BY DEF SessionTyped, Idle, Executing

\* UPDATEs write columns of the row's type, and leave a row of that type.
LEMMA ChangedStatus ==
  ASSUME NEW row, NEW s \in Statuses, NEW h \in BOOLEAN
  PROVE  StatusColumns(Changed(row, [status |-> s, hold |-> h]))
  BY DEF StatusColumns, Changed

LEMMA ChangedPolicy ==
  ASSUME NEW row, NEW new \in PolicyRow
  PROVE  PolicyColumns(Changed(row, new))
  <1>1. DOMAIN new = {"purge", "hold"} /\ new.purge \in BOOLEAN /\ new.hold \in BOOLEAN
    BY DEF PolicyRow
  <1>2. \A x \in DOMAIN new : new[x] \in BOOLEAN
    BY <1>1
  <1> QED
    BY <1>1, <1>2 DEF PolicyColumns, Changed

LEMMA UpdatedTyped ==
  /\ \A row \in DeletionRow : \A want : StatusColumns(want) => Updated(row, want) \in DeletionRow
  /\ \A row \in PolicyRow : \A want : PolicyColumns(want) => Updated(row, want) \in PolicyRow
  <1>1. ASSUME NEW row \in DeletionRow, NEW want, StatusColumns(want)
        PROVE  Updated(row, want) \in DeletionRow
    <2> DEFINE u == Updated(row, want)
    <2>1. u = [requester |-> u.requester, status |-> u.status, hold |-> u.hold]
      BY DEF Updated, DeletionRow
    <2>2. u.requester \in Actors /\ u.status \in Statuses /\ u.hold \in BOOLEAN
      BY <1>1 DEF Updated, DeletionRow, StatusColumns
    <2> HIDE DEF u
    <2> QED
      BY <2>1, <2>2 DEF DeletionRow, u
  <1>2. ASSUME NEW row \in PolicyRow, NEW want, PolicyColumns(want)
        PROVE  Updated(row, want) \in PolicyRow
    <2> DEFINE u == Updated(row, want)
    <2>1. u = [purge |-> u.purge, hold |-> u.hold]
      BY DEF Updated, PolicyRow
    <2>2. u.purge \in BOOLEAN /\ u.hold \in BOOLEAN
      BY <1>2 DEF Updated, PolicyRow, PolicyColumns
    <2> HIDE DEF u
    <2> QED
      BY <2>1, <2>2 DEF PolicyRow, u
  <1> QED
    BY <1>1, <1>2

\* A request that arrives.
LEMMA BegunAs ==
  ASSUME Numbered, NEW r \in Requests, NEW s, DOMAIN s = Fields, Begin(r, s)
  PROVE  /\ Alike(s, session'[r]) /\ \A q \in Requests \ {r} : session'[q] = session[q]
         /\ requests \in Nat /\ requests + 1 \in Ids /\ UNCHANGED <<db, disk, writes>>
  <1> DEFINE t == [s EXCEPT !.id = requests + 1, !.held = LegalHoldActive]
  <1>1. Alike(s, t)
    BY DEF Alike, Fields
  <1>2. session' = [session EXCEPT ![r] = t] /\ requests < MaxRequests
    BY DEF Begin
  <1> HIDE DEF t
  <1>3. session'[r] = t /\ \A q \in Requests \ {r} : session'[q] = session[q]
    BY <1>2 DEF Numbered
  <1>4. requests \in Nat /\ requests + 1 \in Ids
    BY <1>2, DeletionAssumption DEF Numbered, Ids
  <1> QED
    BY <1>1, <1>3, <1>4 DEF Begin

LEMMA ArrivesTyped ==
  ASSUME Numbered, TypeInv, NEW r \in Requests, Arrives(r)
  PROVE  /\ SessionTyped(session'[r], DOMAIN deletion, DOMAIN policy)
         /\ \A q \in Requests \ {r} : session'[q] = session[q]
         /\ UNCHANGED <<db, disk, writes>>
  <1> DEFINE Good(s) == SessionTyped(s, DOMAIN deletion, DOMAIN policy)
  <1>1. SUFFICES ASSUME NEW s, DOMAIN s = Fields, Begin(r, s),
                        requests + 1 \in Ids => Good(s)
                 PROVE  /\ Good(session'[r])
                        /\ \A q \in Requests \ {r} : session'[q] = session[q]
                        /\ UNCHANGED <<db, disk, writes>>
    <2> HIDE DEF Good
    <2> SUFFICES \E s : DOMAIN s = Fields /\ Begin(r, s) /\ (requests + 1 \in Ids => Good(s))
      BY DEF Good
    <2>1. CASE SubmitDeletion(r)
      <3>1. PICK a \in Actors :
              Begin(r, [Idle EXCEPT !.phase = "insert", !.actor = a, !.row = requests + 1,
                        !.want = [requester |-> a, status |-> "requested",
                                  hold |-> LegalHoldActive]])
        BY <2>1 DEF SubmitDeletion
      <3> DEFINE want == [requester |-> a, status |-> "requested", hold |-> LegalHoldActive]
                 s == [Idle EXCEPT !.phase = "insert", !.actor = a, !.row = requests + 1,
                                   !.want = want]
      <3>2. want \in DeletionRow
        BY HoldTyped DEF DeletionRow, Statuses
      <3> HIDE DEF want
      <3>3. /\ DOMAIN s = Fields /\ s.phase = "insert" /\ s.row = requests + 1
            /\ s.want = want /\ s.approval = {}
        BY DEF Idle, Fields
      <3>4. Begin(r, s)
        BY <3>1 DEF want
      <3> HIDE DEF s
      <3>5. requests + 1 \in Ids => Good(s)
        BY <3>2, <3>3 DEF Good, SessionTyped, Executing
      <3> QED
        BY <3>3, <3>4, <3>5
    <2>2. CASE BeginApproval(r) \/ BeginExecution(r)
      <3>1. PICK c \in DOMAIN deletion :
              \/ \E a \in Actors, decision \in Decisions :
                   Begin(r, [Idle EXCEPT !.phase = "decide", !.row = c, !.actor = a,
                             !.decision = decision, !.read = deletion[c]])
              \/ Begin(r, [Idle EXCEPT !.phase = "check", !.row = c, !.read = deletion[c]])
        BY <2>2 DEF BeginApproval, BeginExecution
      <3>2. deletion[c] \in DeletionRow
        BY DEF TypeInv, TypeOK, DeletionRow
      <3>3. ASSUME NEW a \in Actors, NEW decision \in Decisions, NEW s,
                   s = [Idle EXCEPT !.phase = "decide", !.row = c, !.actor = a,
                                    !.decision = decision, !.read = deletion[c]]
            PROVE  DOMAIN s = Fields /\ Good(s)
        <4>1. /\ DOMAIN s = Fields /\ s.phase = "decide" /\ s.row = c /\ s.actor = a
              /\ s.decision = decision /\ s.read = deletion[c]
          BY <3>3 DEF Idle, Fields
        <4> QED
          BY <3>2, <4>1 DEF Good, SessionTyped, Executing
      <3>4. ASSUME NEW s,
                   s = [Idle EXCEPT !.phase = "check", !.row = c, !.read = deletion[c]]
            PROVE  DOMAIN s = Fields /\ Good(s)
        <4>1. /\ DOMAIN s = Fields /\ s.phase = "check" /\ s.row = c
              /\ s.read = deletion[c] /\ s.approval = {}
          BY <3>4 DEF Idle, Fields
        <4> QED
          BY <3>2, <4>1 DEF Good, SessionTyped, Executing
      <3> QED
        BY <3>1, <3>3, <3>4
    <2>3. CASE ConfigurePolicy(r)
      <3>1. PICK new \in PolicyRow :
              \/ Begin(r, [Idle EXCEPT !.phase = "insert_policy", !.row = requests + 1,
                           !.want = new])
              \/ \E x \in DOMAIN policy :
                   Begin(r, [Idle EXCEPT !.phase = "update_policy", !.row = x,
                             !.want = Changed(policy[x], new)])
        BY <2>3 DEF ConfigurePolicy, PolicyRow
      <3>2. ASSUME NEW s, s = [Idle EXCEPT !.phase = "insert_policy", !.row = requests + 1,
                                           !.want = new]
            PROVE  DOMAIN s = Fields /\ (requests + 1 \in Ids => Good(s))
        <4>1. /\ DOMAIN s = Fields /\ s.phase = "insert_policy" /\ s.row = requests + 1
              /\ s.want = new
          BY <3>2 DEF Idle, Fields
        <4> QED
          BY <4>1 DEF Good, SessionTyped, Executing
      <3>3. ASSUME NEW x \in DOMAIN policy, NEW want, PolicyColumns(want), NEW s,
                   s = [Idle EXCEPT !.phase = "update_policy", !.row = x, !.want = want]
            PROVE  DOMAIN s = Fields /\ Good(s)
        <4>1. DOMAIN s = Fields /\ s.phase = "update_policy" /\ s.row = x /\ s.want = want
          BY <3>3 DEF Idle, Fields
        <4> QED
          BY <3>3, <4>1 DEF Good, SessionTyped, Executing
      <3>4. \A x \in DOMAIN policy : PolicyColumns(Changed(policy[x], new))
        <4> TAKE x \in DOMAIN policy
        <4> QED
          BY ChangedPolicy
      <3> QED
        BY <3>1, <3>2, <3>3, <3>4
    <2>4. CASE BeginPurge(r)
      <3>1. PICK dry \in BOOLEAN : Begin(r, [Idle EXCEPT !.phase = "scan", !.dry = dry])
        BY <2>4 DEF BeginPurge
      <3> DEFINE s == [Idle EXCEPT !.phase = "scan", !.dry = dry]
      <3>2. DOMAIN s = Fields /\ s.phase = "scan" /\ s.dry = dry
        BY DEF Idle, Fields
      <3>3. Good(s)
        <4> HIDE DEF s
        <4> QED
          BY <3>2 DEF Good, SessionTyped, Executing
      <3> QED
        BY <3>1, <3>2, <3>3
    <2> QED
      BY <2>1, <2>2, <2>3, <2>4 DEF Arrives
  <1> QED
    BY <1>1, BegunAs, AlikeTyped

\* A session that goes on.
LEMMA ContinuesTyped ==
  ASSUME Numbered, TypeInv, NEW r \in Requests, Continues(r)
  PROVE  SessionTyped(session'[r], DOMAIN deletion, DOMAIN policy)
  <1> DEFINE old == session[r]
             new == session'[r]
  <1>1. /\ DOMAIN session = Requests /\ DOMAIN old = Fields
        /\ SessionTyped(old, DOMAIN deletion, DOMAIN policy)
    BY DEF Numbered, TypeInv, SessionsTyped
  <1>2. CASE Decide(r)
    <2> DEFINE held == old.decision = "approve" /\ LegalHoldActive
               status == IF held THEN "blocked"
                         ELSE IF old.decision = "approve" THEN "approved"
                         ELSE IF old.decision = "reject" THEN "rejected" ELSE "deferred"
               want == Changed(old.read, [status |-> status, hold |-> held \/ old.read.hold])
               approval == {[row |-> old.row, actor |-> old.actor, decision |-> old.decision]}
    <2>1. /\ old.phase = "decide"
          /\ Goto(r, [old EXCEPT !.phase = "update", !.want = want, !.approval = approval])
      BY <1>2 DEF Decide
    <2>2. /\ old.row \in DOMAIN deletion /\ old.read \in DeletionRow
          /\ old.actor \in Actors /\ old.decision \in Decisions
      BY <1>1, <2>1 DEF SessionTyped
    <2>3. StatusColumns(want)
      <3>1. status \in Statuses
        BY DEF Statuses
      <3>2. (held \/ old.read.hold) \in BOOLEAN
        OBVIOUS
      <3> HIDE DEF status, held
      <3> QED
        BY <3>1, <3>2, ChangedStatus
    <2>4. approval \subseteq [row : {old.row}, actor : Actors, decision : Decisions]
      BY <2>2
    <2> HIDE DEF held, status, want, approval
    <2>5. /\ new.phase = "update" /\ new.want = want /\ new.approval = approval
          /\ new.row = old.row
      BY <1>1, <2>1 DEF Goto, Fields
    <2> HIDE DEF old, new
    <2> QED
      BY <2>2, <2>3, <2>4, <2>5 DEF SessionTyped, Executing, new
  <1>3. CASE (CheckHold(r) /\ LegalHoldActive) \/ MarkExecuted(r)
    <2> DEFINE Want(status, hold) == Changed(old.read, [status |-> status, hold |-> hold])
    <2>1. /\ old.phase \in {"check", "executed"}
          /\ \E status \in {"blocked", "executed"}, hold \in BOOLEAN :
               Goto(r, [old EXCEPT !.phase = "update", !.want = Want(status, hold)])
      BY <1>3 DEF CheckHold, MarkExecuted
    <2>2. old.row \in DOMAIN deletion /\ old.approval = {}
      BY <1>1, <2>1 DEF SessionTyped, Executing
    <2>3. \A status \in {"blocked", "executed"}, hold \in BOOLEAN :
            StatusColumns(Want(status, hold))
      <3> TAKE status \in {"blocked", "executed"}, hold \in BOOLEAN
      <3>1. status \in Statuses
        BY DEF Statuses
      <3> QED
        BY <3>1, ChangedStatus
    <2> HIDE DEF Want
    <2>4. PICK want : /\ StatusColumns(want)
                      /\ Goto(r, [old EXCEPT !.phase = "update", !.want = want])
      BY <2>1, <2>3
    <2>5. /\ new.phase = "update" /\ new.want = want /\ new.approval = {}
          /\ new.row = old.row
      BY <1>1, <2>2, <2>4 DEF Goto, Fields
    <2> HIDE DEF old, new
    <2> QED
      BY <2>2, <2>4, <2>5 DEF SessionTyped, Executing, new
  <1>4. CASE \/ CheckHold(r) /\ ~LegalHoldActive
             \/ WriteReport(r) \/ StoreEvidence(r) \/ StoreAttestation(r)
    <2>1. /\ old.phase \in {"check"} \cup Executing
          /\ \E phase \in Executing : Goto(r, [old EXCEPT !.phase = phase])
      BY <1>4 DEF CheckHold, WriteReport, StoreEvidence, StoreAttestation, Write, Executing
    <2>2. PICK phase \in Executing : Goto(r, [old EXCEPT !.phase = phase])
      BY <2>1
    <2>3. /\ new.phase = phase /\ new.row = old.row /\ new.read = old.read
          /\ new.approval = old.approval
      BY <1>1, <2>2 DEF Goto, Fields
    <2>4. old.row \in DOMAIN deletion /\ old.read \in DeletionRow /\ old.approval = {}
      BY <1>1, <2>1 DEF SessionTyped
    <2> HIDE DEF old, new
    <2> QED
      BY <2>3, <2>4 DEF SessionTyped, Executing, new
  <1>5. CASE Scan(r)
    <2> DEFINE found == {p \in Paths : artifact[p] = "old"}
               left == IF old.dry THEN {} ELSE found
    <2>1. /\ old.phase = "scan"
          /\ Goto(r, [old EXCEPT !.phase = "unlink", !.found = found, !.left = left])
      BY <1>5 DEF Scan
    <2>2. found \subseteq Paths /\ left \subseteq found
      OBVIOUS
    <2> HIDE DEF found, left
    <2>3. new.phase = "unlink" /\ new.found = found /\ new.left = left /\ new.dry = old.dry
      BY <1>1, <2>1 DEF Goto, Fields
    <2>4. old.dry \in BOOLEAN
      BY <1>1, <2>1 DEF SessionTyped
    <2> HIDE DEF old, new
    <2> QED
      BY <2>2, <2>3, <2>4 DEF SessionTyped, Executing, new
  <1>6. CASE Unlink(r) \/ StorePurgeEvidence(r)
    <2>1. /\ old.phase = "unlink"
          /\ \/ \E p : Goto(r, [old EXCEPT !.left = old.left \ {p}])
             \/ Goto(r, [old EXCEPT !.phase = "insert_run"])
      BY <1>6 DEF Unlink, StorePurgeEvidence
    <2>2. /\ new.phase \in {"unlink", "insert_run"} /\ new.found = old.found
          /\ new.left \subseteq old.left /\ new.dry = old.dry
      BY <1>1, <2>1 DEF Goto, Fields
    <2>3. old.dry \in BOOLEAN /\ old.found \subseteq Paths /\ old.left \subseteq old.found
      BY <1>1, <2>1 DEF SessionTyped
    <2> HIDE DEF old, new
    <2> QED
      BY <2>2, <2>3 DEF SessionTyped, Executing, new
  <1>7. CASE Send(r)
    <2>1. \/ old.phase = "update" /\ Goto(r, [old EXCEPT !.phase = "sent"])
          \/ old.phase = "update_policy" /\ Goto(r, [old EXCEPT !.phase = "sent_policy"])
      BY <1>7 DEF Send
    <2>2. /\ \/ old.phase = "update" /\ new.phase = "sent"
             \/ old.phase = "update_policy" /\ new.phase = "sent_policy"
          /\ new.row = old.row /\ new.want = old.want /\ new.approval = old.approval
      BY <1>1, <2>1 DEF Goto, Fields
    <2> HIDE DEF old, new
    <2> QED
      BY <1>1, <2>2 DEF SessionTyped, Executing, new
  <1> QED
    BY <1>2, <1>3, <1>4, <1>5, <1>6, <1>7 DEF Continues

\* What sessions and workers leave on disk, and on the row of a purge.
DiskTyped ==
    /\ files \subseteq [kind : {"report", "evidence", "attestation", "purge"},
                        row : Ids, by : Ids]
    /\ artifact \in [Paths -> Ages]
    /\ removed \subseteq [by : Ids, path : Paths]
    /\ writes \in 0..MaxWrites

RowsTyped ==
    /\ DOMAIN deletion \subseteq Ids
    /\ \A c \in DOMAIN deletion : deletion[c] \in DeletionRow
    /\ approvals \subseteq [row : DOMAIN deletion, actor : Actors, decision : Decisions]
    /\ DOMAIN policy \subseteq Ids
    /\ \A x \in DOMAIN policy : policy[x] \in PolicyRow
    /\ purges \subseteq [id : Ids, paths : SUBSET Paths, dry : BOOLEAN]

LEMMA TypeParts ==
  /\ TypeInv <=> RowsTyped /\ DiskTyped /\ SessionsTyped /\ requests \in 0..MaxRequests
  /\ TypeInv' <=> RowsTyped' /\ DiskTyped' /\ SessionsTyped' /\ requests' \in 0..MaxRequests
  BY DEF TypeInv, TypeOK, RowsTyped, DiskTyped, DeletionRow, PolicyRow

LEMMA SessionIds ==
  ASSUME Numbered, NEW r \in Requests, session[r].phase # "idle"
  PROVE  session[r].id \in Ids
  BY DeletionAssumption DEF Numbered, Ids

LEMMA DiskStep ==
  ASSUME Numbered, TypeInv, [Next]_vars
  PROVE  DiskTyped'
  <1>1. DiskTyped /\ \A r \in Requests : SessionTyped(session[r], DOMAIN deletion, DOMAIN policy)
    BY TypeParts DEF SessionsTyped
  <1>2. CASE UNCHANGED <<disk, writes>>
    BY <1>1, <1>2 DEF DiskTyped, disk
  <1>3. ASSUME NEW r \in Requests, WriteReport(r) \/ StoreEvidence(r) \/ StoreAttestation(r)
        PROVE  DiskTyped'
    <2>1. PICK kind \in {"report", "evidence", "attestation"} :
            files' = files \cup {[kind |-> kind, row |-> session[r].row, by |-> session[r].id]}
      BY <1>3 DEF WriteReport, StoreEvidence, StoreAttestation, Write
    <2>2. session[r].phase \in Executing /\ UNCHANGED <<artifact, removed, writes>>
      BY <1>3 DEF WriteReport, StoreEvidence, StoreAttestation, Write, Executing, Goto, counters
    <2>3. session[r].row \in Ids /\ session[r].id \in Ids
      BY <1>1, <2>2, SessionIds, TypeParts DEF SessionTyped, Executing, RowsTyped
    <2> QED
      BY <1>1, <2>1, <2>2, <2>3 DEF DiskTyped
  <1>4. ASSUME NEW r \in Requests, Unlink(r) PROVE DiskTyped'
    <2>1. PICK p \in session[r].left :
            /\ artifact' = [artifact EXCEPT ![p] = "absent"]
            /\ removed' = IF artifact[p] = "absent" THEN removed
                          ELSE removed \cup {[by |-> session[r].id, path |-> p]}
      BY <1>4 DEF Unlink
    <2>2. session[r].phase = "unlink" /\ UNCHANGED <<files, writes>>
      BY <1>4 DEF Unlink, Goto, counters
    <2>3. p \in Paths /\ session[r].id \in Ids
      BY <1>1, <2>2, SessionIds DEF SessionTyped
    <2> QED
      BY <1>1, <2>1, <2>2, <2>3 DEF DiskTyped, Ages
  <1>5. ASSUME NEW r \in Requests, StorePurgeEvidence(r) PROVE DiskTyped'
    <2>1. /\ session[r].phase = "unlink"
          /\ files' = files \cup {[kind |-> "purge", row |-> session[r].id,
                                   by |-> session[r].id]}
          /\ UNCHANGED <<artifact, removed, writes>>
      BY <1>5 DEF StorePurgeEvidence, Goto, counters
    <2>2. session[r].id \in Ids
      BY <2>1, SessionIds
    <2> QED
      BY <1>1, <2>1, <2>2 DEF DiskTyped
  <1>6. CASE WriteArtifact \/ Age
    <2>1. UNCHANGED <<files, removed>>
      BY <1>6 DEF WriteArtifact, Age
    <2>2. PICK p \in Paths, age \in Ages : artifact' = [artifact EXCEPT ![p] = age]
      BY <1>6 DEF WriteArtifact, Age, Ages
    <2>3. writes' \in 0..MaxWrites
      BY <1>1, <1>6, DeletionAssumption DEF WriteArtifact, Age, DiskTyped, counters
    <2> QED
      BY <1>1, <2>1, <2>2, <2>3 DEF DiskTyped
  <1>7. ASSUME NEW r \in Requests, Arrives(r) PROVE DiskTyped'
    BY <1>2, <1>7, ArrivesTyped
  <1>8. ASSUME NEW r \in Requests, \/ Decide(r) \/ CheckHold(r) \/ MarkExecuted(r) \/ Scan(r)
                                   \/ Send(r) \/ Leaves(r) \/ CommitPolicy(r)
        PROVE  DiskTyped'
    <2>1. UNCHANGED <<disk, writes>>
      BY <1>8 DEF Decide, CheckHold, MarkExecuted, Scan, Send, Goto, Leaves, CommitDeletion,
         CommitPurge, CommitPolicy, Fail, Finish, RollBack, counters
    <2> QED
      BY <1>2, <2>1
  <1>9. CASE UNCHANGED vars
    BY <1>2, <1>9 DEF vars, counters
  <1> QED
    BY <1>3, <1>4, <1>5, <1>6, <1>7, <1>8, <1>9, StepForms DEF Continues, Background

\* Sessions that end and that stay, when rows are added.
LEMMA OthersTyped ==
  ASSUME TypeInv, DOMAIN deletion \subseteq DOMAIN deletion',
         DOMAIN policy \subseteq DOMAIN policy',
         \A q \in Requests : session'[q] = Idle \/ Alike(session[q], session'[q])
  PROVE  SessionsTyped'
  <1> SUFFICES ASSUME NEW q \in Requests
               PROVE  SessionTyped(session'[q], DOMAIN deletion', DOMAIN policy')
    BY DEF SessionsTyped
  <1>1. SessionTyped(session[q], DOMAIN deletion, DOMAIN policy)
    BY DEF TypeInv, SessionsTyped
  <1>2. SessionTyped(session'[q], DOMAIN deletion, DOMAIN policy)
    BY <1>1, IdleTyped, AlikeTyped
  <1> QED
    BY <1>2, RowsAdded

LEMMA CommitDeletionTyped ==
  ASSUME Numbered, TypeInv, NEW r \in Requests, CommitDeletion(r)
  PROVE  RowsTyped' /\ SessionsTyped'
  <1> DEFINE s == session[r]
             new == IF s.phase = "insert" THEN s.want ELSE Updated(deletion[s.row], s.want)
  <1>1. /\ s.phase \in {"insert", "sent"} /\ UNCHANGED <<policy, purges>>
        /\ deletion' = Merge(Column(s.row, new), deletion)
        /\ approvals' = approvals \cup s.approval
        /\ \A q \in Requests : session'[q] = IF q = r THEN Idle ELSE session[q]
    BY DEF CommitDeletion, Finish, Numbered
  <1>2. DOMAIN deletion' = DOMAIN deletion \cup {s.row}
        /\ \A c \in DOMAIN deletion' : deletion'[c] = IF c = s.row THEN new ELSE deletion[c]
    BY <1>1 DEF Merge, Column
  <1>3. RowsTyped /\ SessionTyped(s, DOMAIN deletion, DOMAIN policy)
    BY TypeParts DEF SessionsTyped
  <1>4. /\ s.row \in Ids /\ new \in DeletionRow
        /\ s.approval \subseteq [row : {s.row}, actor : Actors, decision : Decisions]
    <2>1. CASE s.phase = "insert"
      <3>1. s.row \in Ids /\ s.want \in DeletionRow /\ s.approval = {}
        BY <1>3, <2>1 DEF SessionTyped
      <3> QED
        BY <2>1, <3>1
    <2>2. CASE s.phase = "sent"
      <3>1. /\ s.row \in DOMAIN deletion /\ StatusColumns(s.want)
            /\ s.approval \subseteq [row : {s.row}, actor : Actors, decision : Decisions]
        BY <1>3, <2>2 DEF SessionTyped
      <3>2. Updated(deletion[s.row], s.want) \in DeletionRow
        BY <1>3, <3>1, UpdatedTyped DEF RowsTyped
      <3> QED
        BY <1>3, <2>2, <3>1, <3>2 DEF RowsTyped
    <2> QED
      BY <1>1, <2>1, <2>2
  <1> HIDE DEF new, s
  <1>5. approvals' \subseteq [row : DOMAIN deletion', actor : Actors, decision : Decisions]
    BY <1>1, <1>2, <1>3, <1>4 DEF RowsTyped
  <1>6. RowsTyped'
    BY <1>1, <1>2, <1>3, <1>4, <1>5 DEF RowsTyped
  <1>7. SessionsTyped'
    BY <1>1, <1>2, OthersTyped DEF Alike
  <1> QED
    BY <1>6, <1>7

LEMMA CommitPolicyTyped ==
  ASSUME Numbered, TypeInv, NEW r \in Requests, CommitPolicy(r)
  PROVE  RowsTyped' /\ SessionsTyped'
  <1> DEFINE s == session[r]
             new == IF s.phase = "insert_policy" THEN s.want ELSE Updated(policy[s.row], s.want)
  <1>1. /\ s.phase \in {"insert_policy", "sent_policy"}
        /\ policy' = Merge(Column(s.row, new), policy)
    BY DEF CommitPolicy
  <1>2. DOMAIN policy' = DOMAIN policy \cup {s.row}
        /\ \A x \in DOMAIN policy' : policy'[x] = IF x = s.row THEN new ELSE policy[x]
    BY <1>1 DEF Merge, Column
  <1>3. RowsTyped /\ SessionTyped(s, DOMAIN deletion, DOMAIN policy)
    BY TypeParts DEF SessionsTyped
  <1>4. s.row \in Ids /\ new \in PolicyRow
    <2>1. CASE s.phase = "insert_policy"
      <3>1. s.row \in Ids /\ s.want \in PolicyRow
        BY <1>3, <2>1 DEF SessionTyped
      <3> QED
        BY <2>1, <3>1
    <2>2. CASE s.phase = "sent_policy"
      <3>1. s.row \in DOMAIN policy /\ PolicyColumns(s.want)
        BY <1>3, <2>2 DEF SessionTyped
      <3>2. Updated(policy[s.row], s.want) \in PolicyRow
        BY <1>3, <3>1, UpdatedTyped DEF RowsTyped
      <3> QED
        BY <1>3, <2>2, <3>1, <3>2 DEF RowsTyped
    <2> QED
      BY <1>1, <2>1, <2>2
  <1> HIDE DEF new, s
  <1>5. /\ UNCHANGED <<deletion, approvals, purges>> /\ session'[r] = Idle
        /\ \A q \in Requests \ {r} :
             \A f \in Fields \ {"held"} : session'[q][f] = session[q][f]
    BY PolicyForm
  <1>6. RowsTyped'
    BY <1>2, <1>3, <1>4, <1>5 DEF RowsTyped
  <1>7. \A q \in Requests \ {r} : Alike(session[q], session'[q])
    BY <1>5 DEF Alike, Fields
  <1>8. SessionsTyped'
    BY <1>2, <1>5, <1>7, OthersTyped
  <1> QED
    BY <1>6, <1>8

LEMMA TypeStep ==
  ASSUME Numbered, TypeInv, [Next]_vars
  PROVE  TypeInv'
  <1>1. DiskTyped'
    BY DiskStep
  <1>2. requests' \in 0..MaxRequests
    BY NumberedStep DEF Numbered
  <1>3. RowsTyped /\ SessionsTyped
    BY TypeParts
  <1>4. ASSUME NEW r \in Requests, Arrives(r) PROVE RowsTyped' /\ SessionsTyped'
    <2>1. /\ SessionTyped(session'[r], DOMAIN deletion, DOMAIN policy)
          /\ \A q \in Requests \ {r} : session'[q] = session[q]
          /\ UNCHANGED db
      BY <1>4, ArrivesTyped
    <2>2. RowsTyped' /\ \A q \in Requests :
                          SessionTyped(session'[q], DOMAIN deletion, DOMAIN policy)
      BY <1>3, <2>1 DEF RowsTyped, SessionsTyped, db
    <2> QED
      BY <2>1, <2>2 DEF SessionsTyped, db
  <1>5. ASSUME NEW r \in Requests, Continues(r) PROVE RowsTyped' /\ SessionsTyped'
    <2>1. /\ SessionTyped(session'[r], DOMAIN deletion, DOMAIN policy)
          /\ \A q \in Requests \ {r} : session'[q] = session[q]
          /\ UNCHANGED <<deletion, approvals, policy, purges>>
      BY <1>5, ContinuesTyped, ContinueForm
    <2>2. RowsTyped' /\ \A q \in Requests :
                          SessionTyped(session'[q], DOMAIN deletion, DOMAIN policy)
      BY <1>3, <2>1 DEF RowsTyped, SessionsTyped
    <2> QED
      BY <2>1, <2>2 DEF SessionsTyped
  <1>6. ASSUME NEW r \in Requests, CommitPurge(r) \/ Fail(r)
        PROVE  RowsTyped' /\ SessionsTyped'
    <2>1. /\ UNCHANGED <<deletion, approvals, policy>>
          /\ \A q \in Requests : session'[q] = IF q = r THEN Idle ELSE session[q]
      BY <1>6 DEF CommitPurge, Fail, RollBack, Finish, db, Numbered
    <2>2. purges' \subseteq [id : Ids, paths : SUBSET Paths, dry : BOOLEAN]
      <3>1. CASE Fail(r)
        BY <1>3, <3>1 DEF Fail, RollBack, db, RowsTyped
      <3>2. CASE CommitPurge(r)
        <4>1. /\ session[r].phase = "insert_run"
              /\ purges' = purges \cup {[id |-> session[r].id, paths |-> session[r].found,
                                         dry |-> session[r].dry]}
          BY <3>2 DEF CommitPurge
        <4>2. /\ session[r].found \subseteq Paths /\ session[r].dry \in BOOLEAN
              /\ session[r].id \in Ids
          BY <1>3, <4>1, SessionIds DEF SessionsTyped, SessionTyped
        <4> QED
          BY <1>3, <4>1, <4>2 DEF RowsTyped
      <3> QED
        BY <1>6, <3>1, <3>2
    <2>3. RowsTyped'
      BY <1>3, <2>1, <2>2 DEF RowsTyped
    <2> QED
      BY <2>1, <2>3, OthersTyped DEF Alike
  <1>7. ASSUME Background PROVE RowsTyped' /\ SessionsTyped'
    <2>1. UNCHANGED <<db, session>>
      BY <1>7, BackgroundForm
    <2> QED
      BY <1>3, <2>1 DEF RowsTyped, SessionsTyped, db
  <1>8. RowsTyped' /\ SessionsTyped'
    BY <1>4, <1>5, <1>6, <1>7, CommitDeletionTyped, CommitPolicyTyped, StepForms DEF Leaves
  <1> QED
    BY <1>1, <1>2, <1>8, TypeParts

\* Every committed row, file and removal has its type, and an approval is of a
\* committed request, whichever sessions overlap, update the same row or fail.
THEOREM DeletionTyped == Spec => []TypeOK
  <1>1. Init => TypeInv
    <2> SUFFICES ASSUME Init PROVE TypeInv
      OBVIOUS
    <2>1. 0 \in 0..MaxRequests /\ 0 \in 0..MaxWrites
      BY DeletionAssumption
    <2>2. RowsTyped
      BY DEF Init, RowsTyped, None
    <2>3. DiskTyped
      BY <2>1 DEF Init, DiskTyped, Ages
    <2>4. SessionsTyped
      BY IdleTyped DEF Init, SessionsTyped
    <2> QED
      BY <2>1, <2>2, <2>3, <2>4, TypeParts DEF Init
  <1>2. TypeInv => TypeOK
    BY DEF TypeInv
  <1> QED
    BY SpecNumbered, TypeStep, <1>1, <1>2, PTL DEF Spec
=============================================================================
