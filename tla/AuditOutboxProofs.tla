------------------------- MODULE AuditOutboxProofs -------------------------
(***************************************************************************)
(* Proofs about AuditOutbox: however many dispatches overlap, fail or die, *)
(* the marks on outbox rows are truthful.                                  *)
(***************************************************************************)
EXTENDS AuditOutbox, TLAPS

\* What dispatcher d knows of event e: it has selected e, or emitted it, and
\* then it will write one more than the count it has read.
Knows(d, e) ==
    /\ read[d][e] <= tries[e]
    /\ mark[d][e] # "none" => read[d][e] + 1 <= tries[e]
    /\ mark[d][e] = "sent" => e \in accepted
    /\ e \in batch[d] \/ mark[d][e] # "none" =>
          status[e] # "absent" /\ read[d][e] < MaxAttempts

\* Stale counts are never more than the emissions there have been.
SessionsTruthful ==
    /\ \A e \in Events : attempts[e] <= tries[e]
    /\ \A d \in Dispatchers, e \in Events : Knows(d, e)
    /\ \A d \in Dispatchers : pc[d] = "idle" => \A e \in Events : mark[d][e] = "none"

IInv == TypeOK /\ MarksTruthful /\ SessionsTruthful

\* A session that has ended knows nothing that could be wrong.
ClosedSession(d) ==
    /\ batch[d] = {}
    /\ read[d] = [e \in Events |-> 0]
    /\ mark[d] = [e \in Events |-> "none"]

-----------------------------------------------------------------------------
\* The invariant holds at the start: nothing is committed, nothing is known.
LEMMA InitInvariant == Init => IInv
  BY AuditOutboxAssumption
  DEF Init, IInv, TypeOK, MarksTruthful, SessionsTruthful, Knows

\* Counting an emission.
LEMMA TriedCounts ==
  ASSUME tries \in [Events -> 0..MaxAttempts], NEW e \in Events
  PROVE  /\ Tried(e) \in [Events -> 0..MaxAttempts]
         /\ \A x \in Events : tries[x] \in Nat /\ Tried(e)[x] \in Nat /\ Tried(e)[x] >= tries[x]
         /\ \A n \in Nat : n <= tries[e] /\ n < MaxAttempts => n + 1 <= Tried(e)[e]
  BY AuditOutboxAssumption DEF Tried

\* What a dispatcher knows stays true while it does nothing and others commit,
\* emit or select.
LEMMA KnowledgeKept ==
  ASSUME IInv, NEW d \in Dispatchers, NEW e \in Events,
         batch'[d] = batch[d], read'[d] = read[d], mark'[d] = mark[d],
         tries' \in [Events -> 0..MaxAttempts], tries'[e] >= tries[e],
         accepted \subseteq accepted',
         status[e] # "absent" => status'[e] # "absent"
  PROVE  Knows(d, e)'
  <1>1. Knows(d, e)
    BY DEF IInv, SessionsTruthful
  <1>2. /\ read[d][e] \in Nat /\ tries[e] \in Nat /\ tries'[e] \in Nat
    BY AuditOutboxAssumption DEF IInv, TypeOK
  <1> QED
    BY <1>1, <1>2 DEF Knows

\* A session that ends leaves nothing behind.
LEMMA ClosedKnows ==
  ASSUME IInv, NEW d \in Dispatchers, NEW e \in Events, ClosedSession(d)',
         tries' \in [Events -> 0..MaxAttempts]
  PROVE  Knows(d, e)'
  BY DEF ClosedSession, Knows

\* Ending a session keeps the types of the sessions, and the other sessions.
LEMMA EndSessionTyped ==
  ASSUME IInv, NEW d \in Dispatchers, EndSession(d)
  PROVE  /\ pc' \in [Dispatchers -> {"idle", "emit"}]
         /\ batch' \in [Dispatchers -> SUBSET Events]
         /\ read' \in [Dispatchers -> [Events -> 0..MaxAttempts]]
         /\ mark' \in [Dispatchers -> [Events -> {"none", "sent", "retry"}]]
         /\ ClosedSession(d)'
         /\ \A x \in Dispatchers : x # d =>
               batch'[x] = batch[x] /\ read'[x] = read[x] /\ mark'[x] = mark[x]
  BY AuditOutboxAssumption DEF IInv, TypeOK, EndSession, ClosedSession

-----------------------------------------------------------------------------
(* One lemma per kind of step *)

LEMMA CommitEventPreserves ==
  ASSUME IInv, NEW e \in Events, CommitEvent(e)
  PROVE  IInv'
  <1>1. TypeOK' /\ MarksTruthful'
    BY DEF CommitEvent, IInv, TypeOK, MarksTruthful, sessionVars, sink
  <1>2. ASSUME NEW d \in Dispatchers, NEW x \in Events PROVE Knows(d, x)'
    <2>2. /\ UNCHANGED <<batch, read, mark, tries, accepted>>
          /\ status[x] # "absent" => status'[x] # "absent"
      BY DEF CommitEvent, IInv, TypeOK, sessionVars, sink
    <2>3. tries' \in [Events -> 0..MaxAttempts] /\ tries'[x] >= tries[x]
      BY <2>2 DEF IInv, TypeOK
    <2> QED
      BY <2>2, <2>3, KnowledgeKept
  <1>3. /\ \A x \in Events : attempts'[x] <= tries'[x]
        /\ \A d \in Dispatchers : pc'[d] = "idle" => \A x \in Events : mark'[d][x] = "none"
    BY DEF CommitEvent, IInv, SessionsTruthful, sessionVars, sink
  <1> QED
    BY <1>1, <1>2, <1>3 DEF IInv, SessionsTruthful

\* A dispatcher selects: the counts it reads are committed ones.
LEMMA BeginPreserves ==
  ASSUME IInv, NEW d \in Dispatchers, BeginDispatch(d)
  PROVE  IInv'
  <1>1. FirstBatch(Eligible) \subseteq Eligible
    BY DEF FirstBatch
  <1>2. UNCHANGED <<status, attempts, mark, tries, accepted>>
    BY DEF BeginDispatch, rows, sink
  <1>3. \A e \in Eligible : e \in Events /\ status[e] = "pending" /\ attempts[e] < MaxAttempts
    BY DEF Eligible
  <1>4. TypeOK'
    BY <1>1, <1>2, <1>3, AuditOutboxAssumption DEF BeginDispatch, IInv, TypeOK
  <1>5. MarksTruthful'
    BY <1>2 DEF IInv, MarksTruthful
  <1>6. ASSUME NEW x \in Dispatchers, NEW e \in Events PROVE Knows(x, e)'
    <2>1. CASE x # d
      <3>1. batch'[x] = batch[x] /\ read'[x] = read[x] /\ mark'[x] = mark[x]
        BY <2>1, <1>2 DEF BeginDispatch, IInv, TypeOK
      <3>2. tries' \in [Events -> 0..MaxAttempts] /\ tries'[e] >= tries[e]
        BY <1>2 DEF IInv, TypeOK
      <3> QED
        BY <1>2, <3>1, <3>2, KnowledgeKept
    <2>2. CASE x = d
      <3>1. batch'[d] = FirstBatch(Eligible)
        BY DEF BeginDispatch, IInv, TypeOK
      <3>2. read'[d][e] = IF e \in FirstBatch(Eligible) THEN attempts[e] ELSE 0
        BY DEF BeginDispatch, IInv, TypeOK
      <3>3. /\ attempts[e] <= tries[e] /\ attempts[e] \in Nat /\ tries[e] \in Nat
            /\ 0 < MaxAttempts
        BY AuditOutboxAssumption DEF IInv, TypeOK, SessionsTruthful
      <3>4. mark'[d][e] = "none" /\ tries' = tries /\ status' = status
        BY <1>2 DEF BeginDispatch, IInv, SessionsTruthful
      <3>5. read'[d][e] <= tries'[e]
        BY <3>2, <3>3, <3>4
      <3>6. e \in batch'[d] => status'[e] # "absent" /\ read'[d][e] < MaxAttempts
        BY <1>1, <1>3, <3>1, <3>2, <3>4
      <3> QED
        BY <2>2, <3>4, <3>5, <3>6 DEF Knows
    <2> QED
      BY <2>1, <2>2
  <1>7. \A x \in Dispatchers : pc'[x] = "idle" => \A e \in Events : mark'[x][e] = "none"
    BY <1>2 DEF BeginDispatch, IInv, TypeOK, SessionsTruthful
  <1> QED
    BY <1>2, <1>4, <1>5, <1>6, <1>7 DEF IInv, SessionsTruthful

\* An emission: whatever the sink does, it is one more try of the event.
LEMMA EmitPreserves ==
  ASSUME IInv, NEW d \in Dispatchers, NEW e \in Events, NEW outcome \in {"sent", "retry"},
         Emit(d, e, outcome), accepted' \in {accepted, accepted \cup {e}},
         outcome = "sent" => accepted' = accepted \cup {e}
  PROVE  IInv'
  <1>1. /\ UNCHANGED <<status, attempts, pc, read>>
        /\ pc[d] = "emit" /\ e \in batch[d]
        /\ tries' = Tried(e)
        /\ batch' = [batch EXCEPT ![d] = @ \ {e}]
        /\ mark' = [mark EXCEPT ![d][e] = outcome]
    BY DEF Emit, rows
  <1>2. TypeOK'
    BY <1>1, TriedCounts DEF IInv, TypeOK
  <1>3. \A x \in Events : tries[x] \in Nat /\ tries'[x] \in Nat /\ tries'[x] >= tries[x]
    BY <1>1, TriedCounts DEF IInv, TypeOK
  <1>4. accepted \subseteq accepted' /\ accepted' \subseteq accepted \cup {e}
    OBVIOUS
  <1>5. Knows(d, e) /\ status[e] # "absent" /\ read[d][e] < MaxAttempts
    BY <1>1 DEF IInv, SessionsTruthful, Knows
  <1>6. MarksTruthful'
    <2>1. \A x \in Events : status'[x] = "sent" => x \in accepted'
      BY <1>1, <1>4 DEF IInv, MarksTruthful
    <2>2. \A x \in Events : status'[x] = "failed" => tries'[x] >= MaxAttempts
      BY <1>1, <1>3, AuditOutboxAssumption DEF IInv, MarksTruthful
    <2>3. \A x \in accepted' : status'[x] # "absent"
      BY <1>1, <1>4, <1>5 DEF IInv, MarksTruthful
    <2> QED
      BY <2>1, <2>2, <2>3 DEF MarksTruthful
  <1>7. ASSUME NEW x \in Dispatchers, NEW y \in Events PROVE Knows(x, y)'
    <2>1. Knows(x, y) /\ read[x][y] \in Nat
      BY AuditOutboxAssumption DEF IInv, SessionsTruthful, TypeOK
    <2>2. CASE x = d /\ y = e
      <3>1. mark'[d][e] = outcome
        BY <1>1 DEF IInv, TypeOK
      <3>2. read[d][e] + 1 <= tries'[e] /\ read[d][e] <= tries'[e]
        <4>1. read[d][e] + 1 <= tries'[e]
          BY <1>1, <1>5, <2>1, <2>2, TriedCounts DEF Knows, IInv, TypeOK
        <4> QED
          BY <1>3, <2>1, <2>2, <4>1
      <3>3. outcome = "sent" => e \in accepted'
        OBVIOUS
      <3> QED
        BY <1>1, <1>5, <2>2, <3>1, <3>2, <3>3 DEF Knows
    <2>3. CASE ~(x = d /\ y = e)
      <3>1. mark'[x][y] = mark[x][y] /\ (y \in batch'[x] => y \in batch[x])
        BY <1>1, <2>3 DEF IInv, TypeOK
      <3> QED
        BY <1>1, <1>3, <1>4, <2>1, <3>1 DEF Knows
    <2> QED
      BY <2>2, <2>3
  <1>8. \A x \in Events : attempts'[x] <= tries'[x]
    BY <1>1, <1>3, AuditOutboxAssumption DEF IInv, TypeOK, SessionsTruthful
  <1>9. \A x \in Dispatchers : pc'[x] = "idle" => \A y \in Events : mark'[x][y] = "none"
    BY <1>1 DEF IInv, TypeOK, SessionsTruthful
  <1> QED
    BY <1>2, <1>6, <1>7, <1>8, <1>9 DEF IInv, SessionsTruthful

\* The commit of a batch: the marks of d reach the rows, and d forgets them.
LEMMA CommitPreserves ==
  ASSUME IInv, NEW d \in Dispatchers, CommitMarks(d)
  PROVE  IInv'
  <1>1. EndSession(d) /\ UNCHANGED <<tries, accepted>>
    BY DEF CommitMarks, sink
  <1>2. ASSUME NEW e \in Events
        PROVE  /\ attempts'[e] = IF mark[d][e] = "none" THEN attempts[e] ELSE read[d][e] + 1
               /\ status'[e] = CASE mark[d][e] = "sent" -> "sent"
                                 [] mark[d][e] = "retry" /\ GivenUp(read[d][e] + 1) -> "failed"
                                 [] OTHER -> status[e]
    BY DEF CommitMarks
  <1>3. ASSUME NEW e \in Events
        PROVE  /\ attempts'[e] \in 0..MaxAttempts /\ attempts'[e] <= tries'[e]
               /\ status[e] # "absent" => status'[e] # "absent"
               /\ status'[e] = "sent" => e \in accepted
               /\ status'[e] = "failed" => tries[e] >= MaxAttempts
               /\ status'[e] \in {"absent", "pending", "sent", "failed"}
    <2>1. /\ read[d][e] \in Nat /\ tries[e] \in Nat /\ attempts[e] \in 0..MaxAttempts
          /\ mark[d][e] \in {"none", "sent", "retry"} /\ attempts[e] <= tries[e]
          /\ status[e] \in {"absent", "pending", "sent", "failed"}
      BY AuditOutboxAssumption DEF IInv, TypeOK, SessionsTruthful
    <2>2. /\ mark[d][e] # "none" => read[d][e] + 1 <= tries[e] /\ read[d][e] < MaxAttempts
          /\ mark[d][e] = "sent" => e \in accepted
      BY DEF IInv, SessionsTruthful, Knows
    <2>3. /\ status[e] = "sent" => e \in accepted
          /\ status[e] = "failed" => tries[e] >= MaxAttempts
      BY DEF IInv, MarksTruthful
    <2>4. CASE mark[d][e] = "none"
      <3>1. attempts'[e] = attempts[e] /\ status'[e] = status[e]
        BY <1>2, <2>4
      <3> QED
        BY <1>1, <2>1, <2>3, <3>1
    <2>5. CASE mark[d][e] = "sent"
      <3>1. attempts'[e] = read[d][e] + 1 /\ status'[e] = "sent"
        BY <1>2, <2>5
      <3> QED
        BY <1>1, <2>1, <2>2, <2>5, <3>1, AuditOutboxAssumption
    <2>6. CASE mark[d][e] = "retry"
      <3>1. /\ attempts'[e] = read[d][e] + 1
            /\ \/ status'[e] = "failed" /\ read[d][e] + 1 >= MaxAttempts
               \/ status'[e] = status[e]
        BY <1>2, <2>6 DEF GivenUp
      <3>2. status'[e] = "failed" => tries[e] >= MaxAttempts
        BY <2>1, <2>2, <2>3, <2>6, <3>1, AuditOutboxAssumption
      <3>3. attempts'[e] \in 0..MaxAttempts /\ attempts'[e] <= tries'[e]
        BY <1>1, <2>1, <2>2, <2>6, <3>1, AuditOutboxAssumption
      <3> QED
        BY <2>1, <2>3, <3>1, <3>2, <3>3
    <2> QED
      BY <2>1, <2>4, <2>5, <2>6
  <1>4. /\ attempts' = [e \in Events |-> attempts'[e]]
        /\ status' = [e \in Events |-> status'[e]]
    BY DEF CommitMarks
  <1>5. TypeOK'
    <2>1. attempts' \in [Events -> 0..MaxAttempts]
      BY <1>3, <1>4
    <2>2. status' \in [Events -> {"absent", "pending", "sent", "failed"}]
      BY <1>3, <1>4
    <2> QED
      BY <1>1, <2>1, <2>2, EndSessionTyped DEF IInv, TypeOK
  <1>6. MarksTruthful'
    <2>1. \A e \in accepted : e \in Events /\ status[e] # "absent"
      BY DEF IInv, TypeOK, MarksTruthful
    <2>2. \A e \in accepted : status'[e] # "absent"
      BY <1>3, <2>1
    <2>3. accepted' = accepted /\ tries' = tries
      BY <1>1
    <2> QED
      BY <1>3, <2>2, <2>3 DEF MarksTruthful
  <1>7. ASSUME NEW x \in Dispatchers, NEW e \in Events PROVE Knows(x, e)'
    <2>1. tries' \in [Events -> 0..MaxAttempts] /\ tries'[e] >= tries[e]
      BY <1>1 DEF IInv, TypeOK
    <2>2. CASE x = d
      BY <1>1, <2>1, <2>2, EndSessionTyped, ClosedKnows
    <2>3. CASE x # d
      BY <1>1, <1>3, <2>1, <2>3, EndSessionTyped, KnowledgeKept
    <2> QED
      BY <2>2, <2>3
  <1>8. \A x \in Dispatchers : pc'[x] = "idle" => \A e \in Events : mark'[x][e] = "none"
    BY <1>1, EndSessionTyped DEF EndSession, ClosedSession, IInv, TypeOK, SessionsTruthful
  <1> QED
    BY <1>3, <1>5, <1>6, <1>7, <1>8 DEF IInv, SessionsTruthful

\* A dispatch that fails has emitted at most one event it does not tell of.
LEMMA FailurePreserves ==
  ASSUME IInv, NEW d \in Dispatchers, DispatchFails(d)
  PROVE  IInv'
  <1>1. EndSession(d) /\ UNCHANGED <<status, attempts>>
    BY DEF DispatchFails, rows
  <1>2. \/ UNCHANGED <<tries, accepted>>
        \/ \E e \in batch[d] : /\ tries' = Tried(e)
                               /\ accepted' \in {accepted, accepted \cup {e}}
    BY DEF DispatchFails, sink
  <1>3. ASSUME NEW e \in batch[d] PROVE e \in Events /\ status[e] # "absent"
    BY DEF IInv, TypeOK, SessionsTruthful, Knows
  <1>4. /\ tries' \in [Events -> 0..MaxAttempts]
        /\ \A e \in Events : tries[e] \in Nat /\ tries'[e] >= tries[e]
        /\ accepted \subseteq accepted'
        /\ \A e \in accepted' : e \in Events /\ (e \in accepted \/ status[e] # "absent")
    <2>1. tries \in [Events -> 0..MaxAttempts] /\ accepted \subseteq Events
      BY DEF IInv, TypeOK
    <2>2. CASE UNCHANGED <<tries, accepted>>
      BY <2>1, <2>2
    <2>3. ASSUME NEW e \in batch[d], tries' = Tried(e)
          PROVE  tries' \in [Events -> 0..MaxAttempts] /\ \A x \in Events : tries'[x] >= tries[x]
      BY <1>3, <2>1, <2>3, TriedCounts
    <2>4. ASSUME NEW e \in batch[d], accepted' \in {accepted, accepted \cup {e}}
          PROVE  /\ accepted \subseteq accepted'
                 /\ \A x \in accepted' : x \in Events /\ (x \in accepted \/ status[x] # "absent")
      BY <1>3, <2>1, <2>4
    <2>5. \A x \in Events : tries[x] \in Nat /\ tries[x] >= tries[x]
      BY <2>1, AuditOutboxAssumption
    <2>6. \A x \in accepted : x \in Events
      BY <2>1
    <2> QED
      BY <1>2, <2>1, <2>2, <2>3, <2>4, <2>5, <2>6
  <1>5. TypeOK'
    BY <1>1, <1>4, EndSessionTyped DEF IInv, TypeOK
  <1>6. MarksTruthful'
    <2>1. \A e \in Events : status'[e] = "failed" => tries'[e] >= MaxAttempts
      BY <1>1, <1>4, AuditOutboxAssumption DEF IInv, MarksTruthful, TypeOK
    <2> QED
      BY <1>1, <1>4, <2>1 DEF IInv, MarksTruthful
  <1>7. ASSUME NEW x \in Dispatchers, NEW e \in Events PROVE Knows(x, e)'
    <2>1. CASE x = d
      BY <1>1, <1>4, <2>1, EndSessionTyped, ClosedKnows
    <2>2. CASE x # d
      BY <1>1, <1>4, <2>2, EndSessionTyped, KnowledgeKept
    <2> QED
      BY <2>1, <2>2
  <1>8. \A x \in Dispatchers : pc'[x] = "idle" => \A e \in Events : mark'[x][e] = "none"
    BY <1>1, EndSessionTyped DEF EndSession, ClosedSession, IInv, TypeOK, SessionsTruthful
  <1>9. \A e \in Events : attempts'[e] <= tries'[e]
    BY <1>1, <1>4, AuditOutboxAssumption DEF IInv, TypeOK, SessionsTruthful
  <1> QED
    BY <1>5, <1>6, <1>7, <1>8, <1>9 DEF IInv, SessionsTruthful

\* Death of the process: rows stay, sessions end.
LEMMA CrashPreserves ==
  ASSUME IInv, Crash
  PROVE  IInv'
  <1>1. UNCHANGED <<status, attempts, tries, accepted>>
    BY DEF Crash, rows, sink
  <1>2. TypeOK' /\ MarksTruthful'
    BY <1>1, AuditOutboxAssumption DEF Crash, IInv, TypeOK, MarksTruthful
  <1>3. ASSUME NEW d \in Dispatchers, NEW e \in Events
        PROVE  Knows(d, e)' /\ mark'[d][e] = "none"
    <2>1. ClosedSession(d)'
      BY DEF Crash, ClosedSession
    <2>2. tries' \in [Events -> 0..MaxAttempts]
      BY <1>1 DEF IInv, TypeOK
    <2> QED
      BY <2>1, <2>2, ClosedKnows DEF ClosedSession
  <1> QED
    BY <1>1, <1>2, <1>3 DEF IInv, SessionsTruthful

-----------------------------------------------------------------------------
\* The invariant is inductive.
LEMMA OutboxInvariant == Spec => []IInv
<1>1. Init => IInv
  BY InitInvariant
<1>2. IInv /\ [Next]_vars => IInv'
  <2> SUFFICES ASSUME IInv, [Next]_vars PROVE IInv'
    OBVIOUS
  <2>1. CASE UNCHANGED vars
    BY <2>1 DEF vars, rows, sink, sessionVars, IInv, TypeOK, MarksTruthful,
                SessionsTruthful, Knows
  <2>2. ASSUME NEW e \in Events, CommitEvent(e) PROVE IInv'
    BY <2>2, CommitEventPreserves
  <2>3. ASSUME NEW d \in Dispatchers, BeginDispatch(d) PROVE IInv'
    BY <2>3, BeginPreserves
  <2>4. ASSUME NEW d \in Dispatchers, Accept(d) PROVE IInv'
    <3>1. PICK e \in Events : Emit(d, e, "sent") /\ accepted' = accepted \cup {e}
      BY <2>4 DEF Accept
    <3> QED
      BY <3>1, EmitPreserves
  <2>5. ASSUME NEW d \in Dispatchers, Refuse(d) PROVE IInv'
    <3>1. PICK e \in Events : /\ Emit(d, e, "retry")
                              /\ accepted' \in {accepted, accepted \cup {e}}
      BY <2>5 DEF Refuse
    <3> QED
      BY <3>1, EmitPreserves
  <2>6. ASSUME NEW d \in Dispatchers, CommitMarks(d) PROVE IInv'
    BY <2>6, CommitPreserves
  <2>7. ASSUME NEW d \in Dispatchers, DispatchFails(d) PROVE IInv'
    BY <2>7, FailurePreserves
  <2>8. CASE Crash
    BY <2>8, CrashPreserves
  <2> QED
    BY <2>1, <2>2, <2>3, <2>4, <2>5, <2>6, <2>7, <2>8 DEF Next, DispatchStep
<1> QED
  BY <1>1, <1>2, PTL DEF Spec

\* Every variable keeps its type; attempt_count stays within max_attempts.
THEOREM OutboxTyped == Spec => []TypeOK
<1>1. IInv => TypeOK
  BY DEF IInv
<1> QED
  BY <1>1, OutboxInvariant, PTL

\* Rows marked sent are in the sink, rows given up were tried max_attempts
\* times, and the sink holds committed events only, for any number of
\* overlapping dispatches, failures and crashes (audit_outbox.py).
THEOREM OutboxMarksTruthful == Spec => []MarksTruthful
<1>1. IInv => MarksTruthful
  BY DEF IInv
<1> QED
  BY <1>1, OutboxInvariant, PTL
====
