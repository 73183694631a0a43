---------------------------- MODULE AuditOutbox ----------------------------
(***************************************************************************)
(* The audit outbox of one service: backend/shared_domain/audit_outbox.py, *)
(* as the control plane's get_session drives it.  An event enters the      *)
(* outbox in the transaction of the change it tells of; when a request has *)
(* committed, its thread dispatches a batch of pending events to the sink. *)
(* Dispatches of several requests overlap; each marks its whole batch in   *)
(* one commit at the end, from the rows it has read at the start.          *)
(***************************************************************************)
EXTENDS Naturals, FiniteSets

CONSTANTS
    MaxEvents,    \* bound: outbox event ids are 1..MaxEvents, in ULID order
    Dispatchers,  \* threads that dispatch at the same time
    MaxBatch,     \* SCHEMAPILOT_AUDIT_OUTBOX_DISPATCH_BATCH_SIZE
    MaxAttempts   \* SCHEMAPILOT_AUDIT_OUTBOX_MAX_ATTEMPTS

ASSUME AuditOutboxAssumption ==
    /\ MaxEvents \in Nat
    /\ MaxBatch \in Nat \ {0}
    /\ MaxAttempts \in Nat \ {0}

Events == 1..MaxEvents

VARIABLES
    status,     \* committed status of every outbox row
    attempts,   \* committed attempt_count of every outbox row
    pc,         \* where each dispatcher is
    batch,      \* events a dispatcher has selected and not yet emitted
    read,       \* attempt_count of the rows a dispatcher has selected
    mark,       \* what a dispatcher will write about an event
    tries,      \* emissions of an event so far, counted up to MaxAttempts
    accepted    \* events the sink has taken, once or more often

rows == <<status, attempts>>
sink == <<tries, accepted>>
sessionVars == <<pc, batch, read, mark>>

vars == <<rows, sessionVars, sink>>

Init ==
    /\ status = [e \in Events |-> "absent"]
    /\ attempts = [e \in Events |-> 0]
    /\ pc = [d \in Dispatchers |-> "idle"]
    /\ batch = [d \in Dispatchers |-> {}]
    /\ read = [d \in Dispatchers |-> [e \in Events |-> 0]]
    /\ mark = [d \in Dispatchers |-> [e \in Events |-> "none"]]
    /\ tries = [e \in Events |-> 0]
    /\ accepted = {}

-----------------------------------------------------------------------------
\* A request commits a change with its event.  Ids are given out before the
\* commit, so events do not become visible in id order.
CommitEvent(e) ==
    /\ status[e] = "absent"
    /\ status' = [status EXCEPT ![e] = "pending"]
    /\ UNCHANGED <<attempts, sessionVars, sink>>

\* Mutant of Eligible: events that were given up are selected again.
EligibleAgain == {e \in Events : status[e] \in {"pending", "failed"}}

Eligible == {e \in Events : status[e] = "pending" /\ attempts[e] < MaxAttempts}

\* Mutant of FirstBatch: the LIMIT counts rows that are settled, too.
FirstBatchOfAll(S) ==
    {e \in S : Cardinality({x \in Events : status[x] # "absent" /\ x < e}) < MaxBatch}

\* SELECT ... ORDER BY outbox_event_id LIMIT max_batch.
FirstBatch(S) == {e \in S : Cardinality({x \in S : x < e}) < MaxBatch}

\* A dispatch that selects nothing changes nothing: it is left out.
BeginDispatch(d) ==
    /\ pc[d] = "idle"
    /\ FirstBatch(Eligible) # {}
    /\ pc' = [pc EXCEPT ![d] = "emit"]
    /\ batch' = [batch EXCEPT ![d] = FirstBatch(Eligible)]
    /\ read' = [read EXCEPT ![d] = [e \in Events |->
                    IF e \in FirstBatch(Eligible) THEN attempts[e] ELSE 0]]
    /\ UNCHANGED <<rows, mark, sink>>

\* One more emission of e.
Tried(e) == [tries EXCEPT ![e] = IF @ < MaxAttempts THEN @ + 1 ELSE @]

\* The dispatcher emits its next event and notes the outcome on the row.
Emit(d, e, outcome) ==
    /\ pc[d] = "emit"
    /\ e \in batch[d]
    /\ \A x \in batch[d] : e <= x
    /\ tries' = Tried(e)
    /\ batch' = [batch EXCEPT ![d] = @ \ {e}]
    /\ mark' = [mark EXCEPT ![d][e] = outcome]
    /\ UNCHANGED <<rows, pc, read>>

Accept(d) ==
    \E e \in Events :
        /\ Emit(d, e, "sent")
        /\ accepted' = accepted \cup {e}

\* AuditSinkError, OSError or TimeoutError: after a time-out nobody knows
\* whether the sink has taken the event.
Refuse(d) ==
    \E e \in Events :
        /\ Emit(d, e, "retry")
        /\ accepted' \in {accepted, accepted \cup {e}}

\* Mutant of GivenUp: one attempt too early.
GivenUpEarly(n) == n + 1 >= MaxAttempts

GivenUp(n) == n >= MaxAttempts

\* The session of d ends.
EndSession(d) ==
    /\ pc' = [pc EXCEPT ![d] = "idle"]
    /\ batch' = [batch EXCEPT ![d] = {}]
    /\ read' = [read EXCEPT ![d] = [e \in Events |-> 0]]
    /\ mark' = [mark EXCEPT ![d] = [e \in Events |-> "none"]]

\* The one commit of a dispatch writes the columns it has changed: the count it
\* has read plus one, and a status only if the event was sent or is given up.
CommitMarks(d) ==
    /\ pc[d] = "emit"
    /\ batch[d] = {}
    /\ attempts' = [e \in Events |-> IF mark[d][e] = "none" THEN attempts[e]
                                                           ELSE read[d][e] + 1]
    /\ status' = [e \in Events |->
                    CASE mark[d][e] = "sent" -> "sent"
                      [] mark[d][e] = "retry" /\ GivenUp(read[d][e] + 1) -> "failed"
                      [] OTHER -> status[e]]
    /\ EndSession(d)
    /\ UNCHANGED sink

\* An exception the dispatch does not catch (http.client.HTTPException of a
\* malformed answer, or the database's at the commit): get_session logs it, and
\* the marks of the whole batch are lost.
DispatchFails(d) ==
    /\ pc[d] = "emit"
    /\ EndSession(d)
    /\ \/ /\ batch[d] = {}
          /\ UNCHANGED sink
       \/ \E e \in batch[d] :
             /\ \A x \in batch[d] : e <= x
             /\ tries' = Tried(e)
             /\ accepted' \in {accepted, accepted \cup {e}}
    /\ UNCHANGED rows

\* The process dies, with every dispatch under way.
Crash ==
    /\ \E d \in Dispatchers : pc[d] # "idle"
    /\ pc' = [d \in Dispatchers |-> "idle"]
    /\ batch' = [d \in Dispatchers |-> {}]
    /\ read' = [d \in Dispatchers |-> [e \in Events |-> 0]]
    /\ mark' = [d \in Dispatchers |-> [e \in Events |-> "none"]]
    /\ UNCHANGED <<rows, sink>>

-----------------------------------------------------------------------------
DispatchStep(d) == Accept(d) \/ Refuse(d) \/ CommitMarks(d)

Next ==
    \/ \E e \in Events : CommitEvent(e)
    \/ \E d \in Dispatchers : BeginDispatch(d) \/ DispatchStep(d) \/ DispatchFails(d)
    \/ Crash

Spec == Init /\ [][Next]_vars

\* A dispatch that has begun goes on: a thread runs, and emit times out after
\* three seconds.
FairSpec == Spec /\ \A d \in Dispatchers : WF_vars(DispatchStep(d))

-----------------------------------------------------------------------------
(* Properties *)

\* Every variable has its type; attempt_count never exceeds the maximum, though
\* dispatches overwrite one another's counts (dispatch_audit_outbox_batch).
TypeOK ==
    /\ status \in [Events -> {"absent", "pending", "sent", "failed"}]
    /\ attempts \in [Events -> 0..MaxAttempts]
    /\ pc \in [Dispatchers -> {"idle", "emit"}]
    /\ batch \in [Dispatchers -> SUBSET Events]
    /\ read \in [Dispatchers -> [Events -> 0..MaxAttempts]]
    /\ mark \in [Dispatchers -> [Events -> {"none", "sent", "retry"}]]
    /\ tries \in [Events -> 0..MaxAttempts]
    /\ accepted \subseteq Events

\* Whatever dispatches overlap, fail or die, and whichever commits last: an
\* event marked sent is in the sink, an event given up was really tried
\* max_attempts times, and the sink has no event whose change was not committed.
MarksTruthful ==
    /\ \A e \in Events : status[e] = "sent" => e \in accepted
    /\ \A e \in Events : status[e] = "failed" => tries[e] >= MaxAttempts
    /\ \A e \in accepted : status[e] # "absent"

\* Requests go on ending, which is what starts a dispatch (get_session), and
\* dispatches do not fail or die for ever (a step that a commit may explain, too,
\* is not held to be a failure).  An event that raised an uncaught
\* exception at every emission would break this premise: its batch would lose its
\* marks every time, and the event and all that follow it would stay pending.
DispatchesComeThrough ==
    /\ \A d \in Dispatchers : WF_vars(BeginDispatch(d))
    /\ <>[][Crash \/ (\E d \in Dispatchers : DispatchFails(d))
               => \E d \in Dispatchers : CommitMarks(d)]_vars

\* Then every committed event is in the end sent or given up (no event enters for
\* ever: there are MaxEvents), however many failures and crashes there were: none
\* is passed over because the LIMIT cuts it off behind older ones, or because
\* counts or commits were lost.
EventsSettle ==
    DispatchesComeThrough => []<>(\A e \in Events : status[e] # "pending")
====
