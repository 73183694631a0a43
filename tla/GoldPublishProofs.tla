------------------------- MODULE GoldPublishProofs -------------------------
(***************************************************************************)
(* Proofs about GoldPublish: its variables have their types, and only      *)
(* builds that have passed the gate are ever served or recorded, whatever  *)
(* fails; until something fails the audit trail names the pointer that is  *)
(* served; and the module implements GoldPointer: until something fails    *)
(* the writes and reads of one body are one atomic change of one pointer.  *)
(***************************************************************************)
EXTENDS GoldPublish, SequenceTheorems, TLAPS

\* A pointer, or none, whose build has passed the gate.
ClearedPointer(p) == p \in Pointers => p.build \in cleared

ClearedSeq(s) == \A i \in DOMAIN s : s[i].build \in cleared

\* The body is in front of the gate, or the gate is shut for it.
AtGate(q) == pc[q] \in {"count", "load_latest"} /\ gate[q] # "clear"

\* What a body has in hand past the gate is cleared too: this is what makes the
\* served pointers and the history cleared at every later step.
BodiesCleared ==
    \A q \in Requests : (AtGate(q) \/ ClearedPointer(target[q])) /\ ClearedSeq(loaded[q])

\* While a body decides or writes, it has a target; what the gate knows fits where
\* the body is.
BodiesAim ==
    \A q \in Requests :
        /\ pc[q] \in {"count", "load_latest", "open_latest", "write_latest", "load_history",
                     "compare", "write_history"} => target[q] \in Pointers
        /\ pc[q] = "count" => gate[q] \in {"missing", "failed", "passed"}
        /\ pc[q] = "load_latest" => gate[q] \in {"missing", "failed", "blocked", "clear"}

IInv == TypeOK /\ BodiesAim /\ BodiesCleared /\ OnlyClearedBuildsServed

\* Type correctness and the invariant hold at the start.
LEMMA InitInvariant == Init => IInv
  BY GoldPublishAssumption, EmptySeq
  DEF Init, IInv, TypeOK, BodiesAim, BodiesCleared, OnlyClearedBuildsServed, AtGate, ClearedPointer,
      ClearedSeq, Pointers

\* Closing requests keeps the types of their variables.
LEMMA CloseTyped ==
  ASSUME TypeOK, NEW S, Close(S)
  PROVE  /\ pc' \in [Requests -> {"idle", "count", "load_latest", "open_latest", "write_latest",
                                  "load_history", "compare", "write_history", "audit", "commit"}]
         /\ op' \in [Requests -> {"none", "publish", "rollback"}]
         /\ number' \in [Requests -> Nat]
         /\ target' \in [Requests -> Pointers \cup {NoPointer}]
         /\ gate' \in [Requests -> {"none", "missing", "failed", "passed", "blocked", "clear"}]
         /\ loaded' \in [Requests -> Seq(Pointers)]
         /\ before' \in [Requests -> Pointers \cup {NoPointer, Torn}]
         /\ task' \in [Requests -> ContractFailures \cup {NoSubject}]
         /\ \A q \in Requests : \/ pc'[q] = "idle" /\ target'[q] = NoPointer /\ loaded'[q] = <<>>
                                \/ /\ pc'[q] = pc[q] /\ target'[q] = target[q]
                                   /\ loaded'[q] = loaded[q] /\ gate'[q] = gate[q]
  BY EmptySeq DEF TypeOK, Close

\* Requests that are closed have nothing in hand.
LEMMA CloseCleared ==
  ASSUME IInv, NEW S, Close(S), cleared' = cleared
  PROVE  BodiesAim' /\ BodiesCleared'
  <1>1. \A q \in Requests : \/ pc'[q] = "idle" /\ target'[q] = NoPointer /\ loaded'[q] = <<>>
                            \/ /\ pc'[q] = pc[q] /\ target'[q] = target[q]
                               /\ loaded'[q] = loaded[q] /\ gate'[q] = gate[q]
    BY CloseTyped DEF IInv
  <1>2. DOMAIN << >> = {}
    OBVIOUS
  <1>3. ClearedPointer(NoPointer) /\ ClearedSeq(<<>>)
    BY GoldPublishAssumption, <1>2 DEF ClearedPointer, ClearedSeq
  <1>4. ASSUME NEW q \in Requests
        PROVE  (AtGate(q)' \/ ClearedPointer(target[q])') /\ ClearedSeq(loaded[q])'
    BY <1>1, <1>3 DEF IInv, BodiesCleared, AtGate, ClearedPointer, ClearedSeq
  <1>5. BodiesCleared'
    BY <1>4 DEF BodiesCleared
  <1>6. BodiesAim'
    BY <1>1 DEF IInv, BodiesAim
  <1> QED
    BY <1>5, <1>6

\* A step of the environment, which leaves files and bodies alone.
LEMMA AroundStep ==
  ASSUME IInv, Around
  PROVE  IInv'
  <1>1. UNCHANGED <<files, loop, pc, bodyVars, told, cleared, requests, faults>>
    BY DEF Around, WriteReport, RaiseTask, DecideTask, counters
  <1>2. (BodiesAim /\ BodiesCleared /\ OnlyClearedBuildsServed)'
    BY <1>1 DEF IInv, BodiesAim, BodiesCleared, OnlyClearedBuildsServed, AtGate, ClearedPointer,
       ClearedSeq, files, bodyVars
  <1>3. report' \in [Builds -> {"missing", "passed", "failed"}] /\ reports' \in Nat
    <2>1. ASSUME NEW b \in Builds, NEW verdict \in {"passed", "failed"}, WriteReport(b, verdict)
          PROVE  report' \in [Builds -> {"missing", "passed", "failed"}] /\ reports' \in Nat
      BY <2>1 DEF IInv, TypeOK, WriteReport
    <2>2. CASE UNCHANGED <<report, reports>>
      BY <2>2 DEF IInv, TypeOK
    <2>3. \/ \E b \in Builds : WriteReport(b, "passed") \/ WriteReport(b, "failed")
          \/ UNCHANGED <<report, reports>>
      BY DEF Around, RaiseTask, DecideTask, counters
    <2> QED
      BY <2>1, <2>2, <2>3
  <1>4. open' \in [Subjects -> Nat]
    <2>1. ASSUME NEW x \in Subjects, DecideTask(x) PROVE open' \in [Subjects -> Nat]
      <3>1. open \in [Subjects -> Nat]
        BY DEF IInv, TypeOK
      <3>2. open[x] \in Nat /\ open[x] > 0 /\ open' = [open EXCEPT ![x] = open[x] - 1]
        BY <2>1, <3>1 DEF DecideTask
      <3>3. open[x] - 1 \in Nat
        BY <3>2
      <3> QED
        BY <3>1, <3>2, <3>3
    <2>2. CASE RaiseTask
      BY <2>2 DEF IInv, TypeOK, RaiseTask, Subjects
    <2>3. CASE UNCHANGED open
      BY <2>3 DEF IInv, TypeOK
    <2> QED
      BY <2>1, <2>2, <2>3 DEF Around, WriteReport
  <1>5. TypeOK'
    BY <1>1, <1>3, <1>4 DEF IInv, TypeOK, files, bodyVars
  <1> QED
    BY <1>2, <1>5 DEF IInv

\* The start of a body: only a publish that passes the gate, or a rollback to an
\* entry of the history, takes a pointer in hand.
LEMMA StartStep ==
  ASSUME IInv, NEW q \in Requests, StartRequest(q)
  PROVE  IInv'
  <1>1. ASSUME NEW p \in Pointers, StartPublish(q, p) PROVE IInv'
    <2>1. report[p.build] \in {"missing", "failed", "passed"}
      BY DEF IInv, TypeOK, Pointers
    <2>2. TypeOK'
      BY <1>1, <2>1 DEF IInv, TypeOK, StartPublish, Enter, EnterAtOnce, files
    <2>3. /\ pc' = [pc EXCEPT ![q] = "count"] /\ target' = [target EXCEPT ![q] = p]
          /\ gate' = [gate EXCEPT ![q] = report[p.build]]
          /\ UNCHANGED <<files, loaded, cleared>>
      BY <1>1 DEF StartPublish, Enter, EnterAtOnce
    <2>4. BodiesAim'
      BY <2>1, <2>3 DEF IInv, TypeOK, BodiesAim
    <2>5. BodiesCleared'
      BY <2>1, <2>3 DEF IInv, TypeOK, BodiesCleared, AtGate, ClearedPointer, ClearedSeq
    <2>6. OnlyClearedBuildsServed'
      BY <2>3 DEF IInv, OnlyClearedBuildsServed, files
    <2> QED
      BY <2>2, <2>4, <2>5, <2>6 DEF IInv
  <1>3. ASSUME NEW b \in Builds, Rollback(q, b) PROVE IInv'
    <2>1. history \in Seq(Pointers) /\ UNCHANGED <<files, cleared>>
      BY <1>3 DEF Rollback, IInv, TypeOK
    <2>2. PICK i \in DOMAIN history : target' = [target EXCEPT ![q] = history[i]]
      BY <1>3 DEF Rollback
    <2>3. history[i] \in Pointers /\ history[i].build \in cleared
      BY <1>3, <2>1, <2>2, ElementOfSeq DEF IInv, OnlyClearedBuildsServed, Rollback
    <2>4. TypeOK'
      BY <1>3, <2>1, <2>2, <2>3 DEF IInv, TypeOK, Rollback, Enter, EnterAtOnce, files
    <2>5. BodiesAim'
      BY <1>3, <2>2, <2>3 DEF IInv, TypeOK, BodiesAim, Rollback, Enter, EnterAtOnce
    <2>6. loaded' = [loaded EXCEPT ![q] = history] /\ ClearedSeq(history)
      BY <1>3 DEF Rollback, IInv, OnlyClearedBuildsServed, ClearedSeq
    <2>7. pc' = [pc EXCEPT ![q] = "open_latest"] /\ gate' = gate
      BY <1>3 DEF Rollback, Enter, EnterAtOnce
    <2>8. BodiesCleared' /\ OnlyClearedBuildsServed'
      BY <2>1, <2>2, <2>3, <2>6, <2>7
      DEF IInv, TypeOK, BodiesCleared, AtGate, OnlyClearedBuildsServed,
         ClearedPointer, ClearedSeq, files
    <2> QED
      BY <2>4, <2>5, <2>8 DEF IInv
  <1> QED
    BY <1>1, <1>3 DEF StartRequest

\* The gate: a publish goes on only for a build it has cleared.
LEMMA GateStep ==
  ASSUME IInv, NEW q \in Requests, CountTasks(q) \/ LoadLatest(q) \/ RefusePublish(q)
  PROVE  IInv'
  <1>1. CASE CountTasks(q)
    <2>1. /\ pc[q] = "count" /\ gate[q] \in {"missing", "failed", "passed"}
          /\ target[q] \in Pointers /\ target[q].build \in Builds
          /\ pc' = [pc EXCEPT ![q] = "load_latest"]
          /\ gate' = [gate EXCEPT ![q] = GateVerdict(q)]
          /\ UNCHANGED <<files, target, loaded>>
      BY <1>1 DEF CountTasks, IInv, BodiesAim, Pointers
    <2>2. /\ GateVerdict(q) \in {"missing", "failed", "blocked", "clear"}
          /\ GateVerdict(q) = "clear" => gate[q] = "passed" /\ AllResolved
      BY <2>1 DEF GateVerdict
    <2>3. /\ cleared \subseteq cleared' /\ cleared' \subseteq Builds
          /\ GateVerdict(q) = "clear" => target[q].build \in cleared'
      BY <1>1, <2>1, <2>2 DEF CountTasks, IInv, TypeOK
    <2>4. TypeOK'
      BY <1>1, <2>1, <2>2, <2>3 DEF IInv, TypeOK, CountTasks, files, counters
    <2>5. BodiesAim'
      BY <2>1, <2>2 DEF IInv, TypeOK, BodiesAim
    <2>6. BodiesCleared'
      BY <2>1, <2>2, <2>3 DEF IInv, TypeOK, BodiesCleared, AtGate, ClearedPointer, ClearedSeq
    <2>7. OnlyClearedBuildsServed'
      BY <2>1, <2>3 DEF IInv, OnlyClearedBuildsServed, files
    <2> QED
      BY <2>4, <2>5, <2>6, <2>7 DEF IInv
  <1>2. CASE LoadLatest(q)
    <2>1. TypeOK'
      BY <1>2 DEF IInv, TypeOK, LoadLatest, files, bodyVars, counters
    <2>2. (BodiesAim /\ BodiesCleared /\ OnlyClearedBuildsServed)'
      BY <1>2 DEF IInv, TypeOK, BodiesAim, BodiesCleared, AtGate, ClearedPointer, ClearedSeq,
         OnlyClearedBuildsServed, LoadLatest, files, bodyVars
    <2> QED
      BY <2>1, <2>2 DEF IInv
  <1>3. CASE RefusePublish(q)
    <2>1. /\ pc[q] = "load_latest" /\ gate[q] \in {"missing", "failed", "blocked"}
          /\ target[q] \in Pointers /\ target[q].build \in Builds
      BY <1>3 DEF RefusePublish, IInv, BodiesAim, Pointers
    <2>2. task' \in [Requests -> ContractFailures \cup {NoSubject}]
      BY <1>3, <2>1 DEF RefusePublish, IInv, TypeOK, ContractFailures
    <2>3. TypeOK'
      BY <1>3, <2>2 DEF IInv, TypeOK, RefusePublish, files, counters
    <2>4. ClearedPointer(NoPointer)
      BY GoldPublishAssumption DEF ClearedPointer
    <2>5. (BodiesAim /\ BodiesCleared /\ OnlyClearedBuildsServed)'
      BY <1>3, <2>4 DEF IInv, TypeOK, BodiesAim, BodiesCleared, AtGate, ClearedPointer, ClearedSeq,
         OnlyClearedBuildsServed, RefusePublish, files
    <2> QED
      BY <2>3, <2>5 DEF IInv
  <1> QED
    BY <1>1, <1>2, <1>3

\* The steps of a body and of its commit.
LEMMA BodyStep ==
  ASSUME IInv, NEW q \in Requests, RequestStep(q) \/ RequestFails(q)
  PROVE  IInv'
  <1>1. CASE OpenLatest(q)
    <2>1. TypeOK'
      BY <1>1 DEF IInv, TypeOK, OpenLatest, counters
    <2>2. (BodiesAim /\ BodiesCleared)'
      BY <1>1 DEF IInv, TypeOK, BodiesAim, BodiesCleared, AtGate, ClearedPointer, ClearedSeq, OpenLatest
    <2>3. OnlyClearedBuildsServed'
      BY <1>1, GoldPublishAssumption DEF IInv, OnlyClearedBuildsServed, OpenLatest
    <2> QED
      BY <2>1, <2>2, <2>3 DEF IInv
  <1>2. CASE WriteLatest(q)
    <2>1. target[q] \in Pointers /\ target[q].build \in cleared
      BY <1>2 DEF IInv, BodiesAim, BodiesCleared, AtGate, ClearedPointer, WriteLatest
    <2>2. TypeOK'
      BY <1>2, <2>1 DEF IInv, TypeOK, WriteLatest, bodyVars, counters
    <2>3. (BodiesAim /\ BodiesCleared)'
      BY <1>2, <2>1 DEF IInv, TypeOK, BodiesAim, BodiesCleared, AtGate, ClearedPointer, ClearedSeq,
         WriteLatest, bodyVars
    <2>4. OnlyClearedBuildsServed'
      BY <1>2, <2>1 DEF IInv, OnlyClearedBuildsServed, WriteLatest
    <2> QED
      BY <2>2, <2>3, <2>4 DEF IInv
  <1>3. CASE LoadHistory(q)
    <2>1. history \in Seq(Pointers) /\ ClearedSeq(history)
      BY <1>3 DEF IInv, TypeOK, OnlyClearedBuildsServed, ClearedSeq, LoadHistory
    <2>2. TypeOK'
      BY <1>3, <2>1 DEF IInv, TypeOK, LoadHistory, files, counters
    <2>3. BodiesAim'
      BY <1>3 DEF IInv, TypeOK, BodiesAim, LoadHistory
    <2>4. (BodiesCleared /\ OnlyClearedBuildsServed)'
      BY <1>3, <2>1 DEF IInv, TypeOK, BodiesCleared, AtGate, ClearedPointer, ClearedSeq,
         OnlyClearedBuildsServed, LoadHistory, files
    <2> QED
      BY <2>2, <2>3, <2>4 DEF IInv
  <1>4. CASE SkipHistory(q) \/ AppendAudit(q)
    <2>1. TypeOK'
      BY <1>4 DEF IInv, TypeOK, SkipHistory, AppendAudit, files, bodyVars, counters
    <2>2. (BodiesAim /\ BodiesCleared /\ OnlyClearedBuildsServed)'
      BY <1>4 DEF IInv, TypeOK, BodiesAim, BodiesCleared, AtGate, ClearedPointer, ClearedSeq,
         OnlyClearedBuildsServed, SkipHistory, AppendAudit, files, bodyVars
    <2> QED
      BY <2>1, <2>2 DEF IInv
  <1>5. CASE OpenHistory(q)
    <2>1. TypeOK'
      BY <1>5 DEF IInv, TypeOK, OpenHistory, bodyVars, counters
    <2>2. (BodiesAim /\ BodiesCleared /\ OnlyClearedBuildsServed)'
      BY <1>5 DEF IInv, TypeOK, BodiesAim, BodiesCleared, AtGate, ClearedPointer, ClearedSeq,
         OnlyClearedBuildsServed, OpenHistory, bodyVars
    <2> QED
      BY <2>1, <2>2 DEF IInv
  <1>6. CASE WriteHistory(q)
    <2>1. /\ target[q] \in Pointers /\ target[q].build \in cleared
          /\ loaded[q] \in Seq(Pointers) /\ ClearedSeq(loaded[q])
          /\ history' = Append(loaded[q], target[q])
      BY <1>6 DEF IInv, TypeOK, BodiesAim, BodiesCleared, AtGate, ClearedPointer, WriteHistory
    <2>2. history' \in Seq(Pointers)
      BY <2>1
    <2>3. ASSUME NEW i \in DOMAIN history' PROVE history'[i].build \in cleared
      <3>1. i \in 1..Len(loaded[q]) + 1
        BY <2>1
      <3>2. CASE i \in 1..Len(loaded[q])
        BY <2>1, <3>2 DEF ClearedSeq
      <3>3. CASE i = Len(loaded[q]) + 1
        BY <2>1, <3>3
      <3> QED
        BY <2>1, <3>1, <3>2, <3>3
    <2>4. TypeOK'
      BY <1>6, <2>2 DEF IInv, TypeOK, WriteHistory, bodyVars, counters
    <2>5. (BodiesAim /\ BodiesCleared)'
      BY <1>6 DEF IInv, TypeOK, BodiesAim, BodiesCleared, AtGate, ClearedPointer, ClearedSeq,
         WriteHistory, bodyVars
    <2>6. OnlyClearedBuildsServed'
      BY <1>6, <2>3 DEF IInv, OnlyClearedBuildsServed, WriteHistory
    <2> QED
      BY <2>4, <2>5, <2>6 DEF IInv
  <1>7. CASE Commit(q)
    <2>1. Close({q}) /\ UNCHANGED <<report, files, loop, cleared, counters>>
      BY <1>7 DEF Commit
    <2>2. open' \in [Subjects -> Nat]
      BY <1>7 DEF IInv, TypeOK, Commit
    <2>3. told' \in [number : Nat, pointer : Pointers \cup {NoPointer}]
      BY <1>7 DEF IInv, TypeOK, Commit, EventPointer
    <2>4. TypeOK'
      BY <2>1, <2>2, <2>3, CloseTyped DEF IInv, TypeOK, files, counters
    <2> QED
      BY <2>1, <2>4, CloseCleared DEF IInv, OnlyClearedBuildsServed, files
  <1>8. CASE HistoryUnreadable(q) \/ LatestUnreadable(q) \/ RequestFails(q)
    <2>1. Close({q}) /\ UNCHANGED <<report, open, files, told, cleared, requests, reports>>
      BY <1>8 DEF HistoryUnreadable, LatestUnreadable, RequestFails, Raise
    <2>2. loop' \in Requests \cup {Nobody} /\ faults' \in Nat
      BY <1>8 DEF IInv, TypeOK, HistoryUnreadable, LatestUnreadable, RequestFails, Raise
    <2>3. TypeOK'
      BY <2>1, <2>2, CloseTyped DEF IInv, TypeOK, files
    <2> QED
      BY <2>1, <2>3, CloseCleared DEF IInv, OnlyClearedBuildsServed, files
  <1> QED
    BY <1>1, <1>2, <1>3, <1>4, <1>5, <1>6, <1>7, <1>8, GateStep DEF RequestStep

LEMMA CrashStep ==
  ASSUME IInv, Crash
  PROVE  IInv'
  <1>1. Close(Requests) /\ UNCHANGED <<report, open, files, told, cleared, requests, reports>>
    BY DEF Crash
  <1>2. loop' = Nobody /\ faults' \in Nat
    BY DEF IInv, TypeOK, Crash
  <1>3. TypeOK'
    BY <1>1, <1>2, CloseTyped DEF IInv, TypeOK, files
  <1> QED
    BY <1>1, <1>3, CloseCleared DEF IInv, OnlyClearedBuildsServed, files

\* The invariant of every behaviour.
LEMMA GoldInvariant == Spec => []IInv
  <1>1. IInv /\ [Next]_vars => IInv'
    <2> SUFFICES ASSUME IInv, [Next]_vars PROVE IInv'
      OBVIOUS
    <2>1. CASE Next
      BY <2>1, AroundStep, StartStep, BodyStep, CrashStep DEF Next
    <2>2. CASE UNCHANGED vars
      BY <2>2 DEF IInv, TypeOK, BodiesAim, BodiesCleared, AtGate, ClearedPointer, ClearedSeq,
         OnlyClearedBuildsServed, vars, files, bodyVars, counters
    <2> QED
      BY <2>1, <2>2
  <1> QED
    BY InitInvariant, <1>1, PTL DEF Spec

\* The variables of GoldPublish have their types in every behaviour, for any set of
\* builds, snapshots and concurrent requests.
THEOREM GoldPublishTyped == Spec => []TypeOK
  <1>1. IInv => TypeOK
    BY DEF IInv
  <1> QED
    BY GoldInvariant, <1>1, PTL

\* Readers and rollbacks only ever meet builds that have passed the publish gate,
\* however requests, crashes and failed commits interleave.
THEOREM GoldServesOnlyCleared == Spec => []OnlyClearedBuildsServed
  <1>1. IInv => OnlyClearedBuildsServed
    BY DEF IInv
  <1> QED
    BY GoldInvariant, <1>1, PTL

-----------------------------------------------------------------------------
(* Until the first fault: one atomic pointer, named by the audit trail *)

InBody(q) == pc[q] \notin {"idle", "commit"}

Writing(q) == pc[q] \in {"write_latest", "load_history", "compare", "write_history"}

\* The bodies exclude one another: a request is inside its body exactly while it
\* has the event loop.
OneBody == \A q \in Requests : InBody(q) <=> loop = q

\* A file is cut off only while the body that rewrites it is between the two
\* steps, so no other body meets a cut off one.
FilesWhole ==
    /\ latest = Torn <=> \E q \in Requests : pc[q] = "write_latest"
    /\ history = Torn <=> \E q \in Requests : pc[q] = "write_history"

\* i is the entry of s a rollback to its build goes to.
NewestEntry(s, i) == i \in DOMAIN s /\ \A j \in DOMAIN s : s[j].build = s[i].build => j <= i

\* What a body has in hand agrees with the files it has written and read.
BodiesInStep ==
    \A q \in Requests :
        /\ Writing(q) \/ pc[q] = "open_latest" => op[q] \in {"publish", "rollback"}
        /\ pc[q] \in {"count", "load_latest"} => op[q] = "publish"
        /\ pc[q] = "load_history" => op[q] = "publish"
        /\ pc[q] \in {"load_history", "compare", "write_history"} => latest = target[q]
        /\ pc[q] = "write_history" => ~AlreadyNewest(q)
        /\ \/ pc[q] = "compare"
           \/ op[q] = "rollback" /\ pc[q] \in {"open_latest", "write_latest"}
           => history = loaded[q]
        /\ op[q] = "rollback" /\ (Writing(q) \/ pc[q] = "open_latest")
              => \E i \in DOMAIN loaded[q] : NewestEntry(loaded[q], i) /\ loaded[q][i] = target[q]
        /\ pc[q] = "idle" => target[q] = NoPointer

\* Requests arrive in the order of their numbers, and the one inside its body
\* has the highest.
NumbersInOrder ==
    /\ told.number <= requests
    /\ \A q \in Requests : pc[q] # "idle" => number[q] \in 1..requests
    /\ \A q, r \in Requests : pc[q] # "idle" /\ pc[r] # "idle" /\ number[q] = number[r] => q = r
    /\ \A q \in Requests : InBody(q) =>
          /\ told.number < number[q]
          /\ \A r \in Requests : pc[r] # "idle" => number[r] <= number[q]

\* The pointer of the last body that is over: the abstract pointer.
Current == IF Moving THEN before[loop] ELSE latest

\* The request has moved the pointer, and its event is not committed yet.
Landed(q) == pc[q] \in {"audit", "commit"} /\ target[q] # NoPointer

\* The event with the highest number, committed or not, names the pointer.
NewestEventNames ==
    \/ told.pointer = Current /\ \A q \in Requests : Landed(q) => number[q] < told.number
    \/ \E q \in Requests :
          /\ Landed(q) /\ target[q] = Current /\ told.number < number[q]
          /\ \A r \in Requests : Landed(r) => number[r] <= number[q]

FaultFree == OneBody /\ FilesWhole /\ BodiesInStep /\ NumbersInOrder /\ NewestEventNames

LEMMA InitFaultFree == Init => FaultFree
  <1> SUFFICES ASSUME Init PROVE FaultFree
    OBVIOUS
  <1>1. \A q \in Requests : pc[q] = "idle" /\ target[q] = NoPointer
    BY DEF Init
  <1>2. <<>> # Torn
    BY GoldPublishAssumption, EmptySeq
  <1>3. OneBody /\ FilesWhole /\ BodiesInStep
    BY <1>1, <1>2, GoldPublishAssumption
    DEF Init, OneBody, InBody, FilesWhole, BodiesInStep, Writing
  <1>4. NumbersInOrder
    BY <1>1 DEF Init, NumbersInOrder, InBody
  <1>5. NewestEventNames
    BY <1>1 DEF Init, NewestEventNames, Current, Moving, Landed
  <1> QED
    BY <1>3, <1>4, <1>5 DEF FaultFree

\* Around the requests nothing of this changes.
LEMMA AroundFaultFree ==
  ASSUME FaultFree, UNCHANGED <<files, loop, pc, bodyVars, told, requests>>
  PROVE  FaultFree'
  <1>1. (OneBody /\ FilesWhole /\ BodiesInStep)'
    BY DEF FaultFree, OneBody, InBody, FilesWhole, BodiesInStep, Writing, AlreadyNewest, NewestEntry,
       files, bodyVars
  <1>2. (NumbersInOrder /\ NewestEventNames)'
    BY DEF FaultFree, NumbersInOrder, InBody, NewestEventNames, Current, Moving, Landed,
       files, bodyVars
  <1> QED
    BY <1>1, <1>2 DEF FaultFree

\* While nobody has the event loop no body is running, and the files are whole.
LEMMA LoopFree ==
  ASSUME IInv, FaultFree, loop = Nobody
  PROVE  /\ \A q \in Requests : ~InBody(q)
         /\ latest # Torn /\ history # Torn
         /\ Current = latest
  BY GoldPublishAssumption DEF FaultFree, OneBody, InBody, FilesWhole, Current, Moving

\* A request that starts has the highest number.
LEMMA EnterFaultFree ==
  ASSUME IInv, FaultFree, NEW q \in Requests, NEW kind \in {"publish", "rollback"},
         NEW next \in {"open_latest", "count"}, Enter(q, kind, next),
         UNCHANGED <<files, before, told>>,
         target' \in [Requests -> Pointers \cup {NoPointer}],
         loaded' \in [Requests -> Seq(Pointers)],
         \A r \in Requests \ {q} : target'[r] = target[r] /\ loaded'[r] = loaded[r],
         next = "count" => kind = "publish",
         next = "open_latest" /\ kind = "rollback" =>
            /\ history = loaded'[q]
            /\ \E i \in DOMAIN history : NewestEntry(history, i) /\ history[i] = target'[q]
  PROVE  FaultFree'
  <1>1. /\ loop = Nobody /\ loop' = q /\ pc[q] = "idle" /\ requests' = requests + 1
        /\ number' = [number EXCEPT ![q] = requests + 1] /\ op' = [op EXCEPT ![q] = kind]
        /\ pc' = [pc EXCEPT ![q] = next]
    BY DEF Enter, EnterAtOnce
  <1>2. \A r \in Requests : ~InBody(r)
    BY <1>1, LoopFree
  <1>3. OneBody'
    BY <1>1, <1>2 DEF IInv, TypeOK, OneBody, InBody
  <1>4. FilesWhole'
    BY <1>1 DEF IInv, TypeOK, FaultFree, FilesWhole, files
  <1>5. BodiesInStep'
    <2> SUFFICES ASSUME NEW r \in Requests
                 PROVE  /\ Writing(r)' \/ pc'[r] = "open_latest" => op'[r] \in {"publish", "rollback"}
                        /\ pc'[r] \in {"count", "load_latest"} => op'[r] = "publish"
                        /\ pc'[r] = "load_history" => op'[r] = "publish"
                        /\ pc'[r] \in {"load_history", "compare", "write_history"} => latest' = target'[r]
                        /\ pc'[r] = "write_history" => ~AlreadyNewest(r)'
                        /\ \/ pc'[r] = "compare"
                           \/ op'[r] = "rollback" /\ pc'[r] \in {"open_latest", "write_latest"}
                           => history' = loaded'[r]
                        /\ op'[r] = "rollback" /\ (Writing(r)' \/ pc'[r] = "open_latest")
                              => \E i \in DOMAIN loaded'[r] :
                                    NewestEntry(loaded'[r], i) /\ loaded'[r][i] = target'[r]
                        /\ pc'[r] = "idle" => target'[r] = NoPointer
      BY DEF BodiesInStep, NewestEntry
    <2>1. CASE r = q
      BY <1>1, <2>1 DEF IInv, TypeOK, Writing, files
    <2>2. CASE r # q
      <3>1. pc'[r] = pc[r] /\ target'[r] = target[r] /\ pc[r] \in {"idle", "commit"}
        BY <1>1, <1>2, <2>2 DEF IInv, TypeOK, InBody
      <3> QED
        BY <3>1 DEF FaultFree, BodiesInStep, Writing
    <2> QED
      BY <2>1, <2>2
  <1>6. NumbersInOrder'
    BY <1>1, <1>2 DEF IInv, TypeOK, FaultFree, NumbersInOrder, InBody
  <1>7. NewestEventNames'
    <2>1. Current' = Current
      <3>1. Current = latest
        BY <1>1, LoopFree
      <3>2. pc'[q] = next /\ loop' = q
        BY <1>1 DEF IInv, TypeOK
      <3> QED
        BY <3>1, <3>2 DEF Current, Moving, files
    <2>2. \A r \in Requests : Landed(r)' <=> Landed(r)
      BY <1>1 DEF IInv, TypeOK, Landed
    <2>3. \A r \in Requests : Landed(r) => number'[r] = number[r] /\ target'[r] = target[r]
      BY <1>1 DEF IInv, TypeOK, Landed
    <2> QED
      BY <2>1, <2>2, <2>3 DEF FaultFree, NewestEventNames
  <1> QED
    BY <1>3, <1>4, <1>5, <1>6, <1>7 DEF FaultFree

LEMMA StartFaultFree ==
  ASSUME IInv, FaultFree, NEW q \in Requests, StartRequest(q)
  PROVE  FaultFree'
  <1>0. TypeOK /\ pc[q] = "idle" /\ target[q] = NoPointer /\ TypeOK'
    BY StartStep DEF IInv, FaultFree, BodiesInStep, StartRequest, StartPublish, Rollback,
       Enter, EnterAtOnce
  <1>1. ASSUME NEW p \in Pointers, StartPublish(q, p) PROVE FaultFree'
    <2>1. /\ Enter(q, "publish", "count") /\ UNCHANGED <<files, before, told>>
          /\ \A r \in Requests \ {q} : target'[r] = target[r] /\ loaded'[r] = loaded[r]
      BY <1>0, <1>1 DEF StartPublish, TypeOK
    <2> QED
      BY <1>0, <2>1, EnterFaultFree DEF TypeOK
  <1>3. ASSUME NEW b \in Builds, Rollback(q, b) PROVE FaultFree'
    <2>1. /\ Enter(q, "rollback", "open_latest") /\ UNCHANGED <<files, before, told>>
          /\ loaded' = [loaded EXCEPT ![q] = history]
      BY <1>3 DEF Rollback
    <2>2. PICK i \in DOMAIN history :
              /\ history[i].build = b
              /\ \A j \in DOMAIN history : history[j].build = b => j <= i
              /\ target' = [target EXCEPT ![q] = history[i]]
      BY <1>3 DEF Rollback
    <2>3. NewestEntry(history, i) /\ history[i] = target'[q]
      BY <1>0, <2>2 DEF NewestEntry, TypeOK
    <2>4. \A r \in Requests \ {q} : target'[r] = target[r] /\ loaded'[r] = loaded[r]
      BY <1>0, <2>1, <2>2 DEF TypeOK
    <2>5. history = loaded'[q]
      BY <1>0, <2>1 DEF TypeOK
    <2> QED
      BY <1>0, <2>1, <2>3, <2>4, <2>5, EnterFaultFree DEF TypeOK
  <1> QED
    BY <1>1, <1>3 DEF StartRequest

\* What the steps of a body leave alone.
LEMMA BodyFrame ==
  ASSUME IInv, FaultFree, NEW q \in Requests, loop = q, loop' = q, pc[q] \in
         {"count", "load_latest", "open_latest", "write_latest", "load_history", "compare",
          "write_history"},
         NEW c \in {"load_latest", "open_latest", "write_latest", "load_history", "compare",
                   "write_history", "audit"},
         pc' = [pc EXCEPT ![q] = c], UNCHANGED <<number, told, requests>>
  PROVE  OneBody' /\ NumbersInOrder'
  <1>1. \A r \in Requests : /\ InBody(r)' <=> InBody(r)
                            /\ pc'[r] # "idle" <=> pc[r] # "idle"
    BY DEF IInv, TypeOK, InBody
  <1> QED
    BY <1>1 DEF FaultFree, OneBody, NumbersInOrder

\* The gate leaves the files alone, and a refused publish has nothing to tell of.
LEMMA GateFaultFree ==
  ASSUME IInv, FaultFree, NEW q \in Requests,
         CountTasks(q) \/ LoadLatest(q) \/ RefusePublish(q)
  PROVE  FaultFree' /\ Current' = Current
  <1>1. PICK c \in {"load_latest", "open_latest", "audit"} : pc' = [pc EXCEPT ![q] = c]
    BY DEF CountTasks, LoadLatest, RefusePublish
  <1>2. /\ pc[q] \in {"count", "load_latest"}
        /\ UNCHANGED <<files, loop, op, number, loaded, before, told, requests>>
        /\ \A r \in Requests \ {q} : target'[r] = target[r]
    BY DEF CountTasks, LoadLatest, RefusePublish, bodyVars, counters, IInv, TypeOK
  <1>3. loop = q /\ loop' = q
    BY <1>2 DEF FaultFree, OneBody, InBody
  <1>4. pc'[q] = c /\ \A r \in Requests \ {q} : pc'[r] = pc[r]
    BY <1>1 DEF IInv, TypeOK
  <1>5. OneBody' /\ NumbersInOrder'
    BY <1>1, <1>2, <1>3, BodyFrame
  <1>6. FilesWhole'
    BY <1>2, <1>4 DEF FaultFree, FilesWhole, files
  <1>7. c = "open_latest" => op[q] = "publish"
    BY <1>1, <1>2, <1>4 DEF FaultFree, BodiesInStep, LoadLatest, CountTasks, RefusePublish
  <1>8. BodiesInStep'
    <2> SUFFICES ASSUME NEW r \in Requests
                 PROVE  /\ Writing(r)' \/ pc'[r] = "open_latest" => op'[r] \in {"publish", "rollback"}
                        /\ pc'[r] \in {"count", "load_latest"} => op'[r] = "publish"
                        /\ pc'[r] = "load_history" => op'[r] = "publish"
                        /\ pc'[r] \in {"load_history", "compare", "write_history"} => latest' = target'[r]
                        /\ pc'[r] = "write_history" => ~AlreadyNewest(r)'
                        /\ \/ pc'[r] = "compare"
                           \/ op'[r] = "rollback" /\ pc'[r] \in {"open_latest", "write_latest"}
                           => history' = loaded'[r]
                        /\ op'[r] = "rollback" /\ (Writing(r)' \/ pc'[r] = "open_latest")
                              => \E i \in DOMAIN loaded'[r] :
                                    NewestEntry(loaded'[r], i) /\ loaded'[r][i] = target'[r]
                        /\ pc'[r] = "idle" => target'[r] = NoPointer
      BY DEF BodiesInStep, NewestEntry
    <2>1. CASE r = q
      BY <1>2, <1>4, <1>7, <2>1 DEF Writing, FaultFree, BodiesInStep
    <2>2. CASE r # q
      <3>1. pc'[r] = pc[r] /\ target'[r] = target[r] /\ pc[r] \in {"idle", "commit"}
        BY <1>2, <1>3, <1>4, <2>2 DEF FaultFree, OneBody, InBody
      <3> QED
        BY <3>1 DEF FaultFree, BodiesInStep, Writing
    <2> QED
      BY <2>1, <2>2
  <1>9. Current' = Current
    BY <1>2, <1>3, <1>4 DEF Current, Moving, files
  <1>10. \A r \in Requests : Landed(r)' <=> Landed(r)
    <2>1. c = "audit" => target'[q] = NoPointer
      BY <1>1, <1>4 DEF CountTasks, LoadLatest, RefusePublish, IInv, TypeOK
    <2> QED
      BY <1>2, <1>4, <2>1 DEF Landed
  <1>11. \A r \in Requests : Landed(r) => r # q /\ target'[r] = target[r]
    BY <1>2 DEF Landed
  <1>12. NewestEventNames'
    BY <1>2, <1>9, <1>10, <1>11 DEF FaultFree, NewestEventNames
  <1> QED
    BY <1>5, <1>6, <1>8, <1>9, <1>12 DEF FaultFree

\* The steps of a body that do not end the rewriting of the files: the abstract
\* pointer stays, and no event is added.
LEMMA BodyFaultFree ==
  ASSUME IInv, FaultFree, NEW q \in Requests,
         OpenLatest(q) \/ WriteLatest(q) \/ LoadHistory(q) \/ OpenHistory(q)
  PROVE  FaultFree' /\ Current' = Current
  <1>0. PICK c \in {"write_latest", "load_history", "compare", "write_history"} :
             pc' = [pc EXCEPT ![q] = c]
    BY DEF OpenLatest, WriteLatest, LoadHistory, OpenHistory
  <1>1. /\ pc[q] \in {"open_latest", "write_latest", "load_history", "compare"}
        /\ UNCHANGED <<loop, op, number, target, task, told, requests>>
    BY DEF OpenLatest, WriteLatest, LoadHistory, OpenHistory, bodyVars, counters
  <1>2. InBody(q) /\ loop = q /\ loop' = q
    BY <1>1 DEF FaultFree, OneBody, InBody
  <1>3. OneBody' /\ NumbersInOrder'
    BY <1>0, <1>1, <1>2, BodyFrame
  <1>4. \A r \in Requests \ {q} : ~InBody(r) /\ pc'[r] = pc[r]
    BY <1>0, <1>2 DEF FaultFree, OneBody, IInv, TypeOK
  <1>5. pc'[q] = c
    BY <1>0 DEF IInv, TypeOK
  <1>6. target[q] \in Pointers /\ Torn \notin Pointers /\ Torn \notin Seq(Pointers)
    BY <1>1, GoldPublishAssumption DEF IInv, BodiesAim
  <1>7. FilesWhole' /\ BodiesInStep' /\ Current' = Current
    <2> SUFFICES /\ latest' = Torn <=> c = "write_latest"
                 /\ history' = Torn <=> c = "write_history"
                 /\ c = "load_history" => op[q] = "publish"
                 /\ c \in {"load_history", "compare", "write_history"} => latest' = target[q]
                 /\ c = "compare" \/ (op[q] = "rollback" /\ c = "write_latest")
                       => history' = loaded'[q]
                 /\ c = "write_history" => ~AlreadyNewest(q)'
                 /\ op[q] = "rollback" => loaded' = loaded
                 /\ Current' = Current
                 /\ \A r \in Requests \ {q} : loaded'[r] = loaded[r]
      <3>1. FilesWhole'
        BY <1>4, <1>5 DEF FilesWhole, InBody
      <3>2. ASSUME NEW r \in Requests \ {q}
            PROVE  /\ pc'[r] = pc[r] /\ pc[r] \in {"idle", "commit"}
                   /\ pc[r] = "idle" => target'[r] = NoPointer
        BY <1>1, <1>4 DEF FaultFree, BodiesInStep, InBody
      <3>3. op[q] \in {"publish", "rollback"}
        BY <1>1 DEF FaultFree, BodiesInStep, Writing
      <3>4. op[q] = "rollback" =>
               \E i \in DOMAIN loaded[q] : NewestEntry(loaded[q], i) /\ loaded[q][i] = target[q]
        BY <1>1 DEF FaultFree, BodiesInStep, Writing
      <3>5. BodiesInStep'
        BY <1>1, <1>5, <3>2, <3>3, <3>4 DEF BodiesInStep, Writing, NewestEntry
      <3> QED
        BY <3>1, <3>5
    <2>1. latest = Torn <=> pc[q] = "write_latest"
      BY <1>4 DEF FaultFree, FilesWhole, InBody
    <2>2. history # Torn
      BY <1>1, <1>4 DEF FaultFree, FilesWhole, InBody
    <2>3. /\ pc[q] \in {"load_history", "compare"} => latest = target[q]
          /\ pc[q] = "compare" \/ (op[q] = "rollback" /\ pc[q] \in {"open_latest", "write_latest"})
                => history = loaded[q]
          /\ op[q] \in {"publish", "rollback"}
          /\ pc[q] = "load_history" => op[q] = "publish"
      BY <1>1 DEF FaultFree, BodiesInStep, Writing
    <2>4. Current = (IF pc[q] = "open_latest" THEN latest ELSE before[q])
      BY <1>1, <1>2, GoldPublishAssumption DEF Current, Moving
    <2>5. Current' = before'[q]
      BY <1>2, <1>5, GoldPublishAssumption DEF Current, Moving
    <2>6. CASE OpenLatest(q)
      BY <1>5, <1>6, <2>1, <2>2, <2>3, <2>4, <2>5, <2>6 DEF OpenLatest, IInv, TypeOK, bodyVars
    <2>7. CASE WriteLatest(q)
      BY <1>5, <1>6, <2>1, <2>2, <2>3, <2>4, <2>5, <2>7 DEF WriteLatest, IInv, TypeOK, bodyVars
    <2>8. CASE LoadHistory(q)
      BY <1>5, <1>6, <2>1, <2>2, <2>3, <2>4, <2>5, <2>8 DEF LoadHistory, IInv, TypeOK, files
    <2>9. CASE OpenHistory(q)
      BY <1>5, <1>6, <2>1, <2>2, <2>3, <2>4, <2>5, <2>9 DEF OpenHistory, AlreadyNewest, IInv,
         TypeOK, bodyVars
    <2> QED
      BY <2>6, <2>7, <2>8, <2>9
  <1>8. NewestEventNames'
    <2>1. \A r \in Requests : Landed(r)' <=> Landed(r)
      BY <1>1, <1>4, <1>5 DEF Landed
    <2> QED
      BY <1>1, <1>7, <2>1 DEF FaultFree, NewestEventNames
  <1> QED
    BY <1>3, <1>7, <1>8 DEF FaultFree

\* When a body has rewritten the files the abstract pointer is its target, and
\* its event has the highest number.
LEMMA LandFaultFree ==
  ASSUME IInv, FaultFree, NEW q \in Requests, SkipHistory(q) \/ WriteHistory(q)
  PROVE  /\ FaultFree'
         /\ loop = q /\ loop' = q /\ pc'[q] = "audit" /\ latest' = target[q]
         /\ Current' = target[q] /\ history' # Torn
  <1>1. /\ pc[q] \in {"compare", "write_history"} /\ pc' = [pc EXCEPT ![q] = "audit"]
        /\ UNCHANGED <<latest, loop, op, number, target, loaded, task, told, requests>>
    BY DEF SkipHistory, WriteHistory, files, bodyVars, counters
  <1>2. InBody(q) /\ loop = q /\ loop' = q /\ pc'[q] = "audit"
    BY <1>1 DEF FaultFree, OneBody, InBody, IInv, TypeOK
  <1>3. OneBody' /\ NumbersInOrder'
    BY <1>1, <1>2, BodyFrame
  <1>4. \A r \in Requests \ {q} : ~InBody(r) /\ pc'[r] = pc[r]
    BY <1>1, <1>2 DEF FaultFree, OneBody, IInv, TypeOK
  <1>5. target[q] \in Pointers /\ Torn \notin Pointers /\ Torn \notin Seq(Pointers)
        /\ NoPointer \notin Pointers
    BY <1>1, GoldPublishAssumption DEF IInv, BodiesAim
  <1>6. latest = target[q]
    BY <1>1 DEF FaultFree, BodiesInStep
  <1>7. Current' = target[q]
    BY <1>1, <1>2, <1>6, GoldPublishAssumption DEF Current, Moving
  <1>8. history' # Torn
    <2>1. CASE SkipHistory(q)
      BY <1>4, <2>1 DEF SkipHistory, files, FaultFree, FilesWhole, InBody
    <2>2. CASE WriteHistory(q)
      <3>1. history' = Append(loaded[q], target[q]) /\ loaded[q] \in Seq(Pointers)
        BY <2>2 DEF WriteHistory, IInv, TypeOK
      <3>2. Append(loaded[q], target[q]) \in Seq(Pointers)
        BY <1>5, <3>1
      <3> QED
        BY <1>5, <3>1, <3>2
    <2> QED
      BY <2>1, <2>2
  <1>9. FilesWhole'
    BY <1>1, <1>2, <1>4, <1>5, <1>6, <1>8 DEF FilesWhole, InBody
  <1>10. BodiesInStep'
    <2>1. ASSUME NEW r \in Requests \ {q}
          PROVE  /\ pc'[r] = pc[r] /\ pc[r] \in {"idle", "commit"}
                 /\ pc[r] = "idle" => target'[r] = NoPointer
      BY <1>1, <1>4 DEF FaultFree, BodiesInStep, InBody
    <2> QED
      BY <1>2, <2>1 DEF BodiesInStep, Writing
  <1>11. NewestEventNames'
    <2>1. Landed(q)' /\ target'[q] = Current' /\ told'.number < number'[q]
      BY <1>1, <1>2, <1>5, <1>7 DEF Landed, FaultFree, NumbersInOrder
    <2>2. ASSUME NEW r \in Requests, Landed(r)' PROVE number'[r] <= number'[q]
      <3>1. pc[r] # "idle"
        BY <1>1, <1>4, <2>2 DEF Landed
      <3> QED
        BY <1>1, <1>2, <3>1 DEF FaultFree, NumbersInOrder
    <2> QED
      BY <2>1, <2>2 DEF NewestEventNames
  <1> QED
    BY <1>1, <1>2, <1>3, <1>6, <1>7, <1>8, <1>9, <1>10, <1>11 DEF FaultFree

LEMMA AuditFaultFree ==
  ASSUME IInv, FaultFree, NEW q \in Requests, AppendAudit(q)
  PROVE  FaultFree' /\ Current' = Current
  <1>1. /\ pc[q] = "audit" /\ pc' = [pc EXCEPT ![q] = "commit"] /\ loop' = Nobody
        /\ UNCHANGED <<files, op, number, target, loaded, told, requests>>
    BY DEF AppendAudit, bodyVars, counters
  <1>2. loop = q /\ pc'[q] = "commit" /\ \A r \in Requests \ {q} : ~InBody(r) /\ pc'[r] = pc[r]
    BY <1>1 DEF FaultFree, OneBody, InBody, IInv, TypeOK
  <1>3. OneBody' /\ FilesWhole'
    BY <1>1, <1>2, GoldPublishAssumption DEF FaultFree, OneBody, FilesWhole, InBody, files
  <1>4. BodiesInStep'
    <2>1. ASSUME NEW r \in Requests \ {q}
          PROVE  /\ pc'[r] = pc[r] /\ pc[r] \in {"idle", "commit"}
                 /\ pc[r] = "idle" => target'[r] = NoPointer
      BY <1>1, <1>2 DEF FaultFree, BodiesInStep, InBody
    <2> QED
      BY <1>2, <2>1 DEF BodiesInStep, Writing
  <1>5. NumbersInOrder'
    BY <1>1, <1>2 DEF FaultFree, NumbersInOrder, InBody
  <1>6. Current' = Current
    BY <1>1, <1>2, GoldPublishAssumption DEF Current, Moving, files
  <1>7. \A r \in Requests : Landed(r)' <=> Landed(r)
    BY <1>1, <1>2 DEF Landed
  <1>8. NewestEventNames'
    BY <1>1, <1>6, <1>7 DEF FaultFree, NewestEventNames
  <1> QED
    BY <1>3, <1>4, <1>5, <1>6, <1>8 DEF FaultFree

\* A commit moves the newest event from the request to the audit trail.
LEMMA CommitFaultFree ==
  ASSUME IInv, FaultFree, NEW q \in Requests, Commit(q)
  PROVE  FaultFree' /\ Current' = Current
  <1>1. /\ pc[q] = "commit" /\ UNCHANGED <<files, loop, requests>>
        /\ pc'[q] = "idle" /\ target'[q] = NoPointer
        /\ \A r \in Requests \ {q} : /\ pc'[r] = pc[r] /\ op'[r] = op[r] /\ number'[r] = number[r]
                                     /\ target'[r] = target[r] /\ loaded'[r] = loaded[r]
                                     /\ before'[r] = before[r]
    BY DEF Commit, Close, counters
  <1>2. told' = IF target[q] # NoPointer /\ number[q] > told.number
                THEN [number |-> number[q], pointer |-> target[q]] ELSE told
    BY DEF Commit, EventPointer
  <1>3. loop # q
    BY <1>1 DEF FaultFree, OneBody, InBody
  <1>4. OneBody' /\ FilesWhole'
    BY <1>1, <1>3 DEF FaultFree, OneBody, FilesWhole, InBody, files
  <1>5. BodiesInStep'
    <2>1. ASSUME NEW r \in Requests \ {q}
          PROVE  /\ Writing(r)' \/ pc'[r] = "open_latest" => op'[r] \in {"publish", "rollback"}
                 /\ pc'[r] \in {"count", "load_latest"} => op'[r] = "publish"
                 /\ pc'[r] = "load_history" => op'[r] = "publish"
                 /\ pc'[r] \in {"load_history", "compare", "write_history"} => latest' = target'[r]
                 /\ pc'[r] = "write_history" => ~AlreadyNewest(r)'
                 /\ \/ pc'[r] = "compare"
                    \/ op'[r] = "rollback" /\ pc'[r] \in {"open_latest", "write_latest"}
                    => history' = loaded'[r]
                 /\ op'[r] = "rollback" /\ (Writing(r)' \/ pc'[r] = "open_latest")
                       => \E i \in DOMAIN loaded'[r] :
                             NewestEntry(loaded'[r], i) /\ loaded'[r][i] = target'[r]
                 /\ pc'[r] = "idle" => target'[r] = NoPointer
      BY <1>1 DEF FaultFree, BodiesInStep, Writing, AlreadyNewest, files
    <2> QED
      BY <1>1, <2>1 DEF BodiesInStep, Writing, NewestEntry
  <1>6. NumbersInOrder'
    <2>1. told'.number <= requests
      BY <1>1, <1>2 DEF FaultFree, NumbersInOrder, IInv, TypeOK
    <2>2. ASSUME NEW r \in Requests, InBody(r)' PROVE told'.number < number'[r]
      <3>1. r # q /\ InBody(r) /\ number'[r] = number[r]
        BY <1>1, <2>2 DEF InBody
      <3>2. number[q] < number[r]
        <4>1. number[q] <= number[r] /\ number[q] # number[r]
          BY <1>1, <3>1 DEF FaultFree, NumbersInOrder, InBody
        <4> QED
          BY <4>1 DEF IInv, TypeOK
      <3>3. told.number < number[r]
        BY <3>1 DEF FaultFree, NumbersInOrder
      <3> QED
        BY <1>2, <3>1, <3>2, <3>3
    <2> QED
      BY <1>1, <2>1, <2>2 DEF FaultFree, NumbersInOrder, InBody
  <1>7. Current' = Current
    <2>1. CASE loop = Nobody
      BY <1>1, <2>1 DEF Current, Moving, files
    <2>2. CASE loop # Nobody
      <3>1. loop \in Requests \ {q}
        BY <1>3, <2>2 DEF IInv, TypeOK
      <3> QED
        BY <1>1, <3>1 DEF Current, Moving, files
    <2> QED
      BY <2>1, <2>2
  <1>8. NewestEventNames'
    <2>1. \A r \in Requests : Landed(r)' <=> Landed(r) /\ r # q
      BY <1>1 DEF Landed
    <2>2. Landed(q) <=> target[q] # NoPointer
      BY <1>1 DEF Landed
    <2>3. told \in [number : Nat, pointer : Pointers \cup {NoPointer}] /\ number \in [Requests -> Nat]
      BY DEF IInv, TypeOK
    <2>4. CASE told.pointer = Current /\ \A r \in Requests : Landed(r) => number[r] < told.number
      <3>1. told' = told
        BY <1>2, <2>2, <2>3, <2>4
      <3> QED
        BY <1>1, <1>7, <2>1, <2>4, <3>1 DEF NewestEventNames
    <2>5. ASSUME NEW r \in Requests, Landed(r), target[r] = Current, told.number < number[r],
                 \A x \in Requests : Landed(x) => number[x] <= number[r]
          PROVE  NewestEventNames'
      <3>1. \A x \in Requests : Landed(x) /\ x # r => number[x] < number[r]
        <4> SUFFICES ASSUME NEW x \in Requests, Landed(x), x # r PROVE number[x] < number[r]
          OBVIOUS
        <4>1. number[x] # number[r]
          BY <2>5 DEF FaultFree, NumbersInOrder, Landed
        <4> QED
          BY <2>3, <2>5, <4>1
      <3>2. CASE r = q
        <4>1. told'.number = number[q] /\ told'.pointer = Current
          BY <1>2, <2>2, <2>5, <3>2
        <4> QED
          BY <1>1, <1>7, <2>1, <3>1, <3>2, <4>1 DEF NewestEventNames
      <3>3. CASE r # q
        <4>1. told'.number < number[r]
          BY <1>2, <2>2, <2>5, <3>1, <3>3
        <4> QED
          BY <1>1, <1>7, <2>1, <2>5, <3>3, <4>1 DEF NewestEventNames
      <3> QED
        BY <3>2, <3>3
    <2> QED
      BY <2>4, <2>5 DEF FaultFree, NewestEventNames
  <1> QED
    BY <1>4, <1>5, <1>6, <1>7, <1>8 DEF FaultFree

\* Until there has been a fault.
FaultFreeInv == faults = 0 => FaultFree

\* A body finds files it can read.
LEMMA RequestStepWhole ==
  ASSUME IInv, FaultFreeInv, NEW q \in Requests, RequestStep(q), faults' = 0
  PROVE  faults = 0 /\ FaultFree /\ ~HistoryUnreadable(q) /\ ~LatestUnreadable(q)
  <1>1. faults' = faults
    BY DEF RequestStep, CountTasks, LoadLatest, RefusePublish, LatestUnreadable, OpenLatest,
       WriteLatest, LoadHistory, HistoryUnreadable, SkipHistory, OpenHistory, WriteHistory,
       AppendAudit, Commit, counters, files, bodyVars
  <1>2. FaultFree
    BY <1>1 DEF FaultFreeInv
  <1>3. ASSUME pc[q] = "load_history" PROVE history # Torn
    <2> SUFFICES ASSUME NEW r \in Requests, pc[r] = "write_history"
                 PROVE  FALSE
      BY <1>2 DEF FaultFree, FilesWhole
    <2>1. q = r
      BY <1>2, <1>3 DEF FaultFree, OneBody, InBody
    <2> QED
      BY <1>3, <2>1
  <1>4. ASSUME pc[q] = "load_latest" PROVE latest # Torn
    <2> SUFFICES ASSUME NEW r \in Requests, pc[r] = "write_latest"
                 PROVE  FALSE
      BY <1>2 DEF FaultFree, FilesWhole
    <2>1. q = r
      BY <1>2, <1>4 DEF FaultFree, OneBody, InBody
    <2> QED
      BY <1>4, <2>1
  <1> QED
    BY <1>1, <1>2, <1>3, <1>4 DEF HistoryUnreadable, LatestUnreadable

LEMMA FaultFreeInductive ==
  ASSUME IInv, FaultFreeInv, [Next]_vars
  PROVE  FaultFreeInv'
  <1> SUFFICES ASSUME faults' = 0 PROVE FaultFree'
    BY DEF FaultFreeInv
  <1>1. CASE UNCHANGED vars
    BY <1>1, AroundFaultFree DEF FaultFreeInv, vars, counters
  <1>2. CASE Around
    <2>1. UNCHANGED <<files, loop, pc, bodyVars, told, requests, faults>>
      BY <1>2 DEF Around, WriteReport, RaiseTask, DecideTask, counters
    <2> QED
      BY <2>1, AroundFaultFree DEF FaultFreeInv
  <1>3. ASSUME NEW q \in Requests, StartRequest(q) PROVE FaultFree'
    <2>1. faults' = faults
      BY <1>3 DEF StartRequest, StartPublish, Rollback
    <2> QED
      BY <1>3, <2>1, StartFaultFree DEF FaultFreeInv
  <1>4. ASSUME NEW q \in Requests, RequestStep(q) PROVE FaultFree'
    <2>1. FaultFree /\ ~HistoryUnreadable(q) /\ ~LatestUnreadable(q)
      BY <1>4, RequestStepWhole
    <2> QED
      BY <1>4, <2>1, GateFaultFree, BodyFaultFree, LandFaultFree, AuditFaultFree, CommitFaultFree
      DEF RequestStep
  <1>5. ASSUME NEW q \in Requests, RequestFails(q) \/ Crash PROVE FALSE
    BY <1>5 DEF RequestFails, Crash, IInv, TypeOK
  <1> QED
    BY <1>1, <1>2, <1>3, <1>4, <1>5 DEF Next, Crash

LEMMA FaultFreeInvariant == Spec => []FaultFreeInv
  <1>1. Init => FaultFreeInv
    BY InitFaultFree DEF FaultFreeInv
  <1>2. IInv /\ FaultFreeInv /\ [Next]_vars => FaultFreeInv'
    BY FaultFreeInductive
  <1> QED
    BY GoldInvariant, <1>1, <1>2, PTL DEF Spec

\* Until a fault happens, and whatever the order in which overlapping requests
\* commit, a client that reads the audit trail while no request is under way
\* finds the pointer that is served named by the newest event.
THEOREM GoldAuditTrail == Spec => []AuditTrailNamesServedPointer
  <1>1. IInv /\ FaultFreeInv => AuditTrailNamesServedPointer
    <2> SUFFICES ASSUME IInv, FaultFree, \A q \in Requests : pc[q] = "idle"
                 PROVE  told.pointer = latest
      BY DEF FaultFreeInv, AuditTrailNamesServedPointer
    <2>1. \A q \in Requests : ~Landed(q)
      BY DEF Landed
    <2>2. told.pointer = Current
      BY <2>1 DEF FaultFree, NewestEventNames
    <2>3. Current = latest
      BY DEF IInv, TypeOK, FaultFree, Current, Moving
    <2> QED
      BY <2>2, <2>3
  <1> QED
    BY GoldInvariant, FaultFreeInvariant, <1>1, PTL

-----------------------------------------------------------------------------
(* The refinement of GoldPointer *)

\* The abstract log.
Log == IF Moving /\ pc[loop] = "write_history" THEN loaded[loop] ELSE history

\* The abstract pointer moves when a body has rewritten the files, and then only.
LEMMA StartStutters ==
  ASSUME IInv, FaultFree, NEW q \in Requests, StartRequest(q)
  PROVE  Current' = Current /\ Log' = Log
  <1>1. /\ loop = Nobody /\ loop' = q /\ UNCHANGED files
        /\ pc' = [pc EXCEPT ![q] = "open_latest"] \/ pc' = [pc EXCEPT ![q] = "count"]
    BY DEF StartRequest, StartPublish, Rollback, Enter, EnterAtOnce
  <1>2. pc'[q] \in {"open_latest", "count"}
    BY <1>1 DEF IInv, TypeOK
  <1> QED
    BY <1>1, <1>2 DEF Current, Log, Moving, files

LEMMA BodyStutters ==
  ASSUME IInv, FaultFree, NEW q \in Requests,
         \/ CountTasks(q) \/ LoadLatest(q) \/ RefusePublish(q)
         \/ OpenLatest(q) \/ WriteLatest(q) \/ LoadHistory(q) \/ OpenHistory(q)
         \/ AppendAudit(q) \/ Commit(q)
  PROVE  Current' = Current /\ Log' = Log
  <1>1. Current' = Current
    BY GateFaultFree, BodyFaultFree, AuditFaultFree, CommitFaultFree
  <1>2. CASE \/ CountTasks(q) \/ LoadLatest(q) \/ RefusePublish(q)
             \/ OpenLatest(q) \/ WriteLatest(q) \/ LoadHistory(q) \/ AppendAudit(q)
    <2>1. /\ pc[q] \notin {"idle", "commit", "write_history"} /\ history' = history
          /\ loop' \in {loop, Nobody} /\ pc'[q] # "write_history"
      BY <1>2 DEF CountTasks, LoadLatest, RefusePublish, OpenLatest, WriteLatest, LoadHistory,
         AppendAudit, IInv, TypeOK, files
    <2>2. loop = q
      BY <2>1 DEF FaultFree, OneBody, InBody
    <2> QED
      BY <1>1, <2>1, <2>2, GoldPublishAssumption DEF Log, Moving
  <1>3. CASE OpenHistory(q)
    <2>1. /\ pc[q] = "compare" /\ loop' = loop /\ loaded' = loaded /\ pc'[q] = "write_history"
      BY <1>3 DEF OpenHistory, IInv, TypeOK, bodyVars
    <2>2. loop = q /\ history = loaded[q]
      BY <2>1 DEF FaultFree, OneBody, InBody, BodiesInStep
    <2> QED
      BY <1>1, <2>1, <2>2, GoldPublishAssumption DEF Log, Moving
  <1>4. CASE Commit(q)
    <2>1. /\ pc[q] = "commit" /\ UNCHANGED <<files, loop>>
          /\ \A r \in Requests \ {q} : pc'[r] = pc[r] /\ loaded'[r] = loaded[r]
      BY <1>4 DEF Commit, Close
    <2>2. loop = Nobody \/ loop \in Requests \ {q}
      BY <2>1 DEF FaultFree, OneBody, InBody, IInv, TypeOK
    <2> QED
      BY <1>1, <2>1, <2>2 DEF Log, Moving, files
  <1> QED
    BY <1>2, <1>3, <1>4

\* The abstract actions, in terms of this module's operators.
LEMMA AbstractPublish ==
  ASSUME faults = 0, faults' = 0, NEW p \in Pointers, Current' = p,
         Log' = IF Log # <<>> /\ Last(Log).build = p.build THEN Log ELSE Append(Log, p)
  PROVE  AtomicPointer!PointerNext
  <1>1. p \in AtomicPointer!Pointers
    BY DEF Pointers, AtomicPointer!Pointers
  <1>2. AtomicPointer!PublishPointer(p)
    BY DEF AtomicPointer!PublishPointer, AtomicPointer!Last, Last, Current, Log
  <1> QED
    BY <1>1, <1>2 DEF AtomicPointer!PointerNext

LEMMA AbstractRollback ==
  ASSUME faults = 0, faults' = 0, NEW i \in DOMAIN Log, NewestEntry(Log, i), Log[i].build \in Builds, Current' = Log[i],
         Log' = IF Last(Log) = Log[i] THEN Log ELSE Append(Log, Log[i])
  PROVE  AtomicPointer!PointerNext
  <1>1. AtomicPointer!RollbackPointer(Log[i].build)
    BY DEF AtomicPointer!RollbackPointer, AtomicPointer!Last, Last, Current, Log, NewestEntry
  <1> QED
    BY <1>1 DEF AtomicPointer!PointerNext

\* A body that lands has published its pointer, or rolled back to it.
LEMMA LandMoves ==
  ASSUME IInv, FaultFree, NEW q \in Requests, SkipHistory(q) \/ WriteHistory(q),
         faults = 0, faults' = 0
  PROVE  AtomicPointer!PointerNext
  <1>1. /\ loop = q /\ loop' = q /\ pc'[q] = "audit" /\ Current' = target[q]
    BY LandFaultFree
  <1>2. pc[q] \in {"compare", "write_history"}
    BY DEF SkipHistory, WriteHistory
  <1>3. /\ target[q] \in Pointers /\ loaded[q] \in Seq(Pointers) /\ op[q] \in {"publish", "rollback"}
        /\ loaded[q] = Log
    BY <1>1, <1>2, GoldPublishAssumption
    DEF IInv, TypeOK, BodiesAim, FaultFree, BodiesInStep, Writing, Log, Moving
  <1>4. Log' = history'
    BY <1>1 DEF Log, Moving
  <1>5. Log' = IF AlreadyNewest(q) THEN Log ELSE Append(Log, target[q])
    <2>1. CASE SkipHistory(q)
      <3>1. Log = history
        BY <2>1, <1>1 DEF SkipHistory, Log
      <3> QED
        BY <1>4, <2>1, <3>1 DEF SkipHistory, files
    <2>2. CASE WriteHistory(q)
      BY <1>3, <1>4, <2>2 DEF WriteHistory, FaultFree, BodiesInStep
    <2> QED
      BY <2>1, <2>2
  <1>6. CASE op[q] = "publish"
    BY <1>1, <1>3, <1>5, <1>6, AbstractPublish DEF AlreadyNewest
  <1>7. CASE op[q] = "rollback"
    <2>1. PICK i \in DOMAIN Log : NewestEntry(Log, i) /\ Log[i] = target[q]
      BY <1>2, <1>3, <1>7 DEF FaultFree, BodiesInStep, Writing
    <2>2. Log # <<>>
      BY <1>3, <2>1
    <2> QED
      BY <1>1, <1>3, <1>5, <1>7, <2>1, <2>2, AbstractRollback DEF AlreadyNewest, Pointers
  <1> QED
    BY <1>3, <1>6, <1>7

LEMMA StepRefines ==
  ASSUME IInv, FaultFreeInv, [Next]_vars, faults' = 0
  PROVE  /\ faults = 0
         /\ AtomicPointer!PointerNext \/ (Current' = Current /\ Log' = Log)
  <1>1. CASE UNCHANGED vars \/ Around
    <2>1. UNCHANGED <<files, loop, pc, bodyVars, faults>>
      BY <1>1 DEF vars, Around, WriteReport, RaiseTask, DecideTask, counters
    <2> QED
      BY <2>1 DEF Current, Log, Moving, files, bodyVars
  <1>2. ASSUME NEW q \in Requests, StartRequest(q)
        PROVE  faults = 0 /\ Current' = Current /\ Log' = Log
    <2>1. faults' = faults
      BY <1>2 DEF StartRequest, StartPublish, Rollback
    <2> QED
      BY <1>2, <2>1, StartStutters DEF FaultFreeInv
  <1>3. ASSUME NEW q \in Requests, RequestStep(q)
        PROVE  /\ faults = 0
               /\ AtomicPointer!PointerNext \/ (Current' = Current /\ Log' = Log)
    <2>1. faults = 0 /\ FaultFree /\ ~HistoryUnreadable(q) /\ ~LatestUnreadable(q)
      BY <1>3, RequestStepWhole
    <2> QED
      BY <1>3, <2>1, BodyStutters, LandMoves DEF RequestStep
  <1>4. ASSUME NEW q \in Requests, RequestFails(q) \/ Crash PROVE FALSE
    BY <1>4 DEF RequestFails, Crash, IInv, TypeOK
  <1> QED
    BY <1>1, <1>2, <1>3, <1>4 DEF Next, Crash

\* Until something fails the two files, rewritten one after the other and in place
\* by overlapping requests, are one atomic pointer with its log: a reader of the
\* files outside a body cannot tell them from GoldPointer.
THEOREM GoldImplementsPointer == Spec => ImplementsAtomicPointer
  <1>1. Init => AtomicPointer!PointerInit
    BY DEF Init, AtomicPointer!PointerInit, Moving
  <1>2. ASSUME IInv, IInv', FaultFreeInv, [Next]_vars
        PROVE  [AtomicPointer!PointerNext]_(AtomicPointer!pointerVars)
    <2>1. faults' \in Nat
      BY <1>2 DEF IInv, TypeOK
    <2>2. CASE faults' = 0
      <3>1. /\ faults = 0
            /\ AtomicPointer!PointerNext \/ (Current' = Current /\ Log' = Log)
        BY <1>2, <2>2, StepRefines
      <3> QED
        BY <2>2, <3>1 DEF AtomicPointer!pointerVars, Current, Log
    <2>3. CASE faults' > 0
      BY <2>3 DEF AtomicPointer!PointerNext, AtomicPointer!AfterFailure
    <2> QED
      BY <2>1, <2>2, <2>3
  <1> QED
    BY GoldInvariant, FaultFreeInvariant, <1>1, <1>2, PTL
    DEF Spec, ImplementsAtomicPointer, AtomicPointer!PointerSpec
====
