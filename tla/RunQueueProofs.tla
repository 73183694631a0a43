--------------------------- MODULE RunQueueProofs ---------------------------
(***************************************************************************)
(* Proofs about RunQueue: for any number of workers, runs, schedules and   *)
(* crashes, every committed run row is truthful; and for one worker, a run *)
(* row is the trace of one pass through its DAG, an outcome is final, and  *)
(* a schedule enqueues at most one run per interval.                       *)
(***************************************************************************)
EXTENDS RunQueue, TLAPS, SequenceTheorems, FiniteSetTheorems

\* A row nobody is executing: typed, not "running", and truthful.
Settled(row) == row \in Rows /\ row.status # "running" /\ TruthfulRow(row)

\* The row of a run in execution that has come to step p; c says whether step p
\* has begun ("step") or not ("exec").
Active(row, p, c) ==
    /\ row \in Rows
    /\ row.status = "running"
    /\ Len(row.steps) = StepCount(row.type)
    /\ p \in 1..(Len(row.steps) + 1)
    /\ c = "step" => p <= Len(row.steps)
    /\ \A k \in 1..(p - 1) : row.steps[k].status = "succeeded"

Executing(w) == pc[w] \in {"exec", "step"}

\* The worker that executes a run holds its lock.
ClaimsHeld ==
    \A w \in Workers :
        /\ pc[w] = "claim" => cur[w] \in Runs
        /\ Executing(w) => cur[w] \in Runs /\ locks[cur[w]] = w

\* What a worker has pending is either the run it executes or fit to commit.
PendingRows ==
    \A w \in Workers, r \in Runs :
        locks[r] = w =>
            IF Executing(w) /\ r = cur[w]
            THEN Active(buf[w][r], pos[w], pc[w])
            ELSE Settled(buf[w][r])

CommittedRows == \A r \in Runs : Settled(db[r])

IInv == TypeOK /\ CommittedRows /\ PendingRows /\ ClaimsHeld

-----------------------------------------------------------------------------
(* Rows *)

LEMMA StepCountRange ==
    ASSUME NEW t \in RunTypes
    PROVE  StepCount(t) \in {0, 3, 4}
BY DEF RunTypes, StepTypes, StepCount

\* Appending an event keeps the trail typed and makes the event its last.
LEMMA AppendEvent ==
    ASSUME NEW es \in Seq(Events), NEW e \in Events
    PROVE  /\ Append(es, e) \in Seq(Events)
           /\ Append(es, e) # <<>>
           /\ Append(es, e)[Len(Append(es, e))] = e
OBVIOUS

\* Replacing one element of the step rows.
LEMMA ReplaceStep ==
    ASSUME NEW ss \in Seq(StepRows), NEW k \in 1..Len(ss), NEW e \in StepRows
    PROVE  /\ [ss EXCEPT ![k] = e] \in Seq(StepRows)
           /\ Len([ss EXCEPT ![k] = e]) = Len(ss)
           /\ [ss EXCEPT ![k] = e][k] = e
           /\ \A j \in 1..Len(ss) : j # k => [ss EXCEPT ![k] = e][j] = ss[j]
OBVIOUS

\* The two updates of a step row.
LEMMA StepRowUpdates ==
    ASSUME NEW x \in StepRows, NEW st \in StepStatus
    PROVE  /\ [x EXCEPT !.status = st] \in StepRows
           /\ [x EXCEPT !.status = st].status = st
           /\ [status |-> "running", attempts |-> x.attempts + 1] \in StepRows
BY DEF StepRows, StepStatus

LEMMA FreshStepsTyped ==
    ASSUME NEW t \in RunTypes
    PROVE  NewSteps(t) \in Seq(StepRows) /\ Len(NewSteps(t)) = StepCount(t)
<1>1. StepCount(t) \in Nat
  BY StepCountRange
<1>2. [status |-> "queued", attempts |-> 0] \in StepRows
  BY DEF StepRows, StepStatus
<1> QED
  BY <1>1, <1>2 DEF NewSteps

LEMMA EmptyRowsSettled ==
    /\ Settled(NoRow)
    /\ \A ws \in Workspaces, t \in RunTypes, s \in Schedules \cup {0} :
          Settled(NewRow(ws, t, s))
BY DEF Settled, NoRow, NewRow, Rows, RunTypes, TruthfulRow

LEMMA StartRunActive ==
    ASSUME NEW row, Settled(row)
    PROVE  Active(StartRun(row), 1, "exec")
<1> DEFINE ss == EnsureSteps(row)
<1>1. row \in Rows /\ row.type \in RunTypes /\ row.steps \in Seq(StepRows)
      /\ row.events \in Seq(Events)
  BY DEF Settled, Rows
<1>2. ss \in Seq(StepRows) /\ Len(ss) = StepCount(row.type)
  <2>1. CASE row.steps = <<>>
    BY <2>1, <1>1, FreshStepsTyped DEF EnsureSteps
  <2>2. CASE row.steps # <<>>
    <3>1. row.status \in {"succeeded", "failed"}
      BY <2>2, <1>1 DEF Settled, TruthfulRow, Rows
    <3> QED
      BY <3>1, <2>2, <1>1 DEF EnsureSteps, Settled, TruthfulRow
  <2> QED
    BY <2>1, <2>2
<1>3. Append(row.events, "run.started") \in Seq(Events)
  BY <1>1, AppendEvent DEF Events
<1>4. StartRun(row) = [row EXCEPT !.status = "running", !.steps = ss,
                                  !.events = Append(row.events, "run.started")]
  BY <1>1 DEF StartRun, Rows
<1>5. StepCount(row.type) \in Nat
  BY <1>1, StepCountRange
<1> HIDE DEF ss
<1>6. /\ StartRun(row) \in Rows /\ StartRun(row).status = "running"
      /\ StartRun(row).type = row.type /\ StartRun(row).steps = ss
  BY <1>1, <1>2, <1>3, <1>4 DEF Rows
<1> QED
  BY <1>2, <1>5, <1>6 DEF Active

LEMMA BeginStepActive ==
    ASSUME NEW row, NEW p, Active(row, p, "exec"), p <= Len(row.steps)
    PROVE  Active(BeginStep(row, p), p, "step")
<1> DEFINE e == [status |-> "running", attempts |-> row.steps[p].attempts + 1]
           ss == [row.steps EXCEPT ![p] = e]
<1>1. row \in Rows /\ row.steps \in Seq(StepRows)
  BY DEF Active, Rows
<1>0. Len(row.steps) \in Nat /\ p \in 1..Len(row.steps)
  BY <1>1 DEF Active
<1>2. e \in StepRows
  <2>1. row.steps[p] \in StepRows
    BY <1>0, <1>1, ElementOfSeq
  <2> QED
    BY <2>1, StepRowUpdates DEF StepStatus
<1>3. BeginStep(row, p) = [row EXCEPT !.steps = ss]
  BY <1>1 DEF BeginStep, Rows
<1>4. /\ ss \in Seq(StepRows) /\ Len(ss) = Len(row.steps)
      /\ \A j \in 1..(p - 1) : ss[j] = row.steps[j]
  BY <1>0, <1>1, <1>2, ReplaceStep
<1> HIDE DEF ss
<1>5. /\ BeginStep(row, p) \in Rows /\ BeginStep(row, p).status = row.status
      /\ BeginStep(row, p).type = row.type /\ BeginStep(row, p).steps = ss
  BY <1>1, <1>3, <1>4 DEF Rows
<1> QED
  BY <1>0, <1>1, <1>4, <1>5 DEF Active

LEMMA SetStepTyped ==
    ASSUME NEW row \in Rows, NEW k \in 1..Len(row.steps), NEW st \in StepStatus
    PROVE  /\ SetStep(row, k, st) \in Rows
           /\ SetStep(row, k, st).type = row.type
           /\ SetStep(row, k, st).status = row.status
           /\ SetStep(row, k, st).events = row.events
           /\ Len(SetStep(row, k, st).steps) = Len(row.steps)
           /\ SetStep(row, k, st).steps[k].status = st
           /\ \A j \in 1..Len(row.steps) :
                 j # k => SetStep(row, k, st).steps[j] = row.steps[j]
<1> DEFINE e == [row.steps[k] EXCEPT !.status = st]
           ss == [row.steps EXCEPT ![k] = e]
<1>1. row.steps \in Seq(StepRows)
  BY DEF Rows
<1>2. e \in StepRows /\ e.status = st
  <2>1. row.steps[k] \in StepRows
    BY <1>1, ElementOfSeq
  <2> QED
    BY <2>1, StepRowUpdates
<1>3. SetStep(row, k, st) = [row EXCEPT !.steps = ss]
  BY <1>1 DEF SetStep, Rows
<1>4. /\ ss \in Seq(StepRows) /\ Len(ss) = Len(row.steps) /\ ss[k] = e
      /\ \A j \in 1..Len(row.steps) : j # k => ss[j] = row.steps[j]
  BY <1>1, <1>2, ReplaceStep
<1> HIDE DEF ss, e
<1> QED
  BY <1>1, <1>2, <1>3, <1>4 DEF Rows

LEMMA SucceedStepActive ==
    ASSUME NEW row, NEW p, Active(row, p, "step")
    PROVE  Active(SetStep(row, p, "succeeded"), p + 1, "exec")
<1> DEFINE new == SetStep(row, p, "succeeded")
<1>1. row \in Rows /\ row.steps \in Seq(StepRows)
  BY DEF Active, Rows
<1>2. Len(row.steps) \in Nat /\ p \in 1..Len(row.steps)
  BY <1>1 DEF Active
<1>3. /\ new \in Rows /\ new.type = row.type /\ new.status = row.status
      /\ Len(new.steps) = Len(row.steps) /\ new.steps[p].status = "succeeded"
      /\ \A j \in 1..Len(row.steps) : j # p => new.steps[j] = row.steps[j]
  BY <1>1, <1>2, SetStepTyped DEF StepStatus
<1> QED
  BY <1>1, <1>2, <1>3 DEF Active

\* Whatever the steps look like, the run that fails has one to blame.
LEMMA EnsureFailedStepBlames ==
    ASSUME NEW ss \in Seq(StepRows), Len(ss) \in {0, 3, 4}
    PROVE  /\ EnsureFailedStep(ss) \in Seq(StepRows)
           /\ Len(EnsureFailedStep(ss)) = Len(ss)
           /\ \/ EnsureFailedStep(ss) = <<>>
              \/ \E k \in 1..Len(ss) : EnsureFailedStep(ss)[k].status = "failed"
<1> DEFINE fs == [k \in DOMAIN ss |-> IF BlamedStep(ss, k)
                                      THEN [ss[k] EXCEPT !.status = "failed"]
                                      ELSE ss[k]]
<1>0. DOMAIN ss = 1..Len(ss) /\ \A k \in 1..Len(ss) : ss[k] \in StepRows
  OBVIOUS
<1>1. CASE \E j \in DOMAIN ss : ss[j].status = "failed"
  BY <1>1, <1>0 DEF EnsureFailedStep
<1>2. CASE ~ \E j \in DOMAIN ss : ss[j].status = "failed"
  <2>1. EnsureFailedStep(ss) = fs
    BY <1>2 DEF EnsureFailedStep
  <2>2. \A k \in 1..Len(ss) : fs[k] \in StepRows
    BY <1>0 DEF StepRows, StepStatus
  <2>3. fs \in Seq(StepRows) /\ Len(fs) = Len(ss)
    <3>1. fs \in [1..Len(ss) -> StepRows]
      BY <1>0, <2>2
    <3> QED
      BY <3>1
  <2>4. CASE Len(ss) = 0
    <3>1. fs = <<>>
      BY <2>3, <2>4
    <3> QED
      BY <3>1, <2>1, <2>3, <2>4
  <2>5. CASE Len(ss) # 0
    <3>1. \E k \in 1..Len(ss) : BlamedStep(ss, k)
      <4>1. CASE \E j \in DOMAIN ss : ss[j].status = "running"
        <5> DEFINE R(j) == j \in 1..Len(ss) /\ ss[j].status = "running"
        <5>1. R(1) \/ R(2) \/ R(3) \/ R(4)
          BY <4>1, <1>0
        <5>2. \A k \in 1..Len(ss) : (R(k) /\ \A j \in 1..Len(ss) : R(j) => k <= j)
                                       => BlamedStep(ss, k)
          BY <4>1, <1>0 DEF BlamedStep
        <5>3. CASE R(1)
          BY <5>2, <5>3
        <5>4. CASE ~R(1) /\ R(2)
          BY <5>2, <5>4
        <5>5. CASE ~R(1) /\ ~R(2) /\ R(3)
          BY <5>2, <5>5
        <5>6. CASE ~R(1) /\ ~R(2) /\ ~R(3) /\ R(4)
          BY <5>2, <5>6
        <5> QED
          BY <5>1, <5>3, <5>4, <5>5, <5>6
      <4>2. CASE ~ \E j \in DOMAIN ss : ss[j].status = "running"
        BY <4>2, <2>5 DEF BlamedStep
      <4> QED
        BY <4>1, <4>2
    <3>2. PICK k \in 1..Len(ss) : BlamedStep(ss, k)
      BY <3>1
    <3>3. fs[k].status = "failed"
      BY <3>2, <1>0 DEF StepRows
    <3> QED
      BY <2>1, <2>3, <3>3
  <2> QED
    BY <2>4, <2>5
<1> QED
  BY <1>1, <1>2

LEMMA FailRunSettled ==
    ASSUME NEW row \in Rows, Len(row.steps) = StepCount(row.type)
    PROVE  Settled(FailRun(row))
<1> DEFINE ss == EnsureFailedStep(row.steps)
           es == Append(row.events, "run.failed")
<1>1. row.steps \in Seq(StepRows) /\ row.type \in RunTypes /\ row.events \in Seq(Events)
  BY DEF Rows
<1>2. /\ ss \in Seq(StepRows) /\ Len(ss) = StepCount(row.type)
      /\ ss = <<>> \/ \E k \in 1..Len(ss) : ss[k].status = "failed"
  BY <1>1, StepCountRange, EnsureFailedStepBlames
<1>3. es \in Seq(Events) /\ es # <<>> /\ es[Len(es)] = "run.failed"
  BY <1>1, AppendEvent DEF Events
<1>4. FailRun(row) = [row EXCEPT !.status = "failed", !.steps = ss, !.events = es]
  BY DEF FailRun, Rows
<1> HIDE DEF ss, es
<1> QED
  BY <1>2, <1>3, <1>4 DEF Settled, TruthfulRow, Rows

LEMMA SucceedRunSettled ==
    ASSUME NEW row, NEW p, Active(row, p, "exec"), p > Len(row.steps)
    PROVE  Settled(SucceedRun(row))
<1> DEFINE es == Append(row.events, "run.succeeded")
<1>1. row \in Rows /\ row.steps \in Seq(StepRows) /\ row.events \in Seq(Events)
  BY DEF Active, Rows
<1>2. es \in Seq(Events) /\ es # <<>> /\ es[Len(es)] = "run.succeeded"
  BY <1>1, AppendEvent DEF Events
<1>3. SucceedRun(row) = [row EXCEPT !.status = "succeeded", !.events = es]
  BY <1>1 DEF SucceedRun, Rows
<1>4. \A k \in 1..Len(row.steps) : row.steps[k].status = "succeeded"
  BY <1>1 DEF Active
<1> HIDE DEF es
<1> QED
  BY <1>1, <1>2, <1>3, <1>4 DEF Settled, TruthfulRow, Rows, Active

-----------------------------------------------------------------------------
(* The invariant *)

LEMMA InitInvariant == Init => IInv
<1> SUFFICES ASSUME Init PROVE IInv
  OBVIOUS
<1>1. NoRow \in Rows /\ Settled(NoRow)
  BY EmptyRowsSettled DEF Settled
<1>2. TypeOK
  BY <1>1, RunQueueAssumption DEF Init, TypeOK
<1>3. CommittedRows
  BY <1>1 DEF Init, CommittedRows
<1>4. PendingRows /\ ClaimsHeld
  BY RunQueueAssumption DEF Init, PendingRows, ClaimsHeld, Executing
<1> QED
  BY <1>2, <1>3, <1>4 DEF IInv

\* What a worker sees is a function of well-typed rows.
LEMMA ViewTyped ==
    ASSUME TypeOK, NEW w \in Workers
    PROVE  View(w) \in [Runs -> Rows]
BY DEF View, TypeOK

LEMMA StepPreserves == IInv /\ [Next]_vars => IInv'
<1> SUFFICES ASSUME IInv, [Next]_vars
             PROVE  IInv'
  OBVIOUS
<1> USE RunQueueAssumption DEF IInv
<1>1. CASE UNCHANGED vars
  BY <1>1 DEF vars, TypeOK, CommittedRows, PendingRows, ClaimsHeld, Executing
<1>2. CASE CreateRun
  <2>1. PICK r \in Runs, ws \in Workspaces, t \in ApiRunTypes :
             db' = [db EXCEPT ![r] = NewRow(ws, t, 0)]
    BY <1>2 DEF CreateRun
  <2>2. Settled(NewRow(ws, t, 0)) /\ NewRow(ws, t, 0) \in Rows
    BY EmptyRowsSettled DEF Settled
  <2>3. TypeOK'
    BY <1>2, <2>1, <2>2 DEF CreateRun, TypeOK, txnVars, workerVars
  <2>4. CommittedRows'
    BY <2>1, <2>2 DEF CommittedRows, TypeOK
  <2>5. (PendingRows /\ ClaimsHeld)'
    BY <1>2 DEF CreateRun, PendingRows, ClaimsHeld, Executing, txnVars, workerVars
  <2> QED
    BY <2>3, <2>4, <2>5
<1>3. ASSUME NEW s \in Schedules, CreateRunSchedule(s) PROVE IInv'
  <2>1. TypeOK'
    BY <1>3, RunQueueAssumption DEF CreateRunSchedule, NextDue, TypeOK, txnVars, workerVars
  <2>2. (CommittedRows /\ PendingRows /\ ClaimsHeld)'
    BY <1>3 DEF CreateRunSchedule, CommittedRows, PendingRows, ClaimsHeld, Executing,
                txnVars, workerVars
  <2> QED
    BY <2>1, <2>2
<1>4. CASE PassTime
  <2>1. TypeOK'
    BY <1>4 DEF PassTime, TypeOK, txnVars, workerVars
  <2>2. (CommittedRows /\ PendingRows /\ ClaimsHeld)'
    BY <1>4 DEF PassTime, CommittedRows, PendingRows, ClaimsHeld, Executing,
                txnVars, workerVars
  <2> QED
    BY <2>1, <2>2
<1>5. ASSUME NEW w \in Workers, WorkerStep(w) \/ Abort(w) PROVE IInv'
  <2> USE <1>5
  <2>1. CASE BeginTick(w)
    <3>1. TypeOK'
      BY <2>1 DEF BeginTick, TypeOK, txnVars
    <3>2. (CommittedRows /\ PendingRows /\ ClaimsHeld)'
      BY <2>1 DEF BeginTick, TypeOK, CommittedRows, PendingRows, ClaimsHeld, Executing, txnVars
    <3> QED
      BY <3>1, <3>2
  <2>2. CASE EnqueueDueRun(w)
    <3>1. PICK s \in due[w], r \in Runs :
             /\ IsNextId(r)
             /\ schedLocks' = [schedLocks EXCEPT ![s] = w]
             /\ bufNext' = [bufNext EXCEPT ![w][s] = seenNow[w] + Interval[s]]
             /\ locks' = [locks EXCEPT ![r] = w]
             /\ buf' = [buf EXCEPT ![w][r] =
                            NewRow(ScheduleWorkspace[s], ScheduleRunType[s], s)]
             /\ due' = [due EXCEPT ![w] = @ \ {s}]
      BY <2>2 DEF EnqueueDueRun, NextDue
    <3> DEFINE new == NewRow(ScheduleWorkspace[s], ScheduleRunType[s], s)
    <3>2. s \in Schedules /\ locks[r] = NoWorker /\ pc[w] = "enqueue"
      BY <2>2, <3>1 DEF TypeOK, IsNextId, FreeIds, EnqueueDueRun
    <3>3. Settled(new) /\ new \in Rows
      BY <3>2, EmptyRowsSettled DEF Settled
    <3> HIDE DEF new
    <3>4. UNCHANGED <<now, db, nextRun, pc, seenNow, cur, pos, processed, crashes>>
      BY <2>2 DEF EnqueueDueRun
    <3>5. TypeOK'
      <4>1. seenNow[w] + Interval[s] \in Nat
        BY <3>2 DEF TypeOK
      <4> QED
        BY <3>1, <3>2, <3>3, <3>4, <4>1 DEF TypeOK, new
    <3>6. PendingRows'
      BY <3>1, <3>2, <3>3, <3>4 DEF PendingRows, TypeOK, Executing, new
    <3>7. (CommittedRows /\ ClaimsHeld)'
      BY <3>1, <3>2, <3>4 DEF CommittedRows, ClaimsHeld, TypeOK, Executing
    <3> QED
      BY <3>5, <3>6, <3>7
  <2>3. CASE FinishEnqueue(w)
    <3>1. TypeOK'
      BY <2>3 DEF FinishEnqueue, TypeOK, txnVars
    <3>2. (CommittedRows /\ PendingRows /\ ClaimsHeld)'
      BY <2>3 DEF FinishEnqueue, TypeOK, CommittedRows, PendingRows, ClaimsHeld,
                  Executing, txnVars
    <3> QED
      BY <3>1, <3>2
  <2>4. CASE SelectRun(w)
    <3>1. PICK r \in Runs : cur' = [cur EXCEPT ![w] = r]
      BY <2>4 DEF SelectRun, Candidates
    <3>2. TypeOK'
      BY <2>4, <3>1 DEF SelectRun, TypeOK, txnVars
    <3>3. (CommittedRows /\ PendingRows /\ ClaimsHeld)'
      BY <2>4, <3>1 DEF SelectRun, TypeOK, CommittedRows, PendingRows, ClaimsHeld,
                        Executing, txnVars
    <3> QED
      BY <3>2, <3>3
  <2>5. CASE SelectNothing(w)
    <3>1. TypeOK'
      BY <2>5 DEF SelectNothing, TypeOK, txnVars
    <3>2. (CommittedRows /\ PendingRows /\ ClaimsHeld)'
      BY <2>5 DEF SelectNothing, TypeOK, CommittedRows, PendingRows, ClaimsHeld,
                  Executing, txnVars
    <3> QED
      BY <3>1, <3>2
  <2>6. CASE ClaimRun(w)
    <3> DEFINE r == cur[w]
               new == StartRun(View(w)[r])
    <3>1. r \in Runs /\ locks[r] \in {NoWorker, w} /\ pc[w] = "claim"
      BY <2>6 DEF ClaimRun, ClaimsHeld
    <3>2. Settled(View(w)[r])
      BY <3>1 DEF View, CommittedRows, PendingRows, Executing, TypeOK
    <3>3. Active(new, 1, "exec") /\ new \in Rows
      BY <3>2, StartRunActive DEF Active
    <3> HIDE DEF new
    <3>4. /\ locks' = [locks EXCEPT ![r] = w] /\ buf' = [buf EXCEPT ![w][r] = new]
          /\ pos' = [pos EXCEPT ![w] = 1] /\ pc' = [pc EXCEPT ![w] = "exec"]
          /\ UNCHANGED <<now, db, nextRun, schedLocks, bufNext, due, seenNow, cur,
                         processed, crashes>>
      BY <2>6 DEF ClaimRun, new
    <3>5. TypeOK'
      BY <3>1, <3>3, <3>4 DEF TypeOK
    <3>6. PendingRows'
      BY <3>1, <3>3, <3>4 DEF PendingRows, TypeOK, Executing
    <3>7. (CommittedRows /\ ClaimsHeld)'
      BY <3>1, <3>4 DEF CommittedRows, ClaimsHeld, TypeOK, Executing
    <3> QED
      BY <3>5, <3>6, <3>7
  <2>7. CASE StartStep(w)
    <3> DEFINE r == cur[w]
               new == BeginStep(CurRow(w), pos[w])
    <3>1. r \in Runs /\ locks[r] = w /\ pc[w] = "exec" /\ pos[w] <= Len(CurRow(w).steps)
      BY <2>7 DEF StartStep, ClaimsHeld, Executing
    <3>2. Active(CurRow(w), pos[w], "exec")
      BY <3>1 DEF PendingRows, Executing, CurRow
    <3>3. Active(new, pos[w], "step") /\ new \in Rows
      BY <3>1, <3>2, BeginStepActive DEF Active
    <3> HIDE DEF new
    <3>4. /\ buf' = [buf EXCEPT ![w][r] = new] /\ pc' = [pc EXCEPT ![w] = "step"]
          /\ UNCHANGED <<now, db, nextRun, locks, schedLocks, bufNext, due, seenNow,
                         cur, pos, processed, crashes>>
      BY <2>7 DEF StartStep, new, CurRow, TypeOK
    <3>5. TypeOK'
      BY <3>1, <3>3, <3>4 DEF TypeOK
    <3>6. PendingRows'
      BY <3>1, <3>3, <3>4 DEF PendingRows, TypeOK, Executing
    <3>7. (CommittedRows /\ ClaimsHeld)'
      BY <3>1, <3>4 DEF CommittedRows, ClaimsHeld, TypeOK, Executing
    <3> QED
      BY <3>5, <3>6, <3>7
  <2>8. CASE SucceedStep(w)
    <3> DEFINE r == cur[w]
               new == SetStep(CurRow(w), pos[w], "succeeded")
    <3>1. r \in Runs /\ locks[r] = w /\ pc[w] = "step"
      BY <2>8 DEF SucceedStep, ClaimsHeld, Executing
    <3>2. Active(CurRow(w), pos[w], "step")
      BY <3>1 DEF PendingRows, Executing, CurRow
    <3>3. Active(new, pos[w] + 1, "exec") /\ new \in Rows
      BY <3>1, <3>2, SucceedStepActive DEF Active
    <3> HIDE DEF new
    <3>4. /\ buf' = [buf EXCEPT ![w][r] = new] /\ pc' = [pc EXCEPT ![w] = "exec"]
          /\ pos' = [pos EXCEPT ![w] = pos[w] + 1]
          /\ UNCHANGED <<now, db, nextRun, locks, schedLocks, bufNext, due, seenNow,
                         cur, processed, crashes>>
      BY <2>8 DEF SucceedStep, new, CurRow, TypeOK
    <3>5. TypeOK'
      BY <3>1, <3>3, <3>4 DEF TypeOK
    <3>6. PendingRows'
      BY <3>1, <3>3, <3>4 DEF PendingRows, TypeOK, Executing
    <3>7. (CommittedRows /\ ClaimsHeld)'
      BY <3>1, <3>4 DEF CommittedRows, ClaimsHeld, TypeOK, Executing
    <3> QED
      BY <3>5, <3>6, <3>7
  <2>9. ASSUME NEW row, EndRun(w, row), Executing(w), Settled(row)
        PROVE  IInv'
    <3> DEFINE r == cur[w]
    <3>1. r \in Runs /\ locks[r] = w /\ row \in Rows
      BY <2>9 DEF ClaimsHeld, Settled
    <3>2. /\ buf' = [buf EXCEPT ![w][r] = row] /\ pc' = [pc EXCEPT ![w] = "select"]
          /\ processed' = [processed EXCEPT ![w] = @ + 1]
          /\ UNCHANGED <<now, db, nextRun, locks, schedLocks, bufNext, due, seenNow,
                         cur, pos, crashes>>
      BY <2>9 DEF EndRun
    <3>3. TypeOK'
      BY <3>1, <3>2 DEF TypeOK
    <3>4. PendingRows'
      BY <3>1, <3>2, <2>9 DEF PendingRows, TypeOK, Executing
    <3>5. (CommittedRows /\ ClaimsHeld)'
      BY <3>1, <3>2 DEF CommittedRows, ClaimsHeld, TypeOK, Executing
    <3> QED
      BY <3>3, <3>4, <3>5
  <2>10. ASSUME Executing(w)
         PROVE  /\ CurRow(w) \in Rows /\ Len(CurRow(w).steps) = StepCount(CurRow(w).type)
                /\ Active(CurRow(w), pos[w], pc[w])
    BY <2>10 DEF ClaimsHeld, PendingRows, CurRow, Active
  <2>11. CASE FailStrictIngest(w)
    <3> DEFINE mid == SetStep(CurRow(w), pos[w], "failed")
    <3>1. Executing(w) /\ pc[w] = "step" /\ EndRun(w, FailRun(mid))
      BY <2>11 DEF FailStrictIngest, Executing
    <3>2. CurRow(w) \in Rows /\ Active(CurRow(w), pos[w], "step")
      BY <3>1, <2>10
    <3>3. pos[w] \in 1..Len(CurRow(w).steps)
      <4>1. Len(CurRow(w).steps) \in Nat
        BY <3>2 DEF Rows
      <4> QED
        BY <3>2, <4>1 DEF Active
    <3>4. mid \in Rows /\ Len(mid.steps) = StepCount(mid.type)
      BY <3>2, <3>3, SetStepTyped DEF StepStatus, Active
    <3> HIDE DEF mid
    <3>5. Settled(FailRun(mid))
      BY <3>4, FailRunSettled
    <3> QED
      BY <3>1, <3>5, <2>9
  <2>12. CASE RaiseInStep(w)
    <3>1. Executing(w) /\ EndRun(w, FailRun(CurRow(w)))
      BY <2>12 DEF RaiseInStep, Executing
    <3> QED
      BY <3>1, <2>10, <2>9, FailRunSettled
  <2>13. CASE RaiseUpFront(w)
    <3>1. Executing(w) /\ EndRun(w, FailRun(CurRow(w)))
      BY <2>13 DEF RaiseUpFront, Executing
    <3> QED
      BY <3>1, <2>10, <2>9, FailRunSettled
  <2>14. CASE FinishRun(w)
    <3>1. /\ Executing(w) /\ pc[w] = "exec" /\ EndRun(w, SucceedRun(CurRow(w)))
          /\ pos[w] > Len(CurRow(w).steps)
      BY <2>14 DEF FinishRun, Executing
    <3>2. Settled(SucceedRun(CurRow(w)))
      BY <3>1, <2>10, SucceedRunSettled
    <3> QED
      BY <3>1, <3>2, <2>9
  <2>15. ASSUME CloseSession(w), NEW c \in {"idle", "down"}, pc' = [pc EXCEPT ![w] = c],
                now' = now, db' \in [Runs -> Rows], CommittedRows',
                nextRun' \in [Schedules -> Nat \cup {Never}], crashes' \in Nat
         PROVE  IInv'
    <3>1. NoRow \in Rows
      BY EmptyRowsSettled DEF Settled
    <3>2. TypeOK'
      BY <2>15, <3>1 DEF CloseSession, TypeOK
    <3>3. PendingRows'
      BY <2>15 DEF CloseSession, PendingRows, TypeOK, Executing
    <3>4. ClaimsHeld'
      BY <2>15 DEF CloseSession, ClaimsHeld, TypeOK, Executing
    <3> QED
      BY <3>2, <3>3, <3>4, <2>15
  <2>16. CASE CommitTick(w)
    <3>1. db' = View(w) /\ pc[w] = "commit"
      BY <2>16 DEF CommitTick
    <3>2. db' \in [Runs -> Rows]
      BY <3>1, ViewTyped
    <3>3. CommittedRows'
      BY <3>1 DEF View, CommittedRows, PendingRows, Executing
    <3>4. nextRun' \in [Schedules -> Nat \cup {Never}]
      BY <2>16 DEF CommitTick, TypeOK
    <3> QED
      BY <2>15, <2>16, <3>2, <3>3, <3>4 DEF CommitTick, TypeOK
  <2>17. CASE Abort(w)
    <3>1. /\ CloseSession(w) /\ pc' = [pc EXCEPT ![w] = "down"]
          /\ now' = now /\ db' = db /\ nextRun' = nextRun /\ crashes' = crashes + 1
      BY <2>17 DEF Abort
    <3>2. crashes' \in Nat /\ db' \in [Runs -> Rows] /\ nextRun' \in [Schedules -> Nat \cup {Never}]
      BY <3>1 DEF TypeOK
    <3>3. CommittedRows'
      BY <3>1 DEF CommittedRows
    <3> QED
      BY <2>15, <3>1, <3>2, <3>3
  <2>18. CASE DeadlockVictim(w)
    BY <2>15, <2>18 DEF DeadlockVictim, TypeOK, CommittedRows
  <2>19. CASE Restart(w)
    <3>1. TypeOK'
      BY <2>19 DEF Restart, TypeOK, txnVars
    <3>2. (CommittedRows /\ PendingRows /\ ClaimsHeld)'
      BY <2>19 DEF Restart, TypeOK, CommittedRows, PendingRows, ClaimsHeld, Executing, txnVars
    <3> QED
      BY <3>1, <3>2
  <2> QED
    BY <2>1, <2>2, <2>3, <2>4, <2>5, <2>6, <2>7, <2>8, <2>11, <2>12, <2>13, <2>14,
       <2>16, <2>17, <2>18, <2>19 DEF WorkerStep
<1> QED
  BY <1>1, <1>2, <1>3, <1>4, <1>5 DEF Next

\* The inductive invariant holds of every behaviour.
LEMMA Invariant == Spec => []IInv
BY InitInvariant, StepPreserves, PTL DEF Spec

\* Every variable keeps its type, for any number of workers, runs and crashes.
THEOREM RunQueueTyped == Spec => []TypeOK
<1>1. IInv => TypeOK
  BY DEF IInv
<1> QED
  BY <1>1, Invariant, PTL

\* However many workers overlap, wait for one another, crash and restart, what
\* the database says of a run agrees with its steps and its audit trail, and no
\* run is left "running".
THEOREM RunsTruthful == Spec => []CommittedRunsTruthful
<1>1. IInv => CommittedRunsTruthful
  BY DEF IInv, CommittedRows, CommittedRunsTruthful, Settled
<1> QED
  BY <1>1, Invariant, PTL

-----------------------------------------------------------------------------
(* A single worker *)

AtMostOneWorker == \A v, w \in Workers : v = w

\* A row somebody holds the lock of has no outcome yet, and a selected run is
\* still queued for the worker that selected it.  With two workers the second
\* conjunct is lost when one commits the run the other has selected.
Unsettled ==
    \A w \in Workers :
        /\ \A r \in Runs : locks[r] = w => db[r].status \in {"absent", "queued"}
        /\ pc[w] = "claim" => View(w)[cur[w]].status = "queued"

LEMMA UnsettledInductive ==
    ASSUME AtMostOneWorker, IInv, Unsettled, [Next]_vars
    PROVE  Unsettled'
<1> USE RunQueueAssumption DEF IInv
<1>1. CASE UNCHANGED vars
  BY <1>1 DEF vars, Unsettled, View
<1>2. CASE CreateRun
  <2>1. PICK q \in Runs, ws \in Workspaces, t \in ApiRunTypes :
             IsNextId(q) /\ db' = [db EXCEPT ![q] = NewRow(ws, t, 0)]
    BY <1>2 DEF CreateRun
  <2>2. db[q].status = "absent" /\ locks[q] = NoWorker
    BY <2>1 DEF IsNextId, FreeIds
  <2>3. UNCHANGED <<locks, buf, pc, cur>>
    BY <1>2 DEF CreateRun, txnVars, workerVars
  <2>4. \A r \in Runs : r # q => db'[r] = db[r]
    BY <2>1 DEF TypeOK
  <2> QED
    <3> SUFFICES ASSUME NEW w \in Workers
                 PROVE  /\ \A r \in Runs : locks[r] = w => db'[r].status \in {"absent", "queued"}
                        /\ pc[w] = "claim" => View(w)'[cur[w]].status = "queued"
      BY <2>3 DEF Unsettled
    <3>1. \A r \in Runs : locks[r] = w => db'[r].status \in {"absent", "queued"}
      BY <2>2, <2>4 DEF Unsettled
    <3>2. ASSUME pc[w] = "claim" PROVE View(w)'[cur[w]].status = "queued"
      <4>1. cur[w] \in Runs /\ View(w)[cur[w]].status = "queued"
        BY <3>2 DEF ClaimsHeld, Unsettled
      <4>2. View(w)'[cur[w]] = View(w)[cur[w]]
        BY <2>2, <2>3, <2>4, <4>1 DEF View
      <4> QED
        BY <4>1, <4>2
    <3> QED
      BY <3>1, <3>2
<1>3. ASSUME NEW s \in Schedules, CreateRunSchedule(s) PROVE Unsettled'
  BY <1>3 DEF CreateRunSchedule, Unsettled, View, txnVars, workerVars
<1>4. CASE PassTime
  BY <1>4 DEF PassTime, Unsettled, View, txnVars, workerVars
<1>5. ASSUME NEW w \in Workers, WorkerStep(w) \/ Abort(w) PROVE Unsettled'
  <2>0. \A v \in Workers : v = w
    BY DEF AtMostOneWorker
  <2> USE <1>5, <2>0
  <2>1. CASE \/ BeginTick(w) \/ FinishEnqueue(w) \/ SelectNothing(w) \/ Restart(w)
    <3>1. UNCHANGED <<locks, db, buf, cur>> /\ pc'[w] # "claim"
      BY <2>1 DEF BeginTick, FinishEnqueue, SelectNothing, Restart, txnVars, TypeOK
    <3> QED
      BY <3>1 DEF Unsettled
  <2>2. CASE EnqueueDueRun(w)
    <3>1. PICK q \in Runs : IsNextId(q) /\ locks' = [locks EXCEPT ![q] = w]
      BY <2>2 DEF EnqueueDueRun
    <3>2. db' = db /\ pc' = pc /\ pc[w] = "enqueue" /\ db[q].status = "absent"
      BY <2>2, <3>1 DEF EnqueueDueRun, IsNextId, FreeIds
    <3> QED
      BY <3>1, <3>2 DEF Unsettled, TypeOK
  <2>3. CASE SelectRun(w)
    <3>1. PICK q \in Candidates(View(w)) : cur' = [cur EXCEPT ![w] = q]
      BY <2>3 DEF SelectRun
    <3>2. UNCHANGED <<locks, db, buf>> /\ q \in Runs /\ View(w)[q].status = "queued"
      BY <2>3, <3>1 DEF SelectRun, txnVars, Candidates
    <3> QED
      BY <3>1, <3>2 DEF Unsettled, View, TypeOK
  <2>4. CASE ClaimRun(w)
    <3>1. /\ pc[w] = "claim" /\ cur[w] \in Runs /\ locks[cur[w]] \in {NoWorker, w}
          /\ locks' = [locks EXCEPT ![cur[w]] = w] /\ db' = db
          /\ pc' = [pc EXCEPT ![w] = "exec"]
      BY <2>4 DEF ClaimRun, ClaimsHeld
    <3>2. db[cur[w]].status \in {"absent", "queued"}
      BY <3>1 DEF Unsettled, View
    <3> QED
      BY <3>1, <3>2 DEF Unsettled, TypeOK
  <2>5. CASE StartStep(w) \/ SucceedStep(w)
    BY <2>5 DEF StartStep, SucceedStep, Unsettled, TypeOK
  <2>6. CASE FailStrictIngest(w) \/ RaiseInStep(w) \/ RaiseUpFront(w) \/ FinishRun(w)
    BY <2>6 DEF FailStrictIngest, RaiseInStep, RaiseUpFront, FinishRun, EndRun,
                Unsettled, TypeOK
  <2>7. CASE CommitTick(w) \/ Abort(w) \/ DeadlockVictim(w)
    <3>1. CloseSession(w) /\ pc'[w] # "claim"
      BY <2>7 DEF CommitTick, Abort, DeadlockVictim, TypeOK
    <3>2. \A r \in Runs : locks'[r] = NoWorker
      BY <3>1 DEF CloseSession, TypeOK
    <3> QED
      BY <3>1, <3>2 DEF Unsettled
  <2> QED
    BY <2>1, <2>2, <2>3, <2>4, <2>5, <2>6, <2>7 DEF WorkerStep
<1> QED
  BY <1>1, <1>2, <1>3, <1>4, <1>5 DEF Next

\* With one worker an outcome, once committed, is final: no crash, restart,
\* schedule or later tick touches the row again.
THEOREM SingleWorkerOutcomeFinal ==
    AtMostOneWorker => (Spec => OutcomeIsFinal)
<1> SUFFICES ASSUME AtMostOneWorker PROVE Spec => OutcomeIsFinal
  OBVIOUS
<1>1. Init => Unsettled
  BY RunQueueAssumption DEF Init, Unsettled
<1>2. IInv /\ Unsettled /\ [Next]_vars => Unsettled'
  BY UnsettledInductive
<1>3. IInv /\ Unsettled /\ [Next]_vars =>
         [\A r \in Runs : db[r].status \in {"succeeded", "failed"} => db'[r] = db[r]]_vars
  <2> SUFFICES ASSUME IInv, Unsettled, [Next]_vars, NEW r \in Runs,
                      db[r].status \in {"succeeded", "failed"}
               PROVE  db'[r] = db[r]
    OBVIOUS
  <2>1. CASE CreateRun
    <3>1. PICK q \in Runs, ws \in Workspaces, t \in ApiRunTypes :
               IsNextId(q) /\ db' = [db EXCEPT ![q] = NewRow(ws, t, 0)]
      BY <2>1 DEF CreateRun
    <3> QED
      BY <3>1 DEF IsNextId, FreeIds, IInv, TypeOK
  <2>2. ASSUME NEW w \in Workers, CommitTick(w) PROVE db'[r] = db[r]
    BY <2>2 DEF CommitTick, View, Unsettled
  <2>3. CASE UNCHANGED db
    BY <2>3
  <2>4. \/ CreateRun \/ (\E w \in Workers : CommitTick(w)) \/ UNCHANGED db
    BY DEF Next, vars, CreateRunSchedule, PassTime, WorkerStep, BeginTick,
           EnqueueDueRun, FinishEnqueue, SelectRun, SelectNothing, ClaimRun, StartStep,
           SucceedStep, FailStrictIngest, RaiseInStep, RaiseUpFront, FinishRun, EndRun,
           Abort, DeadlockVictim, Restart
  <2> QED
    BY <2>1, <2>2, <2>3, <2>4
<1> QED
  BY <1>1, <1>2, <1>3, Invariant, PTL DEF Spec, OutcomeIsFinal

\* A row whose steps are the trace of one pass through the DAG.
Traced(row) ==
    \A k \in 1..Len(row.steps) :
        /\ row.steps[k].attempts <= 1
        /\ row.steps[k].status # "running"
        /\ row.steps[k].attempts > 0 =>
              \A j \in 1..(k - 1) : row.steps[j].status = "succeeded"

Fresh(step) == step.status = "queued" /\ step.attempts = 0

\* The row of a run in its first execution, at step p: nothing behind p has been
\* tried twice, and nothing from p on has been touched.
Tracing(row, p, c) ==
    /\ \A k \in 1..Len(row.steps) :
          /\ k < p => row.steps[k].attempts <= 1 /\ row.steps[k].status = "succeeded"
          /\ k = p => IF c = "step" THEN row.steps[k].attempts = 1 /\ row.steps[k].status = "running"
                                    ELSE Fresh(row.steps[k])
          /\ k > p => Fresh(row.steps[k])
    /\ RefusedUpFront(row) => p = 1 /\ c = "exec"

TraceInv ==
    /\ \A r \in Runs : Traced(db[r])
    /\ \A w \in Workers, r \in Runs :
          locks[r] = w => IF Executing(w) /\ r = cur[w]
                          THEN Tracing(buf[w][r], pos[w], pc[w])
                          ELSE Traced(buf[w][r])

\* The runs schedule s has enqueued, among the rows of v.
OfSchedule(v, s) == {r \in Runs : v[r].sched = s}

\* What is committed of a schedule leaves room for the next interval.
ScheduleRoom(s) ==
    /\ Interval[s] * Cardinality(OfSchedule(db, s)) <= now
    /\ nextRun[s] = Never => Cardinality(OfSchedule(db, s)) = 0
    /\ nextRun[s] # Never => Interval[s] * (Cardinality(OfSchedule(db, s)) + 1) <= nextRun[s]

\* A worker has one run pending for each schedule it has advanced, and none for
\* the others; it advances only what was due when its tick began.
ScheduleWork(w, s) ==
    /\ s \in due[w] \/ schedLocks[s] = w =>
          pc[w] \notin {"idle", "down"} /\ nextRun[s] # Never /\ nextRun[s] <= seenNow[w]
    /\ schedLocks[s] = w =>
          /\ s \notin due[w]
          /\ bufNext[w][s] = seenNow[w] + Interval[s]
          /\ Cardinality(OfSchedule(View(w), s)) = Cardinality(OfSchedule(db, s)) + 1
    /\ schedLocks[s] # w => OfSchedule(View(w), s) = OfSchedule(db, s)

ScheduleInv ==
    /\ \A r \in Runs : db[r].status = "absent" => db[r].sched = 0
    /\ \A s \in Schedules : ScheduleRoom(s)
    /\ \A w \in Workers :
          /\ seenNow[w] <= now
          /\ \A r \in Runs : locks[r] = w => buf[w][r].status # "absent"
          /\ \A s \in Schedules : ScheduleWork(w, s)

LEMMA EmptyRowsTraced ==
    Traced(NoRow) /\ \A ws, t, s : Traced(NewRow(ws, t, s))
BY DEF Traced, NoRow, NewRow

LEMMA TraceStart ==
    ASSUME NEW row, Settled(row), row.status = "queued"
    PROVE  Tracing(StartRun(row), 1, "exec") /\ StartRun(row).sched = row.sched
<1>1. row \in Rows /\ row.steps = <<>> /\ row.type \in RunTypes
  BY DEF Settled, TruthfulRow, Rows
<1>2. StepCount(row.type) \in Nat
  BY <1>1, StepCountRange
<1>3. StartRun(row).steps = NewSteps(row.type) /\ StartRun(row).sched = row.sched
  BY <1>1 DEF StartRun, EnsureSteps, Rows
<1>4. \A k \in 1..Len(NewSteps(row.type)) : k \in 1..StepCount(row.type)
  BY <1>1, FreshStepsTyped
<1>5. \A k \in 1..StepCount(row.type) : Fresh(NewSteps(row.type)[k])
  BY <1>2 DEF NewSteps, Fresh
<1> QED
  BY <1>2, <1>3, <1>4, <1>5 DEF Tracing

LEMMA TraceBegin ==
    ASSUME NEW row, NEW p, Active(row, p, "exec"), Tracing(row, p, "exec"), p <= Len(row.steps),
           ~RefusedUpFront(row)
    PROVE  Tracing(BeginStep(row, p), p, "step") /\ BeginStep(row, p).sched = row.sched
<1> DEFINE e == [status |-> "running", attempts |-> row.steps[p].attempts + 1]
           ss == [row.steps EXCEPT ![p] = e]
<1>1. row \in Rows /\ row.steps \in Seq(StepRows)
  BY DEF Active, Rows
<1>2. Len(row.steps) \in Nat /\ p \in 1..Len(row.steps)
  BY <1>1 DEF Active
<1>3. e \in StepRows /\ e.attempts = 1 /\ e.status = "running"
  <2>1. row.steps[p] \in StepRows /\ row.steps[p].attempts = 0
    BY <1>2, <1>1, ElementOfSeq DEF Tracing, Fresh
  <2> QED
    BY <2>1 DEF StepRows, StepStatus
<1>4. BeginStep(row, p) = [row EXCEPT !.steps = ss]
  BY <1>1 DEF BeginStep, Rows
<1>5. /\ ss \in Seq(StepRows) /\ Len(ss) = Len(row.steps) /\ ss[p] = e
      /\ \A j \in 1..Len(row.steps) : j # p => ss[j] = row.steps[j]
  BY <1>1, <1>2, <1>3, ReplaceStep
<1> HIDE DEF ss, e
<1>6. /\ BeginStep(row, p).type = row.type /\ BeginStep(row, p).steps = ss
      /\ BeginStep(row, p).sched = row.sched
  BY <1>1, <1>4 DEF Rows
<1>7. ~RefusedUpFront(BeginStep(row, p))
  BY <1>6 DEF RefusedUpFront
<1> QED
  BY <1>2, <1>3, <1>5, <1>6, <1>7 DEF Tracing

LEMMA TraceSucceed ==
    ASSUME NEW row, NEW p, Active(row, p, "step"), Tracing(row, p, "step")
    PROVE  /\ Tracing(SetStep(row, p, "succeeded"), p + 1, "exec")
           /\ SetStep(row, p, "succeeded").sched = row.sched
<1> DEFINE new == SetStep(row, p, "succeeded")
<1>1. row \in Rows /\ row.steps \in Seq(StepRows)
  BY DEF Active, Rows
<1>2. Len(row.steps) \in Nat /\ p \in 1..Len(row.steps)
  BY <1>1 DEF Active
<1>3. /\ new.type = row.type /\ Len(new.steps) = Len(row.steps)
      /\ new.steps[p].status = "succeeded"
      /\ \A j \in 1..Len(row.steps) : j # p => new.steps[j] = row.steps[j]
  BY <1>1, <1>2, SetStepTyped DEF StepStatus
<1>4. new.steps[p].attempts = 1 /\ new.sched = row.sched
  <2>1. row.steps[p] \in StepRows /\ row.steps[p].attempts = 1
    BY <1>1, <1>2, ElementOfSeq DEF Tracing
  <2>2. new.steps[p] = [row.steps[p] EXCEPT !.status = "succeeded"] /\ new.sched = row.sched
    BY <1>1, <1>2 DEF SetStep, Rows
  <2> QED
    BY <2>1, <2>2 DEF StepRows
<1>5. ~RefusedUpFront(new)
  BY <1>3 DEF Tracing, RefusedUpFront
<1> HIDE DEF new
<1>6. ASSUME NEW k \in 1..Len(new.steps)
      PROVE  /\ k < p + 1 => new.steps[k].attempts <= 1 /\ new.steps[k].status = "succeeded"
             /\ k >= p + 1 => Fresh(new.steps[k])
  BY <1>2, <1>3, <1>4 DEF Tracing
<1> QED
  BY <1>2, <1>4, <1>5, <1>6 DEF Tracing, new

\* The step that fails is the last one that has been tried.
LEMMA TraceFail ==
    ASSUME NEW row, NEW p, NEW c \in {"exec", "step"}, Active(row, p, c), Tracing(row, p, c),
           c = "exec" => p = 1
    PROVE  Traced(FailRun(row)) /\ FailRun(row).sched = row.sched
<1>1. /\ row \in Rows /\ row.steps \in Seq(StepRows) /\ Len(row.steps) \in Nat
      /\ DOMAIN row.steps = 1..Len(row.steps)
  BY DEF Active, Rows
<1>2. p \in Nat /\ 1 <= p /\ (c = "step" => p <= Len(row.steps))
  BY <1>1 DEF Active
<1>3. FailRun(row).steps = EnsureFailedStep(row.steps) /\ FailRun(row).sched = row.sched
  BY <1>1 DEF FailRun, Rows
<1>4. \A k \in 1..Len(row.steps) : row.steps[k].status # "failed"
  BY <1>2 DEF Tracing, Fresh
<1>5. EnsureFailedStep(row.steps)
        = [k \in DOMAIN row.steps |-> IF BlamedStep(row.steps, k)
                                      THEN [row.steps[k] EXCEPT !.status = "failed"]
                                      ELSE row.steps[k]]
  BY <1>1, <1>4 DEF EnsureFailedStep
<1> DEFINE fs == EnsureFailedStep(row.steps)
<1>6. Len(fs) = Len(row.steps) /\ \A k \in 1..Len(row.steps) : row.steps[k] \in StepRows
  BY <1>1, <1>5
<1>7. \A k \in 1..Len(row.steps) : BlamedStep(row.steps, k) <=> k = p
  <2>1. CASE c = "step"
    <3>1. \A k \in 1..Len(row.steps) : row.steps[k].status = "running" <=> k = p
      BY <1>2, <2>1 DEF Tracing, Fresh
    <3> QED
      BY <1>1, <1>2, <2>1, <3>1 DEF BlamedStep
  <2>2. CASE c = "exec"
    <3>1. p = 1 /\ \A k \in 1..Len(row.steps) : row.steps[k].status # "running"
      BY <1>2, <2>2 DEF Tracing, Fresh
    <3> QED
      BY <1>1, <3>1 DEF BlamedStep
  <2> QED
    BY <2>1, <2>2
<1>8. ASSUME NEW k \in 1..Len(row.steps)
      PROVE  /\ fs[k].attempts = row.steps[k].attempts
             /\ fs[k].status = IF k = p THEN "failed" ELSE row.steps[k].status
  BY <1>1, <1>5, <1>6, <1>7 DEF StepRows
<1> HIDE DEF fs
<1>9. ASSUME NEW k \in 1..Len(row.steps)
      PROVE  /\ fs[k].attempts <= 1 /\ fs[k].status # "running"
             /\ fs[k].attempts > 0 => k <= p
  BY <1>2, <1>8 DEF Tracing, Fresh
<1>10. \A j \in 1..Len(row.steps) : j < p => fs[j].status = "succeeded"
  BY <1>2, <1>8 DEF Tracing
<1>11. ASSUME NEW k \in 1..Len(row.steps), fs[k].attempts > 0, NEW j \in 1..(k - 1)
       PROVE  fs[j].status = "succeeded"
  BY <1>1, <1>2, <1>9, <1>10, <1>11
<1> QED
  BY <1>3, <1>6, <1>9, <1>11 DEF Traced, fs

LEMMA TraceFailStrict ==
    ASSUME NEW row, NEW p, Active(row, p, "step"), Tracing(row, p, "step")
    PROVE  /\ Traced(FailRun(SetStep(row, p, "failed")))
           /\ FailRun(SetStep(row, p, "failed")).sched = row.sched
<1> DEFINE mid == SetStep(row, p, "failed")
<1>1. row \in Rows /\ row.steps \in Seq(StepRows)
  BY DEF Active, Rows
<1>2. Len(row.steps) \in Nat /\ p \in 1..Len(row.steps)
  BY <1>1 DEF Active
<1>3. /\ mid \in Rows /\ Len(mid.steps) = Len(row.steps) /\ mid.steps[p].status = "failed"
      /\ \A j \in 1..Len(row.steps) : j # p => mid.steps[j] = row.steps[j]
  <2>1. "failed" \in StepStatus
    BY DEF StepStatus
  <2> HIDE DEF mid
  <2> QED
    BY <1>1, <1>2, <2>1, SetStepTyped DEF mid
<1>4. mid.steps[p].attempts = row.steps[p].attempts /\ mid.sched = row.sched
  <2>1. row.steps[p] \in StepRows
    BY <1>1, <1>2, ElementOfSeq
  <2>2. mid.steps[p] = [row.steps[p] EXCEPT !.status = "failed"] /\ mid.sched = row.sched
    BY <1>1, <1>2 DEF SetStep, Rows
  <2> QED
    BY <2>1, <2>2 DEF StepRows
<1> HIDE DEF mid
<1>5. DOMAIN mid.steps = 1..Len(mid.steps)
  BY <1>3 DEF Rows
<1>6. FailRun(mid).steps = mid.steps /\ FailRun(mid).sched = row.sched
  BY <1>2, <1>3, <1>4, <1>5 DEF FailRun, EnsureFailedStep, Rows
<1>7. ASSUME NEW k \in 1..Len(row.steps)
      PROVE  /\ mid.steps[k].attempts <= 1 /\ mid.steps[k].status # "running"
             /\ mid.steps[k].attempts > 0 => k <= p
             /\ k < p => mid.steps[k].status = "succeeded"
  BY <1>2, <1>3, <1>4 DEF Tracing, Fresh
<1>8. ASSUME NEW k \in 1..Len(row.steps), mid.steps[k].attempts > 0, NEW j \in 1..(k - 1)
      PROVE  mid.steps[j].status = "succeeded"
  BY <1>2, <1>7, <1>8
<1> QED
  BY <1>3, <1>6, <1>7, <1>8 DEF Traced, mid

LEMMA TraceFinish ==
    ASSUME NEW row, NEW p, Active(row, p, "exec"), Tracing(row, p, "exec"), p > Len(row.steps)
    PROVE  Traced(SucceedRun(row)) /\ SucceedRun(row).sched = row.sched
<1>1. /\ row \in Rows /\ Len(row.steps) \in Nat /\ p \in Nat
      /\ SucceedRun(row).steps = row.steps /\ SucceedRun(row).sched = row.sched
  BY DEF SucceedRun, Active, Rows
<1>2. \A k \in 1..Len(row.steps) : row.steps[k].attempts <= 1 /\ row.steps[k].status = "succeeded"
  BY <1>1 DEF Tracing
<1>3. ASSUME NEW k \in 1..Len(row.steps), NEW j \in 1..(k - 1)
      PROVE  row.steps[j].status = "succeeded"
  BY <1>1, <1>2, <1>3
<1> QED
  BY <1>1, <1>2, <1>3 DEF Traced

\* Whatever the step, a worker that has its session closed leaves no row behind.
LEMMA TracePreserved ==
    ASSUME AtMostOneWorker, IInv, Unsettled, TraceInv, [Next]_vars
    PROVE  TraceInv'
<1> USE RunQueueAssumption DEF IInv
<1>1. CASE UNCHANGED vars
  BY <1>1 DEF vars, TraceInv, Executing
<1>2. CASE CreateRun
  <2>1. PICK q \in Runs, ws \in Workspaces, t \in ApiRunTypes :
             db' = [db EXCEPT ![q] = NewRow(ws, t, 0)]
    BY <1>2 DEF CreateRun
  <2>2. Traced(NewRow(ws, t, 0)) /\ UNCHANGED <<locks, buf, pc, cur, pos>>
    BY <1>2, EmptyRowsTraced DEF CreateRun, txnVars, workerVars
  <2> QED
    BY <2>1, <2>2 DEF TraceInv, Executing, TypeOK
<1>3. CASE PassTime \/ \E s \in Schedules : CreateRunSchedule(s)
  BY <1>3 DEF PassTime, CreateRunSchedule, TraceInv, Executing, txnVars, workerVars
<1>4. ASSUME NEW w \in Workers, WorkerStep(w) \/ Abort(w) PROVE TraceInv'
  <2>0. \A v \in Workers : v = w
    BY DEF AtMostOneWorker
  <2>1. CASE BeginTick(w) \/ FinishEnqueue(w) \/ SelectNothing(w) \/ SelectRun(w) \/ Restart(w)
    <3>1. UNCHANGED <<locks, db, buf, pos>> /\ ~Executing(w) /\ ~Executing(w)'
      BY <2>1 DEF BeginTick, FinishEnqueue, SelectNothing, SelectRun, Restart, txnVars, TypeOK,
                  Executing
    <3> QED
      BY <2>0, <3>1 DEF TraceInv
  <2>2. CASE EnqueueDueRun(w)
    <3>1. PICK s \in due[w], q \in Runs :
             /\ locks' = [locks EXCEPT ![q] = w]
             /\ buf' = [buf EXCEPT ![w][q] = NewRow(ScheduleWorkspace[s], ScheduleRunType[s], s)]
      BY <2>2 DEF EnqueueDueRun
    <3>2. /\ UNCHANGED <<db, pc>> /\ pc[w] = "enqueue"
          /\ Traced(NewRow(ScheduleWorkspace[s], ScheduleRunType[s], s))
      BY <2>2, EmptyRowsTraced DEF EnqueueDueRun
    <3> QED
      BY <2>0, <3>1, <3>2 DEF TraceInv, Executing, TypeOK
  <2>3. CASE ClaimRun(w)
    <3> DEFINE r == cur[w]
               new == StartRun(View(w)[r])
    <3>1. r \in Runs /\ locks[r] \in {NoWorker, w} /\ pc[w] = "claim"
      BY <2>3 DEF ClaimRun, ClaimsHeld
    <3>2. Settled(View(w)[r]) /\ View(w)[r].status = "queued"
      BY <3>1 DEF View, CommittedRows, PendingRows, Executing, TypeOK, Unsettled
    <3>3. Tracing(new, 1, "exec")
      BY <3>2, TraceStart
    <3> HIDE DEF new
    <3>4. /\ locks' = [locks EXCEPT ![r] = w] /\ buf' = [buf EXCEPT ![w][r] = new]
          /\ pos' = [pos EXCEPT ![w] = 1] /\ pc' = [pc EXCEPT ![w] = "exec"]
          /\ UNCHANGED <<db, cur>>
      BY <2>3 DEF ClaimRun, new
    <3> QED
      BY <2>0, <3>1, <3>3, <3>4 DEF TraceInv, TypeOK, Executing
  <2>4. ASSUME Executing(w)
        PROVE  /\ cur[w] \in Runs /\ locks[cur[w]] = w
               /\ Active(CurRow(w), pos[w], pc[w]) /\ Tracing(CurRow(w), pos[w], pc[w])
    BY <2>4 DEF ClaimsHeld, PendingRows, TraceInv, CurRow
  <2>5. ASSUME NEW new, NEW p, NEW c \in {"exec", "step"}, Executing(w), Tracing(new, p, c),
               buf' = [buf EXCEPT ![w][cur[w]] = new], pos' = [pos EXCEPT ![w] = p],
               pc' = [pc EXCEPT ![w] = c], UNCHANGED <<db, locks, cur>>
        PROVE  TraceInv'
    BY <2>0, <2>4, <2>5 DEF TraceInv, TypeOK, Executing
  <2>11. CASE StartStep(w)
    <3>1. Executing(w) /\ Tracing(BeginStep(CurRow(w), pos[w]), pos[w], "step")
      BY <2>4, <2>11, TraceBegin DEF StartStep, Executing
    <3>2. /\ buf' = [buf EXCEPT ![w][cur[w]] = BeginStep(CurRow(w), pos[w])]
          /\ pos' = [pos EXCEPT ![w] = pos[w]] /\ pc' = [pc EXCEPT ![w] = "step"]
          /\ UNCHANGED <<db, locks, cur>>
      BY <2>11 DEF StartStep, CurRow, TypeOK
    <3> QED
      BY <2>5, <3>1, <3>2
  <2>12. CASE SucceedStep(w)
    <3>1. Executing(w) /\ Tracing(SetStep(CurRow(w), pos[w], "succeeded"), pos[w] + 1, "exec")
      BY <2>4, <2>12, TraceSucceed DEF SucceedStep, Executing
    <3>2. /\ buf' = [buf EXCEPT ![w][cur[w]] = SetStep(CurRow(w), pos[w], "succeeded")]
          /\ pos' = [pos EXCEPT ![w] = pos[w] + 1] /\ pc' = [pc EXCEPT ![w] = "exec"]
          /\ UNCHANGED <<db, locks, cur>>
      BY <2>12 DEF SucceedStep, CurRow, TypeOK
    <3> QED
      BY <2>5, <3>1, <3>2
  <2>6. ASSUME NEW row, EndRun(w, row), Executing(w), Traced(row)
        PROVE  TraceInv'
    BY <2>0, <2>4, <2>6 DEF EndRun, TraceInv, TypeOK, Executing
  <2>7. CASE FailStrictIngest(w)
    <3>1. Executing(w) /\ pc[w] = "step" /\ EndRun(w, FailRun(SetStep(CurRow(w), pos[w], "failed")))
      BY <2>7 DEF FailStrictIngest, Executing
    <3> QED
      BY <2>4, <2>6, <3>1, TraceFailStrict
  <2>8. CASE RaiseInStep(w) \/ RaiseUpFront(w)
    <3>1. Executing(w) /\ pc[w] \in {"exec", "step"} /\ EndRun(w, FailRun(CurRow(w)))
          /\ (pc[w] = "exec" => RefusedUpFront(CurRow(w)))
      BY <2>8 DEF RaiseInStep, RaiseUpFront, Executing
    <3>2. pc[w] = "exec" => pos[w] = 1
      BY <2>4, <3>1 DEF Tracing
    <3> QED
      BY <2>4, <2>6, <3>1, <3>2, TraceFail
  <2>9. CASE FinishRun(w)
    <3>1. /\ Executing(w) /\ pc[w] = "exec" /\ EndRun(w, SucceedRun(CurRow(w)))
          /\ pos[w] > Len(CurRow(w).steps)
      BY <2>9 DEF FinishRun, Executing
    <3> QED
      BY <2>4, <2>6, <3>1, TraceFinish
  <2>10. CASE CommitTick(w) \/ Abort(w) \/ DeadlockVictim(w)
    <3>1. CloseSession(w)
      BY <2>10 DEF CommitTick, Abort, DeadlockVictim
    <3>2. \A r \in Runs : locks'[r] = NoWorker
      BY <2>0, <3>1 DEF CloseSession, TypeOK
    <3>3. \A r \in Runs : Traced(db'[r])
      BY <2>10 DEF CommitTick, Abort, DeadlockVictim, View, TraceInv, Executing
    <3> QED
      BY <3>2, <3>3 DEF TraceInv
  <2> QED
    BY <1>4, <2>1, <2>2, <2>3, <2>7, <2>8, <2>9, <2>10, <2>11, <2>12 DEF WorkerStep
<1> QED
  BY <1>1, <1>2, <1>3, <1>4 DEF Next

\* With one worker every committed step row is the trace of a single pass
\* through its run's DAG: no step is tried twice or left running, and a step
\* that was tried had every step before it succeeded.
THEOREM SingleWorkerStepsFollowDag ==
    AtMostOneWorker => (Spec => []StepsFollowDag)
<1> SUFFICES ASSUME AtMostOneWorker PROVE Spec => []StepsFollowDag
  OBVIOUS
<1>1. Init => Unsettled
  BY RunQueueAssumption DEF Init, Unsettled
<1>2. IInv /\ Unsettled /\ [Next]_vars => Unsettled'
  BY UnsettledInductive
<1>3. Init => TraceInv
  BY EmptyRowsTraced, RunQueueAssumption DEF Init, TraceInv
<1>4. IInv /\ Unsettled /\ TraceInv /\ [Next]_vars => TraceInv'
  BY TracePreserved
<1>5. TraceInv => StepsFollowDag
  BY DEF TraceInv, Traced, StepsFollowDag
<1> QED
  BY <1>1, <1>2, <1>3, <1>4, <1>5, Invariant, PTL DEF Spec

-----------------------------------------------------------------------------
(* Schedules *)

LEMMA OfScheduleFinite ==
    ASSUME NEW v, NEW s
    PROVE  IsFiniteSet(OfSchedule(v, s)) /\ Cardinality(OfSchedule(v, s)) \in Nat
<1>1. IsFiniteSet(Runs)
  BY RunQueueAssumption, FS_Interval DEF Runs
<1>2. OfSchedule(v, s) \in SUBSET Runs
  BY DEF OfSchedule
<1> QED
  BY <1>1, <1>2, FS_Subset, FS_CardinalityType

\* One more run fits once the next one was due at t, no later than m.
LEMMA OneMoreInterval ==
    ASSUME NEW i \in Nat, NEW c \in Nat, NEW t \in Nat, NEW m \in Nat,
           i * (c + 1) <= t, t <= m
    PROVE  i * (c + 1) <= m /\ i * ((c + 1) + 1) <= m + i
<1>1. i * ((c + 1) + 1) = i * (c + 1) + i
  OBVIOUS
<1>2. i * (c + 1) \in Nat
  OBVIOUS
<1> QED
  BY <1>1, <1>2

\* A step that touches no schedule and changes no row's schedule keeps the
\* schedules' invariant.
LEMMA ScheduleFrame ==
    ASSUME ScheduleInv, NEW w \in Workers, \A v \in Workers : v = w,
           UNCHANGED <<now, db, nextRun, schedLocks, bufNext, seenNow, due>>,
           pc'[w] \notin {"idle", "down"} \/ pc[w] \in {"idle", "down"},
           \A r \in Runs : locks'[r] = w => buf'[w][r].status # "absent",
           \A r \in Runs : View(w)'[r].sched = View(w)[r].sched
    PROVE  ScheduleInv'
<1>1. \A s \in Schedules : OfSchedule(View(w), s)' = OfSchedule(View(w), s)
  BY DEF OfSchedule
<1>2. \A s \in Schedules : OfSchedule(db, s)' = OfSchedule(db, s)
  BY DEF OfSchedule
<1>3. \A s \in Schedules : ScheduleRoom(s)'
  BY <1>2 DEF ScheduleInv, ScheduleRoom
<1>4. \A r \in Runs : db'[r].status = "absent" => db'[r].sched = 0
  BY DEF ScheduleInv
<1>5. \A s \in Schedules : ScheduleWork(w, s)'
  BY <1>1, <1>2 DEF ScheduleInv, ScheduleWork
<1> QED
  BY <1>3, <1>4, <1>5 DEF ScheduleInv

LEMMA ScheduleInvPreserved ==
    ASSUME AtMostOneWorker, IInv, Unsettled, ScheduleInv, [Next]_vars
    PROVE  ScheduleInv'
<1> USE DEF IInv
<1>a. /\ NoWorker \notin Workers /\ Never \notin Nat
      /\ \A s \in Schedules : s # 0 /\ Interval[s] \in Nat
  BY RunQueueAssumption
<1>0. ASSUME UNCHANGED <<db, locks, buf>>
      PROVE  /\ \A s \in Schedules : OfSchedule(db, s)' = OfSchedule(db, s)
             /\ \A w \in Workers, s \in Schedules : OfSchedule(View(w), s)' = OfSchedule(View(w), s)
  BY <1>0 DEF OfSchedule, View
<1>1. CASE UNCHANGED vars
  <2>1. UNCHANGED <<now, db, nextRun, locks, buf, schedLocks, bufNext, pc, due, seenNow>>
    BY <1>1 DEF vars
  <2>2. \A s \in Schedules : ScheduleRoom(s)'
    BY <1>0, <2>1 DEF ScheduleInv, ScheduleRoom
  <2>3. \A w \in Workers, s \in Schedules : ScheduleWork(w, s)'
    BY <1>0, <2>1 DEF ScheduleInv, ScheduleWork
  <2> QED
    BY <2>1, <2>2, <2>3 DEF ScheduleInv
<1>2. CASE CreateRun
  <2>1. PICK q \in Runs, ws \in Workspaces, t \in ApiRunTypes :
             IsNextId(q) /\ db' = [db EXCEPT ![q] = NewRow(ws, t, 0)]
    BY <1>2 DEF CreateRun
  <2>2. locks[q] = NoWorker /\ db[q].sched = 0
    BY <2>1 DEF IsNextId, FreeIds, ScheduleInv
  <2>3. UNCHANGED <<now, nextRun, locks, buf, schedLocks, bufNext, pc, due, seenNow>>
    BY <1>2 DEF CreateRun, txnVars, workerVars
  <2>4. \A r \in Runs : db'[r].sched = db[r].sched
    BY <2>1, <2>2 DEF TypeOK, NewRow
  <2>5. \A s \in Schedules : OfSchedule(db, s)' = OfSchedule(db, s)
    BY <2>4 DEF OfSchedule
  <2>6. \A w \in Workers, s \in Schedules : OfSchedule(View(w), s)' = OfSchedule(View(w), s)
    BY <1>a, <2>2, <2>3, <2>4 DEF OfSchedule, View
  <2>7. \A s \in Schedules : ScheduleRoom(s)'
    BY <2>3, <2>5 DEF ScheduleInv, ScheduleRoom
  <2>8. \A r \in Runs : db'[r].status = "absent" => db'[r].sched = 0
    BY <2>1, <2>4 DEF ScheduleInv, TypeOK, NewRow
  <2>9. \A w \in Workers, s \in Schedules : ScheduleWork(w, s)'
    BY <2>3, <2>5, <2>6 DEF ScheduleInv, ScheduleWork
  <2> QED
    BY <2>3, <2>7, <2>8, <2>9 DEF ScheduleInv
<1>3. ASSUME NEW s \in Schedules, CreateRunSchedule(s) PROVE ScheduleInv'
  <2>1. /\ nextRun[s] = Never /\ nextRun' = [nextRun EXCEPT ![s] = now + Interval[s]]
        /\ UNCHANGED <<now, db, locks, buf, schedLocks, bufNext, pc, due, seenNow>>
    BY <1>3 DEF CreateRunSchedule, NextDue, txnVars, workerVars
  <2>2. \A w \in Workers : schedLocks[s] # w /\ s \notin due[w]
    BY <2>1 DEF ScheduleInv, ScheduleWork
  <2>3. ScheduleRoom(s)'
    <3>1. Cardinality(OfSchedule(db, s))' = 0
      BY <1>0, <2>1 DEF ScheduleInv, ScheduleRoom
    <3>2. nextRun'[s] = now + Interval[s] /\ Interval[s] \in Nat /\ now \in Nat /\ now' = now
      BY <1>a, <2>1 DEF TypeOK
    <3>3. nextRun'[s] # Never
      BY <1>a, <3>2
    <3> QED
      BY <3>1, <3>2, <3>3 DEF ScheduleRoom
  <2>4. \A s2 \in Schedules : s2 # s => nextRun'[s2] = nextRun[s2]
    BY <2>1 DEF TypeOK
  <2>5. \A s2 \in Schedules : ScheduleRoom(s2)'
    BY <1>0, <2>1, <2>3, <2>4 DEF ScheduleInv, ScheduleRoom
  <2>6. \A w \in Workers, s2 \in Schedules : ScheduleWork(w, s2)'
    BY <1>0, <2>1, <2>2, <2>4 DEF ScheduleInv, ScheduleWork
  <2> QED
    BY <2>1, <2>5, <2>6 DEF ScheduleInv
<1>4. CASE PassTime
  <2>1. /\ now' = now + 1 /\ now \in Nat
        /\ UNCHANGED <<db, nextRun, locks, buf, schedLocks, bufNext, pc, due, seenNow>>
    BY <1>4 DEF PassTime, txnVars, workerVars, TypeOK
  <2>2. \A s \in Schedules : ScheduleRoom(s)'
    <3> TAKE s \in Schedules
    <3>1. Cardinality(OfSchedule(db, s)) \in Nat /\ Interval[s] \in Nat
      BY <1>a, OfScheduleFinite
    <3>2. Interval[s] * Cardinality(OfSchedule(db, s)) \in Nat
      BY <3>1
    <3> QED
      BY <1>0, <2>1, <3>2 DEF ScheduleInv, ScheduleRoom
  <2>3. \A w \in Workers : seenNow'[w] <= now'
    BY <2>1 DEF ScheduleInv, TypeOK
  <2>4. \A w \in Workers, s \in Schedules : ScheduleWork(w, s)'
    BY <1>0, <2>1 DEF ScheduleInv, ScheduleWork
  <2> QED
    BY <2>1, <2>2, <2>3, <2>4 DEF ScheduleInv
<1>5. ASSUME NEW w \in Workers, WorkerStep(w) \/ Abort(w) PROVE ScheduleInv'
  <2>0. \A v \in Workers : v = w
    BY DEF AtMostOneWorker
  <2>1. CASE FinishEnqueue(w) \/ SelectNothing(w) \/ SelectRun(w) \/ Restart(w)
    <3>1. /\ UNCHANGED <<now, db, nextRun, locks, buf, schedLocks, bufNext, due, seenNow>>
          /\ pc'[w] \notin {"idle", "down"} \/ pc[w] \in {"idle", "down"}
      BY <2>1 DEF FinishEnqueue, SelectNothing, SelectRun, Restart, txnVars, TypeOK
    <3>2. /\ \A r \in Runs : locks'[r] = w => buf'[w][r].status # "absent"
          /\ \A r \in Runs : View(w)'[r].sched = View(w)[r].sched
      BY <3>1 DEF ScheduleInv, View
    <3> QED
      BY <2>0, <3>1, <3>2, ScheduleFrame
  <2>2. CASE BeginTick(w)
    <3>1. /\ UNCHANGED <<now, db, nextRun, locks, buf, schedLocks, bufNext>> /\ pc[w] = "idle"
          /\ pc'[w] = "enqueue" /\ seenNow'[w] = now
          /\ due'[w] = {s \in Schedules : nextRun[s] # Never /\ nextRun[s] <= now}
      BY <2>2 DEF BeginTick, txnVars, TypeOK
    <3>2. \A s \in Schedules : schedLocks[s] # w
      BY <3>1 DEF ScheduleInv, ScheduleWork
    <3>3. \A s \in Schedules : ScheduleRoom(s)'
      BY <1>0, <3>1 DEF ScheduleInv, ScheduleRoom
    <3>4. \A s \in Schedules : ScheduleWork(w, s)'
      BY <1>0, <3>1, <3>2 DEF ScheduleInv, ScheduleWork
    <3>5. seenNow'[w] <= now'
      BY <3>1 DEF TypeOK
    <3> QED
      BY <2>0, <3>1, <3>3, <3>4, <3>5 DEF ScheduleInv
  <2>3. CASE EnqueueDueRun(w)
    <3>1. PICK s \in due[w], q \in Runs :
             /\ IsNextId(q) /\ schedLocks' = [schedLocks EXCEPT ![s] = w]
             /\ bufNext' = [bufNext EXCEPT ![w][s] = NextDue(s, seenNow[w])]
             /\ locks' = [locks EXCEPT ![q] = w]
             /\ buf' = [buf EXCEPT ![w][q] = NewRow(ScheduleWorkspace[s], ScheduleRunType[s], s)]
             /\ due' = [due EXCEPT ![w] = @ \ {s}]
      BY <2>3 DEF EnqueueDueRun
    <3>2. s \in Schedules /\ s # 0 /\ UNCHANGED <<now, db, nextRun, pc, seenNow>>
      BY <1>a, <2>3, <3>1 DEF EnqueueDueRun, TypeOK
    <3>3. View(w)[q].sched = 0
      BY <1>a, <3>1 DEF IsNextId, FreeIds, ScheduleInv, View
    <3>4. /\ View(w)'[q].sched = s
          /\ \A r \in Runs : r # q => View(w)'[r].sched = View(w)[r].sched
      <4>1. locks'[q] = w /\ \A r \in Runs : r # q => locks'[r] = locks[r]
        BY <3>1 DEF TypeOK
      <4>2. buf'[w][q].sched = s /\ \A r \in Runs : r # q => buf'[w][r] = buf[w][r]
        BY <3>1 DEF TypeOK, NewRow
      <4> QED
        BY <3>2, <4>1, <4>2 DEF View
    <3>5. OfSchedule(View(w), s)' = OfSchedule(View(w), s) \cup {q} /\ q \notin OfSchedule(View(w), s)
      BY <3>2, <3>3, <3>4 DEF OfSchedule
    <3>6. \A s2 \in Schedules : s2 # s => OfSchedule(View(w), s2)' = OfSchedule(View(w), s2)
      BY <1>a, <3>2, <3>3, <3>4 DEF OfSchedule
    <3>7. \A s2 \in Schedules : OfSchedule(db, s2)' = OfSchedule(db, s2)
      BY <3>2 DEF OfSchedule
    <3>8. Cardinality(OfSchedule(View(w), s))' = Cardinality(OfSchedule(db, s))' + 1
      <4>1. OfSchedule(View(w), s) = OfSchedule(db, s)
        BY <3>1, <3>2 DEF ScheduleInv, ScheduleWork
      <4>2. Cardinality(OfSchedule(View(w), s) \cup {q}) = Cardinality(OfSchedule(View(w), s)) + 1
        BY <3>5, OfScheduleFinite, FS_AddElement
      <4> QED
        BY <3>2, <3>5, <3>7, <4>1, <4>2
    <3>9. \A s2 \in Schedules : ScheduleRoom(s2)'
      BY <3>2, <3>7 DEF ScheduleInv, ScheduleRoom
    <3>10. \A r \in Runs : locks'[r] = w => buf'[w][r].status # "absent"
      BY <3>1 DEF ScheduleInv, TypeOK, NewRow
    <3>11. bufNext'[w][s] = seenNow'[w] + Interval[s]
      BY <3>1, <3>2 DEF NextDue, TypeOK
    <3>12. \A s2 \in Schedules : s2 # s => bufNext'[w][s2] = bufNext[w][s2]
      BY <3>1 DEF TypeOK
    <3>13. schedLocks'[s] = w /\ \A s2 \in Schedules : s2 # s => schedLocks'[s2] = schedLocks[s2]
      BY <3>1, <3>2 DEF TypeOK
    <3>14. due'[w] = due[w] \ {s}
      BY <3>1 DEF TypeOK
    <3>15. /\ \A r \in Runs : db'[r].status = "absent" => db'[r].sched = 0
           /\ seenNow'[w] <= now'
      BY <3>2 DEF ScheduleInv
    <3>16. ASSUME NEW s2 \in Schedules PROVE ScheduleWork(w, s2)'
      <4>1. CASE s2 = s
        BY <3>1, <3>2, <3>8, <3>11, <3>13, <3>14, <4>1 DEF ScheduleInv, ScheduleWork
      <4>2. CASE s2 # s
        BY <3>2, <3>6, <3>7, <3>12, <3>13, <3>14, <4>2 DEF ScheduleInv, ScheduleWork
      <4> QED
        BY <4>1, <4>2
    <3> QED
      BY <2>0, <3>9, <3>10, <3>15, <3>16 DEF ScheduleInv
  <2>4. ASSUME NEW q \in Runs, NEW row, row.sched = View(w)[q].sched, row.status # "absent",
               buf' = [buf EXCEPT ![w][q] = row], locks' = [locks EXCEPT ![q] = w],
               UNCHANGED <<now, db, nextRun, schedLocks, bufNext, seenNow, due>>,
               pc'[w] \notin {"idle", "down"}
        PROVE  ScheduleInv'
    <3>1. /\ \A r \in Runs : locks'[r] = w => buf'[w][r].status # "absent"
          /\ \A r \in Runs : View(w)'[r].sched = View(w)[r].sched
      <4>1. /\ locks'[q] = w /\ \A r \in Runs : r # q => locks'[r] = locks[r]
            /\ buf'[w][q] = row /\ \A r \in Runs : r # q => buf'[w][r] = buf[w][r]
        BY <2>4 DEF TypeOK
      <4> QED
        BY <2>4, <4>1 DEF ScheduleInv, View
    <3> QED
      BY <2>0, <2>4, <3>1, ScheduleFrame
  <2>5. CASE ClaimRun(w)
    <3> DEFINE row == View(w)[cur[w]]
    <3>1. cur[w] \in Runs /\ pc[w] = "claim" /\ locks[cur[w]] \in {NoWorker, w}
      BY <2>5 DEF ClaimRun, ClaimsHeld
    <3>2. Settled(row) /\ row.status = "queued"
      BY <1>a, <3>1 DEF View, CommittedRows, PendingRows, Executing, Unsettled
    <3>3. StartRun(row).sched = row.sched /\ StartRun(row).status # "absent"
      BY <3>2, TraceStart DEF StartRun, Settled, Rows
    <3>4. /\ buf' = [buf EXCEPT ![w][cur[w]] = StartRun(row)] /\ locks' = [locks EXCEPT ![cur[w]] = w]
          /\ UNCHANGED <<now, db, nextRun, schedLocks, bufNext, seenNow, due>>
          /\ pc'[w] \notin {"idle", "down"}
      BY <2>5 DEF ClaimRun, TypeOK
    <3> HIDE DEF row
    <3> QED
      BY <2>4, <3>1, <3>3, <3>4 DEF row
  <2>6. ASSUME Executing(w)
        PROVE  /\ cur[w] \in Runs /\ locks[cur[w]] = w /\ CurRow(w) \in Rows
               /\ CurRow(w).status = "running" /\ pos[w] \in 1..(Len(CurRow(w).steps) + 1)
               /\ CurRow(w) = View(w)[cur[w]] /\ locks = [locks EXCEPT ![cur[w]] = w]
    BY <2>6 DEF ClaimsHeld, PendingRows, Active, CurRow, View, TypeOK
  <2>7. CASE StartStep(w) \/ SucceedStep(w)
    <3>1. /\ Executing(w) /\ pc'[w] \notin {"idle", "down"}
          /\ UNCHANGED <<now, db, nextRun, locks, schedLocks, bufNext, seenNow, due>>
      BY <2>7 DEF StartStep, SucceedStep, Executing, TypeOK
    <3>2. PICK row \in {BeginStep(CurRow(w), pos[w]), SetStep(CurRow(w), pos[w], "succeeded")} :
             buf' = [buf EXCEPT ![w][cur[w]] = row]
      BY <2>7 DEF StartStep, SucceedStep, CurRow, TypeOK
    <3>3. row.sched = CurRow(w).sched /\ row.status = "running"
      BY <2>6, <3>1, <3>2 DEF BeginStep, SetStep, Rows
    <3> QED
      BY <2>4, <2>6, <3>1, <3>2, <3>3
  <2>8. CASE FailStrictIngest(w) \/ RaiseInStep(w) \/ RaiseUpFront(w) \/ FinishRun(w)
    <3>1. Executing(w)
      BY <2>8 DEF FailStrictIngest, RaiseInStep, RaiseUpFront, FinishRun, Executing
    <3>2. PICK row \in {FailRun(SetStep(CurRow(w), pos[w], "failed")), FailRun(CurRow(w)),
                        SucceedRun(CurRow(w))} : EndRun(w, row)
      BY <2>8 DEF FailStrictIngest, RaiseInStep, RaiseUpFront, FinishRun
    <3>3. row.sched = CurRow(w).sched /\ row.status \in {"failed", "succeeded"}
      BY <2>6, <3>1, <3>2 DEF FailRun, SucceedRun, SetStep, Rows
    <3>4. /\ pc'[w] \notin {"idle", "down"} /\ buf' = [buf EXCEPT ![w][cur[w]] = row]
          /\ UNCHANGED <<now, db, nextRun, locks, schedLocks, bufNext, seenNow, due>>
      BY <3>2 DEF EndRun, TypeOK
    <3> QED
      BY <2>4, <2>6, <3>1, <3>3, <3>4
  <2>9. CASE CommitTick(w) \/ Abort(w) \/ DeadlockVictim(w)
    <3>1. /\ CloseSession(w) /\ UNCHANGED now
          /\ \/ UNCHANGED <<db, nextRun>>
             \/ /\ db' = View(w)
                /\ nextRun' = [s \in Schedules |-> IF schedLocks[s] = w THEN bufNext[w][s]
                                                                        ELSE nextRun[s]]
      BY <2>9 DEF CommitTick, Abort, DeadlockVictim
    <3>2. /\ \A r \in Runs : locks'[r] # w
          /\ \A s \in Schedules : schedLocks'[s] # w
          /\ due'[w] = {} /\ seenNow'[w] = 0
      BY <1>a, <3>1 DEF CloseSession, TypeOK
    <3>3. \A s \in Schedules : OfSchedule(View(w), s)' = OfSchedule(db, s)'
      BY <3>2 DEF OfSchedule, View
    <3>4. \A r \in Runs : db'[r].status = "absent" => db'[r].sched = 0
      BY <3>1 DEF ScheduleInv, View
    <3>5. ASSUME NEW s \in Schedules PROVE ScheduleRoom(s)'
      <4>1. CASE UNCHANGED <<db, nextRun>>
        <5>1. OfSchedule(db, s)' = OfSchedule(db, s)
          BY <4>1 DEF OfSchedule
        <5> QED
          BY <3>1, <4>1, <5>1 DEF ScheduleInv, ScheduleRoom
      <4>2. CASE db' = View(w) /\ nextRun' = [z \in Schedules |-> IF schedLocks[z] = w THEN bufNext[w][z]
                                                                                      ELSE nextRun[z]]
        <5>1. OfSchedule(db, s)' = OfSchedule(View(w), s)
          BY <4>2 DEF OfSchedule
        <5>2. CASE schedLocks[s] # w
          BY <3>1, <4>2, <5>1, <5>2 DEF ScheduleInv, ScheduleRoom, ScheduleWork
        <5>3. CASE schedLocks[s] = w
          <6> DEFINE c == Cardinality(OfSchedule(db, s))
          <6>1. /\ c \in Nat /\ Interval[s] \in Nat /\ Cardinality(OfSchedule(db, s))' = c + 1
                /\ nextRun'[s] = seenNow[w] + Interval[s]
            BY <1>a, <4>2, <5>1, <5>3, OfScheduleFinite DEF ScheduleInv, ScheduleWork
          <6>2. /\ nextRun[s] # Never /\ nextRun[s] \in Nat /\ nextRun[s] <= seenNow[w]
                /\ seenNow[w] \in Nat /\ seenNow[w] <= now /\ now \in Nat
                /\ Interval[s] * (c + 1) <= nextRun[s]
            BY <5>3 DEF ScheduleInv, ScheduleRoom, ScheduleWork, TypeOK
          <6> HIDE DEF c
          <6>3. /\ Interval[s] * (c + 1) <= seenNow[w]
                /\ Interval[s] * ((c + 1) + 1) <= seenNow[w] + Interval[s]
            BY <6>1, <6>2, OneMoreInterval
          <6>4. Interval[s] * (c + 1) <= now
            BY <6>1, <6>2, OneMoreInterval
          <6>5. nextRun'[s] # Never
            BY <1>a, <6>1, <6>2
          <6> QED
            BY <3>1, <6>1, <6>3, <6>4, <6>5 DEF ScheduleRoom
        <5> QED
          BY <5>2, <5>3
      <4> QED
        BY <3>1, <4>1, <4>2
    <3>6. seenNow'[w] <= now'
      BY <3>1, <3>2 DEF TypeOK
    <3>7. \A s \in Schedules : ScheduleWork(w, s)'
      BY <3>2, <3>3 DEF ScheduleWork
    <3> QED
      BY <2>0, <3>2, <3>4, <3>5, <3>6, <3>7 DEF ScheduleInv
  <2> QED
    BY <1>5, <2>1, <2>2, <2>3, <2>5, <2>7, <2>8, <2>9 DEF WorkerStep
<1> QED
  BY <1>1, <1>2, <1>3, <1>4, <1>5 DEF Next

\* With one worker a schedule enqueues at most one run per interval, wherever a
\* tick dies between inserting the run and committing the next due time.
THEOREM SingleWorkerOneRunPerInterval ==
    AtMostOneWorker => (Spec => []OneRunPerInterval)
<1> SUFFICES ASSUME AtMostOneWorker PROVE Spec => []OneRunPerInterval
  OBVIOUS
<1>1. Init => Unsettled
  BY RunQueueAssumption DEF Init, Unsettled
<1>2. IInv /\ Unsettled /\ [Next]_vars => Unsettled'
  BY UnsettledInductive
<1>3. ASSUME Init PROVE ScheduleInv
  <2>1. \A s \in Schedules : OfSchedule(db, s) = {}
    BY <1>3, RunQueueAssumption DEF Init, OfSchedule, NoRow
  <2>2. \A w \in Workers, s \in Schedules : OfSchedule(View(w), s) = {}
    BY <1>3, RunQueueAssumption DEF Init, OfSchedule, NoRow, View
  <2>3. \A s \in Schedules : ScheduleRoom(s)
    <3> TAKE s \in Schedules
    <3>1. Cardinality(OfSchedule(db, s)) = 0 /\ Interval[s] \in Nat
      BY <2>1, FS_EmptySet, RunQueueAssumption
    <3> QED
      BY <1>3, <3>1 DEF Init, ScheduleRoom
  <2>4. \A w \in Workers, s \in Schedules : ScheduleWork(w, s)
    BY <1>3, <2>1, <2>2, RunQueueAssumption DEF Init, ScheduleWork
  <2> QED
    BY <1>3, <2>3, <2>4, RunQueueAssumption DEF Init, ScheduleInv, NoRow
<1>4. IInv /\ Unsettled /\ ScheduleInv /\ [Next]_vars => ScheduleInv'
  BY ScheduleInvPreserved
<1>5. ScheduleInv => OneRunPerInterval
  BY DEF ScheduleInv, ScheduleRoom, OneRunPerInterval, OfSchedule
<1> QED
  BY <1>1, <1>2, <1>3, <1>4, <1>5, Invariant, PTL DEF Spec
====
