--------------------------- MODULE GatewayProofs ---------------------------
(***************************************************************************)
(* Proofs about Gateway, for any callers, limits and builds: which         *)
(* concurrency slots are held and that lost ones stay lost, that an answer *)
(* is what its decision says, which build a cached answer is of, and that  *)
(* limiter, cache and requests keep their types and limits.                *)
(***************************************************************************)
EXTENDS Gateway, FiniteSetTheorems, TLAPS

\* The request on the event loop, by phase: what its body has read and whether
\* the try block that releases the slot has been entered.
ReqShape ==
    /\ {"phase", "claims", "slot"} \subseteq DOMAIN req
    /\ req.phase \in Inside \cup {"idle", "recording", "served", "answered"}
    /\ req.claims \in Claims \cup {Nobody}
    /\ req.slot \in BOOLEAN
    /\ req.slot \/ req.phase \in Inside \cup {"served", "answered"} => req.claims \in Claims
    /\ req.phase \in {"missed", "running", "searching"} => req.slot
    /\ req.phase \in {"idle", "query", "retrieve", "bound", "keyed", "served", "answered"}
       => ~req.slot

Slots ==
    /\ inflight \in [Actors -> 0..MaxConcurrent]
    /\ early \in [Actors -> Nat]
    /\ counts \in [Actors -> 0..MaxRequests]
    /\ SlotsAccounted

SlotInv == ReqShape /\ Slots

-----------------------------------------------------------------------------
(* Slots *)

LEMMA ActorOfClaims == ASSUME NEW c \in Claims PROVE c.actor \in Actors
  BY DEF Actors

LEMMA InitSlots == Init => SlotInv
  <1> SUFFICES ASSUME Init PROVE SlotInv
    OBVIOUS
  <1>1. ReqShape
    BY GatewayAssumption DEF Init, Idle, ReqShape, Inside
  <1>2. /\ inflight \in [Actors -> 0..MaxConcurrent]
        /\ early \in [Actors -> Nat]
        /\ counts \in [Actors -> 0..MaxRequests]
    BY GatewayAssumption DEF Init
  <1>3. SlotsAccounted
    BY DEF Init, Idle, SlotsAccounted, HoldsSlot, Inside
  <1> QED
    BY <1>1, <1>2, <1>3 DEF SlotInv, Slots

\* A step that touches neither slots nor who holds one.
LEMMA SlotsKept ==
  ASSUME SlotInv, UNCHANGED <<inflight, early>>,
         counts' \in [Actors -> 0..MaxRequests],
         \A a \in Actors : HoldsSlot(a)' <=> HoldsSlot(a)
  PROVE  Slots'
  <1>1. inflight' = inflight /\ early' = early
    OBVIOUS
  <1>2. \A a \in Actors : inflight'[a] = early'[a] + (IF HoldsSlot(a)' THEN 1 ELSE 0)
    BY <1>1 DEF SlotInv, Slots, SlotsAccounted
  <1> QED
    BY <1>1, <1>2 DEF SlotInv, Slots, SlotsAccounted

\* A body that ends without having acquired, or after its slot is back.
LEMMA SlotReleased ==
  ASSUME SlotInv, req.claims \in Claims, HoldsSlot(req.claims.actor),
         Release(req.claims.actor), UNCHANGED early,
         \A a \in Actors : ~HoldsSlot(a)'
  PROVE  Slots'
  <1> DEFINE b == req.claims.actor
  <1>1. b \in Actors
    BY ActorOfClaims
  <1>2. inflight[b] = early[b] + 1
    BY <1>1 DEF SlotInv, Slots, SlotsAccounted
  <1>3. \A a \in Actors : a # b => inflight[a] = early[a]
    BY DEF SlotInv, Slots, SlotsAccounted, HoldsSlot
  <1>4. inflight' = [inflight EXCEPT ![b] = inflight[b] - 1]
    <2>1. inflight[b] \in 0..MaxConcurrent /\ early[b] \in Nat
      BY <1>1 DEF SlotInv, Slots
    <2>2. (IF inflight[b] <= 1 THEN 0 ELSE inflight[b] - 1) = inflight[b] - 1
      BY <1>2, <2>1, GatewayAssumption
    <2>3. inflight' = [inflight EXCEPT ![b] = IF inflight[b] <= 1 THEN 0 ELSE inflight[b] - 1]
      BY DEF Release
    <2> QED
      BY <2>2, <2>3
  <1>5. counts' = counts
    BY DEF Release
  <1> HIDE DEF b
  <1>6. inflight' \in [Actors -> 0..MaxConcurrent]
    BY <1>1, <1>2, <1>4, GatewayAssumption DEF SlotInv, Slots
  <1>7. \A a \in Actors : inflight'[a] = early'[a]
    BY <1>1, <1>2, <1>3, <1>4 DEF SlotInv, Slots
  <1> QED
    BY <1>5, <1>6, <1>7 DEF SlotInv, Slots, SlotsAccounted

\* A body refused between try_acquire and the try block.
LEMMA SlotLost ==
  ASSUME SlotInv, req.claims \in Claims, HoldsSlot(req.claims.actor),
         early' = [early EXCEPT ![req.claims.actor] = @ + 1],
         UNCHANGED <<inflight, counts>>,
         \A a \in Actors : ~HoldsSlot(a)'
  PROVE  Slots'
  <1> DEFINE b == req.claims.actor
  <1>1. b \in Actors
    BY ActorOfClaims
  <1>2. inflight[b] = early[b] + 1
    BY <1>1 DEF SlotInv, Slots, SlotsAccounted
  <1>3. \A a \in Actors : a # b => inflight[a] = early[a]
    BY DEF SlotInv, Slots, SlotsAccounted, HoldsSlot
  <1>4. \A a \in Actors : inflight'[a] = early'[a]
    BY <1>1, <1>2, <1>3 DEF SlotInv, Slots
  <1>5. early' \in [Actors -> Nat]
    BY <1>1 DEF SlotInv, Slots
  <1> QED
    BY <1>4, <1>5 DEF SlotInv, Slots, SlotsAccounted

\* The record of a request after it is refused, or its body has moved on.
LEMMA RefusedShape ==
  ASSUME ReqShape, Refuse
  PROVE  /\ ReqShape'
         /\ req'.claims = req.claims /\ req'.slot = req.slot
         /\ req'.phase = "recording"
  BY DEF ReqShape, Refuse, Inside

LEMMA IdleShape ==
  ASSUME req' = Idle
  PROVE  ReqShape' /\ \A a \in Actors : ~HoldsSlot(a)'
  BY DEF Idle, ReqShape, HoldsSlot, Inside

\* Before the try block every way out loses the slot.
LEMMA RefuseEarlySlots ==
  ASSUME SlotInv, req.phase \in {"query", "bound", "retrieve"}, RefuseEarly
  PROVE  SlotInv'
  <1>1. Refuse /\ ReqShape
    BY DEF RefuseEarly, SlotInv
  <1>2. /\ ReqShape'
        /\ req'.claims = req.claims /\ req'.slot = req.slot
        /\ req'.phase = "recording"
    BY <1>1, RefusedShape
  <1>3. req.claims \in Claims /\ ~req.slot
    BY <1>1 DEF ReqShape, Inside
  <1>4. HoldsSlot(req.claims.actor)
    BY <1>3, GatewayAssumption DEF HoldsSlot, Inside
  <1>5. \A a \in Actors : ~HoldsSlot(a)'
    BY <1>2, <1>3 DEF HoldsSlot, Inside
  <1>6. Slots'
    BY <1>3, <1>4, <1>5, SlotLost DEF RefuseEarly, limiter
  <1> QED
    BY <1>2, <1>6 DEF SlotInv

\* A refusal inside the try block, or after the answer, keeps slot and holder.
LEMMA RefuseSlots ==
  ASSUME SlotInv, req.phase \in {"missed", "running", "searching", "served"}, Refuse,
         UNCHANGED <<limiter, early>>
  PROVE  SlotInv'
  <1>1. /\ ReqShape'
        /\ req'.claims = req.claims /\ req'.slot = req.slot
        /\ req'.phase = "recording"
    BY RefusedShape DEF SlotInv
  <1>2. \A a \in Actors : HoldsSlot(a)' <=> HoldsSlot(a)
    BY <1>1 DEF SlotInv, ReqShape, HoldsSlot, Inside
  <1>3. Slots'
    BY <1>2, SlotsKept DEF limiter, SlotInv, Slots
  <1> QED
    BY <1>1, <1>3 DEF SlotInv

\* A body that answers from the cache, from the engine or from an index.
LEMMA ServedSlots ==
  ASSUME SlotInv, req.phase \in {"keyed", "running", "searching"},
         {"phase", "claims", "slot"} \subseteq DOMAIN req',
         req'.phase = "served", req'.claims = req.claims, req'.slot = FALSE,
         Release(req.claims.actor), UNCHANGED early
  PROVE  SlotInv'
  <1>1. req.claims \in Claims
    BY DEF SlotInv, ReqShape, Inside
  <1>2. ReqShape'
    BY <1>1 DEF ReqShape, Inside
  <1>3. HoldsSlot(req.claims.actor)
    BY <1>1, GatewayAssumption DEF HoldsSlot, Inside
  <1>4. \A a \in Actors : ~HoldsSlot(a)'
    BY DEF HoldsSlot, Inside
  <1>5. Slots'
    BY <1>1, <1>3, <1>4, SlotReleased
  <1> QED
    BY <1>2, <1>5 DEF SlotInv

\* A body that goes on with its slot.
LEMMA GoesOnSlots ==
  ASSUME SlotInv, req.phase \in {"query", "retrieve", "bound", "keyed", "missed"},
         {"phase", "claims", "slot"} \subseteq DOMAIN req',
         req'.claims = req.claims,
         \/ req'.phase \in {"bound", "keyed"} /\ req'.slot = FALSE
         \/ req'.phase \in {"missed", "running", "searching"} /\ req'.slot = TRUE,
         UNCHANGED <<limiter, early>>
  PROVE  SlotInv'
  <1>1. ReqShape'
    BY DEF SlotInv, ReqShape, Inside
  <1>2. \A a \in Actors : HoldsSlot(a)' <=> HoldsSlot(a)
    BY DEF SlotInv, ReqShape, HoldsSlot, Inside
  <1>3. Slots'
    BY <1>2, SlotsKept DEF limiter, SlotInv, Slots
  <1> QED
    BY <1>1, <1>3 DEF SlotInv

\* Steps between requests that keep the limiter.
LEMMA OutsideSlots ==
  ASSUME SlotInv, ReqShape', UNCHANGED <<limiter, early>>,
         \A a \in Actors : ~HoldsSlot(a) /\ ~HoldsSlot(a)'
  PROVE  SlotInv'
  BY SlotsKept DEF SlotInv, Slots, limiter

-----------------------------------------------------------------------------
\* try_acquire, and the request it admits or refuses.
LEMMA AdmitSlots ==
  ASSUME SlotInv, Admit
  PROVE  SlotInv'
  <1>1. PICK c \in Claims, kind \in {"query", "retrieve"} :
          /\ TryAcquire(c.actor)
          /\ req' = IF Grants(c.actor)
                    THEN [phase |-> kind, claims |-> c, slot |-> FALSE, pack |-> pack]
                    ELSE [phase |-> "recording", claims |-> c, slot |-> FALSE]
    BY DEF Admit
  <1>2. req.phase = "idle" /\ ~req.slot /\ early' = early
    BY DEF Admit, SlotInv, ReqShape
  <1>3. \A a \in Actors : inflight[a] = early[a]
    BY <1>2 DEF SlotInv, Slots, SlotsAccounted, HoldsSlot, Inside
  <1>4. c.actor \in Actors
    BY ActorOfClaims
  <1>5. CountsNow \in [Actors -> 0..MaxRequests]
    BY GatewayAssumption DEF CountsNow, SlotInv, Slots
  <1>6. ReqShape'
    BY <1>1 DEF ReqShape, Inside
  <1>7. CASE Grants(c.actor)
    <2>1. /\ inflight' = [inflight EXCEPT ![c.actor] = @ + 1]
          /\ counts' = [CountsNow EXCEPT ![c.actor] = @ + 1]
          /\ inflight[c.actor] < MaxConcurrent /\ CountsNow[c.actor] < MaxRequests
      BY <1>1, <1>7 DEF TryAcquire, Grants
    <2>2. inflight' \in [Actors -> 0..MaxConcurrent]
      BY <1>4, <2>1, GatewayAssumption DEF SlotInv, Slots
    <2>3. counts' \in [Actors -> 0..MaxRequests]
      BY <1>4, <1>5, <2>1, GatewayAssumption
    <2>4. \A a \in Actors : HoldsSlot(a)' <=> a = c.actor
      BY <1>1, <1>7, GatewayAssumption DEF HoldsSlot, Inside
    <2>5. \A a \in Actors : inflight'[a] = early[a] + (IF a = c.actor THEN 1 ELSE 0)
      BY <1>3, <1>4, <2>1 DEF SlotInv, Slots
    <2> QED
      BY <1>2, <1>6, <2>2, <2>3, <2>4, <2>5 DEF SlotInv, Slots, SlotsAccounted
  <1>8. CASE ~Grants(c.actor)
    <2>1. inflight' = inflight /\ counts' = CountsNow
      BY <1>1, <1>8 DEF TryAcquire
    <2>2. \A a \in Actors : HoldsSlot(a)' <=> HoldsSlot(a)
      BY <1>1, <1>2, <1>8 DEF HoldsSlot, Inside
    <2> QED
      BY <1>2, <1>5, <1>6, <2>1, <2>2, SlotsKept DEF SlotInv
  <1> QED
    BY <1>7, <1>8

\* The body of a refused request ends: a slot of the try block comes back.
LEMMA DenySlots ==
  ASSUME SlotInv, Deny
  PROVE  SlotInv'
  <1>1. /\ req.phase = "recording" /\ req' = Idle /\ early' = early
        /\ IF req.slot THEN Release(req.claims.actor) ELSE UNCHANGED limiter
    BY DEF Deny
  <1>2. ReqShape' /\ \A a \in Actors : ~HoldsSlot(a)'
    BY <1>1, IdleShape
  <1>3. CASE req.slot
    <2>1. req.claims \in Claims
      BY <1>3 DEF SlotInv, ReqShape
    <2>2. HoldsSlot(req.claims.actor)
      BY <1>3, <2>1, GatewayAssumption DEF HoldsSlot
    <2> QED
      BY <1>1, <1>2, <1>3, <2>1, <2>2, SlotReleased DEF SlotInv
  <1>4. CASE ~req.slot
    <2>1. \A a \in Actors : ~HoldsSlot(a)
      BY <1>1, <1>4 DEF HoldsSlot, Inside
    <2> QED
      BY <1>1, <1>2, <1>4, <2>1, OutsideSlots
  <1> QED
    BY <1>3, <1>4

\* An exception before the try block loses the slot like a refusal.
LEMMA RaiseSlots ==
  ASSUME SlotInv, RaiseEarly
  PROVE  SlotInv'
  <1>1. /\ req.phase \in {"query", "bound", "retrieve"} /\ req' = Idle
        /\ early' = [early EXCEPT ![req.claims.actor] = @ + 1]
        /\ UNCHANGED <<inflight, counts>>
    BY DEF RaiseEarly, limiter
  <1>2. ReqShape' /\ \A a \in Actors : ~HoldsSlot(a)'
    BY <1>1, IdleShape
  <1>3. req.claims \in Claims
    BY <1>1 DEF SlotInv, ReqShape, Inside
  <1>4. HoldsSlot(req.claims.actor)
    BY <1>1, <1>3, GatewayAssumption DEF HoldsSlot, Inside
  <1> QED
    BY <1>1, <1>2, <1>3, <1>4, SlotLost DEF SlotInv

\* A restart forgets the slots with the requests that held them.
LEMMA RestartSlots ==
  ASSUME SlotInv, Restart
  PROVE  SlotInv'
  <1>1. ReqShape' /\ \A a \in Actors : ~HoldsSlot(a)'
    BY IdleShape DEF Restart
  <1>2. /\ inflight' \in [Actors -> 0..MaxConcurrent]
        /\ early' \in [Actors -> Nat]
        /\ counts' \in [Actors -> 0..MaxRequests]
        /\ \A a \in Actors : inflight'[a] = 0 /\ early'[a] = 0
    BY GatewayAssumption DEF Restart
  <1> QED
    BY <1>1, <1>2 DEF SlotInv, Slots, SlotsAccounted

\* The other processes: the request may learn that the pointer moved, no more.
LEMMA EnvironmentSlots ==
  ASSUME SlotInv, Environment \/ UNCHANGED vars
  PROVE  SlotInv'
  <1>1. UNCHANGED <<limiter, early>>
    BY DEF Environment, Tick, TruncatePointer, WritePointer, ChangePack, ChangeManifest,
           vars
  <1>2. req' = req \/ req' = [req EXCEPT !.moved = TRUE]
    BY DEF Environment, Tick, TruncatePointer, WritePointer, ChangePack, ChangeManifest,
           vars
  <1>3. /\ DOMAIN req' = DOMAIN req
        /\ req'.phase = req.phase /\ req'.claims = req.claims /\ req'.slot = req.slot
    BY <1>2 DEF SlotInv, ReqShape
  <1>4. ReqShape'
    BY <1>3 DEF SlotInv, ReqShape
  <1>5. \A a \in Actors : HoldsSlot(a)' <=> HoldsSlot(a)
    BY <1>3 DEF HoldsSlot
  <1> QED
    BY <1>1, <1>4, <1>5, SlotsKept DEF limiter, SlotInv, Slots

\* Between requests, and after an answer, nobody holds a slot.
LEMMA OutsideHoldsNone ==
  ASSUME SlotInv, req.phase \in {"idle", "served", "answered"}
  PROVE  \A a \in Actors : ~HoldsSlot(a)
  BY DEF SlotInv, ReqShape, HoldsSlot, Inside

LEMMA SlotStep == SlotInv /\ [Next]_vars => SlotInv'
  <1> SUFFICES ASSUME SlotInv, [Next]_vars PROVE SlotInv'
    OBVIOUS
  <1>1. CASE TurnAway \/ Simulate
    <2>1. PICK c \in Claims \cup {Nobody} :
            req' = [phase |-> "recording", claims |-> c, slot |-> FALSE]
      BY <1>1 DEF TurnAway, Simulate
    <2>2. ReqShape' /\ \A a \in Actors : ~HoldsSlot(a)'
      BY <2>1 DEF ReqShape, HoldsSlot, Inside
    <2>3. req.phase = "idle" /\ UNCHANGED <<limiter, early>>
      BY <1>1 DEF TurnAway, Simulate
    <2> QED
      BY <2>2, <2>3, OutsideHoldsNone, OutsideSlots
  <1>2. CASE Admit
    BY <1>2, AdmitSlots
  <1>3. CASE DenyBinding \/ DenyDatasets \/ DenySemanticQuery \/ DenyAbac \/ DenyEntitlement
    <2>1. req.phase \in {"query", "bound", "retrieve"} /\ RefuseEarly
      BY <1>3 DEF DenyBinding, DenyDatasets, DenySemanticQuery, DenyAbac, DenyEntitlement
    <2> QED
      BY <2>1, RefuseEarlySlots
  <1>4. CASE RaiseEarly
    BY <1>4, RaiseSlots
  <1>5. CASE Bind \/ BuildKey \/ Miss \/ PrepareViews \/ BeginSearch
    <2>1. /\ req.phase \in {"query", "retrieve", "bound", "keyed", "missed"}
          /\ UNCHANGED <<limiter, early>>
      BY <1>5 DEF Bind, BuildKey, Keyed, Miss, PrepareViews, BeginSearch
    <2>2. /\ {"phase", "claims", "slot"} \subseteq DOMAIN req'
          /\ req'.claims = req.claims
          /\ \/ req'.phase \in {"bound", "keyed"} /\ req'.slot = FALSE
             \/ req'.phase \in {"missed", "running", "searching"} /\ req'.slot = TRUE
      <3>1. CASE Bind \/ BuildKey \/ PrepareViews
        BY <3>1 DEF Bind, BuildKey, Keyed, PrepareViews
      <3>2. CASE Miss
        BY <3>2 DEF Miss, SlotInv, ReqShape
      <3>3. CASE BeginSearch
        BY <3>3 DEF BeginSearch, SlotInv, ReqShape
      <3> QED
        BY <1>5, <3>1, <3>2, <3>3
    <2> QED
      BY <2>1, <2>2, GoesOnSlots
  <1>6. CASE ServeHit \/ Store \/ Search
    <2>1. /\ req.phase \in {"keyed", "running", "searching"}
          /\ Release(req.claims.actor) /\ UNCHANGED early
      BY <1>6 DEF ServeHit, Store, Search
    <2>2. /\ {"phase", "claims", "slot"} \subseteq DOMAIN req'
          /\ req'.phase = "served" /\ req'.claims = req.claims /\ req'.slot = FALSE
      <3>1. CASE ServeHit
        BY <3>1 DEF ServeHit
      <3>2. CASE Store
        BY <3>2 DEF Store
      <3>3. CASE Search
        BY <3>3 DEF Search
      <3> QED
        BY <1>6, <3>1, <3>2, <3>3
    <2> QED
      BY <2>1, <2>2, ServedSlots
  <1>7. CASE FailExecution \/ FailSearch \/ DenyAnswer
    <2>1. /\ req.phase \in {"missed", "running", "searching", "served"} /\ Refuse
          /\ UNCHANGED <<limiter, early>>
      BY <1>7 DEF FailExecution, FailSearch, DenyAnswer
    <2> QED
      BY <2>1, RefuseSlots
  <1>8. CASE Answer
    <2>1. req.phase = "served" /\ UNCHANGED <<limiter, early>>
      BY <1>8 DEF Answer
    <2>2. ReqShape' /\ \A a \in Actors : ~HoldsSlot(a)'
      BY <1>8 DEF Answer, SlotInv, ReqShape, HoldsSlot, Inside
    <2> QED
      BY <2>1, <2>2, OutsideHoldsNone, OutsideSlots
  <1>9. CASE FailAudit \/ Respond
    <2>1. req.phase \in {"served", "answered"} /\ req' = Idle
          /\ UNCHANGED <<limiter, early>>
      BY <1>9 DEF FailAudit, Respond
    <2> QED
      BY <2>1, IdleShape, OutsideHoldsNone, OutsideSlots
  <1>10. CASE Deny
    BY <1>10, DenySlots
  <1>11. CASE Restart
    BY <1>11, RestartSlots
  <1>12. CASE Environment \/ UNCHANGED vars
    BY <1>12, EnvironmentSlots
  <1> QED
    BY <1>1, <1>2, <1>3, <1>4, <1>5, <1>6, <1>7, <1>8, <1>9, <1>10, <1>11, <1>12
       DEF Next, Gateway

LEMMA SpecSlots == Spec => []SlotInv
  BY InitSlots, SlotStep, PTL DEF Spec

\* app.py:255, 1003: the concurrency slots an actor holds are exactly those of
\* its request in the body and of its requests that ended between try_acquire
\* and the try block, for any callers, limits and number of requests.
THEOREM GatewaySlotsAccounted == Spec => []SlotsAccounted
  <1>1. SlotInv => SlotsAccounted
    BY DEF SlotInv, Slots
  <1> QED
    BY <1>1, SpecSlots, PTL

-----------------------------------------------------------------------------
(* A lost slot stays lost *)

\* Only a restart gives a lost slot back.
LEMMA EarlyGrows ==
  ASSUME SlotInv, [Next]_vars, ~Restart, NEW a \in Actors
  PROVE  early'[a] >= early[a]
  <1>1. early[a] \in Nat
    BY DEF SlotInv, Slots
  <1>2. CASE early' = early
    BY <1>1, <1>2
  <1>3. CASE early' = [early EXCEPT ![req.claims.actor] = @ + 1]
    BY <1>1, <1>3 DEF SlotInv, Slots
  <1>4. early' = early \/ early' = [early EXCEPT ![req.claims.actor] = @ + 1]
    BY DEF Next, Gateway, Environment, TurnAway, Admit, Simulate, DenyBinding,
           DenyDatasets, DenySemanticQuery, DenyAbac, RaiseEarly, RefuseEarly, Bind,
           BuildKey, Keyed, ServeHit, Miss, FailExecution, PrepareViews, Store,
           DenyEntitlement, BeginSearch, FailSearch, Search, DenyAnswer, Answer, Deny,
           FailAudit, Respond, Tick, TruncatePointer, WritePointer, ChangePack,
           ChangeManifest, vars
  <1> QED
    BY <1>2, <1>3, <1>4

\* The requests counted for an actor without a free slot do not grow.
LEMMA CountsFall ==
  ASSUME SlotInv, [Next]_vars, NEW a \in Actors, inflight[a] = MaxConcurrent
  PROVE  counts'[a] <= counts[a]
  <1>1. counts[a] \in 0..MaxRequests
    BY DEF SlotInv, Slots
  <1>2. CASE counts' = counts
    BY <1>1, <1>2, GatewayAssumption
  <1>3. CASE Restart
    BY <1>1, <1>3, GatewayAssumption DEF Restart
  <1>4. CASE Admit
    <2>1. PICK c \in Claims : TryAcquire(c.actor)
      BY <1>4 DEF Admit
    <2>2. CountsNow[a] \in Nat /\ CountsNow[a] <= counts[a]
      BY <1>1, GatewayAssumption DEF CountsNow
    <2>3. CASE Grants(c.actor)
      <3>1. c.actor # a
        BY <2>3, GatewayAssumption DEF Grants
      <3>2. counts' = [CountsNow EXCEPT ![c.actor] = CountsNow[c.actor] + 1]
        BY <2>1, <2>3 DEF TryAcquire
      <3>3. counts'[a] = CountsNow[a]
        <4>1. CountsNow \in [Actors -> 0..MaxRequests]
          BY GatewayAssumption DEF CountsNow, SlotInv, Slots
        <4> QED
          BY <3>1, <3>2, <4>1
      <3> QED
        BY <2>2, <3>3
    <2>4. CASE ~Grants(c.actor)
      BY <2>1, <2>2, <2>4 DEF TryAcquire
    <2> QED
      BY <2>3, <2>4
  <1>5. counts' = counts \/ Restart \/ Admit
    BY DEF Next, Gateway, Environment, TurnAway, Simulate, DenyBinding,
           DenyDatasets, DenySemanticQuery, DenyAbac, RaiseEarly, RefuseEarly, Bind,
           BuildKey, Keyed, ServeHit, Miss, FailExecution, PrepareViews, Store,
           DenyEntitlement, BeginSearch, FailSearch, Search, DenyAnswer, Answer, Deny,
           FailAudit, Respond, Tick, TruncatePointer, WritePointer, ChangePack,
           ChangeManifest, vars, limiter, Release
  <1> QED
    BY <1>2, <1>3, <1>4, <1>5

\* rate_limit.py:32: once max_concurrent_per_actor requests of an actor have
\* been refused between try_acquire and the try block, no step but a restart
\* frees a slot of that actor or admits another of its requests.
THEOREM GatewayLockout == Spec => LockedOutUntilRestart
  <1>1. ASSUME SlotInv, SlotInv', [Next]_vars
        PROVE  [\A a \in Actors : early[a] >= MaxConcurrent =>
                  Restart \/ (inflight'[a] = inflight[a] /\ counts'[a] <= counts[a])]_vars
    <2> SUFFICES ASSUME NEW a \in Actors, early[a] >= MaxConcurrent, ~Restart
                 PROVE  inflight'[a] = inflight[a] /\ counts'[a] <= counts[a]
      OBVIOUS
    <2>1. early'[a] >= early[a]
      BY <1>1, EarlyGrows
    <2>2. /\ inflight[a] \in 0..MaxConcurrent /\ inflight'[a] \in 0..MaxConcurrent
          /\ early[a] \in Nat /\ early'[a] \in Nat
      BY <1>1 DEF SlotInv, Slots
    <2>3. inflight[a] >= early[a] /\ inflight'[a] >= early'[a]
      <3>1. inflight[a] = early[a] \/ inflight[a] = early[a] + 1
        BY <1>1 DEF SlotInv, Slots, SlotsAccounted
      <3>2. inflight'[a] = early'[a] \/ inflight'[a] = early'[a] + 1
        BY <1>1 DEF SlotInv, Slots, SlotsAccounted
      <3> QED
        BY <2>2, <3>1, <3>2
    <2>4. inflight[a] = MaxConcurrent /\ inflight'[a] = MaxConcurrent
      BY <2>1, <2>2, <2>3, GatewayAssumption
    <2> QED
      BY <1>1, <2>4, CountsFall
  <1> QED
    BY <1>1, SpecSlots, PTL DEF Spec, LockedOutUntilRestart

-----------------------------------------------------------------------------
(* Answers *)

\* What a caller may be answered under a pack, by the conjuncts of AnswersAsAudited.
Entitled(c, text) == c.ai /\ text # NoText => text \subseteq c.allowed \ Foreign

RowsFor(rows, c, p) ==
    /\ rows.region = c.region /\ rows.masked = Masked(c) /\ rows.pack = p
    /\ rows.docs \subseteq c.allowed \ Foreign
    /\ \A d \in rows.docs : c.region = NoRegion \/ DocRegion[d] = c.region
    /\ Entitled(c, rows.text)

\* What the request has read by phase.
Fields ==
    /\ req.phase \in {"query", "retrieve", "searching"} => "pack" \in DOMAIN req
    /\ req.phase = "bound" => {"pack", "text"} \subseteq DOMAIN req
    /\ req.phase \in {"keyed", "missed", "running"} => {"pack", "key", "moved"} \subseteq DOMAIN req

KeyMatches ==
    /\ req.phase = "bound" => Entitled(req.claims, req.text)
    /\ req.phase \in {"keyed", "missed", "running"} =>
         /\ req.key.claims = req.claims /\ req.key.pack = req.pack
         /\ Entitled(req.claims, req.key.text)

SearchEntitled == req.phase = "searching" => ~Mismatched(req.claims.allowed)

RequestAudited ==
    /\ req.phase \in {"running", "served"} => RowsFor(req.rows, req.claims, req.pack)
    /\ req.phase = "answered" =>
         /\ RowsFor(req.rows, req.claims, req.pack)
         /\ req.decision.actor = req.claims.actor
         /\ req.decision.region = req.claims.region
         /\ req.decision.masked = Masked(req.claims)
         /\ req.decision.pack = req.pack

EntriesAudited == \A e \in cache : RowsFor(e.rows, e.key.claims, e.key.pack)

AnswerInv == Fields /\ KeyMatches /\ SearchEntitled /\ RequestAudited /\ EntriesAudited

LEMMA CacheSetShape ==
  ASSUME NEW entry, CacheSet(entry)
  PROVE  cache' \subseteq cache \cup {entry}
  BY DEF CacheSet

\* The body ends, or has ended, without an answer.
Ends == req'.phase \in {"recording", "idle"} /\ cache' \subseteq cache

LEMMA Endings ==
  ASSUME ReqShape,
         \/ TurnAway \/ Simulate \/ DenyBinding \/ DenyDatasets \/ DenySemanticQuery
         \/ DenyAbac \/ DenyEntitlement \/ RaiseEarly \/ FailExecution \/ FailSearch
         \/ DenyAnswer \/ Deny \/ FailAudit \/ Respond \/ Restart
  PROVE  Ends
  <1>1. CASE TurnAway \/ Simulate
    BY <1>1 DEF TurnAway, Simulate, Ends
  <1>2. CASE \/ DenyBinding \/ DenyDatasets \/ DenySemanticQuery \/ DenyAbac
             \/ DenyEntitlement \/ FailExecution \/ FailSearch \/ DenyAnswer
    <2>1. Refuse /\ cache' = cache
      BY <1>2 DEF DenyBinding, DenyDatasets, DenySemanticQuery, DenyAbac, DenyEntitlement,
                  RefuseEarly, FailExecution, FailSearch, DenyAnswer
    <2> QED
      BY <2>1, RefusedShape DEF Ends
  <1>3. CASE RaiseEarly \/ Deny \/ FailAudit \/ Respond \/ Restart
    BY <1>3 DEF RaiseEarly, Deny, FailAudit, Respond, Restart, Idle, Ends
  <1> QED
    BY <1>1, <1>2, <1>3

\* Other processes leave the request alone, but for noting that the pointer moved.
LEMMA Untouched ==
  ASSUME Environment \/ UNCHANGED vars
  PROVE  /\ cache' = cache
         /\ \/ req' = req
            \/ req.phase \in {"keyed", "missed"} /\ req' = [req EXCEPT !.moved = TRUE]
  BY DEF Environment, Tick, TruncatePointer, WritePointer, ChangePack, ChangeManifest, vars

LEMMA InitAnswers == Init => AnswerInv
  BY DEF Init, Idle, AnswerInv, Fields, KeyMatches, SearchEntitled, RequestAudited,
         EntriesAudited

LEMMA AnswerStep ==
  ASSUME ReqShape, AnswerInv, [Next]_vars
  PROVE  AnswerInv'
  <1>1. CASE Ends
    BY <1>1 DEF Ends, AnswerInv, Fields, KeyMatches, SearchEntitled, RequestAudited,
                EntriesAudited
  <1>2. CASE Admit
    <2>1. PICK c \in Claims, kind \in {"query", "retrieve"} :
            req' \in {[phase |-> kind, claims |-> c, slot |-> FALSE, pack |-> pack],
                      [phase |-> "recording", claims |-> c, slot |-> FALSE]}
      BY <1>2 DEF Admit
    <2>2. cache' = cache
      BY <1>2 DEF Admit
    <2> QED
      BY <2>1, <2>2 DEF AnswerInv, Fields, KeyMatches, SearchEntitled, RequestAudited,
                        EntriesAudited
  <1>3. CASE Bind \/ BuildKey
    <2>1. CASE Bind
      <3>1. PICK text :
              /\ req.claims.ai => Bindable(req.claims) /\ text = manifest
              /\ req' = [phase |-> "bound", claims |-> req.claims, slot |-> FALSE,
                         pack |-> req.pack, text |-> text]
        BY <2>1 DEF Bind
      <3>2. Entitled(req.claims, text)
        BY <3>1 DEF Entitled, Bindable, Mismatched
      <3>3. cache' = cache
        BY <2>1 DEF Bind
      <3> QED
        BY <3>1, <3>2, <3>3 DEF AnswerInv, Fields, KeyMatches, SearchEntitled,
                                RequestAudited, EntriesAudited
    <2>2. CASE BuildKey
      <3>1. /\ req.phase = "bound" /\ cache' = cache
            /\ req' = [phase |-> "keyed", claims |-> req.claims, slot |-> FALSE,
                       pack |-> req.pack, moved |-> FALSE, key |-> Key(req.claims, pointer)]
        BY <2>2 DEF BuildKey, Keyed
      <3>2. Entitled(req.claims, req.text)
        BY <3>1 DEF AnswerInv, KeyMatches
      <3> QED
        BY <3>1, <3>2 DEF Key, AnswerInv, Fields, KeyMatches, SearchEntitled,
                          RequestAudited, EntriesAudited
    <2> QED
      BY <1>3, <2>1, <2>2
  <1>4. CASE ServeHit
    <2>1. PICK e \in Fresh(req.key) :
            req' = [phase |-> "served", claims |-> req.claims, slot |-> FALSE,
                    pack |-> req.pack, hit |-> TRUE, rows |-> e.rows, took |-> e.took]
      BY <1>4 DEF ServeHit
    <2>2. e \in cache /\ e.key = req.key
      BY DEF Fresh
    <2>3. req.key.claims = req.claims /\ req.key.pack = req.pack
      BY <1>4 DEF ServeHit, AnswerInv, KeyMatches
    <2>4. RowsFor(e.rows, req.claims, req.pack)
      BY <2>2, <2>3 DEF AnswerInv, EntriesAudited
    <2>5. cache' = cache
      BY <1>4 DEF ServeHit
    <2> QED
      BY <2>1, <2>4, <2>5 DEF AnswerInv, Fields, KeyMatches, SearchEntitled,
                              RequestAudited, EntriesAudited
  <1>5. CASE Miss
    <2>1. /\ req.phase = "keyed" /\ cache' \subseteq cache
          /\ req' = [req EXCEPT !.phase = "missed", !.slot = TRUE]
      BY <1>5 DEF Miss, AfterGet
    <2>2. /\ DOMAIN req' = DOMAIN req /\ req'.phase = "missed" /\ req'.claims = req.claims
          /\ req'.key = req.key /\ req'.pack = req.pack
      BY <2>1 DEF ReqShape, AnswerInv, Fields
    <2> QED
      BY <2>1, <2>2 DEF AnswerInv, Fields, KeyMatches, SearchEntitled, RequestAudited,
                        EntriesAudited
  <1>6. CASE PrepareViews \/ Store
    <2>1. /\ req.phase \in {"missed", "running"}
          /\ req.key.claims = req.claims /\ req.key.pack = req.pack
          /\ Entitled(req.claims, req.key.text)
      BY <1>6 DEF PrepareViews, Store, AnswerInv, KeyMatches
    <2>2. CASE PrepareViews
      <3>1. /\ cache' = cache
            /\ req' = [phase |-> "running", claims |-> req.claims, slot |-> TRUE,
                       pack |-> req.pack, moved |-> req.moved, key |-> req.key,
                       rows |-> RowsNow, read |-> clock]
        BY <2>2 DEF PrepareViews
      <3>2. RowsFor(RowsNow, req.claims, req.pack)
        BY <2>1 DEF RowsNow, RowsFor
      <3> QED
        BY <2>1, <3>1, <3>2 DEF AnswerInv, Fields, KeyMatches, SearchEntitled,
                                RequestAudited, EntriesAudited
    <2>3. CASE Store
      <3> DEFINE entry == [key |-> req.key, rows |-> req.rows, expires |-> clock + Ttl,
                           moved |-> req.moved, took |-> clock - req.read]
      <3>1. /\ req.phase = "running" /\ CacheSet(entry)
            /\ req' = [phase |-> "served", claims |-> req.claims, slot |-> FALSE,
                       pack |-> req.pack, hit |-> FALSE, rows |-> req.rows]
        BY <2>3 DEF Store
      <3>2. RowsFor(req.rows, req.claims, req.pack)
        BY <3>1 DEF AnswerInv, RequestAudited
      <3>3. RowsFor(entry.rows, entry.key.claims, entry.key.pack)
        BY <2>1, <3>2
      <3>4. cache' \subseteq cache \cup {entry}
        BY <3>1, CacheSetShape
      <3> HIDE DEF entry
      <3>5. EntriesAudited'
        BY <3>3, <3>4 DEF AnswerInv, EntriesAudited
      <3> QED
        BY <3>1, <3>2, <3>5 DEF AnswerInv, Fields, KeyMatches, SearchEntitled, RequestAudited
    <2> QED
      BY <1>6, <2>2, <2>3
  <1>7. CASE BeginSearch
    <2>1. /\ req.phase = "retrieve" /\ cache' = cache /\ ~Mismatched(req.claims.allowed)
          /\ req' = [req EXCEPT !.phase = "searching", !.slot = TRUE]
      BY <1>7 DEF BeginSearch
    <2>2. DOMAIN req' = DOMAIN req /\ req'.phase = "searching" /\ req'.claims = req.claims
      BY <2>1 DEF ReqShape
    <2> QED
      BY <2>1, <2>2 DEF AnswerInv, Fields, KeyMatches, SearchEntitled, RequestAudited,
                        EntriesAudited, Mismatched
  <1>8. CASE Search
    <2>1. PICK hits \in Hits(req.claims) :
            req' = [phase |-> "served", claims |-> req.claims, slot |-> FALSE,
                    pack |-> req.pack, hit |-> FALSE,
                    rows |-> [text |-> NoText, build |-> NoBuild, pack |-> req.pack,
                              region |-> req.claims.region, masked |-> Masked(req.claims),
                              docs |-> RowFilter(hits, req.claims)]]
      BY <1>8 DEF Search
    <2>2. ~Mismatched(req.claims.allowed) /\ cache' = cache
      BY <1>8 DEF Search, AnswerInv, SearchEntitled
    <2>3. RowFilter(hits, req.claims) \subseteq req.claims.allowed \ Foreign
      BY <2>2 DEF RowFilter, Hits, Mismatched
    <2>4. \A d \in RowFilter(hits, req.claims) :
             req.claims.region = NoRegion \/ DocRegion[d] = req.claims.region
      BY DEF RowFilter
    <2>5. RowsFor(req'.rows, req.claims, req.pack)
      BY <2>1, <2>3, <2>4 DEF RowsFor, Entitled
    <2> QED
      BY <2>1, <2>2, <2>5 DEF AnswerInv, Fields, KeyMatches, SearchEntitled,
                              RequestAudited, EntriesAudited
  <1>9. CASE Answer
    <2>1. /\ req.phase = "served" /\ cache' = cache
          /\ req' = [phase |-> "answered", claims |-> req.claims, slot |-> FALSE,
                     pack |-> req.pack, hit |-> req.hit, rows |-> req.rows,
                     decision |-> Decision(req.claims)]
      BY <1>9 DEF Answer
    <2>2. RowsFor(req.rows, req.claims, req.pack)
      BY <2>1 DEF AnswerInv, RequestAudited
    <2> QED
      BY <2>1, <2>2 DEF AnswerInv, Fields, KeyMatches, SearchEntitled, RequestAudited,
                        EntriesAudited, Decision
  <1>10. CASE Environment \/ UNCHANGED vars
    <2>1. cache' = cache
      BY <1>10, Untouched
    <2>2. CASE req' = req
      BY <2>1, <2>2 DEF AnswerInv, Fields, KeyMatches, SearchEntitled, RequestAudited,
                        EntriesAudited
    <2>3. CASE req.phase \in {"keyed", "missed"} /\ req' = [req EXCEPT !.moved = TRUE]
      <3>1. /\ DOMAIN req' = DOMAIN req /\ req'.phase = req.phase
            /\ req'.claims = req.claims /\ req'.key = req.key /\ req'.pack = req.pack
        BY <2>3 DEF ReqShape, AnswerInv, Fields
      <3> QED
        BY <2>1, <2>3, <3>1 DEF AnswerInv, Fields, KeyMatches, SearchEntitled,
                                RequestAudited, EntriesAudited
    <2> QED
      BY <1>10, <2>2, <2>3, Untouched
  <1> QED
    BY <1>1, <1>2, <1>3, <1>4, <1>5, <1>6, <1>7, <1>8, <1>9, <1>10, Endings
       DEF Next, Gateway

LEMMA SpecAnswers == Spec => []AnswerInv
  <1>1. SlotInv => ReqShape
    BY DEF SlotInv
  <1>2. AnswerInv /\ ReqShape /\ [Next]_vars => AnswerInv'
    BY AnswerStep
  <1> QED
    BY <1>1, <1>2, InitAnswers, SpecSlots, PTL DEF Spec

\* app.py:1447, query_cache.py:32: an answer, also one from the cache, has the filter, the
\* masks and the policy pack of the decision committed for it, and nothing the
\* caller is not entitled to, whoever called before and whatever is published
\* or activated meanwhile.
THEOREM GatewayAnswersAsAudited == Spec => []AnswersAsAudited
  <1>1. AnswerInv => AnswersAsAudited
    BY DEF AnswerInv, RequestAudited, RowsFor, Entitled, AnswersAsAudited
  <1> QED
    BY <1>1, SpecAnswers, PTL

-----------------------------------------------------------------------------
(* Builds *)

\* The key of a request is of the build that is published, unless it moved.
KeyOfPointer ==
    req.phase \in {"keyed", "missed"} /\ ~req.moved => pointer \in {req.key.build, Torn}

\* The rows of a running query are of the build its key names, unless it moved.
RowsOfKey == req.phase = "running" => req.moved \/ req.rows.build = req.key.build

BuildInv == KeyOfPointer /\ RowsOfKey /\ EntriesOfTheirBuild

\* Every step that keeps the pointer and adds no entry.
LEMMA BuildsKept ==
  ASSUME BuildInv, pointer' = pointer, cache' \subseteq cache,
         req'.phase \in {"keyed", "missed"} =>
            /\ req.phase \in {"keyed", "missed"}
            /\ req'.key = req.key /\ req'.moved = req.moved,
         req'.phase = "running" => req' = req
  PROVE  BuildInv'
  BY DEF BuildInv, KeyOfPointer, RowsOfKey, EntriesOfTheirBuild

LEMMA BuildStep ==
  ASSUME ReqShape, Fields, BuildInv, [Next]_vars
  PROVE  BuildInv'
  <1>1. CASE Ends /\ pointer' = pointer
    BY <1>1, BuildsKept DEF Ends
  <1>2. CASE Admit \/ Bind \/ ServeHit \/ BeginSearch \/ Search \/ Answer
    <2>1. pointer' = pointer /\ cache' \subseteq cache
      BY <1>2 DEF Admit, Bind, ServeHit, BeginSearch, Search, Answer, world
    <2>2. req'.phase \notin {"keyed", "missed", "running"}
      <3>1. CASE BeginSearch
        BY <3>1 DEF BeginSearch, ReqShape
      <3>2. CASE Admit \/ Bind \/ ServeHit \/ Search \/ Answer
        BY <3>2 DEF Admit, Bind, ServeHit, Search, Answer
      <3> QED
        BY <1>2, <3>1, <3>2
    <2> QED
      BY <2>1, <2>2, BuildsKept
  <1>3. CASE BuildKey
    <2>1. cache' = cache /\ pointer' = pointer /\ req'.phase = "keyed"
          /\ req'.key.build = pointer
      BY <1>3 DEF BuildKey, Keyed, Key, world
    <2> QED
      BY <2>1 DEF BuildInv, KeyOfPointer, RowsOfKey, EntriesOfTheirBuild
  <1>4. CASE Miss
    <2>1. /\ req.phase = "keyed" /\ cache' \subseteq cache /\ pointer' = pointer
          /\ req' = [req EXCEPT !.phase = "missed", !.slot = TRUE]
      BY <1>4 DEF Miss, AfterGet, world
    <2>2. req'.phase = "missed" /\ req'.key = req.key /\ req'.moved = req.moved
      BY <2>1 DEF Fields, ReqShape
    <2> QED
      BY <2>1, <2>2, BuildsKept
  <1>5. CASE PrepareViews \/ Store
    <2>1. CASE PrepareViews
      <3>1. /\ req.phase = "missed" /\ pointer # Torn /\ cache' = cache
            /\ req'.phase = "running" /\ req'.moved = req.moved /\ req'.key = req.key
            /\ req'.rows.build = pointer
        BY <2>1 DEF PrepareViews, RowsNow
      <3> QED
        BY <3>1 DEF BuildInv, KeyOfPointer, RowsOfKey, EntriesOfTheirBuild
    <2>2. CASE Store
      <3> DEFINE entry == [key |-> req.key, rows |-> req.rows, expires |-> clock + Ttl,
                           moved |-> req.moved, took |-> clock - req.read]
      <3>1. req.phase = "running" /\ CacheSet(entry) /\ req'.phase = "served"
        BY <2>2 DEF Store
      <3>2. entry.moved \/ entry.rows.build = entry.key.build
        BY <3>1 DEF BuildInv, RowsOfKey
      <3>3. cache' \subseteq cache \cup {entry}
        BY <3>1, CacheSetShape
      <3> HIDE DEF entry
      <3> QED
        BY <3>1, <3>2, <3>3 DEF BuildInv, KeyOfPointer, RowsOfKey, EntriesOfTheirBuild
    <2> QED
      BY <1>5, <2>1, <2>2
  <1>6. CASE WritePointer
    <2>1. PICK b \in Builds :
            /\ pointer' = b
            /\ req' = IF req.phase \in {"keyed", "missed"} /\ b # req.key.build
                      THEN [req EXCEPT !.moved = TRUE] ELSE req
      BY <1>6 DEF WritePointer
    <2>2. cache' = cache
      BY <1>6 DEF WritePointer
    <2>3. CASE req.phase \in {"keyed", "missed"} /\ b # req.key.build
      <3>1. req'.moved /\ req'.phase = req.phase
        BY <2>1, <2>3 DEF Fields, ReqShape
      <3> QED
        BY <2>2, <2>3, <3>1 DEF BuildInv, KeyOfPointer, RowsOfKey, EntriesOfTheirBuild
    <2>4. CASE ~(req.phase \in {"keyed", "missed"} /\ b # req.key.build)
      BY <2>1, <2>2, <2>4 DEF BuildInv, KeyOfPointer, RowsOfKey, EntriesOfTheirBuild
    <2> QED
      BY <2>3, <2>4
  <1>7. CASE TruncatePointer
    BY <1>7 DEF TruncatePointer, BuildInv, KeyOfPointer, RowsOfKey, EntriesOfTheirBuild
  <1>8. CASE Tick \/ ChangePack \/ ChangeManifest \/ UNCHANGED vars
    <2>1. pointer' = pointer /\ cache' = cache /\ req' = req
      BY <1>8 DEF Tick, ChangePack, ChangeManifest, vars, world
    <2> QED
      BY <2>1, BuildsKept
  <1>9. \/ TurnAway \/ Simulate \/ DenyBinding \/ DenyDatasets \/ DenySemanticQuery
        \/ DenyAbac \/ DenyEntitlement \/ RaiseEarly \/ FailExecution \/ FailSearch
        \/ DenyAnswer \/ Deny \/ FailAudit \/ Respond \/ Restart
        => pointer' = pointer
    BY DEF TurnAway, Simulate, DenyBinding, DenyDatasets, DenySemanticQuery, DenyAbac,
           DenyEntitlement, RefuseEarly, RaiseEarly, FailExecution, FailSearch, DenyAnswer,
           Deny, FailAudit, Respond, Restart, world
  <1> QED
    BY <1>1, <1>2, <1>3, <1>4, <1>5, <1>6, <1>7, <1>8, <1>9, Endings
       DEF Next, Gateway, Environment

\* app.py:1529, executor.py:213: a cached answer is of the build its key names
\* unless the pointer moved between the two reads of the request that stored it.
THEOREM GatewayEntriesOfTheirBuild == Spec => []EntriesOfTheirBuild
  <1>1. Init => BuildInv
    BY DEF Init, Idle, BuildInv, KeyOfPointer, RowsOfKey, EntriesOfTheirBuild
  <1>2. BuildInv /\ SlotInv /\ AnswerInv /\ [Next]_vars => BuildInv'
    BY BuildStep DEF SlotInv, AnswerInv
  <1>3. BuildInv => EntriesOfTheirBuild
    BY DEF BuildInv
  <1> QED
    BY <1>1, <1>2, <1>3, SpecSlots, SpecAnswers, PTL DEF Spec

-----------------------------------------------------------------------------
(* Age *)

\* An entry expires at the latest Ttl, and the time its query took, after its build was
\* last seen published; the build of a running query was published when it was read.
AgeInv ==
    /\ clock \in Nat
    /\ served \in [Builds -> Nat]
    /\ \A b \in Builds : served[b] <= clock
    /\ pointer \in Builds => served[pointer] = clock
    /\ \A e \in cache :
         /\ e.expires \in Nat /\ e.took \in Nat
         /\ e.rows.build \in Builds => e.expires <= served[e.rows.build] + e.took + Ttl
    /\ req.phase = "running" =>
         /\ req.read \in Nat /\ req.read <= clock
         /\ req.rows.build \in Builds => req.read <= served[req.rows.build]

\* Time passes and builds are published: nothing was published longer ago.
LEMMA AgeKept ==
  ASSUME AgeInv, clock' \in Nat, clock <= clock', served' \in [Builds -> Nat],
         \A b \in Builds : served[b] <= served'[b] /\ served'[b] <= clock',
         pointer' \in Builds => served'[pointer'] = clock',
         cache' \subseteq cache,
         req'.phase = "running" => req.phase = "running" /\ req' = req
  PROVE  AgeInv'
  <1>1. ASSUME NEW b \in Builds, NEW m \in Nat, NEW n \in Nat, m <= served[b] + n + Ttl
        PROVE  m <= served'[b] + n + Ttl
    <2>1. served[b] \in Nat /\ served'[b] \in Nat /\ served[b] <= served'[b]
      BY DEF AgeInv
    <2> QED
      BY <1>1, <2>1, GatewayAssumption
  <1>2. ASSUME NEW e \in cache
        PROVE  /\ e.expires \in Nat /\ e.took \in Nat
               /\ e.rows.build \in Builds => e.expires <= served'[e.rows.build] + e.took + Ttl
    BY <1>1 DEF AgeInv
  <1>3. ASSUME req'.phase = "running"
        PROVE  /\ req'.read \in Nat /\ req'.read <= clock'
               /\ req'.rows.build \in Builds => req'.read <= served'[req'.rows.build]
    <2>1. /\ req' = req /\ req.read \in Nat /\ req.read <= clock
          /\ req.rows.build \in Builds => req.read <= served[req.rows.build]
      BY <1>3 DEF AgeInv
    <2>2. req.read <= clock'
      BY <2>1 DEF AgeInv
    <2>3. ASSUME NEW b \in Builds, req.read <= served[b]
          PROVE  req.read <= served'[b]
      <3>1. served[b] \in Nat /\ served'[b] \in Nat /\ served[b] <= served'[b]
        BY DEF AgeInv
      <3> QED
        BY <2>1, <2>3, <3>1
    <2> QED
      BY <2>1, <2>2, <2>3
  <1> QED
    BY <1>2, <1>3 DEF AgeInv

LEMMA AgeStep ==
  ASSUME ReqShape, Fields, AgeInv, [Next]_vars
  PROVE  AgeInv'
  <1>1. CASE /\ UNCHANGED world /\ cache' \subseteq cache
             /\ req'.phase = "running" => req.phase = "running" /\ req' = req
    <2>1. clock' = clock /\ served' = served /\ pointer' = pointer
      BY <1>1 DEF world
    <2>2. /\ clock' \in Nat /\ clock <= clock'
          /\ \A b \in Builds : served[b] <= served'[b] /\ served'[b] <= clock'
      BY <2>1 DEF AgeInv
    <2> QED
      BY <1>1, <2>1, <2>2, AgeKept DEF AgeInv
  <1>2. CASE PrepareViews \/ Store
    <2>1. clock' = clock /\ served' = served /\ pointer' = pointer
      BY <1>2 DEF PrepareViews, Store, world
    <2>2. CASE PrepareViews
      <3>1. /\ cache' = cache /\ req'.phase = "running" /\ req'.read = clock
            /\ req'.rows.build = pointer
        BY <2>2 DEF PrepareViews, RowsNow
      <3> QED
        BY <2>1, <3>1 DEF AgeInv
    <2>3. CASE Store
      <3> DEFINE entry == [key |-> req.key, rows |-> req.rows, expires |-> clock + Ttl,
                           moved |-> req.moved, took |-> clock - req.read]
      <3>1. req.phase = "running" /\ CacheSet(entry) /\ req'.phase = "served"
        BY <2>3 DEF Store
      <3>2. cache' \subseteq cache \cup {entry}
        BY <3>1, CacheSetShape
      <3>3. /\ clock \in Nat /\ req.read \in Nat /\ req.read <= clock
            /\ req.rows.build \in Builds =>
                 served[req.rows.build] \in Nat /\ req.read <= served[req.rows.build]
        BY <3>1 DEF AgeInv
      <3>4. entry.expires = clock + Ttl /\ entry.rows = req.rows /\ entry.took = clock - req.read
        OBVIOUS
      <3> HIDE DEF entry
      <3>5. /\ entry.expires \in Nat /\ entry.took \in Nat
            /\ entry.rows.build \in Builds =>
                 entry.expires <= served[entry.rows.build] + entry.took + Ttl
        BY <3>3, <3>4, GatewayAssumption
      <3> QED
        BY <2>1, <3>1, <3>2, <3>5 DEF AgeInv
    <2> QED
      BY <1>2, <2>2, <2>3
  <1>3. CASE Tick
    <2>1. /\ clock' = clock + 1 /\ pointer' = pointer /\ cache' = cache /\ req' = req
          /\ served' = [b \in Builds |-> IF b = pointer THEN clock + 1 ELSE served[b]]
      BY <1>3 DEF Tick
    <2>2. \A b \in Builds : served[b] <= served'[b] /\ served'[b] <= clock'
      BY <2>1 DEF AgeInv
    <2>3. served' \in [Builds -> Nat] /\ clock' \in Nat /\ clock <= clock'
      BY <2>1 DEF AgeInv
    <2> QED
      BY <2>1, <2>2, <2>3, AgeKept
  <1>4. CASE WritePointer
    <2>1. PICK p \in Builds : pointer' = p /\ served' = [served EXCEPT ![p] = clock]
      BY <1>4 DEF WritePointer
    <2>2. clock' = clock /\ cache' = cache /\ (req'.phase = "running" => req' = req)
      BY <1>4, Untouched DEF WritePointer, Environment, ReqShape
    <2>3. \A b \in Builds : served[b] <= served'[b] /\ served'[b] <= clock'
      BY <2>1, <2>2 DEF AgeInv
    <2>4. /\ served' \in [Builds -> Nat] /\ clock' \in Nat /\ clock <= clock'
          /\ served'[pointer'] = clock'
      BY <2>1, <2>2 DEF AgeInv
    <2> QED
      BY <2>2, <2>3, <2>4, AgeKept
  <1>5. CASE TruncatePointer \/ ChangePack \/ ChangeManifest \/ UNCHANGED vars
    <2>1. /\ clock' = clock /\ served' = served /\ cache' = cache /\ req' = req
          /\ pointer' \in {pointer, Torn}
      BY <1>5 DEF TruncatePointer, ChangePack, ChangeManifest, vars, world
    <2>2. /\ clock <= clock'
          /\ \A b \in Builds : served[b] <= served'[b] /\ served'[b] <= clock'
      BY <2>1 DEF AgeInv
    <2>3. pointer' \in Builds => served'[pointer'] = clock'
      BY <2>1, GatewayAssumption DEF AgeInv
    <2> QED
      BY <2>1, <2>2, <2>3, AgeKept DEF AgeInv
  <1>6. CASE Restart
    BY <1>6, <1>1 DEF Restart, Idle
  <1>7. CASE Gateway /\ ~PrepareViews /\ ~Store
    <2>1. UNCHANGED world /\ cache' \subseteq cache
      BY <1>7 DEF Gateway, TurnAway, Admit, Simulate, DenyBinding, DenyDatasets,
                  DenySemanticQuery, DenyAbac, RaiseEarly, RefuseEarly, Bind, BuildKey,
                  Keyed, ServeHit, Miss, AfterGet, FailExecution, DenyEntitlement,
                  BeginSearch, FailSearch, Search, DenyAnswer, Answer, Deny, FailAudit,
                  Respond
    <2>2. req'.phase # "running"
      <3>1. CASE Miss \/ BeginSearch
        BY <3>1 DEF Miss, BeginSearch, ReqShape
      <3>2. CASE Admit \/ Bind \/ BuildKey \/ ServeHit \/ Search \/ Answer
        BY <3>2 DEF Admit, Bind, BuildKey, Keyed, ServeHit, Search, Answer
      <3>3. CASE Ends
        BY <3>3 DEF Ends
      <3> QED
        BY <1>7, <3>1, <3>2, <3>3, Endings DEF Gateway
    <2> QED
      BY <1>1, <2>1, <2>2
  <1> QED
    BY <1>2, <1>3, <1>4, <1>5, <1>6, <1>7 DEF Next, Environment

LEMMA SpecAge == Spec => []AgeInv
  <1>1. Init => AgeInv
    BY GatewayAssumption DEF Init, Idle, AgeInv
  <1>2. AgeInv /\ SlotInv /\ AnswerInv /\ [Next]_vars => AgeInv'
    BY AgeStep DEF SlotInv, AnswerInv
  <1> QED
    BY <1>1, <1>2, SpecSlots, SpecAnswers, PTL DEF Spec

\* Only a hit answers a request whose key has just been built.
LEMMA KeyedIsServedFromCache ==
  ASSUME ReqShape, Fields, [Next]_vars, req.phase = "keyed", req'.phase = "served"
  PROVE  ServeHit
  <1>1. CASE Environment \/ UNCHANGED vars
    <2>1. req' = req \/ req' = [req EXCEPT !.moved = TRUE]
      BY <1>1, Untouched
    <2>2. req'.phase = req.phase
      BY <2>1 DEF ReqShape
    <2> QED
      BY <2>2
  <1>2. CASE Miss
    BY <1>2 DEF Miss, ReqShape
  <1>3. CASE Restart
    BY <1>3 DEF Restart, Idle
  <1>4. CASE Gateway /\ ~Miss
    BY <1>4 DEF Gateway, TurnAway, Admit, Simulate, DenyBinding, DenyDatasets,
                DenySemanticQuery, DenyAbac, RaiseEarly, Bind, BuildKey, Keyed,
                FailExecution, PrepareViews, Store, DenyEntitlement, BeginSearch,
                FailSearch, Search, DenyAnswer, Answer, Deny, FailAudit, Respond
  <1> QED
    BY <1>1, <1>2, <1>3, <1>4 DEF Next

\* query_cache.py:32, :47, executor.py:213: an answer from the cache is of a build that
\* was the published one less than the cache's time to live, and the time its query
\* ran, ago, whatever moved between the key, the views and the entry.
THEOREM GatewayStaleAtMostTtl == Spec => StaleAtMostTtl
  <1>1. ASSUME SlotInv, AnswerInv, AgeInv, [Next]_vars
        PROVE  [req.phase = "keyed" /\ req'.phase = "served" /\ req'.rows.build \in Builds
                  => served[req'.rows.build] + req'.took + Ttl > clock]_vars
    <2> SUFFICES ASSUME req.phase = "keyed", req'.phase = "served",
                        req'.rows.build \in Builds
                 PROVE  served[req'.rows.build] + req'.took + Ttl > clock
      OBVIOUS
    <2>1. ServeHit
      BY <1>1, KeyedIsServedFromCache DEF SlotInv, AnswerInv
    <2>2. PICK e \in Fresh(req.key) : req'.rows = e.rows /\ req'.took = e.took
      BY <2>1 DEF ServeHit
    <2>3. e \in cache /\ e.expires > clock
      BY DEF Fresh
    <2>4. /\ e.expires \in Nat /\ e.took \in Nat
          /\ e.expires <= served[e.rows.build] + e.took + Ttl
      BY <1>1, <2>2, <2>3 DEF AgeInv
    <2>5. served[e.rows.build] \in Nat /\ clock \in Nat
      BY <1>1, <2>2 DEF AgeInv
    <2> QED
      BY <2>2, <2>3, <2>4, <2>5, GatewayAssumption
  <1> QED
    BY <1>1, SpecSlots, SpecAnswers, SpecAge, PTL DEF Spec, StaleAtMostTtl

-----------------------------------------------------------------------------
(* Types *)

WorldTyped ==
    /\ clock \in 0..MaxClock /\ window \in 0..clock
    /\ pack \in Packs /\ manifest \in Manifests
    /\ pointer \in Builds \cup {NoBuild, Torn}

EntryTyped(e) == e.key \in Keys /\ e.rows \in Answers

\* The cache is finite, so evicting one entry makes room for one.
CacheTyped ==
    /\ IsFiniteSet(cache) /\ Cardinality(cache) <= MaxEntries
    /\ \A e \in cache : EntryTyped(e)

\* What a request carries into the cache and into its answer.
RequestTyped ==
    /\ req.phase \in Inside \cup {"served", "answered"} => req.pack \in Packs
    /\ req.phase = "bound" => req.text \in Texts \cup Manifests
    /\ req.phase \in {"keyed", "missed", "running"} => req.key \in Keys
    /\ req.phase \in {"running", "served", "answered"} => req.rows \in Answers

TypeInv == WorldTyped /\ CacheTyped /\ RequestTyped

LEMMA InitTyped == Init => TypeInv
  <1> SUFFICES ASSUME Init PROVE TypeInv
    OBVIOUS
  <1>1. WorldTyped
    BY GatewayAssumption DEF Init, WorldTyped
  <1>2. CacheTyped
    BY FS_EmptySet, GatewayAssumption DEF Init, CacheTyped
  <1>3. RequestTyped
    BY DEF Init, Idle, RequestTyped, Inside
  <1> QED
    BY <1>1, <1>2, <1>3 DEF TypeInv

LEMMA WorldStep ==
  ASSUME WorldTyped, [Next]_vars
  PROVE  WorldTyped'
  <1>1. CASE UNCHANGED <<world, window>>
    BY <1>1 DEF WorldTyped, world
  <1>2. CASE UNCHANGED world /\ window' = clock
    BY <1>2, GatewayAssumption DEF WorldTyped, world
  <1>3. CASE Environment \/ UNCHANGED vars
    <2>1. window' = window
      BY <1>3 DEF Environment, Tick, TruncatePointer, WritePointer, ChangePack,
                  ChangeManifest, vars, limiter
    <2>2. clock' \in 0..MaxClock /\ (clock' = clock \/ clock' = clock + 1)
      BY <1>3, GatewayAssumption
         DEF Environment, Tick, TruncatePointer, WritePointer, ChangePack, ChangeManifest,
             vars, world, WorldTyped
    <2>3. window' \in 0..clock'
      BY <2>1, <2>2, GatewayAssumption DEF WorldTyped
    <2>4. pack' \in Packs /\ manifest' \in Manifests
          /\ pointer' \in Builds \cup {NoBuild, Torn}
      BY <1>3 DEF Environment, Tick, TruncatePointer, WritePointer, ChangePack,
                  ChangeManifest, vars, world, WorldTyped
    <2> QED
      BY <2>2, <2>3, <2>4 DEF WorldTyped
  <1>4. CASE Admit \/ Restart
    BY <1>2, <1>4 DEF Admit, TryAcquire, Restart
  <1>5. CASE Gateway /\ ~Admit
    <2>1. UNCHANGED <<world, window>>
      BY <1>5 DEF Gateway, TurnAway, Simulate, DenyBinding, DenyDatasets,
                  DenySemanticQuery, DenyAbac, RaiseEarly, RefuseEarly, Bind, BuildKey,
                  Keyed, ServeHit, Miss, FailExecution, PrepareViews, Store,
                  DenyEntitlement, BeginSearch, FailSearch, Search, DenyAnswer, Answer,
                  Deny, FailAudit, Respond, Release, limiter
    <2> QED
      BY <1>1, <2>1
  <1> QED
    BY <1>3, <1>4, <1>5 DEF Next

LEMMA CacheShrinks ==
  ASSUME CacheTyped, cache' \subseteq cache
  PROVE  CacheTyped'
  <1>1. cache' \in SUBSET cache /\ IsFiniteSet(cache)
    BY DEF CacheTyped
  <1>2. IsFiniteSet(cache') /\ Cardinality(cache') <= Cardinality(cache)
    BY <1>1, FS_Subset
  <1>3. Cardinality(cache') \in Nat /\ Cardinality(cache) \in Nat
    BY <1>1, <1>2, FS_CardinalityType
  <1> QED
    BY <1>2, <1>3, GatewayAssumption DEF CacheTyped

\* An answer is stored in a free place or in that of the entry next to expire.
LEMMA CacheSetTyped ==
  ASSUME CacheTyped, NEW entry, EntryTyped(entry), CacheSet(entry)
  PROVE  CacheTyped'
  <1>1. IsFiniteSet(cache) /\ Cardinality(cache) \in Nat
    BY FS_CardinalityType DEF CacheTyped
  <1>2. ASSUME NEW kept, kept \subseteq cache, IsFiniteSet(kept),
               Cardinality(kept) \in Nat, Cardinality(kept) < MaxEntries,
               cache' = kept \cup {entry}
        PROVE  CacheTyped'
    <2>1. IsFiniteSet(cache') /\ Cardinality(cache') <= Cardinality(kept) + 1
      BY <1>2, FS_AddElement
    <2>2. Cardinality(cache') \in Nat
      BY <2>1, FS_CardinalityType
    <2>3. Cardinality(cache') <= MaxEntries
      BY <1>2, <2>1, <2>2, GatewayAssumption
    <2>4. \A e \in cache' : EntryTyped(e)
      BY <1>2 DEF CacheTyped
    <2> QED
      BY <2>1, <2>3, <2>4 DEF CacheTyped, EntryTyped
  <1>3. CASE Cardinality(cache) < MaxEntries
    BY <1>1, <1>2, <1>3 DEF CacheSet
  <1>4. CASE ~(Cardinality(cache) < MaxEntries)
    <2>1. PICK oldest \in cache : cache' = (cache \ {oldest}) \cup {entry}
      BY <1>4 DEF CacheSet
    <2>2. /\ IsFiniteSet(cache \ {oldest})
          /\ Cardinality(cache \ {oldest}) = Cardinality(cache) - 1
      BY <1>1, FS_RemoveElement
    <2>3. Cardinality(cache \ {oldest}) \in Nat
      BY <2>2, FS_CardinalityType
    <2>4. Cardinality(cache \ {oldest}) < MaxEntries
      BY <1>1, <2>2, <2>3, GatewayAssumption DEF CacheTyped
    <2> QED
      BY <1>2, <2>1, <2>2, <2>3, <2>4
  <1> QED
    BY <1>3, <1>4

\* What an execution reads: the rows of the published build for this caller.
LEMMA RowsNowTyped ==
  ASSUME req.claims \in Claims, req.key \in Keys, req.pack \in Packs,
         pointer \in Builds \cup {NoBuild, Torn}
  PROVE  RowsNow \in Answers
  <1>1. req.claims.region \in Regions /\ Masked(req.claims) \in BOOLEAN
    BY DEF Regions, Masked
  <1>2. req.key.text \in Texts \cup Manifests
    BY DEF Keys
  <1> QED
    BY <1>1, <1>2 DEF RowsNow, Answers

LEMMA CacheStep ==
  ASSUME ReqShape, WorldTyped, CacheTyped, RequestTyped, [Next]_vars
  PROVE  CacheTyped'
  <1>1. CASE Store
    <2> DEFINE entry == [key |-> req.key, rows |-> req.rows, expires |-> clock + Ttl,
                         moved |-> req.moved, took |-> clock - req.read]
    <2>1. req.phase = "running" /\ CacheSet(entry)
      BY <1>1 DEF Store
    <2>2. EntryTyped(entry)
      BY <2>1 DEF RequestTyped, EntryTyped
    <2> HIDE DEF entry
    <2> QED
      BY <2>1, <2>2, CacheSetTyped
  <1>2. CASE ~Store
    <2>1. cache' \subseteq cache
      BY <1>2 DEF Next, Gateway, Environment, TurnAway, Admit, Simulate, DenyBinding,
                  DenyDatasets, DenySemanticQuery, DenyAbac, RaiseEarly, RefuseEarly,
                  Bind, BuildKey, Keyed, ServeHit, Miss, PrepareViews, AfterGet,
                  FailExecution, DenyEntitlement, BeginSearch, FailSearch, Search,
                  DenyAnswer, Answer, Deny, FailAudit, Respond, Restart, Tick,
                  TruncatePointer, WritePointer, ChangePack, ChangeManifest, vars
    <2> QED
      BY <2>1, CacheShrinks
  <1> QED
    BY <1>1, <1>2

LEMMA RequestStep ==
  ASSUME ReqShape, Fields, WorldTyped, CacheTyped, RequestTyped, [Next]_vars
  PROVE  RequestTyped'
  <1>1. CASE Ends
    BY <1>1 DEF Ends, RequestTyped, Inside
  <1>2. CASE Admit
    <2>1. PICK c \in Claims, kind \in {"query", "retrieve"} :
            req' \in {[phase |-> kind, claims |-> c, slot |-> FALSE, pack |-> pack],
                      [phase |-> "recording", claims |-> c, slot |-> FALSE]}
      BY <1>2 DEF Admit
    <2> QED
      BY <2>1 DEF WorldTyped, RequestTyped, Inside
  <1>3. CASE Bind \/ BuildKey
    <2>1. req.claims \in Claims /\ req.pack \in Packs
      BY <1>3 DEF Bind, BuildKey, Keyed, ReqShape, RequestTyped, Inside
    <2>2. CASE Bind
      <3>1. PICK text \in Texts \cup Manifests :
              req' = [phase |-> "bound", claims |-> req.claims, slot |-> FALSE,
                      pack |-> req.pack, text |-> text]
        BY <2>2 DEF Bind, WorldTyped
      <3> QED
        BY <2>1, <3>1 DEF RequestTyped
    <2>3. CASE BuildKey
      <3>1. /\ req.phase = "bound" /\ pointer \in Builds \cup {NoBuild}
            /\ req' = [phase |-> "keyed", claims |-> req.claims, slot |-> FALSE,
                       pack |-> req.pack, moved |-> FALSE, key |-> Key(req.claims, pointer)]
        BY <2>3 DEF BuildKey, Keyed, WorldTyped
      <3>2. Key(req.claims, pointer) \in Keys
        BY <2>1, <3>1 DEF Key, Keys, RequestTyped
      <3> QED
        BY <2>1, <3>1, <3>2 DEF RequestTyped
    <2> QED
      BY <1>3, <2>2, <2>3
  <1>4. CASE ServeHit
    <2>1. PICK e \in Fresh(req.key) :
            req' = [phase |-> "served", claims |-> req.claims, slot |-> FALSE,
                    pack |-> req.pack, hit |-> TRUE, rows |-> e.rows, took |-> e.took]
      BY <1>4 DEF ServeHit
    <2>2. e.rows \in Answers
      BY DEF Fresh, CacheTyped, EntryTyped
    <2>3. req.pack \in Packs
      BY <1>4 DEF ServeHit, RequestTyped, Inside
    <2> QED
      BY <2>1, <2>2, <2>3 DEF RequestTyped
  <1>5. CASE Miss
    <2>1. req.phase = "keyed" /\ req' = [req EXCEPT !.phase = "missed", !.slot = TRUE]
      BY <1>5 DEF Miss
    <2>2. req'.phase = "missed" /\ req'.key = req.key /\ req'.pack = req.pack
      BY <2>1 DEF ReqShape, Fields
    <2> QED
      BY <2>1, <2>2 DEF RequestTyped, Inside
  <1>6. CASE PrepareViews \/ Store
    <2>1. /\ req.phase \in {"missed", "running"}
          /\ req.claims \in Claims /\ req.key \in Keys /\ req.pack \in Packs
      BY <1>6 DEF PrepareViews, Store, ReqShape, RequestTyped, Inside
    <2>2. CASE PrepareViews
      <3>1. req' = [phase |-> "running", claims |-> req.claims, slot |-> TRUE,
                    pack |-> req.pack, moved |-> req.moved, key |-> req.key,
                    rows |-> RowsNow, read |-> clock]
        BY <2>2 DEF PrepareViews
      <3>2. RowsNow \in Answers
        BY <2>1, RowsNowTyped DEF WorldTyped
      <3> QED
        BY <2>1, <3>1, <3>2 DEF RequestTyped
    <2>3. CASE Store
      <3>1. /\ req.phase = "running" /\ req'.phase = "served" /\ req'.pack = req.pack
            /\ req'.rows = req.rows
        BY <2>3 DEF Store
      <3> QED
        BY <2>1, <3>1 DEF RequestTyped
    <2> QED
      BY <1>6, <2>2, <2>3
  <1>7. CASE BeginSearch
    <2>1. req.phase = "retrieve" /\ req' = [req EXCEPT !.phase = "searching", !.slot = TRUE]
      BY <1>7 DEF BeginSearch
    <2>2. req'.phase = "searching" /\ req'.pack = req.pack
      BY <2>1 DEF ReqShape, Fields
    <2> QED
      BY <2>1, <2>2 DEF RequestTyped, Inside
  <1>8. CASE Search
    <2>1. PICK hits \in Hits(req.claims) :
            req' = [phase |-> "served", claims |-> req.claims, slot |-> FALSE,
                    pack |-> req.pack, hit |-> FALSE,
                    rows |-> [text |-> NoText, build |-> NoBuild, pack |-> req.pack,
                              region |-> req.claims.region, masked |-> Masked(req.claims),
                              docs |-> RowFilter(hits, req.claims)]]
      BY <1>8 DEF Search
    <2>2. req.claims \in Claims /\ req.pack \in Packs
      BY <1>8 DEF Search, ReqShape, RequestTyped, Inside
    <2>3. req.claims.region \in Regions /\ Masked(req.claims) \in BOOLEAN
      BY <2>2 DEF Regions, Masked
    <2>4. RowFilter(hits, req.claims) \subseteq Documents
      BY DEF RowFilter, Hits
    <2>5. req'.rows \in Answers
      BY <2>1, <2>2, <2>3, <2>4 DEF Answers
    <2> QED
      BY <2>1, <2>2, <2>5 DEF RequestTyped
  <1>9. CASE Answer
    <2>1. req.phase = "served" /\ req'.pack = req.pack /\ req'.rows = req.rows
          /\ req'.phase = "answered"
      BY <1>9 DEF Answer
    <2> QED
      BY <2>1 DEF RequestTyped, Inside
  <1>10. CASE Environment \/ UNCHANGED vars
    <2>1. CASE req' = req
      BY <2>1 DEF RequestTyped
    <2>2. CASE req.phase \in {"keyed", "missed"} /\ req' = [req EXCEPT !.moved = TRUE]
      <3>1. req'.phase = req.phase /\ req'.key = req.key /\ req'.pack = req.pack
        BY <2>2 DEF ReqShape, Fields
      <3> QED
        BY <2>2, <3>1 DEF RequestTyped
    <2> QED
      BY <1>10, <2>1, <2>2, Untouched
  <1> QED
    BY <1>1, <1>2, <1>3, <1>4, <1>5, <1>6, <1>7, <1>8, <1>9, <1>10, Endings
       DEF Next, Gateway

\* query_cache.py:40, rate_limit.py:25: every variable has its type; in
\* particular the cache never holds more than its limit, no actor more slots or
\* requests a minute than its own, and every entry and answer is of a caller,
\* a text, a pack and a build the gateway knows.
THEOREM GatewayTyped == Spec => []TypeOK
  <1>1. SlotInv /\ AnswerInv /\ TypeInv /\ [Next]_vars => TypeInv'
    BY WorldStep, CacheStep, RequestStep DEF SlotInv, AnswerInv, TypeInv
  <1>2. SlotInv /\ TypeInv => TypeOK
    BY DEF SlotInv, ReqShape, Slots, TypeInv, WorldTyped, CacheTyped, EntryTyped, TypeOK
  <1> QED
    BY <1>1, <1>2, InitTyped, SpecSlots, SpecAnswers, PTL DEF Spec
=============================================================================
