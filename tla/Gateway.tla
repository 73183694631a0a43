------------------------------ MODULE Gateway ------------------------------
(***************************************************************************)
(* The query gateway, for one workspace: /gateway/query, /retrieve and     *)
(* /policy/simulate of backend/gateway/app.py with the limiter             *)
(* (rate_limit.py), the answer cache (query_cache.py), access and ABAC     *)
(* rules (policy.py, abac.py), semantic binding (semantic_binding.py) and  *)
(* the readers behind them (executor.py, retrieval.py,                     *)
(* retrieval_opensearch.py, retrieval_qdrant.py).                          *)
(*                                                                         *)
(* A body is synchronous code in an async function, so the bodies of one   *)
(* gateway exclude one another; the control plane and the clock are other  *)
(* processes and may move between any two reads of a body.  What a payload *)
(* asks for is chosen where the code first looks at it.                    *)
(***************************************************************************)
EXTENDS Naturals, FiniteSets

CONSTANTS
    Claims,        \* [actor, ai, role, region, allowed, allowlisted] of a token
    Nobody,        \* no authenticated actor
    NoRegion,      \* claim or resource without a region
    Texts,         \* SQL texts humans send
    NoText,        \* a retrieval asks for documents, not SQL
    Foreign,       \* datasets catalogued in another workspace
    DocRegion,     \* region in the sensitivity summary of a dataset with documents
    Manifests,     \* datasets the metric of a semantic manifest reads; {}: none active
    Builds,
    NoBuild,       \* nothing published
    Torn,          \* pointer file cut off between truncate and write
    Packs,
    NoPack,        \* no policy pack activated
    MaxConcurrent, \* SCHEMAPILOT_GATEWAY_MAX_CONCURRENT_PER_ACTOR
    MaxRequests,   \* SCHEMAPILOT_GATEWAY_MAX_REQUESTS_PER_MINUTE
    MaxEntries,    \* gateway_query_cache_max_entries
    Ttl,           \* gateway_query_cache_ttl_seconds, in clock ticks
    MaxClock,      \* bound on the clock, in ticks of a minute
    MaxMoves       \* bound on the changes of pointer, pack and manifest

Actors == {c.actor : c \in Claims}
Regions == {c.region : c \in Claims} \cup {NoRegion}
Documents == DOMAIN DocRegion
Roles == {"analyst", "data_steward", "platform_admin", "other", "none"}

ASSUME GatewayAssumption ==
    /\ \A c \in Claims : /\ c.role \in Roles
                         /\ c.ai \in BOOLEAN /\ c.allowlisted \in BOOLEAN
    /\ Nobody \notin Claims /\ Nobody \notin Actors
    /\ NoBuild \notin Builds /\ Torn \notin Builds
    /\ {} \in Manifests /\ NoPack \in Packs
    /\ MaxConcurrent \in Nat /\ MaxRequests \in Nat
    /\ MaxEntries \in Nat \ {0} /\ Ttl \in Nat \ {0} /\ MaxClock \in Nat
    /\ MaxMoves \in Nat

VARIABLES
    clock,     \* minutes of the gateway's clock
    window,    \* minute the limiter counts requests for
    counts,    \* admitted requests of each actor in that minute
    inflight,  \* concurrency slots each actor holds
    pack,      \* active policy pack in the metadata database
    manifest,  \* active semantic manifest in the metadata database
    pointer,   \* _published/latest.json
    cache,     \* entries of the answer cache
    req,       \* the request whose body the event loop is running
    moves,     \* changes of pointer, pack and manifest so far
    early,     \* slots of requests refused between acquire and execution (ghost)
    served     \* last minute each build was the published one (ghost)

limiter == <<window, counts, inflight>>
world == <<clock, pack, manifest, pointer, moves, served>>
vars == <<limiter, world, cache, req, early>>

Idle == [phase |-> "idle", claims |-> Nobody, slot |-> FALSE]

\* evaluate_access
AccessAllowed(c) ==
    IF c.ai THEN c.allowlisted
            ELSE c.role \in {"analyst", "data_steward", "platform_admin"}

\* evaluate_abac: an unset region on either side never mismatches, OPA is off
AbacAllows(c, region, opa) ==
    /\ ~opa
    /\ region = NoRegion \/ c.region = NoRegion \/ region = c.region

Masked(c) == c.role = "analyst"

(***************************************************************************)
(* Limiter                                                                 *)
(***************************************************************************)
\* Counts as try_acquire sees them: the window is reset on the first call in
\* another minute, for every actor.
CountsNow == IF clock = window THEN counts ELSE [a \in Actors |-> 0]

Grants(a) == inflight[a] < MaxConcurrent /\ CountsNow[a] < MaxRequests

\* Mutant: the reset of the window forgets the slots too.
TryAcquireAfresh(a) ==
    /\ window' = clock
    /\ Grants(a)
    /\ counts' = [CountsNow EXCEPT ![a] = @ + 1]
    /\ inflight' = IF clock = window THEN [inflight EXCEPT ![a] = @ + 1]
                   ELSE [b \in Actors |-> IF b = a THEN 1 ELSE 0]

TryAcquire(a) ==
    /\ window' = clock
    /\ IF Grants(a)
       THEN /\ counts' = [CountsNow EXCEPT ![a] = @ + 1]
            /\ inflight' = [inflight EXCEPT ![a] = @ + 1]
       ELSE /\ counts' = CountsNow
            /\ UNCHANGED inflight

Release(a) ==
    /\ inflight' = [inflight EXCEPT ![a] = IF @ <= 1 THEN 0 ELSE @ - 1]
    /\ UNCHANGED <<window, counts>>

(***************************************************************************)
(* Answer cache: entries [key, rows, expires, moved, took]; the last two   *)
(* are ghosts: whether the pointer moved between the key and the views, and *)
(* the time from the views to the entry                                    *)
(***************************************************************************)

\* Mutant: an entry is served whatever its age.
FreshForEver(key) == {e \in cache : e.key = key}

Fresh(key) == {e \in cache : e.key = key /\ e.expires > clock}

\* get pops an expired entry it meets
AfterGet(key) == {e \in cache : e.key # key \/ e.expires > clock}

\* Mutant: nothing is evicted.
CacheSetKeepingAll(entry) == cache' = cache \cup {entry}

\* set evicts the entry next to expire when the cache is full
CacheSet(entry) ==
    IF Cardinality(cache) < MaxEntries
    THEN cache' = cache \cup {entry}
    ELSE \E oldest \in {e \in cache : \A f \in cache : e.expires <= f.expires} :
           cache' = (cache \ {oldest}) \cup {entry}

(***************************************************************************)
(* Ways a body goes on                                                     *)
(***************************************************************************)
\* A decision without an answer still has to be recorded.  Nothing here touches
\* the slot: only the finally of execution and search releases it (req.slot).
Refuse == req' = [req EXCEPT !.phase = "recording"]

\* A denial or an exception before the try block leaves the slot taken.
RefuseEarly ==
    /\ Refuse
    /\ early' = [early EXCEPT ![req.claims.actor] = @ + 1]
    /\ UNCHANGED <<limiter, world, cache>>

Init ==
    /\ clock = 0 /\ window = 0
    /\ counts = [a \in Actors |-> 0]
    /\ inflight = [a \in Actors |-> 0]
    /\ pack = NoPack /\ manifest = {}
    /\ pointer = NoBuild
    /\ cache = {}
    /\ moves = 0
    /\ req = Idle
    /\ early = [a \in Actors |-> 0]
    /\ served = [b \in Builds |-> 0]

\* _load_effective_policy_pack, authenticated_actor_from_request,
\* evaluate_access: refused requests never reach the limiter.
TurnAway ==
    /\ req.phase = "idle"
    /\ \E c \in {d \in Claims : ~AccessAllowed(d)} \cup {Nobody} :
         req' = [phase |-> "recording", claims |-> c, slot |-> FALSE]
    /\ UNCHANGED <<limiter, world, cache, early>>

Admit ==
    /\ req.phase = "idle"
    /\ \E c \in Claims, kind \in {"query", "retrieve"} :
         /\ AccessAllowed(c)
         /\ TryAcquire(c.actor)
         /\ req' = IF Grants(c.actor)
                   THEN [phase |-> kind, claims |-> c, slot |-> FALSE, pack |-> pack]
                   ELSE [phase |-> "recording", claims |-> c, slot |-> FALSE]
    /\ UNCHANGED <<world, cache, early>>

\* policy_simulate: a decision on record about an actor of the payload; no
\* slot, no data.
Simulate ==
    /\ req.phase = "idle"
    /\ \E c \in Claims :
         req' = [phase |-> "recording", claims |-> c, slot |-> FALSE]
    /\ UNCHANGED <<limiter, world, cache, early>>

(***************************************************************************)
(* /gateway/query                                                          *)
(***************************************************************************)
\* _dataset_belongs_to_other_workspace: a dataset no workspace has catalogued
\* belongs to nobody else.
Mismatched(datasets) == datasets \cap Foreign # {}

\* The metric resolves to the datasets of the active manifest; all of them must be
\* of this workspace and granted to the caller.
Bindable(c) ==
    /\ manifest # {}
    /\ ~Mismatched(manifest)
    /\ manifest \subseteq c.allowed

\* bind_semantic_query for an AI caller; a human's SQL is taken as it is.
Bind ==
    /\ req.phase = "query"
    /\ req.claims.ai => Bindable(req.claims)
    /\ \E text \in IF req.claims.ai THEN {manifest} ELSE Texts :
         req' = [phase |-> "bound", claims |-> req.claims, slot |-> FALSE,
                 pack |-> req.pack, text |-> text]
    /\ UNCHANGED <<limiter, world, cache, early>>

\* semantic_manifest_not_configured: no active row, or none that parses
DenyBinding ==
    /\ req.phase = "query" /\ req.claims.ai
    /\ manifest = {}
    /\ RefuseEarly

\* dataset_workspace_mismatch, dataset_not_allowed
DenyDatasets ==
    /\ req.phase = "query" /\ req.claims.ai
    /\ manifest # {} /\ ~Bindable(req.claims)
    /\ RefuseEarly

\* a semantic query that names no metric, or one the manifest cannot answer
DenySemanticQuery ==
    /\ req.phase = "query" /\ req.claims.ai
    /\ RefuseEarly

DenyAbac ==
    /\ req.phase \in {"bound", "retrieve"}
    /\ \E region \in Regions, opa \in BOOLEAN : ~AbacAllows(req.claims, region, opa)
    /\ RefuseEarly

\* A malformed constraint (int), a pointer cut off (json.loads) or a database
\* error: a response 500, and no decision on record.
RaiseEarly ==
    /\ req.phase \in {"query", "bound", "retrieve"}
    /\ req' = Idle
    /\ early' = [early EXCEPT ![req.claims.actor] = @ + 1]
    /\ UNCHANGED <<limiter, world, cache>>

Key(claims, build) ==
    [claims |-> claims, text |-> req.text, pack |-> req.pack, build |-> build]

\* _build_query_cache_key reads the pointer for the first time.
Keyed(key) ==
    /\ req.phase = "bound"
    /\ pointer # Torn
    /\ req' = [phase |-> "keyed", claims |-> req.claims, slot |-> FALSE,
               pack |-> req.pack, moved |-> FALSE, key |-> key]
    /\ UNCHANGED <<limiter, world, cache, early>>

\* Mutant: the published build is not part of the key.
BuildKeyWithoutBuild == Keyed(Key(req.claims, NoBuild))

\* Mutant: one key for all callers of a text.
BuildKeyWithoutClaims == Keyed(Key(Nobody, pointer))

BuildKey == Keyed(Key(req.claims, pointer))

\* Mutant: a hit returns without giving the slot back.
ServeHitKeepingSlot ==
    /\ req.phase = "keyed"
    /\ \E e \in Fresh(req.key) :
         req' = [phase |-> "served", claims |-> req.claims, slot |-> FALSE,
                 pack |-> req.pack, hit |-> TRUE, rows |-> e.rows, took |-> e.took]
    /\ UNCHANGED <<limiter, world, cache, early>>

ServeHit ==
    /\ req.phase = "keyed"
    /\ \E e \in Fresh(req.key) :
         req' = [phase |-> "served", claims |-> req.claims, slot |-> FALSE,
                 pack |-> req.pack, hit |-> TRUE, rows |-> e.rows, took |-> e.took]
    /\ Release(req.claims.actor)
    /\ UNCHANGED <<world, cache, early>>

Miss ==
    /\ req.phase = "keyed"
    /\ Fresh(req.key) = {}
    /\ cache' = AfterGet(req.key)
    /\ req' = [req EXCEPT !.phase = "missed", !.slot = TRUE]
    /\ UNCHANGED <<limiter, world, early>>

\* Unsafe SQL, a timeout (noticed when the query is over), an engine error or a
\* pointer cut off; the denial is recorded, then the finally releases the slot.
FailExecution ==
    /\ req.phase \in {"missed", "running"}
    /\ Refuse
    /\ UNCHANGED <<limiter, world, cache, early>>

\* The rows of the caller's region (_apply_optional_row_filter), as the body masks
\* them, of the build the pointer names.
RowsNow ==
    [text |-> req.key.text, build |-> pointer, pack |-> req.pack,
     region |-> req.claims.region, masked |-> Masked(req.claims), docs |-> {}]

\* execute_sql reads the pointer again (_prepare_published_gold_views); the query
\* runs over the files of that build, however long it takes.
PrepareViews ==
    /\ req.phase = "missed"
    /\ pointer # Torn
    /\ req' = [phase |-> "running", claims |-> req.claims, slot |-> TRUE,
               pack |-> req.pack, moved |-> req.moved, key |-> req.key,
               rows |-> RowsNow, read |-> clock]
    /\ UNCHANGED <<limiter, world, cache, early>>

\* The query is over: the slot is released, the rows are cached for Ttl from now.
Store ==
    /\ req.phase = "running"
    /\ CacheSet([key |-> req.key, rows |-> req.rows, expires |-> clock + Ttl,
                 moved |-> req.moved, took |-> clock - req.read])
    /\ req' = [phase |-> "served", claims |-> req.claims, slot |-> FALSE,
               pack |-> req.pack, hit |-> FALSE, rows |-> req.rows]
    /\ Release(req.claims.actor)
    /\ UNCHANGED <<world, early>>

(***************************************************************************)
(* /gateway/retrieve                                                       *)
(***************************************************************************)
DenyEntitlement ==
    /\ req.phase = "retrieve"
    /\ \/ req.claims.allowed = {}               \* missing_dataset_entitlements
       \/ Mismatched(req.claims.allowed)        \* dataset_workspace_mismatch
    /\ RefuseEarly

BeginSearch ==
    /\ req.phase = "retrieve"
    /\ req.claims.allowed # {} /\ ~Mismatched(req.claims.allowed)
    /\ req' = [req EXCEPT !.phase = "searching", !.slot = TRUE]
    /\ UNCHANGED <<limiter, world, cache, early>>

\* A backend that is off, unknown or does not answer.
FailSearch ==
    /\ req.phase = "searching"
    /\ Refuse
    /\ UNCHANGED <<limiter, world, cache, early>>

\* What an index answers is its own business; every backend drops the hits
\* outside the allowed datasets again.
Hits(c) == SUBSET (Documents \cap c.allowed)

\* _apply_retrieval_row_filter drops the documents of datasets whose summary
\* does not name the caller's region.
RowFilter(hits, c) ==
    {d \in hits : c.region = NoRegion \/ DocRegion[d] = c.region}

Search ==
    /\ req.phase = "searching"
    /\ \E hits \in Hits(req.claims) :
         LET kept == RowFilter(hits, req.claims)
         IN req' = [phase |-> "served", claims |-> req.claims, slot |-> FALSE,
                    pack |-> req.pack, hit |-> FALSE,
                    rows |-> [text |-> NoText, build |-> NoBuild, pack |-> req.pack,
                              region |-> req.claims.region,
                              masked |-> Masked(req.claims), docs |-> kept]]
    /\ Release(req.claims.actor)
    /\ UNCHANGED <<world, cache, early>>

(***************************************************************************)
(* Recording and answering                                                 *)
(***************************************************************************)
\* query_budget_exceeded, retrieval_budget_exceeded, provenance_unavailable:
\* decided after the answer has been cached.
DenyAnswer ==
    /\ req.phase = "served"
    /\ Refuse
    /\ UNCHANGED <<limiter, world, cache, early>>

\* The decision a body commits.
Decision(c) ==
    [actor |-> c.actor, region |-> c.region, masked |-> Masked(c), pack |-> req.pack]

\* _record_access_decision commits the allow decision, then the body answers.
Answer ==
    /\ req.phase = "served"
    /\ req' = [phase |-> "answered", claims |-> req.claims, slot |-> FALSE,
               pack |-> req.pack, hit |-> req.hit, rows |-> req.rows,
               decision |-> Decision(req.claims)]
    /\ UNCHANGED <<limiter, world, cache, early>>

\* The denial is recorded (or the write fails: a denial all the same); a body
\* inside the try block releases its slot.
Deny ==
    /\ req.phase = "recording"
    /\ req' = Idle
    /\ IF req.slot THEN Release(req.claims.actor) ELSE UNCHANGED limiter
    /\ UNCHANGED <<world, cache, early>>

\* _record_access_decision raises instead: audit_unavailable.
FailAudit ==
    /\ req.phase = "served"
    /\ req' = Idle
    /\ UNCHANGED <<limiter, world, cache, early>>

Respond ==
    /\ req.phase = "answered"
    /\ req' = Idle
    /\ UNCHANGED <<limiter, world, cache, early>>

\* The process restarts: limiter and cache live in its memory.
Restart ==
    /\ window' = clock
    /\ counts' = [a \in Actors |-> 0]
    /\ inflight' = [a \in Actors |-> 0]
    /\ early' = [a \in Actors |-> 0]
    /\ cache' = {}
    /\ req' = Idle
    /\ UNCHANGED world

(***************************************************************************)
(* Other processes                                                         *)
(***************************************************************************)
Tick ==
    /\ clock < MaxClock
    /\ clock' = clock + 1
    /\ served' = [b \in Builds |-> IF b = pointer THEN clock + 1 ELSE served[b]]
    /\ UNCHANGED <<limiter, pack, manifest, pointer, moves, cache, req, early>>

Move == moves < MaxMoves /\ moves' = moves + 1

\* The control plane publishes or rolls back: truncate, then write in place.
TruncatePointer ==
    /\ Move
    /\ pointer # Torn
    /\ pointer' = Torn
    /\ UNCHANGED <<limiter, clock, pack, manifest, served, cache, req, early>>

WritePointer ==
    /\ pointer = Torn
    /\ \E b \in Builds :
         /\ pointer' = b
         /\ served' = [served EXCEPT ![b] = clock]
         /\ req' = IF req.phase \in {"keyed", "missed"} /\ b # req.key.build
                   THEN [req EXCEPT !.moved = TRUE] ELSE req
    /\ UNCHANGED <<limiter, clock, pack, manifest, moves, cache, early>>

ChangePack ==
    /\ Move
    /\ pack' \in Packs \ {pack}
    /\ UNCHANGED <<limiter, clock, manifest, pointer, served, cache, req, early>>

ChangeManifest ==
    /\ Move
    /\ manifest' \in Manifests \ {manifest}
    /\ UNCHANGED <<limiter, clock, pack, pointer, served, cache, req, early>>

Gateway ==
    \/ TurnAway \/ Admit \/ Simulate
    \/ DenyBinding \/ DenyDatasets \/ DenySemanticQuery \/ DenyAbac \/ RaiseEarly
    \/ Bind \/ BuildKey \/ ServeHit \/ Miss \/ FailExecution \/ PrepareViews \/ Store
    \/ DenyEntitlement \/ BeginSearch \/ FailSearch \/ Search
    \/ DenyAnswer \/ Answer \/ Deny \/ FailAudit \/ Respond

Environment == Tick \/ TruncatePointer \/ WritePointer \/ ChangePack \/ ChangeManifest

Next == Gateway \/ Restart \/ Environment

Spec == Init /\ [][Next]_vars

-----------------------------------------------------------------------------
(* Properties *)

Inside == {"query", "retrieve", "bound", "keyed", "missed", "running", "searching"}

Keys == [claims : Claims, text : Texts \cup Manifests, pack : Packs,
         build : Builds \cup {NoBuild}]

Answers == [text : Texts \cup Manifests \cup {NoText}, build : Builds \cup {NoBuild, Torn},
            pack : Packs, region : Regions, masked : BOOLEAN, docs : SUBSET Documents]

\* Every variable has its type and no actor holds more slots than it may.
TypeOK ==
    /\ clock \in 0..MaxClock /\ window \in 0..clock
    /\ counts \in [Actors -> 0..MaxRequests]
    /\ inflight \in [Actors -> 0..MaxConcurrent]
    /\ pack \in Packs /\ manifest \in Manifests
    /\ pointer \in Builds \cup {NoBuild, Torn}
    /\ Cardinality(cache) <= MaxEntries
    /\ \A e \in cache : e.key \in Keys /\ e.rows \in Answers
    /\ req.phase \in Inside \cup {"idle", "recording", "served", "answered"}
    /\ early \in [Actors -> Nat]

\* The slots an actor holds are those of its request in the body and of its
\* requests refused, or broken off by an exception, after try_acquire and before
\* the try block (app.py:255 to 505, 1003 to 1128); no other way out keeps one.
HoldsSlot(a) ==
    /\ req.claims # Nobody /\ req.claims.actor = a
    /\ req.phase \in Inside \/ req.slot

SlotsAccounted ==
    \A a \in Actors : inflight[a] = early[a] + (IF HoldsSlot(a) THEN 1 ELSE 0)

\* Once as many such requests as max_concurrent_per_actor have been refused the
\* actor gets no slot back, in this minute or a later one, until the process
\* restarts (rate_limit.py:32).
LockedOutUntilRestart ==
    [][\A a \in Actors : early[a] >= MaxConcurrent =>
          Restart \/ (inflight'[a] = inflight[a] /\ counts'[a] <= counts[a])]_vars

\* What is answered is what the committed decision says, also when the rows come
\* from the cache: the filter, masks and policy pack of this caller, no document
\* outside the caller's entitlement and region, and for an AI caller only
\* datasets it is entitled to.
AnswersAsAudited ==
    req.phase = "answered" =>
        /\ req.decision.actor = req.claims.actor
        /\ req.decision.region = req.rows.region
        /\ req.decision.masked = req.rows.masked
        /\ req.decision.pack = req.rows.pack
        /\ req.rows.docs \subseteq req.claims.allowed \ Foreign
        /\ \A d \in req.rows.docs :
              req.claims.region = NoRegion \/ DocRegion[d] = req.claims.region
        /\ req.claims.ai /\ req.rows.text # NoText =>
              req.rows.text \subseteq req.claims.allowed \ Foreign

\* A cached answer is of the build its key names, unless the pointer moved
\* between the two reads of the request that stored it (app.py:1529,
\* executor.py:213).
EntriesOfTheirBuild ==
    \A e \in cache : e.moved \/ e.rows.build = e.key.build

\* Whatever moved when, and however long the query ran, an answer from the cache is
\* of a build that was the published one at most Ttl, and the time its query took,
\* ago: the time to live starts when the answer is stored (query_cache.py:47), not
\* when the pointer was read (executor.py:213).
StaleAtMostTtl ==
    [][req.phase = "keyed" /\ req'.phase = "served" /\ req'.rows.build \in Builds
          => served[req'.rows.build] + req'.took + Ttl > clock]_vars
====
