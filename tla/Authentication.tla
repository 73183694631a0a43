--------------------------- MODULE Authentication ---------------------------
(***************************************************************************)
(* How a service process gets its settings and recognises its callers:     *)
(* load_settings and Settings.validate of shared_domain/config.py, the     *)
(* three modes of shared_domain/auth.py with the JWKS cache, and           *)
(* require_actor of control_plane/app.py.                                  *)
(*                                                                         *)
(* A request is one piece of synchronous code of the process, but the      *)
(* identity provider and the clock move while its JWKS are fetched.  What  *)
(* the environment and the settings file hold may differ at every start.   *)
(***************************************************************************)
EXTENDS Integers, FiniteSets

CONSTANTS
    Environments,  \* [variables, tokens, packs] a process may be started with
    Files,         \* parsed settings files: functions from keys to values
    Unreadable,    \* settings file that is missing or does not parse
    Malformed,     \* text that is not what the field wants
    WrongType,     \* value of a file that is neither text nor what the field wants
    NoValue,       \* None, or empty
    Blank,         \* only white space
    DefaultTtl, DefaultSkew,
    BuiltIn,       \* roles of DEFAULT_LOCAL_AUTH_TOKENS
    Keys,          \* keys of the identity provider, by kid
    KeyAlg,        \* alg of a key, or NoValue
    Symmetric,     \* keys of kty oct
    ForSigning,    \* keys whose use is sig or not given
    Tokens,        \* [signer, kid, alg, issuer, audience, from, until, actor, roles]
    RequiredRoles, \* role sets endpoints ask for; {}: any actor
    Down,          \* the process is not running
    NoEntry,       \* nothing cached
    MaxClock, MaxMoves

IntFields == {"oidc_jwks_cache_ttl_seconds", "oidc_clock_skew_seconds", "query_max_bytes"}
BoolFields == {"require_auth_for_non_local", "oidc_trusted_proxy"}
TypedFields == IntFields \cup BoolFields \cup {"oidc_jwt_allowed_algs"}

Modes == {"local", "oidc", "oidc_trusted_proxy", "oidc_jwt"}
ProxyModes == {"oidc", "oidc_trusted_proxy"}
Engines == {"duckdb", "trino"}
HmacAlgs == {"HS256", "HS384", "HS512"}

\* Settings the properties tell apart; query_engine and query_max_bytes stand for
\* the other choices and the other positive numbers.
Defaults ==
    [bind_address |-> "127.0.0.1", auth_mode |-> "local",
     require_auth_for_non_local |-> TRUE, oidc_trusted_proxy |-> FALSE,
     oidc_claims_header |-> "x-schemapilot-oidc-claims",
     oidc_required_issuer |-> NoValue, oidc_required_audience |-> NoValue,
     oidc_jwks_url |-> NoValue, oidc_jwks_cache_ttl_seconds |-> DefaultTtl,
     oidc_clock_skew_seconds |-> DefaultSkew, oidc_jwt_allowed_algs |-> {"HS256"},
     query_engine |-> "duckdb", query_max_bytes |-> 5000000]
Fields == DOMAIN Defaults

ASSUME AuthenticationAssumption ==
    /\ DefaultTtl \in Nat \ {0} /\ DefaultSkew \in Nat
    /\ Unreadable \notin Files
    /\ Symmetric \subseteq Keys /\ ForSigning \subseteq Keys
    /\ MaxClock \in Nat /\ MaxMoves \in Nat

\* What a source gives for a number parses, or does not.  A file gives text for the
\* fields that are text: another type is not refused for them (config.py:500), and
\* what a service does with it is not modelled.
ASSUME NumbersAssumption ==
    /\ \A e \in Environments : \A f \in DOMAIN e.variables \cap IntFields :
         e.variables[f] \in Int \cup {Malformed}
    /\ \A file \in Files : \A f \in DOMAIN file \cap IntFields :
         file[f] \in Int \cup {Malformed, WrongType}
    /\ \A file \in Files : \A f \in DOMAIN file \ TypedFields : file[f] # WrongType

VARIABLES
    clock,
    published,      \* keys the identity provider serves
    moves,          \* rotations so far
    boot,           \* what the running process was started with, or Down
    settings,       \* its settings
    tokens,         \* its local tokens: roles by token
    jwks,           \* its _JWKS_CACHE: [keys, expires], or NoEntry
    req,            \* the request it is working on
    served,         \* times at which each key was served (ghost)
    absent          \* times at which each key was not served (ghost)

provider == <<published, moves, served, absent>>
process == <<boot, settings, tokens>>
vars == <<clock, provider, process, jwks, req>>

Idle == [phase |-> "idle"]

(***************************************************************************)
(* Settings                                                                *)
(***************************************************************************)
\* _parse_bool, _parse_int, _parse_csv: text that does not parse is False, or the
\* default.
FromEnvironment(f, raw) ==
    CASE f \in BoolFields -> raw = TRUE
      [] f \in IntFields -> IF raw = Malformed THEN Defaults[f] ELSE raw
      [] f = "oidc_jwt_allowed_algs" -> IF raw = {} THEN Defaults[f] ELSE raw
      [] OTHER -> raw

\* _coerce_config_override
FromFile(f, raw) == IF f \in BoolFields THEN raw = TRUE ELSE raw

\* Unknown keys, and values that cannot be coerced, stop the start.
FileRefused(file) ==
    \/ file = Unreadable
    \/ DOMAIN file \ Fields # {}
    \/ \E f \in DOMAIN file : \/ f \in TypedFields /\ file[f] = WrongType
                              \/ f \in IntFields /\ file[f] = Malformed

LoadedSettings(environment, file) ==
    [f \in Fields |->
        IF f \in DOMAIN file THEN FromFile(f, file[f])
        ELSE IF f \in DOMAIN environment THEN FromEnvironment(f, environment[f])
        ELSE Defaults[f]]

ServesOthers(s) == s.bind_address \notin {"127.0.0.1", "localhost", "::1"}

\* Mutant: trust is asked for under one of the two names of the mode only.
ValidAuthByName(s) ==
    /\ s.auth_mode \in Modes
    /\ ServesOthers(s) /\ s.require_auth_for_non_local /\ s.auth_mode = "oidc_trusted_proxy"
         => s.oidc_trusted_proxy
    /\ s.auth_mode = "oidc_jwt" =>
         /\ s.oidc_jwks_url # NoValue \/ s.oidc_required_issuer # NoValue
         /\ s.oidc_jwks_cache_ttl_seconds > 0
         /\ s.oidc_clock_skew_seconds >= 0

\* validate, authentication: only modes that are used are looked at.
ValidAuth(s) ==
    /\ s.auth_mode \in Modes
    /\ ServesOthers(s) /\ s.require_auth_for_non_local /\ s.auth_mode \in ProxyModes
         => s.oidc_trusted_proxy
    /\ s.auth_mode \in ProxyModes => s.oidc_claims_header \notin {NoValue, Blank}
    /\ s.auth_mode = "oidc_jwt" =>
         /\ s.oidc_jwks_url # NoValue \/ s.oidc_required_issuer # NoValue
         /\ s.oidc_jwks_cache_ttl_seconds > 0
         /\ s.oidc_clock_skew_seconds >= 0
         /\ s.oidc_jwt_allowed_algs # {}

\* validate, the rest
ValidLimits(s) == s.query_engine \in Engines /\ s.query_max_bytes > 0

\* Mutant: environment tokens are added to the built-in ones.
BaseTokensAdded(table) ==
    IF table = Malformed THEN BuiltIn
    ELSE [t \in DOMAIN BuiltIn \cup DOMAIN table |->
            IF t \in DOMAIN table THEN table[t] ELSE BuiltIn[t]]

\* load_local_auth_tokens: one valid entry replaces all built-in tokens.
BaseTokens(table) ==
    IF table = Malformed THEN BuiltIn
    ELSE IF DOMAIN table = {} THEN BuiltIn ELSE table

\* _apply_policy_pack_overrides: roles of a pack's template, for known tokens and
\* new ones.
LocalTokens(e) ==
    LET base == BaseTokens(e.tokens)
    IN [t \in DOMAIN base \cup DOMAIN e.packs |->
          IF t \in DOMAIN e.packs THEN e.packs[t] ELSE base[t]]

Init ==
    /\ clock = 0
    /\ published \in SUBSET Keys /\ moves = 0
    /\ boot = Down /\ settings = Defaults /\ tokens = BuiltIn
    /\ jwks = NoEntry
    /\ req = Idle
    /\ served = [k \in Keys |-> IF k \in published THEN {0} ELSE {}]
    /\ absent = [k \in Keys |-> IF k \in published THEN {} ELSE {0}]

\* Mutant: validated before the file is merged.
StartValidatingEnvironment ==
    /\ boot = Down
    /\ \E e \in Environments, file \in Files \cup {Unreadable} :
         LET s == LoadedSettings(e.variables, [f \in {} |-> NoValue])
         IN /\ ~FileRefused(file) /\ ValidAuth(s) /\ ValidLimits(s)
            /\ boot' = [environment |-> e, file |-> file]
            /\ settings' = LoadedSettings(e.variables, file)
            /\ tokens' = LocalTokens(e)
    /\ UNCHANGED <<clock, provider, jwks, req>>

\* A start that is refused leaves the process down.
Start ==
    /\ boot = Down
    /\ \E e \in Environments, file \in Files \cup {Unreadable} :
         /\ ~FileRefused(file)
         /\ LET s == LoadedSettings(e.variables, file)
            IN /\ ValidAuth(s) /\ ValidLimits(s)
               /\ boot' = [environment |-> e, file |-> file]
               /\ settings' = s
               /\ tokens' = LocalTokens(e)
    /\ UNCHANGED <<clock, provider, jwks, req>>

(***************************************************************************)
(* Outcomes                                                                *)
(***************************************************************************)
Answered(by, token, outcome, now, fetch) ==
    [phase |-> "answered", by |-> by, token |-> token, outcome |-> outcome,
     now |-> now, fetch |-> fetch, at |-> clock]

Refused(by, token, now, fetch) ==
    req' = Answered(by, token, "missing_or_invalid_auth_token", now, fetch)

\* require_actor: any of the roles the endpoint asks for
Recognised(by, token, roles, now, fetch) ==
    \E required \in RequiredRoles :
        req' = Answered(by, token,
                        IF required = {} \/ roles \cap required # {}
                        THEN "granted" ELSE "missing_required_role", now, fetch)

\* _claims_match_issuer_and_audience
Intended(t) ==
    /\ settings.oidc_required_issuer \in {NoValue, t.issuer}
    /\ settings.oidc_required_audience \in {NoValue, t.audience}

\* _claims_within_time_window; until is NoValue in a token without exp.
InWindow(t, at) ==
    LET skew == settings.oidc_clock_skew_seconds
    IN /\ t.until = NoValue \/ at <= t.until + skew
       /\ at + skew >= t.from

Arriving(mode) == boot # Down /\ req.phase = "idle" /\ settings.auth_mode \in mode

LocalToken ==
    /\ Arriving({"local"})
    /\ \/ \E t \in DOMAIN tokens : Recognised("local", t, tokens[t], clock, "none")
       \/ Refused("local", NoValue, clock, "none")
    /\ UNCHANGED <<clock, provider, process, jwks>>

\* authenticated_actor_from_oidc_claims: no signature, no time
ClaimsHeader ==
    /\ Arriving(ProxyModes)
    /\ \/ \E t \in Tokens :
            IF Intended(t) /\ t.actor # NoValue
            THEN Recognised("header", t, t.roles, clock, "none")
            ELSE Refused("header", t, clock, "none")
       \/ Refused("header", NoValue, clock, "none")
    /\ UNCHANGED <<clock, provider, process, jwks>>

\* Three segments, two of them JSON, and an allowed algorithm.
BearerToken ==
    /\ Arriving({"oidc_jwt"})
    /\ \/ \E t \in Tokens :
            IF t.alg \in settings.oidc_jwt_allowed_algs
            THEN req' = [phase |-> "lookup", token |-> t]
            ELSE Refused("jwt", t, clock, "none")
       \/ Refused("jwt", NoValue, clock, "none")
    /\ UNCHANGED <<clock, provider, process, jwks>>

(***************************************************************************)
(* Keys                                                                    *)
(***************************************************************************)
\* Mutant: an entry is used whatever its age.
FreshForEver == jwks # NoEntry

Fresh == jwks # NoEntry /\ clock < jwks.expires

UseCachedKeys ==
    /\ req.phase = "lookup" /\ Fresh
    /\ req' = [phase |-> "verify", token |-> req.token, now |-> clock, keys |-> jwks.keys]
    /\ UNCHANGED <<clock, provider, process, jwks>>

\* _resolve_jwks_url: a URL of white space passes validate, and names nothing.
JwksUrl ==
    IF settings.oidc_jwks_url \notin {NoValue, Blank} THEN settings.oidc_jwks_url
    ELSE IF settings.oidc_required_issuer \notin {NoValue, Blank}
         THEN settings.oidc_required_issuer ELSE NoValue

\* The time of the cache entry is read before the keys are fetched.
BeginFetch ==
    /\ req.phase = "lookup" /\ ~Fresh
    /\ IF JwksUrl = NoValue
       THEN Refused("jwt", req.token, clock, "none")
       ELSE req' = [phase |-> "fetch", token |-> req.token, now |-> clock]
    /\ UNCHANGED <<clock, provider, process, jwks>>

Entry(keys, now) ==
    [keys |-> keys, expires |-> now + settings.oidc_jwks_cache_ttl_seconds]

FetchKeys ==
    /\ req.phase = "fetch" /\ published # {}
    /\ jwks' = Entry(published, req.now)
    /\ req' = [phase |-> "verify", token |-> req.token, now |-> req.now, keys |-> published]
    /\ UNCHANGED <<clock, provider, process>>

\* Mutant: no keys are cached like keys.
FetchNoKeysCached ==
    /\ req.phase = "fetch"
    /\ jwks' = Entry({}, req.now)
    /\ Refused("jwt", req.token, req.now, "failed")
    /\ UNCHANGED <<clock, provider, process>>

\* No answer, an answer that does not parse, or one without keys.
FetchNoKeys ==
    /\ req.phase = "fetch"
    /\ Refused("jwt", req.token, req.now, "failed")
    /\ UNCHANGED <<clock, provider, process, jwks>>

\* An http.client.HTTPException, of an answer that is cut off, is caught nowhere: the
\* caller gets an internal error.
FetchRaises ==
    /\ req.phase = "fetch"
    /\ req' = Answered("jwt", req.token, "internal_error", req.now, "failed")
    /\ UNCHANGED <<clock, provider, process, jwks>>

\* _select_jwks_candidates
Candidates(keys, t) ==
    {k \in keys : /\ t.kid \in {NoValue, k}
                  /\ KeyAlg[k] \in {NoValue, t.alg}
                  /\ k \in ForSigning}

\* _verify_jwt_signature
SignedBy(k, t) == t.alg \in HmacAlgs /\ k \in Symmetric /\ k = t.signer

\* The signature, then issuer and audience, then the clock, then the actor.
Verify ==
    /\ req.phase = "verify"
    /\ LET t == req.token
       IN IF /\ \E k \in Candidates(req.keys, t) : SignedBy(k, t)
             /\ Intended(t) /\ InWindow(t, clock) /\ t.actor # NoValue
          THEN Recognised("jwt", t, t.roles, req.now, "none")
          ELSE Refused("jwt", t, req.now, "none")
    /\ UNCHANGED <<clock, provider, process, jwks>>

Respond ==
    /\ req.phase = "answered"
    /\ req' = Idle
    /\ UNCHANGED <<clock, provider, process, jwks>>

(***************************************************************************)
(* Surroundings                                                            *)
(***************************************************************************)
Seen(keys, now) ==
    /\ served' = [k \in Keys |-> IF k \in keys THEN served[k] \cup {now} ELSE served[k]]
    /\ absent' = [k \in Keys |-> IF k \in keys THEN absent[k] ELSE absent[k] \cup {now}]

Tick ==
    /\ clock < MaxClock
    /\ clock' = clock + 1
    /\ Seen(published, clock + 1)
    /\ UNCHANGED <<published, moves, process, jwks, req>>

\* The provider starts or stops serving keys.
Rotate ==
    /\ moves < MaxMoves
    /\ moves' = moves + 1
    /\ published' \in SUBSET Keys
    /\ Seen(published', clock)
    /\ UNCHANGED <<clock, process, jwks, req>>

\* The process dies, or is stopped for other settings.
Stop ==
    /\ boot # Down
    /\ boot' = Down /\ settings' = Defaults /\ tokens' = BuiltIn
    /\ jwks' = NoEntry /\ req' = Idle
    /\ UNCHANGED <<clock, provider>>

Service ==
    \/ Start \/ LocalToken \/ ClaimsHeader \/ BearerToken
    \/ UseCachedKeys \/ BeginFetch \/ FetchKeys \/ FetchNoKeys \/ FetchRaises
    \/ Verify \/ Respond

Next == Service \/ Tick \/ Rotate \/ Stop

Spec == Init /\ [][Next]_vars

-----------------------------------------------------------------------------
(* Properties *)

\* Every variable has its type; a process that runs has settings that pass
\* validate, whatever its environment and file say.
TypeOK ==
    /\ clock \in 0..MaxClock /\ moves \in 0..MaxMoves
    /\ published \subseteq Keys
    /\ boot # Down => ValidAuth(settings) /\ ValidLimits(settings)
    /\ jwks # NoEntry => jwks.keys \in (SUBSET Keys) \ {{}} /\ jwks.expires \in Nat
    /\ req.phase \in {"idle", "lookup", "fetch", "verify", "answered"}
    /\ served \in [Keys -> SUBSET (0..clock)] /\ absent \in [Keys -> SUBSET (0..clock)]

Granted(by) == req.phase = "answered" /\ req.by = by /\ req.outcome = "granted"

\* A withdrawn key opens nothing for longer than the cache keeps it: the key that
\* signed an accepted token was served by the provider less than
\* oidc_jwks_cache_ttl_seconds before the request looked for keys (auth.py:285),
\* however slow the fetch and whatever was rotated meanwhile.
AcceptedKeyWasPublished ==
    Granted("jwt") =>
        \E at \in served[req.token.signer] :
            at + settings.oidc_jwks_cache_ttl_seconds > req.now

\* A token nothing is wrong with.
Good(t, at) ==
    /\ t.alg \in settings.oidc_jwt_allowed_algs
    /\ t.signer \in Candidates(Keys, t) /\ SignedBy(t.signer, t)
    /\ Intended(t) /\ InWindow(t, at) /\ t.actor # NoValue

\* spec/12_RUNBOOK.md:121 "JWKS unavailable with no valid cache -> deny": a good
\* token is refused only if the keys could not be fetched by this very request, or
\* its key was still not served less than the cache's time ago.  A failed fetch is
\* not remembered (auth.py:290).
RefusalHasCause ==
    /\ req.phase = "answered" /\ req.by = "jwt"
    /\ req.outcome = "missing_or_invalid_auth_token"
    /\ req.token # NoValue /\ JwksUrl # NoValue
    => \/ ~Good(req.token, req.at)
       \/ req.fetch = "failed"
       \/ \E at \in absent[req.token.signer] :
              at + settings.oidc_jwks_cache_ttl_seconds > req.now

\* A claims header is believed on an address others reach only if the source that
\* speaks last says the proxy is trusted, or that no authentication is required
\* there (config.py:186).
Says(field, value) ==
    IF field \in DOMAIN boot.file THEN boot.file[field] = value
    ELSE field \in DOMAIN boot.environment.variables
         /\ boot.environment.variables[field] = value

HeaderTrustedOnlyIfTold ==
    Granted("header") /\ ServesOthers(settings) =>
        Says("oidc_trusted_proxy", TRUE) \/ ~settings.require_auth_for_non_local

\* A built-in token opens a service only if the environment configures no token at
\* all, or names that one (auth.py:95).
BuiltInOnlyByDefault ==
    Granted("local") /\ req.token \in DOMAIN BuiltIn =>
        LET e == boot.environment
        IN \/ e.tokens = Malformed
           \/ DOMAIN e.tokens = {} \/ req.token \in DOMAIN e.tokens
           \/ req.token \in DOMAIN e.packs
=============================================================================
