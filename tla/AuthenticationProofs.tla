------------------------ MODULE AuthenticationProofs ------------------------
(***************************************************************************)
(* Proofs about Authentication, for every provider, clock, environment and *)
(* settings file.  The argument is about what a set of keys still tells of *)
(* the provider: every key of it was served, and every key that is missing *)
(* was not served, less than the cache's time ago (KnownUntil).            *)
(***************************************************************************)
EXTENDS Authentication, TLAPS

Ttl == settings.oidc_jwks_cache_ttl_seconds

\* What keys says of the provider holds of a moment after until - Ttl.
KnownUntil(keys, until) ==
    /\ \A k \in keys : \E at \in served[k] : at + Ttl >= until
    /\ \A k \in Keys \ keys : \E at \in absent[k] : at + Ttl >= until

\* The settings and tokens of a running process come from what it was started with.
ProcessOfBoot ==
    boot # Down =>
        /\ boot.environment \in Environments /\ boot.file \in Files
        /\ ~FileRefused(boot.file)
        /\ settings = LoadedSettings(boot.environment.variables, boot.file)
        /\ tokens = LocalTokens(boot.environment)
        /\ ValidAuth(settings) /\ ValidLimits(settings)

\* Cache and request are the running process's.
DownIsEmpty == boot = Down => jwks = NoEntry /\ req = Idle

Asking == req.phase \in {"lookup", "fetch", "verify"}

\* Keys are looked for in one of the modes only.
KeysInJwtMode ==
    jwks # NoEntry \/ Asking => boot # Down /\ settings.auth_mode = "oidc_jwt"

\* The histories of the keys are complete.
HistoryOfNow ==
    \A k \in Keys : clock \in (IF k \in published THEN served[k] ELSE absent[k])

\* Cached keys, and those a request verifies with, are known long enough.
CacheKnown ==
    jwks # NoEntry =>
        /\ jwks.keys \in (SUBSET Keys) \ {{}} /\ jwks.expires \in Nat
        /\ KnownUntil(jwks.keys, jwks.expires)

RequestKnown ==
    /\ req.phase \in {"fetch", "verify"} => req.now \in 0..clock
    /\ req.phase = "verify" => req.keys \in SUBSET Keys /\ KnownUntil(req.keys, req.now + 1)

AllowedAlg == Asking => req.token.alg \in settings.oidc_jwt_allowed_algs

HistoryTypes ==
    /\ clock \in 0..MaxClock /\ moves \in 0..MaxMoves /\ published \subseteq Keys
    /\ req.phase \in {"idle", "lookup", "fetch", "verify", "answered"}
    /\ served \in [Keys -> SUBSET (0..clock)] /\ absent \in [Keys -> SUBSET (0..clock)]

\* What was answered in a mode was answered by a process in that mode.
AnsweredInMode ==
    req.phase = "answered" =>
        /\ boot # Down
        /\ req.by = "header" => settings.auth_mode \in ProxyModes
        /\ req.by = "local" /\ req.outcome = "granted" => req.token \in DOMAIN tokens
        /\ req.by = "jwt" /\ req.outcome = "granted" => req.token.signer \in Keys

AuthInv ==
    /\ ProcessOfBoot /\ DownIsEmpty /\ KeysInJwtMode /\ HistoryTypes /\ HistoryOfNow
    /\ CacheKnown /\ RequestKnown /\ AnsweredInMode
    /\ AcceptedKeyWasPublished /\ RefusalHasCause

-----------------------------------------------------------------------------
\* A number the process runs with is a number: text that does not parse is the
\* default, or stops the start.
LEMMA TtlIsNumber ==
    ASSUME ProcessOfBoot, boot # Down
    PROVE  Ttl \in Int
<1> DEFINE f == "oidc_jwks_cache_ttl_seconds"
<1> DEFINE e == boot.environment.variables
<1>1. f \in Fields /\ f \in IntFields /\ f \notin BoolFields
  BY DEF Fields, Defaults, IntFields, BoolFields
<1>2. settings[f] = IF f \in DOMAIN boot.file THEN FromFile(f, boot.file[f])
                    ELSE IF f \in DOMAIN e THEN FromEnvironment(f, e[f]) ELSE Defaults[f]
  BY <1>1 DEF ProcessOfBoot, LoadedSettings
<1>3. Defaults[f] \in Int
  BY AuthenticationAssumption DEF Defaults
<1>4. CASE f \in DOMAIN boot.file
  <2>1. boot.file[f] \in Int
    BY <1>1, <1>4, NumbersAssumption DEF ProcessOfBoot, FileRefused, TypedFields
  <2> QED BY <1>1, <1>2, <1>4, <2>1 DEF FromFile, Ttl
<1>5. CASE f \notin DOMAIN boot.file /\ f \in DOMAIN e
  <2>1. e[f] \in Int \cup {Malformed}
    BY <1>1, <1>5, NumbersAssumption DEF ProcessOfBoot
  <2>2. FromEnvironment(f, e[f]) = IF e[f] = Malformed THEN Defaults[f] ELSE e[f]
    BY <1>1 DEF FromEnvironment
  <2> QED BY <1>2, <1>3, <1>5, <2>1, <2>2 DEF Ttl
<1> QED BY <1>2, <1>3, <1>4, <1>5 DEF Ttl

\* In the mode that looks for keys they are kept for some time.
LEMMA TtlPositive ==
    ASSUME ProcessOfBoot, boot # Down, settings.auth_mode = "oidc_jwt"
    PROVE  Ttl \in Nat \ {0}
BY TtlIsNumber DEF ProcessOfBoot, ValidAuth, Ttl

\* The histories only grow, and what is known remains known.
LEMMA KnownStays ==
    ASSUME NEW keys \in SUBSET Keys, NEW until,
           settings' = settings,
           \A k \in Keys : served[k] \subseteq served'[k] /\ absent[k] \subseteq absent'[k],
           KnownUntil(keys, until)
    PROVE  KnownUntil(keys, until)'
BY DEF KnownUntil, Ttl

LEMMA SeenGrows ==
    ASSUME NEW keys, NEW now, Seen(keys, now)
    PROVE  /\ \A k \in Keys : served[k] \subseteq served'[k] /\ absent[k] \subseteq absent'[k]
           /\ \A k \in Keys : now \in (IF k \in keys THEN served'[k] ELSE absent'[k])
BY DEF Seen

-----------------------------------------------------------------------------
LEMMA InitAuth == Init => AuthInv
<1> SUFFICES ASSUME Init PROVE AuthInv
  OBVIOUS
<1> USE DEF Init, Idle
<1>1. ProcessOfBoot /\ DownIsEmpty /\ KeysInJwtMode
  BY DEF ProcessOfBoot, DownIsEmpty, KeysInJwtMode, Asking
<1>2. HistoryTypes /\ HistoryOfNow
  BY AuthenticationAssumption DEF HistoryTypes, HistoryOfNow
<1>3. CacheKnown /\ RequestKnown /\ AnsweredInMode
  BY DEF CacheKnown, RequestKnown, AnsweredInMode
<1>4. AcceptedKeyWasPublished /\ RefusalHasCause
  BY DEF AcceptedKeyWasPublished, RefusalHasCause, Granted
<1> QED BY <1>1, <1>2, <1>3, <1>4 DEF AuthInv

\* Steps of the process that leave the world and its own settings alone.
Inside == UNCHANGED <<clock, provider, process>>

LEMMA InsideKeeps ==
    ASSUME AuthInv, Inside, boot # Down
    PROVE  /\ ProcessOfBoot' /\ DownIsEmpty' /\ HistoryOfNow'
           /\ (req'.phase \in {"idle", "lookup", "fetch", "verify", "answered"}
                 => HistoryTypes')
           /\ \A keys, until : KnownUntil(keys, until)' <=> KnownUntil(keys, until)
<1> USE DEF Inside, provider, process
<1>1. ProcessOfBoot' /\ DownIsEmpty'
  BY DEF AuthInv, ProcessOfBoot, DownIsEmpty
<1>2. HistoryOfNow'
  BY DEF AuthInv, HistoryOfNow
<1>3. req'.phase \in {"idle", "lookup", "fetch", "verify", "answered"} => HistoryTypes'
  BY DEF AuthInv, HistoryTypes
<1>4. \A keys, until : KnownUntil(keys, until)' <=> KnownUntil(keys, until)
  BY DEF KnownUntil, Ttl
<1> QED BY <1>1, <1>2, <1>3, <1>4

\* An answer keeps the invariant if it has the cause its outcome needs.
LEMMA AnswerKeeps ==
    ASSUME AuthInv, Inside, boot # Down, UNCHANGED jwks,
           NEW by, NEW token, NEW outcome, NEW now, NEW fetch,
           req' = Answered(by, token, outcome, now, fetch),
           by = "header" => settings.auth_mode \in ProxyModes,
           by = "local" /\ outcome = "granted" => token \in DOMAIN tokens,
           by = "jwt" /\ outcome = "granted" =>
               /\ token.signer \in Keys
               /\ \E at \in served[token.signer] : at + Ttl > now,
           /\ by = "jwt" /\ outcome = "missing_or_invalid_auth_token"
           /\ token # NoValue /\ JwksUrl # NoValue
           => \/ ~Good(token, clock)
              \/ fetch = "failed"
              \/ \E at \in absent[token.signer] : at + Ttl > now
    PROVE  AuthInv'
<1>1. /\ req'.phase = "answered" /\ req'.by = by /\ req'.token = token
      /\ req'.outcome = outcome /\ req'.now = now /\ req'.fetch = fetch
      /\ req'.at = clock
  BY DEF Answered
<1>2. ProcessOfBoot' /\ DownIsEmpty' /\ HistoryOfNow' /\ HistoryTypes'
  BY <1>1, InsideKeeps
<1>3. KeysInJwtMode' /\ CacheKnown' /\ RequestKnown'
  <2>1. ~Asking'
    BY <1>1 DEF Asking
  <2>2. KeysInJwtMode'
    BY <2>1 DEF AuthInv, KeysInJwtMode, Inside, process
  <2>3. CacheKnown'
    BY InsideKeeps DEF AuthInv, CacheKnown
  <2>4. RequestKnown'
    BY <1>1 DEF RequestKnown
  <2> QED BY <2>2, <2>3, <2>4
<1>4. AnsweredInMode'
  BY <1>1 DEF AnsweredInMode, Inside, process
<1>5. AcceptedKeyWasPublished'
  BY <1>1 DEF AcceptedKeyWasPublished, Granted, Inside, process, provider, Ttl
<1>6. RefusalHasCause'
  <2>1. JwksUrl' = JwksUrl /\ (Good(token, clock) <=> Good(token, clock)')
    BY DEF JwksUrl, Good, Candidates, SignedBy, Intended, InWindow, Inside, process, provider
  <2>2. absent' = absent /\ settings' = settings /\ clock' = clock
    BY DEF Inside, process, provider
  <2>3. Good(req.token, req.at)' <=> Good(token, clock)
    BY <1>1, <2>1, <2>2 DEF Good, Candidates, SignedBy, Intended, InWindow
  <2> QED BY <1>1, <2>1, <2>2, <2>3 DEF RefusalHasCause, Ttl
<1> QED BY <1>2, <1>3, <1>4, <1>5, <1>6 DEF AuthInv

\* A request that is still being worked on keeps the invariant.
LEMMA AskingKeeps ==
    ASSUME AuthInv, Inside, boot # Down, settings.auth_mode = "oidc_jwt",
           req'.phase \in {"lookup", "fetch", "verify"}, CacheKnown', RequestKnown'
    PROVE  AuthInv'
<1>1. ProcessOfBoot' /\ DownIsEmpty' /\ HistoryOfNow' /\ HistoryTypes'
  BY InsideKeeps
<1>2. KeysInJwtMode'
  BY DEF KeysInJwtMode, Inside, process
<1>3. AnsweredInMode' /\ AcceptedKeyWasPublished' /\ RefusalHasCause'
  BY DEF AnsweredInMode, AcceptedKeyWasPublished, RefusalHasCause, Granted
<1> QED BY <1>1, <1>2, <1>3 DEF AuthInv

LEMMA AskingProcess ==
    ASSUME AuthInv, req.phase \in {"lookup", "fetch", "verify"}
    PROVE  /\ boot # Down /\ settings.auth_mode = "oidc_jwt" /\ Ttl \in Nat \ {0}
           /\ req # Idle
<1>1. boot # Down /\ settings.auth_mode = "oidc_jwt"
  BY DEF AuthInv, KeysInJwtMode, Asking
<1> QED BY <1>1, TtlPositive DEF AuthInv, Idle

-----------------------------------------------------------------------------
LEMMA LocalTokenKeeps == AuthInv /\ LocalToken => AuthInv'
<1> SUFFICES ASSUME AuthInv, LocalToken PROVE AuthInv'
  OBVIOUS
<1>1. Inside /\ boot # Down /\ UNCHANGED jwks
  BY DEF LocalToken, Arriving, Inside
<1>2. CASE \E t \in DOMAIN tokens : Recognised("local", t, tokens[t], clock, "none")
  <2>1. PICK t \in DOMAIN tokens : Recognised("local", t, tokens[t], clock, "none")
    BY <1>2
  <2>2. PICK outcome : req' = Answered("local", t, outcome, clock, "none")
    BY <2>1 DEF Recognised
  <2> QED BY <1>1, <2>1, <2>2, AnswerKeeps
<1>3. CASE Refused("local", NoValue, clock, "none")
  BY <1>1, <1>3, AnswerKeeps DEF Refused
<1> QED BY <1>2, <1>3 DEF LocalToken

LEMMA ClaimsHeaderKeeps == AuthInv /\ ClaimsHeader => AuthInv'
<1> SUFFICES ASSUME AuthInv, ClaimsHeader PROVE AuthInv'
  OBVIOUS
<1>1. Inside /\ boot # Down /\ UNCHANGED jwks /\ settings.auth_mode \in ProxyModes
  BY DEF ClaimsHeader, Arriving, Inside
<1>2. PICK t, outcome : req' = Answered("header", t, outcome, clock, "none")
  BY DEF ClaimsHeader, Refused, Recognised
<1> QED BY <1>1, <1>2, AnswerKeeps

LEMMA BearerTokenKeeps == AuthInv /\ BearerToken => AuthInv'
<1> SUFFICES ASSUME AuthInv, BearerToken PROVE AuthInv'
  OBVIOUS
<1>1. Inside /\ boot # Down /\ UNCHANGED jwks /\ settings.auth_mode = "oidc_jwt"
  BY DEF BearerToken, Arriving, Inside
<1>2. CASE Refused("jwt", NoValue, clock, "none")
  BY <1>1, <1>2, AnswerKeeps DEF Refused
<1>3. ASSUME NEW t \in Tokens, t.alg \notin settings.oidc_jwt_allowed_algs,
             Refused("jwt", t, clock, "none")
      PROVE  AuthInv'
  <2>1. ~Good(t, clock)
    BY <1>3 DEF Good
  <2> QED BY <1>1, <1>3, <2>1, AnswerKeeps DEF Refused
<1>4. ASSUME NEW t \in Tokens, req' = [phase |-> "lookup", token |-> t]
      PROVE  AuthInv'
  <2>1. req'.phase = "lookup"
    BY <1>4
  <2>2. CacheKnown'
    BY <1>1, InsideKeeps DEF AuthInv, CacheKnown
  <2>3. RequestKnown'
    BY <2>1 DEF RequestKnown
  <2> QED BY <1>1, <2>1, <2>2, <2>3, AskingKeeps
<1> QED BY <1>2, <1>3, <1>4 DEF BearerToken

LEMMA UseCachedKeysKeeps == AuthInv /\ UseCachedKeys => AuthInv'
<1> SUFFICES ASSUME AuthInv, UseCachedKeys PROVE AuthInv'
  OBVIOUS
<1>1. Inside /\ UNCHANGED jwks
  BY DEF UseCachedKeys, Inside
<1>2. boot # Down /\ settings.auth_mode = "oidc_jwt" /\ Ttl \in Nat \ {0}
  BY AskingProcess DEF UseCachedKeys
<1>3. req'.phase = "verify" /\ req'.now = clock /\ req'.keys = jwks.keys
  BY DEF UseCachedKeys
<1>4. CacheKnown'
  BY <1>1, <1>2, InsideKeeps DEF AuthInv, CacheKnown
<1>5. clock \in Nat /\ clock' = clock
  BY <1>1, AuthenticationAssumption DEF AuthInv, HistoryTypes, Inside
<1>6. jwks.keys \in SUBSET Keys /\ KnownUntil(jwks.keys, jwks.expires)
      /\ clock < jwks.expires /\ jwks.expires \in Nat
  BY DEF AuthInv, CacheKnown, UseCachedKeys, Fresh
<1>7. KnownUntil(jwks.keys, clock + 1)
  <2>1. \A k \in Keys : served[k] \subseteq Nat /\ absent[k] \subseteq Nat
    BY <1>5 DEF AuthInv, HistoryTypes
  <2> QED BY <1>2, <1>5, <1>6, <2>1 DEF KnownUntil
<1>8. KnownUntil(jwks.keys, clock + 1)'
  BY <1>1, <1>2, <1>7, <1>5, InsideKeeps, KnownStays DEF Inside, process, provider
<1>9. RequestKnown'
  BY <1>1, <1>3, <1>5, <1>6, <1>8 DEF RequestKnown
<1> QED BY <1>1, <1>2, <1>3, <1>4, <1>9, AskingKeeps

LEMMA BeginFetchKeeps == AuthInv /\ BeginFetch => AuthInv'
<1> SUFFICES ASSUME AuthInv, BeginFetch PROVE AuthInv'
  OBVIOUS
<1>1. Inside /\ UNCHANGED jwks
  BY DEF BeginFetch, Inside
<1>2. boot # Down /\ settings.auth_mode = "oidc_jwt"
  BY AskingProcess DEF BeginFetch
<1>3. CASE JwksUrl = NoValue
  BY <1>1, <1>2, <1>3, AnswerKeeps DEF BeginFetch, Refused
<1>4. CASE JwksUrl # NoValue
  <2>1. req'.phase = "fetch" /\ req'.now = clock
    BY <1>4 DEF BeginFetch
  <2>2. CacheKnown'
    BY <1>1, <1>2, InsideKeeps DEF AuthInv, CacheKnown
  <2>3. RequestKnown'
    BY <1>1, <2>1, AuthenticationAssumption DEF RequestKnown, AuthInv, HistoryTypes, Inside
  <2> QED BY <1>1, <1>2, <2>1, <2>2, <2>3, AskingKeeps
<1> QED BY <1>3, <1>4

LEMMA FetchKeysKeeps == AuthInv /\ FetchKeys => AuthInv'
<1> SUFFICES ASSUME AuthInv, FetchKeys PROVE AuthInv'
  OBVIOUS
<1>1. Inside
  BY DEF FetchKeys, Inside
<1>2. boot # Down /\ settings.auth_mode = "oidc_jwt" /\ Ttl \in Nat \ {0}
  BY AskingProcess DEF FetchKeys
<1>3. req'.phase = "verify" /\ req'.now = req.now /\ req'.keys = published
  BY DEF FetchKeys
<1>4. clock \in Nat /\ clock' = clock /\ req.now \in 0..clock
  BY <1>1, AuthenticationAssumption DEF AuthInv, HistoryTypes, RequestKnown, FetchKeys, Inside
<1>5. jwks' = [keys |-> published, expires |-> req.now + Ttl]
  BY DEF FetchKeys, Entry, Ttl
<1>6. published \in (SUBSET Keys) \ {{}}
  BY DEF FetchKeys, AuthInv, HistoryTypes
<1>7. KnownUntil(published, req.now + Ttl) /\ KnownUntil(published, req.now + 1)
  <2>1. clock + Ttl >= req.now + Ttl /\ clock + Ttl >= req.now + 1
    BY <1>2, <1>4
  <2>2. /\ \A k \in published : clock \in served[k]
        /\ \A k \in Keys \ published : clock \in absent[k]
    BY <1>6 DEF AuthInv, HistoryOfNow
  <2> QED BY <2>1, <2>2 DEF KnownUntil
<1>8. KnownUntil(published, req.now + Ttl)' /\ KnownUntil(published, req.now + 1)'
  <2>1. published' = published /\ served' = served /\ absent' = absent /\ settings' = settings
    BY <1>1 DEF Inside, provider, process
  <2>2. (req.now)' = req.now
    BY <1>3
  <2> QED BY <1>7, <2>1, <2>2 DEF KnownUntil, Ttl
<1>9. CacheKnown'
  <2>1. jwks'.keys = published /\ jwks'.expires = req.now + Ttl /\ req.now + Ttl \in Nat
    BY <1>2, <1>4, <1>5
  <2>2. published' = published /\ Ttl' = Ttl /\ (req.now)' = req.now
    BY <1>1, <1>3 DEF Inside, provider, process, Ttl
  <2> QED BY <1>6, <1>8, <2>1, <2>2 DEF CacheKnown
<1>10. RequestKnown'
  <2>1. published' = published /\ (req.now)' = req.now
    BY <1>1, <1>3 DEF Inside, provider
  <2> QED BY <1>3, <1>4, <1>6, <1>8, <2>1 DEF RequestKnown
<1> QED BY <1>1, <1>2, <1>3, <1>9, <1>10, AskingKeeps

LEMMA FetchNoKeysKeeps == AuthInv /\ FetchNoKeys => AuthInv'
<1> SUFFICES ASSUME AuthInv, FetchNoKeys PROVE AuthInv'
  OBVIOUS
<1>1. Inside /\ UNCHANGED jwks /\ Refused("jwt", req.token, req.now, "failed")
  BY DEF FetchNoKeys, Inside
<1>2. boot # Down
  BY AskingProcess DEF FetchNoKeys
<1> QED BY <1>1, <1>2, AnswerKeeps DEF Refused

LEMMA FetchRaisesKeeps == AuthInv /\ FetchRaises => AuthInv'
<1> SUFFICES ASSUME AuthInv, FetchRaises PROVE AuthInv'
  OBVIOUS
<1>1. /\ Inside /\ UNCHANGED jwks
      /\ req' = Answered("jwt", req.token, "internal_error", req.now, "failed")
  BY DEF FetchRaises, Inside
<1>2. boot # Down
  BY AskingProcess DEF FetchRaises
<1> QED BY <1>1, <1>2, AnswerKeeps

LEMMA VerifyKeeps ==
    ASSUME AuthInv, Verify
    PROVE  AuthInv'
<1> DEFINE t == req.token
<1> DEFINE Valid == /\ \E k \in Candidates(req.keys, t) : SignedBy(k, t)
                    /\ Intended(t) /\ InWindow(t, clock) /\ t.actor # NoValue
<1>1. Inside /\ UNCHANGED jwks
  BY DEF Verify, Inside
<1>2. boot # Down
  BY AskingProcess DEF Verify
<1>3. req.keys \in SUBSET Keys /\ KnownUntil(req.keys, req.now + 1)
  BY DEF AuthInv, RequestKnown, Verify
<1>4. clock \in Nat /\ req.now \in Nat /\ Ttl \in Nat
  BY AskingProcess, AuthenticationAssumption
     DEF AuthInv, RequestKnown, HistoryTypes, Verify
<1>5. \A k \in Keys : served[k] \subseteq Nat /\ absent[k] \subseteq Nat
  BY <1>4 DEF AuthInv, HistoryTypes
<1>6. CASE Valid
  <2>1. PICK outcome : req' = Answered("jwt", t, outcome, req.now, "none")
    BY <1>6 DEF Verify, Recognised
  <2>2. outcome # "missing_or_invalid_auth_token"
    BY <1>6, <2>1 DEF Verify, Recognised, Answered
  <2>3. t.signer \in req.keys
    BY <1>6 DEF Candidates, SignedBy
  <2>4. t.signer \in Keys /\ \E at \in served[t.signer] : at + Ttl > req.now
    BY <1>3, <1>4, <1>5, <2>3 DEF KnownUntil
  <2> HIDE DEF t
  <2> QED BY <1>1, <1>2, <2>1, <2>2, <2>4, AnswerKeeps
<1>7. CASE ~Valid
  <2>1. Refused("jwt", t, req.now, "none")
    BY <1>7 DEF Verify
  <2>2. CASE Good(t, clock)
    <3>1. t.signer \in Keys /\ t.signer \notin req.keys
      BY <1>7, <2>2 DEF Good, Candidates
    <3>2. \E at \in absent[t.signer] : at + Ttl > req.now
      BY <1>3, <1>4, <1>5, <3>1 DEF KnownUntil
    <3> HIDE DEF t
    <3> QED BY <1>1, <1>2, <2>1, <3>2, AnswerKeeps DEF Refused
  <2>3. CASE ~Good(t, clock)
    <3> HIDE DEF t
    <3> QED BY <1>1, <1>2, <2>1, <2>3, AnswerKeeps DEF Refused
  <2> QED BY <2>2, <2>3
<1> QED BY <1>6, <1>7

LEMMA RespondKeeps == AuthInv /\ Respond => AuthInv'
<1> SUFFICES ASSUME AuthInv, Respond PROVE AuthInv'
  OBVIOUS
<1>1. Inside /\ UNCHANGED jwks /\ req' = Idle
  BY DEF Respond, Inside
<1>2. ProcessOfBoot' /\ DownIsEmpty' /\ HistoryOfNow'
  BY <1>1 DEF AuthInv, ProcessOfBoot, DownIsEmpty, HistoryOfNow, Inside, process, provider
<1>3. KeysInJwtMode'
  BY <1>1 DEF AuthInv, KeysInJwtMode, Asking, Inside, process, Idle
<1>4. HistoryTypes'
  BY <1>1 DEF AuthInv, HistoryTypes, Inside, provider, Idle
<1>5. CacheKnown'
  BY <1>1 DEF AuthInv, CacheKnown, KnownUntil, Ttl, Inside, process, provider
<1>6. RequestKnown' /\ AnsweredInMode' /\ AcceptedKeyWasPublished' /\ RefusalHasCause'
  BY <1>1 DEF RequestKnown, AnsweredInMode, AcceptedKeyWasPublished, RefusalHasCause,
              Granted, Idle
<1> QED BY <1>2, <1>3, <1>4, <1>5, <1>6 DEF AuthInv

\* Nothing is cached and nobody is served while the process is down.
LEMMA StartKeeps == AuthInv /\ Start => AuthInv'
<1> SUFFICES ASSUME AuthInv, Start PROVE AuthInv'
  OBVIOUS
<1>1. UNCHANGED <<clock, provider, jwks, req>> /\ jwks = NoEntry /\ req = Idle
  BY DEF Start, AuthInv, DownIsEmpty
<1>2. PICK e \in Environments, file \in Files \cup {Unreadable} :
        /\ ~FileRefused(file)
        /\ LET s == LoadedSettings(e.variables, file)
           IN /\ ValidAuth(s) /\ ValidLimits(s)
              /\ boot' = [environment |-> e, file |-> file]
              /\ settings' = s
              /\ tokens' = LocalTokens(e)
  BY DEF Start
<1>3. file \in Files
  BY <1>2 DEF FileRefused
<1>4. ProcessOfBoot'
  <2>1. boot'.environment = e /\ boot'.file = file
    BY <1>2
  <2>2. /\ settings' = LoadedSettings(boot'.environment.variables, boot'.file)
        /\ tokens' = LocalTokens(boot'.environment)
        /\ ValidAuth(settings') /\ ValidLimits(settings') /\ ~FileRefused(boot'.file)
    BY <1>2, <2>1
  <2> QED BY <1>3, <2>1, <2>2 DEF ProcessOfBoot
<1>5. DownIsEmpty' /\ KeysInJwtMode'
  BY <1>1 DEF DownIsEmpty, KeysInJwtMode, Asking, Idle
<1>6. HistoryTypes' /\ HistoryOfNow'
  BY <1>1 DEF AuthInv, HistoryTypes, HistoryOfNow, provider
<1>7. /\ CacheKnown' /\ RequestKnown' /\ AnsweredInMode'
      /\ AcceptedKeyWasPublished' /\ RefusalHasCause'
  BY <1>1 DEF CacheKnown, RequestKnown, AnsweredInMode, AcceptedKeyWasPublished,
              RefusalHasCause, Granted, Idle
<1> QED BY <1>4, <1>5, <1>6, <1>7 DEF AuthInv

LEMMA StopKeeps == AuthInv /\ Stop => AuthInv'
<1> SUFFICES ASSUME AuthInv, Stop PROVE AuthInv'
  OBVIOUS
<1>1. UNCHANGED <<clock, provider>> /\ boot' = Down /\ jwks' = NoEntry /\ req' = Idle
  BY DEF Stop
<1>2. ProcessOfBoot' /\ DownIsEmpty' /\ KeysInJwtMode'
  BY <1>1 DEF ProcessOfBoot, DownIsEmpty, KeysInJwtMode, Asking, Idle
<1>3. HistoryTypes' /\ HistoryOfNow'
  BY <1>1 DEF AuthInv, HistoryTypes, HistoryOfNow, provider, Idle
<1>4. /\ CacheKnown' /\ RequestKnown' /\ AnsweredInMode'
      /\ AcceptedKeyWasPublished' /\ RefusalHasCause'
  BY <1>1 DEF CacheKnown, RequestKnown, AnsweredInMode, AcceptedKeyWasPublished,
              RefusalHasCause, Granted, Idle
<1> QED BY <1>2, <1>3, <1>4 DEF AuthInv

\* Whatever time and the provider do, the process has what it had.
LEMMA WorldKeeps ==
    ASSUME AuthInv, UNCHANGED <<process, jwks, req>>,
           clock \in Nat, clock' \in Nat, clock' >= clock,
           HistoryTypes', HistoryOfNow',
           \A k \in Keys : served[k] \subseteq served'[k] /\ absent[k] \subseteq absent'[k]
    PROVE  AuthInv'
<1>1. settings' = settings /\ boot' = boot /\ tokens' = tokens
  BY DEF process
<1>2. ProcessOfBoot' /\ DownIsEmpty' /\ KeysInJwtMode' /\ AnsweredInMode'
  BY <1>1 DEF AuthInv, ProcessOfBoot, DownIsEmpty, KeysInJwtMode, Asking, AnsweredInMode
<1>3. CacheKnown'
  <2> SUFFICES ASSUME jwks' # NoEntry PROVE CacheKnown'
    BY DEF CacheKnown
  <2>1. /\ jwks.keys \in (SUBSET Keys) \ {{}} /\ jwks.expires \in Nat
        /\ KnownUntil(jwks.keys, jwks.expires)
    BY DEF AuthInv, CacheKnown
  <2>2. KnownUntil(jwks.keys, jwks.expires)'
    BY <1>1, <2>1 DEF KnownUntil, Ttl
  <2> QED BY <2>1, <2>2 DEF CacheKnown
<1>4. RequestKnown'
  <2>1. req'.phase \in {"fetch", "verify"} => req'.now \in 0..clock'
    BY DEF AuthInv, RequestKnown
  <2>2. ASSUME req.phase = "verify"
        PROVE  req.keys \in SUBSET Keys /\ KnownUntil(req.keys, req.now + 1)'
    <3>1. req.keys \in SUBSET Keys /\ KnownUntil(req.keys, req.now + 1)
      BY <2>2 DEF AuthInv, RequestKnown
    <3> QED BY <1>1, <3>1 DEF KnownUntil, Ttl
  <2> QED BY <2>1, <2>2 DEF RequestKnown
<1>5. AcceptedKeyWasPublished'
  <2> SUFFICES ASSUME Granted("jwt")' PROVE AcceptedKeyWasPublished'
    BY DEF AcceptedKeyWasPublished
  <2>1. PICK at \in served[req.token.signer] :
          at + settings.oidc_jwks_cache_ttl_seconds > req.now
    BY DEF AuthInv, AcceptedKeyWasPublished, Granted
  <2>2. at \in served'[req.token.signer]
    BY <2>1 DEF AuthInv, AnsweredInMode, Granted
  <2> QED BY <1>1, <2>1, <2>2 DEF AcceptedKeyWasPublished
<1>6. RefusalHasCause'
  BY <1>1 DEF AuthInv, RefusalHasCause, Good, JwksUrl, Candidates, SignedBy, Intended,
              InWindow
<1> QED BY <1>2, <1>3, <1>4, <1>5, <1>6 DEF AuthInv

LEMMA TickKeeps == AuthInv /\ Tick => AuthInv'
<1> SUFFICES ASSUME AuthInv, Tick PROVE AuthInv'
  OBVIOUS
<1>1. clock' = clock + 1 /\ clock < MaxClock /\ Seen(published, clock + 1)
      /\ UNCHANGED <<published, moves, process, jwks, req>>
  BY DEF Tick
<1>2. clock \in Nat /\ clock' \in 0..MaxClock /\ clock' >= clock
  BY <1>1, AuthenticationAssumption DEF AuthInv, HistoryTypes
<1>3. HistoryTypes'
  <2>1. served \in [Keys -> SUBSET (0..clock)] /\ absent \in [Keys -> SUBSET (0..clock)]
    BY DEF AuthInv, HistoryTypes
  <2>2. \A s \in SUBSET (0..clock) : s \cup {clock + 1} \in SUBSET (0..(clock + 1))
                                     /\ s \in SUBSET (0..(clock + 1))
    BY <1>2
  <2>3. served' \in [Keys -> SUBSET (0..clock')] /\ absent' \in [Keys -> SUBSET (0..clock')]
    BY <1>1, <2>1, <2>2 DEF Seen
  <2> QED BY <1>1, <1>2, <2>3 DEF AuthInv, HistoryTypes
<1>4. HistoryOfNow'
  BY <1>1, SeenGrows DEF HistoryOfNow
<1> QED BY <1>1, <1>2, <1>3, <1>4, SeenGrows, WorldKeeps

LEMMA RotateKeeps == AuthInv /\ Rotate => AuthInv'
<1> SUFFICES ASSUME AuthInv, Rotate PROVE AuthInv'
  OBVIOUS
<1>1. moves < MaxMoves /\ moves' = moves + 1 /\ published' \in SUBSET Keys
      /\ Seen(published', clock) /\ UNCHANGED <<clock, process, jwks, req>>
  BY DEF Rotate
<1>2. clock \in Nat /\ clock' = clock /\ clock' >= clock
  BY <1>1, AuthenticationAssumption DEF AuthInv, HistoryTypes
<1>3. HistoryTypes'
  <2>1. served \in [Keys -> SUBSET (0..clock)] /\ absent \in [Keys -> SUBSET (0..clock)]
    BY DEF AuthInv, HistoryTypes
  <2>2. \A s \in SUBSET (0..clock) : s \cup {clock} \in SUBSET (0..clock)
    BY <1>2
  <2>3. served' \in [Keys -> SUBSET (0..clock')] /\ absent' \in [Keys -> SUBSET (0..clock')]
    BY <1>1, <2>1, <2>2 DEF Seen
  <2>4. moves' \in 0..MaxMoves
    BY <1>1, AuthenticationAssumption DEF AuthInv, HistoryTypes
  <2> QED BY <1>1, <1>2, <2>3, <2>4 DEF AuthInv, HistoryTypes
<1>4. HistoryOfNow'
  BY <1>1, SeenGrows DEF HistoryOfNow
<1> QED BY <1>1, <1>2, <1>3, <1>4, SeenGrows, WorldKeeps

LEMMA StutterKeeps == AuthInv /\ UNCHANGED vars => AuthInv'
BY DEF AuthInv, vars, provider, process, ProcessOfBoot, DownIsEmpty, KeysInJwtMode, Asking,
       HistoryTypes, HistoryOfNow, CacheKnown, KnownUntil, RequestKnown, AnsweredInMode,
       AcceptedKeyWasPublished, RefusalHasCause, Granted, Good, JwksUrl, Candidates,
       SignedBy, Intended, InWindow, Ttl

LEMMA AuthInvariant == Spec => []AuthInv
<1>1. AuthInv /\ [Next]_vars => AuthInv'
  BY StartKeeps, LocalTokenKeeps, ClaimsHeaderKeeps, BearerTokenKeeps, UseCachedKeysKeeps,
     BeginFetchKeeps, FetchKeysKeeps, FetchNoKeysKeeps, FetchRaisesKeeps, VerifyKeeps,
     RespondKeeps, TickKeeps, RotateKeeps, StopKeeps, StutterKeeps DEF Next, Service
<1> QED BY InitAuth, <1>1, PTL DEF Spec

-----------------------------------------------------------------------------
\* Every variable keeps its type, and a process that runs has settings that pass
\* Settings.validate (config.py:186).
THEOREM AuthenticationTyped == Spec => []TypeOK
<1>1. AuthInv => TypeOK
  BY DEF AuthInv, HistoryTypes, ProcessOfBoot, CacheKnown, TypeOK
<1> QED BY AuthInvariant, <1>1, PTL

\* A withdrawn key opens nothing for longer than the cache keeps it (auth.py:285).
THEOREM WithdrawnKeysExpire == Spec => []AcceptedKeyWasPublished
<1>1. AuthInv => AcceptedKeyWasPublished
  BY DEF AuthInv
<1> QED BY AuthInvariant, <1>1, PTL

\* A good token is refused only when its keys could not be fetched by this request,
\* or were not served yet a cache's time ago (auth.py:290).
THEOREM RefusalsHaveCause == Spec => []RefusalHasCause
<1>1. AuthInv => RefusalHasCause
  BY DEF AuthInv
<1> QED BY AuthInvariant, <1>1, PTL

\* Tokens of an environment replace the built-in ones (auth.py:95).
THEOREM BuiltInTokensReplaced == Spec => []BuiltInOnlyByDefault
<1>1. AuthInv => BuiltInOnlyByDefault
  <2> SUFFICES ASSUME AuthInv, Granted("local"), req.token \in DOMAIN BuiltIn,
                      boot.environment.tokens # Malformed,
                      DOMAIN boot.environment.tokens # {}
               PROVE  \/ req.token \in DOMAIN boot.environment.tokens
                      \/ req.token \in DOMAIN boot.environment.packs
    BY DEF BuiltInOnlyByDefault
  <2> DEFINE e == boot.environment
  <2>1. tokens = LocalTokens(e) /\ req.token \in DOMAIN tokens
    BY DEF AuthInv, ProcessOfBoot, AnsweredInMode, Granted
  <2>2. BaseTokens(e.tokens) = e.tokens
    BY DEF BaseTokens
  <2>3. DOMAIN LocalTokens(e) = DOMAIN e.tokens \cup DOMAIN e.packs
    BY <2>2 DEF LocalTokens
  <2> QED BY <2>1, <2>3
<1> QED BY AuthInvariant, <1>1, PTL

\* A claims header is believed on an address others reach only on the word of the
\* source that speaks last (config.py:186).
THEOREM HeaderNeedsTrust == Spec => []HeaderTrustedOnlyIfTold
<1>1. AuthInv => HeaderTrustedOnlyIfTold
  <2> SUFFICES ASSUME AuthInv, Granted("header"), ServesOthers(settings),
                      settings.require_auth_for_non_local
               PROVE  Says("oidc_trusted_proxy", TRUE)
    BY DEF HeaderTrustedOnlyIfTold
  <2> DEFINE f == "oidc_trusted_proxy"
  <2> DEFINE v == boot.environment.variables
  <2>1. ValidAuth(settings) /\ settings = LoadedSettings(v, boot.file)
        /\ settings.auth_mode \in ProxyModes
    BY DEF AuthInv, ProcessOfBoot, AnsweredInMode, Granted
  <2>2. settings.oidc_trusted_proxy
    BY <2>1 DEF ValidAuth
  <2>3. f \in Fields /\ f \in BoolFields /\ Defaults[f] = FALSE
    BY DEF Fields, Defaults, BoolFields
  <2>4. settings[f] = IF f \in DOMAIN boot.file THEN FromFile(f, boot.file[f])
                      ELSE IF f \in DOMAIN v THEN FromEnvironment(f, v[f]) ELSE Defaults[f]
    BY <2>1, <2>3 DEF LoadedSettings
  <2>5. CASE f \in DOMAIN boot.file
    <3>1. FromFile(f, boot.file[f]) = (boot.file[f] = TRUE)
      BY <2>3 DEF FromFile
    <3> QED BY <2>2, <2>4, <2>5, <3>1 DEF Says
  <2>6. CASE f \notin DOMAIN boot.file /\ f \in DOMAIN v
    <3>1. \A raw : FromEnvironment(f, raw) => raw = TRUE
      BY <2>3, Zenon DEF FromEnvironment
    <3> QED BY <2>2, <2>4, <2>6, <3>1 DEF Says
  <2> QED BY <2>2, <2>3, <2>4, <2>5, <2>6
<1> QED BY AuthInvariant, <1>1, PTL
=============================================================================
