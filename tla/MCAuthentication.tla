-------------------------- MODULE MCAuthentication --------------------------
(***************************************************************************)
(* The Authentication instance TLC checks: processes started with a local  *)
(* token table, behind a proxy (under both names of the mode, trusted or   *)
(* not, by the environment or the file) or with JWT verification; a        *)
(* symmetric key and an RSA key.                                           *)
(***************************************************************************)
EXTENDS Authentication, TLC

CONSTANTS k1, rsa, idp, jwksUrl, ours, ann, malformed, novalue, wrong, dev, own

Nothing == [f \in {} |-> novalue]

Env(variables, table, packs) == [variables |-> variables, tokens |-> table, packs |-> packs]
Plain(variables) == Env(variables, Nothing, Nothing)

Reachable == "bind_address" :> "0.0.0.0"
Jwt == "auth_mode" :> "oidc_jwt"
Issuer == "oidc_required_issuer" :> idp

MCEnvironments ==
    {Env(Nothing, table, packs) :
        table \in {Nothing, malformed, own :> {"analyst"}},
        packs \in {Nothing, dev :> {"data_steward"}}}
    \cup {Plain(Reachable @@ ("auth_mode" :> mode) @@ ("oidc_trusted_proxy" :> trusted)) :
            mode \in {"oidc", "oidc_trusted_proxy"}, trusted \in {TRUE, malformed}}
    \cup {Plain(Reachable @@ Jwt @@ Issuer),
          Plain(Jwt @@ ("oidc_jwks_url" :> jwksUrl) @@ ("oidc_required_audience" :> ours)
                @@ ("oidc_jwks_cache_ttl_seconds" :> malformed)),
          Plain(Jwt)}

MCFiles ==
    {Nothing,
     "oidc_trusted_proxy" :> TRUE,
     "oidc_trusted_proxy" :> malformed,
     "require_auth_for_non_local" :> FALSE,
     ("oidc_jwks_cache_ttl_seconds" :> 1)
        @@ ("oidc_jwt_allowed_algs" :> {"HS256", "RS256"}) @@ ("oidc_clock_skew_seconds" :> 0),
     "oidc_jwks_cache_ttl_seconds" :> malformed,
     "oidc_jwt_allowed_algs" :> {},
     "oidc_jwks_url" :> Blank,
     "query_max_bytes" :> 0,
     "query_max_bytes" :> wrong,
     "auth_modes" :> "local"}

Token(signer, kid, alg, issuer, audience, from, until, actor) ==
    [signer |-> signer, kid |-> kid, alg |-> alg, issuer |-> issuer, audience |-> audience,
     from |-> from, until |-> until, actor |-> actor, roles |-> {"analyst"}]

MCTokens ==
    {Token(k1, k1, "HS256", idp, ours, 0, novalue, ann),
     Token(k1, novalue, "HS256", idp, ours, 0, 1, ann),
     Token(k1, novalue, "HS256", idp, novalue, 3, novalue, ann),
     Token(rsa, rsa, "RS256", idp, ours, 0, novalue, ann),
     Token(k1, k1, "HS256", idp, ours, 0, novalue, novalue)}

MCBuiltIn == dev :> {"platform_admin"}
MCKeyAlg == (k1 :> novalue) @@ (rsa :> "RS256")
====
