----------------------------- MODULE MCGateway -----------------------------
(***************************************************************************)
(* The Gateway instance TLC checks: an analyst whose token names a region  *)
(* or, after a new login, the role of a steward and none; an AI reader     *)
(* entitled to a dataset of this workspace and to one of another.          *)
(***************************************************************************)
EXTENDS Gateway, TLC

CONSTANTS ann, bot, eu, us, d1, d2, d3

Token(actor, ai, role, region, allowed, listed) ==
    [actor |-> actor, ai |-> ai, role |-> role, region |-> region,
     allowed |-> allowed, allowlisted |-> listed]

MCClaims == {Token(ann, FALSE, "analyst", eu, {d1, d2}, FALSE),
             Token(ann, FALSE, "data_steward", NoRegion, {}, FALSE),
             Token(bot, TRUE, "other", NoRegion, {d1, d3}, TRUE)}

MCForeign == {d3}
MCDocRegion == (d1 :> eu) @@ (d2 :> us)
MCManifests == {{}, {d1}, {d1, d2}}
====
