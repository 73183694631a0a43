-------------------------- MODULE MCChangeControl --------------------------
(***************************************************************************)
(* The ChangeControl instance TLC checks.  No definition tells one request *)
(* slot, or one sound policy pack, from another, and no property is        *)
(* temporal beyond single steps.                                           *)
(***************************************************************************)
EXTENDS ChangeControl, TLC

Symmetry == Permutations(Requests) \cup Permutations(Packs \ Unsound)
====
