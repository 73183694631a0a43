---------------------------- MODULE MCDeletion -----------------------------
(***************************************************************************)
(* The Deletion instance TLC checks.                                       *)
(***************************************************************************)
EXTENDS Deletion, TLC

Symmetry == Permutations(Requests)
====
