------------------------------ MODULE MCFiscal ------------------------------
(***************************************************************************)
(* Fiscal for TLC: two establishments, one sequence, two users, two scopes *)
(* of which one is generic, three dates.                                   *)
(***************************************************************************)
EXTENDS Fiscal, TLC

Symmetric == Permutations(Establishments) \cup Permutations(Users)
=============================================================================
