----------------------------- MODULE MCMembers ------------------------------
(* An instance of Members for TLC.  Users and requests are interchangeable. *)
EXTENDS Members, TLC

Symmetry == Permutations(Users) \cup Permutations(Requests)
=============================================================================
