------------------------------ MODULE MCOffice ------------------------------
(***************************************************************************)
(* An instance of Office for TLC: two establishments and one number        *)
(* sequence over three dates, three products and one listing that has the  *)
(* SKU of the first of them, two persons, one tab of a browser.            *)
(*                                                                         *)
(* The same two values, a and b, are the users, the keys, the requests,    *)
(* ...  The parts share no state, so that exchanging a and b everywhere is *)
(* a symmetry of each of them, and one permutation serves them all.        *)
(***************************************************************************)
EXTENDS Office, TLC

CONSTANTS p1, p2, p3, l1, a, b

MCProducts == {p1, p2, p3}
MCSuggested == l1 :> p1

Symmetric == Permutations({a, b})
=============================================================================
