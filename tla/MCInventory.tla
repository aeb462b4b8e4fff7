---------------------------- MODULE MCInventory ----------------------------
(* Constants of the Inventory run.  The kit takes one unit of product 1 and  *)
(* two of product 2.  Keys are interchangeable.                              *)
EXTENDS Inventory, TLC

CONSTANTS kit

KitComposition == [k \in {kit} |-> [p \in Products |-> p]]

Symmetry == Permutations(Keys)
=============================================================================
