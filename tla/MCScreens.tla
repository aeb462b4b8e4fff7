------------------------------ MODULE MCScreens -----------------------------
EXTENDS Screens, TLC

Symmetry == Permutations(Requests)
=============================================================================
