------------------------------ MODULE MCOrders ------------------------------
(* Small instances of Orders for TLC. *)
EXTENDS Orders
CONSTANTS i1, w1, w2
OneItem    == {i1}
OneWorker  == {w1}
TwoWorkers == {w1, w2}
=============================================================================
