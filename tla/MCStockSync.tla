---------------------------- MODULE MCStockSync ----------------------------
(***************************************************************************)
(* StockSync for TLC: every constant is given by the configurations.       *)
(***************************************************************************)
EXTENDS StockSync
=============================================================================
