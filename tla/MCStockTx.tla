------------------------------- MODULE MCStockTx -------------------------------
(***************************************************************************)
(* Instances of StockTx for TLC.  Sessions are told apart by the liveness  *)
(* property, and one product only is managed, so nothing is symmetric.     *)
(***************************************************************************)
EXTENDS StockTx
=============================================================================
