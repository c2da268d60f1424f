---------------------------- MODULE MCStockServer ----------------------------
(* A small instance of StockServer for TLC. *)
EXTENDS StockServer

MCQuantities == {-1, 2}
MCIntMax == 2

=============================================================================
