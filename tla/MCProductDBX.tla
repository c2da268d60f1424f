---------------------------- MODULE MCProductDBX ----------------------------
(* Small instances of ProductDBX for TLC. *)
EXTENDS ProductDBX, TLC

MCQuantities == {-1, 2}
MCOneQuantity == {2}
MCIntMax == 2

=============================================================================
