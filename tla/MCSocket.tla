------------------------------ MODULE MCSocket ------------------------------
(* Small instances of Socket for TLC. *)
EXTENDS Socket

MCQuantities == {2}
MCIntMax == 2

=============================================================================
