------------------------------- MODULE MCFifo -------------------------------
(* Small instances of Fifo for TLC. *)
EXTENDS Fifo

MCQuantities == {2}
MCIntMax == 2

=============================================================================
