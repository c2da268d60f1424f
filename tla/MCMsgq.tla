------------------------------- MODULE MCMsgq -------------------------------
(* Small instances of Msgq for TLC. *)
EXTENDS Msgq

MCQuantities == {2}
MCIntMax == 2

=============================================================================
