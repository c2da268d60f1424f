----------------------------- MODULE MCSignals ------------------------------
(* Small instances of Signals for TLC. *)
EXTENDS Signals

MCQuantities == {2}
MCIntMax == 2

=============================================================================
