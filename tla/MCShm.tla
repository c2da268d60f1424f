-------------------------------- MODULE MCShm --------------------------------
(* Small instances of Shm for TLC. *)
EXTENDS Shm

MCQuantities == {2}
MCIntMax == 2

=============================================================================
