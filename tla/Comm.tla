-------------------------------- MODULE Comm --------------------------------
(* What the modules of the server share, as comm.h does for its sources.   *)

CONSTANT NULL     \* the null pointer

=============================================================================
