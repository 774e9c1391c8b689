-------------------------------- MODULE MCFutex --------------------------------
(* Futex with few threads, for TLC. *)
EXTENDS Futex
=============================================================================
