------------------------------- MODULE MCCLog -------------------------------
(* The redo log with blocks of a few bytes. *)
EXTENDS CLogRecovery
=============================================================================
