------------------------------- MODULE MCCalls -------------------------------
(* Small instances of Calls for TLC. *)
EXTENDS Calls, TLC
=============================================================================
