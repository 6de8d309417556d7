-------------------------- MODULE MCRealtimeToken ---------------------------
(* A small instance of RealtimeToken for TLC, in units of fifteen seconds. *)
EXTENDS RealtimeToken, TLC
=============================================================================
