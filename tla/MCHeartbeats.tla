------------------------------ MODULE MCHeartbeats ------------------------------
(* Heartbeats on a small instance, for TLC. *)
EXTENDS Heartbeats

CONSTANTS j1, b1, b2, agents

=============================================================================
