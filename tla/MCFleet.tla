-------------------------------- MODULE MCFleet --------------------------------
(* Fleet on a small instance, for TLC: one agent and one operator. *)
EXTENDS Fleet

CONSTANTS a1, operator

=============================================================================
