---------------------------- MODULE MCMetaSweepLive ----------------------------
(* MetaSweepLive on small sets of targets and callers. *)
EXTENDS MetaSweepLive

CONSTANTS a1, q1, manual

=============================================================================
