----------------------------- MODULE MCTriageLive -----------------------------
(***************************************************************************)
(* TriageLive on a small instance, for TLC: the scheduled sweep and one    *)
(* other caller.  No symmetry, since the properties are temporal.          *)
(***************************************************************************)
EXTENDS TriageLive

=============================================================================
