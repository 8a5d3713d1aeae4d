------------------------------- MODULE MCTriage -------------------------------
(***************************************************************************)
(* Triage on a small instance, for TLC.  Two incidents behave alike, and   *)
(* so do two callers, so both sets are symmetric in the safety runs.       *)
(***************************************************************************)
EXTENDS TriageRefinement, TLC

Sym == Permutations(Keys) \cup Permutations(Runs)

=============================================================================
