------------------------------ MODULE MCMetaSweep ------------------------------
(* MetaSweep on small sets of targets and callers. *)
EXTENDS MetaSweep, TLC

CONSTANTS c1, s1, s2

Sym == Permutations(Sweeps)

=============================================================================
