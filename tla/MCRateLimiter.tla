----------------------------- MODULE MCRateLimiter -----------------------------
(***************************************************************************)
(* RateLimiter on a small instance, for TLC.  The requests are             *)
(* interchangeable.                                                        *)
(***************************************************************************)
EXTENDS RateLimiter, TLC

CONSTANTS r1, r2

Hosts == {[r \in Replicas |-> 0], [r \in Replicas |-> IF r = r1 THEN 0 ELSE 5]}

Sym == Permutations(Requests)

=============================================================================
