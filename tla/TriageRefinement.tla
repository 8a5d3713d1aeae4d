--------------------------- MODULE TriageRefinement ---------------------------
(***************************************************************************)
(* Triage implements Alerting: the statements of concurrent runs add up to *)
(* the life of an incident that Alerting describes.                        *)
(***************************************************************************)
EXTENDS Triage

PhaseOf(k) ==
  IF rows[k].status = "absent" THEN "none"
  ELSE IF rows[k].status = "resolved" THEN "closed"
  ELSE IF rows[k].status = "alert_failed" THEN "owed"
  ELSE IF known[k] THEN "told"
  ELSE IF \E r \in Runs : Carries(r, k) THEN "fresh"
  ELSE "lost"

A == INSTANCE Alerting WITH
       phase <- [k \in Keys |-> PhaseOf(k)],
       acked <- [k \in Keys |-> Clearing(k)]

-----------------------------------------------------------------------------
(* PROPERTIES *)

(* Every step of the graph, of a caller, of the prune, of an operator or of *)
(* a fault is a step in the life of at most one incident, or of the        *)
(* incidents that the prune forgets or a fault strikes, or no step at all. *)
(* So, between them, the two statements of upsert, the loop of notify and  *)
(* the status updates never lose a first page without a fault, never drop  *)
(* a flag before a page has arrived, and never forget an open incident.    *)
LifecycleKept == A!Spec

=============================================================================
