----------------------------- MODULE IncidentStore -----------------------------
(***************************************************************************)
(* The table `incidents` of the monitoring agent and the statements that   *)
(* IncidentStore (monitoring_agent/store.py) runs on it.  The pool is in   *)
(* autocommit, so every statement is a step of its own: a method that runs *)
(* two of them (upsert) is two operators here.  Each operator is the       *)
(* effect on `rows` only; the modules that extend this one say who calls   *)
(* it and when.                                                            *)
(*                                                                         *)
(* A row keeps its status and its age, the time since last_seen.  id,      *)
(* source, title, body, count, severity and first_seen are only shown to   *)
(* people: no statement and no node reads them back to choose what to do.  *)
(***************************************************************************)
EXTENDS Integers

CONSTANTS
  Keys,       \* dedup keys: sha256(source, fingerprint), one per distinct problem
  Retention,  \* incident_retention_days, in clock ticks; 0 disables the prune
  Horizon     \* ages saturate here: nothing tells two older ages apart

ASSUME RetentionAssumption ==
  /\ Retention \in Nat
  /\ Horizon \in Nat
  /\ Retention < Horizon

VARIABLE rows   \* [Keys -> Row], the table

Status == {"absent", "open", "alert_failed", "resolved"}

Row == [status : Status, age : 0..Horizon]

NoRow == [status |-> "absent", age |-> 0]

NoPrev == -1    \* the SELECT found no row

StoreTypeOK == rows \in [Keys -> Row]

StoreInit == rows = [k \in Keys |-> NoRow]

Present(k) == rows[k].status # "absent"

-----------------------------------------------------------------------------
(* Mutated forms of the definitions below, each a plausible bug.           *)

UpsertedStatusResets(s) == "open"

PrunableByAge(k) == Present(k) /\ rows[k].age > Retention

-----------------------------------------------------------------------------
(* SELECT last_seen: the age of the row that the caller remembers.         *)
LastSeen(k) == IF Present(k) THEN rows[k].age ELSE NoPrev

(* INSERT .. ON CONFLICT DO UPDATE: a missing or resolved row becomes open, *)
(* any other status is kept; last_seen becomes now.                        *)
UpsertedStatus(s) == IF s = "alert_failed" THEN s ELSE "open"

Upsert(k) ==
  rows' = [rows EXCEPT ![k] =
             [status |-> UpsertedStatus(rows[k].status), age |-> 0]]

(* UPDATE .. SET status = 'alert_failed' WHERE dedup_key = k: unconditional *)
(* on the status, without effect when the row is gone.                     *)
MarkedStatus(s) == IF s = "absent" THEN s ELSE "alert_failed"

MarkAlertFailed(k) == rows' = [rows EXCEPT ![k].status = MarkedStatus(@)]

(* UPDATE .. SET status = 'open' WHERE .. AND status = 'alert_failed'.     *)
ClearedStatus(s) == IF s = "alert_failed" THEN "open" ELSE s

ClearAlertFailed(k) == rows' = [rows EXCEPT ![k].status = ClearedStatus(@)]

(* DELETE of the resolved rows that are older than the retention.          *)
Prunable(k) == rows[k].status = "resolved" /\ rows[k].age > Retention

PruneRows ==
  /\ Retention > 0
  /\ rows' = [k \in Keys |-> IF Prunable(k) THEN NoRow ELSE rows[k]]

(* No statement in the repository sets 'resolved', but the upsert, the     *)
(* prune and the schema expect it: an operator closes an incident by hand. *)
ResolveRow(k) ==
  /\ rows[k].status \in {"open", "alert_failed"}
  /\ rows' = [rows EXCEPT ![k].status = "resolved"]

(* Time passes by one tick. *)
Older(age) == IF age < Horizon THEN age + 1 ELSE age

AgeRows ==
  rows' = [k \in Keys |->
             IF Present(k) THEN [rows[k] EXCEPT !.age = Older(@)] ELSE NoRow]

=============================================================================
