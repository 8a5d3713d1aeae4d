------------------------------ MODULE TriageLive ------------------------------
(***************************************************************************)
(* Triage under fairness.  What the agent's scheduling justifies:          *)
(*   - a run that can go on does: its awaits on the LLM call, which has a  *)
(*     timeout, and on statements, which return or raise, have an end;     *)
(*   - the scheduled sweep comes back every poll_interval_seconds          *)
(*     (scheduler.py);                                                     *)
(*   - time passes.                                                        *)
(* What is asked of the environment, for the code does not see to it:      *)
(*   - a publish is confirmed or raises: notify.py sets no timeout on the  *)
(*     connection, the channel, the exchange or the message;               *)
(*   - the sweep reaches each problem that is still there again and again: *)
(*     no earlier signal of its loop raises every time;                    *)
(*   - of the answers to the sweep, not all raise (AnswerRaises), and the  *)
(*     broker does not refuse all of its pages.                            *)
(* Faults are bounded by MaxFaults.  Nothing is assumed of the other       *)
(* callers' signals and answers, of operators or of the prune.             *)
(***************************************************************************)
EXTENDS Triage

CONSTANT Sweep   \* the run of the scheduled sweep

ASSUME SweepAssumption == Sweep \in Runs

SweepTriages(k) == \E s \in Severity : Ingest(Sweep, k, s)

SweepClassifies(k) ==
  runs[Sweep].key = k /\ \E answer \in Severity : Classify(Sweep, answer)

SweepRecords(k) == runs[Sweep].key = k /\ InsertRow(Sweep)

SweepDelivers(k) == runs[Sweep].key = k /\ Deliver(Sweep)

PublishEnds(r) == Deliver(r) \/ \E reached \in BOOLEAN : PublishFails(r, reached)

Proceeds(r) == runs[r].pc # "publish" /\ RunStep(r)

Scheduling ==
  /\ \A r \in Runs : WF_vars(Proceeds(r))
  /\ WF_vars(Tick)

Environment ==
  /\ \A r \in Runs : WF_vars(PublishEnds(r))
  /\ \A k \in Keys : /\ SF_vars(SweepTriages(k))
                     /\ SF_vars(SweepClassifies(k))
                     /\ SF_vars(SweepRecords(k))
                     /\ SF_vars(SweepDelivers(k))

Fairness == Scheduling /\ Environment

LiveSpec == Spec /\ Fairness

-----------------------------------------------------------------------------
(* PROPERTIES *)

(* A page that was given up is tried again until one arrives: an incident   *)
(* does not stay "alert_failed" while its problem lasts, however often the *)
(* dedup window would have swallowed the repeat (decide), and although     *)
(* other runs page and mark the same incident meanwhile.  The sweep may be *)
(* thrown out by an answer that raises, as long as not every answer does.  *)
FailedPageIsRetried ==
  \A k \in Keys : rows[k].status = "alert_failed" ~> rows[k].status # "alert_failed"

(* Without a crash or a failed statement, the first page of an incident     *)
(* arrives or an operator resolves the incident: publishes that fail only  *)
(* delay it (notify, decide), and so do answers that end a run before it   *)
(* has recorded the problem (classify).                                    *)
FirstPageArrives ==
  \A k \in Keys :
    (Present(k) /\ ~known[k] /\ faults = 0) ~> (known[k] \/ faults > 0)

(* "if none: create firing Incident; publish ONE alert to agent.alerts"    *)
(* (docs/business-rules.md, BR-009), taken over faults too.                *)
EveryIncidentIsPaged ==
  \A k \in Keys : (Present(k) /\ ~known[k]) ~> known[k]

=============================================================================
