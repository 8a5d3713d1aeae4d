----------------------------- MODULE MetaSweepLive -----------------------------
(***************************************************************************)
(* MetaSweep with the fairness its scheduling justifies, and what must      *)
(* eventually happen.                                                      *)
(***************************************************************************)
EXTENDS MetaSweep

CONSTANT scheduled   \* the sweep that the scheduler runs

ASSUME ScheduledAssumption == scheduled \in Sweeps

(* Every await of a sweep ends: requests time out, statements return or    *)
(* raise, and a triage returns or raises, which asks of the broker that a  *)
(* publish does (notify.py sets no timeout).  The interval job of          *)
(* build_scheduler starts its sweep again and again, whoever else sweeps.  *)
(* And RabbitMQ's API, if it goes on being asked by that sweep, answers    *)
(* now and then.                                                           *)
Fairness ==
  /\ \A s \in Sweeps : WF_vars(SweepStep(s))
  /\ WF_vars(Start(scheduled))
  /\ SF_vars(ScrapeQueues(scheduled, Queues))

LiveSpec == Spec /\ Fairness

-----------------------------------------------------------------------------
(* PROPERTIES *)

UpForTriage(t) ==
  \E s \in Sweeps : sweeps[s].pc = "triage" /\ t \in sweeps[s].signals

(* An agent that stays down is signalled (endpoint_to_signals) again and   *)
(* again, also if the other collectors fail all the time, if triages keep  *)
(* throwing the sweeps out, and whatever another sweep records of a probe  *)
(* made before.                                                            *)
OutageIsSignalled ==
  \A a \in Agents : <>[](~up[a]) => []<>UpForTriage(a)

(* A backlog that stays over the threshold and does not drain is signalled *)
(* (queue_to_signal) again and again.                                      *)
BacklogIsSignalled ==
  \A q \in Queues, n \in (QueueDepthThreshold + 1)..MaxReading :
    <>[](depth[q] = n) => []<>UpForTriage(q)

=============================================================================
