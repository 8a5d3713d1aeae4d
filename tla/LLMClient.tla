------------------------------- MODULE LLMClient -------------------------------
(***************************************************************************)
(* One LLMClient (agentkit/llm.py), used by several tasks at once: the     *)
(* price ceiling of each call, the cap on what the client has spent, the   *)
(* circuit breaker, and complete_json's corrective retries.                *)
(*                                                                         *)
(* A call is a task that has entered complete, complete_with_tools,        *)
(* complete_json or embed_texts.  What it does before the request goes out *)
(* has no await in it, nor has what it does with the answer: both are one  *)
(* step, and a corrective retry goes out in the step that reads the        *)
(* answer before it.  The SDK's own transport retries are inside one       *)
(* request.  Prices are abstracted to what a request costs, and what it    *)
(* was projected to cost, which need not agree.                            *)
(***************************************************************************)
EXTENDS CircuitBreaker, FiniteSets

CONSTANTS
  Calls,       \* the tasks that use the client
  Charges,     \* what a request may cost, or be projected to cost
  MaxCost,     \* llm_max_cost_usd, the ceiling of one request
  JobCap,      \* llm_job_cost_cap_usd; 0 disables the cap
  MaxRetries   \* max_retries of complete_json

ASSUME ClientAssumption ==
  /\ IsFiniteSet(Calls)
  /\ Charges \subseteq Nat
  /\ MaxCost \in Nat
  /\ JobCap \in Nat
  /\ MaxRetries \in Nat

VARIABLES
  calls,    \* [Calls -> Call]
  spent,    \* usage.cost_usd
  outages   \* history: gateway failures since its last answer, up to Threshold

vars == <<breaker, calls, spent, outages>>

Kinds == {"chat", "json", "embed"}

Ended == {"idle", "answered", "too_costly", "open", "capped", "failed", "invalid"}

Call == [pc      : Ended \cup {"flight"},
         kind    : Kinds,
         attempt : 0..MaxRetries]

TypeOK ==
  /\ BreakerTypeOK
  /\ calls \in [Calls -> Call]
  /\ spent \in Nat
  /\ outages \in 0..Threshold

IdleCall == [pc |-> "idle", kind |-> "chat", attempt |-> 0]

Init ==
  /\ breaker = Closed
  /\ calls = [c \in Calls |-> IdleCall]
  /\ spent = 0
  /\ outages = 0

-----------------------------------------------------------------------------
(* Mutated forms of the definitions below, each a plausible bug.           *)

CapReachedPast(total) == JobCap > 0 /\ total > JobCap

RetriableOnceMore(n) == n <= MaxRetries

NextAttemptForgets(n) == n

-----------------------------------------------------------------------------
CapReached(total) == JobCap > 0 /\ total >= JobCap

(* Where a request gets to, the projected cost of its prompt being what it  *)
(* is: complete's pre-flight guard, then _call_gateway's breaker and cap.  *)
(* Embeddings are free and only see the breaker.                           *)
Gate(kind, projected, b, total) ==
  IF kind # "embed" /\ projected > MaxCost THEN "too_costly"
  ELSE IF ~Admits(b) THEN "open"
  ELSE IF kind # "embed" /\ CapReached(total) THEN "capped"
  ELSE "flight"

(* Call c ends, with this outcome. *)
Ends(c, outcome) ==
  calls' = [calls EXCEPT ![c] = [IdleCall EXCEPT !.pc = outcome]]

(* Call c sends its request, or is refused: its n-th attempt, from a state  *)
(* in which the breaker is b and the client has spent total.               *)
Sends(c, kind, n, projected, b, total) ==
  LET to == Gate(kind, projected, b, total) IN
  IF to = "flight"
    THEN calls' = [calls EXCEPT ![c] = [pc |-> to, kind |-> kind, attempt |-> n]]
    ELSE Ends(c, to)

Submit(c, kind, projected) ==
  /\ calls[c].pc \in Ended
  /\ Sends(c, kind, 0, projected, breaker, spent)
  /\ UNCHANGED <<breaker, spent, outages>>

-----------------------------------------------------------------------------
(* The gateway answers c: whatever comes of the answer, the breaker closes. *)
GatewayAnswers(c) ==
  /\ calls[c].pc = "flight"
  /\ breaker' = AfterSuccess(breaker)
  /\ outages' = 0

(* The request cost more than the ceiling: complete raises before it adds  *)
(* the cost to the usage.                                                  *)
Overcharged(c, cost) ==
  /\ GatewayAnswers(c)
  /\ calls[c].kind # "embed"
  /\ cost > MaxCost
  /\ Ends(c, "too_costly")
  /\ UNCHANGED spent

(* The cost is metered and the answer is good: valid, or not asked to be.  *)
Metered(c, cost) ==
  /\ GatewayAnswers(c)
  /\ calls[c].kind # "embed"
  /\ cost <= MaxCost
  /\ spent' = spent + cost

Answered(c, cost) == Metered(c, cost) /\ Ends(c, "answered")

(* complete_json: the answer does not fit the schema, and another attempt  *)
(* is left.  The longer conversation has a projected cost of its own.      *)
Retriable(n) == n < MaxRetries

NextAttempt(n) == n + 1

Retried(c, cost, projected) ==
  /\ Metered(c, cost)
  /\ calls[c].kind = "json"
  /\ Retriable(calls[c].attempt)
  /\ Sends(c, "json", NextAttempt(calls[c].attempt), projected, breaker', spent')

GaveUp(c, cost) ==
  /\ Metered(c, cost)
  /\ calls[c].kind = "json"
  /\ ~Retriable(calls[c].attempt)
  /\ Ends(c, "invalid")

(* embed_texts: nothing is metered. *)
Embedded(c) ==
  /\ GatewayAnswers(c)
  /\ calls[c].kind = "embed"
  /\ Ends(c, "answered")
  /\ UNCHANGED spent

(* The request fails: an outage (no connection, a timeout, a 5xx) counts,   *)
(* a refusal of this request (a 4xx) does not.                             *)
AfterError(b, outage) == IF outage THEN AfterFailure(b) ELSE b

GatewayFails(c, outage) ==
  /\ calls[c].pc = "flight"
  /\ breaker' = AfterError(breaker, outage)
  /\ outages' = IF outage THEN Counted(outages) ELSE outages
  /\ Ends(c, "failed")
  /\ UNCHANGED spent

Tick ==
  /\ breaker' = AfterTick(breaker)
  /\ UNCHANGED <<calls, spent, outages>>

-----------------------------------------------------------------------------
Responds(c) ==
  \/ \E cost \in Charges :
       \/ Overcharged(c, cost)
       \/ Answered(c, cost)
       \/ \E projected \in Charges : Retried(c, cost, projected)
       \/ GaveUp(c, cost)
  \/ Embedded(c)

Returns(c) == Responds(c) \/ \E outage \in BOOLEAN : GatewayFails(c, outage)

Next ==
  \/ \E c \in Calls, kind \in Kinds, projected \in Charges :
       Submit(c, kind, projected)
  \/ \E c \in Calls : Returns(c)
  \/ Tick

Spec == Init /\ [][Next]_vars

-----------------------------------------------------------------------------
(* PROPERTIES *)

(* A tripped breaker means that the gateway failed Threshold times without  *)
(* an answer in between, whatever order the answers of concurrent calls    *)
(* come in: bad requests (4xx), refusals and isolated failures never trip  *)
(* it for the other callers (_is_breaker_failure, record_success).         *)
TrippedOnlyByOutage == Tripped(breaker) => outages >= Threshold

(* The cap is checked when a request goes out and the cost is added when    *)
(* its answer comes, so concurrent calls pass it; but only those that were *)
(* in flight, by at most one ceiling each (_call_gateway, complete).       *)
OvershootIsBounded ==
  JobCap > 0 => spent < JobCap + MaxCost * Cardinality(Calls)

-----------------------------------------------------------------------------
(* Fairness.  Every request returns (llm_timeout_s), time passes, and the   *)
(* gateway is not down for ever: of the requests that keep going out, some *)
(* are answered.  For the recovery of the breaker, callers also keep       *)
(* coming: the sweep's period is twice the cooldown, so an affordable call *)
(* arrives again and again when the cooldown is over.                      *)
Arrives(c) ==
  \E projected \in Charges : Submit(c, "chat", projected) /\ calls'[c].pc = "flight"

Fairness ==
  /\ \A c \in Calls : WF_vars(Returns(c)) /\ SF_vars(Responds(c))
  /\ \A c \in Calls : SF_vars(Arrives(c))
  /\ WF_vars(Tick)

LiveSpec == Spec /\ Fairness

(* Every call returns: complete_json does not ask the model for ever.       *)
CallReturns == \A c \in Calls : calls[c].pc = "flight" ~> calls[c].pc # "flight"

(* A tripped breaker closes again, unless the cap has ended the job: the    *)
(* cooldown ends although calls that were sent before it keep failing, a   *)
(* trial goes out and its answer closes the breaker.                       *)
BreakerRecovers == Tripped(breaker) ~> (~Tripped(breaker) \/ CapReached(spent))

=============================================================================
