---------------------------- MODULE LLMClientProof ----------------------------
(***************************************************************************)
(* Proofs about LLMClient, for every number of tasks, every threshold,     *)
(* cooldown, ceiling, cap and set of charges.                              *)
(***************************************************************************)
EXTENDS LLMClient, FiniteSetTheorems, TLAPS

-----------------------------------------------------------------------------
(* The breaker. *)

(* What each operation makes of a breaker, with the gateway's failures     *)
(* since its last answer beside it.                                        *)
Breaker == [failures : 0..Threshold, opened : (0..Cooldown) \cup {NotOpened}]

Fits(b, n) == b.failures = n /\ (Tripped(b) => n >= Threshold)

LEMMA ClosedFits == Closed \in Breaker /\ Fits(Closed, 0)
  BY BreakerAssumption DEF Closed, Breaker, Fits, Tripped, NotOpened

LEMMA SuccessFits ==
  ASSUME NEW b \in Breaker, NEW n \in 0..Threshold, Fits(b, n)
  PROVE  AfterSuccess(b) \in Breaker /\ Fits(AfterSuccess(b), 0)
<1>1. CASE Threshold = 0
  BY <1>1 DEF AfterSuccess, Fits, Breaker
<1>2. CASE Threshold # 0
  BY <1>2, ClosedFits DEF AfterSuccess
<1> QED
  BY <1>1, <1>2

LEMMA FailureFits ==
  ASSUME NEW b \in Breaker, NEW n \in 0..Threshold, Fits(b, n)
  PROVE  /\ AfterFailure(b) \in Breaker /\ Counted(n) \in 0..Threshold
         /\ Fits(AfterFailure(b), Counted(n))
<1>1. CASE Threshold = 0
  BY <1>1 DEF AfterFailure, Counted, Fits, Breaker
<1>2. CASE Threshold # 0
  <2>1. Counted(n) \in 0..Threshold
    BY BreakerAssumption DEF Counted
  <2>2. b.failures = n /\ AfterFailure(b).failures = Counted(n)
    BY <1>2 DEF AfterFailure, Fits
  <2>3. AfterFailure(b).opened = IF n + 1 >= Threshold THEN 0 ELSE b.opened
    BY <1>2, <2>2 DEF AfterFailure
  <2>4. AfterFailure(b) \in Breaker
    BY <1>2, <2>1, <2>2, BreakerAssumption DEF AfterFailure, Breaker
  <2>5. n + 1 >= Threshold => Counted(n) >= Threshold
    BY BreakerAssumption DEF Counted
  <2>6. n >= Threshold => Counted(n) >= Threshold
    BY <2>5, BreakerAssumption
  <2> QED
    BY <2>1, <2>2, <2>3, <2>4, <2>5, <2>6 DEF Fits, Tripped
<1> QED
  BY <1>1, <1>2

LEMMA TickFits ==
  ASSUME NEW b \in Breaker, NEW n \in 0..Threshold, Fits(b, n)
  PROVE  AfterTick(b) \in Breaker /\ Fits(AfterTick(b), n)
<1>1. CASE Tripped(b) /\ b.opened < Cooldown
  <2>1. AfterTick(b) = [b EXCEPT !.opened = b.opened + 1]
    BY <1>1 DEF AfterTick
  <2>2. b.opened + 1 \in 0..Cooldown
    BY <1>1, BreakerAssumption DEF Breaker, Tripped
  <2> QED
    BY <1>1, <2>1, <2>2 DEF Breaker, Fits, Tripped
<1>2. CASE ~(Tripped(b) /\ b.opened < Cooldown)
  BY <1>2 DEF AfterTick
<1> QED
  BY <1>1, <1>2

-----------------------------------------------------------------------------
(* Types. *)

LEMMA EndedCall ==
  ASSUME NEW outcome \in Ended
  PROVE  /\ [IdleCall EXCEPT !.pc = outcome] \in Call
         /\ [IdleCall EXCEPT !.pc = outcome].pc = outcome
<1>1. IdleCall \in Call
  BY ClientAssumption DEF IdleCall, Call, Kinds, Ended
<1> QED
  BY <1>1 DEF Call

LEMMA EndsType ==
  ASSUME calls \in [Calls -> Call], NEW c \in Calls, NEW outcome \in Ended,
         Ends(c, outcome)
  PROVE  calls' \in [Calls -> Call]
  BY EndedCall DEF Ends

LEMMA SendsType ==
  ASSUME calls \in [Calls -> Call], NEW c \in Calls, NEW kind \in Kinds,
         NEW n \in 0..MaxRetries, NEW projected, NEW b, NEW total,
         Sends(c, kind, n, projected, b, total)
  PROVE  calls' \in [Calls -> Call]
<1>1. CASE Gate(kind, projected, b, total) = "flight"
  <2> DEFINE sent == [pc |-> "flight", kind |-> kind, attempt |-> n]
  <2>1. sent \in Call
    BY DEF Call, Tripped
  <2>2. calls' = [calls EXCEPT ![c] = sent]
    BY <1>1 DEF Sends
  <2> QED
    BY <2>1, <2>2
<1>2. CASE Gate(kind, projected, b, total) # "flight"
  <2>1. Gate(kind, projected, b, total) \in Ended
    BY <1>2 DEF Gate, Ended
  <2> QED
    BY <1>2, <2>1, EndsType DEF Sends
<1> QED
  BY <1>1, <1>2

BreakerInv == Fits(breaker, outages)

LEMMA TypeStep ==
  ASSUME TypeOK, BreakerInv, [Next]_vars
  PROVE  TypeOK' /\ BreakerInv'
<1> USE DEF TypeOK, BreakerTypeOK, BreakerInv
<1>0. breaker \in Breaker /\ outages \in 0..Threshold /\ 0 \in 0..Threshold
  BY BreakerAssumption DEF Breaker
<1>1. ASSUME NEW c \in Calls, NEW kind \in Kinds, NEW projected \in Charges,
             Submit(c, kind, projected)
      PROVE  TypeOK' /\ BreakerInv'
  <2>1. calls' \in [Calls -> Call]
    BY <1>1, SendsType, ClientAssumption DEF Submit
  <2> QED
    BY <1>1, <2>1 DEF Submit, Fits, Tripped
<1>2. ASSUME NEW c \in Calls, GatewayAnswers(c)
      PROVE  breaker' \in Breaker /\ outages' \in 0..Threshold /\ BreakerInv'
  BY <1>0, <1>2, SuccessFits DEF GatewayAnswers, Fits, Tripped
<1>3. ASSUME NEW c \in Calls, NEW cost \in Charges,
             Overcharged(c, cost) \/ Answered(c, cost) \/ GaveUp(c, cost)
      PROVE  TypeOK' /\ BreakerInv'
  <2>1. GatewayAnswers(c) /\ (spent' = spent \/ spent' = spent + cost)
    BY <1>3 DEF Overcharged, Answered, GaveUp, Metered
  <2>2. \E outcome \in Ended : Ends(c, outcome)
    BY <1>3 DEF Overcharged, Answered, GaveUp, Ended
  <2>3. calls' \in [Calls -> Call]
    BY <2>2, EndsType
  <2>4. spent' \in Nat
    BY <2>1, ClientAssumption
  <2> QED
    BY <1>2, <2>1, <2>3, <2>4 DEF Breaker
<1>4. ASSUME NEW c \in Calls, NEW cost \in Charges, NEW projected \in Charges,
             Retried(c, cost, projected)
      PROVE  TypeOK' /\ BreakerInv'
  <2>1. GatewayAnswers(c) /\ spent' = spent + cost
    BY <1>4 DEF Retried, Metered
  <2>2. NextAttempt(calls[c].attempt) \in 0..MaxRetries
    BY <1>4, ClientAssumption DEF Retried, Retriable, NextAttempt, Call
  <2>3. calls' \in [Calls -> Call]
    BY <1>4, <2>2, SendsType DEF Retried, Kinds
  <2>4. spent' \in Nat
    BY <2>1, ClientAssumption
  <2> QED
    BY <1>2, <2>1, <2>3, <2>4 DEF Breaker
<1>5. ASSUME NEW c \in Calls, Embedded(c)
      PROVE  TypeOK' /\ BreakerInv'
  <2>1. calls' \in [Calls -> Call]
    BY <1>5, EndsType DEF Embedded, Ended
  <2> QED
    BY <1>2, <1>5, <2>1 DEF Embedded, Breaker
<1>6. ASSUME NEW c \in Calls, NEW outage \in BOOLEAN, GatewayFails(c, outage)
      PROVE  TypeOK' /\ BreakerInv'
  <2>1. calls' \in [Calls -> Call] /\ spent' \in Nat
    BY <1>6, EndsType DEF GatewayFails, Ended
  <2>2. breaker' \in Breaker /\ outages' \in 0..Threshold /\ Fits(breaker', outages')
    <3>1. CASE outage
      BY <1>0, <1>6, <3>1, FailureFits DEF GatewayFails, AfterError
    <3>2. CASE ~outage
      BY <1>0, <1>6, <3>2 DEF GatewayFails, AfterError
    <3> QED
      BY <3>1, <3>2
  <2> QED
    BY <2>1, <2>2 DEF Breaker, Fits, Tripped
<1>7. CASE Tick
  <2>1. breaker' \in Breaker /\ Fits(breaker', outages')
    BY <1>0, <1>7, TickFits DEF Tick
  <2> QED
    BY <1>7, <2>1 DEF Tick, Breaker, Fits, Tripped
<1>8. CASE UNCHANGED vars
  BY <1>8 DEF vars, Fits, Tripped
<1> QED
  BY <1>1, <1>3, <1>4, <1>5, <1>6, <1>7, <1>8 DEF Next, Returns, Responds

LEMMA InitTypes == Init => TypeOK /\ BreakerInv
<1>1. IdleCall \in Call
  BY ClientAssumption DEF IdleCall, Call, Kinds, Ended
<1> QED
  BY <1>1, ClosedFits, BreakerAssumption
  DEF Init, TypeOK, BreakerTypeOK, BreakerInv, Breaker

(* The type invariant of LLMClient, for every value of the constants.      *)
THEOREM TypeCorrect == Spec => []TypeOK
  BY InitTypes, TypeStep, PTL DEF Spec

(* The breaker only trips after Threshold gateway failures in a row: no     *)
(* order of concurrent answers, refusals and bad requests trips it.        *)
THEOREM BreakerIsFair == Spec => []TrippedOnlyByOutage
<1>1. BreakerInv => TrippedOnlyByOutage
  BY DEF BreakerInv, Fits, TrippedOnlyByOutage
<1> QED
  BY <1>1, InitTypes, TypeStep, PTL DEF Spec

-----------------------------------------------------------------------------
(* The cap. *)

(* The requests in flight that will add to the usage. *)
Paying == {c \in Calls : calls[c].pc = "flight" /\ calls[c].kind # "embed"}

(* What the client has spent and may yet spend on what is in flight.       *)
SpendInv ==
  JobCap > 0 =>
    spent + MaxCost * Cardinality(Paying) < JobCap + MaxCost * Cardinality(Calls)

LEMMA ProductIsMonotonic ==
  ASSUME NEW m \in Nat, NEW i \in Nat, NEW j \in Nat, i <= j
  PROVE  m * i <= m * j /\ m * i \in Nat
  OBVIOUS

LEMMA PayingIsFinite ==
  /\ IsFiniteSet(Paying) /\ Cardinality(Paying) \in Nat
  /\ Cardinality(Calls) \in Nat /\ Cardinality(Paying) <= Cardinality(Calls)
<1>1. Paying \subseteq Calls
  BY DEF Paying
<1> QED
  BY <1>1, ClientAssumption, FS_Subset, FS_CardinalityType

(* A request that passed the cap: what was spent by then is below it, and   *)
(* no more requests than there are tasks can be in flight.                 *)
LEMMA Admitted ==
  ASSUME NEW s \in Nat, NEW p \in Nat, p <= Cardinality(Calls),
         JobCap > 0, ~CapReached(s)
  PROVE  s + MaxCost * p < JobCap + MaxCost * Cardinality(Calls)
<1>1. s < JobCap
  BY ClientAssumption DEF CapReached
<1>2. MaxCost * p <= MaxCost * Cardinality(Calls) /\ MaxCost * p \in Nat
      /\ MaxCost * Cardinality(Calls) \in Nat
  BY ProductIsMonotonic, PayingIsFinite, ClientAssumption
<1> QED
  BY <1>1, <1>2, ClientAssumption

(* A request that is answered leaves the room that its cost takes.         *)
LEMMA Released ==
  ASSUME NEW s \in Nat, NEW p \in Nat, NEW q \in Nat, NEW cost \in Nat,
         cost <= MaxCost, q + 1 <= p,
         s + MaxCost * p < JobCap + MaxCost * Cardinality(Calls)
  PROVE  s + cost + MaxCost * q < JobCap + MaxCost * Cardinality(Calls)
<1>1. MaxCost * (q + 1) <= MaxCost * p
  BY ProductIsMonotonic, ClientAssumption
<1>2. MaxCost * (q + 1) = MaxCost * q + MaxCost
  BY ClientAssumption
<1>3. MaxCost * q \in Nat /\ MaxCost * p \in Nat /\ MaxCost * Cardinality(Calls) \in Nat
  BY ProductIsMonotonic, PayingIsFinite, ClientAssumption
<1> QED
  BY <1>1, <1>2, <1>3, ClientAssumption

(* The requests in flight after c has ended, or has gone out.              *)
LEMMA EndsPaying ==
  ASSUME TypeOK, NEW c \in Calls, NEW outcome \in Ended, Ends(c, outcome)
  PROVE  Paying' = Paying \ {c}
<1>1. \A d \in Calls : d # c => calls'[d] = calls[d]
  BY DEF Ends, TypeOK
<1>2. calls'[c].pc # "flight"
  BY EndedCall DEF Ends, TypeOK, Ended
<1> QED
  BY <1>1, <1>2 DEF Paying

LEMMA SpendStep ==
  ASSUME TypeOK, BreakerInv, SpendInv, [Next]_vars
  PROVE  SpendInv'
<1> SUFFICES ASSUME JobCap > 0
             PROVE  SpendInv'
  BY DEF SpendInv
<1> DEFINE Room(s, p) == s + MaxCost * p < JobCap + MaxCost * Cardinality(Calls)
<1>0. /\ Room(spent, Cardinality(Paying)) /\ spent \in Nat /\ spent' \in Nat
      /\ TypeOK'
      /\ IsFiniteSet(Paying) /\ Cardinality(Paying) \in Nat
      /\ Cardinality(Paying') \in Nat /\ IsFiniteSet(Paying')
      /\ Cardinality(Paying') <= Cardinality(Calls)
  <2>1. IsFiniteSet(Paying) /\ Cardinality(Paying) \in Nat
    BY PayingIsFinite
  <2>2. /\ Cardinality(Paying') \in Nat /\ IsFiniteSet(Paying')
        /\ Cardinality(Paying') <= Cardinality(Calls)
    <3>1. Paying' \subseteq Calls
      BY DEF Paying
    <3> QED
      BY <3>1, ClientAssumption, FS_Subset, FS_CardinalityType
  <2> QED
    BY <2>1, <2>2, TypeStep DEF SpendInv, TypeOK
<1> SUFFICES Room(spent', Cardinality(Paying'))
  BY DEF SpendInv
<1>1. ASSUME Paying' \subseteq Paying, spent' = spent
      PROVE  Room(spent', Cardinality(Paying'))
  <2>1. Cardinality(Paying') <= Cardinality(Paying)
    BY <1>0, <1>1, FS_Subset
  <2>2. /\ MaxCost * Cardinality(Paying') <= MaxCost * Cardinality(Paying)
        /\ MaxCost * Cardinality(Paying') \in Nat
        /\ MaxCost * Cardinality(Paying) \in Nat
        /\ MaxCost * Cardinality(Calls) \in Nat
    BY <1>0, <2>1, ProductIsMonotonic, PayingIsFinite, ClientAssumption
  <2> QED
    BY <1>0, <1>1, <2>2, ClientAssumption
<1>2. ASSUME ~CapReached(spent')
      PROVE  Room(spent', Cardinality(Paying'))
  BY <1>0, <1>2, Admitted
(* A metered request is out of flight when its cost is in the usage.       *)
<1>3. ASSUME NEW c \in Paying, NEW cost \in Charges, cost <= MaxCost,
             spent' = spent + cost, Paying' = Paying \ {c}
      PROVE  Room(spent', Cardinality(Paying'))
  <2>1. Cardinality(Paying') + 1 <= Cardinality(Paying)
    BY <1>0, <1>3, FS_RemoveElement
  <2>2. cost \in Nat
    BY <1>3, ClientAssumption
  <2> QED
    BY <1>0, <1>3, <2>1, <2>2, Released
<1>4. ASSUME NEW c \in Calls, NEW kind \in Kinds, NEW projected \in Charges,
             Submit(c, kind, projected)
      PROVE  Room(spent', Cardinality(Paying'))
  <2>1. spent' = spent /\ calls[c].pc # "flight"
    BY <1>4 DEF Submit, Ended
  <2>2. CASE Gate(kind, projected, breaker, spent) = "flight"
    <3>1. CASE kind # "embed"
      BY <1>2, <2>1, <2>2, <3>1 DEF Gate
    <3>2. CASE kind = "embed"
      <4>1. calls' = [calls EXCEPT ![c] =
              [pc |-> "flight", kind |-> kind, attempt |-> 0]]
        BY <1>4, <2>2 DEF Submit, Sends
      <4>2. Paying' \subseteq Paying
        BY <3>2, <4>1 DEF Paying, TypeOK
      <4> QED
        BY <1>1, <2>1, <4>2
    <3> QED
      BY <3>1, <3>2
  <2>3. CASE Gate(kind, projected, breaker, spent) # "flight"
    <3>1. Gate(kind, projected, breaker, spent) \in Ended
      BY <2>3 DEF Gate, Ended
    <3>2. Paying' = Paying \ {c}
      BY <1>4, <2>3, <3>1, EndsPaying DEF Submit, Sends
    <3> QED
      BY <1>1, <2>1, <3>2
  <2> QED
    BY <2>2, <2>3
<1>5. ASSUME NEW c \in Calls, NEW outcome \in Ended, Ends(c, outcome), spent' = spent
      PROVE  Room(spent', Cardinality(Paying'))
  BY <1>1, <1>5, EndsPaying
<1>6. ASSUME NEW c \in Calls, NEW cost \in Charges, NEW outcome \in Ended,
             Metered(c, cost), Ends(c, outcome)
      PROVE  Room(spent', Cardinality(Paying'))
  <2>1. c \in Paying /\ cost <= MaxCost /\ spent' = spent + cost
    BY <1>6 DEF Metered, GatewayAnswers, Paying
  <2>2. Paying' = Paying \ {c}
    BY <1>6, EndsPaying
  <2> QED
    BY <1>3, <2>1, <2>2
<1>7. ASSUME NEW c \in Calls, NEW cost \in Charges, NEW projected \in Charges,
             Retried(c, cost, projected)
      PROVE  Room(spent', Cardinality(Paying'))
  <2>1. CASE Gate("json", projected, breaker', spent') = "flight"
    BY <1>2, <2>1 DEF Gate
  <2>2. CASE Gate("json", projected, breaker', spent') # "flight"
    <3>1. Gate("json", projected, breaker', spent') \in Ended
      BY <2>2 DEF Gate, Ended
    <3> QED
      BY <1>6, <1>7, <2>2, <3>1 DEF Retried, Sends
  <2> QED
    BY <2>1, <2>2
<1>8. CASE UNCHANGED <<calls, spent>>
  BY <1>1, <1>8 DEF Paying
<1> QED
  BY <1>4, <1>5, <1>6, <1>7, <1>8
  DEF Next, Returns, Responds, Overcharged, Answered, GaveUp, Embedded,
      GatewayFails, Tick, vars, Ended

(* Concurrent calls overshoot the job's cap by less than one ceiling per    *)
(* task, whatever they were projected to cost.                             *)
THEOREM CapIsNearlyKept == Spec => []OvershootIsBounded
<1>1. Init => SpendInv
  <2>1. Init => Cardinality(Paying) = 0
    <3>1. Init => Paying = {}
      BY DEF Init, Paying, IdleCall
    <3> QED
      BY <3>1, FS_EmptySet
  <2>2. Init => SpendInv
    BY <2>1, PayingIsFinite, ProductIsMonotonic, ClientAssumption DEF Init, SpendInv
  <2> QED
    BY <2>2
<1>2. TypeOK /\ BreakerInv /\ SpendInv /\ [Next]_vars
      => (TypeOK /\ BreakerInv /\ SpendInv)'
  BY TypeStep, SpendStep
<1>3. TypeOK /\ SpendInv => OvershootIsBounded
  <2>1. MaxCost * Cardinality(Paying) \in Nat /\ MaxCost * Cardinality(Calls) \in Nat
    BY PayingIsFinite, ProductIsMonotonic, ClientAssumption
  <2> QED
    BY <2>1, ClientAssumption DEF SpendInv, OvershootIsBounded, TypeOK
<1> QED
  BY <1>1, <1>2, <1>3, InitTypes, PTL DEF Spec

=============================================================================
