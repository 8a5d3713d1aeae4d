----------------------------- MODULE CircuitBreaker -----------------------------
(***************************************************************************)
(* _CircuitBreaker of agentkit/llm.py: the failure count and the opening   *)
(* time that the chat and the embedding calls of one client share.         *)
(*                                                                         *)
(* The opening time is kept as its age, which saturates at the cooldown,   *)
(* and the count saturates at the threshold: check and record_failure      *)
(* compare them with nothing else.                                         *)
(***************************************************************************)
EXTENDS Integers

CONSTANTS
  Threshold,  \* llm_breaker_threshold; 0 disables the breaker
  Cooldown    \* llm_breaker_cooldown_s, in clock ticks

ASSUME BreakerAssumption == Threshold \in Nat /\ Cooldown \in Nat

VARIABLE breaker   \* [failures, opened]

NotOpened == -1

BreakerTypeOK ==
  breaker \in [failures : 0..Threshold, opened : (0..Cooldown) \cup {NotOpened}]

Closed == [failures |-> 0, opened |-> NotOpened]

Tripped(b) == b.opened # NotOpened

(* Mutated forms of the definitions below, each a plausible bug.           *)

AfterSuccessKeepsCount(b) == [b EXCEPT !.opened = NotOpened]

AdmitsOnlyClosed(b) == ~Tripped(b)

-----------------------------------------------------------------------------
(* check: refuses while the breaker is open and inside its cooldown.       *)
Admits(b) ==
  \/ Threshold = 0
  \/ ~Tripped(b)
  \/ b.opened >= Cooldown

(* record_success. *)
AfterSuccess(b) == IF Threshold = 0 THEN b ELSE Closed

(* record_failure: at the threshold, and past it, the cooldown starts afresh. *)
Counted(failures) == IF failures < Threshold THEN failures + 1 ELSE failures

AfterFailure(b) ==
  IF Threshold = 0 THEN b
  ELSE [failures |-> Counted(b.failures),
        opened |-> IF b.failures + 1 >= Threshold THEN 0 ELSE b.opened]

(* Time passes by one tick. *)
AfterTick(b) ==
  IF Tripped(b) /\ b.opened < Cooldown THEN [b EXCEPT !.opened = @ + 1] ELSE b

=============================================================================
