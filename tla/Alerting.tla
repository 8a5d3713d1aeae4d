------------------------------- MODULE Alerting -------------------------------
(***************************************************************************)
(* What the monitoring agent promises about each problem, without callers, *)
(* statements or time: the life of an incident, as people see it.          *)
(*                                                                         *)
(*   none    no incident is recorded                                       *)
(*   fresh   recorded, nobody knows yet, and somebody is at work on it     *)
(*   told    recorded, and a page has arrived                              *)
(*   owed    a page was given up, and the incident is flagged for another  *)
(*   closed  resolved                                                      *)
(*   lost    recorded, nobody knows and nobody is at work on it            *)
(*                                                                         *)
(* Only a fault loses an incident, only a page (or an operator) settles a  *)
(* debt, and nothing but a resolved incident is forgotten.                 *)
(***************************************************************************)
EXTENDS Naturals

CONSTANTS
  Keys,       \* one per distinct problem
  MaxFaults   \* bound on the faults

VARIABLES
  phase,   \* [Keys -> Phase]
  acked,   \* [Keys -> BOOLEAN], a page has arrived and its sender has not settled
  faults   \* faults so far

vars == <<phase, acked, faults>>

Phase == {"none", "fresh", "told", "owed", "closed", "lost"}

TypeOK ==
  /\ phase \in [Keys -> Phase]
  /\ acked \in [Keys -> BOOLEAN]
  /\ faults \in 0..MaxFaults

Init ==
  /\ phase = [k \in Keys |-> "none"]
  /\ acked = [k \in Keys |-> FALSE]
  /\ faults = 0

-----------------------------------------------------------------------------
Becomes(k, p) == phase' = [phase EXCEPT ![k] = p]

Open(k) ==
  /\ phase[k] = "none"
  /\ Becomes(k, "fresh")
  /\ UNCHANGED <<acked, faults>>

(* A page arrives.  It settles no debt yet: its sender does. *)
Page(k) ==
  /\ phase[k] # "none"
  /\ Becomes(k, IF phase[k] \in {"fresh", "lost"} THEN "told" ELSE phase[k])
  /\ \E a \in {acked[k], TRUE} : acked' = [acked EXCEPT ![k] = a]
  /\ UNCHANGED faults

(* A page is given up, also of an incident that is resolved meanwhile. *)
GiveUp(k) ==
  /\ phase[k] # "none"
  /\ Becomes(k, "owed")
  /\ UNCHANGED <<acked, faults>>

(* The sender of a page that arrived settles whatever debt there is. *)
Settle(k) ==
  /\ acked[k]
  /\ Becomes(k, IF phase[k] = "owed" THEN "told" ELSE phase[k])
  /\ \E a \in BOOLEAN : acked' = [acked EXCEPT ![k] = a]
  /\ UNCHANGED faults

Resolve(k) ==
  /\ phase[k] \in {"fresh", "told", "owed", "lost"}
  /\ Becomes(k, "closed")
  /\ UNCHANGED <<acked, faults>>

(* The problem comes back: people know it, and may not be told again. *)
Reopen(k) ==
  /\ phase[k] = "closed"
  /\ Becomes(k, "told")
  /\ UNCHANGED <<acked, faults>>

InPhase(p) == {k \in Keys : phase[k] = p}

Forget ==
  /\ \E S \in SUBSET InPhase("closed") :
       phase' = [k \in Keys |-> IF k \in S THEN "none" ELSE phase[k]]
  /\ UNCHANGED <<acked, faults>>

(* Whoever was at work on some incidents is gone. *)
Fault ==
  /\ faults < MaxFaults
  /\ faults' = faults + 1
  /\ \E S \in SUBSET InPhase("fresh") :
       phase' = [k \in Keys |-> IF k \in S THEN "lost" ELSE phase[k]]
  /\ \E S \in SUBSET Keys : acked' = [k \in Keys |-> k \in S /\ acked[k]]

Next ==
  \/ \E k \in Keys :
       Open(k) \/ Page(k) \/ GiveUp(k) \/ Settle(k) \/ Resolve(k) \/ Reopen(k)
  \/ Forget
  \/ Fault

Spec == Init /\ [][Next]_vars

=============================================================================
