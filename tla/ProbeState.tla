------------------------------ MODULE ProbeState ------------------------------
(***************************************************************************)
(* The table `agent_probe_state` (monitoring_agent/store.py), the memory    *)
(* of the meta sweep from one sweep to the next, and the statements that   *)
(* ProbeStateStore runs on it.  There is one row per target, and a target  *)
(* is of one kind: each column is used by the rows of one kind only.       *)
(*                                                                         *)
(* record_endpoint is one upsert that reads and writes the row under its   *)
(* lock: one step.  record_restart and record_depth are one statement with *)
(* two parts: its WITH part reads from the snapshot of the statement, its  *)
(* upsert waits for the row and writes over whatever is there by then.     *)
(* Two such statements at once can take their snapshots before either      *)
(* writes, so the two parts are two operators here.                        *)
(***************************************************************************)
EXTENDS Integers

CONSTANTS
  Agents,       \* agent_endpoints
  Containers,   \* watched_containers
  Queues,       \* watched_queues
  MaxReading,   \* bound on restart counts and queue depths
  MaxStreak     \* streaks saturate here, above every threshold

Targets == Agents \cup Containers \cup Queues

ASSUME ProbeAssumption ==
  /\ Agents \cap Containers = {} /\ Agents \cap Queues = {}
  /\ Containers \cap Queues = {}
  /\ MaxReading \in Nat
  /\ MaxStreak \in Nat

VARIABLES
  streak,    \* [Agents -> 0..MaxStreak], fail_streak
  restart,   \* [Containers -> Reading], last_restart
  backlog,   \* [Queues -> Reading], last_depth
  stale      \* the targets whose row is older than the retention

table == <<streak, restart, backlog, stale>>

Never == -1                           \* no row, or NULL
Reading == (0..MaxReading) \cup {Never}

ProbeTypeOK ==
  /\ streak \in [Agents -> 0..MaxStreak]
  /\ restart \in [Containers -> Reading]
  /\ backlog \in [Queues -> Reading]
  /\ stale \in SUBSET Targets

ProbeInit ==
  /\ streak = [a \in Agents |-> 0]
  /\ restart = [c \in Containers |-> Never]
  /\ backlog = [q \in Queues |-> Never]
  /\ stale = {}

-----------------------------------------------------------------------------
(* Mutated form of the definition below, a plausible bug. *)

NextStreakOverwrites(n, ok) == IF ok THEN 0 ELSE 1

-----------------------------------------------------------------------------
(* The CASE of record_endpoint. *)
NextStreak(n, ok) ==
  IF ok THEN 0 ELSE IF n < MaxStreak THEN n + 1 ELSE MaxStreak

RecordEndpoint(a, ok) ==
  /\ streak' = [streak EXCEPT ![a] = NextStreak(@, ok)]
  /\ stale' = stale \ {a}
  /\ UNCHANGED <<restart, backlog>>

(* The upserts of record_restart and record_depth. *)
RecordRestart(c, n) ==
  /\ restart' = [restart EXCEPT ![c] = n]
  /\ stale' = stale \ {c}
  /\ UNCHANGED <<streak, backlog>>

RecordDepth(q, n) ==
  /\ backlog' = [backlog EXCEPT ![q] = n]
  /\ stale' = stale \ {q}
  /\ UNCHANGED <<streak, restart>>

(* The DELETE of the rows that no sweep has updated within the retention.  *)
PruneProbes ==
  /\ streak' = [a \in Agents |-> IF a \in stale THEN 0 ELSE streak[a]]
  /\ restart' = [c \in Containers |-> IF c \in stale THEN Never ELSE restart[c]]
  /\ backlog' = [q \in Queues |-> IF q \in stale THEN Never ELSE backlog[q]]
  /\ stale' = {}

=============================================================================
