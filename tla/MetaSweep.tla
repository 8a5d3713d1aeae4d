------------------------------- MODULE MetaSweep -------------------------------
(***************************************************************************)
(* The meta sweep of the monitoring agent (monitoring_agent/scheduler.py   *)
(* and collectors.py): it probes every agent, then inspects the containers, *)
(* then scrapes the queues, records each reading in agent_probe_state, and  *)
(* triages the signals it has collected.  The scheduler runs one at a time, *)
(* but POST /meta-sweep runs another beside it.                            *)
(*                                                                         *)
(* A signal is kept as its target: agent-down, container-crashloop and     *)
(* queue-backlog are the signals that depend on an earlier sweep.  The     *)
(* others follow from one reading alone and are left out, with the         *)
(* heartbeats and the host's memory.                                       *)
(***************************************************************************)
EXTENDS ProbeState

CONSTANTS
  Sweeps,                \* the scheduled sweep and the manual ones
  FailStreakToAlert,     \* fail_streak_to_alert
  RestartLoopThreshold,  \* restart_loop_threshold
  QueueDepthThreshold,   \* queue_depth_threshold
  NoTarget,              \* the target of a sweep that is between two statements
  MaxFaults              \* bound on crashes, failed statements and long outages

ASSUME MetaAssumption ==
  /\ NoTarget \notin Targets
  /\ FailStreakToAlert \in 0..MaxStreak
  /\ RestartLoopThreshold \in Nat \ {0}
  /\ QueueDepthThreshold \in Nat
  /\ MaxFaults \in Nat

VARIABLES
  up,         \* [Agents -> BOOLEAN], the agents as they are
  restarts,   \* [Containers -> 0..MaxReading], RestartCount
  depth,      \* [Queues -> 0..MaxReading], messages_ready
  sweeps,     \* [Sweeps -> Sweep], the local state of each meta sweep
  faults,
  seen,       \* history: the highest restart count recorded so far
  jumped,     \* history: a recorded count exceeded `seen` by the threshold, and
              \* no sweep has triaged it yet, or lost it to a triage that
              \* raised; "raced" if the row came to be between the two parts
              \* of the statement
  restarted,  \* history: the containers whose count has changed since the start
  zeroed      \* history: the containers that were created anew, or given a count
              \* of 0 by an inspection that failed

world == <<up, restarts, depth>>
history == <<seen, jumped, restarted, zeroed>>
vars == <<table, world, sweeps, faults, history>>

Sweep == [pc      : {"idle", "probe", "endpoint", "inspect", "restart",
                     "scrape", "depths", "depth", "triage"},
          todo    : SUBSET (Agents \cup Containers),  \* not yet probed
          target  : Targets \cup {NoTarget},          \* of the statement under way
          ok      : BOOLEAN,                          \* what its probe found
          got     : [Containers \cup Queues -> Reading], \* read, not yet recorded
          prev    : Reading,                          \* what its snapshot showed
          signals : SUBSET Targets]

Nothing == [t \in Containers \cup Queues |-> Never]

IdleSweep == [pc |-> "idle", todo |-> {}, target |-> NoTarget, ok |-> FALSE,
              got |-> Nothing, prev |-> Never, signals |-> {}]

(* Between two statements a sweep has no target, during one it has. *)
AtStatement(sweep) ==
  /\ sweep.pc = "endpoint" => sweep.target \in Agents
  /\ sweep.pc = "restart" => sweep.target \in Containers
  /\ sweep.pc = "depth" => sweep.target \in Queues
  /\ sweep.pc \notin {"endpoint", "restart", "depth"} => sweep.target = NoTarget

TypeOK ==
  /\ ProbeTypeOK
  /\ up \in [Agents -> BOOLEAN]
  /\ restarts \in [Containers -> 0..MaxReading]
  /\ depth \in [Queues -> 0..MaxReading]
  /\ sweeps \in [Sweeps -> Sweep]
  /\ \A s \in Sweeps : AtStatement(sweeps[s])
  /\ faults \in 0..MaxFaults
  /\ seen \in [Containers -> Reading]
  /\ jumped \in [Containers -> {"no", "yes", "raced"}]
  /\ restarted \in SUBSET Containers
  /\ zeroed \in SUBSET Containers

(* The world is as it is when the agent starts for the first time. *)
Init ==
  /\ ProbeInit
  /\ up \in [Agents -> BOOLEAN]
  /\ restarts \in [Containers -> 0..MaxReading]
  /\ depth \in [Queues -> 0..MaxReading]
  /\ sweeps = [s \in Sweeps |-> IdleSweep]
  /\ faults = 0
  /\ seen = [c \in Containers |-> Never]
  /\ jumped = [c \in Containers |-> "no"]
  /\ restarted = {}
  /\ zeroed = {}

-----------------------------------------------------------------------------
(* Mutated forms of the definitions below, each a plausible bug.           *)

CrashLoopsFromNull(prev, n) ==
  n - (IF prev = Never THEN 0 ELSE prev) >= RestartLoopThreshold

CrashLoopsPast(prev, n) == prev # Never /\ n - prev > RestartLoopThreshold

BacksUpGrowing(prev, n) == n > QueueDepthThreshold /\ (prev = Never \/ n > prev)

AfterFailureKeepsTarget(sweep) ==
  IF sweep.pc = "triage" THEN IdleSweep
  ELSE [sweep EXCEPT !.pc = IF sweep.pc = "restart" THEN "scrape" ELSE "triage",
                     !.got = Nothing]

-----------------------------------------------------------------------------
(* endpoint_to_signals, with the streak that includes this probe. *)
IsDown(ok, n) == ~ok /\ n >= FailStreakToAlert

(* container_to_signals: the delta from the reading before. *)
CrashLoops(prev, n) == prev # Never /\ n - prev >= RestartLoopThreshold

(* queue_to_signal: over the threshold, and not draining. *)
BacksUp(prev, n) == n > QueueDepthThreshold /\ (prev = Never \/ n >= prev)

Signals(signals, t, raised) == IF raised THEN signals \cup {t} ELSE signals

Set(s, sweep) == sweeps' = [sweeps EXCEPT ![s] = sweep]

-----------------------------------------------------------------------------
Start(s) ==
  /\ sweeps[s].pc = "idle"
  /\ Set(s, [IdleSweep EXCEPT !.pc = "probe", !.todo = Agents])
  /\ UNCHANGED <<table, world, faults, history>>

(* probe_agent_endpoint: a probe of an agent that is up may fail too. *)
ProbeAgent(s, a, ok) ==
  /\ sweeps[s].pc = "probe" /\ a \in sweeps[s].todo
  /\ ok => up[a]
  /\ Set(s, [sweeps[s] EXCEPT !.pc = "endpoint", !.target = a, !.ok = ok])
  /\ UNCHANGED <<table, world, faults, history>>

Probed(sweep) ==
  [sweep EXCEPT !.pc = "probe", !.todo = @ \ {sweep.target},
                !.target = NoTarget, !.ok = FALSE]

RecordProbe(s) ==
  LET a == sweeps[s].target
      ok == sweeps[s].ok
      down == IsDown(ok, NextStreak(streak[a], ok))
  IN
  /\ sweeps[s].pc = "endpoint"
  /\ RecordEndpoint(a, ok)
  /\ Set(s, [Probed(sweeps[s]) EXCEPT !.signals = Signals(@, a, down)])
  /\ UNCHANGED <<world, faults, history>>

(* collect_container_states: the listing, then one inspection after the    *)
(* other; without the listing there are no states.                         *)
ListContainers(s, listed) ==
  /\ sweeps[s].pc = "probe" /\ sweeps[s].todo = {}
  /\ Set(s, [sweeps[s] EXCEPT !.pc = IF listed THEN "inspect" ELSE "scrape",
                              !.todo = IF listed THEN Containers ELSE {}])
  /\ UNCHANGED <<table, world, faults, history>>

(* A container that is missing, or whose inspection fails, is given a       *)
(* restart count of 0.                                                     *)
Inspect(s, c, works) ==
  /\ sweeps[s].pc = "inspect" /\ c \in sweeps[s].todo
  /\ Set(s, [sweeps[s] EXCEPT !.todo = @ \ {c},
                              !.got[c] = IF works THEN restarts[c] ELSE 0])
  /\ zeroed' = IF works THEN zeroed ELSE zeroed \cup {c}
  /\ UNCHANGED <<table, world, faults, seen, jumped, restarted>>

InHand(s) == {t \in Containers \cup Queues : sweeps[s].got[t] # Never}

(* record_restart, its snapshot ... *)
SnapshotRestart(s, c) ==
  /\ sweeps[s].pc = "inspect" /\ sweeps[s].todo = {} /\ c \in InHand(s)
  /\ Set(s, [sweeps[s] EXCEPT !.pc = "restart", !.target = c, !.prev = restart[c]])
  /\ UNCHANGED <<table, world, faults, history>>

(* ... and its upsert, after which the delta is taken. *)
Recorded(sweep, pc, raised) ==
  [sweep EXCEPT !.pc = pc, !.target = NoTarget, !.prev = Never,
                !.got[sweep.target] = Never,
                !.signals = Signals(@, sweep.target, raised)]

Higher(m, n) == IF n > m THEN n ELSE m

Jumped(c, prev, n) ==
  IF restart[c] = Never \/ n - seen[c] < RestartLoopThreshold THEN jumped[c]
  ELSE IF prev = Never THEN "raced" ELSE "yes"

WriteRestart(s) ==
  LET c == sweeps[s].target
      n == sweeps[s].got[c]
      prev == sweeps[s].prev
  IN
  /\ sweeps[s].pc = "restart"
  /\ RecordRestart(c, n)
  /\ Set(s, Recorded(sweeps[s], "inspect", CrashLoops(prev, n)))
  /\ seen' = [seen EXCEPT ![c] = Higher(@, n)]
  /\ jumped' = [jumped EXCEPT ![c] = Jumped(c, prev, n)]
  /\ UNCHANGED <<world, faults, restarted, zeroed>>

(* collect_queue_depths: one request, which finds some of the queues. *)
ScrapeQueues(s, found) ==
  /\ \/ sweeps[s].pc = "scrape"
     \/ sweeps[s].pc = "inspect" /\ sweeps[s].todo = {} /\ InHand(s) = {}
  /\ Set(s, [sweeps[s] EXCEPT
               !.pc = "depths",
               !.got = [t \in Containers \cup Queues |->
                          IF t \in found THEN depth[t] ELSE Never]])
  /\ UNCHANGED <<table, world, faults, history>>

SnapshotDepth(s, q) ==
  /\ sweeps[s].pc = "depths" /\ q \in InHand(s)
  /\ Set(s, [sweeps[s] EXCEPT !.pc = "depth", !.target = q, !.prev = backlog[q]])
  /\ UNCHANGED <<table, world, faults, history>>

WriteDepth(s) ==
  LET q == sweeps[s].target
      n == sweeps[s].got[q]
  IN
  /\ sweeps[s].pc = "depth"
  /\ RecordDepth(q, n)
  /\ Set(s, Recorded(sweeps[s], "depths", BacksUp(sweeps[s].prev, n)))
  /\ UNCHANGED <<world, faults, history>>

Collect(s) ==
  /\ sweeps[s].pc = "depths" /\ InHand(s) = {}
  /\ Set(s, [sweeps[s] EXCEPT !.pc = "triage"])
  /\ UNCHANGED <<table, world, faults, history>>

(* run_meta_sweep: the signals are triaged one after the other. *)
TriageSignal(s, t) ==
  /\ sweeps[s].pc = "triage" /\ t \in sweeps[s].signals
  /\ Set(s, [sweeps[s] EXCEPT !.signals = @ \ {t}])
  /\ jumped' = [c \in Containers |-> IF c = t THEN "no" ELSE jumped[c]]
  /\ UNCHANGED <<table, world, faults, seen, restarted, zeroed>>

(* A triage may raise again and again without a fault of the system, on an  *)
(* answer of the model that classify or the INSERT cannot take: nothing    *)
(* catches it, and the sweep ends with all the signals that it still had.  *)
TriageRaises(s) ==
  /\ sweeps[s].pc = "triage" /\ sweeps[s].signals # {}
  /\ Set(s, IdleSweep)
  /\ jumped' = [c \in Containers |->
                  IF c \in sweeps[s].signals THEN "no" ELSE jumped[c]]
  /\ UNCHANGED <<table, world, faults, seen, restarted, zeroed>>

Return(s) ==
  /\ sweeps[s].pc = "triage" /\ sweeps[s].signals = {}
  /\ Set(s, IdleSweep)
  /\ UNCHANGED <<table, world, faults, history>>

-----------------------------------------------------------------------------
(* A statement raises.  Of an agent, only this agent is skipped; of a       *)
(* container or a queue, the readings in hand are dropped with it.  A triage *)
(* that raises ends the sweep.                                             *)
AfterFailure(sweep) ==
  IF sweep.pc = "endpoint" THEN Probed(sweep)
  ELSE IF sweep.pc = "triage" THEN IdleSweep
  ELSE [sweep EXCEPT !.pc = IF sweep.pc = "restart" THEN "scrape" ELSE "triage",
                     !.target = NoTarget, !.prev = Never, !.got = Nothing]

StatementFails(s) ==
  /\ faults < MaxFaults
  /\ \/ sweeps[s].pc \in {"endpoint", "restart", "depth"}
     \/ sweeps[s].pc = "triage" /\ sweeps[s].signals # {}
  /\ Set(s, AfterFailure(sweeps[s]))
  /\ faults' = faults + 1
  /\ UNCHANGED <<table, world, history>>

(* It may also raise after it has taken effect, and only its answer is lost. *)
AnswerLost(s) ==
  LET t == sweeps[s].target
      n == sweeps[s].got[t]
  IN
  /\ faults < MaxFaults
  /\ \/ /\ sweeps[s].pc = "endpoint"
        /\ RecordEndpoint(t, sweeps[s].ok)
        /\ UNCHANGED seen
     \/ /\ sweeps[s].pc = "restart"
        /\ RecordRestart(t, n)
        /\ seen' = [seen EXCEPT ![t] = Higher(@, n)]
     \/ /\ sweeps[s].pc = "depth"
        /\ RecordDepth(t, n)
        /\ UNCHANGED seen
  /\ Set(s, AfterFailure(sweeps[s]))
  /\ faults' = faults + 1
  /\ UNCHANGED <<world, jumped, restarted, zeroed>>

Crash ==
  /\ faults < MaxFaults
  /\ sweeps' = [s \in Sweeps |-> IdleSweep]
  /\ faults' = faults + 1
  /\ UNCHANGED <<table, world, history>>

(* For longer than the retention no reading could be recorded.  Sweeps last *)
(* for minutes, so none is under way at the end.                           *)
LongOutage ==
  /\ faults < MaxFaults
  /\ \A s \in Sweeps : sweeps[s].pc = "idle"
  /\ stale' = Targets
  /\ faults' = faults + 1
  /\ UNCHANGED <<streak, restart, backlog, world, sweeps, history>>

Prune ==
  /\ PruneProbes
  /\ UNCHANGED <<world, sweeps, faults, history>>

-----------------------------------------------------------------------------
(* What is watched changes by itself. *)
Flip(a) ==
  /\ up' = [up EXCEPT ![a] = ~@]
  /\ UNCHANGED <<table, restarts, depth, sweeps, faults, history>>

Restart(c) ==
  /\ restarts[c] < MaxReading
  /\ restarts' = [restarts EXCEPT ![c] = @ + 1]
  /\ restarted' = restarted \cup {c}
  /\ UNCHANGED <<table, up, depth, sweeps, faults, seen, jumped, zeroed>>

(* A container that is created anew counts from 0. *)
Recreate(c) ==
  /\ restarts[c] > 0
  /\ restarts' = [restarts EXCEPT ![c] = 0]
  /\ restarted' = restarted \cup {c}
  /\ zeroed' = zeroed \cup {c}
  /\ UNCHANGED <<table, up, depth, sweeps, faults, seen, jumped>>

Fill(q, n) ==
  /\ depth' = [depth EXCEPT ![q] = n]
  /\ UNCHANGED <<table, up, restarts, sweeps, faults, history>>

-----------------------------------------------------------------------------
SweepStep(s) ==
  \/ \E a \in Agents, ok \in BOOLEAN : ProbeAgent(s, a, ok)
  \/ RecordProbe(s)
  \/ \E listed \in BOOLEAN : ListContainers(s, listed)
  \/ \E c \in Containers, works \in BOOLEAN : Inspect(s, c, works)
  \/ \E c \in Containers : SnapshotRestart(s, c)
  \/ WriteRestart(s)
  \/ \E found \in SUBSET Queues : ScrapeQueues(s, found)
  \/ \E q \in Queues : SnapshotDepth(s, q)
  \/ WriteDepth(s)
  \/ Collect(s)
  \/ \E t \in Targets : TriageSignal(s, t)
  \/ TriageRaises(s)
  \/ Return(s)

WorldStep ==
  \/ \E a \in Agents : Flip(a)
  \/ \E c \in Containers : Restart(c) \/ Recreate(c)
  \/ \E q \in Queues, n \in 0..MaxReading : Fill(q, n)

Next ==
  \/ \E s \in Sweeps : Start(s) \/ SweepStep(s)
  \/ \E s \in Sweeps : StatementFails(s) \/ AnswerLost(s)
  \/ Crash
  \/ LongOutage
  \/ Prune
  \/ WorldStep

Spec == Init /\ [][Next]_vars

-----------------------------------------------------------------------------
(* PROPERTIES *)

Carried(t) == \E s \in Sweeps : t \in sweeps[s].signals

(* A count that exceeds by the threshold every count recorded before it is  *)
(* a crash loop that a sweep holds until it is triaged (run_meta_sweep),   *)
(* as long as nothing has failed: no overlap of sweeps, late record, failed *)
(* inspection or prune loses it.  Left out are two ways in which the delta *)
(* is lost: the race for a new row, whose two statements both find no      *)
(* earlier count, and a triage that raises while the signal waits.         *)
CrashLoopIsCarried ==
  \A c \in Containers : (faults = 0 /\ jumped[c] = "yes") => Carried(c)

(* A crash loop is only signalled (container_to_signals) of a container    *)
(* whose count has changed since the agent first started, or of which an   *)
(* inspection failed: not of one whose count was high to begin with, even  *)
(* if its row is pruned or its readings are recorded in the wrong order.   *)
CrashLoopOnlyIfRestarted ==
  \A c \in Containers : Carried(c) => c \in restarted \cup zeroed

=============================================================================
