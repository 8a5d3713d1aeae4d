------------------------------- MODULE CostRollup -------------------------------
(***************************************************************************)
(* The dashboard's cost series: the agents' running totals of LLM spend,   *)
(* the loop that snapshots them every minute (_snapshot_loop), the raw     *)
(* tables cost_events and cost_model_events it appends to, the daily       *)
(* figures of cost_daily it folds them into, and the loop that rederives   *)
(* the daily figures and prunes the raw tables (_prune_loop).              *)
(*                                                                         *)
(* The pool is in autocommit, so each statement is a step of its own, and  *)
(* a crash or an error leaves those before it done.  A raw table is kept   *)
(* as the highest figure it holds for an agent, a series and a day: the    *)
(* roll-up takes the maximum and nothing else reads it; a figure of zero is *)
(* like no row to it.  Heartbeat rows are not kept: recording one passes   *)
(* time before the next row is stamped, and may fail like any statement.   *)
(***************************************************************************)
EXTENDS Integers

CONSTANTS
  FleetSize,   \* the agents of the registry other than the dashboard itself
  Spenders,    \* those that call a model: the others' total stays at zero
  Models,      \* the keys of cost_by_model_today; Total, when it is blank
  Reportable,  \* the figures that come under them: the agent's word
  Retention,   \* retention_days
  MaxCost,     \* bound on an agent's running total
  MaxDay,      \* bound on the days that pass
  MaxFaults    \* bound on restarts, failed statements and failed boots

Agents == 1..FleetSize   \* in the order of the registry
Days == 0..MaxDay

(* A snapshot is stamped at most a day after it was read, and a prune ends  *)
(* at most a day after its roll-up: three days keep them apart.            *)
RollupAssumption ==
  /\ Spenders \subseteq Agents
  /\ Reportable \subseteq Nat
  /\ FleetSize \in Nat /\ MaxCost \in Nat /\ MaxDay \in Nat /\ MaxFaults \in Nat
  /\ Retention \in Nat /\ Retention >= 3

ASSUME RollupAssumption

Total == ""              \* _AGENT_TOTAL_MODEL
Unknown == "unknown"     \* _UNKNOWN_MODEL

Series == {Total, Unknown} \cup Models
Figure == (0..MaxCost) \cup Reportable   \* 0 also where there is no row
Junk == -1                               \* an answer that float() refuses
Rows == Agents \X Series \X Days

(* What a round has still to write: an agent's total, then one row per     *)
(* model.                                                                  *)
Write == [agent : Agents, kind : {"total", "model"},
          series : Series, figure : Figure \cup {Junk}]
Appended == {w \in Write : w.figure # Junk}
Rounds == [todo : SUBSET Write, folding : SUBSET Appended, when : Days, began : Days]

VARIABLES
  day,      \* today, in UTC
  spent,    \* [Agents -> 0..MaxCost], usage.cost_usd of each agent's process
  proc,     \* the dashboard's process: down, up, or up without its loops
  snap,     \* the round of _snapshot_loop; asleep when nothing is left
  prune,    \* the pass of _prune_loop
  raw,      \* [Rows -> Figure], cost_events (Total) and cost_model_events
  daily,    \* [Rows -> Figure], cost_daily
  faults,
  written,  \* history: the highest figure ever appended to raw
  peak      \* history: each agent's highest total of today, and of yesterday

tables == <<raw, daily, written>>
vars == <<day, spent, proc, snap, prune, raw, daily, faults, written, peak>>

Passes == {"sleep", "totals", "models", "events", "model_events"}

TypeOK ==
  /\ day \in Days
  /\ spent \in [Agents -> 0..MaxCost]
  /\ proc \in {"down", "up", "no_loops"}
  /\ snap \in Rounds
  /\ prune \in [pc : Passes, began : Days]
  /\ raw \in [Rows -> Figure]
  /\ daily \in [Rows -> Figure]
  /\ faults \in 0..MaxFaults
  /\ written \in [Rows -> Figure]
  /\ peak \in [Agents -> [today : 0..MaxCost, yesterday : 0..MaxCost]]

Asleep == [todo |-> {}, folding |-> {}, when |-> 0, began |-> 0]
PruneAsleep == [pc |-> "sleep", began |-> 0]

Init ==
  /\ day = 0
  /\ spent = [a \in Agents |-> 0]
  /\ proc = "down"
  /\ snap = Asleep
  /\ prune = PruneAsleep
  /\ raw = [r \in Rows |-> 0]
  /\ daily = [r \in Rows |-> 0]
  /\ faults = 0
  /\ written = [r \in Rows |-> 0]
  /\ peak = [a \in Agents |-> [today |-> 0, yesterday |-> 0]]

Greatest(m, n) == IF m >= n THEN m ELSE n

-----------------------------------------------------------------------------
(* Mutated forms of the definitions below, each a plausible bug. *)

LabelAsReported(m) == m

FirstPassPrunes(d) == [pc |-> "events", began |-> d]

RederivedTotalsOnly(S) ==
  daily' = [r \in Rows |->
              IF r[2] \in S \cap {Total} THEN Greatest(daily[r], raw[r]) ELSE daily[r]]

-----------------------------------------------------------------------------
Fault == faults < MaxFaults /\ faults' = faults + 1

(* The agents.  A total is that of the process: it grows, a restart resets *)
(* it, and midnight does not (set_llm_usage).                              *)

Spend(a) ==
  /\ a \in Spenders
  /\ spent[a] < MaxCost
  /\ spent' = [spent EXCEPT ![a] = @ + 1]
  /\ peak' = [peak EXCEPT ![a].today = Greatest(@, spent[a] + 1)]
  /\ UNCHANGED <<day, proc, snap, prune, tables, faults>>

Restart(a) ==
  /\ Fault
  /\ spent' = [spent EXCEPT ![a] = 0]
  /\ UNCHANGED <<day, proc, snap, prune, tables, peak>>

-----------------------------------------------------------------------------
(* The process.  lifespan starts the loops only if the pool opened within  *)
(* its timeout and the schema was created; otherwise the process serves    *)
(* without them as long as it lives.                                       *)

Boot ==
  /\ proc = "down"
  /\ proc' = "up"
  /\ snap' = Asleep
  /\ prune' = PruneAsleep
  /\ UNCHANGED <<day, spent, tables, faults, peak>>

BootWithoutDatabase ==
  /\ proc = "down"
  /\ Fault
  /\ proc' = "no_loops"
  /\ UNCHANGED <<day, spent, snap, prune, tables, peak>>

(* A crash, or a shutdown that cancels the loops. *)
Crash ==
  /\ proc # "down"
  /\ Fault
  /\ proc' = "down"
  /\ snap' = Asleep
  /\ prune' = PruneAsleep
  /\ UNCHANGED <<day, spent, tables, peak>>

-----------------------------------------------------------------------------
(* _snapshot_loop: one round. *)

SnapAsleep == snap.todo = {} /\ snap.folding = {}

(* A blank key would be the sentinel of the agent's total. *)
Label(m) == IF m = Total THEN Unknown ELSE m

(* The keys under which a splits its total. *)
Keys(a) == IF a \in Spenders THEN Models ELSE {}

(* A plausible bug in the definition below. *)
WritesSplitInstead(a, total, split) ==
  {[agent |-> a, kind |-> "model", series |-> Label(m), figure |-> split[m]] : m \in Keys(a)}

(* What the round writes of an agent that answers: its running total and a *)
(* figure for each key, which need not add up to the total.  A zero is no  *)
(* row, and what comes after junk is never reached (FigureRaises).         *)
Writes(a, total, split) ==
  {[agent |-> a, kind |-> "total", series |-> Total, figure |-> n] : n \in {total} \ {0}} \cup
  {[agent |-> a, kind |-> "model", series |-> Label(m), figure |-> split[m]] :
     m \in IF total = Junk THEN {} ELSE Keys(a)}

(* /metrics.json is untrusted: any figure in it may be junk. *)
Splits == [Models -> Reportable \cup {Junk}]

(* agents_health(refresh=True) and the tiles it returns: nothing of the    *)
(* cost of agents not heard, junk for the total of the garbled.  A round   *)
(* with nothing to write leaves no trace, nor does one whose fan-out raises *)
(* on an answer that is no object.                                         *)
Fetch ==
  /\ proc = "up"
  /\ SnapAsleep
  /\ UNCHANGED <<day, spent, proc, prune, tables, faults, peak>>
  /\ \E heard \in SUBSET Agents, split \in [Agents -> Splits] :
       \E garbled \in SUBSET heard :
         snap' =
           [todo |-> UNION {Writes(a, IF a \in garbled THEN Junk ELSE spent[a], split[a]) :
                              a \in heard},
            folding |-> {}, when |-> day, began |-> day]
  /\ snap'.todo # {}

Before(w, x) ==
  w.agent < x.agent \/ (w.agent = x.agent /\ w.kind = "total" /\ x.kind = "model")

IsNext(w) ==
  /\ snap.folding = {}
  /\ w \in snap.todo
  /\ \A x \in snap.todo : ~Before(x, w)

(* The round goes on after w.  record_cost_by_model stamps the rows of one *)
(* call with one time, every other call takes its own.                     *)
SameCall(w, rest) == w.kind = "model" /\ \E x \in rest : x.agent = w.agent

Proceed(w) ==
  LET rest == snap.todo \ {w} IN
  snap' = IF rest = {} THEN Asleep
          ELSE [snap EXCEPT !.todo = rest, !.folding = {},
                            !.when = IF SameCall(w, rest) THEN @ ELSE day]

RowOf(w, d) == <<w.agent, w.series, d>>

(* The INSERT into cost_events or cost_model_events.  Its row was stamped   *)
(* after the last statement and the agent's heartbeat, on that day or      *)
(* today.                                                                  *)
InsertRaw(w) ==
  /\ IsNext(w)
  /\ w.figure # Junk
  /\ \E d \in snap.when..day :
       /\ snap' = [snap EXCEPT !.folding = {w}, !.when = d]
       /\ raw' = [raw EXCEPT ![RowOf(w, d)] = Greatest(@, w.figure)]
       /\ written' = [written EXCEPT ![RowOf(w, d)] = Greatest(@, w.figure)]
  /\ UNCHANGED <<day, spent, proc, prune, daily, faults, peak>>

(* _ROLLUP_UPSERT. *)
Folded(old, new) == Greatest(old, new)

Fold(w) ==
  /\ w \in snap.folding
  /\ daily' = [daily EXCEPT ![RowOf(w, snap.when)] = Folded(@, w.figure)]
  /\ Proceed(w)
  /\ UNCHANGED <<day, spent, proc, prune, raw, faults, written, peak>>

(* float() raises on a figure that is no number, and with it the one try   *)
(* around all agents: what is left of this agent and those after it waits  *)
(* for another round.  No fault: an agent may answer so for ever.  A        *)
(* heartbeat's figure that the INSERT refuses ends the round the same way. *)
FigureRaises(w) ==
  /\ IsNext(w)
  /\ w.figure = Junk
  /\ snap' = Asleep
  /\ UNCHANGED <<day, spent, proc, prune, tables, faults, peak>>

(* The fan-out or a statement fails: the rest of the round is dropped. *)
SnapshotFails ==
  /\ proc = "up"
  /\ ~SnapAsleep
  /\ Fault
  /\ snap' = Asleep
  /\ UNCHANGED <<day, spent, proc, prune, tables, peak>>

-----------------------------------------------------------------------------
(* _prune_loop: one pass. *)

StartedPass(d) == [pc |-> "totals", began |-> d]

StartPrune ==
  /\ proc = "up"
  /\ prune.pc = "sleep"
  /\ prune' = StartedPass(day)
  /\ UNCHANGED <<day, spent, proc, snap, tables, faults, peak>>

PassGoes(from, to) ==
  /\ prune.pc = from
  /\ prune' = [prune EXCEPT !.pc = to]

(* A statement of rollup_cost_daily, over the rows of these series. *)
Rederived(S) ==
  daily' = [r \in Rows |-> IF r[2] \in S THEN Greatest(daily[r], raw[r]) ELSE daily[r]]

RollupTotals ==
  /\ PassGoes("totals", "models")
  /\ Rederived({Total})
  /\ UNCHANGED <<day, spent, proc, snap, raw, faults, written, peak>>

RollupModels ==
  /\ PassGoes("models", "events")
  /\ Rederived(Series \ {Total})
  /\ UNCHANGED <<day, spent, proc, snap, raw, faults, written, peak>>

(* A DELETE of prune_old_data.  The horizon lies inside a day: of that     *)
(* day's rows some go and some stay, and the highest may be any of them.   *)
Pruned(S, kept) ==
  /\ kept \in [Agents \X S -> Figure]
  /\ \A r \in Agents \X S : day >= Retention => kept[r] <= raw[<<r[1], r[2], day - Retention>>]
  /\ raw' = [r \in Rows |->
       IF r[2] \notin S \/ r[3] > day - Retention THEN raw[r]
       ELSE IF r[3] < day - Retention THEN 0
       ELSE kept[<<r[1], r[2]>>]]

PruneEvents ==
  /\ PassGoes("events", "model_events")
  /\ \E kept \in [Agents \X {Total} -> Figure] : Pruned({Total}, kept)
  /\ UNCHANGED <<day, spent, proc, snap, daily, faults, written, peak>>

PruneModelEvents ==
  /\ prune.pc = "model_events"
  /\ prune' = PruneAsleep
  /\ \E kept \in [Agents \X (Series \ {Total}) -> Figure] : Pruned(Series \ {Total}, kept)
  /\ UNCHANGED <<day, spent, proc, snap, daily, faults, written, peak>>

PruneFails ==
  /\ prune.pc # "sleep"
  /\ Fault
  /\ prune' = PruneAsleep
  /\ UNCHANGED <<day, spent, proc, snap, tables, peak>>

-----------------------------------------------------------------------------
(* A round, and a pass, see at most one midnight. *)
Midnight ==
  /\ day < MaxDay
  /\ SnapAsleep \/ snap.began = day
  /\ prune.pc = "sleep" \/ prune.began = day
  /\ day' = day + 1
  /\ peak' = [a \in Agents |-> [today |-> spent[a], yesterday |-> peak[a].today]]
  /\ UNCHANGED <<spent, proc, snap, prune, tables, faults>>

SnapshotStep ==
  \/ Fetch
  \/ \E w \in snap.todo : InsertRaw(w) \/ FigureRaises(w)
  \/ \E w \in snap.folding : Fold(w)

PruneStep ==
  \/ StartPrune
  \/ RollupTotals \/ RollupModels
  \/ PruneEvents \/ PruneModelEvents

Next ==
  \/ \E a \in Agents : Spend(a) \/ Restart(a)
  \/ Boot \/ BootWithoutDatabase \/ Crash
  \/ SnapshotStep \/ SnapshotFails
  \/ PruneStep \/ PruneFails
  \/ Midnight

Spec == Init /\ [][Next]_vars

-----------------------------------------------------------------------------
(* PROPERTIES *)

(* Pruning loses no cost: a figure that was ever appended is still in the  *)
(* raw table, or the daily figure has it, whatever statement failed in     *)
(* between (rollup_cost_daily runs before prune_old_data, the retention).  *)
NothingPrunedUncounted ==
  \A r \in Rows : written[r] <= raw[r] \/ written[r] <= daily[r]

(* A snapshot of an agent's total is filed under a day on which the agent  *)
(* had that total, or under the day after when the round ran into          *)
(* midnight: no model figure gets there, whatever key it comes under       *)
(* (record_cost_by_model), and no older day is touched (_snapshot_loop).   *)
FiledUnderItsDay ==
  [][\A a \in Agents, d \in Days : raw'[<<a, Total, d>>] > raw[<<a, Total, d>>] =>
       \/ d = day /\ raw'[<<a, Total, d>>] <= Greatest(peak[a].today, peak[a].yesterday)
       \/ d = day - 1 /\ raw'[<<a, Total, d>>] <= peak[a].yesterday]_vars

-----------------------------------------------------------------------------
(* Fairness.  The scheduling: the loops run again and again, their          *)
(* statements return or raise, and a stopped process is started again.     *)
Scheduling ==
  /\ WF_vars(SnapshotStep)
  /\ WF_vars(PruneStep)
  /\ WF_vars(Boot)

(* What is asked of the agents: a, asked every minute, has now and then a   *)
(* round in which it answers with a number, and no agent before it in the  *)
(* registry answers with junk.                                             *)
Reaches(a) ==
  /\ Fetch
  /\ \E w \in snap'.todo :
       /\ w.agent = a /\ w.kind = "total" /\ w.figure # Junk
       /\ \A x \in snap'.todo : Before(x, w) => x.figure # Junk

Fairness == Scheduling /\ \A a \in Spenders : SF_vars(Reaches(a))

LiveSpec == Spec /\ Fairness

(* A cost that an agent goes on reporting gets into the daily figures,     *)
(* whatever else it or another agent reports in between, if the dashboard's *)
(* process keeps its loops and the agent has now and then a round of its   *)
(* own (Reaches): an error or a junk figure ends a round, never the loop   *)
(* (_snapshot_loop).  An agent that always answers with junk keeps the      *)
(* costs of all those after it out; that is what Reaches excludes.         *)
CostIsSeen ==
  \A a \in Spenders, v \in 1..MaxCost :
    <>[](proc = "up" /\ spent[a] >= v) => <>(\E d \in Days : daily[<<a, Total, d>>] >= v)

(* What a crash or an error left out of the daily figures between the two  *)
(* statements of a snapshot, the next passes put there.                    *)
Repaired == \A r \in Rows : written[r] <= daily[r]

RepairConverges == <>[](proc = "up") => []<>Repaired

=============================================================================
