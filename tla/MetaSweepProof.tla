---------------------------- MODULE MetaSweepProof ----------------------------
(***************************************************************************)
(* Proofs about MetaSweep, for every set of targets and sweeps, every       *)
(* threshold and every bound.                                              *)
(***************************************************************************)
EXTENDS MetaSweep, TLAPS

-----------------------------------------------------------------------------
(* Types. *)

LEMMA NothingIsGot == Nothing \in [Containers \cup Queues -> Reading]
BY DEF Nothing, Reading

LEMMA IdleSweepIsSweep == IdleSweep \in Sweep /\ AtStatement(IdleSweep)
BY NothingIsGot DEF IdleSweep, Sweep, Reading, AtStatement

(* One sweep moves, the others stay. *)
LEMMA SetSweep ==
  ASSUME sweeps \in [Sweeps -> Sweep], \A q \in Sweeps : AtStatement(sweeps[q]),
         NEW s \in Sweeps, NEW new \in Sweep, AtStatement(new), Set(s, new)
  PROVE  /\ sweeps' \in [Sweeps -> Sweep]
         /\ \A q \in Sweeps : AtStatement(sweeps'[q])
BY DEF Set

(* What the helpers make of a sweep. *)
LEMMA ProbedIsSweep ==
  ASSUME NEW sweep \in Sweep
  PROVE  Probed(sweep) \in Sweep /\ AtStatement(Probed(sweep))
BY DEF Probed, Sweep, AtStatement

LEMMA SignalsAreTargets ==
  ASSUME NEW S \in SUBSET Targets, NEW t \in Targets, NEW raised
  PROVE  Signals(S, t, raised) \in SUBSET Targets
BY DEF Signals

LEMMA RecordedIsSweep ==
  ASSUME NEW sweep \in Sweep, sweep.target \in Containers \cup Queues,
         NEW pc \in {"inspect", "depths"}, NEW raised
  PROVE  /\ Recorded(sweep, pc, raised) \in Sweep
         /\ AtStatement(Recorded(sweep, pc, raised))
<1>1. /\ sweep.target \in Targets /\ sweep.signals \in SUBSET Targets
      /\ sweep.got \in [Containers \cup Queues -> Reading]
  BY DEF Sweep, Targets
<1>2. Signals(sweep.signals, sweep.target, raised) \in SUBSET Targets
  BY <1>1, SignalsAreTargets
<1>3. [sweep.got EXCEPT ![sweep.target] = Never] \in [Containers \cup Queues -> Reading]
  BY <1>1 DEF Reading
<1> QED
  BY <1>2, <1>3 DEF Recorded, Sweep, AtStatement, Reading

LEMMA FailedIsSweep ==
  ASSUME NEW sweep \in Sweep,
         sweep.pc \in {"endpoint", "restart", "depth", "triage"}
  PROVE  AfterFailure(sweep) \in Sweep /\ AtStatement(AfterFailure(sweep))
<1>1. CASE sweep.pc = "endpoint"
  BY <1>1, ProbedIsSweep DEF AfterFailure
<1>2. CASE sweep.pc = "triage"
  BY <1>2, IdleSweepIsSweep DEF AfterFailure
<1>3. CASE sweep.pc \in {"restart", "depth"}
  BY <1>3, NothingIsGot DEF AfterFailure, Sweep, AtStatement, Reading
<1> QED
  BY <1>1, <1>2, <1>3

(* Every step of a sweep leaves it a sweep. *)
LEMMA SweepTypes ==
  ASSUME TypeOK, NEW s \in Sweeps,
         Start(s) \/ SweepStep(s) \/ StatementFails(s) \/ AnswerLost(s)
  PROVE  /\ sweeps' \in [Sweeps -> Sweep]
         /\ \A q \in Sweeps : AtStatement(sweeps'[q])
<1> USE DEF TypeOK
<1>0. sweeps[s] \in Sweep /\ AtStatement(sweeps[s])
  OBVIOUS
<1> SUFFICES \E new \in Sweep : AtStatement(new) /\ Set(s, new)
  BY SetSweep
<1>1. CASE Start(s)
  <2>1. [IdleSweep EXCEPT !.pc = "probe", !.todo = Agents] \in Sweep
    BY IdleSweepIsSweep DEF Sweep
  <2> QED
    BY <1>1, <2>1 DEF Start, IdleSweep, AtStatement
<1>2. ASSUME NEW a \in Agents, NEW ok \in BOOLEAN, ProbeAgent(s, a, ok)
      PROVE  \E new \in Sweep : AtStatement(new) /\ Set(s, new)
  BY <1>0, <1>2 DEF ProbeAgent, Sweep, AtStatement, Targets
<1>3. CASE RecordProbe(s)
  <2> DEFINE a == sweeps[s].target
             ok == sweeps[s].ok
             down == IsDown(ok, NextStreak(streak[a], ok))
             new == [Probed(sweeps[s]) EXCEPT !.signals = Signals(@, a, down)]
  <2>1. Probed(sweeps[s]) \in Sweep /\ AtStatement(Probed(sweeps[s]))
    BY <1>0, ProbedIsSweep
  <2>2. a \in Targets
    BY <1>0, <1>3 DEF RecordProbe, AtStatement, Targets
  <2>3. Set(s, new)
    BY <1>3 DEF RecordProbe
  <2> HIDE DEF down, a, ok
  <2>4. Signals(Probed(sweeps[s]).signals, a, down) \in SUBSET Targets
    BY <2>1, <2>2, SignalsAreTargets DEF Sweep
  <2>5. new \in Sweep /\ AtStatement(new)
    BY <2>1, <2>4 DEF Sweep, AtStatement
  <2> QED
    BY <2>3, <2>5
<1>4. ASSUME NEW listed \in BOOLEAN, ListContainers(s, listed)
      PROVE  \E new \in Sweep : AtStatement(new) /\ Set(s, new)
  BY <1>0, <1>4 DEF ListContainers, Sweep, AtStatement
<1>5. ASSUME NEW c \in Containers, NEW works \in BOOLEAN, Inspect(s, c, works)
      PROVE  \E new \in Sweep : AtStatement(new) /\ Set(s, new)
  <2> DEFINE n == IF works THEN restarts[c] ELSE 0
             got == [sweeps[s].got EXCEPT ![c] = n]
  <2>1. n \in Reading
    BY ProbeAssumption DEF Reading
  <2> HIDE DEF n
  <2>2. got \in [Containers \cup Queues -> Reading]
    BY <1>0, <2>1 DEF Sweep
  <2>3. Set(s, [sweeps[s] EXCEPT !.todo = sweeps[s].todo \ {c}, !.got = got])
    BY <1>0, <1>5 DEF Inspect, Set, Sweep, n
  <2> HIDE DEF got
  <2> QED
    BY <1>0, <1>5, <2>2, <2>3 DEF Inspect, Sweep, AtStatement
<1>6. ASSUME NEW c \in Containers, SnapshotRestart(s, c)
      PROVE  \E new \in Sweep : AtStatement(new) /\ Set(s, new)
  BY <1>0, <1>6 DEF SnapshotRestart, Sweep, AtStatement, Targets, ProbeTypeOK
<1>7. CASE WriteRestart(s)
  BY <1>0, <1>7, RecordedIsSweep DEF WriteRestart, AtStatement
<1>8. ASSUME NEW found \in SUBSET Queues, ScrapeQueues(s, found)
      PROVE  \E new \in Sweep : AtStatement(new) /\ Set(s, new)
  <2> DEFINE got == [t \in Containers \cup Queues |->
                      IF t \in found THEN depth[t] ELSE Never]
  <2>1. got \in [Containers \cup Queues -> Reading]
    BY DEF Reading
  <2>2. Set(s, [sweeps[s] EXCEPT !.pc = "depths", !.got = got])
    BY <1>8 DEF ScrapeQueues
  <2> HIDE DEF got
  <2> QED
    BY <1>0, <1>8, <2>1, <2>2 DEF ScrapeQueues, Sweep, AtStatement
<1>9. ASSUME NEW q \in Queues, SnapshotDepth(s, q)
      PROVE  \E new \in Sweep : AtStatement(new) /\ Set(s, new)
  BY <1>0, <1>9 DEF SnapshotDepth, Sweep, AtStatement, Targets, ProbeTypeOK
<1>10. CASE WriteDepth(s)
  BY <1>0, <1>10, RecordedIsSweep DEF WriteDepth, AtStatement
<1>11. CASE Collect(s)
  BY <1>0, <1>11 DEF Collect, Sweep, AtStatement
<1>12. ASSUME NEW t \in Targets, TriageSignal(s, t)
       PROVE  \E new \in Sweep : AtStatement(new) /\ Set(s, new)
  BY <1>0, <1>12 DEF TriageSignal, Sweep, AtStatement
<1>13. CASE Return(s)
  BY <1>13, IdleSweepIsSweep DEF Return
<1>14. CASE StatementFails(s) \/ AnswerLost(s)
  BY <1>0, <1>14, FailedIsSweep DEF StatementFails, AnswerLost
<1>15. CASE TriageRaises(s)
  BY <1>15, IdleSweepIsSweep DEF TriageRaises
<1> QED
  BY <1>1, <1>2, <1>3, <1>4, <1>5, <1>6, <1>7, <1>8, <1>9, <1>10, <1>11, <1>12,
     <1>13, <1>14, <1>15 DEF SweepStep

LEMMA HigherIsReading ==
  ASSUME NEW m \in Reading, NEW n \in Reading
  PROVE  Higher(m, n) \in Reading /\ Higher(m, n) >= m /\ Higher(m, n) >= n
BY ProbeAssumption DEF Higher, Reading, Never

(* What a step does to the table and to the history of counts. *)
LEMMA TableTypes ==
  ASSUME TypeOK, NEW s \in Sweeps,
         Start(s) \/ SweepStep(s) \/ StatementFails(s) \/ AnswerLost(s)
  PROVE  /\ ProbeTypeOK'
         /\ seen' \in [Containers -> Reading]
         /\ jumped' \in [Containers -> {"no", "yes", "raced"}]
         /\ faults' \in 0..MaxFaults
         /\ zeroed' \in SUBSET Containers
<1> USE DEF TypeOK
<1>0. sweeps[s] \in Sweep /\ AtStatement(sweeps[s])
  OBVIOUS
<1>1. CASE UNCHANGED <<table, faults, history>>
  BY <1>1 DEF table, history, ProbeTypeOK
<1>2. ASSUME NEW a \in Agents, NEW ok \in BOOLEAN, RecordEndpoint(a, ok)
      PROVE  ProbeTypeOK'
  BY <1>2, ProbeAssumption DEF RecordEndpoint, NextStreak, ProbeTypeOK
<1>3. CASE RecordProbe(s)
  <2>1. sweeps[s].target \in Agents /\ sweeps[s].ok \in BOOLEAN
    BY <1>0, <1>3 DEF RecordProbe, AtStatement, Sweep
  <2> QED
    BY <1>2, <1>3, <2>1 DEF RecordProbe, history
<1>4. ASSUME NEW c \in Containers, NEW works \in BOOLEAN, Inspect(s, c, works)
      PROVE  /\ ProbeTypeOK' /\ zeroed' \in SUBSET Containers
             /\ UNCHANGED <<faults, seen, jumped>>
  BY <1>4 DEF Inspect, table, ProbeTypeOK
<1>5. ASSUME NEW c \in Containers, RecordRestart(c, sweeps[s].got[c])
      PROVE  ProbeTypeOK' /\ Higher(seen[c], sweeps[s].got[c]) \in Reading
  <2>1. sweeps[s].got[c] \in Reading
    BY <1>0 DEF Sweep
  <2> QED
    BY <1>5, <2>1, HigherIsReading DEF RecordRestart, ProbeTypeOK
<1>6. CASE WriteRestart(s)
  <2>1. sweeps[s].target \in Containers
    BY <1>0, <1>6 DEF WriteRestart, AtStatement
  <2>2. jumped' \in [Containers -> {"no", "yes", "raced"}]
    BY <1>6, <2>1 DEF WriteRestart, Jumped
  <2> QED
    BY <1>5, <1>6, <2>1, <2>2 DEF WriteRestart
<1>7. ASSUME NEW q \in Queues, RecordDepth(q, sweeps[s].got[q])
      PROVE  ProbeTypeOK'
  BY <1>0, <1>7 DEF RecordDepth, ProbeTypeOK, Sweep
<1>8. CASE WriteDepth(s)
  <2>1. sweeps[s].target \in Queues
    BY <1>0, <1>8 DEF WriteDepth, AtStatement
  <2> QED
    BY <1>7, <1>8, <2>1 DEF WriteDepth, history
<1>9. ASSUME NEW t \in Targets, TriageSignal(s, t)
      PROVE  /\ ProbeTypeOK' /\ UNCHANGED <<faults, seen, zeroed>>
             /\ jumped' \in [Containers -> {"no", "yes", "raced"}]
  BY <1>9 DEF TriageSignal, table, ProbeTypeOK
<1>12. CASE TriageRaises(s)
  BY <1>12 DEF TriageRaises, table, ProbeTypeOK
<1>10. CASE StatementFails(s)
  BY <1>10, MetaAssumption DEF StatementFails, table, history, ProbeTypeOK
<1>11. CASE AnswerLost(s)
  <2>1. faults' \in 0..MaxFaults /\ UNCHANGED <<jumped, zeroed>>
    BY <1>11, MetaAssumption DEF AnswerLost
  <2>2. CASE sweeps[s].pc = "endpoint"
    <3>1. sweeps[s].target \in Agents /\ sweeps[s].ok \in BOOLEAN
      BY <1>0, <2>2 DEF AtStatement, Sweep
    <3> QED
      BY <1>2, <1>11, <2>1, <2>2, <3>1 DEF AnswerLost
  <2>3. CASE sweeps[s].pc = "restart"
    <3>1. sweeps[s].target \in Containers
      BY <1>0, <2>3 DEF AtStatement
    <3> QED
      BY <1>5, <1>11, <2>1, <2>3, <3>1 DEF AnswerLost
  <2>4. CASE sweeps[s].pc = "depth"
    <3>1. sweeps[s].target \in Queues
      BY <1>0, <2>4 DEF AtStatement
    <3> QED
      BY <1>7, <1>11, <2>1, <2>4, <3>1 DEF AnswerLost
  <2> QED
    BY <1>11, <2>2, <2>3, <2>4 DEF AnswerLost
<1> QED
  BY <1>1, <1>3, <1>4, <1>6, <1>8, <1>9, <1>10, <1>11, <1>12
  DEF SweepStep, Start, ProbeAgent, ListContainers, SnapshotRestart, ScrapeQueues,
      SnapshotDepth, Collect, Return

LEMMA TypeStep == TypeOK /\ [Next]_vars => TypeOK'
<1> SUFFICES ASSUME TypeOK, [Next]_vars
             PROVE  TypeOK'
  OBVIOUS
<1>1. ASSUME NEW s \in Sweeps,
             Start(s) \/ SweepStep(s) \/ StatementFails(s) \/ AnswerLost(s)
      PROVE  TypeOK'
  <2>1. UNCHANGED <<world, restarted>>
    BY <1>1 DEF SweepStep, Start, ProbeAgent, RecordProbe, ListContainers, Inspect,
       SnapshotRestart, WriteRestart, ScrapeQueues, SnapshotDepth, WriteDepth,
       Collect, TriageSignal, TriageRaises, Return, StatementFails, AnswerLost, history
  <2> QED
    BY <1>1, <2>1, SweepTypes, TableTypes DEF TypeOK, world
<1>2. CASE Crash
  BY <1>2, IdleSweepIsSweep, MetaAssumption
  DEF Crash, TypeOK, table, world, history, ProbeTypeOK
<1>3. CASE LongOutage
  BY <1>3, MetaAssumption DEF LongOutage, TypeOK, world, history, ProbeTypeOK
<1>4. CASE Prune
  BY <1>4, ProbeAssumption
  DEF Prune, PruneProbes, TypeOK, world, history, ProbeTypeOK, Reading
<1>5. CASE WorldStep
  <2>1. ASSUME NEW a \in Agents, Flip(a)
        PROVE  TypeOK'
    BY <2>1 DEF Flip, TypeOK, table, history, ProbeTypeOK
  <2>2. ASSUME NEW c \in Containers, Restart(c)
        PROVE  TypeOK'
    BY <2>2, ProbeAssumption DEF Restart, TypeOK, table, ProbeTypeOK
  <2>3. ASSUME NEW c \in Containers, Recreate(c)
        PROVE  TypeOK'
    BY <2>3, ProbeAssumption DEF Recreate, TypeOK, table, ProbeTypeOK
  <2>4. ASSUME NEW q \in Queues, NEW n \in 0..MaxReading, Fill(q, n)
        PROVE  TypeOK'
    BY <2>4 DEF Fill, TypeOK, table, history, ProbeTypeOK
  <2> QED
    BY <1>5, <2>1, <2>2, <2>3, <2>4 DEF WorldStep
<1>6. CASE UNCHANGED vars
  BY <1>6 DEF vars, TypeOK, table, world, history, ProbeTypeOK
<1> QED
  BY <1>1, <1>2, <1>3, <1>4, <1>5, <1>6 DEF Next

LEMMA InitTypes == Init => TypeOK
BY IdleSweepIsSweep, ProbeAssumption, MetaAssumption
DEF Init, ProbeInit, TypeOK, ProbeTypeOK, Reading

(* Every variable stays within its type, and a sweep has the target of its  *)
(* statement in hand exactly while the statement runs.                     *)
THEOREM TypeCorrect == Spec => []TypeOK
BY InitTypes, TypeStep, PTL DEF Spec

-----------------------------------------------------------------------------
(* The crash loop that is carried. *)

(* No recorded count, and none that a statement has read, is higher than    *)
(* what has been seen.                                                     *)
SeenInv == \A c \in Containers : restart[c] =< seen[c]

PrevInv ==
  \A s \in Sweeps : sweeps[s].pc = "restart" => sweeps[s].prev =< seen[sweeps[s].target]

(* What has been seen only grows. *)
LEMMA SeenGrows ==
  ASSUME TypeOK, [Next]_vars, NEW c \in Containers
  PROVE  seen'[c] >= seen[c]
<1> USE DEF TypeOK
<1>0. seen[c] \in Int
  BY ProbeAssumption DEF Reading, Never
<1>1. CASE seen' = seen
  BY <1>0, <1>1
<1>2. ASSUME NEW s \in Sweeps, WriteRestart(s)
      PROVE  seen'[c] >= seen[c]
  <2> DEFINE t == sweeps[s].target
             n == sweeps[s].got[t]
  <2>1. t \in Containers /\ n \in Reading
    BY <1>2 DEF WriteRestart, AtStatement, Sweep
  <2>2. seen' = [seen EXCEPT ![t] = Higher(seen[t], n)]
    BY <1>2 DEF WriteRestart
  <2> HIDE DEF t, n
  <2> QED
    BY <1>0, <2>1, <2>2, HigherIsReading
<1>3. ASSUME NEW s \in Sweeps, AnswerLost(s), seen' # seen
      PROVE  seen'[c] >= seen[c]
  <2> DEFINE t == sweeps[s].target
             n == sweeps[s].got[t]
  <2>1. sweeps[s].pc = "restart" /\ seen' = [seen EXCEPT ![t] = Higher(seen[t], n)]
    BY <1>3 DEF AnswerLost
  <2>2. t \in Containers /\ n \in Reading
    BY <2>1 DEF AtStatement, Sweep
  <2> HIDE DEF t, n
  <2> QED
    BY <1>0, <2>1, <2>2, HigherIsReading
<1> QED
  BY <1>1, <1>2, <1>3
  DEF Next, SweepStep, Start, ProbeAgent, RecordProbe, ListContainers, Inspect,
      SnapshotRestart, ScrapeQueues, SnapshotDepth, WriteDepth, Collect,
      TriageSignal, TriageRaises, Return, StatementFails, Crash, LongOutage, Prune,
      WorldStep, Flip, Restart, Recreate, Fill, vars, history

LEMMA SeenStep ==
  ASSUME TypeOK, SeenInv, [Next]_vars
  PROVE  SeenInv'
<1> USE DEF TypeOK, ProbeTypeOK
<1> SUFFICES ASSUME NEW c \in Containers
             PROVE  restart'[c] =< seen'[c]
  BY DEF SeenInv
<1>0. restart[c] \in Int /\ seen[c] \in Int /\ restart[c] =< seen[c] /\ Never =< seen[c]
  BY ProbeAssumption DEF SeenInv, Reading, Never
<1>1. seen'[c] >= seen[c] /\ seen'[c] \in Int
  <2>1. seen'[c] \in Reading
    BY TypeStep
  <2> QED
    BY <2>1, SeenGrows, ProbeAssumption DEF Reading, Never
<1>2. CASE restart'[c] = restart[c] \/ restart'[c] = Never
  BY <1>0, <1>1, <1>2 DEF Never
<1>3. ASSUME NEW s \in Sweeps, WriteRestart(s) \/ AnswerLost(s),
             restart'[c] # restart[c]
      PROVE  restart'[c] =< seen'[c]
  <2> DEFINE t == sweeps[s].target
             n == sweeps[s].got[t]
  <2>1. /\ restart' = [restart EXCEPT ![t] = n]
        /\ sweeps[s].pc = "restart" /\ seen' = [seen EXCEPT ![t] = Higher(seen[t], n)]
    BY <1>3 DEF WriteRestart, AnswerLost, RecordRestart, RecordEndpoint, RecordDepth
  <2>2. t \in Containers /\ n \in Reading
    BY <2>1 DEF AtStatement, Sweep
  <2> HIDE DEF t, n
  <2>3. t = c
    BY <1>3, <2>1
  <2> QED
    BY <2>1, <2>2, <2>3, HigherIsReading
<1> QED
  BY <1>2, <1>3
  DEF Next, SweepStep, Start, ProbeAgent, RecordProbe, ListContainers, Inspect,
      SnapshotRestart, ScrapeQueues, SnapshotDepth, WriteDepth, Collect,
      TriageSignal, TriageRaises, Return, StatementFails, Crash, LongOutage, Prune,
      WorldStep, Flip, Restart, Recreate, Fill, vars, table, RecordEndpoint, RecordDepth,
      PruneProbes

(* Under the step of one sweep the others stay as they are. *)
LEMMA OthersStay ==
  ASSUME TypeOK, NEW s \in Sweeps, Start(s) \/ SweepStep(s),
         NEW q \in Sweeps, q # s
  PROVE  sweeps'[q] = sweeps[q]
<1>1. \A new : Set(s, new) => sweeps'[q] = sweeps[q]
  BY DEF Set, TypeOK
<1> QED
  BY <1>1
  DEF SweepStep, Start, ProbeAgent, RecordProbe, ListContainers, Inspect,
      SnapshotRestart, WriteRestart, ScrapeQueues, SnapshotDepth, WriteDepth,
      Collect, TriageSignal, TriageRaises, Return

(* A sweep that is not under way holds no signal. *)
IdleInv == \A s \in Sweeps : sweeps[s].pc = "idle" => sweeps[s].signals = {}

(* What becomes of the sweep that moves: it keeps its signals but for the   *)
(* one that it triages, unless a triage raises, and only a snapshot gives  *)
(* it a reading to compare.                                                *)
Moved(s) ==
  /\ sweeps'[s].pc = "idle" => sweeps'[s].signals = {}
  /\ sweeps'[s].pc = "restart" =>
       sweeps'[s].prev = restart[sweeps'[s].target] /\ seen' = seen
  /\ \A t \in sweeps[s].signals \ sweeps'[s].signals :
       TriageSignal(s, t) \/ TriageRaises(s)

LEMMA RecordedKeeps ==
  ASSUME NEW sweep \in Sweep, NEW pc, NEW raised
  PROVE  /\ Recorded(sweep, pc, raised).pc = pc
         /\ sweep.signals \subseteq Recorded(sweep, pc, raised).signals
<1> DEFINE got == [sweep.got EXCEPT ![sweep.target] = Never]
           signals == Signals(sweep.signals, sweep.target, raised)
<1>1. Recorded(sweep, pc, raised) =
        [sweep EXCEPT !.pc = pc, !.target = NoTarget, !.prev = Never,
                      !.got = got, !.signals = signals]
  BY DEF Recorded, Sweep
<1>2. sweep.signals \subseteq signals
  BY DEF Signals
<1> HIDE DEF got, signals
<1> QED
  BY <1>1, <1>2 DEF Sweep

LEMMA RecordedRaises ==
  ASSUME NEW sweep \in Sweep, NEW pc
  PROVE  sweep.target \in Recorded(sweep, pc, TRUE).signals
<1> DEFINE got == [sweep.got EXCEPT ![sweep.target] = Never]
<1>1. Recorded(sweep, pc, TRUE) =
        [sweep EXCEPT !.pc = pc, !.target = NoTarget, !.prev = Never,
                      !.got = got, !.signals = sweep.signals \cup {sweep.target}]
  BY DEF Recorded, Sweep, Signals
<1> HIDE DEF got
<1> QED
  BY <1>1 DEF Sweep

LEMMA SweepMoves ==
  ASSUME TypeOK, IdleInv, NEW s \in Sweeps, Start(s) \/ SweepStep(s)
  PROVE  Moved(s)
<1> USE DEF TypeOK
<1>0. sweeps[s] \in Sweep /\ AtStatement(sweeps[s])
  OBVIOUS
<1>a. \A new : Set(s, new) => sweeps'[s] = new
  BY DEF Set
<1>1. CASE Start(s)
  BY <1>1, <1>a DEF Start, Moved, IdleInv, IdleSweep
<1>2. ASSUME NEW a \in Agents, NEW ok \in BOOLEAN, ProbeAgent(s, a, ok)
      PROVE  Moved(s)
  BY <1>0, <1>2, <1>a DEF ProbeAgent, Moved, Sweep
<1>3. CASE RecordProbe(s)
  <2> DEFINE a == sweeps[s].target
             ok == sweeps[s].ok
             down == IsDown(ok, NextStreak(streak[a], ok))
  <2>1. sweeps'[s] = [Probed(sweeps[s]) EXCEPT !.signals = Signals(@, a, down)]
    BY <1>3, <1>a DEF RecordProbe
  <2> HIDE DEF down
  <2> QED
    BY <1>0, <2>1 DEF Probed, Moved, Sweep, Signals
<1>4. ASSUME NEW listed \in BOOLEAN, ListContainers(s, listed)
      PROVE  Moved(s)
  <2>1. /\ sweeps'[s].pc \in {"inspect", "scrape"}
        /\ sweeps'[s].signals = sweeps[s].signals
    BY <1>0, <1>4, <1>a DEF ListContainers, Sweep
  <2> QED
    BY <2>1 DEF Moved
<1>5. ASSUME NEW c \in Containers, NEW works \in BOOLEAN, Inspect(s, c, works)
      PROVE  Moved(s)
  <2>1. sweeps'[s].pc = "inspect" /\ sweeps'[s].signals = sweeps[s].signals
    BY <1>0, <1>5, <1>a DEF Inspect, Sweep
  <2> QED
    BY <2>1 DEF Moved
<1>6. ASSUME NEW c \in Containers, SnapshotRestart(s, c)
      PROVE  Moved(s)
  BY <1>0, <1>6, <1>a DEF SnapshotRestart, Moved, Sweep, history
<1>7. CASE WriteRestart(s)
  <2>1. sweeps'[s] = Recorded(sweeps[s], "inspect",
                       CrashLoops(sweeps[s].prev, sweeps[s].got[sweeps[s].target]))
    BY <1>7, <1>a DEF WriteRestart
  <2> QED
    BY <1>0, <2>1, RecordedKeeps DEF Moved
<1>8. ASSUME NEW found \in SUBSET Queues, ScrapeQueues(s, found)
      PROVE  Moved(s)
  <2>1. sweeps'[s].pc = "depths" /\ sweeps'[s].signals = sweeps[s].signals
    BY <1>0, <1>8, <1>a DEF ScrapeQueues, Sweep
  <2> QED
    BY <2>1 DEF Moved
<1>9. ASSUME NEW q \in Queues, SnapshotDepth(s, q)
      PROVE  Moved(s)
  BY <1>0, <1>9, <1>a DEF SnapshotDepth, Moved, Sweep
<1>10. CASE WriteDepth(s)
  <2>1. sweeps'[s] = Recorded(sweeps[s], "depths",
                       BacksUp(sweeps[s].prev, sweeps[s].got[sweeps[s].target]))
    BY <1>10, <1>a DEF WriteDepth
  <2> QED
    BY <1>0, <2>1, RecordedKeeps DEF Moved
<1>11. CASE Collect(s)
  BY <1>0, <1>11, <1>a DEF Collect, Moved, Sweep
<1>12. ASSUME NEW t \in Targets, TriageSignal(s, t)
       PROVE  Moved(s)
  <2>1. /\ sweeps'[s].pc = "triage"
        /\ sweeps'[s].signals = sweeps[s].signals \ {t}
    BY <1>0, <1>12, <1>a DEF TriageSignal, Sweep
  <2>2. \A u \in sweeps[s].signals \ sweeps'[s].signals : u = t
    BY <2>1
  <2> QED
    BY <1>12, <2>1, <2>2 DEF Moved
<1>13. CASE Return(s)
  BY <1>13, <1>a DEF Return, Moved, IdleSweep
<1>14. CASE TriageRaises(s)
  BY <1>14, <1>a DEF TriageRaises, Moved, IdleSweep
<1> QED
  BY <1>1, <1>2, <1>3, <1>4, <1>5, <1>6, <1>7, <1>8, <1>9, <1>10, <1>11, <1>12,
     <1>13, <1>14 DEF SweepStep

(* The steps that are not of a sweep, before the first fault. *)
LEMMA OtherStepsKeep ==
  ASSUME [Next]_vars, faults = 0, faults' = 0,
         \A s \in Sweeps : ~(Start(s) \/ SweepStep(s))
  PROVE  UNCHANGED <<sweeps, seen, jumped>>
BY DEF Next, StatementFails, AnswerLost, Crash, LongOutage, Prune, WorldStep, Flip,
       Restart, Recreate, Fill, vars, history

(* No step takes back a fault. *)
LEMMA FaultsGrow ==
  ASSUME TypeOK, [Next]_vars, faults' = 0
  PROVE  faults = 0
<1>1. faults' = faults \/ faults' = faults + 1
  BY DEF Next, SweepStep, Start, ProbeAgent, RecordProbe, ListContainers, Inspect,
         SnapshotRestart, WriteRestart, ScrapeQueues, SnapshotDepth, WriteDepth,
         Collect, TriageSignal, TriageRaises, Return, StatementFails, AnswerLost,
         Crash, LongOutage, Prune, WorldStep, Flip, Restart, Recreate, Fill, vars
<1>2. faults \in Nat
  BY MetaAssumption DEF TypeOK
<1> QED
  BY <1>1, <1>2

(* What the carried crash loop needs, until the first fault. *)
CarriedInv == faults = 0 => (IdleInv /\ PrevInv /\ CrashLoopIsCarried)

LEMMA IdlePrevStep ==
  ASSUME TypeOK, SeenInv, IdleInv, PrevInv, [Next]_vars, faults = 0, faults' = 0
  PROVE  IdleInv' /\ PrevInv'
<1> SUFFICES ASSUME NEW q \in Sweeps
             PROVE  /\ sweeps'[q].pc = "idle" => sweeps'[q].signals = {}
                    /\ sweeps'[q].pc = "restart" =>
                         sweeps'[q].prev =< seen'[sweeps'[q].target]
  BY DEF IdleInv, PrevInv
<1>1. CASE sweeps'[q] = sweeps[q]
  <2>1. sweeps[q].pc = "idle" => sweeps[q].signals = {}
    BY DEF IdleInv
  <2>2. ASSUME sweeps[q].pc = "restart"
        PROVE  sweeps[q].prev =< seen'[sweeps[q].target]
    <3>1. sweeps[q].target \in Containers /\ sweeps[q].prev \in Reading
      BY <2>2 DEF TypeOK, AtStatement, Sweep
    <3>2. seen[sweeps[q].target] \in Reading /\ seen'[sweeps[q].target] \in Reading
      BY <3>1, TypeStep DEF TypeOK
    <3> QED
      BY <2>2, <3>1, <3>2, SeenGrows, ProbeAssumption DEF PrevInv, Reading, Never
  <2> QED
    BY <1>1, <2>1, <2>2
<1>2. ASSUME NEW s \in Sweeps, Start(s) \/ SweepStep(s), sweeps'[q] # sweeps[q]
      PROVE  /\ sweeps'[q].pc = "idle" => sweeps'[q].signals = {}
             /\ sweeps'[q].pc = "restart" =>
                  sweeps'[q].prev =< seen'[sweeps'[q].target]
  <2>1. q = s
    BY <1>2, OthersStay
  <2>2. Moved(q)
    BY <1>2, <2>1, SweepMoves
  <2>3. sweeps'[q].pc = "restart" => sweeps'[q].target \in Containers
    BY TypeStep DEF TypeOK, AtStatement
  <2> QED
    BY <2>2, <2>3 DEF Moved, SeenInv
<1> QED
  BY <1>1, <1>2, OtherStepsKeep

(* A count that jumps is the first to be a crash loop since. *)
LEMMA JumpIsSignalled ==
  ASSUME TypeOK, SeenInv, PrevInv, NEW s \in Sweeps, WriteRestart(s),
         NEW c \in Containers, jumped[c] # "yes", jumped'[c] = "yes"
  PROVE  Carried(c)'
<1> DEFINE prev == sweeps[s].prev
           n == sweeps[s].got[c]
<1>1. /\ sweeps[s].pc = "restart"
      /\ sweeps[s].target = c
      /\ prev # Never
      /\ n - seen[c] >= RestartLoopThreshold
  <2> DEFINE t == sweeps[s].target
             m == sweeps[s].got[t]
  <2>1. sweeps[s].pc = "restart" /\ jumped' = [jumped EXCEPT ![t] = Jumped(t, prev, m)]
    BY DEF WriteRestart
  <2>2. t = c
    BY <2>1 DEF TypeOK
  <2>3. Jumped(c, prev, n) = "yes"
    BY <2>1, <2>2 DEF TypeOK
  <2>4. n \in Int /\ seen[c] \in Int /\ RestartLoopThreshold \in Int
    BY MetaAssumption, ProbeAssumption DEF TypeOK, Sweep, Reading, Never
  <2> HIDE DEF prev, n
  <2> QED
    BY <2>1, <2>2, <2>3, <2>4 DEF Jumped
<1>2. prev =< seen[c]
  BY <1>1 DEF PrevInv
<1>3. prev \in Int /\ n \in Int /\ seen[c] \in Int /\ RestartLoopThreshold \in Int
  BY MetaAssumption, ProbeAssumption DEF TypeOK, Sweep, Reading, Never
<1> HIDE DEF prev, n
<1>4. CrashLoops(prev, n)
  BY <1>1, <1>2, <1>3 DEF CrashLoops
<1>5. sweeps'[s] = Recorded(sweeps[s], "inspect", TRUE)
  <2>1. Set(s, Recorded(sweeps[s], "inspect", CrashLoops(prev, n)))
    BY <1>1 DEF WriteRestart, prev, n
  <2>2. CrashLoops(prev, n) = TRUE
    BY <1>4 DEF CrashLoops
  <2> QED
    BY <2>1, <2>2 DEF Set, TypeOK
<1>6. c \in sweeps'[s].signals
  BY <1>1, <1>5, RecordedRaises DEF TypeOK
<1> QED
  BY <1>6 DEF Carried

LEMMA CarriedStep ==
  ASSUME TypeOK, SeenInv, CarriedInv, [Next]_vars
  PROVE  CarriedInv'
<1> SUFFICES ASSUME faults' = 0
             PROVE  IdleInv' /\ PrevInv' /\ CrashLoopIsCarried'
  BY DEF CarriedInv
<1>1. faults = 0 /\ IdleInv /\ PrevInv /\ CrashLoopIsCarried
  BY FaultsGrow DEF CarriedInv
<1> SUFFICES ASSUME NEW c \in Containers, jumped'[c] = "yes"
             PROVE  Carried(c)'
  BY <1>1, IdlePrevStep DEF CrashLoopIsCarried
<1>2. CASE \A s \in Sweeps : ~(Start(s) \/ SweepStep(s))
  BY <1>1, <1>2, OtherStepsKeep DEF CrashLoopIsCarried, Carried
<1>3. ASSUME NEW s \in Sweeps, Start(s) \/ SweepStep(s), jumped[c] # "yes"
      PROVE  Carried(c)'
  <2>1. WriteRestart(s)
    BY <1>3
    DEF SweepStep, Start, ProbeAgent, RecordProbe, ListContainers, Inspect,
        SnapshotRestart, ScrapeQueues, SnapshotDepth, WriteDepth, Collect,
        TriageSignal, TriageRaises, Return, history, TypeOK
  <2> QED
    BY <1>1, <1>3, <2>1, JumpIsSignalled
<1>4. ASSUME NEW s \in Sweeps, Start(s) \/ SweepStep(s), jumped[c] = "yes"
      PROVE  Carried(c)'
  <2>1. PICK q \in Sweeps : c \in sweeps[q].signals
    BY <1>1, <1>4 DEF CrashLoopIsCarried, Carried
  <2>2. CASE q # s
    BY <1>4, <2>1, <2>2, OthersStay DEF Carried
  <2>3. CASE q = s
    <3>1. ~TriageSignal(s, c) /\ ~TriageRaises(s)
      BY <2>1, <2>3 DEF TriageSignal, TriageRaises, TypeOK
    <3> QED
      BY <1>1, <1>4, <2>1, <2>3, <3>1, SweepMoves DEF Moved, Carried
  <2> QED
    BY <2>2, <2>3
<1> QED
  BY <1>2, <1>3, <1>4

LEMMA InitCarried == Init => SeenInv /\ CarriedInv
BY DEF Init, ProbeInit, SeenInv, CarriedInv, IdleInv, PrevInv, CrashLoopIsCarried,
       IdleSweep, Never

(* Before the first fault, a recorded count that exceeds every earlier one   *)
(* by the threshold is held as a crash loop by a sweep until it is triaged, *)
(* or until a triage raises in that sweep.                                 *)
THEOREM CrashLoopIsKept == Spec => []CrashLoopIsCarried
<1>1. CarriedInv => CrashLoopIsCarried
  BY DEF CarriedInv, CrashLoopIsCarried
<1> QED
  BY <1>1, InitTypes, InitCarried, TypeStep, SeenStep, CarriedStep, PTL DEF Spec

-----------------------------------------------------------------------------
(* A container that never restarted is not signalled. *)

(* The only count of such a container that a row, an inspection or a        *)
(* snapshot can hold is the one that it has.                               *)
Same(r, n) == r = Never \/ r = n

SweepUnmoved(sweep, c) ==
  /\ Same(sweep.got[c], restarts[c])
  /\ (sweep.pc = "restart" /\ sweep.target = c) => Same(sweep.prev, restarts[c])
  /\ c \notin sweep.signals

Unmoved(c) ==
  /\ Same(restart[c], restarts[c])
  /\ \A s \in Sweeps : SweepUnmoved(sweeps[s], c)

UnmovedInv == \A c \in Containers \ (restarted \cup zeroed) : Unmoved(c)

LEMMA SameIsNoCrashLoop ==
  ASSUME NEW r \in 0..MaxReading, NEW prev, NEW n, Same(prev, r), Same(n, r)
  PROVE  ~CrashLoops(prev, n)
BY MetaAssumption, ProbeAssumption DEF Same, CrashLoops, Never

LEMMA NothingIsUnmoved ==
  ASSUME NEW c \in Containers
  PROVE  Same(Nothing[c], restarts[c]) /\ SweepUnmoved(IdleSweep, c)
BY DEF Nothing, IdleSweep, SweepUnmoved, Same

(* A statement that ends, well or not, about something else or about a      *)
(* container that is unmoved.                                              *)
LEMMA RecordedIsUnmoved ==
  ASSUME NEW sweep \in Sweep, sweep.target \in Containers \cup Queues,
         NEW pc \in {"inspect", "depths"}, NEW raised, NEW c \in Containers,
         SweepUnmoved(sweep, c), c = sweep.target => raised = FALSE
  PROVE  SweepUnmoved(Recorded(sweep, pc, raised), c)
<1> DEFINE got == [sweep.got EXCEPT ![sweep.target] = Never]
           signals == Signals(sweep.signals, sweep.target, raised)
<1>1. Recorded(sweep, pc, raised) =
        [sweep EXCEPT !.pc = pc, !.target = NoTarget, !.prev = Never,
                      !.got = got, !.signals = signals]
  BY DEF Recorded, Sweep
<1>2. c \notin signals
  BY DEF Signals, SweepUnmoved
<1>3. Same(got[c], restarts[c])
  BY DEF SweepUnmoved, Same, Sweep
<1> HIDE DEF got, signals
<1> QED
  BY <1>1, <1>2, <1>3 DEF SweepUnmoved, Sweep

LEMMA FailedIsUnmoved ==
  ASSUME NEW sweep \in Sweep, NEW c \in Containers, SweepUnmoved(sweep, c),
         sweep.pc \in {"endpoint", "restart", "depth", "triage"}
  PROVE  SweepUnmoved(AfterFailure(sweep), c)
<1>1. CASE sweep.pc = "endpoint"
  BY <1>1 DEF AfterFailure, Probed, SweepUnmoved, Sweep
<1>2. CASE sweep.pc = "triage"
  BY <1>2, NothingIsUnmoved DEF AfterFailure
<1>3. CASE sweep.pc \in {"restart", "depth"}
  BY <1>3, NothingIsUnmoved DEF AfterFailure, SweepUnmoved, Sweep
<1> QED
  BY <1>1, <1>2, <1>3

LEMMA SweepStaysUnmoved ==
  ASSUME TypeOK, NEW s \in Sweeps, NEW c \in Containers, Unmoved(c),
         Start(s) \/ SweepStep(s) \/ StatementFails(s) \/ AnswerLost(s),
         c \notin zeroed'
  PROVE  SweepUnmoved(sweeps'[s], c)
<1> USE DEF TypeOK
<1>0. /\ sweeps[s] \in Sweep /\ AtStatement(sweeps[s])
      /\ SweepUnmoved(sweeps[s], c) /\ Same(restart[c], restarts[c])
  BY DEF Unmoved
<1>a. \A new : Set(s, new) => sweeps'[s] = new
  BY DEF Set
<1>1. CASE Start(s)
  BY <1>a, <1>1, NothingIsUnmoved DEF Start, IdleSweep, SweepUnmoved
<1>2. ASSUME NEW a \in Agents, NEW ok \in BOOLEAN, ProbeAgent(s, a, ok)
      PROVE  SweepUnmoved(sweeps'[s], c)
  <2>1. sweeps'[s] = [sweeps[s] EXCEPT !.pc = "endpoint", !.target = a, !.ok = ok]
    BY <1>a, <1>2 DEF ProbeAgent
  <2>2. /\ sweeps'[s].pc = "endpoint"
        /\ sweeps'[s].got = sweeps[s].got /\ sweeps'[s].signals = sweeps[s].signals
    BY <1>0, <2>1 DEF Sweep
  <2> QED
    BY <1>0, <2>2 DEF SweepUnmoved
<1>3. CASE RecordProbe(s)
  <2> DEFINE a == sweeps[s].target
             ok == sweeps[s].ok
             down == IsDown(ok, NextStreak(streak[a], ok))
             new == [Probed(sweeps[s]) EXCEPT !.signals = Signals(@, a, down)]
  <2>1. Set(s, new)
    BY <1>3 DEF RecordProbe
  <2>2. a # c
    BY <1>0, <1>3, ProbeAssumption DEF RecordProbe, AtStatement
  <2> HIDE DEF down
  <2>3. SweepUnmoved(new, c)
    BY <1>0, <2>2 DEF Probed, SweepUnmoved, Sweep, Signals
  <2> QED
    BY <1>a, <2>1, <2>3
<1>4. ASSUME NEW listed \in BOOLEAN, ListContainers(s, listed)
      PROVE  SweepUnmoved(sweeps'[s], c)
  <2>1. /\ sweeps'[s].pc \in {"inspect", "scrape"}
        /\ sweeps'[s].got = sweeps[s].got /\ sweeps'[s].signals = sweeps[s].signals
    BY <1>0, <1>a, <1>4 DEF ListContainers, Sweep
  <2> QED
    BY <1>0, <2>1 DEF SweepUnmoved
<1>5. ASSUME NEW d \in Containers, NEW works \in BOOLEAN, Inspect(s, d, works)
      PROVE  SweepUnmoved(sweeps'[s], c)
  <2> DEFINE n == IF works THEN restarts[d] ELSE 0
             got == [sweeps[s].got EXCEPT ![d] = n]
             new == [sweeps[s] EXCEPT !.todo = sweeps[s].todo \ {d}, !.got = got]
  <2>1. Set(s, new)
    BY <1>0, <1>5 DEF Inspect, Set, Sweep
  <2>2. d = c => works
    BY <1>5 DEF Inspect
  <2>3. Same(got[c], restarts[c])
    BY <1>0, <2>2 DEF SweepUnmoved, Same, Sweep
  <2> HIDE DEF got
  <2>4. SweepUnmoved(new, c)
    BY <1>0, <1>5, <2>3 DEF SweepUnmoved, Sweep, Inspect
  <2> QED
    BY <1>a, <2>1, <2>4
<1>6. ASSUME NEW d \in Containers, SnapshotRestart(s, d)
      PROVE  SweepUnmoved(sweeps'[s], c)
  <2>1. sweeps'[s] = [sweeps[s] EXCEPT !.pc = "restart", !.target = d,
                                       !.prev = restart[d]]
    BY <1>a, <1>6 DEF SnapshotRestart
  <2> QED
    BY <1>0, <2>1 DEF Sweep, SweepUnmoved
<1>7. CASE WriteRestart(s)
  <2> DEFINE prev == sweeps[s].prev
             n == sweeps[s].got[sweeps[s].target]
             raised == CrashLoops(prev, n)
  <2>1. /\ sweeps[s].target \in Containers
        /\ sweeps'[s] = Recorded(sweeps[s], "inspect", raised)
    BY <1>0, <1>a, <1>7 DEF WriteRestart, AtStatement
  <2>2. ASSUME c = sweeps[s].target
        PROVE  raised = FALSE
    <3>1. Same(prev, restarts[c]) /\ Same(n, restarts[c])
      BY <1>0, <1>7, <2>2 DEF WriteRestart, SweepUnmoved
    <3>2. ~CrashLoops(prev, n)
      BY <3>1, SameIsNoCrashLoop
    <3> QED
      BY <3>2 DEF CrashLoops
  <2> HIDE DEF raised
  <2>3. SweepUnmoved(Recorded(sweeps[s], "inspect", raised), c)
    BY <1>0, <2>1, <2>2, RecordedIsUnmoved
  <2> QED
    BY <2>1, <2>3
<1>8. ASSUME NEW found \in SUBSET Queues, ScrapeQueues(s, found)
      PROVE  SweepUnmoved(sweeps'[s], c)
  <2> DEFINE got == [t \in Containers \cup Queues |->
                      IF t \in found THEN depth[t] ELSE Never]
             new == [sweeps[s] EXCEPT !.pc = "depths", !.got = got]
  <2>1. Set(s, new)
    BY <1>8 DEF ScrapeQueues
  <2>2. Same(got[c], restarts[c])
    BY ProbeAssumption DEF Same
  <2> HIDE DEF got
  <2>3. SweepUnmoved(new, c)
    BY <1>0, <1>8, <2>2 DEF SweepUnmoved, Sweep
  <2> QED
    BY <1>a, <2>1, <2>3
<1>9. ASSUME NEW q \in Queues, SnapshotDepth(s, q)
      PROVE  SweepUnmoved(sweeps'[s], c)
  BY <1>0, <1>a, <1>9 DEF SnapshotDepth, Sweep, SweepUnmoved
<1>10. CASE WriteDepth(s)
  <2> DEFINE raised == BacksUp(sweeps[s].prev, sweeps[s].got[sweeps[s].target])
  <2>1. sweeps[s].target \in Queues
    BY <1>0, <1>10 DEF WriteDepth, AtStatement
  <2>2. c # sweeps[s].target
    BY <2>1, ProbeAssumption
  <2>3. sweeps'[s] = Recorded(sweeps[s], "depths", raised)
    BY <1>a, <1>10 DEF WriteDepth
  <2> HIDE DEF raised
  <2>4. SweepUnmoved(Recorded(sweeps[s], "depths", raised), c)
    BY <1>0, <2>1, <2>2, RecordedIsUnmoved
  <2> QED
    BY <2>3, <2>4
<1>11. CASE Collect(s)
  BY <1>0, <1>a, <1>11 DEF Collect, Sweep, SweepUnmoved
<1>12. ASSUME NEW t \in Targets, TriageSignal(s, t)
       PROVE  SweepUnmoved(sweeps'[s], c)
  BY <1>0, <1>a, <1>12 DEF TriageSignal, Sweep, SweepUnmoved
<1>13. CASE Return(s)
  BY <1>a, <1>13, NothingIsUnmoved DEF Return
<1>14. CASE StatementFails(s) \/ AnswerLost(s)
  BY <1>0, <1>a, <1>14, FailedIsUnmoved DEF StatementFails, AnswerLost
<1>15. CASE TriageRaises(s)
  BY <1>a, <1>15, NothingIsUnmoved DEF TriageRaises
<1> QED
  BY <1>1, <1>2, <1>3, <1>4, <1>5, <1>6, <1>7, <1>8, <1>9, <1>10, <1>11, <1>12,
     <1>13, <1>14, <1>15 DEF SweepStep

(* What a step of a sweep leaves in the row. *)
LEMMA RowStaysUnmoved ==
  ASSUME TypeOK, NEW s \in Sweeps, NEW c \in Containers, Unmoved(c),
         Start(s) \/ SweepStep(s) \/ StatementFails(s) \/ AnswerLost(s)
  PROVE  Same(restart'[c], restarts[c])
<1>0. SweepUnmoved(sweeps[s], c) /\ Same(restart[c], restarts[c])
  BY DEF Unmoved
<1>1. CASE restart' = restart
  BY <1>0, <1>1
<1>2. CASE WriteRestart(s) \/ AnswerLost(s)
  <2>1. CASE restart' = restart
    BY <1>0, <2>1
  <2>2. CASE RecordRestart(sweeps[s].target, sweeps[s].got[sweeps[s].target])
    BY <1>0, <2>2 DEF RecordRestart, SweepUnmoved, TypeOK, ProbeTypeOK
  <2> QED
    BY <1>2, <2>1, <2>2 DEF WriteRestart, AnswerLost, RecordEndpoint, RecordDepth
<1>3. CASE Start(s) \/ StatementFails(s)
  <2>1. restart' = restart
    BY <1>3 DEF Start, StatementFails, table
  <2> QED
    BY <1>1, <2>1
<1>4. CASE SweepStep(s) /\ ~WriteRestart(s)
  <2>1. restart' = restart
    BY <1>4
    DEF SweepStep, ProbeAgent, RecordProbe, ListContainers, Inspect, SnapshotRestart,
        ScrapeQueues, SnapshotDepth, WriteDepth, Collect, TriageSignal, TriageRaises, Return,
        table, RecordEndpoint, RecordDepth
  <2> QED
    BY <1>1, <2>1
<1> QED
  BY <1>1, <1>2, <1>3, <1>4

LEMMA UnmovedStep ==
  ASSUME TypeOK, UnmovedInv, [Next]_vars
  PROVE  UnmovedInv'
<1> SUFFICES ASSUME NEW c \in Containers, c \notin restarted' \cup zeroed'
             PROVE  Unmoved(c)'
  BY DEF UnmovedInv
<1>1. restarted \subseteq restarted' /\ zeroed \subseteq zeroed'
  BY DEF Next, SweepStep, Start, ProbeAgent, RecordProbe, ListContainers, Inspect,
         SnapshotRestart, WriteRestart, ScrapeQueues, SnapshotDepth, WriteDepth,
         Collect, TriageSignal, TriageRaises, Return, StatementFails, AnswerLost,
         Crash, LongOutage, Prune, WorldStep, Flip, Restart, Recreate, Fill, vars, history
<1>2. Unmoved(c)
  BY <1>1 DEF UnmovedInv
<1>3. restarts'[c] = restarts[c]
  <2>1. CASE restarts' = restarts
    BY <2>1
  <2>2. ASSUME NEW d \in Containers, Restart(d) \/ Recreate(d)
        PROVE  restarts'[c] = restarts[c]
    BY <2>2 DEF Restart, Recreate, TypeOK
  <2> QED
    BY <2>1, <2>2
    DEF Next, SweepStep, Start, ProbeAgent, RecordProbe, ListContainers, Inspect,
        SnapshotRestart, WriteRestart, ScrapeQueues, SnapshotDepth, WriteDepth,
        Collect, TriageSignal, TriageRaises, Return, StatementFails, AnswerLost,
        Crash, LongOutage, Prune, WorldStep, Flip, Fill, vars, world
<1>4. ASSUME NEW s \in Sweeps,
             Start(s) \/ SweepStep(s) \/ StatementFails(s) \/ AnswerLost(s)
      PROVE  Unmoved(c)'
  <2>1. Same(restart'[c], restarts[c]) /\ SweepUnmoved(sweeps'[s], c)
    BY <1>2, <1>4, RowStaysUnmoved, SweepStaysUnmoved
  <2>2. ASSUME NEW q \in Sweeps, q # s
        PROVE  SweepUnmoved(sweeps'[q], c)
    <3>1. sweeps'[q] = sweeps[q]
      <4>1. CASE Start(s) \/ SweepStep(s)
        BY <2>2, <4>1, OthersStay
      <4>2. CASE StatementFails(s) \/ AnswerLost(s)
        BY <2>2, <4>2 DEF StatementFails, AnswerLost, Set, TypeOK
      <4> QED
        BY <1>4, <4>1, <4>2
    <3> QED
      BY <1>2, <3>1 DEF Unmoved
  <2> QED
    BY <1>3, <2>1, <2>2 DEF Unmoved, SweepUnmoved
<1>5. CASE Crash
  BY <1>2, <1>3, <1>5, NothingIsUnmoved DEF Crash, Unmoved, SweepUnmoved, table
<1>6. CASE Prune
  BY <1>2, <1>3, <1>6 DEF Prune, PruneProbes, Unmoved, SweepUnmoved, Same
<1>7. CASE UNCHANGED <<restart, sweeps>>
  BY <1>2, <1>3, <1>7 DEF Unmoved, SweepUnmoved
<1> QED
  BY <1>4, <1>5, <1>6, <1>7
  DEF Next, LongOutage, WorldStep, Flip, Restart, Recreate, Fill, vars, table

LEMMA InitUnmoved == Init => UnmovedInv
BY NothingIsUnmoved DEF Init, ProbeInit, UnmovedInv, Unmoved, Same

(* Only a container whose count has changed, or of which an inspection      *)
(* failed, is ever signalled as a crash loop, whatever fails in between.   *)
THEOREM CrashLoopsAreRestarts == Spec => []CrashLoopOnlyIfRestarted
<1>1. UnmovedInv => CrashLoopOnlyIfRestarted
  BY DEF UnmovedInv, Unmoved, SweepUnmoved, CrashLoopOnlyIfRestarted, Carried
<1> QED
  BY <1>1, InitTypes, InitUnmoved, TypeStep, UnmovedStep, PTL DEF Spec

=============================================================================
