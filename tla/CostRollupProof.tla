---------------------------- MODULE CostRollupProof ----------------------------
(***************************************************************************)
(* Proofs about CostRollup, for every fleet, every set of models and of    *)
(* reported figures, and every retention of three days or more.            *)
(***************************************************************************)
EXTENDS CostRollup, TLAPS

-----------------------------------------------------------------------------
(* Types. *)

LEMMA FiguresAreNats == Figure \subseteq Nat /\ 0 \in Figure
  BY RollupAssumption DEF RollupAssumption, Figure

LEMMA GreatestFigure ==
  ASSUME NEW m \in Figure, NEW n \in Figure
  PROVE  Greatest(m, n) \in Figure /\ m <= Greatest(m, n) /\ n <= Greatest(m, n)
  BY FiguresAreNats DEF Greatest

LEMMA RowTyped ==
  ASSUME NEW w \in Write, NEW d \in Days
  PROVE  RowOf(w, d) \in Rows
  BY DEF RowOf, Rows, Write

LEMMA WritesTyped ==
  ASSUME NEW a \in Agents, NEW total \in Figure \cup {Junk}, NEW split \in Splits
  PROVE  Writes(a, total, split) \subseteq Write
<1>1. \A m \in Models : Label(m) \in Series /\ split[m] \in Figure \cup {Junk}
  BY DEF Label, Series, Figure, Splits
<1>2. Keys(a) \subseteq Models /\ Total \in Series
  BY DEF Keys, Series
<1> QED
  BY <1>1, <1>2 DEF Writes, Write

(* A round and a pass at their ends. *)
LEMMA AsleepTyped == Asleep \in Rounds /\ PruneAsleep \in [pc : Passes, began : Days]
  BY RollupAssumption DEF RollupAssumption, Asleep, PruneAsleep, Rounds, Passes, Days

LEMMA InitTypes == Init => TypeOK
<1> SUFFICES ASSUME Init PROVE TypeOK
  OBVIOUS
<1>1. 0 \in Days /\ 0 \in 0..MaxCost /\ 0 \in 0..MaxFaults
  BY RollupAssumption DEF RollupAssumption, Days
<1> QED
  BY <1>1, AsleepTyped, FiguresAreNats DEF Init, TypeOK

(* The steps of a round leave its types alone. *)
LEMMA ProceedTypes ==
  ASSUME TypeOK, NEW w \in Write, Proceed(w)
  PROVE  snap' \in Rounds
<1>1. snap \in Rounds /\ day \in Days
  BY DEF TypeOK
<1> DEFINE rest == snap.todo \ {w}
<1>2. CASE rest = {}
  BY <1>2, AsleepTyped DEF Proceed
<1>3. CASE rest # {} /\ SameCall(w, rest)
  BY <1>1, <1>3 DEF Proceed, Rounds
<1>4. CASE rest # {} /\ ~SameCall(w, rest)
  BY <1>1, <1>4 DEF Proceed, Rounds
<1> QED
  BY <1>2, <1>3, <1>4

LEMMA FetchTypes ==
  ASSUME TypeOK, Fetch
  PROVE  snap' \in Rounds
<1>1. PICK heard \in SUBSET Agents, split \in [Agents -> Splits] :
        \E garbled \in SUBSET heard :
          snap' =
            [todo |-> UNION {Writes(a, IF a \in garbled THEN Junk ELSE spent[a], split[a]) :
                               a \in heard},
             folding |-> {}, when |-> day, began |-> day]
  BY DEF Fetch
<1>2. PICK garbled \in SUBSET heard :
        snap' =
          [todo |-> UNION {Writes(a, IF a \in garbled THEN Junk ELSE spent[a], split[a]) :
                             a \in heard},
           folding |-> {}, when |-> day, began |-> day]
  BY <1>1
<1>3. ASSUME NEW a \in heard
      PROVE  Writes(a, IF a \in garbled THEN Junk ELSE spent[a], split[a]) \subseteq Write
  <2>1. a \in Agents /\ split[a] \in Splits /\ spent[a] \in Figure
    BY DEF TypeOK, Figure
  <2>2. (IF a \in garbled THEN Junk ELSE spent[a]) \in Figure \cup {Junk}
    BY <2>1
  <2> QED
    BY <2>1, <2>2, WritesTyped
<1> QED
  BY <1>2, <1>3 DEF Rounds, TypeOK

(* The INSERT of a row stamped on day d. *)
Appends(w, d) ==
  /\ d \in Days /\ snap.when <= d /\ d <= day
  /\ snap' = [snap EXCEPT !.folding = {w}, !.when = d]
  /\ raw' = [raw EXCEPT ![RowOf(w, d)] = Greatest(@, w.figure)]
  /\ written' = [written EXCEPT ![RowOf(w, d)] = Greatest(@, w.figure)]

LEMMA InsertAppends ==
  ASSUME TypeOK, NEW w \in snap.todo, InsertRaw(w)
  PROVE  /\ \E d : Appends(w, d)
         /\ w \in Write /\ w.figure \in Figure /\ w \in Appended
<1>1. w \in Write
  BY DEF TypeOK, Rounds
<1>2. w.figure # Junk
  BY DEF InsertRaw
<1>3. w.figure \in Figure /\ w \in Appended
  BY <1>1, <1>2 DEF Write, Appended
<1>4. PICK d \in snap.when..day :
        /\ snap' = [snap EXCEPT !.folding = {w}, !.when = d]
        /\ raw' = [raw EXCEPT ![RowOf(w, d)] = Greatest(@, w.figure)]
        /\ written' = [written EXCEPT ![RowOf(w, d)] = Greatest(@, w.figure)]
  BY DEF InsertRaw
<1>5. d \in Days /\ snap.when <= d /\ d <= day
  BY RollupAssumption DEF RollupAssumption, TypeOK, Rounds, Days
<1> QED
  BY <1>1, <1>3, <1>4, <1>5 DEF Appends

LEMMA RoundTypes ==
  ASSUME TypeOK, SnapshotStep
  PROVE  TypeOK'
<1>1. CASE Fetch
  BY <1>1, FetchTypes DEF Fetch, TypeOK, tables, Rounds
<1>2. ASSUME NEW w \in snap.todo, FigureRaises(w)
      PROVE  TypeOK'
  BY <1>2, AsleepTyped DEF FigureRaises, TypeOK, tables, Rounds
<1>3. ASSUME NEW w \in snap.todo, InsertRaw(w)
      PROVE  TypeOK'
  <2>1. w \in Write /\ w.figure \in Figure /\ w \in Appended
    BY <1>3, InsertAppends
  <2>2. PICK d : Appends(w, d)
    BY <1>3, InsertAppends
  <2>3. d \in Days /\ RowOf(w, d) \in Rows
    BY <2>1, <2>2, RowTyped DEF Appends
  <2>4. /\ Greatest(raw[RowOf(w, d)], w.figure) \in Figure
        /\ Greatest(written[RowOf(w, d)], w.figure) \in Figure
    BY <2>1, <2>3, GreatestFigure DEF TypeOK
  <2>5. raw' \in [Rows -> Figure] /\ written' \in [Rows -> Figure]
    BY <2>2, <2>4 DEF TypeOK, Appends
  <2>6. snap' \in Rounds
    BY <2>1, <2>2, <2>3 DEF Rounds, TypeOK, Appends
  <2> QED
    BY <1>3, <2>5, <2>6 DEF InsertRaw, TypeOK
<1>4. ASSUME NEW w \in snap.folding, Fold(w)
      PROVE  TypeOK'
  <2>1. w \in Write /\ w.figure \in Figure /\ snap.when \in Days
    BY DEF TypeOK, Rounds, Appended, Write
  <2>2. RowOf(w, snap.when) \in Rows
    BY <2>1, RowTyped
  <2>3. Greatest(daily[RowOf(w, snap.when)], w.figure) \in Figure
    BY <2>1, <2>2, GreatestFigure DEF TypeOK
  <2>4. daily' \in [Rows -> Figure]
    BY <1>4, <2>3 DEF Fold, Folded, TypeOK
  <2>5. snap' \in Rounds
    BY <1>4, <2>1, ProceedTypes DEF Fold
  <2> QED
    BY <1>4, <2>4, <2>5 DEF Fold, TypeOK
<1> QED
  BY <1>1, <1>2, <1>3, <1>4 DEF SnapshotStep

(* What a DELETE leaves. *)
LEMMA PrunedTypes ==
  ASSUME TypeOK, NEW S \in SUBSET Series, NEW kept \in [Agents \X S -> Figure],
         Pruned(S, kept)
  PROVE  raw' \in [Rows -> Figure]
<1>1. ASSUME NEW r \in Rows
      PROVE  (IF r[2] \notin S \/ r[3] > day - Retention THEN raw[r]
              ELSE IF r[3] < day - Retention THEN 0
              ELSE kept[<<r[1], r[2]>>]) \in Figure
  <2>1. r[2] \in S => <<r[1], r[2]>> \in Agents \X S
    BY DEF Rows
  <2> QED
    BY <2>1, FiguresAreNats DEF TypeOK
<1> QED
  BY <1>1 DEF Pruned

LEMMA RederivedTypes ==
  ASSUME TypeOK, NEW S \in SUBSET Series, Rederived(S)
  PROVE  daily' \in [Rows -> Figure]
  BY GreatestFigure DEF Rederived, TypeOK

LEMMA PassTypes ==
  ASSUME TypeOK, PruneStep
  PROVE  TypeOK'
<1>1. CASE StartPrune
  BY <1>1 DEF StartPrune, StartedPass, TypeOK, Passes, tables
<1>2. CASE RollupTotals
  <2>1. daily' \in [Rows -> Figure]
    BY <1>2, RederivedTypes DEF RollupTotals, Series
  <2> QED
    BY <1>2, <2>1 DEF RollupTotals, PassGoes, TypeOK, Passes
<1>3. CASE RollupModels
  <2>1. daily' \in [Rows -> Figure]
    BY <1>3, RederivedTypes DEF RollupModels
  <2> QED
    BY <1>3, <2>1 DEF RollupModels, PassGoes, TypeOK, Passes
<1>4. CASE PruneEvents
  <2>1. raw' \in [Rows -> Figure]
    BY <1>4, PrunedTypes DEF PruneEvents, Series
  <2> QED
    BY <1>4, <2>1 DEF PruneEvents, PassGoes, TypeOK, Passes
<1>5. CASE PruneModelEvents
  <2>1. raw' \in [Rows -> Figure]
    BY <1>5, PrunedTypes DEF PruneModelEvents
  <2> QED
    BY <1>5, <2>1, AsleepTyped DEF PruneModelEvents, TypeOK
<1> QED
  BY <1>1, <1>2, <1>3, <1>4, <1>5 DEF PruneStep

LEMMA TypeStep ==
  ASSUME TypeOK, [Next]_vars
  PROVE  TypeOK'
<1>1. ASSUME NEW a \in Agents, Spend(a)
      PROVE  TypeOK'
  <2>1. spent[a] + 1 \in 0..MaxCost
    BY <1>1, RollupAssumption DEF RollupAssumption, Spend, TypeOK
  <2>2. Greatest(peak[a].today, spent[a] + 1) \in 0..MaxCost
    BY <2>1 DEF TypeOK, Greatest
  <2>3. peak' \in [Agents -> [today : 0..MaxCost, yesterday : 0..MaxCost]]
    BY <1>1, <2>2 DEF Spend, TypeOK
  <2> QED
    BY <1>1, <2>1, <2>3 DEF Spend, TypeOK, tables
<1>2. ASSUME NEW a \in Agents, Restart(a)
      PROVE  TypeOK'
  BY <1>2, RollupAssumption DEF RollupAssumption, Restart, Fault, TypeOK, tables
<1>3. CASE Boot
  BY <1>3, AsleepTyped DEF Boot, TypeOK, tables
<1>4. CASE BootWithoutDatabase
  BY <1>4, RollupAssumption DEF RollupAssumption, BootWithoutDatabase, Fault, TypeOK, tables
<1>5. CASE Crash
  BY <1>5, AsleepTyped, RollupAssumption DEF RollupAssumption, Crash, Fault, TypeOK, tables
<1>6. CASE SnapshotFails
  BY <1>6, AsleepTyped, RollupAssumption
  DEF RollupAssumption, SnapshotFails, Fault, TypeOK, tables
<1>7. CASE PruneFails
  BY <1>7, AsleepTyped, RollupAssumption
  DEF RollupAssumption, PruneFails, Fault, TypeOK, tables
<1>8. CASE Midnight
  <2>1. day' \in Days
    BY <1>8, RollupAssumption DEF RollupAssumption, Midnight, TypeOK, Days
  <2>2. peak' \in [Agents -> [today : 0..MaxCost, yesterday : 0..MaxCost]]
    BY <1>8 DEF Midnight, TypeOK
  <2> QED
    BY <1>8, <2>1, <2>2 DEF Midnight, TypeOK, tables
<1>9. CASE UNCHANGED vars
  BY <1>9 DEF vars, tables, TypeOK
<1> QED
  BY <1>1, <1>2, <1>3, <1>4, <1>5, <1>6, <1>7, <1>8, <1>9, RoundTypes, PassTypes DEF Next

(* Every variable stays within its type: what rounds and passes append,    *)
(* fold and keep are figures of the agents, filed under known series.      *)
THEOREM TypeCorrect == Spec => []TypeOK
  BY InitTypes, TypeStep, PTL DEF Spec

-----------------------------------------------------------------------------
(* Pruning. *)

(* A round and a pass began yesterday or today, and what the round stamps  *)
(* its rows with is no earlier.                                            *)
InTime ==
  /\ ~SnapAsleep => /\ day - 1 <= snap.began /\ snap.began <= day
                    /\ snap.began <= snap.when /\ snap.when <= day
  /\ prune.pc # "sleep" => day - 1 <= prune.began /\ prune.began <= day

(* What the pass has rolled up, of the days that no round appends to any    *)
(* more: daily has it all.                                                 *)
Covered(r) == written[r] <= daily[r]

RolledUp ==
  \A r \in Rows : r[3] <= prune.began - 2 =>
    /\ r[2] = Total /\ prune.pc \in {"models", "events"} => Covered(r)
    /\ r[2] # Total /\ prune.pc \in {"events", "model_events"} => Covered(r)

LEMMA InitCounted == Init => InTime /\ RolledUp /\ NothingPrunedUncounted
<1> SUFFICES ASSUME Init PROVE InTime /\ RolledUp /\ NothingPrunedUncounted
  OBVIOUS
<1>1. InTime /\ RolledUp
  BY DEF Init, InTime, SnapAsleep, Asleep, PruneAsleep, RolledUp
<1>2. NothingPrunedUncounted
  BY DEF Init, NothingPrunedUncounted
<1> QED
  BY <1>1, <1>2

LEMMA InTimeStep ==
  ASSUME TypeOK, InTime, [Next]_vars
  PROVE  InTime'
<1> USE DEF InTime, SnapAsleep
<1>0. day \in Int /\ snap.when \in Int /\ snap.began \in Int /\ prune.began \in Int
  BY RollupAssumption DEF RollupAssumption, TypeOK, Rounds, Days
<1>1. ASSUME NEW a \in Agents, Spend(a) \/ Restart(a)
      PROVE  InTime'
  BY <1>1 DEF Spend, Restart
<1>2. CASE Boot \/ Crash
  BY <1>2 DEF Boot, Crash, Asleep, PruneAsleep
<1>3. CASE BootWithoutDatabase
  BY <1>3 DEF BootWithoutDatabase
<1>4. CASE SnapshotFails
  BY <1>4 DEF SnapshotFails, Asleep
<1>5. CASE PruneFails
  BY <1>5 DEF PruneFails, PruneAsleep
<1>6. CASE Midnight
  BY <1>0, <1>6 DEF Midnight
<1>7. CASE Fetch
  <2>1. snap'.began = day /\ snap'.when = day /\ UNCHANGED <<day, prune>>
    BY <1>7 DEF Fetch
  <2> QED
    BY <1>0, <2>1
<1>8. ASSUME NEW w, Proceed(w), ~SnapAsleep, UNCHANGED <<day, prune>>
      PROVE  InTime'
  <2>1. CASE snap.todo \ {w} = {}
    BY <1>8, <2>1 DEF Proceed, Asleep
  <2>2. CASE snap.todo \ {w} # {}
    <3>1. /\ snap'.began = snap.began
          /\ snap'.when = snap.when \/ snap'.when = day
      BY <1>8, <2>2 DEF Proceed, TypeOK, Rounds
    <3> QED
      BY <1>0, <1>8, <3>1
  <2> QED
    BY <2>1, <2>2
<1>9. ASSUME NEW w \in snap.todo, FigureRaises(w)
      PROVE  InTime'
  BY <1>9 DEF FigureRaises, Asleep
<1>10. ASSUME NEW w \in snap.todo, InsertRaw(w)
       PROVE  InTime'
  <2>1. PICK d : Appends(w, d)
    BY <1>10, InsertAppends
  <2>2. /\ snap'.began = snap.began /\ snap'.when = d
        /\ snap.when <= d /\ d <= day /\ d \in Int
    BY <2>1 DEF Appends, TypeOK, Rounds, Days
  <2> QED
    BY <1>0, <1>10, <2>2 DEF InsertRaw
<1>11. ASSUME NEW w \in snap.folding, Fold(w)
       PROVE  InTime'
  BY <1>8, <1>11 DEF Fold
<1>12. CASE StartPrune
  BY <1>0, <1>12 DEF StartPrune, StartedPass
<1>13. CASE RollupTotals \/ RollupModels \/ PruneEvents
  <2>1. prune.pc # "sleep" /\ prune'.began = prune.began /\ UNCHANGED <<day, snap>>
    BY <1>13 DEF RollupTotals, RollupModels, PruneEvents, PassGoes, TypeOK
  <2> QED
    BY <2>1
<1>15. CASE PruneModelEvents
  BY <1>15 DEF PruneModelEvents, PruneAsleep
<1>14. CASE UNCHANGED vars
  BY <1>14 DEF vars
<1> QED
  BY <1>1, <1>2, <1>3, <1>4, <1>5, <1>6, <1>7, <1>9, <1>10, <1>11, <1>12, <1>13, <1>14, <1>15
  DEF Next, SnapshotStep, PruneStep

(* What a step that writes no table and does not advance the pass keeps. *)
LEMMA TablesKept ==
  ASSUME RolledUp, NothingPrunedUncounted, UNCHANGED tables,
         prune' = prune \/ prune'.pc \in {"sleep", "totals"}
  PROVE  RolledUp' /\ NothingPrunedUncounted'
  BY DEF RolledUp, NothingPrunedUncounted, Covered, tables

(* A row appended by a round is too young for what the pass has rolled up. *)
LEMMA InsertCounted ==
  ASSUME TypeOK, InTime, RolledUp, NothingPrunedUncounted,
         NEW w \in snap.todo, InsertRaw(w)
  PROVE  RolledUp' /\ NothingPrunedUncounted'
<1>1. w \in Write /\ w.figure \in Nat
  BY InsertAppends, FiguresAreNats
<1>0. PICK d : Appends(w, d)
  BY InsertAppends
<1> DEFINE row == RowOf(w, d)
<1>2. row \in Rows /\ row[3] = d
  BY <1>0, <1>1, RowTyped DEF RowOf, Appends
<1>3. /\ raw \in [Rows -> Nat] /\ daily \in [Rows -> Nat] /\ written \in [Rows -> Nat]
  BY FiguresAreNats DEF TypeOK
<1>4. ASSUME NEW r \in Rows, r # row
      PROVE  raw'[r] = raw[r] /\ daily'[r] = daily[r] /\ written'[r] = written[r]
  BY <1>0, <1>3, <1>4 DEF InsertRaw, Appends
<1>5. /\ raw'[row] = Greatest(raw[row], w.figure)
      /\ written'[row] = Greatest(written[row], w.figure)
      /\ daily' = daily /\ prune' = prune
  BY <1>0, <1>2, <1>3 DEF InsertRaw, Appends
<1>6. prune.pc # "sleep" => row[3] > prune.began - 2
  <2>1. day \in Int /\ snap.when \in Int /\ snap.began \in Int /\ prune.began \in Int
        /\ d \in Int
    BY <1>0, RollupAssumption DEF RollupAssumption, TypeOK, Rounds, Days, Appends
  <2>2. ~SnapAsleep
    BY DEF SnapAsleep
  <2> QED
    BY <1>0, <1>2, <2>1, <2>2 DEF InTime, Appends
<1> HIDE DEF row
<1>7. RolledUp'
  <2>1. ASSUME NEW r \in Rows, prune.pc # "sleep", r[3] <= prune.began - 2
        PROVE  r # row
    <3>1. r[3] \in Int /\ prune.began \in Int
      BY RollupAssumption DEF RollupAssumption, TypeOK, Rows, Days
    <3> QED
      BY <1>6, <2>1, <3>1
  <2> QED
    BY <1>4, <1>5, <2>1 DEF RolledUp, Covered
<1>8. NothingPrunedUncounted'
  <2>1. ASSUME NEW r \in Rows, r = row
        PROVE  written'[r] <= raw'[r] \/ written'[r] <= daily'[r]
    BY <1>1, <1>3, <1>5, <2>1 DEF NothingPrunedUncounted, Greatest
  <2> QED
    BY <1>4, <2>1 DEF NothingPrunedUncounted
<1> QED
  BY <1>7, <1>8

(* daily only grows. *)
LEMMA GrowthCounted ==
  ASSUME TypeOK, TypeOK', RolledUp, NothingPrunedUncounted,
         UNCHANGED <<raw, written>>, \A r \in Rows : daily[r] <= daily'[r]
  PROVE  /\ NothingPrunedUncounted'
         /\ \A r \in Rows : Covered(r) => Covered(r)'
<1>1. \A r \in Rows : daily[r] \in Nat /\ daily'[r] \in Nat /\ written[r] \in Nat
  BY FiguresAreNats DEF TypeOK
<1> QED
  BY <1>1 DEF NothingPrunedUncounted, Covered

LEMMA FoldCounted ==
  ASSUME TypeOK, TypeOK', RolledUp, NothingPrunedUncounted,
         NEW w \in snap.folding, Fold(w)
  PROVE  RolledUp' /\ NothingPrunedUncounted'
<1> DEFINE row == RowOf(w, snap.when)
<1>1. w \in Write /\ w.figure \in Figure /\ snap.when \in Days
  BY DEF TypeOK, Rounds, Appended, Write
<1>2. row \in Rows
  BY <1>1, RowTyped
<1>3. \A r \in Rows : daily[r] <= daily'[r]
  <2>1. daily[row] <= Greatest(daily[row], w.figure)
    BY <1>1, <1>2, GreatestFigure DEF TypeOK
  <2>2. \A r \in Rows : daily[r] \in Nat
    BY FiguresAreNats DEF TypeOK
  <2>3. daily' = [daily EXCEPT ![row] = Greatest(daily[row], w.figure)]
    BY DEF Fold, Folded
  <2> HIDE DEF row
  <2>4. \A r \in Rows : r # row => daily'[r] = daily[r]
    BY <2>3 DEF TypeOK
  <2>5. daily'[row] = Greatest(daily[row], w.figure)
    BY <1>2, <2>3 DEF TypeOK
  <2> QED
    BY <2>1, <2>2, <2>4, <2>5
<1>4. UNCHANGED <<raw, written, prune>>
  BY DEF Fold
<1> QED
  BY <1>3, <1>4, GrowthCounted DEF RolledUp

(* A statement of the roll-up covers its series. *)
LEMMA RollupCovers ==
  ASSUME TypeOK, NothingPrunedUncounted, NEW S \in SUBSET Series, Rederived(S),
         UNCHANGED <<raw, written>>
  PROVE  /\ \A r \in Rows : daily[r] <= daily'[r]
         /\ \A r \in Rows : r[2] \in S => Covered(r)'
<1>1. ASSUME NEW r \in Rows
      PROVE  /\ daily[r] <= daily'[r]
             /\ r[2] \in S => daily'[r] = Greatest(daily[r], raw[r])
  <2>1. daily[r] \in Figure /\ raw[r] \in Figure /\ daily[r] \in Nat
    BY FiguresAreNats DEF TypeOK
  <2>2. daily[r] <= Greatest(daily[r], raw[r])
    BY <2>1, GreatestFigure
  <2>3. daily'[r] = IF r[2] \in S THEN Greatest(daily[r], raw[r]) ELSE daily[r]
    BY DEF Rederived
  <2> QED
    BY <2>1, <2>2, <2>3
<1>2. ASSUME NEW r \in Rows, r[2] \in S
      PROVE  written[r] <= daily'[r]
  <2>1. daily[r] \in Nat /\ raw[r] \in Nat /\ written[r] \in Nat
    BY FiguresAreNats DEF TypeOK
  <2> QED
    BY <1>1, <1>2, <2>1 DEF NothingPrunedUncounted, Greatest
<1> QED
  BY <1>1, <1>2 DEF Covered

LEMMA RollupCounted ==
  ASSUME TypeOK, TypeOK', RolledUp, NothingPrunedUncounted, RollupTotals \/ RollupModels
  PROVE  RolledUp' /\ NothingPrunedUncounted'
<1>1. CASE RollupTotals
  <2>1. /\ \A r \in Rows : daily[r] <= daily'[r]
        /\ \A r \in Rows : r[2] = Total => Covered(r)'
    BY <1>1, RollupCovers DEF RollupTotals, Series
  <2>2. prune'.pc = "models" /\ UNCHANGED <<raw, written>>
    BY <1>1 DEF RollupTotals, PassGoes, TypeOK
  <2> QED
    BY <2>1, <2>2, GrowthCounted DEF RolledUp
<1>2. CASE RollupModels
  <2>1. /\ \A r \in Rows : daily[r] <= daily'[r]
        /\ \A r \in Rows : r[2] \in Series \ {Total} => Covered(r)'
    BY <1>2, RollupCovers DEF RollupModels
  <2>2. /\ prune.pc = "models" /\ prune'.pc = "events" /\ prune'.began = prune.began
        /\ UNCHANGED <<raw, written>>
    BY <1>2 DEF RollupModels, PassGoes, TypeOK
  <2>3. \A r \in Rows : r[2] \in Series
    BY DEF Rows
  <2> QED
    BY <2>1, <2>2, <2>3, GrowthCounted DEF RolledUp
<1> QED
  BY <1>1, <1>2

(* A DELETE takes no row that the roll-up has not covered. *)
LEMMA DeleteCounted ==
  ASSUME TypeOK, InTime, NothingPrunedUncounted, prune.pc # "sleep",
         NEW S \in SUBSET Series, NEW kept \in [Agents \X S -> Figure], Pruned(S, kept),
         \A r \in Rows : r[3] <= prune.began - 2 /\ r[2] \in S => Covered(r),
         UNCHANGED <<daily, written>>
  PROVE  NothingPrunedUncounted'
<1>1. day \in Int /\ prune.began \in Int /\ day - Retention <= prune.began - 2
  BY RollupAssumption DEF RollupAssumption, TypeOK, Days, InTime
<1>2. ASSUME NEW r \in Rows, r[2] \in S, r[3] <= day - Retention
      PROVE  Covered(r)
  <2>1. r[3] \in Int /\ Retention \in Int
    BY RollupAssumption DEF RollupAssumption, Rows, Days
  <2> QED
    BY <1>1, <1>2, <2>1
<1>3. ASSUME NEW r \in Rows, r[2] \notin S \/ r[3] > day - Retention
      PROVE  raw'[r] = raw[r]
  BY <1>3 DEF Pruned
<1>4. ASSUME NEW r \in Rows
      PROVE  (r[2] \in S /\ r[3] <= day - Retention) \/ r[2] \notin S \/ r[3] > day - Retention
  BY <1>1, RollupAssumption DEF RollupAssumption, Rows, Days
<1> QED
  BY <1>2, <1>3, <1>4 DEF NothingPrunedUncounted, Covered

LEMMA PruneCounted ==
  ASSUME TypeOK, InTime, RolledUp, NothingPrunedUncounted, PruneEvents \/ PruneModelEvents
  PROVE  RolledUp' /\ NothingPrunedUncounted'
<1>1. CASE PruneEvents
  <2>1. /\ prune.pc = "events" /\ prune'.pc = "model_events" /\ prune'.began = prune.began
        /\ UNCHANGED <<daily, written>>
    BY <1>1 DEF PruneEvents, PassGoes, TypeOK
  <2>2. \A r \in Rows : r[3] <= prune.began - 2 /\ r[2] \in {Total} => Covered(r)
    BY <2>1 DEF RolledUp
  <2>3. PICK kept \in [Agents \X {Total} -> Figure] : Pruned({Total}, kept)
    BY <1>1 DEF PruneEvents
  <2>4. NothingPrunedUncounted'
    BY <2>1, <2>2, <2>3, DeleteCounted DEF Series
  <2> QED
    BY <2>1, <2>4 DEF RolledUp, Covered
<1>2. CASE PruneModelEvents
  <2>1. /\ prune.pc = "model_events" /\ prune'.pc = "sleep"
        /\ UNCHANGED <<daily, written>>
    BY <1>2 DEF PruneModelEvents, PruneAsleep
  <2>2. \A r \in Rows :
          r[3] <= prune.began - 2 /\ r[2] \in Series \ {Total} => Covered(r)
    BY <2>1 DEF RolledUp
  <2>3. PICK kept \in [Agents \X (Series \ {Total}) -> Figure] :
          Pruned(Series \ {Total}, kept)
    BY <1>2 DEF PruneModelEvents
  <2>4. NothingPrunedUncounted'
    BY <2>1, <2>2, <2>3, DeleteCounted
  <2> QED
    BY <2>1, <2>4 DEF RolledUp, Covered
<1> QED
  BY <1>1, <1>2

LEMMA CountedStep ==
  ASSUME TypeOK, TypeOK', InTime, RolledUp, NothingPrunedUncounted, [Next]_vars
  PROVE  RolledUp' /\ NothingPrunedUncounted'
<1>1. CASE UNCHANGED vars
  BY <1>1, TablesKept DEF vars, tables
<1>2. ASSUME NEW a \in Agents, Spend(a) \/ Restart(a)
      PROVE  RolledUp' /\ NothingPrunedUncounted'
  BY <1>2, TablesKept DEF Spend, Restart
<1>3. CASE Boot \/ BootWithoutDatabase \/ Crash \/ SnapshotFails \/ PruneFails \/ Midnight
  BY <1>3, TablesKept
  DEF Boot, BootWithoutDatabase, Crash, SnapshotFails, PruneFails, Midnight, PruneAsleep
<1>4. CASE Fetch
  BY <1>4, TablesKept DEF Fetch
<1>5. ASSUME NEW w \in snap.todo, FigureRaises(w) \/ InsertRaw(w)
      PROVE  RolledUp' /\ NothingPrunedUncounted'
  BY <1>5, TablesKept, InsertCounted DEF FigureRaises
<1>6. CASE StartPrune
  BY <1>6, TablesKept DEF StartPrune, StartedPass
<1> QED
  BY <1>1, <1>2, <1>3, <1>4, <1>5, <1>6, FoldCounted, RollupCounted, PruneCounted
  DEF Next, SnapshotStep, PruneStep

(* Pruning loses no cost: a figure that was ever appended is still in the  *)
(* raw table, or the daily figure has it.  The pass deletes only what is    *)
(* two days older than its roll-up, to which no round appends any more      *)
(* (rollup_cost_daily, prune_old_data).                                    *)
THEOREM PruningCounts == Spec => []NothingPrunedUncounted
<1>1. Init => TypeOK /\ InTime /\ RolledUp /\ NothingPrunedUncounted
  BY InitTypes, InitCounted
<1>2. /\ TypeOK /\ InTime /\ RolledUp /\ NothingPrunedUncounted
      /\ [Next]_vars
      => (TypeOK /\ InTime /\ RolledUp /\ NothingPrunedUncounted)'
  BY TypeStep, InTimeStep, CountedStep
<1> QED
  BY <1>1, <1>2, PTL DEF Spec

-----------------------------------------------------------------------------
(* Filing. *)

(* What a round has still to write of an agent's total, the agent had on    *)
(* the day the round began.                                                *)
Limit(a) == IF snap.began = day THEN peak[a].today ELSE peak[a].yesterday

Peaked ==
  /\ \A a \in Agents : spent[a] <= peak[a].today
  /\ \A w \in snap.todo : w.kind = "total" => w.figure <= Limit(w.agent)

(* Only the row of an agent's total comes under its name. *)
Labelled == \A w \in snap.todo : w.kind = "model" => w.series # Total

LEMMA InitPeaked == Init => Peaked /\ Labelled
<1> SUFFICES ASSUME Init PROVE Peaked /\ Labelled
  OBVIOUS
<1> QED
  BY DEF Init, Asleep, Peaked, Labelled

LEMMA FetchPeaked ==
  ASSUME TypeOK, Peaked, Fetch
  PROVE  Peaked' /\ Labelled'
<1>1. ASSUME NEW a \in Agents, NEW split \in [Agents -> Splits], NEW garbled,
             NEW w \in Writes(a, IF a \in garbled THEN Junk ELSE spent[a], split[a])
      PROVE  /\ w.kind = "total" => w.agent = a /\ w.figure <= spent[a]
             /\ w.kind = "model" => w.series # Total
  <2>1. \A m \in Models : Label(m) # Total
    BY DEF Label, Total, Unknown
  <2>2. CASE w.kind = "model"
    <3>1. PICK m \in Models : w.series = Label(m)
      BY <1>1, <2>2 DEF Writes, Keys
    <3> QED
      BY <2>1, <2>2, <3>1
  <2>3. CASE w.kind = "total"
    <3>1. spent[a] \in Nat
      BY DEF TypeOK
    <3>2. w.agent = a /\ w.figure \in {Junk, spent[a]}
      BY <1>1, <2>3 DEF Writes
    <3> QED
      BY <2>3, <3>1, <3>2 DEF Junk
  <2>4. w.kind \in {"total", "model"}
    BY <1>1 DEF Writes
  <2> QED
    BY <2>2, <2>3, <2>4
<1>2. ASSUME NEW w \in snap'.todo
      PROVE  \E a \in Agents, split \in [Agents -> Splits], garbled \in SUBSET Agents :
               w \in Writes(a, IF a \in garbled THEN Junk ELSE spent[a], split[a])
  <2>1. PICK heard \in SUBSET Agents, split \in [Agents -> Splits] :
          \E garbled \in SUBSET heard :
            snap' =
              [todo |-> UNION {Writes(a, IF a \in garbled THEN Junk ELSE spent[a], split[a]) :
                                 a \in heard},
               folding |-> {}, when |-> day, began |-> day]
    BY DEF Fetch
  <2>2. PICK garbled \in SUBSET heard :
          snap'.todo =
            UNION {Writes(a, IF a \in garbled THEN Junk ELSE spent[a], split[a]) : a \in heard}
    BY <2>1
  <2>3. PICK a \in heard :
          w \in Writes(a, IF a \in garbled THEN Junk ELSE spent[a], split[a])
    BY <1>2, <2>2
  <2> QED
    BY <2>3
<1>3. snap'.began = day' /\ UNCHANGED <<peak, spent, day>>
  BY DEF Fetch
<1>4. \A w \in snap'.todo : /\ w.kind = "total" => w.agent \in Agents
                                                    /\ w.figure <= spent[w.agent]
                            /\ w.kind = "model" => w.series # Total
  BY <1>1, <1>2
<1>5. ASSUME NEW w \in snap'.todo, w.kind = "total"
      PROVE  w.figure <= peak[w.agent].today
  <2>1. w.agent \in Agents /\ w.figure <= spent[w.agent] /\ spent[w.agent] <= peak[w.agent].today
    BY <1>4, <1>5 DEF Peaked
  <2>2. w \in Write
    BY FetchTypes DEF Rounds
  <2>3. w.figure \in Int /\ spent[w.agent] \in Int /\ peak[w.agent].today \in Int
    <3>1. w.figure \in Figure \cup {Junk}
      BY <2>2 DEF Write
    <3>2. spent[w.agent] \in 0..MaxCost /\ peak[w.agent].today \in 0..MaxCost
      BY <2>1 DEF TypeOK
    <3>5. \A n \in Figure \cup {Junk} : n \in Int
      BY FiguresAreNats DEF Junk
    <3>3. w.figure \in Int
      BY <3>1, <3>5
    <3>4. spent[w.agent] \in Int /\ peak[w.agent].today \in Int
      BY <3>2
    <3> QED
      BY <3>3, <3>4
  <2> QED
    BY <2>1, <2>3
<1> QED
  BY <1>3, <1>4, <1>5 DEF Peaked, Labelled, Limit

LEMMA PeakedStep ==
  ASSUME TypeOK, InTime, Peaked, Labelled, [Next]_vars
  PROVE  Peaked' /\ Labelled'
<1>1. ASSUME snap'.todo \subseteq snap.todo, snap'.began = snap.began \/ snap'.todo = {},
             UNCHANGED <<day, spent, peak>>
      PROVE  Peaked' /\ Labelled'
  BY <1>1 DEF Peaked, Labelled, Limit
<1>2. ASSUME NEW a \in Agents, Spend(a)
      PROVE  Peaked' /\ Labelled'
  <2>1. /\ \A b \in Agents : peak[b].today \in Int /\ peak[b].yesterday \in Int
                            /\ spent[b] \in Int
        /\ \A w \in snap.todo : w.agent \in Agents /\ w.figure \in Int
    <3>1. \A b \in Agents : peak[b].today \in Int /\ peak[b].yesterday \in Int
      BY DEF TypeOK
    <3>2. \A b \in Agents : spent[b] \in Int
      BY DEF TypeOK
    <3>3. \A w \in snap.todo : w \in Write
      BY DEF TypeOK, Rounds
    <3>4. \A w \in Write : w.agent \in Agents /\ w.figure \in Figure \cup {Junk}
      BY DEF Write
    <3>5. \A n \in Figure \cup {Junk} : n \in Int
      BY FiguresAreNats DEF Junk
    <3> QED
      BY <3>1, <3>2, <3>3, <3>4, <3>5
  <2>2. /\ peak'[a].today = Greatest(peak[a].today, spent[a] + 1)
        /\ peak'[a].yesterday = peak[a].yesterday
        /\ spent'[a] = spent[a] + 1
    BY <1>2 DEF Spend, TypeOK
  <2>3. \A b \in Agents : b # a => peak'[b] = peak[b] /\ spent'[b] = spent[b]
    BY <1>2 DEF Spend, TypeOK
  <2>4. UNCHANGED <<snap, day>>
    BY <1>2 DEF Spend
  <2>5. \A b \in Agents : Limit(b) <= Limit(b)'
    BY <2>1, <2>2, <2>3, <2>4 DEF Limit, Greatest
  <2>6. \A b \in Agents : spent'[b] <= peak'[b].today
    BY <2>1, <2>2, <2>3 DEF Peaked, Greatest
  <2>7. \A b \in Agents : Limit(b) \in Int /\ Limit(b)' \in Int
    BY <2>1, <2>2, <2>3, <2>4 DEF Limit, Greatest
  <2>8. ASSUME NEW w \in snap.todo, w.kind = "total"
        PROVE  w.figure <= Limit(w.agent)'
    BY <2>1, <2>5, <2>7, <2>8 DEF Peaked
  <2> QED
    BY <2>4, <2>6, <2>8 DEF Peaked, Labelled
<1>3. ASSUME NEW a \in Agents, Restart(a)
      PROVE  Peaked' /\ Labelled'
  <2>1. \A b \in Agents : peak[b].today \in Nat
    BY DEF TypeOK
  <2>2. UNCHANGED <<snap, day, peak>>
    BY <1>3 DEF Restart
  <2>3. \A b \in Agents : spent'[b] = spent[b] \/ spent'[b] = 0
    BY <1>3 DEF Restart, TypeOK
  <2> QED
    BY <2>1, <2>2, <2>3 DEF Peaked, Labelled, Limit
<1>4. CASE Boot \/ Crash \/ SnapshotFails
  <2>1. snap'.todo = {} /\ UNCHANGED <<day, spent, peak>>
    BY <1>4 DEF Boot, Crash, SnapshotFails, Asleep
  <2> QED
    BY <1>1, <2>1
<1>5. CASE BootWithoutDatabase \/ PruneFails \/ PruneStep \/ UNCHANGED vars
  <2>1. UNCHANGED <<day, spent, peak, snap>>
    BY <1>5
    DEF BootWithoutDatabase, PruneFails, PruneStep, StartPrune, RollupTotals, RollupModels,
        PruneEvents, PruneModelEvents, vars
  <2> QED
    BY <1>1, <2>1
<1>6. CASE Midnight
  <2>1. \A a \in Agents : peak'[a].today = spent[a] /\ peak'[a].yesterday = peak[a].today
    BY <1>6 DEF Midnight
  <2>2. UNCHANGED <<snap, spent>> /\ day' # day /\ (snap.todo # {} => snap.began = day)
    BY <1>6, RollupAssumption DEF RollupAssumption, Midnight, SnapAsleep, TypeOK, Days
  <2>3. \A a \in Agents : spent[a] <= spent[a]
    BY DEF TypeOK
  <2>4. \A w \in snap.todo : w.agent \in Agents
    BY DEF TypeOK, Rounds, Write
  <2> QED
    BY <2>1, <2>2, <2>3, <2>4 DEF Peaked, Labelled, Limit
<1>7. CASE Fetch
  BY <1>7, FetchPeaked
<1>8. ASSUME NEW w, Fold(w)
      PROVE  Peaked' /\ Labelled'
  <2>1. snap'.todo \subseteq snap.todo /\ (snap'.began = snap.began \/ snap'.todo = {})
    <3>1. Proceed(w)
      BY <1>8 DEF Fold
    <3>2. CASE snap.todo \ {w} = {}
      BY <3>1, <3>2 DEF Proceed, Asleep
    <3>3. CASE snap.todo \ {w} # {}
      BY <3>1, <3>3 DEF Proceed, TypeOK, Rounds
    <3> QED
      BY <3>2, <3>3
  <2> QED
    BY <1>1, <1>8, <2>1 DEF Fold
<1>9. ASSUME NEW w \in snap.todo, InsertRaw(w) \/ FigureRaises(w)
      PROVE  Peaked' /\ Labelled'
  <2>1. CASE InsertRaw(w)
    <3>1. PICK d : Appends(w, d)
      BY <2>1, InsertAppends
    <3>2. snap'.todo = snap.todo /\ snap'.began = snap.began
      BY <3>1 DEF Appends, TypeOK, Rounds
    <3> QED
      BY <1>1, <2>1, <3>2 DEF InsertRaw
  <2>2. CASE FigureRaises(w)
    BY <1>1, <2>2 DEF FigureRaises, Asleep
  <2> QED
    BY <1>9, <2>1, <2>2
<1> QED
  BY <1>2, <1>3, <1>4, <1>5, <1>6, <1>7, <1>8, <1>9 DEF Next, SnapshotStep

(* Only a snapshot raises a figure of a raw table. *)
LEMMA DeleteLowers ==
  ASSUME TypeOK, NEW S \in SUBSET Series, NEW kept \in [Agents \X S -> Figure],
         Pruned(S, kept), NEW r \in Rows
  PROVE  raw'[r] <= raw[r]
<1>1. /\ raw[r] \in Nat /\ day \in Int /\ Retention \in Int /\ r[3] \in Nat
      /\ r = <<r[1], r[2], r[3]>> /\ r[1] \in Agents
  <2>1. r = <<r[1], r[2], r[3]>> /\ r[1] \in Agents /\ r[3] \in Days
    BY DEF Rows
  <2>2. raw[r] \in Nat
    BY FiguresAreNats DEF TypeOK
  <2>3. day \in Int /\ Retention \in Int
    BY RollupAssumption DEF RollupAssumption, TypeOK, Days
  <2> QED
    BY <2>1, <2>2, <2>3 DEF Days
<1>2. CASE r[2] \notin S \/ r[3] > day - Retention
  BY <1>1, <1>2 DEF Pruned
<1>3. CASE r[2] \in S /\ r[3] < day - Retention
  BY <1>1, <1>3 DEF Pruned
<1>4. CASE r[2] \in S /\ r[3] = day - Retention
  <2>1. raw'[r] = kept[<<r[1], r[2]>>]
    BY <1>1, <1>4 DEF Pruned
  <2>2. <<r[1], r[2]>> \in Agents \X S /\ day >= Retention
    BY <1>1, <1>4
  <2>3. kept[<<r[1], r[2]>>] <= raw[<<r[1], r[2], day - Retention>>]
    BY <2>2 DEF Pruned
  <2> QED
    BY <1>1, <1>4, <2>1, <2>3
<1> QED
  BY <1>1, <1>2, <1>3, <1>4

FiledAs(a, d) ==
  \/ d = day /\ raw'[<<a, Total, d>>] <= Greatest(peak[a].today, peak[a].yesterday)
  \/ d = day - 1 /\ raw'[<<a, Total, d>>] <= peak[a].yesterday

LEMMA InsertFiles ==
  ASSUME TypeOK, InTime, Peaked, Labelled, NEW w \in snap.todo, InsertRaw(w),
         NEW a \in Agents, NEW d \in Days, raw'[<<a, Total, d>>] > raw[<<a, Total, d>>]
  PROVE  FiledAs(a, d)
<1> DEFINE r == <<a, Total, d>>
<1>0. PICK e : Appends(w, e)
  BY InsertAppends
<1>1. /\ w \in Write /\ w.figure \in Nat /\ e \in Days /\ RowOf(w, e) \in Rows
      /\ snap.when <= e /\ e <= day
  BY <1>0, InsertAppends, RowTyped, FiguresAreNats DEF Appends
<1>2. r \in Rows /\ raw[r] \in Nat
  BY FiguresAreNats DEF TypeOK, Rows, Series
<1>3. r = RowOf(w, e)
  <2>1. r # RowOf(w, e) => raw'[r] = raw[r]
    BY <1>0, <1>2 DEF Appends, TypeOK
  <2> QED
    BY <1>2, <2>1
<1>4. a = w.agent /\ w.series = Total /\ d = e
  BY <1>3 DEF RowOf
<1>5. w.kind = "total"
  BY <1>1, <1>4 DEF Labelled, Write
<1>6. raw'[r] = w.figure
  <2>1. raw'[r] = Greatest(raw[r], w.figure)
    BY <1>0, <1>2, <1>3 DEF Appends, TypeOK
  <2> QED
    BY <1>1, <1>2, <2>1 DEF Greatest
<1>7. w.figure <= Limit(a)
  BY <1>4, <1>5 DEF Peaked
<1>8. /\ day \in Int /\ snap.when \in Int /\ snap.began \in Int /\ d \in Int
      /\ peak[a].today \in Nat /\ peak[a].yesterday \in Nat
  BY RollupAssumption DEF RollupAssumption, TypeOK, Rounds, Days
<1>9. /\ day - 1 <= snap.began /\ snap.began <= day
      /\ snap.began <= d /\ d <= day
  <2>1. ~SnapAsleep
    BY DEF SnapAsleep
  <2>2. /\ day - 1 <= snap.began /\ snap.began <= day
        /\ snap.began <= snap.when
    BY <2>1 DEF InTime
  <2> QED
    BY <1>1, <1>4, <1>8, <2>2
<1>10. CASE d = day
  BY <1>1, <1>6, <1>7, <1>8, <1>10 DEF FiledAs, Limit, Greatest
<1>11. CASE d # day
  <2>1. d = day - 1 /\ snap.began = day - 1
    BY <1>8, <1>9, <1>11
  <2> QED
    BY <1>6, <1>7, <1>8, <2>1 DEF FiledAs, Limit
<1> QED
  BY <1>10, <1>11

LEMMA FiledStep ==
  ASSUME TypeOK, InTime, Peaked, Labelled, [Next]_vars
  PROVE  \A a \in Agents, d \in Days :
           raw'[<<a, Total, d>>] > raw[<<a, Total, d>>] => FiledAs(a, d)
<1> SUFFICES ASSUME NEW a \in Agents, NEW d \in Days,
                    raw'[<<a, Total, d>>] > raw[<<a, Total, d>>]
             PROVE  FiledAs(a, d)
  OBVIOUS
<1>1. <<a, Total, d>> \in Rows /\ raw[<<a, Total, d>>] \in Nat
  BY FiguresAreNats DEF TypeOK, Rows, Series
<1>2. raw' # raw
  BY <1>1
<1>3. (\E w \in snap.todo : InsertRaw(w)) \/ PruneEvents \/ PruneModelEvents
  BY <1>2
  DEF Next, vars, tables, SnapshotStep, PruneStep, Spend, Restart, Boot,
      BootWithoutDatabase, Crash, SnapshotFails, PruneFails, Midnight, Fetch, FigureRaises, Fold,
      StartPrune, RollupTotals, RollupModels
<1>4. CASE PruneEvents \/ PruneModelEvents
  <2>1. raw'[<<a, Total, d>>] <= raw[<<a, Total, d>>]
    BY <1>1, <1>4, DeleteLowers DEF PruneEvents, PruneModelEvents, Series
  <2>2. raw'[<<a, Total, d>>] \in Nat
    BY <1>1, TypeStep, FiguresAreNats DEF TypeOK
  <2> QED
    BY <1>1, <2>1, <2>2
<1> QED
  BY <1>3, <1>4, InsertFiles

(* A snapshot of an agent's total is filed under a day on which the agent  *)
(* had that total, or under the day after when the round ran into          *)
(* midnight, and no model's figure gets there (record_cost,                *)
(* record_cost_by_model).                                                  *)
THEOREM SnapshotsAreFiled == Spec => FiledUnderItsDay
<1>1. Init => TypeOK /\ InTime /\ Peaked /\ Labelled
  BY InitTypes, InitCounted, InitPeaked
<1>2. /\ TypeOK /\ InTime /\ Peaked /\ Labelled
      /\ [Next]_vars
      => (TypeOK /\ InTime /\ Peaked /\ Labelled)'
  BY TypeStep, InTimeStep, PeakedStep
<1>3. TypeOK /\ InTime /\ Peaked /\ Labelled /\ [Next]_vars
      => [\A a \in Agents, d \in Days :
            raw'[<<a, Total, d>>] > raw[<<a, Total, d>>] =>
              \/ d = day /\ raw'[<<a, Total, d>>] <= Greatest(peak[a].today, peak[a].yesterday)
              \/ d = day - 1 /\ raw'[<<a, Total, d>>] <= peak[a].yesterday]_vars
  BY FiledStep DEF FiledAs
<1> QED
  BY <1>1, <1>2, <1>3, PTL DEF Spec, FiledUnderItsDay

=============================================================================
