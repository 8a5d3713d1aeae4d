----------------------------- MODULE DashboardProof -----------------------------
(***************************************************************************)
(* Proofs about the two halves of the dashboard.                           *)
(*                                                                         *)
(* Fleet: for every set of agents and of viewers, every time to live of    *)
(* the cache and of the tokens, and every bound on a gather that is below  *)
(* the margin with which a token is renewed.                               *)
(*                                                                         *)
(* DashboardSession: for every finite set of tabs, every number of         *)
(* rotations of the secret, and any supply of nonces that does not run out.*)
(***************************************************************************)
EXTENDS Fleet, DashboardSession, FiniteSetTheorems, FunctionTheorems, TLAPS


-----------------------------------------------------------------------------
(* Fleet: the inductive invariant, in its parts. *)

(* What each board is told of each agent, if nothing gets lost.            *)
Told ==
  [name \in Boards |-> [a \in Agents |-> [p \in Paths |->
     IF p \in Asked(name, a) THEN AnswerOf(a, p) ELSE "none"]]]

Right(name, a, tile) == tile = Composed(Told[name][a])

(* What a gather knows of an agent that has been as it is since before the  *)
(* gather is what the agent still answers, or is still to come.            *)
GatherOK(viewer) ==
  viewer.pc = "gather" => \A a \in Agents, p \in Paths :
    steady[a] > viewer.age =>
      \/ viewer.board[a][p] = "sent" /\ Told[viewer.name][a][p] # "none"
      \/ viewer.board[a][p] = Told[viewer.name][a][p]

GatherInv == \A v \in Viewers : GatherOK(viewers[v])

(* A cached board is right of what has been as it is since before the      *)
(* gather that wrote it.                                                   *)
EntryOK(name, entry) ==
  entry.age < CacheTTL => \A a \in Agents :
    steady[a] > MaxGather + entry.age => Right(name, a, entry.board[a])

CacheInv == \A b \in Boards : EntryOK(b, cache[b])

(* And so is an answer, that of the snapshots with the age of the gather    *)
(* only, as it has never read the cache.                                   *)
AnswerOK(v) ==
  viewers[v].pc = "answered" => \A a \in Agents :
    steady[a] >= LongAgo \/ (v = snapshot /\ steady[a] > MaxGather) =>
      Right(viewers[v].name, a, viewers[v].board[a])

AnswerInv == \A v \in Viewers : AnswerOK(v)

(* The token of a gather outlives what is left of it. *)
TokenInv ==
  \A v \in Viewers :
    viewers[v].pc = "gather" => viewers[v].auth + viewers[v].age > MaxGather

IInv == GatherInv /\ CacheInv /\ AnswerInv /\ TokenInv

-----------------------------------------------------------------------------
(* Facts about the operators. *)

LEMMA NoBoardIsBoard == NoBoard \in Board
  BY DEF NoBoard, Board, NoTile, Tile, Outcomes

LEMMA NoEntryIsEntry == NoEntry \in [board : Board, age : 0..CacheTTL]
  BY NoBoardIsBoard, FleetAssumption DEF NoEntry

LEMMA IdleViewerIsViewer ==
  /\ IdleViewer \in Viewer
  /\ IdleViewer.pc = "idle"
  BY NoBoardIsBoard, FleetAssumption DEF IdleViewer, Viewer, Boards

LEMMA AnswerIsOutcome ==
  ASSUME NEW a, NEW p
  PROVE  AnswerOf(a, p) \in Outcomes \ {"none", "sent"}
  BY DEF AnswerOf, Outcomes

LEMMA ComposedIsTile ==
  ASSUME NEW tile \in Tile
  PROVE  Composed(tile) \in Tile
  BY DEF Composed, Tile, Outcomes

(* An agent's colour follows from the answers that it gives. *)
LEMMA RightShowsAsItIs ==
  ASSUME NEW v \in Viewers, NEW a \in Agents, viewers[v].name \in Boards,
         agents[a] \in States,
         Right(viewers[v].name, a, viewers[v].board[a])
  PROVE  ShownAsItIs(v, a)
<1> DEFINE name == viewers[v].name
           tile == viewers[v].board[a]
<1>1. tile = Composed(Told[name][a])
  BY DEF Right
<1>2. /\ "healthz" \in Paths /\ "readyz" \in Paths /\ "metrics" \in Paths
  BY DEF Paths
<1>3. CASE name = "cost_rollup"
  <2>1. /\ Told[name][a]["healthz"] = "none"
        /\ Told[name][a]["metrics"] = AnswerOf(a, "metrics")
    BY <1>2, <1>3 DEF Told, Asked
  <2>2. tile["metrics"] = AnswerOf(a, "metrics")
    BY <1>1, <2>1 DEF Composed
  <2>3. (AnswerOf(a, "metrics") # "failed") = (agents[a] # "down")
    BY DEF AnswerOf
  <2> QED
    BY <1>3, <2>2, <2>3 DEF ShownAsItIs
<1>4. CASE name # "cost_rollup" /\ a \in batch
  BY <1>4 DEF ShownAsItIs, Status, Colour
<1>5. CASE name # "cost_rollup" /\ a \notin batch
  <2>1. \A p \in Paths : Told[name][a][p] = AnswerOf(a, p)
    BY <1>5 DEF Told, Asked
  <2>2. CASE agents[a] = "down"
    <3>1. tile["healthz"] = "failed"
      BY <1>1, <1>2, <2>1, <2>2 DEF Composed, AnswerOf
    <3> QED
      BY <1>5, <2>2, <3>1 DEF ShownAsItIs, Status, Colour
  <2>3. CASE agents[a] # "down"
    <3>1. tile = Told[name][a]
      BY <1>1, <1>2, <2>1, <2>3 DEF Composed, AnswerOf
    <3>2. /\ tile["healthz"] = "ok"
          /\ tile["readyz"] = IF agents[a] = "unready" THEN "refused" ELSE "ok"
          /\ tile["metrics"] = IF a \in erring THEN "erring" ELSE "ok"
      BY <1>2, <2>1, <2>3, <3>1 DEF AnswerOf
    <3> QED
      BY <1>5, <2>3, <3>2 DEF ShownAsItIs, Status, Colour, States
  <2> QED
    BY <2>2, <2>3
<1> QED
  BY <1>3, <1>4, <1>5

-----------------------------------------------------------------------------
(* Type correctness. *)

LEMMA InitTypeOK == Init => TypeOK
  BY NoEntryIsEntry, IdleViewerIsViewer, FleetAssumption DEF Init, TypeOK, LongAgo

LEMMA GatheringIsViewer ==
  ASSUME NEW name \in Boards, token \in 0..TokenTTL
  PROVE  [pc |-> "gather", name |-> name, age |-> 0, auth |-> Fresh(token),
          board |-> [a \in Agents |-> [p \in Paths |->
                       IF p \in Asked(name, a) THEN "sent" ELSE "none"]]] \in Viewer
<1>1. Fresh(token) \in 0..TokenTTL
  BY FleetAssumption DEF Fresh, Reusable
<1>2. [a \in Agents |-> [p \in Paths |->
         IF p \in Asked(name, a) THEN "sent" ELSE "none"]] \in Board
  BY DEF Board, Tile, Outcomes
<1> HIDE DEF Fresh
<1> QED
  BY <1>1, <1>2, FleetAssumption DEF Viewer

(* The board that a gather writes back. *)
GatheredBoard(v) == [a \in Agents |-> Composed(viewers[v].board[a])]

LEMMA GatheredIsBoard ==
  ASSUME TypeOK, NEW v \in Viewers
  PROVE  GatheredBoard(v) \in Board
<1>1. viewers[v].board \in [Agents -> Tile]
  BY DEF TypeOK, Viewer, Board
<1>2. \A a \in Agents : Composed(viewers[v].board[a]) \in Tile
  BY <1>1, ComposedIsTile
<1> QED
  BY <1>2 DEF GatheredBoard, Board

LEMMA AgedIsViewer ==
  ASSUME NEW viewer \in Viewer, viewer.pc = "gather" => viewer.age < MaxGather
  PROVE  Aged(viewer) \in Viewer
<1>1. CASE viewer.pc = "gather"
  <2>1. viewer.age + 1 \in 0..MaxGather /\ Less(viewer.auth) \in 0..TokenTTL
    BY <1>1, FleetAssumption DEF Viewer, Less
  <2>2. Aged(viewer) = [viewer EXCEPT !.age = viewer.age + 1, !.auth = Less(viewer.auth)]
    BY <1>1 DEF Aged
  <2> HIDE DEF Less
  <2> QED
    BY <2>1, <2>2 DEF Viewer
<1>2. CASE viewer.pc # "gather"
  BY <1>2, IdleViewerIsViewer DEF Aged
<1> QED
  BY <1>1, <1>2

LEMMA OlderIsEntry ==
  ASSUME NEW entry \in [board : Board, age : 0..CacheTTL]
  PROVE  Older(entry) \in [board : Board, age : 0..CacheTTL]
  BY NoEntryIsEntry, FleetAssumption DEF Older

LEMMA TypeStep ==
  ASSUME TypeOK, [Next]_vars
  PROVE  TypeOK'
<1> USE DEF TypeOK
<1>1. ASSUME NEW v \in Viewers, NEW name \in Boards, Hit(v, name)
      PROVE  TypeOK'
  <2>1. [IdleViewer EXCEPT !.pc = "answered", !.name = name,
                           !.board = cache[name].board] \in Viewer
    BY IdleViewerIsViewer DEF Viewer
  <2>2. viewers' \in [Viewers -> Viewer]
    BY <1>1, <2>1 DEF Hit
  <2>3. cache' = cache
    BY <1>1 DEF Hit, OnHit
  <2> QED
    BY <1>1, <2>2, <2>3 DEF Hit
<1>2. ASSUME NEW v \in Viewers, NEW name \in Boards, Gather(v, name)
      PROVE  TypeOK'
  <2>1. viewers' \in [Viewers -> Viewer]
    BY <1>2, GatheringIsViewer DEF Gather
  <2>2. token' \in 0..TokenTTL
    BY <1>2, FleetAssumption DEF Gather, Fresh
  <2> QED
    BY <1>2, <2>1, <2>2 DEF Gather
<1>3. ASSUME NEW v \in Viewers, NEW a \in Agents, NEW p \in Paths, NEW lost \in BOOLEAN,
             Answered(v, a, p, lost)
      PROVE  TypeOK'
  <2> DEFINE outcome == IF lost THEN "failed" ELSE AnswerOf(a, p)
  <2>1. outcome \in Outcomes
    BY AnswerIsOutcome DEF Outcomes
  <2>2. viewers' = [viewers EXCEPT ![v].board[a][p] = outcome]
    BY <1>3 DEF Answered
  <2> HIDE DEF outcome
  <2>3. viewers[v] \in Viewer /\ viewers[v].board \in Board
    BY DEF Viewer
  <2>4. [viewers[v].board EXCEPT ![a][p] = outcome] \in Board
    BY <2>1, <2>3 DEF Board, Tile
  <2>5. [viewers[v] EXCEPT !.board[a][p] = outcome] \in Viewer
    BY <2>3, <2>4 DEF Viewer
  <2>6. viewers' \in [Viewers -> Viewer]
    BY <2>2, <2>5
  <2>7. steady' \in [Agents -> 0..LongAgo]
    BY <1>3, FleetAssumption DEF Answered, LongAgo
  <2> QED
    BY <1>3, <2>6, <2>7 DEF Answered
<1>4. ASSUME NEW v \in Viewers, NEW works \in BOOLEAN, WriteBack(v, works)
      PROVE  TypeOK'
  <2> DEFINE board == GatheredBoard(v)
  <2>1. board \in Board
    BY GatheredIsBoard
  <2>2. /\ cache' = IF works THEN [cache EXCEPT ![viewers[v].name] = [board |-> board, age |-> 0]]
                    ELSE cache
        /\ viewers' = [viewers EXCEPT ![v] =
             [IdleViewer EXCEPT !.pc = "answered", !.name = viewers[v].name, !.board = board]]
    BY <1>4 DEF WriteBack, GatheredBoard
  <2> HIDE DEF board
  <2>3. [board |-> board, age |-> 0] \in [board : Board, age : 0..CacheTTL]
    BY <2>1, FleetAssumption
  <2>4. cache' \in [Boards -> [board : Board, age : 0..CacheTTL]]
    BY <2>2, <2>3
  <2>5. [IdleViewer EXCEPT !.pc = "answered", !.name = viewers[v].name,
                           !.board = board] \in Viewer
    BY <2>1, IdleViewerIsViewer DEF Viewer
  <2>6. viewers' \in [Viewers -> Viewer]
    BY <2>2, <2>5
  <2> QED
    BY <1>4, <2>4, <2>6 DEF WriteBack
<1>5. ASSUME NEW v \in Viewers, Raises(v)
      PROVE  TypeOK'
  BY <1>5, IdleViewerIsViewer DEF Raises
<1>6. ASSUME NEW a \in Agents, NEW to \in States, Changes(a, to)
      PROVE  TypeOK'
  BY <1>6, FleetAssumption DEF Changes, LongAgo
<1>7. CASE CacheLost
  BY <1>7, NoEntryIsEntry DEF CacheLost
<1>8. CASE Tick
  <2>1. viewers' \in [Viewers -> Viewer]
    BY <1>8, AgedIsViewer DEF Tick
  <2>2. cache' \in [Boards -> [board : Board, age : 0..CacheTTL]]
    BY <1>8, OlderIsEntry DEF Tick
  <2>3. token' \in 0..TokenTTL
    BY <1>8, FleetAssumption DEF Tick, Less
  <2>4. steady' \in [Agents -> 0..LongAgo]
    BY <1>8, FleetAssumption DEF Tick, LongAgo
  <2> QED
    BY <1>8, <2>1, <2>2, <2>3, <2>4 DEF Tick
<1>9. CASE UNCHANGED vars
  BY <1>9 DEF vars
<1> QED
  BY <1>1, <1>2, <1>3, <1>4, <1>5, <1>6, <1>7, <1>8, <1>9 DEF Next

(* Every variable of Fleet stays within its type: gathers, cached boards    *)
(* and tokens do not outlast their bounds (aggregator.py, auth.py).         *)
THEOREM TypeCorrect == Spec => []TypeOK
<1>1. Init => TypeOK
  BY InitTypeOK
<1>2. TypeOK /\ [Next]_vars => TypeOK'
  BY TypeStep
<1> QED
  BY <1>1, <1>2, PTL DEF Spec

-----------------------------------------------------------------------------
(* The steps. *)

LEMMA InitInv == Init => IInv
<1> SUFFICES ASSUME Init PROVE IInv
  OBVIOUS
<1>1. GatherInv /\ AnswerInv /\ TokenInv
  BY DEF Init, GatherInv, GatherOK, AnswerInv, AnswerOK, TokenInv, IdleViewer
<1>2. CacheInv
  BY FleetAssumption DEF Init, CacheInv, EntryOK, NoEntry
<1> QED
  BY <1>1, <1>2 DEF IInv

(* An agent that has not just changed, nor lost an answer, answers as       *)
(* before.                                                                 *)
LEMMA ToldIsKept ==
  ASSUME TypeOK, [Next]_vars, NEW a \in Agents, steady'[a] # 0, NEW name \in Boards
  PROVE  Told'[name][a] = Told[name][a]
<1>1. agents'[a] = agents[a]
  <2>1. ASSUME NEW b \in Agents, NEW to \in States, Changes(b, to)
        PROVE  agents'[a] = agents[a]
    BY <2>1 DEF Changes, TypeOK
  <2> QED
    BY <2>1 DEF Next, vars, Hit, Gather, Answered, WriteBack, Raises, CacheLost, Tick
<1>2. batch' = batch /\ erring' = erring
  BY DEF Next, vars, Hit, Gather, Answered, WriteBack, Raises, CacheLost, Tick, Changes
<1> QED
  BY <1>1, <1>2 DEF Told, Asked, AnswerOf

(* Only a tick makes an agent steadier, by one. *)
LEMMA SteadyMoves ==
  ASSUME TypeOK, [Next]_vars, NEW a \in Agents
  PROVE  /\ steady[a] \in Nat /\ steady'[a] \in Nat
         /\ steady'[a] <= LongAgo
         /\ ~Tick => steady'[a] <= steady[a]
         /\ steady'[a] <= steady[a] + 1
<1>1. steady[a] \in 0..LongAgo /\ steady'[a] \in 0..LongAgo
  BY TypeStep DEF TypeOK
<1>2. ASSUME NEW v \in Viewers, NEW b \in Agents, NEW p \in Paths, NEW lost \in BOOLEAN,
             Answered(v, b, p, lost)
      PROVE  steady'[a] <= steady[a]
  BY <1>1, <1>2, FleetAssumption DEF Answered, TypeOK, LongAgo
<1>3. ASSUME NEW b \in Agents, NEW to \in States, Changes(b, to)
      PROVE  steady'[a] <= steady[a]
  BY <1>1, <1>3, FleetAssumption DEF Changes, TypeOK, LongAgo
<1>4. Tick => steady'[a] <= steady[a] + 1
  BY <1>1, FleetAssumption DEF Tick, LongAgo
<1>5. steady' = steady => steady'[a] <= steady[a]
  BY <1>1, FleetAssumption DEF LongAgo
<1>6. Tick \/ steady'[a] <= steady[a]
  BY <1>2, <1>3, <1>5 DEF Next, vars, Hit, Gather, WriteBack, Raises, CacheLost
<1> QED
  BY <1>1, <1>4, <1>6, FleetAssumption DEF LongAgo

-----------------------------------------------------------------------------
(* The gathers. *)

(* A gather that goes on with the answers it has, older by as much as the   *)
(* agents are steadier, is as right as it was.                             *)
LEMMA GatherGoesOn ==
  ASSUME TypeOK, [Next]_vars, NEW v \in Viewers, GatherOK(viewers[v]),
         viewers'[v].pc = "gather" =>
           /\ viewers[v].pc = "gather"
           /\ viewers'[v].name = viewers[v].name
           /\ viewers'[v].board = viewers[v].board
           /\ \A a \in Agents :
                steady'[a] - steady[a] <= viewers'[v].age - viewers[v].age
  PROVE  GatherOK(viewers[v])'
<1> SUFFICES ASSUME viewers'[v].pc = "gather", NEW a \in Agents, NEW p \in Paths,
                    steady'[a] > viewers'[v].age
             PROVE  \/ /\ viewers'[v].board[a][p] = "sent"
                       /\ Told'[viewers'[v].name][a][p] # "none"
                    \/ viewers'[v].board[a][p] = Told'[viewers'[v].name][a][p]
  BY DEF GatherOK
<1>1. viewers[v] \in Viewer /\ viewers'[v] \in Viewer
  BY TypeStep DEF TypeOK
<1>2. viewers[v].age \in Nat /\ viewers'[v].age \in Nat /\ viewers[v].name \in Boards
  BY <1>1, FleetAssumption DEF Viewer
<1>3. steady[a] \in Nat /\ steady'[a] \in Nat
  BY SteadyMoves
<1>4. steady[a] > viewers[v].age /\ steady'[a] # 0
  BY <1>2, <1>3
<1>5. Told'[viewers[v].name][a] = Told[viewers[v].name][a]
  BY <1>2, <1>4, ToldIsKept
<1> QED
  BY <1>4, <1>5 DEF GatherOK

LEMMA GatherBegins ==
  ASSUME TypeOK, NEW v \in Viewers, NEW name \in Boards, Gather(v, name)
  PROVE  GatherOK(viewers[v])'
<1>1. viewers'[v] = [pc |-> "gather", name |-> name, age |-> 0, auth |-> Fresh(token),
                     board |-> [a \in Agents |-> [p \in Paths |->
                       IF p \in Asked(name, a) THEN "sent" ELSE "none"]]]
  BY DEF Gather, TypeOK
<1>2. batch' = batch /\ erring' = erring /\ agents' = agents
  BY DEF Gather
<1>3. ASSUME NEW a \in Agents, NEW p \in Paths
      PROVE  \/ viewers'[v].board[a][p] = "sent" /\ Told'[name][a][p] # "none"
             \/ viewers'[v].board[a][p] = Told'[name][a][p]
  <2>1. CASE p \in Asked(name, a)
    <3>1. AnswerOf(a, p) # "none"
      BY AnswerIsOutcome
    <3>2. Told'[name][a][p] # "none"
      BY <1>2, <2>1, <3>1 DEF Told, Asked, AnswerOf
    <3>3. viewers'[v].board[a][p] = "sent"
      BY <1>1, <2>1
    <3> QED
      BY <3>2, <3>3
  <2>2. CASE p \notin Asked(name, a)
    BY <1>1, <1>2, <2>2 DEF Told, Asked
  <2> QED
    BY <2>1, <2>2
<1> QED
  BY <1>1, <1>3 DEF GatherOK

LEMMA GatherIsAnswered ==
  ASSUME TypeOK, [Next]_vars, NEW v \in Viewers, GatherOK(viewers[v]),
         NEW b \in Agents, NEW q \in Paths, NEW lost \in BOOLEAN, Answered(v, b, q, lost)
  PROVE  GatherOK(viewers[v])'
<1> DEFINE outcome == IF lost THEN "failed" ELSE AnswerOf(b, q)
<1>1. /\ viewers[v].pc = "gather" /\ viewers[v].board[b][q] = "sent"
      /\ viewers[v] \in Viewer /\ viewers[v].board \in [Agents -> [Paths -> Outcomes]]
  BY DEF Answered, TypeOK, Viewer, Board, Tile
<1>2. viewers' = [viewers EXCEPT ![v].board[b][q] = outcome]
  BY DEF Answered
<1> HIDE DEF outcome
<1>3. viewers'[v] = [viewers[v] EXCEPT !.board = [viewers[v].board EXCEPT ![b][q] = outcome]]
  BY <1>2 DEF TypeOK
<1>4. /\ viewers'[v].name = viewers[v].name /\ viewers'[v].age = viewers[v].age
      /\ viewers'[v].board = [viewers[v].board EXCEPT ![b][q] = outcome]
      /\ viewers[v].name \in Boards /\ viewers[v].age \in Nat
  BY <1>1, <1>3, FleetAssumption DEF Viewer
<1> DEFINE name == viewers[v].name
<1>5. ASSUME NEW a \in Agents, NEW p \in Paths, steady'[a] > viewers[v].age
      PROVE  \/ viewers'[v].board[a][p] = "sent" /\ Told'[name][a][p] # "none"
             \/ viewers'[v].board[a][p] = Told'[name][a][p]
  <2>1. /\ steady[a] \in Nat /\ steady'[a] \in Nat
        /\ steady'[a] = steady[a] \/ steady'[a] = 0
    BY SteadyMoves DEF Answered, TypeOK
  <2>2. steady[a] > viewers[v].age /\ steady'[a] # 0
    BY <1>4, <1>5, <2>1
  <2>3. Told'[name][a] = Told[name][a]
    BY <1>4, <2>2, ToldIsKept
  <2>4. \/ viewers[v].board[a][p] = "sent" /\ Told[name][a][p] # "none"
        \/ viewers[v].board[a][p] = Told[name][a][p]
    BY <1>1, <2>2 DEF GatherOK
  <2>5. CASE a = b /\ p = q
    <3>1. viewers'[v].board[a][p] = outcome
      BY <1>1, <1>4, <2>5
    <3>2. Told[name][a][p] \in {"none", AnswerOf(a, p)} /\ AnswerOf(a, p) \notin {"none", "sent"}
      BY <1>4, AnswerIsOutcome DEF Told
    <3>3. Told[name][a][p] = AnswerOf(a, p)
      BY <1>1, <2>4, <2>5, <3>2
    <3>4. lost => agents[a] = "down"
      BY <2>2, <2>5 DEF Answered, TypeOK
    <3>5. outcome = AnswerOf(a, p)
      BY <2>5, <3>4 DEF outcome, AnswerOf
    <3> QED
      BY <2>3, <3>1, <3>3, <3>5
  <2>6. CASE ~(a = b /\ p = q)
    <3>1. viewers'[v].board[a][p] = viewers[v].board[a][p]
      BY <1>1, <1>4, <2>6
    <3> QED
      BY <2>3, <2>4, <3>1
  <2> QED
    BY <2>5, <2>6
<1> QED
  BY <1>4, <1>5 DEF GatherOK

LEMMA GatherStep ==
  ASSUME TypeOK, GatherInv, [Next]_vars
  PROVE  GatherInv'
<1> SUFFICES ASSUME NEW w \in Viewers
             PROVE  GatherOK(viewers[w])'
  BY DEF GatherInv
<1>0. /\ GatherOK(viewers[w])
      /\ viewers[w] \in Viewer
      /\ viewers[w].age \in Nat
  BY FleetAssumption DEF GatherInv, TypeOK, Viewer
<1>1. CASE /\ viewers'[w] = viewers[w] \/ viewers'[w].pc # "gather"
           /\ ~Tick
  <2>1. \A a \in Agents : steady'[a] - steady[a] <= 0
    BY <1>1, SteadyMoves
  <2>2. viewers'[w] = viewers[w] => viewers'[w].age - viewers[w].age = 0
    BY <1>0
  <2> QED
    BY <1>0, <1>1, <2>1, <2>2, GatherGoesOn
<1>2. CASE Tick
  <2>1. viewers'[w] = Aged(viewers[w])
    BY <1>2 DEF Tick
  <2>2. CASE viewers[w].pc = "gather"
    <3>1. /\ viewers'[w].name = viewers[w].name /\ viewers'[w].board = viewers[w].board
          /\ viewers'[w].age = viewers[w].age + 1
      BY <1>0, <2>1, <2>2 DEF Aged, Viewer
    <3>2. \A a \in Agents : steady'[a] - steady[a] <= viewers'[w].age - viewers[w].age
      BY <1>0, <3>1, SteadyMoves
    <3> QED
      BY <1>0, <2>2, <3>1, <3>2, GatherGoesOn
  <2>3. CASE viewers[w].pc # "gather"
    BY <2>1, <2>3 DEF Aged, IdleViewer, GatherOK
  <2> QED
    BY <2>2, <2>3
<1>3. ASSUME ~Tick, NEW v \in Viewers, NEW name \in Boards, Hit(v, name)
      PROVE  GatherOK(viewers[w])'
  BY <1>1, <1>3 DEF Hit, TypeOK
<1>4. ASSUME ~Tick, NEW v \in Viewers, NEW name \in Boards, Gather(v, name)
      PROVE  GatherOK(viewers[w])'
  <2>1. w # v => viewers'[w] = viewers[w]
    BY <1>4 DEF Gather, TypeOK
  <2> QED
    BY <1>1, <1>4, <2>1, GatherBegins
<1>5. ASSUME ~Tick, NEW v \in Viewers, NEW a \in Agents, NEW p \in Paths,
             NEW lost \in BOOLEAN, Answered(v, a, p, lost)
      PROVE  GatherOK(viewers[w])'
  <2>1. w # v => viewers'[w] = viewers[w]
    BY <1>5 DEF Answered, TypeOK
  <2> QED
    BY <1>0, <1>1, <1>5, <2>1, GatherIsAnswered
<1>6. ASSUME ~Tick, NEW v \in Viewers, NEW works \in BOOLEAN, WriteBack(v, works)
      PROVE  GatherOK(viewers[w])'
  <2>1. viewers'[w] = viewers[w] \/ viewers'[w].pc = "answered"
    BY <1>6 DEF WriteBack, TypeOK
  <2> QED
    BY <1>1, <1>6, <2>1
<1>7. ASSUME ~Tick, NEW v \in Viewers, Raises(v)
      PROVE  GatherOK(viewers[w])'
  BY <1>1, <1>7 DEF Raises, TypeOK, IdleViewer
<1>8. CASE ~Tick /\ viewers' = viewers
  BY <1>1, <1>8
<1> QED
  BY <1>2, <1>3, <1>4, <1>5, <1>6, <1>7, <1>8 DEF Next, vars, Changes, CacheLost

-----------------------------------------------------------------------------
(* The cache. *)

(* A board that stays in the cache, older by as much as the agents are      *)
(* steadier, is as right as it was.                                        *)
LEMMA EntryGoesOn ==
  ASSUME TypeOK, [Next]_vars, NEW b \in Boards, EntryOK(b, cache[b]),
         cache'[b].age < CacheTTL =>
           /\ cache'[b].board = cache[b].board
           /\ \A a \in Agents : steady'[a] - steady[a] <= cache'[b].age - cache[b].age
  PROVE  EntryOK(b, cache[b])'
<1> SUFFICES ASSUME cache'[b].age < CacheTTL, NEW a \in Agents,
                    steady'[a] > MaxGather + cache'[b].age
             PROVE  cache'[b].board[a] = Composed(Told'[b][a])
  BY DEF EntryOK, Right, Composed
<1>1. cache[b].age \in 0..CacheTTL /\ cache'[b].age \in 0..CacheTTL
  BY TypeStep DEF TypeOK
<1>2. steady[a] \in Nat /\ steady'[a] \in Nat /\ steady'[a] <= LongAgo
  BY SteadyMoves
<1>3. steady[a] > MaxGather + cache[b].age /\ steady'[a] # 0
  BY <1>1, <1>2, FleetAssumption
<1>4. cache[b].age < CacheTTL
  <2>1. CASE cache[b].age = CacheTTL
    BY <1>1, <1>2, <1>3, <2>1, TypeStep, SteadyMoves, FleetAssumption DEF TypeOK, LongAgo
  <2> QED
    BY <1>1, <2>1, FleetAssumption
<1>5. Told'[b][a] = Told[b][a]
  BY <1>3, ToldIsKept
<1> QED
  BY <1>3, <1>4, <1>5 DEF EntryOK, Right

(* What a gather that has ended composes. *)
LEMMA GatheredIsRight ==
  ASSUME TypeOK, GatherInv, [Next]_vars, NEW v \in Viewers, NEW works \in BOOLEAN,
         WriteBack(v, works), NEW a \in Agents, steady[a] > MaxGather
  PROVE  GatheredBoard(v)[a] = Composed(Told'[viewers[v].name][a])
<1>1. /\ viewers[v] \in Viewer /\ viewers[v].pc = "gather" /\ viewers[v].name \in Boards
      /\ viewers[v].board[a] \in Tile
      /\ viewers[v].age \in 0..MaxGather /\ steady[a] \in Nat
  BY SteadyMoves DEF WriteBack, TypeOK, Viewer, Board
<1>2. ASSUME NEW p \in Paths
      PROVE  viewers[v].board[a][p] # "sent"
  <2>1. <<a, p>> \in Agents \X Paths /\ Pending(v) = {}
    BY DEF WriteBack
  <2>2. <<a, p>> \notin Pending(v)
    BY <2>1
  <2> QED
    BY <2>1, <2>2 DEF Pending
<1>3. steady[a] > viewers[v].age
  BY <1>1, FleetAssumption
<1>4. \A p \in Paths : viewers[v].board[a][p] = Told[viewers[v].name][a][p]
  BY <1>1, <1>2, <1>3 DEF GatherInv, GatherOK
<1>5. viewers[v].board[a] = Told[viewers[v].name][a]
  BY <1>1, <1>4 DEF Told, Tile
<1>6. Told'[viewers[v].name][a] = Told[viewers[v].name][a]
  BY <1>1, ToldIsKept, FleetAssumption DEF WriteBack
<1> QED
  BY <1>5, <1>6 DEF GatheredBoard

LEMMA CacheStep ==
  ASSUME TypeOK, GatherInv, CacheInv, [Next]_vars
  PROVE  CacheInv'
<1> SUFFICES ASSUME NEW b \in Boards
             PROVE  EntryOK(b, cache[b])'
  BY DEF CacheInv
<1>0. /\ EntryOK(b, cache[b])
      /\ cache[b].age \in Nat
  BY FleetAssumption DEF CacheInv, TypeOK
<1>1. CASE cache'[b] = cache[b] /\ ~Tick
  <2>1. \A a \in Agents : steady'[a] - steady[a] <= 0
    BY <1>1, SteadyMoves
  <2> QED
    BY <1>0, <1>1, <2>1, EntryGoesOn
<1>2. CASE Tick
  <2>1. cache'[b] = Older(cache[b])
    BY <1>2 DEF Tick
  <2>2. CASE cache[b].age + 1 < CacheTTL
    <3>1. cache'[b].age = cache[b].age + 1 /\ cache'[b].board = cache[b].board
      BY <2>1, <2>2 DEF Older, TypeOK
    <3>2. \A a \in Agents : steady'[a] - steady[a] <= cache'[b].age - cache[b].age
      BY <1>0, <3>1, SteadyMoves
    <3> QED
      BY <1>0, <3>1, <3>2, EntryGoesOn
  <2>3. CASE ~(cache[b].age + 1 < CacheTTL)
    BY <2>1, <2>3, FleetAssumption DEF Older, NoEntry, EntryOK
  <2> QED
    BY <2>2, <2>3
<1>3. ASSUME ~Tick, NEW v \in Viewers, NEW works \in BOOLEAN, WriteBack(v, works)
      PROVE  EntryOK(b, cache[b])'
  <2>1. CASE works /\ b = viewers[v].name
    <3>1. cache'[b] = [board |-> GatheredBoard(v), age |-> 0]
      BY <1>3, <2>1 DEF WriteBack, GatheredBoard, TypeOK
    <3>2. ASSUME NEW a \in Agents, steady'[a] > MaxGather
          PROVE  GatheredBoard(v)[a] = Composed(Told'[b][a])
      BY <1>3, <2>1, <3>2, GatheredIsRight DEF WriteBack
    <3>3. \A a \in Agents : steady'[a] > MaxGather + 0 => steady'[a] > MaxGather
      BY FleetAssumption
    <3> QED
      BY <3>1, <3>2, <3>3 DEF EntryOK, Right, Composed
  <2>2. CASE ~(works /\ b = viewers[v].name)
    <3>1. cache'[b] = cache[b]
      BY <1>3, <2>2 DEF WriteBack, TypeOK
    <3> QED
      BY <1>1, <1>3, <3>1
  <2> QED
    BY <2>1, <2>2
<1>4. CASE CacheLost
  BY <1>4, FleetAssumption DEF CacheLost, NoEntry, EntryOK
<1>5. ASSUME ~Tick, NEW v \in Viewers, NEW name \in Boards, Hit(v, name)
      PROVE  EntryOK(b, cache[b])'
  <2>1. cache' = cache
    BY <1>5 DEF Hit, OnHit, TypeOK
  <2> QED
    BY <1>1, <1>5, <2>1
<1>6. CASE ~Tick /\ cache' = cache
  BY <1>1, <1>6
<1> QED
  BY <1>2, <1>3, <1>4, <1>5, <1>6 DEF Next, vars, Gather, Answered, Raises, Changes

-----------------------------------------------------------------------------
(* The answers. *)

LEMMA AnswerStep ==
  ASSUME TypeOK, GatherInv, CacheInv, AnswerInv, [Next]_vars
  PROVE  AnswerInv'
<1> SUFFICES ASSUME NEW w \in Viewers, viewers'[w].pc = "answered", NEW a \in Agents,
                    steady'[a] >= LongAgo \/ (w = snapshot /\ steady'[a] > MaxGather)
             PROVE  viewers'[w].board[a] = Composed(Told'[viewers'[w].name][a])
  BY DEF AnswerInv, AnswerOK, Right, Composed
<1>0. ASSUME Tick
      PROVE  FALSE
  <2>1. viewers'[w] = Aged(viewers[w]) /\ viewers[w] \in Viewer
    BY <1>0 DEF Tick, TypeOK
  <2>2. Aged(viewers[w]).pc # "answered"
    BY <2>1 DEF Aged, IdleViewer, Viewer
  <2> QED
    BY <2>1, <2>2
<1>1. /\ steady[a] \in Nat /\ steady'[a] \in Nat /\ steady'[a] <= steady[a]
      /\ steady'[a] > MaxGather
  BY <1>0, SteadyMoves, FleetAssumption DEF LongAgo
<1>2. \A name \in Boards : Told'[name][a] = Told[name][a]
  BY <1>1, ToldIsKept, FleetAssumption
<1>3. CASE viewers'[w] = viewers[w]
  <2>1. viewers[w].name \in Boards
    BY DEF TypeOK, Viewer
  <2>2. steady[a] >= LongAgo \/ (w = snapshot /\ steady[a] > MaxGather)
    BY <1>1, FleetAssumption DEF LongAgo
  <2>3. viewers[w].board[a] = Composed(Told[viewers[w].name][a])
    BY <1>3, <2>2 DEF AnswerInv, AnswerOK, Right
  <2> QED
    BY <1>2, <1>3, <2>1, <2>3
<1>4. ASSUME NEW v \in Viewers, NEW name \in Boards, Hit(v, name), w = v
      PROVE  viewers'[w].board[a] = Composed(Told'[viewers'[w].name][a])
  <2>1. /\ viewers'[w].name = name /\ viewers'[w].board = cache[name].board
        /\ w # snapshot /\ cache[name].age < CacheTTL /\ cache[name].age \in Nat
    BY <1>4, FleetAssumption DEF Hit, Cached, SkipsCache, IdleViewer, TypeOK
  <2>2. steady[a] > MaxGather + cache[name].age
    BY <1>1, <2>1, FleetAssumption DEF LongAgo
  <2>3. cache[name].board[a] = Composed(Told[name][a])
    BY <2>1, <2>2 DEF CacheInv, EntryOK, Right
  <2> QED
    BY <1>2, <2>1, <2>3
<1>5. ASSUME NEW v \in Viewers, NEW works \in BOOLEAN, WriteBack(v, works), w = v
      PROVE  viewers'[w].board[a] = Composed(Told'[viewers'[w].name][a])
  <2>1. viewers'[w].name = viewers[w].name /\ viewers'[w].board = GatheredBoard(w)
    BY <1>5 DEF WriteBack, GatheredBoard, IdleViewer, TypeOK
  <2>2. steady[a] > MaxGather
    BY <1>1, FleetAssumption
  <2> QED
    BY <1>5, <2>1, <2>2, GatheredIsRight
<1>6. ASSUME NEW v \in Viewers, NEW name \in Boards, Hit(v, name) \/ Gather(v, name), w # v
      PROVE  viewers'[w] = viewers[w]
  BY <1>6 DEF Hit, Gather, TypeOK
<1>7. ASSUME NEW v \in Viewers, NEW name \in Boards, Gather(v, name)
      PROVE  w # v
  BY <1>7 DEF Gather, TypeOK
<1>8. ASSUME NEW v \in Viewers, NEW b \in Agents, NEW p \in Paths, NEW lost \in BOOLEAN,
             Answered(v, b, p, lost)
      PROVE  viewers'[w] = viewers[w]
  BY <1>8 DEF Answered, TypeOK, Viewer
<1>9. ASSUME NEW v \in Viewers, NEW works \in BOOLEAN, WriteBack(v, works), w # v
      PROVE  viewers'[w] = viewers[w]
  BY <1>9 DEF WriteBack, TypeOK
<1>10. ASSUME NEW v \in Viewers, Raises(v)
       PROVE  viewers'[w] = viewers[w]
  BY <1>10 DEF Raises, TypeOK, IdleViewer
<1>11. CASE viewers' = viewers
  BY <1>3, <1>11
<1> QED
  BY <1>0, <1>3, <1>4, <1>5, <1>6, <1>7, <1>8, <1>9, <1>10, <1>11
  DEF Next, vars, Changes, CacheLost

-----------------------------------------------------------------------------
(* The token. *)

LEMMA FreshIsLong ==
  ASSUME token \in 0..TokenTTL
  PROVE  Fresh(token) > MaxGather
  BY FleetAssumption DEF Fresh, Reusable

LEMMA TokenStep ==
  ASSUME TypeOK, TokenInv, [Next]_vars
  PROVE  TokenInv'
<1> SUFFICES ASSUME NEW w \in Viewers, viewers'[w].pc = "gather"
             PROVE  viewers'[w].auth + viewers'[w].age > MaxGather
  BY DEF TokenInv
<1>0. viewers[w] \in Viewer
  BY DEF TypeOK
<1>1. CASE viewers'[w].pc = viewers[w].pc /\ viewers'[w].auth = viewers[w].auth
           /\ viewers'[w].age = viewers[w].age
  BY <1>1 DEF TokenInv
<1>2. CASE Tick
  <2>1. viewers'[w] = Aged(viewers[w])
    BY <1>2 DEF Tick
  <2>2. viewers[w].pc = "gather"
    BY <2>1 DEF Aged, IdleViewer
  <2>3. /\ viewers'[w].age = viewers[w].age + 1
        /\ viewers'[w].auth = Less(viewers[w].auth)
    BY <1>0, <2>1, <2>2 DEF Aged, Viewer
  <2>4. viewers[w].auth + viewers[w].age > MaxGather
    BY <2>2 DEF TokenInv
  <2>5. viewers[w].auth \in Nat /\ viewers[w].age \in Nat
    BY <1>0, FleetAssumption DEF Viewer
  <2> QED
    BY <2>3, <2>4, <2>5, FleetAssumption DEF Less
<1>3. ASSUME NEW v \in Viewers, NEW name \in Boards, Hit(v, name)
      PROVE  viewers'[w] = viewers[w]
  BY <1>3 DEF Hit, TypeOK, IdleViewer
<1>4. ASSUME NEW v \in Viewers, NEW name \in Boards, Gather(v, name)
      PROVE  viewers'[w].auth + viewers'[w].age > MaxGather
  <2>1. CASE w = v
    <3>1. viewers'[w].auth = Fresh(token) /\ viewers'[w].age = 0
      BY <1>4, <2>1 DEF Gather, TypeOK
    <3>2. Fresh(token) \in 0..TokenTTL
      BY FleetAssumption DEF Fresh, TypeOK
    <3> QED
      BY <3>1, <3>2, FreshIsLong, FleetAssumption DEF TypeOK
  <2>2. CASE w # v
    BY <1>1, <1>4, <2>2 DEF Gather, TypeOK
  <2> QED
    BY <2>1, <2>2
<1>5. ASSUME NEW v \in Viewers, NEW b \in Agents, NEW p \in Paths, NEW lost \in BOOLEAN,
             Answered(v, b, p, lost)
      PROVE  viewers'[w].auth + viewers'[w].age > MaxGather
  BY <1>0, <1>1, <1>5 DEF Answered, TypeOK, Viewer
<1>6. ASSUME NEW v \in Viewers, NEW works \in BOOLEAN, WriteBack(v, works)
      PROVE  viewers'[w] = viewers[w]
  BY <1>6 DEF WriteBack, TypeOK, IdleViewer
<1>7. ASSUME NEW v \in Viewers, Raises(v)
      PROVE  viewers'[w] = viewers[w]
  BY <1>7 DEF Raises, TypeOK, IdleViewer
<1>8. CASE viewers' = viewers
  BY <1>1, <1>8
<1> QED
  BY <1>1, <1>2, <1>3, <1>4, <1>5, <1>6, <1>7, <1>8 DEF Next, vars, Changes, CacheLost

-----------------------------------------------------------------------------
(* The theorems. *)

LEMMA Inductive == Spec => [](TypeOK /\ IInv)
<1>1. Init => TypeOK /\ IInv
  BY InitTypeOK, InitInv
<1>2. TypeOK /\ IInv /\ [Next]_vars => TypeOK' /\ IInv'
  BY TypeStep, GatherStep, CacheStep, AnswerStep, TokenStep DEF IInv
<1> QED
  BY <1>1, <1>2, PTL DEF Spec

LEMMA NamesAreBoards ==
  ASSUME TypeOK, NEW v \in Viewers, NEW a \in Agents
  PROVE  viewers[v].name \in Boards /\ agents[a] \in States
  BY DEF TypeOK, Viewer

(* An agent that has been as it is for as long as a gather and the cache    *)
(* may last is shown as it is, for any number of viewers, whatever gathers  *)
(* overlap, write back out of order or read what a slower one has written   *)
(* (agents_health, cost_rollup).                                           *)
THEOREM BoardsAreRecent == Spec => []BoardIsRecent
<1>1. TypeOK /\ IInv => BoardIsRecent
  BY NamesAreBoards, RightShowsAsItIs DEF IInv, AnswerInv, AnswerOK, BoardIsRecent, LongAgo
<1> QED
  BY <1>1, Inductive, PTL

(* A snapshot is no older than its own gather, whatever the others have     *)
(* cached meanwhile (_snapshot_loop).                                      *)
THEOREM SnapshotsAreCurrent == Spec => []SnapshotIsCurrent
<1>1. TypeOK /\ IInv => SnapshotIsCurrent
  BY NamesAreBoards, RightShowsAsItIs, FleetAssumption
  DEF IInv, AnswerInv, AnswerOK, SnapshotIsCurrent
<1> QED
  BY <1>1, Inductive, PTL

(* No gather outlives the token that its calls carry, whatever gathers      *)
(* overlap and share it (UpstreamToken.get).                               *)
THEOREM TokensOutliveCalls == Spec => []TokenOutlivesCall
<1>1. ASSUME TypeOK, IInv, NEW v \in Viewers, viewers[v].pc = "gather"
      PROVE  viewers[v].auth > 0
  <2>1. viewers[v].auth \in Nat /\ viewers[v].age \in 0..MaxGather
    BY <1>1, FleetAssumption DEF TypeOK, Viewer
  <2>2. viewers[v].auth + viewers[v].age > MaxGather
    BY <1>1 DEF IInv, TokenInv
  <2> QED
    BY <2>1, <2>2, FleetAssumption
<1>2. TypeOK /\ IInv => TokenOutlivesCall
  BY <1>1 DEF TokenOutlivesCall
<1> QED
  BY <1>2, Inductive, PTL

-----------------------------------------------------------------------------
(* DashboardSession: the inductive invariant. *)

(* A tab whose request is on its way, and whose page holds the cookie of    *)
(* now, sent that cookie with it: a token that the browser has dropped      *)
(* never comes back.                                                       *)
PostInv ==
  \A t \in Tabs :
    tabs[t].req # "none" /\ Valid(csrf) /\ tabs[t].token = csrf => tabs[t].cookie = csrf

-----------------------------------------------------------------------------
(* There is always a fresh nonce. *)

(* As many tabs hold at most as many tokens. *)
LEMMA TabsHoldFew ==
  ASSUME NEW S, NEW f \in [Tabs -> S]
  PROVE  /\ IsFiniteSet({f[t] : t \in Tabs})
         /\ Cardinality({f[t] : t \in Tabs}) \in Nat
         /\ Cardinality({f[t] : t \in Tabs}) <= Cardinality(Tabs)
<1> DEFINE T == {f[t] : t \in Tabs}
<1>1. f \in [Tabs -> T] /\ \A x \in T : \E t \in Tabs : f[t] = x
  OBVIOUS
<1> HIDE DEF T
<1>2. f \in Surjection(Tabs, T)
  BY <1>1, Fun_IsSurj
<1>3. IsFiniteSet(T) /\ Cardinality(T) <= Cardinality(Tabs)
  BY <1>2, SessionAssumption, FS_Surjection
<1>4. Cardinality(T) \in Nat
  BY <1>3, FS_CardinalityType
<1> QED
  BY <1>3, <1>4 DEF T

LEMMA FreshIsFresh ==
  ASSUME SessionTypeOK
  PROVE  FreshNonce \in Nonces /\ FreshNonce \notin Used
<1> DEFINE held == [t \in Tabs |-> tabs[t].token]
           sent == [t \in Tabs |-> tabs[t].cookie]
           H == {held[t] : t \in Tabs}
           K == {sent[t] : t \in Tabs}
<1>1. held \in [Tabs -> Token] /\ sent \in [Tabs -> Token]
  BY DEF SessionTypeOK, Tab
<1>2. Used = (H \cup K) \cup {csrf}
  BY DEF Used
<1> HIDE DEF held, sent
<1>3. /\ IsFiniteSet(H) /\ Cardinality(H) \in Nat /\ Cardinality(H) <= Cardinality(Tabs)
      /\ IsFiniteSet(K) /\ Cardinality(K) \in Nat /\ Cardinality(K) <= Cardinality(Tabs)
  BY <1>1, TabsHoldFew
<1> HIDE DEF H, K
<1>4. /\ IsFiniteSet(H \cup K)
      /\ Cardinality(H \cup K) = Cardinality(H) + Cardinality(K) - Cardinality(H \cap K)
  BY <1>3, FS_Union
<1>5. Cardinality(H \cap K) \in Nat
  BY <1>3, FS_Intersection, FS_CardinalityType
<1>6. /\ IsFiniteSet(Used)
      /\ Cardinality(Used) = IF csrf \in H \cup K THEN Cardinality(H \cup K)
                             ELSE Cardinality(H \cup K) + 1
  BY <1>2, <1>4, FS_AddElement
<1>7. Cardinality(Tabs) \in Nat
  BY SessionAssumption, FS_CardinalityType
<1>8. Cardinality(Used) < MaxNonce
  BY <1>3, <1>4, <1>5, <1>6, <1>7, SessionAssumption
<1>9. \E n \in Nonces : n \notin Used
  <2>1. CASE Nonces \subseteq Used
    <3>1. Cardinality(Nonces) = MaxNonce
      BY SessionAssumption, FS_Interval DEF Nonces
    <3>2. Cardinality(Nonces) <= Cardinality(Used)
      BY <1>6, <2>1, FS_Subset
    <3>3. Cardinality(Used) \in Nat
      BY <1>6, FS_CardinalityType
    <3> QED
      BY <1>8, <3>1, <3>2, <3>3, SessionAssumption
  <2> QED
    BY <2>1
<1> QED
  BY <1>9 DEF FreshNonce

-----------------------------------------------------------------------------
(* What a step does. *)

LEMMA NoncesAreTokens ==
  /\ Nonces \subseteq Token
  /\ None \in Token /\ Invalid \in Token
  /\ None \notin Nonces /\ Invalid \notin Nonces
  BY SessionAssumption DEF Nonces, Token, None, Invalid

LEMMA SentIsTab ==
  ASSUME NEW tab \in Tab, NEW req \in Requests, NEW cookie \in Token,
         NEW signed \in {"none", "good", "stale"}
  PROVE  /\ Sent(tab, req, cookie, signed) \in Tab
         /\ Sent(tab, req, cookie, signed).req = req
         /\ Sent(tab, req, cookie, signed).token = tab.token
         /\ Sent(tab, req, cookie, signed).cookie = cookie
  BY DEF Sent, Tab

LEMMA IdleIsTab ==
  ASSUME NEW tab \in Tab
  PROVE  Idle(tab) \in Tab /\ Idle(tab).req = "none" /\ Idle(tab).token = tab.token
  BY SentIsTab, NoncesAreTokens DEF Idle, Requests

LEMMA RenderedIsTab ==
  ASSUME NEW tab \in Tab, NEW page \in Pages, NEW nonce \in Token
  PROVE  /\ Rendered(tab, page, nonce) \in Tab
         /\ Rendered(tab, page, nonce).req = "none"
         /\ Rendered(tab, page, nonce).token = nonce
  BY IdleIsTab DEF Rendered, Tab

LEMMA TokenIsUsed ==
  ASSUME NEW t \in Tabs
  PROVE  tabs[t].token \in Used /\ tabs[t].cookie \in Used /\ csrf \in Used
  BY DEF Used

(* The middleware keeps a valid token and issues a fresh one otherwise. *)
LEMMA Reissues ==
  ASSUME SessionTypeOK, NEW t \in Tabs
  PROVE  /\ Reissued(tabs[t].cookie, FreshNonce) \in Token
         /\ Embedded(tabs[t].cookie, FreshNonce) \in Nonces
         /\ \/ Valid(tabs[t].cookie) /\ Reissued(tabs[t].cookie, FreshNonce) = csrf
            \/ /\ ~Valid(tabs[t].cookie)
               /\ Reissued(tabs[t].cookie, FreshNonce) \in Nonces \ Used
         /\ Valid(tabs[t].cookie) => Embedded(tabs[t].cookie, FreshNonce) = tabs[t].cookie
         /\ ~Valid(tabs[t].cookie) =>
              Embedded(tabs[t].cookie, FreshNonce) = Reissued(tabs[t].cookie, FreshNonce)
<1>1. csrf \in Token
  BY DEF SessionTypeOK
<1> QED
  BY <1>1, FreshIsFresh, NoncesAreTokens DEF Reissued, Embedded, Kept, Valid

(* The browser after a response of the server to tab t: only that tab has   *)
(* changed, the CSRF cookie is the old one, a fresh one or none, and what   *)
(* the tab has sent on, it has sent with the cookie of now.                *)
Applied(t) ==
  /\ secret' = secret /\ session' \in {"none", "good", "stale"}
  /\ tabs' = [tabs EXCEPT ![t] = tabs'[t]] /\ tabs'[t] \in Tab
  /\ csrf' \in Token
  /\ csrf' = csrf \/ csrf' = None \/ csrf' \in Nonces \ Used
  /\ tabs'[t].req = "none" \/ tabs'[t].cookie = csrf'

LEMMA ResponseIsApplied ==
  ASSUME SessionTypeOK, NEW t \in Tabs, Responds(t)
  PROVE  Applied(t)
<1> DEFINE issued == Reissued(tabs[t].cookie, FreshNonce)
           nonce  == Embedded(tabs[t].cookie, FreshNonce)
<1>1. /\ tabs[t] \in Tab /\ csrf \in Token /\ session \in {"none", "good", "stale"}
      /\ tabs \in [Tabs -> Tab]
  BY DEF SessionTypeOK
<1>2. /\ issued \in Token /\ (issued = csrf \/ issued \in Nonces \ Used)
      /\ nonce \in Token
  BY Reissues, NoncesAreTokens
<1> HIDE DEF issued, nonce
<1>3. CASE LoginForm(t)
  <2>1. /\ tabs' = [tabs EXCEPT ![t] = Rendered(tabs[t], "login", nonce)]
        /\ csrf' = issued /\ UNCHANGED <<secret, session>>
    BY <1>3 DEF LoginForm, Handles, issued, nonce
  <2>2. /\ Rendered(tabs[t], "login", nonce) \in Tab
        /\ Rendered(tabs[t], "login", nonce).req = "none"
    BY <1>1, <1>2, RenderedIsTab DEF Pages
  <2> QED
    BY <1>1, <1>2, <2>1, <2>2 DEF Applied
<1>4. CASE Page(t)
  <2>1. /\ tabs' = [tabs EXCEPT ![t] = Rendered(tabs[t], "board", nonce)]
        /\ csrf' = issued /\ UNCHANGED <<secret, session>>
    BY <1>4 DEF Page, Handles, issued, nonce
  <2>2. /\ Rendered(tabs[t], "board", nonce) \in Tab
        /\ Rendered(tabs[t], "board", nonce).req = "none"
    BY <1>1, <1>2, RenderedIsTab DEF Pages
  <2> QED
    BY <1>1, <1>2, <2>1, <2>2 DEF Applied
<1>5. CASE PageRedirects(t)
  <2>1. /\ tabs' = [tabs EXCEPT ![t] = Sent(tabs[t], "login_form", issued, session)]
        /\ csrf' = issued /\ UNCHANGED <<secret, session>>
    BY <1>5 DEF PageRedirects, Handles, issued
  <2>2. "login_form" \in Requests
    BY DEF Requests
  <2>3. /\ Sent(tabs[t], "login_form", issued, session) \in Tab
        /\ Sent(tabs[t], "login_form", issued, session).cookie = issued
    BY <1>1, <1>2, <2>2 DEF Sent, Tab
  <2> QED
    BY <1>1, <1>2, <2>1, <2>3 DEF Applied
<1>6. CASE Partial(t)
  <2>1. /\ tabs' = [tabs EXCEPT ![t] = Idle(tabs[t])]
        /\ csrf' = issued /\ UNCHANGED <<secret, session>>
    BY <1>6 DEF Partial, Handles, issued
  <2> QED
    BY <1>1, <1>2, <2>1, IdleIsTab DEF Applied
<1>7. CASE Rejected(t)
  <2> DEFINE new == IF tabs[t].req = "action" THEN Idle(tabs[t])
                    ELSE Rendered(tabs[t], "error", None)
  <2>1. tabs' = [tabs EXCEPT ![t] = new] /\ UNCHANGED <<secret, csrf, session>>
    BY <1>7 DEF Rejected
  <2>2. Idle(tabs[t]) \in Tab /\ Idle(tabs[t]).req = "none"
    BY <1>1, IdleIsTab
  <2>3. /\ Rendered(tabs[t], "error", None) \in Tab
        /\ Rendered(tabs[t], "error", None).req = "none"
    BY <1>1, NoncesAreTokens, RenderedIsTab DEF Pages
  <2>4. new \in Tab /\ new.req = "none"
    BY <2>2, <2>3
  <2> HIDE DEF new
  <2> QED
    BY <1>1, <2>1, <2>4 DEF Applied
<1>8. CASE Login(t)
  <2>1. /\ tabs' = [tabs EXCEPT ![t] = Sent(tabs[t], "page", FreshNonce, "good")]
        /\ csrf' = FreshNonce /\ session' = "good" /\ secret' = secret
    BY <1>8 DEF Login, Handles
  <2>2. FreshNonce \in Token /\ FreshNonce \in Nonces \ Used
    BY FreshIsFresh, NoncesAreTokens
  <2>3. /\ Sent(tabs[t], "page", FreshNonce, "good") \in Tab
        /\ Sent(tabs[t], "page", FreshNonce, "good").cookie = FreshNonce
    BY <1>1, <2>2, SentIsTab DEF Requests
  <2> QED
    BY <1>1, <2>1, <2>2, <2>3 DEF Applied
<1>9. CASE LoginFails(t)
  <2>1. /\ tabs' = [tabs EXCEPT ![t] = Rendered(tabs[t], "login", nonce)]
        /\ UNCHANGED <<secret, csrf, session>>
    BY <1>9 DEF LoginFails, Handles, nonce
  <2>2. /\ Rendered(tabs[t], "login", nonce) \in Tab
        /\ Rendered(tabs[t], "login", nonce).req = "none"
    BY <1>1, <1>2, RenderedIsTab DEF Pages
  <2> QED
    BY <1>1, <2>1, <2>2 DEF Applied
<1>10. CASE Action(t)
  <2>1. tabs' = [tabs EXCEPT ![t] = Idle(tabs[t])] /\ UNCHANGED <<secret, csrf, session>>
    BY <1>10 DEF Action, Handles
  <2> QED
    BY <1>1, <2>1, IdleIsTab DEF Applied
<1>11. CASE LoggedOut(t)
  <2>1. /\ tabs' = [tabs EXCEPT ![t] = Sent(tabs[t], "login_form", None, "none")]
        /\ csrf' = None /\ session' = "none" /\ secret' = secret
    BY <1>11 DEF LoggedOut, Handles
  <2>2. /\ Sent(tabs[t], "login_form", None, "none") \in Tab
        /\ Sent(tabs[t], "login_form", None, "none").cookie = None
    BY <1>1, NoncesAreTokens, SentIsTab DEF Requests
  <2> QED
    BY <1>1, <2>1, <2>2, NoncesAreTokens DEF Applied
<1> QED
  BY <1>3, <1>4, <1>5, <1>6, <1>7, <1>8, <1>9, <1>10, <1>11 DEF Responds

(* A request is sent with the cookie of now, and changes nothing else. *)
LEMMA RequestIsSent ==
  ASSUME SessionTypeOK, NEW t \in Tabs, NEW req \in Requests, Sends(t, req)
  PROVE  /\ tabs' = [tabs EXCEPT ![t] = tabs'[t]] /\ tabs'[t] \in Tab
         /\ tabs'[t].token = tabs[t].token /\ tabs'[t].cookie = csrf
         /\ UNCHANGED <<secret, csrf, session>>
<1> DEFINE new == Sent(tabs[t], req, csrf, session)
<1>1. /\ tabs \in [Tabs -> Tab] /\ tabs[t] \in Tab
      /\ csrf \in Token /\ session \in {"none", "good", "stale"}
  BY DEF SessionTypeOK
<1>2. tabs' = [tabs EXCEPT ![t] = new] /\ UNCHANGED <<secret, csrf, session>>
  BY DEF Sends
<1>3. new \in Tab /\ new.token = tabs[t].token /\ new.cookie = csrf
  BY <1>1, SentIsTab
<1> HIDE DEF new
<1> QED
  BY <1>1, <1>2, <1>3

LEMMA UserSends ==
  ASSUME NEW t \in Tabs, Open(t) \/ SubmitLogin(t) \/ Poll(t) \/ Act(t) \/ Logout(t)
  PROVE  \E req \in Requests : Sends(t, req)
  BY DEF Open, SubmitLogin, Poll, Act, Logout, Requests

(* Another secret leaves no valid token and no request on its way. *)
LEMMA RotateResets ==
  ASSUME SessionTypeOK, Rotate
  PROVE  SessionTypeOK' /\ \A t \in Tabs : tabs'[t].req = "none"
<1>1. /\ tabs \in [Tabs -> Tab]
      /\ csrf \in Token /\ session \in {"none", "good", "stale"}
      /\ secret \in 0..MaxSecrets /\ MaxSecrets \in Nat
  BY SessionAssumption DEF SessionTypeOK
<1>2. secret' \in 0..MaxSecrets /\ session' \in {"none", "good", "stale"}
  BY <1>1 DEF Rotate
<1>3. \A x \in Token : Outdated(x) \in Token
  BY NoncesAreTokens DEF Outdated
<1>4. csrf' \in Token
  BY <1>1, <1>3 DEF Rotate
<1>5. ASSUME NEW t \in Tabs
      PROVE  /\ [Idle(tabs[t]) EXCEPT !.token = Outdated(@)] \in Tab
             /\ [Idle(tabs[t]) EXCEPT !.token = Outdated(@)].req = "none"
  <2>1. Idle(tabs[t]) \in Tab /\ Idle(tabs[t]).req = "none"
    BY <1>1, IdleIsTab
  <2>2. Outdated(Idle(tabs[t]).token) \in Token
    BY <1>3, <2>1 DEF Tab
  <2> QED
    BY <2>1, <2>2 DEF Tab
<1>6. tabs' = [t \in Tabs |-> [Idle(tabs[t]) EXCEPT !.token = Outdated(@)]]
  BY DEF Rotate
<1> QED
  BY <1>2, <1>4, <1>5, <1>6 DEF SessionTypeOK

LEMMA ExpireKeeps ==
  ASSUME SessionTypeOK, Expire
  PROVE  /\ SessionTypeOK' /\ csrf' = csrf
         /\ \A t \in Tabs : /\ tabs'[t].req = tabs[t].req
                            /\ tabs'[t].token = tabs[t].token
                            /\ tabs'[t].cookie = tabs[t].cookie
<1>1. tabs \in [Tabs -> Tab]
  BY DEF SessionTypeOK
<1>2. tabs' = [t \in Tabs |-> [tabs[t] EXCEPT !.signed = IF @ = "good" THEN "stale" ELSE @]]
  BY DEF Expire
<1>3. ASSUME NEW t \in Tabs
      PROVE  /\ tabs'[t] \in Tab
             /\ tabs'[t].req = tabs[t].req
             /\ tabs'[t].token = tabs[t].token
             /\ tabs'[t].cookie = tabs[t].cookie
  BY <1>1, <1>2 DEF Tab
<1>4. tabs' \in [Tabs -> Tab]
  BY <1>2, <1>3
<1> QED
  BY <1>3, <1>4 DEF SessionTypeOK, Expire

-----------------------------------------------------------------------------
(* The invariant. *)

LEMMA SessionStep ==
  ASSUME SessionTypeOK, PostInv, [SessionNext]_sessionVars
  PROVE  SessionTypeOK' /\ PostInv'
<1>1. tabs \in [Tabs -> Tab] /\ csrf \in Token
  BY DEF SessionTypeOK
<1>2. ASSUME NEW t \in Tabs, NEW req \in Requests, Sends(t, req)
      PROVE  SessionTypeOK' /\ PostInv'
  <2>1. SessionTypeOK'
    BY <1>1, <1>2, RequestIsSent DEF SessionTypeOK
  <2>2. ASSUME NEW u \in Tabs, tabs'[u].req # "none", Valid(csrf'), tabs'[u].token = csrf'
        PROVE  tabs'[u].cookie = csrf'
    BY <1>1, <1>2, <2>2, RequestIsSent DEF PostInv
  <2> QED
    BY <2>1, <2>2 DEF PostInv, Valid
<1>3. ASSUME NEW t \in Tabs, Responds(t)
      PROVE  SessionTypeOK' /\ PostInv'
  <2>1. Applied(t)
    BY <1>3, ResponseIsApplied
  <2>2. SessionTypeOK'
    BY <1>1, <2>1 DEF Applied, SessionTypeOK
  <2>3. ASSUME NEW u \in Tabs, tabs'[u].req # "none", csrf' \in Nonces, tabs'[u].token = csrf'
        PROVE  tabs'[u].cookie = csrf'
    <3>1. CASE u = t
      BY <2>1, <2>3, <3>1 DEF Applied
    <3>2. CASE u # t
      <4>1. tabs'[u] = tabs[u]
        BY <1>1, <2>1, <3>2 DEF Applied
      <4>2. csrf' = csrf
        BY <2>1, <2>3, <4>1, TokenIsUsed, NoncesAreTokens DEF Applied
      <4> QED
        BY <2>3, <4>1, <4>2 DEF PostInv, Valid
    <3> QED
      BY <3>1, <3>2
  <2> QED
    BY <2>2, <2>3 DEF PostInv, Valid
<1>4. CASE Rotate
  BY <1>4, RotateResets DEF PostInv
<1>5. CASE Expire
  BY <1>5, ExpireKeeps DEF PostInv, Valid
<1>6. CASE UNCHANGED sessionVars
  BY <1>6 DEF sessionVars, SessionTypeOK, PostInv, Valid
<1> QED
  BY <1>2, <1>3, <1>4, <1>5, <1>6, UserSends DEF SessionNext

LEMMA SessionStarts ==
  ASSUME SessionInit
  PROVE  SessionTypeOK /\ PostInv
<1>1. NewTab \in Tab /\ NewTab.req = "none"
  BY NoncesAreTokens DEF NewTab, Tab, Pages, Requests
<1> QED
  BY <1>1, NoncesAreTokens, SessionAssumption DEF SessionInit, SessionTypeOK, PostInv

LEMMA SessionInductive == SessionSpec => [](SessionTypeOK /\ PostInv)
<1>1. SessionInit => SessionTypeOK /\ PostInv
  BY SessionStarts
<1>2. SessionTypeOK /\ PostInv /\ [SessionNext]_sessionVars => SessionTypeOK' /\ PostInv'
  BY SessionStep
<1> QED
  BY <1>1, <1>2, PTL DEF SessionSpec

(* What the browser holds stays within its type: there is a fresh nonce     *)
(* whenever issue_csrf_token is called.                                    *)
THEOREM SessionTypeCorrect == SessionSpec => []SessionTypeOK
  BY SessionInductive, PTL

-----------------------------------------------------------------------------
(* The action properties. *)

(* A page that was rendered for the cookie of now can post: the cookie that *)
(* the middleware keeps or issues is the token that the handler embeds, and *)
(* it is valid (_csrf_middleware, _csrf_token).                            *)
LEMMA RenderedPageWorks ==
  ASSUME SessionTypeOK, NEW t \in Tabs, LoginForm(t) \/ Page(t), tabs[t].cookie = csrf
  PROVE  Works(t)'
<1> DEFINE cookie == tabs[t].cookie
<1>1. tabs \in [Tabs -> Tab] /\ tabs[t] \in Tab
  BY DEF SessionTypeOK
<1>2. csrf' = Reissued(cookie, FreshNonce)
  BY DEF LoginForm, Page
<1>3. Embedded(cookie, FreshNonce) \in Token
  BY Reissues, NoncesAreTokens
<1>4. tabs'[t].token = Embedded(cookie, FreshNonce)
  <2>1. PICK page \in Pages :
          tabs' = [tabs EXCEPT ![t] = Rendered(tabs[t], page, Embedded(cookie, FreshNonce))]
    BY DEF LoginForm, Page, Pages
  <2>2. Rendered(tabs[t], page, Embedded(cookie, FreshNonce)).token
          = Embedded(cookie, FreshNonce)
    BY <1>1, <1>3, RenderedIsTab
  <2> QED
    BY <1>1, <2>1, <2>2
<1> QED
  BY <1>2, <1>4, Reissues DEF Works, Valid

(* A reload leaves a page that can post, if no other tab changed the cookie *)
(* while it was under way, whatever cookie the browser had: absent, signed  *)
(* under another secret, or corrupted (_csrf_middleware).                  *)
THEOREM ReloadsHeal == SessionSpec => ReloadHeals
<1>1. SessionTypeOK /\ [SessionNext]_sessionVars =>
        [\A t \in Tabs :
           (LoginForm(t) \/ Page(t)) /\ tabs[t].cookie = csrf => Works(t)']_sessionVars
  BY RenderedPageWorks
<1> QED
  BY <1>1, SessionTypeCorrect, PTL DEF SessionSpec, ReloadHeals

(* A response to a request with a valid cookie leaves a page that can post  *)
(* as it is, unless it is the page that was asked for, or a login or logout.*)
LEMMA WorkingPageStays ==
  ASSUME SessionTypeOK, PostInv, NEW t \in Tabs, NEW u \in Tabs,
         Works(t), Responds(u), Valid(tabs[u].cookie),
         ~Login(u), ~LoggedOut(u), ~(u = t /\ (Page(u) \/ LoginForm(u)))
  PROVE  Works(t)'
<1>1. /\ tabs \in [Tabs -> Tab] /\ tabs[u] \in Tab /\ tabs[t] \in Tab
      /\ Valid(csrf) /\ tabs[t].token = csrf
  BY DEF SessionTypeOK, Works
<1>2. csrf' = csrf
  BY Reissues DEF Responds, LoginForm, Page, PageRedirects, Partial, Rejected,
                  LoginFails, Action
<1>3. CASE u # t
  <2>1. tabs'[t] = tabs[t]
    BY <1>1, <1>3, ResponseIsApplied DEF Applied
  <2> QED
    BY <1>1, <1>2, <2>1 DEF Works, Valid
<1>4. CASE u = t
  <2>1. SUFFICES tabs'[t].token = tabs[t].token
    BY <1>1, <1>2 DEF Works, Valid
  <2>2. Idle(tabs[t]) \in Tab /\ Idle(tabs[t]).token = tabs[t].token
    BY <1>1, IdleIsTab
  <2>3. CASE PageRedirects(t)
    <3>1. tabs' = [tabs EXCEPT ![t] = Sent(tabs[t], "login_form", csrf', session)]
      BY <2>3 DEF PageRedirects
    <3> QED
      BY <1>1, <3>1 DEF Sent, Tab
  <2>4. CASE Partial(t) \/ Action(t)
    BY <1>1, <2>2, <2>4 DEF Partial, Action
  <2>5. CASE Rejected(t)
    <3>1. tabs[t].req # "none" /\ tabs[t].cookie = csrf
      BY <1>1, <2>5 DEF Rejected, PostInv
    <3> QED
      BY <1>1, <2>5, <3>1 DEF Rejected, Passes
  <2>6. CASE LoginFails(t)
    <3>1. tabs[t].cookie = tabs[t].token
      BY <2>6 DEF LoginFails, Passes
    <3>2. Embedded(tabs[t].cookie, FreshNonce) = tabs[t].token
      BY <1>4, <3>1, Reissues
    <3>3. tabs' = [tabs EXCEPT ![t] = Rendered(tabs[t], "login", tabs[t].token)]
      BY <2>6, <3>2 DEF LoginFails
    <3>4. Rendered(tabs[t], "login", tabs[t].token).token = tabs[t].token
      BY <1>1, RenderedIsTab DEF Tab, Pages
    <3> QED
      BY <1>1, <3>3, <3>4
  <2> QED
    BY <1>4, <2>3, <2>4, <2>5, <2>6 DEF Responds
<1> QED
  BY <1>3, <1>4

(* Tabs leave each other alone: a page that can post stays so, until a      *)
(* login or a logout, another secret, or an answer to a request that was   *)
(* sent without a valid cookie, for any number of tabs (_csrf_middleware).  *)
THEOREM TabsLeaveEachOtherAlone == SessionSpec => TabsCoexist
<1> DEFINE Excused(t) ==
             \/ secret' # secret
             \/ \E u \in Tabs : Login(u) \/ LoggedOut(u)
             \/ \E u \in Tabs : Responds(u) /\ ~Valid(tabs[u].cookie)
             \/ Page(t) \/ LoginForm(t)
<1>1. ASSUME SessionTypeOK, PostInv, [SessionNext]_sessionVars,
             NEW t \in Tabs, Works(t), ~Works(t)'
      PROVE  Excused(t) \/ UNCHANGED sessionVars
  <2>1. ASSUME NEW u \in Tabs, NEW req \in Requests, Sends(u, req)
        PROVE  FALSE
    <3>1. /\ tabs \in [Tabs -> Tab]
          /\ tabs' = [tabs EXCEPT ![u] = tabs'[u]]
          /\ tabs'[u].token = tabs[u].token /\ csrf' = csrf
      BY <1>1, <2>1, RequestIsSent DEF SessionTypeOK
    <3>2. tabs'[t].token = tabs[t].token
      BY <3>1
    <3> QED
      BY <1>1, <3>1, <3>2 DEF Works, Valid
  <2>2. ASSUME NEW u \in Tabs, Responds(u)
        PROVE  Excused(t)
    BY <1>1, <2>2, WorkingPageStays
  <2>3. CASE Rotate
    BY <1>1, <2>3, SessionAssumption DEF Rotate, SessionTypeOK
  <2>4. CASE Expire
    BY <1>1, <2>4, ExpireKeeps DEF Works, Valid
  <2> QED
    BY <1>1, <2>1, <2>2, <2>3, <2>4, UserSends DEF SessionNext
<1>2. SessionTypeOK /\ PostInv /\ [SessionNext]_sessionVars =>
        [\A t \in Tabs : Works(t) /\ ~Works(t)' => Excused(t)]_sessionVars
  BY <1>1
<1> QED
  BY <1>2, SessionInductive, PTL DEF SessionSpec, TabsCoexist

=============================================================================
