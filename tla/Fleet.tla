--------------------------------- MODULE Fleet ---------------------------------
(***************************************************************************)
(* The dashboard's view of the fleet (dashboard/aggregator.py): a board is *)
(* gathered from the agents over HTTP, a request per agent and path, all   *)
(* at once, and is kept in Redis for a few seconds.  Requests of the       *)
(* operators read it from there or gather it again, and so does the loop   *)
(* of the snapshots, which always gathers (refresh=True) and writes back.  *)
(* All calls carry the token that UpstreamToken keeps (dashboard/auth.py). *)
(*                                                                         *)
(* There is no absolute time: a cached board, a gather and a token have an *)
(* age or a remaining life, in ticks.  Of an answer only its outcome is    *)
(* kept: what /metrics.json says is CostRollup's subject.                  *)
(***************************************************************************)
EXTENDS Integers

CONSTANTS
  Agents,
  Viewers,      \* the requests for a board, and
  snapshot,     \* the one of them that is _snapshot_loop
  MaxGather,    \* bound on a gather and the write of its board (upstream_timeout_s)
  CacheTTL,     \* cache_ttl_s
  TokenTTL,     \* upstream_token_ttl_s
  Margin        \* the 60 s of UpstreamToken.get

ASSUME FleetAssumption ==
  /\ snapshot \in Viewers
  /\ MaxGather \in Nat /\ CacheTTL \in Nat \ {0} /\ TokenTTL \in Nat /\ Margin \in Nat
  /\ MaxGather < Margin /\ MaxGather < TokenTTL

Boards == {"agents_health", "cost_rollup"}
Paths == {"healthz", "readyz", "metrics"}

(* The outcome of a request: 200, 200 with an error rate above a tenth,    *)
(* 503, anything else or no answer at all.  "none" is that of a request     *)
(* that is not made, "sent" of one under way.                              *)
Outcomes == {"none", "sent", "ok", "erring", "refused", "failed"}

States == {"down", "unready", "ready"}

Tile == [Paths -> Outcomes]
Board == [Agents -> Tile]

VARIABLES
  batch,    \* the agents of kind "batch", which have no port: the registry's word
  erring,   \* the others that fail more than a tenth of their requests
  agents,   \* [Agents -> States], as they are
  cache,    \* [Boards -> [board, age]]; an age of CacheTTL is that of no entry
  token,    \* how long the cached token still lives
  viewers,  \* [Viewers -> Viewer]
  steady    \* history: ticks since an agent last changed, or a request to it
            \* got lost on the way

vars == <<batch, erring, agents, cache, token, viewers, steady>>

Viewer == [pc    : {"idle", "gather", "answered"},
           name  : Boards,
           board : Board,
           age   : 0..MaxGather,      \* of the gather
           auth  : 0..TokenTTL]       \* how long its token still lives

LongAgo == MaxGather + CacheTTL

NoTile == [p \in Paths |-> "none"]
NoBoard == [a \in Agents |-> NoTile]
NoEntry == [board |-> NoBoard, age |-> CacheTTL]
IdleViewer == [pc |-> "idle", name |-> "agents_health", board |-> NoBoard,
               age |-> 0, auth |-> 0]

TypeOK ==
  /\ batch \in SUBSET Agents
  /\ erring \in SUBSET (Agents \ batch)
  /\ agents \in [Agents -> States]
  /\ cache \in [Boards -> [board : Board, age : 0..CacheTTL]]
  /\ token \in 0..TokenTTL
  /\ viewers \in [Viewers -> Viewer]
  /\ steady \in [Agents -> 0..LongAgo]

Init ==
  /\ batch \in SUBSET Agents
  /\ erring \in SUBSET (Agents \ batch)
  /\ agents \in [Agents -> States]
  /\ cache = [b \in Boards |-> NoEntry]
  /\ token = 0
  /\ viewers = [v \in Viewers |-> IdleViewer]
  /\ steady = [a \in Agents |-> 0]

-----------------------------------------------------------------------------
(* Mutated forms of the definitions below, each a plausible bug. *)

OnHitSlides(entry) == [entry EXCEPT !.age = 0]

SkipsCacheNever(v) == FALSE

ReusableToTheEnd(remaining) == remaining > 0

-----------------------------------------------------------------------------
(* UpstreamToken.get: the cached token, if it lives for more than Margin,   *)
(* or else a new one.                                                      *)
Reusable(remaining) == remaining > Margin

Fresh(remaining) == IF Reusable(remaining) THEN remaining ELSE TokenTTL

(* The paths that a board asks of an agent.  A batch agent has its metrics  *)
(* only.                                                                   *)
Asked(name, a) ==
  IF name = "cost_rollup" \/ a \in batch THEN {"metrics"} ELSE Paths

(* refresh=True. *)
SkipsCache(v) == v = snapshot

(* Reading an entry leaves its expiry as it was set. *)
OnHit(entry) == entry

Cached(name) == cache[name].age < CacheTTL

(* agents_health and cost_rollup: the cached board is the answer.           *)
Hit(v, name) ==
  /\ viewers[v].pc # "gather"
  /\ ~SkipsCache(v) /\ Cached(name)
  /\ viewers' = [viewers EXCEPT ![v] =
       [IdleViewer EXCEPT !.pc = "answered", !.name = name, !.board = cache[name].board]]
  /\ cache' = [cache EXCEPT ![name] = OnHit(@)]
  /\ UNCHANGED <<batch, erring, agents, token, steady>>

(* There is none, or Redis fails, or it is not asked: the board is gathered *)
(* anew.                                                                   *)
Gather(v, name) ==
  LET auth == Fresh(token) IN
  /\ viewers[v].pc # "gather"
  /\ v = snapshot => name = "agents_health"
  /\ viewers' = [viewers EXCEPT ![v] =
       [pc |-> "gather", name |-> name, age |-> 0, auth |-> auth,
        board |-> [a \in Agents |-> [p \in Paths |->
                     IF p \in Asked(name, a) THEN "sent" ELSE "none"]]]]
  /\ token' = auth
  /\ UNCHANGED <<batch, erring, agents, cache, steady>>

(* What agent a answers on a path. *)
AnswerOf(a, p) ==
  IF agents[a] = "down" THEN "failed"
  ELSE IF agents[a] = "unready" /\ p = "readyz" THEN "refused"
  ELSE IF a \in erring /\ p = "metrics" THEN "erring"
  ELSE "ok"

(* _get: one request is answered, or is lost (a timeout, a reset). *)
Answered(v, a, p, lost) ==
  /\ viewers[v].pc = "gather" /\ viewers[v].board[a][p] = "sent"
  /\ viewers' = [viewers EXCEPT ![v].board[a][p] =
                   IF lost THEN "failed" ELSE AnswerOf(a, p)]
  /\ steady' = IF lost /\ agents[a] # "down" THEN [steady EXCEPT ![a] = 0] ELSE steady
  /\ UNCHANGED <<batch, erring, agents, cache, token>>

(* health: without /healthz the other answers are dropped.                 *)
Composed(tile) ==
  IF tile["healthz"] = "failed" THEN [p \in Paths |-> "failed"] ELSE tile

Pending(v) ==
  {ap \in Agents \X Paths : viewers[v].board[ap[1]][ap[2]] = "sent"}

(* All requests have ended: the board is written back, or Redis fails, and *)
(* it is the answer either way.                                            *)
WriteBack(v, works) ==
  LET name == viewers[v].name
      board == [a \in Agents |-> Composed(viewers[v].board[a])]
  IN
  /\ viewers[v].pc = "gather" /\ Pending(v) = {}
  /\ cache' = IF works THEN [cache EXCEPT ![name] = [board |-> board, age |-> 0]]
              ELSE cache
  /\ viewers' = [viewers EXCEPT ![v] =
       [IdleViewer EXCEPT !.pc = "answered", !.name = name, !.board = board]]
  /\ UNCHANGED <<batch, erring, agents, token, steady>>

(* An answer that _get does not expect (an address or a body that cannot be *)
(* decoded) raises: asyncio.gather fails, and with it the whole board.      *)
Raises(v) ==
  /\ viewers[v].pc = "gather" /\ Pending(v) # {}
  /\ viewers' = [viewers EXCEPT ![v] = IdleViewer]
  /\ UNCHANGED <<batch, erring, agents, cache, token, steady>>

-----------------------------------------------------------------------------
(* HealthDTO.status; that of an agent whose /readyz got lost is green.      *)
Status(a, tile) ==
  IF a \in batch THEN "grey"
  ELSE IF tile["healthz"] # "ok" THEN "red"
  ELSE IF tile["readyz"] = "refused" \/ tile["metrics"] = "erring" THEN "amber"
  ELSE "green"

Changes(a, to) ==
  /\ agents[a] # to
  /\ agents' = [agents EXCEPT ![a] = to]
  /\ steady' = [steady EXCEPT ![a] = 0]
  /\ UNCHANGED <<batch, erring, cache, token, viewers>>

(* Redis restarts without its data. *)
CacheLost ==
  /\ cache' = [b \in Boards |-> NoEntry]
  /\ UNCHANGED <<batch, erring, agents, token, viewers, steady>>

Older(entry) ==
  IF entry.age + 1 < CacheTTL THEN [entry EXCEPT !.age = @ + 1] ELSE NoEntry

(* Time passes: a gather does not outlast its bound, and an answer is of    *)
(* the tick in which it was given.                                         *)
Less(remaining) == IF remaining > 0 THEN remaining - 1 ELSE 0

Aged(viewer) ==
  IF viewer.pc = "gather"
    THEN [viewer EXCEPT !.age = @ + 1, !.auth = Less(@)]
    ELSE IdleViewer

Tick ==
  /\ \A v \in Viewers : viewers[v].pc = "gather" => viewers[v].age < MaxGather
  /\ viewers' = [v \in Viewers |-> Aged(viewers[v])]
  /\ cache' = [b \in Boards |-> Older(cache[b])]
  /\ token' = Less(token)
  /\ steady' = [a \in Agents |-> IF steady[a] < LongAgo THEN steady[a] + 1 ELSE LongAgo]
  /\ UNCHANGED <<batch, erring, agents>>

Next ==
  \/ \E v \in Viewers, name \in Boards : Hit(v, name) \/ Gather(v, name)
  \/ \E v \in Viewers, a \in Agents, p \in Paths, lost \in BOOLEAN : Answered(v, a, p, lost)
  \/ \E v \in Viewers, works \in BOOLEAN : WriteBack(v, works)
  \/ \E v \in Viewers : Raises(v)
  \/ \E a \in Agents, to \in States : Changes(a, to)
  \/ CacheLost
  \/ Tick

Spec == Init /\ [][Next]_vars

-----------------------------------------------------------------------------
(* PROPERTIES *)

Colour(a) ==
  IF a \in batch THEN "grey"
  ELSE IF agents[a] = "down" THEN "red"
  ELSE IF agents[a] = "unready" \/ a \in erring THEN "amber"
  ELSE "green"

(* What viewer v is answered of agent a is what the agent is. *)
ShownAsItIs(v, a) ==
  LET tile == viewers[v].board[a] IN
  IF viewers[v].name = "cost_rollup" THEN (tile["metrics"] # "failed") = (agents[a] # "down")
  ELSE Status(a, tile) = Colour(a)

(* An agent that has been as it is for as long as a gather and the cache    *)
(* may last is shown as it is, to whoever asks: whatever gathers overlap,   *)
(* write back out of order, or read what a slower one has written           *)
(* (agents_health, cost_rollup).                                           *)
BoardIsRecent ==
  \A v \in Viewers, a \in Agents :
    viewers[v].pc = "answered" /\ steady[a] >= MaxGather + CacheTTL => ShownAsItIs(v, a)

(* "refresh=True so the snapshot records the current health (not a          *)
(* possibly-stale cached tile)" (_snapshot_loop): it is no older than the   *)
(* gather itself, whatever the others have cached meanwhile.               *)
SnapshotIsCurrent ==
  \A a \in Agents :
    viewers[snapshot].pc = "answered" /\ steady[a] > MaxGather => ShownAsItIs(snapshot, a)

(* A call never arrives with a token that has expired on the way, however   *)
(* old the token was when a gather that overlaps others took it             *)
(* (UpstreamToken.get).                                                    *)
TokenOutlivesCall ==
  \A v \in Viewers : viewers[v].pc = "gather" => viewers[v].auth > 0

=============================================================================
