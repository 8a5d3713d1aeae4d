------------------------------ MODULE RateLimiter ------------------------------
(***************************************************************************)
(* The rate limiters of an agent that runs as several replicas             *)
(* (agentkit/server.py): what they do with the requests of one client.     *)
(* A request for /llm/... passes two limiters, any other request one.      *)
(* Each limiter of each replica gets a Redis client, or gives Redis up, at *)
(* its first request, and has a bucket of its own for when Redis does not  *)
(* answer.  The bucket in Redis is one for all of them: its key names      *)
(* neither the limiter nor the replica.                                    *)
(*                                                                         *)
(* A tick is the time in which a bucket gains one token: Rate ticks make a *)
(* minute.  A script runs in the tick in which it is called.  The bucket   *)
(* in Redis is stamped with time.monotonic, which counts from the boot of  *)
(* the replica's host.                                                     *)
(***************************************************************************)
EXTENDS Integers

CONSTANTS
  Replicas,
  Requests,   \* what the client has under way at a time
  Rate,       \* rate_limit_per_minute
  Boots,      \* when the hosts may have booted, in ticks before some moment
  MaxFaults   \* bound on failed calls to Redis, restarts and losses of its data

ASSUME LimiterAssumption ==
  /\ Replicas # {}
  /\ Rate \in Nat /\ Rate >= 2
  /\ Boots \subseteq [Replicas -> Nat]
  /\ MaxFaults \in Nat

Limiters == {"llm", "all"}

Expiry == 2 * Rate            \* the 120 s of the script
Ago == 0..Rate                \* the ticks of the last minute

VARIABLES
  boot,      \* that of each replica's host
  shared,    \* the bucket in Redis; an age of Expiry is that of none
  local,     \* [Replicas -> [Limiters -> 0..Rate]], _local, as filled by now
  redis,     \* [Replicas -> [Limiters -> {"new", "client", "failed"}]]
  requests,  \* [Requests -> Request]
  faults,
  taken,     \* history: [Ago -> Nat], the tokens the limiters took since then
  quiet,     \* history: ticks since a limiter decided, up to Expiry
  inUse,     \* history: the local buckets that a limiter has decided from
  buckets    \* history: how many buckets have been in use, that in Redis included

vars == <<boot, shared, local, redis, requests, faults, taken, quiet, inUse, buckets>>

Ended == {"idle", "refused"}   \* one that was admitted is idle

Request == [pc      : Ended \cup {"enter", "ping", "eval"},
            at      : Replicas,
            limiter : Limiters]

(* origin: the boot of the host whose clock stamped the bucket. *)
NoBucket == [tokens |-> Rate, age |-> Expiry, origin |-> 0]

IdleRequest == [pc |-> "idle", at |-> CHOOSE r \in Replicas : TRUE,
                limiter |-> "all"]

TypeOK ==
  /\ boot \in Boots
  /\ shared \in [tokens : Int, age : 0..Expiry, origin : Nat]
  /\ local \in [Replicas -> [Limiters -> 0..Rate]]
  /\ redis \in [Replicas -> [Limiters -> {"new", "client", "failed"}]]
  /\ requests \in [Requests -> Request]
  /\ faults \in 0..MaxFaults
  /\ taken \in [Ago -> Nat]
  /\ quiet \in 0..Expiry
  /\ inUse \subseteq Replicas \X Limiters
  /\ buckets \in Nat

Each(x) == [l \in Limiters |-> x]

Init ==
  /\ boot \in Boots
  /\ shared = NoBucket
  /\ local = [r \in Replicas |-> Each(Rate)]
  /\ redis = [r \in Replicas |-> Each("new")]
  /\ requests = [q \in Requests |-> IdleRequest]
  /\ faults = 0
  /\ taken = [n \in Ago |-> 0]
  /\ quiet = Expiry
  /\ inUse = {}
  /\ buckets = 1

-----------------------------------------------------------------------------
(* Mutated forms of the definitions below, each a plausible bug. *)

LeftInDebt(tokens) == tokens - 1

OlderForEver(bucket) == [bucket EXCEPT !.origin = @ - 1]

-----------------------------------------------------------------------------
Fault == faults < MaxFaults /\ faults' = faults + 1

(* What a bucket holds, `since` ticks after it held `tokens`. *)
Filled(tokens, since) == IF tokens + since > Rate THEN Rate ELSE tokens + since

Left(tokens) == IF tokens >= 1 THEN tokens - 1 ELSE tokens

(* A limiter decides on request q, from a bucket that holds this much; a    *)
(* request that the limiter of LLM paths lets pass enters the other one.   *)
Decides(q, tokens) ==
  LET l == requests[q].limiter
      after == IF tokens < 1 THEN [IdleRequest EXCEPT !.pc = "refused"]
               ELSE IF l = "llm" THEN [requests[q] EXCEPT !.pc = "enter", !.limiter = "all"]
               ELSE IdleRequest
  IN
  /\ requests' = [requests EXCEPT ![q] = after]
  /\ taken' = IF tokens < 1 THEN taken ELSE [n \in Ago |-> taken[n] + 1]
  /\ quiet' = 0

(* A mutated form of the next definition: it fails open. *)
LetsPass(q) == Decides(q, Rate) /\ UNCHANGED <<local, inUse, buckets>>

(* _allow_local. *)
DecidesLocally(q) ==
  LET r == requests[q].at
      l == requests[q].limiter
  IN
  /\ Decides(q, local[r][l])
  /\ local' = [local EXCEPT ![r][l] = Left(@)]
  /\ inUse' = inUse \cup {<<r, l>>}
  /\ buckets' = IF <<r, l>> \in inUse THEN buckets ELSE buckets + 1

(* The script of _allow_redis: what it finds, and what it leaves. *)
Found(q) ==
  IF shared.age = Expiry THEN Rate
  ELSE Filled(shared.tokens, shared.age + boot[requests[q].at] - shared.origin)

RunsScript(q) ==
  shared' = [tokens |-> Left(Found(q)), age |-> 0,
             origin |-> boot[requests[q].at]]

-----------------------------------------------------------------------------
Arrives(q, r, l) ==
  /\ requests[q].pc \in Ended
  /\ requests' = [requests EXCEPT ![q] =
                    [pc |-> "enter", at |-> r, limiter |-> l]]
  /\ UNCHANGED <<boot, shared, local, redis, faults, taken, quiet, inUse, buckets>>

(* allow, up to its first await: the ping of _redis_client, the call of the *)
(* script, or none if Redis has been given up.                             *)
Enters(q) ==
  LET state == redis[requests[q].at][requests[q].limiter] IN
  /\ requests[q].pc = "enter"
  /\ \/ /\ state # "failed"
        /\ requests' = [requests EXCEPT ![q].pc = IF state = "new" THEN "ping" ELSE "eval"]
        /\ UNCHANGED <<local, taken, quiet, inUse, buckets>>
     \/ state = "failed" /\ DecidesLocally(q)
  /\ UNCHANGED <<boot, shared, redis, faults>>

(* Several requests may ping at once: a ping that works wins. *)
PingWorks(q) ==
  /\ requests[q].pc = "ping"
  /\ redis' = [redis EXCEPT ![requests[q].at][requests[q].limiter] = "client"]
  /\ requests' = [requests EXCEPT ![q].pc = "eval"]
  /\ UNCHANGED <<boot, shared, local, faults, taken, quiet, inUse, buckets>>

PingFails(q) ==
  LET r == requests[q].at
      l == requests[q].limiter
  IN
  /\ requests[q].pc = "ping"
  /\ Fault
  /\ \/ /\ redis[r][l] = "client"
        /\ requests' = [requests EXCEPT ![q].pc = "eval"]
        /\ UNCHANGED <<local, redis, taken, quiet, inUse, buckets>>
     \/ /\ redis[r][l] # "client"
        /\ redis' = [redis EXCEPT ![r][l] = "failed"]
        /\ DecidesLocally(q)
  /\ UNCHANGED <<boot, shared>>

Evaluated(q) ==
  /\ requests[q].pc = "eval"
  /\ RunsScript(q)
  /\ Decides(q, Found(q))
  /\ UNCHANGED <<boot, local, redis, faults, inUse, buckets>>

(* The call raises, before the script ran or after it. *)
EvalFails(q, ran) ==
  /\ requests[q].pc = "eval"
  /\ Fault
  /\ IF ran THEN RunsScript(q) ELSE UNCHANGED shared
  /\ DecidesLocally(q)
  /\ UNCHANGED <<boot, redis>>

(* A replica is restarted, on a host that stays up: with new buckets.       *)
Restart(r) ==
  /\ Fault
  /\ local' = [local EXCEPT ![r] = Each(Rate)]
  /\ redis' = [redis EXCEPT ![r] = Each("new")]
  /\ requests' = [q \in Requests |->
                    IF requests[q].at = r THEN IdleRequest ELSE requests[q]]
  /\ inUse' = {bucket \in inUse : bucket[1] # r}
  /\ UNCHANGED <<boot, shared, taken, quiet, buckets>>

RedisLosesData ==
  /\ Fault
  /\ shared' = NoBucket
  /\ buckets' = buckets + 1
  /\ UNCHANGED <<boot, local, redis, requests, taken, quiet, inUse>>

Older(bucket) ==
  IF bucket.age + 1 < Expiry THEN [bucket EXCEPT !.age = @ + 1] ELSE NoBucket

Tick ==
  /\ shared' = IF shared.age = Expiry THEN shared ELSE Older(shared)
  /\ local' = [r \in Replicas |-> [l \in Limiters |-> Filled(local[r][l], 1)]]
  /\ taken' = [n \in Ago |-> IF n = 0 THEN 0 ELSE taken[n - 1]]
  /\ quiet' = IF quiet < Expiry THEN quiet + 1 ELSE Expiry
  /\ UNCHANGED <<boot, redis, requests, faults, inUse, buckets>>

Next ==
  \/ \E q \in Requests, r \in Replicas, l \in Limiters : Arrives(q, r, l)
  \/ \E q \in Requests : Enters(q) \/ PingWorks(q) \/ PingFails(q) \/ Evaluated(q)
  \/ \E q \in Requests, ran \in BOOLEAN : EvalFails(q, ran)
  \/ \E r \in Replicas : Restart(r)
  \/ RedisLosesData
  \/ Tick

Spec == Init /\ [][Next]_vars

-----------------------------------------------------------------------------
(* PROPERTIES *)

ClocksAgree == \A r1, r2 \in Replicas : boot[r1] = boot[r2]

TakenInLastMinute == taken[Rate]

(* "so a Redis outage degrades to per-instance limiting rather than failing *)
(* open" (_TokenBucketLimiter): what the limiters let pass in a minute is   *)
(* at most a burst and the refill of each bucket that has been in use: the  *)
(* one in Redis, a new one each time that Redis loses its data, and the     *)
(* local ones that a failed call has made a limiter fall back to.  The      *)
(* premise is that the replicas' clocks agree; between hosts that booted at *)
(* different times a call refills the bucket in Redis by the difference.   *)
LimitHolds == ClocksAgree => TakenInLastMinute <= 2 * Rate * buckets

Refused(q) == requests[q].pc # "refused" /\ requests'[q].pc = "refused"

(* A refusal has a cause: the limiters have taken a minute's tokens in the  *)
(* last minute.  (LLM requests take two, from one bucket.)                 *)
RefusedOnlyIfBusy ==
  [][ClocksAgree => \A q \in Requests : Refused(q) => TakenInLastMinute >= Rate]_vars

(* A client that pauses for two minutes is not refused when it comes back,  *)
(* although the hosts' clocks disagree and a bucket may be in debt by the   *)
(* difference: the script lets an idle bucket expire.                      *)
PauseHeals == [][\A q \in Requests : Refused(q) => quiet < Expiry]_vars

=============================================================================
