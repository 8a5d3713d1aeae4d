--------------------------- MODULE RateLimiterProof ---------------------------
(***************************************************************************)
(* Proofs about RateLimiter, for every set of replicas and of requests,     *)
(* every rate, every bound on faults, and hosts that booted whenever.      *)
(***************************************************************************)
EXTENDS RateLimiter, FiniteSetTheorems, FunctionTheorems, TLAPS

-----------------------------------------------------------------------------
(* The inductive invariant, in its parts. *)

(* What the bucket in Redis holds, by clocks that agree with the one that   *)
(* stamped it.                                                             *)
SharedNow == IF shared.age = Expiry THEN Rate ELSE Filled(shared.tokens, shared.age)

(* Clocks that agree do agree with that one, and no bucket is in debt.      *)
StampInv ==
  ClocksAgree =>
    /\ shared.tokens \in 0..Rate
    /\ shared.age # Expiry => \A r \in Replicas : shared.origin = boot[r]

(* What is missing from a bucket has been taken lately: it holds what it    *)
(* would have gained in n ticks, but for what was taken since.             *)
BusyInv ==
  ClocksAgree => \A n \in Ago :
    /\ SharedNow + taken[n] >= n
    /\ \A r \in Replicas, l \in Limiters : local[r][l] + taken[n] >= n

(* The tokens in the local buckets of U. *)
Spare(U) == {t \in U \X (1..Rate) : t[2] <= local[t[1][1]][t[1][2]]}

(* The local buckets that are not in use are full; and what was taken in n  *)
(* ticks, with what is left for the next requests, is a burst and n ticks'  *)
(* refill of each bucket that has been in use.                             *)
Charged ==
  /\ IsFiniteSet(inUse) /\ Cardinality(inUse) + 1 <= buckets
  /\ \A r \in Replicas, l \in Limiters : <<r, l>> \notin inUse => local[r][l] = Rate
  /\ \A n \in Ago :
       taken[n] + SharedNow + Cardinality(Spare(inUse)) <= (Rate + n) * buckets

ChargeInv == ClocksAgree => Charged

(* A bucket that no limiter has used for a while has filled for so long.    *)
QuietInv ==
  /\ shared.age = Expiry \/ quiet <= shared.age
  /\ \A r \in Replicas, l \in Limiters : local[r][l] = Rate \/ quiet <= local[r][l]

IInv == StampInv /\ BusyInv /\ ChargeInv /\ QuietInv

-----------------------------------------------------------------------------
(* Facts about the operators. *)

LEMMA RateFacts ==
  /\ Rate \in Nat /\ Rate >= 2
  /\ Expiry \in Nat /\ Expiry = 2 * Rate /\ Expiry # 0
  /\ 0 \in Ago /\ Rate \in Ago /\ Ago \subseteq Nat
  /\ MaxFaults \in Nat
  BY LimiterAssumption DEF Expiry, Ago

LEMMA FilledIsBounded ==
  ASSUME NEW tokens \in 0..Rate, NEW since \in Nat
  PROVE  /\ Filled(tokens, since) \in 0..Rate
         /\ Filled(tokens, since) >= tokens
         /\ Filled(tokens, since) <= tokens + since
         /\ Filled(tokens, since) = Rate \/ Filled(tokens, since) = tokens + since
  BY RateFacts DEF Filled

LEMMA LeftIsBounded ==
  ASSUME NEW tokens \in 0..Rate
  PROVE  /\ Left(tokens) \in 0..Rate
         /\ tokens < 1 => tokens = 0 /\ Left(tokens) = 0
         /\ tokens >= 1 => Left(tokens) = tokens - 1
  BY RateFacts DEF Left

LEMMA IdleRequestIsRequest == IdleRequest \in Request
<1>1. (CHOOSE r \in Replicas : TRUE) \in Replicas
  BY LimiterAssumption
<1> QED
  BY <1>1 DEF IdleRequest, Request, Ended, Limiters

LEMMA NoBucketIsBucket == NoBucket \in [tokens : Int, age : 0..Expiry, origin : Nat]
  BY RateFacts DEF NoBucket

-----------------------------------------------------------------------------
(* Type correctness, and what the parts of a step do. *)

LEMMA RequestTyped ==
  ASSUME TypeOK, NEW q \in Requests
  PROVE  /\ requests[q] \in Request
         /\ requests[q].at \in Replicas /\ requests[q].limiter \in Limiters
  BY DEF TypeOK, Request

LEMMA DecidesTyped ==
  ASSUME TypeOK, NEW q \in Requests, NEW tokens \in Int, Decides(q, tokens)
  PROVE  /\ requests' \in [Requests -> Request]
         /\ taken' \in [Ago -> Nat]
         /\ quiet' \in 0..Expiry
         /\ \A n \in Ago : taken'[n] = IF tokens < 1 THEN taken[n] ELSE taken[n] + 1
<1>1. /\ [IdleRequest EXCEPT !.pc = "refused"] \in Request
      /\ [requests[q] EXCEPT !.pc = "enter", !.limiter = "all"] \in Request
      /\ IdleRequest \in Request
  BY RequestTyped, IdleRequestIsRequest DEF Request, Ended, Limiters
<1>2. requests' \in [Requests -> Request]
  BY <1>1 DEF Decides, TypeOK
<1>3. quiet' = 0
  BY DEF Decides
<1> QED
  BY <1>2, <1>3, RateFacts DEF Decides, TypeOK

LEMMA LocalDecision ==
  ASSUME TypeOK, NEW q \in Requests, DecidesLocally(q)
  PROVE  /\ requests' \in [Requests -> Request]
         /\ local' \in [Replicas -> [Limiters -> 0..Rate]]
         /\ taken' \in [Ago -> Nat]
         /\ quiet' = 0
         /\ \A r \in Replicas, l \in Limiters :
              local'[r][l] = IF r = requests[q].at /\ l = requests[q].limiter
                               THEN Left(local[r][l]) ELSE local[r][l]
         /\ \A n \in Ago :
              taken'[n] = IF local[requests[q].at][requests[q].limiter] < 1
                            THEN taken[n] ELSE taken[n] + 1
<1> DEFINE r0 == requests[q].at
           l0 == requests[q].limiter
<1>1. r0 \in Replicas /\ l0 \in Limiters
  BY RequestTyped
<1>2. local[r0][l0] \in 0..Rate
  BY <1>1 DEF TypeOK
<1>3. /\ Decides(q, local[r0][l0])
      /\ local' = [local EXCEPT ![r0][l0] = Left(local[r0][l0])]
  BY DEF DecidesLocally
<1>4. Left(local[r0][l0]) \in 0..Rate
  BY <1>2, LeftIsBounded
<1>5. local' \in [Replicas -> [Limiters -> 0..Rate]]
  BY <1>1, <1>3, <1>4 DEF TypeOK
<1>6. \A r \in Replicas, l \in Limiters :
        local'[r][l] = IF r = r0 /\ l = l0 THEN Left(local[r][l]) ELSE local[r][l]
  BY <1>1, <1>3 DEF TypeOK
<1>7. quiet' = 0
  BY <1>3 DEF Decides
<1>8. local[r0][l0] \in Int
  BY <1>2
<1> QED
  BY <1>3, <1>5, <1>6, <1>7, <1>8, DecidesTyped

LEMMA LocalUse ==
  ASSUME TypeOK, NEW q \in Requests, DecidesLocally(q),
         NEW b, b = <<requests[q].at, requests[q].limiter>>
  PROVE  /\ inUse' = inUse \cup {b}
         /\ buckets' = IF b \in inUse THEN buckets ELSE buckets + 1
  BY DEF DecidesLocally

LEMMA LocalUseTyped ==
  ASSUME TypeOK, NEW q \in Requests, DecidesLocally(q)
  PROVE  inUse' \subseteq Replicas \X Limiters /\ buckets' \in Nat
<1>1. PICK b \in Replicas \X Limiters : b = <<requests[q].at, requests[q].limiter>>
  BY RequestTyped
<1> QED
  BY <1>1, LocalUse DEF TypeOK

LEMMA FoundIsInt ==
  ASSUME TypeOK, NEW q \in Requests
  PROVE  Found(q) \in Int /\ boot[requests[q].at] \in Nat
<1>1. boot[requests[q].at] \in Nat
  BY RequestTyped, LimiterAssumption DEF TypeOK
<1> QED
  BY <1>1, RateFacts DEF TypeOK, Found, Filled

LEMMA ScriptTyped ==
  ASSUME TypeOK, NEW q \in Requests, RunsScript(q)
  PROVE  shared' \in [tokens : Int, age : 0..Expiry, origin : Nat]
<1>1. Left(Found(q)) \in Int
  BY FoundIsInt DEF Left
<1> QED
  BY <1>1, FoundIsInt, RateFacts DEF RunsScript

LEMMA InitTypeOK == Init => TypeOK
  BY IdleRequestIsRequest, NoBucketIsBucket, RateFacts DEF Init, TypeOK, Each

LEMMA TypeStep ==
  ASSUME TypeOK, [Next]_vars
  PROVE  TypeOK'
<1>1. ASSUME NEW q \in Requests, NEW r \in Replicas, NEW l \in Limiters, Arrives(q, r, l)
      PROVE  TypeOK'
  <2>1. [pc |-> "enter", at |-> r, limiter |-> l] \in Request
    BY DEF Request
  <2>2. requests' \in [Requests -> Request]
    BY <1>1, <2>1 DEF Arrives, TypeOK
  <2> QED
    BY <1>1, <2>2 DEF Arrives, TypeOK
<1>2. ASSUME NEW q \in Requests, Enters(q)
      PROVE  TypeOK'
  <2>1. UNCHANGED <<boot, shared, redis, faults>>
    BY <1>2 DEF Enters
  <2>2. CASE DecidesLocally(q)
    BY <2>1, <2>2, LocalDecision, LocalUseTyped, RateFacts DEF TypeOK
  <2>3. CASE ~DecidesLocally(q)
    <3>1. [requests[q] EXCEPT !.pc = IF redis[requests[q].at][requests[q].limiter] = "new"
                                      THEN "ping" ELSE "eval"] \in Request
      BY RequestTyped DEF Request
    <3>2. /\ requests' = [requests EXCEPT ![q].pc =
               IF redis[requests[q].at][requests[q].limiter] = "new"
               THEN "ping" ELSE "eval"]
          /\ UNCHANGED <<local, taken, quiet, inUse, buckets>>
      BY <1>2, <2>3 DEF Enters
    <3>3. requests' \in [Requests -> Request]
      BY <3>1, <3>2 DEF TypeOK
    <3> QED
      BY <2>1, <3>2, <3>3 DEF TypeOK
  <2> QED
    BY <2>2, <2>3
<1>3. ASSUME NEW q \in Requests, PingWorks(q)
      PROVE  TypeOK'
  <2>1. [requests[q] EXCEPT !.pc = "eval"] \in Request
    BY RequestTyped DEF Request
  <2>2. /\ requests' \in [Requests -> Request]
        /\ redis' \in [Replicas -> [Limiters -> {"new", "client", "failed"}]]
    BY <1>3, <2>1, RequestTyped DEF PingWorks, TypeOK
  <2> QED
    BY <1>3, <2>2 DEF PingWorks, TypeOK
<1>4. ASSUME NEW q \in Requests, PingFails(q)
      PROVE  TypeOK'
  <2>1. UNCHANGED <<boot, shared>> /\ faults' \in 0..MaxFaults
    BY <1>4, RateFacts DEF PingFails, Fault, TypeOK
  <2>2. redis' \in [Replicas -> [Limiters -> {"new", "client", "failed"}]]
    <3>1. \/ redis' = redis
          \/ redis' = [redis EXCEPT ![requests[q].at][requests[q].limiter] = "failed"]
      BY <1>4 DEF PingFails
    <3>2. requests[q].at \in Replicas /\ requests[q].limiter \in Limiters
      BY RequestTyped
    <3>3. redis \in [Replicas -> [Limiters -> {"new", "client", "failed"}]]
      BY DEF TypeOK
    <3> QED
      BY <3>1, <3>2, <3>3
  <2>3. CASE DecidesLocally(q)
    BY <2>1, <2>2, <2>3, LocalDecision, LocalUseTyped, RateFacts DEF TypeOK
  <2>4. CASE ~DecidesLocally(q)
    <3>1. [requests[q] EXCEPT !.pc = "eval"] \in Request
      BY RequestTyped DEF Request
    <3>2. /\ UNCHANGED <<local, taken, quiet, inUse, buckets>>
          /\ requests' = [requests EXCEPT ![q].pc = "eval"]
      BY <1>4, <2>4 DEF PingFails
    <3>3. requests' \in [Requests -> Request]
      BY <3>1, <3>2 DEF TypeOK
    <3> QED
      BY <2>1, <2>2, <3>2, <3>3 DEF TypeOK
  <2> QED
    BY <2>3, <2>4
<1>5. ASSUME NEW q \in Requests, Evaluated(q)
      PROVE  TypeOK'
  <2>1. RunsScript(q) /\ Decides(q, Found(q)) /\ UNCHANGED <<boot, local, redis, faults, inUse, buckets>>
    BY <1>5 DEF Evaluated
  <2>2. shared' \in [tokens : Int, age : 0..Expiry, origin : Nat]
    BY <2>1, ScriptTyped
  <2>3. requests' \in [Requests -> Request] /\ taken' \in [Ago -> Nat] /\ quiet' \in 0..Expiry
    BY <2>1, FoundIsInt, DecidesTyped
  <2> QED
    BY <2>1, <2>2, <2>3 DEF TypeOK
<1>6. ASSUME NEW q \in Requests, NEW ran \in BOOLEAN, EvalFails(q, ran)
      PROVE  TypeOK'
  <2>1. DecidesLocally(q) /\ UNCHANGED <<boot, redis>> /\ faults' \in 0..MaxFaults
    BY <1>6, RateFacts DEF EvalFails, Fault, TypeOK
  <2>2. shared' \in [tokens : Int, age : 0..Expiry, origin : Nat]
    BY <1>6, ScriptTyped DEF EvalFails, TypeOK
  <2> QED
    BY <2>1, <2>2, LocalDecision, LocalUseTyped, RateFacts DEF TypeOK
<1>7. ASSUME NEW r \in Replicas, Restart(r)
      PROVE  TypeOK'
  <2>1. /\ local' \in [Replicas -> [Limiters -> 0..Rate]]
        /\ redis' \in [Replicas -> [Limiters -> {"new", "client", "failed"}]]
    BY <1>7, RateFacts DEF Restart, Each, TypeOK
  <2>2. requests' \in [Requests -> Request] /\ faults' \in 0..MaxFaults
    BY <1>7, IdleRequestIsRequest, RateFacts DEF Restart, Fault, TypeOK
  <2> QED
    BY <1>7, <2>1, <2>2 DEF Restart, TypeOK
<1>8. CASE RedisLosesData
  BY <1>8, NoBucketIsBucket, RateFacts DEF RedisLosesData, Fault, TypeOK
<1>9. CASE Tick
  <2>1. shared' \in [tokens : Int, age : 0..Expiry, origin : Nat]
    BY <1>9, NoBucketIsBucket, RateFacts DEF Tick, Older, TypeOK
  <2>2. local' \in [Replicas -> [Limiters -> 0..Rate]]
    BY <1>9, FilledIsBounded DEF Tick, TypeOK
  <2>3. taken' \in [Ago -> Nat]
    BY <1>9, RateFacts DEF Tick, TypeOK, Ago
  <2>4. quiet' \in 0..Expiry
    BY <1>9, RateFacts DEF Tick, TypeOK
  <2> QED
    BY <1>9, <2>1, <2>2, <2>3, <2>4 DEF Tick, TypeOK
<1>10. CASE UNCHANGED vars
  BY <1>10 DEF vars, TypeOK
<1> QED
  BY <1>1, <1>2, <1>3, <1>4, <1>5, <1>6, <1>7, <1>8, <1>9, <1>10 DEF Next

(* Every variable of RateLimiter stays within its type: a local bucket is   *)
(* never in debt, and a bucket in Redis expires (_TokenBucketLimiter).      *)
THEOREM TypeCorrect == Spec => []TypeOK
<1>1. Init => TypeOK
  BY InitTypeOK
<1>2. TypeOK /\ [Next]_vars => TypeOK'
  BY TypeStep
<1> QED
  BY <1>1, <1>2, PTL DEF Spec

-----------------------------------------------------------------------------
(* The bucket in Redis, seen by clocks that agree. *)

LEMMA SharedNowIsBounded ==
  ASSUME TypeOK, StampInv, ClocksAgree
  PROVE  SharedNow \in 0..Rate
<1>1. shared.tokens \in 0..Rate /\ shared.age \in Nat
  BY RateFacts DEF StampInv, TypeOK
<1>2. Filled(shared.tokens, shared.age) \in 0..Rate
  BY <1>1, FilledIsBounded
<1> QED
  BY <1>2, RateFacts DEF SharedNow

LEMMA ScriptRun ==
  ASSUME TypeOK, StampInv, ClocksAgree, NEW q \in Requests, RunsScript(q), boot' = boot
  PROVE  /\ Found(q) = SharedNow
         /\ SharedNow' = Left(SharedNow)
         /\ shared'.tokens \in 0..Rate
         /\ \A r \in Replicas : shared'.origin = boot'[r]
<1>1. requests[q].at \in Replicas /\ boot[requests[q].at] \in Nat
  BY RequestTyped, FoundIsInt
<1>2. shared.age \in Nat
  BY RateFacts DEF TypeOK
<1>3. Found(q) = SharedNow
  <2>1. CASE shared.age = Expiry
    BY <2>1 DEF Found, SharedNow
  <2>2. CASE shared.age # Expiry
    <3>1. shared.origin = boot[requests[q].at]
      BY <1>1, <2>2 DEF StampInv
    <3>2. shared.age + boot[requests[q].at] - shared.origin = shared.age
      BY <1>1, <1>2, <3>1
    <3> QED
      BY <2>2, <3>2 DEF Found, SharedNow
  <2> QED
    BY <2>1, <2>2
<1>4. /\ shared'.tokens = Left(SharedNow) /\ shared'.age = 0
      /\ shared'.origin = boot[requests[q].at]
  BY <1>3 DEF RunsScript
<1>5. Left(SharedNow) \in 0..Rate
  BY SharedNowIsBounded, LeftIsBounded
<1>6. SharedNow' = Left(SharedNow)
  BY <1>4, <1>5, RateFacts DEF SharedNow, Filled
<1>7. \A r \in Replicas : shared'.origin = boot'[r]
  BY <1>1, <1>4 DEF ClocksAgree
<1> QED
  BY <1>3, <1>4, <1>5, <1>6, <1>7

LEMMA SharedTicks ==
  ASSUME TypeOK, StampInv, ClocksAgree, Tick
  PROVE  /\ SharedNow' = Filled(SharedNow, 1)
         /\ shared'.tokens \in 0..Rate
         /\ shared'.age # Expiry => shared.age # Expiry /\ shared'.origin = shared.origin
<1>1. shared.tokens \in 0..Rate /\ shared.age \in 0..Expiry
  BY DEF StampInv, TypeOK
<1>2. CASE shared.age = Expiry
  BY <1>1, <1>2, RateFacts DEF Tick, SharedNow, Filled
<1>3. CASE shared.age + 1 < Expiry
  <2>1. shared' = [shared EXCEPT !.age = shared.age + 1]
    BY <1>3, RateFacts DEF Tick, Older, TypeOK
  <2>2. /\ shared'.tokens = shared.tokens /\ shared'.age = shared.age + 1
        /\ shared'.origin = shared.origin
    BY <2>1 DEF TypeOK
  <2> QED
    BY <1>1, <1>3, <2>2, RateFacts DEF SharedNow, Filled
<1>4. CASE shared.age # Expiry /\ ~(shared.age + 1 < Expiry)
  <2>1. shared' = NoBucket
    BY <1>4 DEF Tick, Older
  <2>2. shared.age >= Rate
    BY <1>1, <1>4, RateFacts
  <2>3. SharedNow = Rate
    BY <1>1, <1>4, <2>2, RateFacts DEF SharedNow, Filled
  <2> QED
    BY <2>1, <2>3, RateFacts DEF NoBucket, SharedNow, Filled
<1> QED
  BY <1>1, <1>2, <1>3, <1>4, RateFacts

LEMMA BootsStay ==
  ASSUME [Next]_vars
  PROVE  boot' = boot /\ (ClocksAgree' <=> ClocksAgree)
<1>1. boot' = boot
  BY DEF Next, vars, Arrives, Enters, PingWorks, PingFails, Evaluated, EvalFails, Restart,
         RedisLosesData, Tick
<1> QED
  BY <1>1 DEF ClocksAgree

LEMMA StampStep ==
  ASSUME TypeOK, StampInv, [Next]_vars
  PROVE  StampInv'
<1> SUFFICES ASSUME ClocksAgree
             PROVE  /\ shared'.tokens \in 0..Rate
                    /\ shared'.age # Expiry => \A r \in Replicas : shared'.origin = boot'[r]
  BY BootsStay DEF StampInv
<1>1. CASE shared' = shared
  BY <1>1, BootsStay DEF StampInv
<1>2. ASSUME NEW q \in Requests, RunsScript(q)
      PROVE  /\ shared'.tokens \in 0..Rate
             /\ \A r \in Replicas : shared'.origin = boot'[r]
  BY <1>2, BootsStay, ScriptRun
<1>3. CASE RedisLosesData
  BY <1>3, RateFacts DEF RedisLosesData, NoBucket
<1>4. CASE Tick
  BY <1>4, SharedTicks, BootsStay DEF StampInv
<1> QED
  BY <1>1, <1>2, <1>3, <1>4
  DEF Next, vars, Arrives, Enters, PingWorks, PingFails, Evaluated, EvalFails, Restart

-----------------------------------------------------------------------------
(* A pause heals. *)

LEMMA QuietStep ==
  ASSUME TypeOK, QuietInv, [Next]_vars
  PROVE  QuietInv'
<1>0. /\ quiet \in Nat /\ shared.age \in 0..Expiry /\ shared'.age \in 0..Expiry
      /\ \A r \in Replicas, l \in Limiters :
           local[r][l] \in 0..Rate /\ local'[r][l] \in 0..Rate
  BY TypeStep, RateFacts DEF TypeOK
<1>1. CASE quiet' = 0
  BY <1>0, <1>1, RateFacts DEF QuietInv
<1>2. CASE quiet' = quiet /\ shared' \in {shared, NoBucket} /\ local' = local
  BY <1>2 DEF QuietInv, NoBucket
<1>3. ASSUME NEW r \in Replicas, Restart(r)
      PROVE  QuietInv'
  <2>1. \A s \in Replicas, l \in Limiters : local'[s][l] \in {Rate, local[s][l]}
    BY <1>3 DEF Restart, Each, TypeOK
  <2>2. quiet' = quiet /\ shared' = shared
    BY <1>3 DEF Restart
  <2> QED
    BY <2>1, <2>2 DEF QuietInv
<1>4. CASE Tick
  <2>1. quiet' <= quiet + 1
    BY <1>0, <1>4, RateFacts DEF Tick
  <2>2. shared'.age = Expiry \/ quiet' <= shared'.age
    <3>1. CASE shared.age = Expiry
      BY <1>4, <3>1 DEF Tick
    <3>2. CASE shared.age + 1 < Expiry
      <4>1. shared'.age = shared.age + 1
        BY <1>4, <3>2, RateFacts DEF Tick, Older, TypeOK
      <4>2. quiet <= shared.age
        BY <1>0, <3>2, RateFacts DEF QuietInv
      <4>3. quiet' \in Nat
        BY TypeStep, RateFacts DEF TypeOK
      <4> QED
        BY <1>0, <2>1, <4>1, <4>2, <4>3
    <3>3. CASE shared.age # Expiry /\ ~(shared.age + 1 < Expiry)
      BY <1>4, <3>3 DEF Tick, Older, NoBucket
    <3> QED
      BY <3>1, <3>2, <3>3
  <2>3. ASSUME NEW r \in Replicas, NEW l \in Limiters
        PROVE  local'[r][l] = Rate \/ quiet' <= local'[r][l]
    <3>1. local'[r][l] = Filled(local[r][l], 1)
      BY <1>4 DEF Tick
    <3>2. local'[r][l] = Rate \/ local'[r][l] = local[r][l] + 1
      BY <1>0, <3>1, FilledIsBounded
    <3>3. local[r][l] = Rate \/ quiet <= local[r][l]
      BY DEF QuietInv
    <3>4. quiet' \in Nat
      BY TypeStep, RateFacts DEF TypeOK
    <3> QED
      BY <1>0, <2>1, <3>2, <3>3, <3>4, RateFacts
  <2> QED
    BY <2>2, <2>3 DEF QuietInv
<1> QED
  BY <1>1, <1>2, <1>3, <1>4
  DEF Next, vars, Arrives, Enters, PingWorks, PingFails, Evaluated, EvalFails, RedisLosesData,
      DecidesLocally, Decides

-----------------------------------------------------------------------------
(* What is missing has been taken. *)

LEMMA BusyAfterLocal ==
  ASSUME TypeOK, StampInv, BusyInv, ClocksAgree, NEW q \in Requests, DecidesLocally(q),
         SharedNow' \in {SharedNow, Left(SharedNow)}, NEW n \in Ago
  PROVE  /\ SharedNow' + taken'[n] >= n
         /\ \A r \in Replicas, l \in Limiters : local'[r][l] + taken'[n] >= n
<1>1. PICK r0 \in Replicas, l0 \in Limiters :
        r0 = requests[q].at /\ l0 = requests[q].limiter
  BY RequestTyped
<1>2. /\ SharedNow \in 0..Rate /\ taken[n] \in Nat /\ n \in Nat
      /\ \A r \in Replicas, l \in Limiters : local[r][l] \in 0..Rate
  BY SharedNowIsBounded, RateFacts DEF TypeOK
<1>3. /\ SharedNow + taken[n] >= n
      /\ \A r \in Replicas, l \in Limiters : local[r][l] + taken[n] >= n
  BY DEF BusyInv
<1>4. /\ \A r \in Replicas, l \in Limiters :
           local'[r][l] = IF r = r0 /\ l = l0 THEN Left(local[r][l]) ELSE local[r][l]
      /\ taken'[n] = IF local[r0][l0] < 1 THEN taken[n] ELSE taken[n] + 1
  BY <1>1, LocalDecision
<1>5. /\ \A r \in Replicas, l \in Limiters : local'[r][l] \in {local[r][l], local[r][l] - 1} /\ local'[r][l] \in Nat
      /\ SharedNow' \in {SharedNow, SharedNow - 1} /\ SharedNow' \in Nat
  BY <1>2, <1>4, LeftIsBounded, RateFacts
<1>6. CASE local[r0][l0] < 1
  <2>1. taken[n] >= n /\ taken'[n] = taken[n]
    BY <1>2, <1>3, <1>4, <1>6
  <2> QED
    BY <1>2, <1>5, <2>1
<1>7. CASE local[r0][l0] >= 1
  <2>1. taken'[n] = taken[n] + 1
    BY <1>2, <1>4, <1>7
  <2> QED
    BY <1>2, <1>3, <1>5, <2>1
<1> QED
  BY <1>2, <1>6, <1>7

LEMMA BusyAfterTick ==
  ASSUME TypeOK, StampInv, BusyInv, ClocksAgree, Tick, NEW n \in Ago
  PROVE  /\ SharedNow' + taken'[n] >= n
         /\ \A r \in Replicas, l \in Limiters : local'[r][l] + taken'[n] >= n
<1>1. /\ SharedNow \in 0..Rate /\ n \in 0..Rate
      /\ \A r \in Replicas, l \in Limiters : local[r][l] \in 0..Rate
      /\ \A m \in Ago : taken[m] \in Nat
  BY SharedNowIsBounded DEF TypeOK, Ago
<1>2. /\ SharedNow' = Filled(SharedNow, 1)
      /\ \A r \in Replicas, l \in Limiters : local'[r][l] = Filled(local[r][l], 1)
      /\ taken'[n] = IF n = 0 THEN 0 ELSE taken[n - 1]
  BY SharedTicks DEF Tick
<1>3. /\ SharedNow' \in 0..Rate /\ SharedNow' \in {Rate, SharedNow + 1}
      /\ \A r \in Replicas, l \in Limiters :
           local'[r][l] \in 0..Rate /\ local'[r][l] \in {Rate, local[r][l] + 1}
  BY <1>1, <1>2, FilledIsBounded
<1>4. CASE n = 0
  BY <1>2, <1>3, <1>4
<1>5. CASE n # 0
  <2>1. n - 1 \in Ago /\ taken'[n] = taken[n - 1] /\ taken[n - 1] \in Nat
    BY <1>1, <1>2, <1>5, RateFacts DEF Ago
  <2>2. /\ SharedNow + taken[n - 1] >= n - 1
        /\ \A r \in Replicas, l \in Limiters : local[r][l] + taken[n - 1] >= n - 1
    BY <2>1 DEF BusyInv
  <2> QED
    BY <1>1, <1>3, <2>1, <2>2, RateFacts
<1> QED
  BY <1>4, <1>5

LEMMA BusyStep ==
  ASSUME TypeOK, StampInv, BusyInv, [Next]_vars
  PROVE  BusyInv'
<1> SUFFICES ASSUME ClocksAgree, NEW n \in Ago
             PROVE  /\ SharedNow' + taken'[n] >= n
                    /\ \A r \in Replicas, l \in Limiters : local'[r][l] + taken'[n] >= n
  BY BootsStay DEF BusyInv, Ago
<1>1. /\ SharedNow \in 0..Rate /\ taken[n] \in Nat /\ n \in 0..Rate
      /\ \A r \in Replicas, l \in Limiters : local[r][l] \in 0..Rate
  BY SharedNowIsBounded DEF TypeOK, Ago
<1>2. /\ SharedNow + taken[n] >= n
      /\ \A r \in Replicas, l \in Limiters : local[r][l] + taken[n] >= n
  BY DEF BusyInv
<1>3. shared' = shared => SharedNow' = SharedNow
  BY DEF SharedNow
<1>4. CASE UNCHANGED <<shared, local, taken>>
  BY <1>2, <1>3, <1>4
<1>5. ASSUME NEW q \in Requests, DecidesLocally(q), shared' = shared
      PROVE  /\ SharedNow' + taken'[n] >= n
             /\ \A r \in Replicas, l \in Limiters : local'[r][l] + taken'[n] >= n
  BY <1>3, <1>5, BusyAfterLocal
<1>6. ASSUME NEW q \in Requests, Evaluated(q)
      PROVE  /\ SharedNow' + taken'[n] >= n
             /\ \A r \in Replicas, l \in Limiters : local'[r][l] + taken'[n] >= n
  <2>1. RunsScript(q) /\ Decides(q, Found(q)) /\ local' = local /\ boot' = boot
    BY <1>6 DEF Evaluated
  <2>2. Found(q) = SharedNow /\ SharedNow' = Left(SharedNow)
    BY <2>1, ScriptRun
  <2>3. taken'[n] = IF SharedNow < 1 THEN taken[n] ELSE taken[n] + 1
    BY <1>1, <2>1, <2>2, DecidesTyped
  <2> QED
    BY <1>1, <1>2, <2>1, <2>2, <2>3, LeftIsBounded
<1>7. ASSUME NEW q \in Requests, NEW ran \in BOOLEAN, EvalFails(q, ran)
      PROVE  /\ SharedNow' + taken'[n] >= n
             /\ \A r \in Replicas, l \in Limiters : local'[r][l] + taken'[n] >= n
  <2>1. DecidesLocally(q) /\ (RunsScript(q) \/ shared' = shared) /\ boot' = boot
    BY <1>7 DEF EvalFails
  <2>2. SharedNow' \in {SharedNow, Left(SharedNow)}
    BY <1>3, <2>1, ScriptRun
  <2> QED
    BY <2>1, <2>2, BusyAfterLocal
<1>8. ASSUME NEW r \in Replicas, Restart(r)
      PROVE  /\ SharedNow' + taken'[n] >= n
             /\ \A s \in Replicas, l \in Limiters : local'[s][l] + taken'[n] >= n
  <2>1. /\ shared' = shared /\ taken' = taken
        /\ \A s \in Replicas, l \in Limiters : local'[s][l] \in {Rate, local[s][l]}
    BY <1>8 DEF Restart, Each, TypeOK
  <2> QED
    BY <1>1, <1>2, <1>3, <2>1, RateFacts
<1>9. CASE RedisLosesData
  <2>1. SharedNow' = Rate /\ local' = local /\ taken' = taken
    BY <1>9 DEF RedisLosesData, NoBucket, SharedNow
  <2> QED
    BY <1>1, <1>2, <2>1, RateFacts
<1>10. CASE Tick
  BY <1>10, BusyAfterTick
<1> QED
  BY <1>4, <1>5, <1>6, <1>7, <1>8, <1>9, <1>10
  DEF Next, vars, Arrives, Enters, PingWorks, PingFails

-----------------------------------------------------------------------------
(* The buckets in use. *)

LEMMA ImageIsSmall ==
  ASSUME NEW S, IsFiniteSet(S), NEW f, DOMAIN f = S, f = [s \in S |-> f[s]]
  PROVE  /\ IsFiniteSet({f[s] : s \in S})
         /\ Cardinality({f[s] : s \in S}) <= Cardinality(S)
<1> DEFINE T == {f[s] : s \in S}
<1>1. f \in [S -> T] /\ \A t \in T : \E s \in S : f[s] = t
  OBVIOUS
<1>2. f \in Surjection(S, T)
  BY <1>1, Fun_IsSurj
<1> QED
  BY <1>2, FS_Surjection

LEMMA SpareIsFinite ==
  ASSUME NEW U, IsFiniteSet(U), NEW S \in SUBSET (U \X (1..Rate))
  PROVE  /\ IsFiniteSet(S) /\ Cardinality(S) \in Nat
         /\ Cardinality(U) \in Nat
         /\ Cardinality(S) <= Cardinality(U) * Rate
<1>1. IsFiniteSet(1..Rate) /\ Cardinality(1..Rate) = Rate
  BY FS_Interval, RateFacts
<1>2. IsFiniteSet(U \X (1..Rate)) /\ Cardinality(U \X (1..Rate)) = Cardinality(U) * Rate
  BY <1>1, FS_Product
<1> QED
  BY <1>2, FS_Subset, FS_CardinalityType

LEMMA SpareIsSpare == \A U : Spare(U) \in SUBSET (U \X (1..Rate))
  BY DEF Spare

LEMMA SpareIsSpareNext == \A U : Spare(U)' \in SUBSET (U \X (1..Rate))
  BY DEF Spare

Buckets == Replicas \X Limiters

(* Where no bucket gains, the spare tokens do not grow in number. *)
LEMMA SpareShrinks ==
  ASSUME NEW U \in SUBSET Buckets, IsFiniteSet(U), NEW W \in SUBSET U, TypeOK, TypeOK',
         \A r \in Replicas, l \in Limiters : <<r, l>> \in W => local'[r][l] <= local[r][l]
  PROVE  Cardinality(Spare(W)') <= Cardinality(Spare(U))
<1>1. ASSUME NEW b \in W, NEW i \in 1..Rate, i <= local'[b[1]][b[2]]
      PROVE  i <= local[b[1]][b[2]]
  <2>1. /\ b[1] \in Replicas /\ b[2] \in Limiters /\ <<b[1], b[2]>> \in W
    BY DEF Buckets
  <2>2. local'[b[1]][b[2]] <= local[b[1]][b[2]]
    BY <2>1
  <2>3. local'[b[1]][b[2]] \in Nat /\ local[b[1]][b[2]] \in Nat
    BY <2>1, RateFacts DEF TypeOK
  <2> QED
    BY <1>1, <2>2, <2>3, RateFacts
<1>2. Spare(W)' \subseteq Spare(U)
  BY <1>1 DEF Spare
<1> QED
  BY <1>2, SpareIsSpare, SpareIsFinite, FS_Subset

(* A tick adds one for each bucket at most. *)
LEMMA SpareTicks ==
  ASSUME NEW U \in SUBSET Buckets, IsFiniteSet(U), TypeOK, Tick
  PROVE  Cardinality(Spare(U)') <= Cardinality(Spare(U)) + Cardinality(U)
<1> DEFINE f == [b \in U |-> <<b, local[b[1]][b[2]] + 1>>]
           New == {f[b] : b \in U}
<1>1. IsFiniteSet(New) /\ Cardinality(New) <= Cardinality(U)
  BY ImageIsSmall
<1>2. ASSUME NEW b \in U, NEW i \in 1..Rate, i <= local'[b[1]][b[2]]
      PROVE  <<b, i>> \in Spare(U) \cup New
  <2>1. /\ b[1] \in Replicas /\ b[2] \in Limiters
    BY DEF Buckets
  <2>2. local[b[1]][b[2]] \in 0..Rate /\ local'[b[1]][b[2]] = Filled(local[b[1]][b[2]], 1)
    BY <2>1 DEF TypeOK, Tick
  <2>3. local'[b[1]][b[2]] \in Nat /\ local'[b[1]][b[2]] <= local[b[1]][b[2]] + 1
    BY <2>2, FilledIsBounded, RateFacts
  <2>4. i <= local[b[1]][b[2]] \/ i = local[b[1]][b[2]] + 1
    BY <1>2, <2>2, <2>3, RateFacts
  <2>5. CASE i <= local[b[1]][b[2]]
    BY <2>5 DEF Spare
  <2>6. CASE i = local[b[1]][b[2]] + 1
    BY <2>6
  <2> QED
    BY <2>4, <2>5, <2>6
<1>3. Spare(U)' \subseteq Spare(U) \cup New
  BY <1>2 DEF Spare
<1>4. IsFiniteSet(Spare(U)) /\ Cardinality(Spare(U)) \in Nat /\ Cardinality(U) \in Nat
  BY SpareIsSpare, SpareIsFinite
<1> HIDE DEF New
<1>5. /\ IsFiniteSet(Spare(U) \cup New)
      /\ Cardinality(Spare(U) \cup New) =
           Cardinality(Spare(U)) + Cardinality(New) - Cardinality(Spare(U) \cap New)
  BY <1>1, <1>4, FS_Union
<1>6. IsFiniteSet(Spare(U) \cap New)
  BY <1>1, FS_Subset
<1>7. Cardinality(Spare(U) \cap New) \in Nat /\ Cardinality(New) \in Nat
  BY <1>1, <1>6, FS_CardinalityType
<1>8. /\ Cardinality(Spare(U)') <= Cardinality(Spare(U) \cup New)
      /\ Cardinality(Spare(U)') \in Nat
  BY <1>3, <1>5, FS_Subset, FS_CardinalityType
<1> QED
  BY <1>1, <1>4, <1>5, <1>7, <1>8

(* A local decision uses up a spare token for each one that it takes. *)
LEMMA SpareDecides ==
  ASSUME NEW U \in SUBSET Buckets, IsFiniteSet(U), TypeOK,
         NEW q \in Requests, DecidesLocally(q),
         <<requests[q].at, requests[q].limiter>> \in U, NEW n \in Ago
  PROVE  taken'[n] + Cardinality(Spare(U)') <= taken[n] + Cardinality(Spare(U))
<1>1. PICK r0 \in Replicas, l0 \in Limiters :
        r0 = requests[q].at /\ l0 = requests[q].limiter
  BY RequestTyped
<1>2. /\ \A r \in Replicas, l \in Limiters :
           local'[r][l] = IF r = r0 /\ l = l0 THEN Left(local[r][l]) ELSE local[r][l]
      /\ taken'[n] = IF local[r0][l0] < 1 THEN taken[n] ELSE taken[n] + 1
  BY <1>1, LocalDecision
<1>3. /\ \A r \in Replicas, l \in Limiters : local[r][l] \in 0..Rate
      /\ taken[n] \in Nat
  BY DEF TypeOK
<1>4. /\ IsFiniteSet(Spare(U)) /\ Cardinality(Spare(U)) \in Nat
      /\ Cardinality(Spare(U)') \in Nat
  BY SpareIsSpare, SpareIsSpareNext, SpareIsFinite
<1>5. ASSUME NEW b \in U, NEW i \in 1..Rate, i <= local'[b[1]][b[2]]
      PROVE  /\ i <= local[b[1]][b[2]]
             /\ b = <<r0, l0>> => i < local[r0][l0]
  <2>1. b[1] \in Replicas /\ b[2] \in Limiters /\ b = <<b[1], b[2]>>
    BY DEF Buckets
  <2>2. local'[b[1]][b[2]] = IF b[1] = r0 /\ b[2] = l0 THEN Left(local[b[1]][b[2]])
                              ELSE local[b[1]][b[2]]
    BY <1>2, <2>1
  <2>3. local[b[1]][b[2]] \in 0..Rate
    BY <1>3, <2>1
  <2> QED
    BY <1>5, <2>1, <2>2, <2>3, LeftIsBounded, RateFacts
<1>6. CASE local[r0][l0] < 1
  <2>1. Spare(U)' \subseteq Spare(U)
    BY <1>5 DEF Spare
  <2>2. Cardinality(Spare(U)') <= Cardinality(Spare(U))
    BY <1>4, <2>1, FS_Subset
  <2>3. taken'[n] = taken[n]
    BY <1>2, <1>6
  <2> QED
    BY <1>3, <1>4, <2>2, <2>3
<1>7. CASE local[r0][l0] >= 1
  <2> DEFINE t == <<<<r0, l0>>, local[r0][l0]>>
  <2>0. local[r0][l0] \in 1..Rate /\ <<r0, l0>> \in U
    <3>1. local[r0][l0] \in 0..Rate /\ Rate \in Nat
      BY <1>3, RateFacts
    <3> QED
      BY <1>1, <1>7, <3>1
  <2>1. t \in Spare(U)
    <3>1. t \in U \X (1..Rate)
      BY <2>0
    <3>2. t[2] <= local[t[1][1]][t[1][2]]
      BY <2>0
    <3> QED
      BY <3>1, <3>2 DEF Spare
  <2>2. t \notin Spare(U)'
    <3>1. ~(local[r0][l0] <= local'[r0][l0])
      BY <1>3, <1>5, <2>0
    <3> QED
      BY <3>1 DEF Spare
  <2>3. Spare(U)' \subseteq Spare(U) \ {t}
    BY <1>5, <2>2 DEF Spare
  <2> HIDE DEF t
  <2>4. IsFiniteSet(Spare(U) \ {t}) /\ Cardinality(Spare(U) \ {t}) = Cardinality(Spare(U)) - 1
    BY <1>4, <2>1, FS_RemoveElement
  <2>5. Cardinality(Spare(U)') <= Cardinality(Spare(U)) - 1
    BY <2>3, <2>4, FS_Subset
  <2>6. taken'[n] = taken[n] + 1
    BY <1>2, <1>3, <1>7
  <2> QED
    BY <1>3, <1>4, <2>5, <2>6
<1> QED
  BY <1>3, <1>6, <1>7

(* A bucket put to use adds no more than a burst. *)
LEMMA SpareGrows ==
  ASSUME NEW U \in SUBSET Buckets, IsFiniteSet(U), NEW b \in Buckets
  PROVE  /\ IsFiniteSet(U \cup {b}) /\ Cardinality(U \cup {b}) \in Nat
         /\ Cardinality(U) \in Nat /\ Cardinality(U \cup {b}) <= Cardinality(U) + 1
         /\ Cardinality(Spare(U \cup {b})) <= Cardinality(Spare(U)) + Rate
<1> DEFINE W == U \cup {b}
           New == {b} \X (1..Rate)
<1>1. /\ IsFiniteSet(W) /\ Cardinality(W) \in Nat /\ Cardinality(U) \in Nat
      /\ Cardinality(W) <= Cardinality(U) + 1
  <2>1. Cardinality(U) \in Nat
    BY FS_CardinalityType
  <2>2. /\ IsFiniteSet(W)
        /\ Cardinality(W) = IF b \in U THEN Cardinality(U) ELSE Cardinality(U) + 1
    BY FS_AddElement
  <2> QED
    BY <2>1, <2>2
<1>2. IsFiniteSet(New) /\ Cardinality(New) <= Rate /\ Cardinality(New) \in Nat
  <2>1. IsFiniteSet({b}) /\ Cardinality({b}) = 1
    BY FS_Singleton
  <2>2. New \in SUBSET ({b} \X (1..Rate))
    OBVIOUS
  <2>3. /\ IsFiniteSet(New) /\ Cardinality(New) \in Nat
        /\ Cardinality(New) <= Cardinality({b}) * Rate
    BY <2>1, <2>2, SpareIsFinite
  <2> QED
    BY <2>1, <2>3, RateFacts
<1>3. IsFiniteSet(Spare(U)) /\ Cardinality(Spare(U)) \in Nat
  BY SpareIsSpare, SpareIsFinite
<1>4. Spare(W) \subseteq Spare(U) \cup New
  BY DEF Spare
<1> HIDE DEF New
<1>5. /\ IsFiniteSet(Spare(U) \cup New)
      /\ Cardinality(Spare(U) \cup New) =
           Cardinality(Spare(U)) + Cardinality(New) - Cardinality(Spare(U) \cap New)
  BY <1>2, <1>3, FS_Union
<1>6. Cardinality(Spare(U) \cap New) \in Nat
  BY <1>2, FS_Subset, FS_CardinalityType
<1>7. /\ Cardinality(Spare(W)) <= Cardinality(Spare(U) \cup New)
      /\ Cardinality(Spare(W)) \in Nat
  BY <1>4, <1>5, FS_Subset, FS_CardinalityType
<1>8. Cardinality(Spare(W)) <= Cardinality(Spare(U)) + Rate
  BY <1>2, <1>3, <1>5, <1>6, <1>7, RateFacts
<1> QED
  BY <1>1, <1>8

-----------------------------------------------------------------------------
(* What may be taken. *)

LEMMA CapFacts ==
  ASSUME NEW n \in Nat, NEW b \in Nat
  PROVE  /\ (Rate + n) * b \in Nat
         /\ (Rate + n) * (b + 1) = (Rate + n) * b + Rate + n
         /\ n - 1 \in Nat => (Rate + n) * b = (Rate + (n - 1)) * b + b
         /\ (Rate + 0) * b = (b - 1) * Rate + Rate
<1>1. \A x, y \in Nat : x * y \in Nat
  OBVIOUS
<1>2. Rate + n \in Nat
  BY RateFacts
<1>3. (Rate + n) * b \in Nat
  BY <1>1, <1>2
<1>4. (Rate + n) * (b + 1) = (Rate + n) * b + Rate + n
  BY LimiterAssumption
<1>5. (Rate + n) * b = (Rate + (n - 1)) * b + b
  BY LimiterAssumption
<1>6. (Rate + 0) * b = (b - 1) * Rate + Rate
  BY LimiterAssumption
<1> QED
  BY <1>3, <1>4, <1>5, <1>6

LEMMA TimesRateIsMonotonic ==
  ASSUME NEW m \in Nat, NEW f \in Nat, m <= f
  PROVE  m * Rate \in Nat /\ f * Rate \in Nat /\ m * Rate <= f * Rate
<1>1. \A x, y \in Nat : x * y \in Nat
  OBVIOUS
<1>2. m * Rate \in Nat /\ f * Rate \in Nat /\ (f - m) * Rate \in Nat
  BY <1>1, RateFacts
<1>3. f * Rate = m * Rate + (f - m) * Rate
  BY RateFacts
<1> QED
  BY <1>2, <1>3

LEMMA InUseNext ==
  ASSUME TypeOK, NEW W, W = inUse'
  PROVE  Spare(inUse)' = Spare(W)'
  BY DEF Spare

LEMMA ChargedFacts ==
  ASSUME TypeOK, StampInv, ClocksAgree, Charged, NEW n \in Ago
  PROVE  /\ taken[n] \in Nat /\ SharedNow \in 0..Rate /\ buckets \in Nat /\ n \in Nat
         /\ IsFiniteSet(inUse) /\ Cardinality(inUse) \in Nat
         /\ Cardinality(inUse) + 1 <= buckets
         /\ Cardinality(Spare(inUse)) \in Nat /\ (Rate + n) * buckets \in Nat
         /\ taken[n] + SharedNow + Cardinality(Spare(inUse)) <= (Rate + n) * buckets
<1>1. /\ IsFiniteSet(inUse) /\ Cardinality(inUse) + 1 <= buckets
      /\ taken[n] + SharedNow + Cardinality(Spare(inUse)) <= (Rate + n) * buckets
  BY DEF Charged
<1>2. Cardinality(Spare(inUse)) \in Nat /\ Cardinality(inUse) \in Nat
  BY <1>1, SpareIsSpare, SpareIsFinite
<1>3. taken[n] \in Nat /\ SharedNow \in 0..Rate /\ buckets \in Nat /\ n \in Nat
  BY SharedNowIsBounded, RateFacts DEF TypeOK
<1>4. (Rate + n) * buckets \in Nat
  BY <1>3, CapFacts
<1> QED
  BY <1>1, <1>2, <1>3, <1>4

(* Where a step puts no bucket to use. *)
LEMMA ChargeStays ==
  ASSUME TypeOK, TypeOK', StampInv, ClocksAgree, Charged, UNCHANGED <<local, inUse, buckets>>,
         \A n \in Ago : taken'[n] + SharedNow' = taken[n] + SharedNow
  PROVE  Charged'
<1>1. Spare(inUse)' = Spare(inUse)
  BY DEF Spare
<1>2. ASSUME NEW n \in Ago
      PROVE  taken'[n] + SharedNow' + Cardinality(Spare(inUse)') <= (Rate + n) * buckets'
  BY <1>1, <1>2, ChargedFacts
<1> QED
  BY <1>2 DEF Charged

(* A local decision puts its bucket to use, if it was not. *)
LEMMA ChargeDecides ==
  ASSUME TypeOK, TypeOK', StampInv, ClocksAgree, Charged,
         NEW q \in Requests, DecidesLocally(q),
         SharedNow' \in {SharedNow, Left(SharedNow)}
  PROVE  Charged'
<1>1. PICK b \in Buckets : b = <<requests[q].at, requests[q].limiter>>
  BY RequestTyped DEF Buckets
<1>2. PICK U \in SUBSET Buckets : U = inUse
  BY DEF TypeOK, Buckets
<1>3. PICK W \in SUBSET Buckets : W = U \cup {b}
  OBVIOUS
<1>4. inUse' = W /\ buckets' = (IF b \in U THEN buckets ELSE buckets + 1)
  BY <1>1, <1>2, <1>3, LocalUse
<1>5. /\ IsFiniteSet(U) /\ Cardinality(U) + 1 <= buckets /\ buckets \in Nat
      /\ buckets' \in Nat
  BY <1>2 DEF Charged, TypeOK
<1>6. /\ IsFiniteSet(W) /\ Cardinality(W) \in Nat /\ Cardinality(U) \in Nat
      /\ Cardinality(W) <= Cardinality(U) + 1
      /\ Cardinality(Spare(W)) <= Cardinality(Spare(U)) + Rate
  BY <1>3, <1>5, SpareGrows
<1>7. Cardinality(W) + 1 <= buckets'
  <2>1. CASE b \in U
    <3>1. W = U /\ buckets' = buckets
      BY <1>3, <1>4, <2>1
    <3> QED
      BY <1>5, <3>1
  <2>2. CASE b \notin U
    <3>1. buckets' = buckets + 1
      BY <1>4, <2>2
    <3> QED
      BY <1>5, <1>6, <3>1
  <2> QED
    BY <2>1, <2>2
<1>8. ASSUME NEW r \in Replicas, NEW l \in Limiters, <<r, l>> \notin W
      PROVE  local'[r][l] = Rate
  <2>1. <<r, l>> # b /\ <<r, l>> \notin U
    BY <1>3, <1>8
  <2>2. local'[r][l] = local[r][l]
    BY <1>1, <2>1, LocalDecision
  <2> QED
    BY <1>2, <2>1, <2>2 DEF Charged
<1>9. ASSUME NEW n \in Ago
      PROVE  taken'[n] + SharedNow' + Cardinality(Spare(W)') <= (Rate + n) * buckets'
  <2>1. /\ taken[n] \in Nat /\ SharedNow \in 0..Rate /\ n \in Nat
        /\ Cardinality(Spare(U)) \in Nat
        /\ taken[n] + SharedNow + Cardinality(Spare(U)) <= (Rate + n) * buckets
    BY <1>2, ChargedFacts
  <2>2. taken'[n] + Cardinality(Spare(W)') <= taken[n] + Cardinality(Spare(W))
    BY <1>1, <1>3, <1>6, SpareDecides
  <2>3. /\ Cardinality(Spare(W)) \in Nat /\ Cardinality(Spare(W)') \in Nat
        /\ taken'[n] \in Nat
    BY <1>6, SpareIsSpare, SpareIsSpareNext, SpareIsFinite DEF TypeOK
  <2>4. SharedNow' <= SharedNow /\ SharedNow' \in Nat
    BY <2>1, LeftIsBounded, RateFacts
  <2>5. CASE b \in U
    <3>1. W = U /\ buckets' = buckets
      BY <1>3, <1>4, <2>5
    <3>2. (Rate + n) * buckets \in Nat /\ Cardinality(Spare(W)) = Cardinality(Spare(U))
      BY <1>5, <2>1, <3>1, CapFacts
    <3> QED
      BY <2>1, <2>2, <2>3, <2>4, <3>1, <3>2
  <2>6. CASE b \notin U
    <3>1. /\ (Rate + n) * (buckets + 1) = (Rate + n) * buckets + Rate + n
          /\ (Rate + n) * buckets \in Nat
      BY <1>5, <2>1, CapFacts
    <3>2. (Rate + n) * buckets' = (Rate + n) * buckets + Rate + n
      BY <1>4, <2>6, <3>1
    <3>3. taken'[n] + SharedNow' + Cardinality(Spare(W)')
            <= taken[n] + SharedNow + Cardinality(Spare(U)) + Rate
      BY <1>6, <2>1, <2>2, <2>3, <2>4, RateFacts
    <3> QED
      BY <2>1, <2>3, <2>4, <3>1, <3>2, <3>3, RateFacts
  <2> QED
    BY <2>5, <2>6
<1>10. Spare(inUse)' = Spare(W)'
  BY <1>4, InUseNext
<1> QED
  BY <1>4, <1>6, <1>7, <1>8, <1>9, <1>10 DEF Charged

(* A replica that restarts has full buckets, none of them in use. *)
LEMMA ChargeRestarts ==
  ASSUME TypeOK, TypeOK', StampInv, ClocksAgree, Charged, NEW r \in Replicas, Restart(r)
  PROVE  Charged'
<1>1. PICK U \in SUBSET Buckets : U = inUse
  BY DEF TypeOK, Buckets
<1>2. PICK W \in SUBSET U : W = {b \in U : b[1] # r}
  OBVIOUS
<1>3. inUse' = W /\ buckets' = buckets
  BY <1>1, <1>2 DEF Restart
<1>4. /\ IsFiniteSet(U) /\ Cardinality(U) + 1 <= buckets /\ buckets \in Nat
      /\ Cardinality(U) \in Nat
  BY <1>1, FS_CardinalityType DEF Charged, TypeOK
<1>5. IsFiniteSet(W) /\ Cardinality(W) <= Cardinality(U) /\ Cardinality(W) \in Nat
  BY <1>4, FS_Subset, FS_CardinalityType
<1>6. Cardinality(W) + 1 <= buckets'
  BY <1>3, <1>4, <1>5
<1>7. ASSUME NEW s \in Replicas, NEW l \in Limiters
      PROVE  local'[s][l] = IF s = r THEN Rate ELSE local[s][l]
  BY DEF Restart, Each, TypeOK
<1>8. ASSUME NEW s \in Replicas, NEW l \in Limiters, <<s, l>> \notin W
      PROVE  local'[s][l] = Rate
  <2>1. s = r \/ <<s, l>> \notin U
    BY <1>2, <1>8
  <2> QED
    BY <1>1, <1>7, <2>1 DEF Charged
<1>9. ASSUME NEW s \in Replicas, NEW l \in Limiters, <<s, l>> \in W
      PROVE  local'[s][l] <= local[s][l]
  <2>1. s # r /\ local[s][l] \in 0..Rate
    BY <1>2, <1>9 DEF TypeOK
  <2> QED
    BY <1>7, <2>1, RateFacts
<1>10. Cardinality(Spare(W)') <= Cardinality(Spare(U))
  BY <1>4, <1>9, SpareShrinks
<1>11. ASSUME NEW n \in Ago
       PROVE  taken'[n] + SharedNow' + Cardinality(Spare(W)') <= (Rate + n) * buckets'
  <2>1. /\ taken[n] \in Nat /\ SharedNow \in 0..Rate /\ (Rate + n) * buckets \in Nat
        /\ Cardinality(Spare(U)) \in Nat
        /\ taken[n] + SharedNow + Cardinality(Spare(U)) <= (Rate + n) * buckets
    BY <1>1, ChargedFacts
  <2>2. taken' = taken /\ SharedNow' = SharedNow
    BY DEF Restart, SharedNow
  <2>3. Cardinality(Spare(W)') \in Nat
    BY <1>5, SpareIsSpareNext, SpareIsFinite
  <2> QED
    BY <1>3, <1>10, <2>1, <2>2, <2>3, RateFacts
<1>12. Spare(inUse)' = Spare(W)'
  BY <1>3, InUseNext
<1> QED
  BY <1>3, <1>5, <1>6, <1>8, <1>11, <1>12 DEF Charged

(* Redis without its data is a full bucket. *)
LEMMA ChargeForgets ==
  ASSUME TypeOK, StampInv, ClocksAgree, Charged, RedisLosesData
  PROVE  Charged'
<1>1. /\ SharedNow' = Rate /\ buckets' = buckets + 1
      /\ UNCHANGED <<local, taken, inUse>> /\ Spare(inUse)' = Spare(inUse)
  BY DEF RedisLosesData, NoBucket, SharedNow, Spare
<1>2. ASSUME NEW n \in Ago
      PROVE  /\ taken'[n] + SharedNow' + Cardinality(Spare(inUse)') <= (Rate + n) * buckets'
             /\ Cardinality(inUse') + 1 <= buckets'
  <2>1. /\ taken[n] \in Nat /\ SharedNow \in 0..Rate /\ buckets \in Nat /\ n \in Nat
        /\ Cardinality(inUse) \in Nat /\ Cardinality(inUse) + 1 <= buckets
        /\ Cardinality(Spare(inUse)) \in Nat /\ (Rate + n) * buckets \in Nat
        /\ taken[n] + SharedNow + Cardinality(Spare(inUse)) <= (Rate + n) * buckets
    BY ChargedFacts
  <2>2. (Rate + n) * buckets' = (Rate + n) * buckets + Rate + n
    BY <1>1, <2>1, CapFacts
  <2>3. /\ taken'[n] = taken[n] /\ Cardinality(Spare(inUse)') = Cardinality(Spare(inUse))
        /\ Cardinality(inUse') = Cardinality(inUse)
    BY <1>1
  <2> QED
    BY <1>1, <2>1, <2>2, <2>3, RateFacts
<1>3. Cardinality(inUse') + 1 <= buckets'
  BY <1>2, RateFacts
<1> QED
  BY <1>1, <1>2, <1>3 DEF Charged

LEMMA ChargeTicks ==
  ASSUME TypeOK, TypeOK', StampInv, ClocksAgree, Charged, Tick
  PROVE  Charged'
<1>1. /\ SharedNow' = Filled(SharedNow, 1) /\ inUse' = inUse /\ buckets' = buckets
      /\ \A r \in Replicas, l \in Limiters : local'[r][l] = Filled(local[r][l], 1)
      /\ \A n \in Ago : taken'[n] = IF n = 0 THEN 0 ELSE taken[n - 1]
  BY SharedTicks DEF Tick
<1>2. SharedNow' \in 0..Rate /\ SharedNow' <= SharedNow + 1 /\ SharedNow \in 0..Rate
  BY <1>1, SharedNowIsBounded, FilledIsBounded
<1>3. PICK U \in SUBSET Buckets : U = inUse
  BY DEF TypeOK, Buckets
<1>4. /\ IsFiniteSet(U) /\ Cardinality(U) \in Nat /\ Cardinality(U) + 1 <= buckets
      /\ buckets \in Nat /\ Cardinality(Spare(U)) \in Nat
  BY <1>3, ChargedFacts, RateFacts
<1>5. /\ Cardinality(Spare(U)') <= Cardinality(Spare(U)) + Cardinality(U)
      /\ Cardinality(Spare(U)') <= Cardinality(U) * Rate
      /\ Cardinality(Spare(U)') \in Nat
  BY <1>4, SpareTicks, SpareIsSpareNext, SpareIsFinite
<1>6. ASSUME NEW r \in Replicas, NEW l \in Limiters, <<r, l>> \notin inUse
      PROVE  local'[r][l] = Rate
  <2>1. local[r][l] = Rate
    BY <1>6 DEF Charged
  <2> QED
    BY <1>1, <2>1, RateFacts DEF Filled
<1>7. ASSUME NEW n \in Ago
      PROVE  taken'[n] + SharedNow' + Cardinality(Spare(U)') <= (Rate + n) * buckets
  <2>1. CASE n = 0
    <3>0. buckets - 1 \in Nat /\ Cardinality(U) <= buckets - 1
      BY <1>4
    <3>1. /\ Cardinality(U) * Rate <= (buckets - 1) * Rate
          /\ Cardinality(U) * Rate \in Nat /\ (buckets - 1) * Rate \in Nat
      BY <1>4, <3>0, TimesRateIsMonotonic
    <3>2. (Rate + n) * buckets = (buckets - 1) * Rate + Rate
      BY <1>4, <2>1, CapFacts
    <3>3. taken'[n] = 0
      BY <1>1, <2>1
    <3> QED
      BY <1>2, <1>5, <3>1, <3>2, <3>3, RateFacts
  <2>2. CASE n # 0
    <3>1. n - 1 \in Ago /\ n - 1 \in Nat /\ n \in Nat /\ taken'[n] = taken[n - 1]
      BY <1>1, <2>2, RateFacts DEF Ago
    <3>2. /\ taken[n - 1] \in Nat /\ (Rate + (n - 1)) * buckets \in Nat
          /\ taken[n - 1] + SharedNow + Cardinality(Spare(U)) <= (Rate + (n - 1)) * buckets
      BY <1>3, <3>1, ChargedFacts
    <3>3. (Rate + n) * buckets = (Rate + (n - 1)) * buckets + buckets
      BY <1>4, <3>1, CapFacts
    <3> QED
      BY <1>2, <1>4, <1>5, <3>1, <3>2, <3>3, RateFacts
  <2> QED
    BY <2>1, <2>2
<1>8. Spare(inUse)' = Spare(U)'
  BY <1>1, <1>3, InUseNext
<1> QED
  BY <1>1, <1>3, <1>4, <1>6, <1>7, <1>8 DEF Charged

LEMMA ChargeStep ==
  ASSUME TypeOK, StampInv, ChargeInv, [Next]_vars
  PROVE  ChargeInv'
<1> SUFFICES ASSUME ClocksAgree PROVE Charged'
  BY BootsStay DEF ChargeInv
<1>1. Charged
  BY DEF ChargeInv
<1>2. TypeOK'
  BY TypeStep
<1>3. shared' = shared => SharedNow' = SharedNow
  BY DEF SharedNow
<1>4. SharedNow \in 0..Rate /\ \A n \in Ago : taken[n] \in Nat
  BY <1>1, SharedNowIsBounded DEF TypeOK
<1>5. CASE UNCHANGED <<shared, local, taken, inUse, buckets>>
  BY <1>1, <1>2, <1>3, <1>5, ChargeStays
<1>6. ASSUME NEW q \in Requests, DecidesLocally(q), shared' = shared
      PROVE  Charged'
  BY <1>1, <1>2, <1>3, <1>6, ChargeDecides
<1>7. ASSUME NEW q \in Requests, Enters(q) \/ PingWorks(q) \/ PingFails(q)
      PROVE  Charged'
  <2>1. /\ shared' = shared
        /\ DecidesLocally(q) \/ UNCHANGED <<shared, local, taken, inUse, buckets>>
    BY <1>7 DEF Enters, PingWorks, PingFails
  <2> QED
    BY <1>5, <1>6, <2>1
<1>8. ASSUME NEW q \in Requests, Evaluated(q)
      PROVE  Charged'
  <2>1. /\ RunsScript(q) /\ Decides(q, Found(q))
        /\ UNCHANGED <<boot, local, redis, faults, inUse, buckets>>
    BY <1>8 DEF Evaluated
  <2>2. Found(q) = SharedNow /\ SharedNow' = Left(SharedNow)
    BY <2>1, ScriptRun
  <2>3. ASSUME NEW n \in Ago
        PROVE  taken'[n] + SharedNow' = taken[n] + SharedNow
    <3>1. taken'[n] = IF SharedNow < 1 THEN taken[n] ELSE taken[n] + 1
      BY <1>4, <2>1, <2>2, DecidesTyped
    <3> QED
      BY <1>4, <2>2, <3>1, LeftIsBounded, RateFacts
  <2> QED
    BY <1>1, <1>2, <2>1, <2>3, ChargeStays
<1>9. ASSUME NEW q \in Requests, NEW ran \in BOOLEAN, EvalFails(q, ran)
      PROVE  Charged'
  <2>1. DecidesLocally(q) /\ boot' = boot /\ (RunsScript(q) \/ shared' = shared)
    BY <1>9 DEF EvalFails
  <2>2. SharedNow' \in {SharedNow, Left(SharedNow)}
    BY <1>3, <2>1, ScriptRun
  <2> QED
    BY <1>1, <1>2, <2>1, <2>2, ChargeDecides
<1>10. ASSUME NEW r \in Replicas, Restart(r)
       PROVE  Charged'
  BY <1>1, <1>2, <1>10, ChargeRestarts
<1>11. CASE RedisLosesData
  BY <1>1, <1>11, ChargeForgets
<1>12. CASE Tick
  BY <1>1, <1>2, <1>12, ChargeTicks
<1> QED
  BY <1>5, <1>7, <1>8, <1>9, <1>10, <1>11, <1>12 DEF Next, vars, Arrives

-----------------------------------------------------------------------------
(* The theorems. *)

LEMMA InitInv == Init => IInv
<1> SUFFICES ASSUME Init PROVE IInv
  OBVIOUS
<1>1. SharedNow = Rate /\ shared.age = Expiry /\ shared.tokens = Rate
  BY DEF Init, NoBucket, SharedNow
<1>2. StampInv
  BY <1>1, RateFacts DEF StampInv
<1>3. QuietInv
  BY <1>1, RateFacts DEF Init, Each, QuietInv
<1>4. BusyInv
  BY <1>1, RateFacts DEF Init, Each, BusyInv, Ago
<1>5. Charged
  <2>1. IsFiniteSet({}) /\ Cardinality({}) = 0
    BY FS_EmptySet
  <2>2. inUse = {} /\ buckets = 1 /\ Spare(inUse) = {}
    BY DEF Init, Spare
  <2>3. \A r \in Replicas, l \in Limiters : local[r][l] = Rate
    BY DEF Init, Each
  <2>4. ASSUME NEW n \in Ago
        PROVE  taken[n] + SharedNow + Cardinality(Spare(inUse)) <= (Rate + n) * buckets
    <3>1. taken[n] = 0 /\ Cardinality(Spare(inUse)) = 0
      BY <2>1, <2>2 DEF Init
    <3>2. n \in Nat /\ (Rate + n) * 1 = Rate + n
      BY RateFacts
    <3> QED
      BY <1>1, <2>2, <3>1, <3>2, RateFacts
  <2> QED
    BY <2>1, <2>2, <2>3, <2>4 DEF Charged
<1>6. ChargeInv
  BY <1>5 DEF ChargeInv
<1> QED
  BY <1>2, <1>3, <1>4, <1>6 DEF IInv

LEMMA Inductive == Spec => [](TypeOK /\ IInv)
<1>1. Init => TypeOK /\ IInv
  BY InitTypeOK, InitInv
<1>2. TypeOK /\ IInv /\ [Next]_vars => TypeOK' /\ IInv'
  BY TypeStep, StampStep, BusyStep, ChargeStep, QuietStep DEF IInv
<1> QED
  BY <1>1, <1>2, PTL DEF Spec

(* In a minute the limiters let pass a burst and the refill of each bucket  *)
(* that has been in use, for any number of replicas and requests, on hosts  *)
(* whose clocks agree (_TokenBucketLimiter).                               *)
THEOREM LimitIsKept == Spec => []LimitHolds
<1>1. ASSUME TypeOK, IInv, ClocksAgree
      PROVE  TakenInLastMinute <= 2 * Rate * buckets
  <2>1. Charged
    BY <1>1 DEF IInv, ChargeInv
  <2>2. /\ taken[Rate] \in Nat /\ SharedNow \in 0..Rate
        /\ Cardinality(Spare(inUse)) \in Nat /\ (Rate + Rate) * buckets \in Nat
        /\ taken[Rate] + SharedNow + Cardinality(Spare(inUse)) <= (Rate + Rate) * buckets
    BY <1>1, <2>1, ChargedFacts, RateFacts DEF IInv
  <2>3. Rate + Rate = 2 * Rate
    BY RateFacts
  <2> QED
    BY <2>2, <2>3, RateFacts DEF TakenInLastMinute
<1>2. TypeOK /\ IInv => LimitHolds
  BY <1>1 DEF LimitHolds
<1> QED
  BY <1>2, Inductive, PTL

(* A request is only refused by a bucket that held no token: a local one,   *)
(* or the one in Redis as the replica's clock shows it.                    *)
LEMMA RefusalFindsNone ==
  ASSUME TypeOK, [Next]_vars, NEW q \in Requests, Refused(q)
  PROVE  \/ local[requests[q].at][requests[q].limiter] < 1
         \/ Found(q) < 1 /\ RunsScript(q) /\ boot' = boot
<1>1. ASSUME NEW p \in Requests, NEW tokens \in Int, Decides(p, tokens)
      PROVE  p = q /\ tokens < 1
  <2>1. p = q
    BY <1>1 DEF Decides, Refused, TypeOK
  <2>2. CASE tokens >= 1
    <3>1. requests[q] \in Request
      BY DEF TypeOK
    <3>2. /\ [requests[q] EXCEPT !.pc = "enter", !.limiter = "all"].pc = "enter"
          /\ IdleRequest.pc = "idle"
      BY <3>1 DEF Request, IdleRequest
    <3>3. requests'[q] \in {[requests[q] EXCEPT !.pc = "enter", !.limiter = "all"], IdleRequest}
      BY <1>1, <2>1, <2>2 DEF Decides, TypeOK
    <3> QED
      BY <3>2, <3>3 DEF Refused
  <2> QED
    BY <1>1, <2>1, <2>2
<1>2. ASSUME NEW p \in Requests, DecidesLocally(p)
      PROVE  local[requests[q].at][requests[q].limiter] < 1
  <2>1. local[requests[p].at][requests[p].limiter] \in Int
    BY RequestTyped DEF TypeOK
  <2> QED
    BY <1>1, <1>2, <2>1 DEF DecidesLocally
<1>3. ASSUME NEW p \in Requests, Evaluated(p)
      PROVE  Found(q) < 1 /\ RunsScript(q) /\ boot' = boot
  BY <1>1, <1>3, FoundIsInt DEF Evaluated
<1>4. ASSUME NEW p \in Requests, NEW pc \in {"enter", "ping", "eval"},
             requests' = [requests EXCEPT ![p].pc = pc]
      PROVE  FALSE
  BY <1>4 DEF Refused, TypeOK, Request
<1>5. ASSUME NEW p \in Requests, NEW r \in Replicas, NEW l \in Limiters, Arrives(p, r, l)
      PROVE  FALSE
  BY <1>5 DEF Arrives, Refused, TypeOK
<1>6. ASSUME NEW p \in Requests, Enters(p) \/ PingWorks(p) \/ PingFails(p)
      PROVE  DecidesLocally(p)
  <2>1. \/ DecidesLocally(p)
        \/ requests' = [requests EXCEPT ![p].pc = "ping"]
        \/ requests' = [requests EXCEPT ![p].pc = "eval"]
    BY <1>6 DEF Enters, PingWorks, PingFails
  <2> QED
    BY <1>4, <2>1
<1>7. ASSUME NEW r \in Replicas, Restart(r)
      PROVE  FALSE
  BY <1>7 DEF Restart, Refused, TypeOK, IdleRequest
<1>8. CASE requests' = requests
  BY <1>8 DEF Refused
<1> QED
  BY <1>2, <1>3, <1>5, <1>6, <1>7, <1>8 DEF Next, vars, EvalFails, RedisLosesData, Tick

(* A refusal has a cause: the limiters have taken a minute's tokens in the  *)
(* last minute, whatever fails and wherever (_allow_local, _allow_redis).   *)
THEOREM RefusalsHaveACause == Spec => RefusedOnlyIfBusy
<1>1. ASSUME TypeOK, IInv, [Next]_vars, ClocksAgree, NEW q \in Requests, Refused(q)
      PROVE  TakenInLastMinute >= Rate
  <2>1. requests[q].at \in Replicas /\ requests[q].limiter \in Limiters
    BY <1>1, RequestTyped
  <2>2. /\ local[requests[q].at][requests[q].limiter] \in 0..Rate
        /\ SharedNow \in 0..Rate /\ taken[Rate] \in Nat
    BY <1>1, <2>1, SharedNowIsBounded, RateFacts DEF IInv, TypeOK
  <2>3. /\ SharedNow + taken[Rate] >= Rate
        /\ local[requests[q].at][requests[q].limiter] + taken[Rate] >= Rate
    BY <1>1, <2>1, RateFacts DEF IInv, BusyInv
  <2>4. SharedNow < 1 \/ local[requests[q].at][requests[q].limiter] < 1
    BY <1>1, RefusalFindsNone, ScriptRun DEF IInv
  <2> QED
    BY <2>2, <2>3, <2>4, RateFacts DEF TakenInLastMinute
<1>2. TypeOK /\ IInv /\ [Next]_vars
        => [ClocksAgree => \A q \in Requests : Refused(q) => TakenInLastMinute >= Rate]_vars
  BY <1>1
<1> QED
  BY <1>2, Inductive, PTL DEF Spec, RefusedOnlyIfBusy

(* A client that pauses for two minutes is not refused, however the hosts'  *)
(* clocks disagree: the bucket in Redis has expired by then, and the local  *)
(* ones are full (_allow_redis, _allow_local).                             *)
THEOREM PausesHeal == Spec => PauseHeals
<1>1. ASSUME TypeOK, IInv, [Next]_vars, NEW q \in Requests, Refused(q)
      PROVE  quiet < Expiry
  <2>1. requests[q].at \in Replicas /\ requests[q].limiter \in Limiters
    BY <1>1, RequestTyped
  <2>2. quiet \in 0..Expiry /\ shared.age \in 0..Expiry
    BY <1>1 DEF TypeOK
  <2>3. CASE local[requests[q].at][requests[q].limiter] < 1
    <3>1. \/ local[requests[q].at][requests[q].limiter] = Rate
          \/ quiet <= local[requests[q].at][requests[q].limiter]
      BY <1>1, <2>1 DEF IInv, QuietInv
    <3>2. local[requests[q].at][requests[q].limiter] \in 0..Rate
      BY <1>1, <2>1 DEF TypeOK
    <3> QED
      BY <2>2, <2>3, <3>1, <3>2, RateFacts
  <2>4. CASE Found(q) < 1
    <3>1. shared.age # Expiry
      BY <2>4, RateFacts DEF Found
    <3>2. quiet <= shared.age
      BY <1>1, <3>1 DEF IInv, QuietInv
    <3> QED
      BY <2>2, <3>1, <3>2, RateFacts
  <2> QED
    BY <1>1, <2>3, <2>4, RefusalFindsNone
<1>2. TypeOK /\ IInv /\ [Next]_vars
        => [\A q \in Requests : Refused(q) => quiet < Expiry]_vars
  BY <1>1
<1> QED
  BY <1>2, Inductive, PTL DEF Spec, PauseHeals

=============================================================================
