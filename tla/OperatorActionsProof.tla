-------------------------- MODULE OperatorActionsProof --------------------------
(***************************************************************************)
(* Proofs about OperatorActions, for every number of operators, decisions, *)
(* prefixes, attempts, requests and faults.                                *)
(***************************************************************************)
EXTENDS OperatorActions, FiniteSetTheorems, TLAPS

-----------------------------------------------------------------------------
(* Types. *)

(* What a request is about fits its operation, from stage to stage. *)
OpInv ==
  \A o \in Operators :
    /\ requests[o].pc = "decide" =>
         requests[o].op = "triage" /\ requests[o].what \in Decisions
    /\ requests[o].pc = "revoke" => requests[o].op = "revoke"
    /\ requests[o].pc = "insert" => requests[o].op = "mint"
    /\ requests[o].pc = "call" => requests[o].op \in Upstream
    /\ requests[o].op = "revoke" => requests[o].what \in Prefixes
    /\ requests[o].op = "mint" /\ requests[o].pc \in {"audit", "answer"}
         => requests[o].what \in Prefixes

LEMMA BoundsAreNats == 0 \in Numbers /\ 0 \in 0..MaxFaults /\ 0 \in 0..(Attempts - 1)
  BY ActionsAssumption DEF ActionsAssumption, Numbers

LEMMA IdleTyped == Idle \in Request
  BY BoundsAreNats DEF Idle, Request, Stages

LEMMA InitTypes == Init => TypeOK /\ OpInv
<1> SUFFICES ASSUME Init PROVE TypeOK /\ OpInv
  OBVIOUS
<1>1. tokens \in [Prefixes -> Row]
  BY BoundsAreNats DEF Init, FreePrefix, OlderToken, Row
<1>2. TypeOK
  BY <1>1, IdleTyped, BoundsAreNats DEF Init, TypeOK
<1>3. OpInv
  BY DEF Init, OpInv, Idle
<1> QED
  BY <1>2, <1>3

(* A step that takes one operator's request to another, typed and fitting  *)
(* one, keeps what is said of all of them.                                 *)
LEMMA OneRequest ==
  ASSUME TypeOK, OpInv, NEW o \in Operators, NEW new \in Request,
         requests' = [requests EXCEPT ![o] = new],
         new.pc = "decide" => new.op = "triage" /\ new.what \in Decisions,
         new.pc = "revoke" => new.op = "revoke",
         new.pc = "insert" => new.op = "mint",
         new.pc = "call" => new.op \in Upstream,
         new.op = "revoke" => new.what \in Prefixes,
         new.op = "mint" /\ new.pc \in {"audit", "answer"} => new.what \in Prefixes
  PROVE  requests' \in [Operators -> Request] /\ OpInv'
<1>1. requests'[o] = new /\ \A q \in Operators \ {o} : requests'[q] = requests[q]
  BY DEF TypeOK
<1>2. requests' \in [Operators -> Request]
  BY DEF TypeOK
<1>3. OpInv'
  BY <1>1 DEF OpInv
<1> QED
  BY <1>2, <1>3

(* Sending a request on to a later stage. *)
LEMMA GoesOn ==
  ASSUME TypeOK, OpInv, NEW o \in Operators, NEW to \in {"audit", "answer"}, Goes(o, to),
         requests[o].op = "mint" => requests[o].what \in Prefixes
  PROVE  requests' \in [Operators -> Request] /\ OpInv'
<1> DEFINE new == [requests[o] EXCEPT !.pc = to]
<1>1. requests[o] \in Request
  BY DEF TypeOK
<1>2. new \in Request
  BY <1>1 DEF Request, Stages
<1>3. requests' = [requests EXCEPT ![o] = new]
  BY DEF Goes
<1>4. new.pc = to /\ new.op = requests[o].op /\ new.what = requests[o].what
  BY <1>1 DEF Request
<1>5. new.op = "revoke" => new.what \in Prefixes
  BY <1>4 DEF OpInv
<1> HIDE DEF new
<1> QED
  BY <1>2, <1>3, <1>4, <1>5, OneRequest

LEMMA BackToIdle ==
  ASSUME TypeOK, OpInv, NEW o \in Operators, requests' = [requests EXCEPT ![o] = Idle]
  PROVE  requests' \in [Operators -> Request] /\ OpInv'
<1>1. Idle.pc = "idle" /\ Idle.op = "triage"
  BY DEF Idle
<1> QED
  BY <1>1, IdleTyped, OneRequest

LEMMA FaultTyped == ASSUME TypeOK, Fault PROVE faults' \in 0..MaxFaults
  BY ActionsAssumption DEF ActionsAssumption, TypeOK, Fault

LEMMA SubmitTypes ==
  ASSUME TypeOK, OpInv, NEW o \in Operators, Submit(o)
  PROVE  TypeOK' /\ OpInv'
<1>1. ASSUME NEW op \in {"triage", "mint", "revoke"} \cup Upstream,
             NEW pc \in {"decide", "revoke", "insert", "call"},
             NEW what \in Decisions \cup Prefixes \cup {"none"},
             Begins(o, op, pc, what),
             pc = "decide" => op = "triage" /\ what \in Decisions,
             pc = "revoke" => op = "revoke",
             pc = "insert" => op = "mint",
             pc = "call" => op \in Upstream,
             op = "revoke" => what \in Prefixes
      PROVE  TypeOK' /\ OpInv'
  <2> DEFINE new == [Idle EXCEPT !.pc = pc, !.op = op, !.number = made + 1, !.what = what]
  <2>1. made + 1 \in Numbers
    BY <1>1, ActionsAssumption DEF ActionsAssumption, Begins, TypeOK, Numbers
  <2>2. pc \in Stages
    BY DEF Stages
  <2>3. new \in Request
    BY <2>1, <2>2, IdleTyped DEF Request
  <2>4. requests' = [requests EXCEPT ![o] = new]
    BY <1>1 DEF Begins
  <2>5. new.pc = pc /\ new.op = op /\ new.what = what
    BY IdleTyped DEF Request
  <2> HIDE DEF new
  <2>6. requests' \in [Operators -> Request] /\ OpInv'
    BY <1>1, <2>3, <2>4, <2>5, OneRequest
  <2> QED
    BY <1>1, <2>1, <2>6 DEF Begins, database, TypeOK
<1>2. ASSUME NEW status \in Decisions, Begins(o, "triage", "decide", status)
      PROVE  TypeOK' /\ OpInv'
  BY <1>1, <1>2
<1>3. ASSUME NEW op \in Upstream, Begins(o, op, "call", "none")
      PROVE  TypeOK' /\ OpInv'
  <2>1. op # "revoke"
    BY DEF Upstream
  <2> QED
    BY <1>1, <1>3, <2>1
<1>4. ASSUME NEW p \in Prefixes, Begins(o, "revoke", "revoke", p)
      PROVE  TypeOK' /\ OpInv'
  BY <1>1, <1>4
<1>5. CASE Begins(o, "mint", "insert", "none")
  BY <1>1, <1>5
<1> QED
  BY <1>2, <1>3, <1>4, <1>5 DEF Submit

LEMMA StepTypes ==
  ASSUME TypeOK, OpInv, NEW o \in Operators, Steps(o)
  PROVE  TypeOK' /\ OpInv'
<1>0. requests[o] \in Request /\ requests[o].number \in Numbers
  BY DEF TypeOK, Request
<1>1. CASE Decide(o)
  <2>1. requests[o].op = "triage" /\ requests[o].what \in Decisions
    BY <1>1 DEF Decide, OpInv
  <2>2. requests' \in [Operators -> Request] /\ OpInv'
    BY <1>1, <2>1, GoesOn DEF Decide
  <2>3. overlay' \in [status : Decisions \cup {"none"}, of : Numbers] /\ done' \subseteq Numbers
    BY <1>0, <1>1, <2>1 DEF Decide, Decided, TypeOK
  <2> QED
    BY <1>1, <2>2, <2>3 DEF Decide, TypeOK
<1>2. CASE Revoke(o)
  <2>1. requests[o].op = "revoke" /\ requests[o].what \in Prefixes
    BY <1>2 DEF Revoke, OpInv
  <2>2. requests' \in [Operators -> Request] /\ OpInv'
    BY <1>2, <2>1, GoesOn DEF Revoke, AuditedIfUpdated
  <2>3. tokens' \in [Prefixes -> Row]
    BY <1>2, <2>1 DEF Revoke, Row, TypeOK
  <2>4. done' \subseteq Numbers
    BY <1>0, <1>2 DEF Revoke, TypeOK
  <2> QED
    BY <1>2, <2>2, <2>3, <2>4 DEF Revoke, TypeOK
<1>3. ASSUME NEW p \in Prefixes, Insert(o, p)
      PROVE  TypeOK' /\ OpInv'
  <2> DEFINE new == [requests[o] EXCEPT !.pc = "audit", !.what = p]
  <2>1. requests[o].op = "mint"
    BY <1>3 DEF Insert, OpInv
  <2>2. new \in Request /\ new.pc = "audit" /\ new.op = "mint" /\ new.what = p
    BY <1>0, <2>1 DEF Request, Stages
  <2>3. requests' = [requests EXCEPT ![o] = new]
    BY <1>3 DEF Insert, TypeOK
  <2> HIDE DEF new
  <2>4. requests' \in [Operators -> Request] /\ OpInv'
    BY <2>2, <2>3, OneRequest
  <2>5. [state |-> "active", of |-> requests[o].number] \in Row
    BY <1>0 DEF Row
  <2>6. tokens' \in [Prefixes -> Row]
    BY <1>3, <2>5 DEF Insert, TypeOK
  <2>7. done' \subseteq Numbers
    BY <1>0, <1>3 DEF Insert, TypeOK
  <2> QED
    BY <1>3, <2>4, <2>6, <2>7 DEF Insert, TypeOK
<1>4. ASSUME NEW p \in Prefixes, Collide(o, p)
      PROVE  TypeOK' /\ OpInv'
  <2> DEFINE new == AfterCollision(requests[o], p)
  <2>1. requests' = [requests EXCEPT ![o] = new]
    BY <1>4 DEF Collide
  <2>2. CASE requests[o].attempt + 1 < Attempts
    <3>1. new = [requests[o] EXCEPT !.attempt = requests[o].attempt + 1]
      BY <2>2 DEF AfterCollision
    <3>2. requests[o].attempt + 1 \in 0..(Attempts - 1)
      BY <1>0, <2>2, ActionsAssumption DEF ActionsAssumption, Request
    <3>3. /\ new \in Request /\ new.pc = "insert" /\ new.op = requests[o].op
      BY <1>0, <1>4, <3>1, <3>2 DEF Request, Collide
    <3>4. new.op = "mint"
      BY <1>4, <3>3 DEF OpInv, Collide
    <3> HIDE DEF new
    <3> QED
      BY <1>4, <2>1, <3>3, <3>4, OneRequest DEF Collide, database, TypeOK
  <2>3. CASE ~(requests[o].attempt + 1 < Attempts)
    <3>1. requests' = [requests EXCEPT ![o] = Idle]
      BY <2>1, <2>3 DEF AfterCollision
    <3> QED
      BY <1>4, <3>1, BackToIdle DEF Collide, database, TypeOK
  <2> QED
    BY <2>2, <2>3
<1>5. ASSUME NEW took \in BOOLEAN, NEW answered \in BOOLEAN,
             Call(o, took, answered) \/ StartRun(o, took, answered)
      PROVE  TypeOK' /\ OpInv'
  <2>1. PICK answer \in {"ok", "already", "unavailable"} :
          requests' = [requests EXCEPT ![o].pc = "audit", ![o].answer = answer]
    BY <1>5 DEF Call, StartRun, Heard
  <2> DEFINE new == [requests[o] EXCEPT !.pc = "audit", !.answer = answer]
  <2>2. requests' = [requests EXCEPT ![o] = new]
    BY <2>1 DEF TypeOK
  <2>3. requests[o].op \in Upstream
    BY <1>5 DEF Call, StartRun, OpInv
  <2>4. new \in Request /\ new.pc = "audit" /\ new.op = requests[o].op
    BY <1>0 DEF Request, Stages
  <2> HIDE DEF new
  <2>5. requests' \in [Operators -> Request] /\ OpInv'
    BY <2>2, <2>3, <2>4, OneRequest DEF Upstream
  <2>6. faults' \in 0..MaxFaults
    BY <1>5, FaultTyped DEF Call, StartRun, TypeOK
  <2>7. done' \subseteq Numbers /\ running' \in BOOLEAN
    BY <1>0, <1>5 DEF Call, StartRun, TypeOK
  <2>8. UNCHANGED <<pool, database, made, revealed>>
    BY <1>5 DEF Call, StartRun
  <2> QED
    BY <2>5, <2>6, <2>7, <2>8 DEF TypeOK, database
<1>6. CASE AppendAudit(o)
  <2>1. requests' \in [Operators -> Request] /\ OpInv'
    BY <1>6, GoesOn DEF AppendAudit, OpInv
  <2>2. AuditRowOf(requests[o]) \in AuditRow
    BY <1>0 DEF AuditRowOf, AuditRow, Request
  <2>3. audit' \subseteq AuditRow
    BY <1>6, <2>2 DEF AppendAudit, TypeOK
  <2>4. faults' \in 0..MaxFaults
    BY <1>6, FaultTyped DEF AppendAudit, TypeOK
  <2> QED
    BY <1>6, <2>1, <2>3, <2>4 DEF AppendAudit, TypeOK
<1>7. CASE Answer(o)
  <2>1. requests' \in [Operators -> Request] /\ OpInv'
    BY <1>7, BackToIdle DEF Answer
  <2>2. requests[o].op = "mint" => requests[o].what \in Prefixes
    BY <1>7 DEF Answer, OpInv
  <2>3. revealed' \subseteq Prefixes \X Numbers
    BY <1>0, <1>7, <2>2 DEF Answer, TypeOK
  <2> QED
    BY <1>7, <2>1, <2>3 DEF Answer, TypeOK, database
<1> QED
  BY <1>1, <1>2, <1>3, <1>4, <1>5, <1>6, <1>7 DEF Steps

LEMMA TypeStep ==
  ASSUME TypeOK, OpInv, [Next]_vars
  PROVE  TypeOK' /\ OpInv'
<1>1. ASSUME NEW o \in Operators, Fails(o)
      PROVE  TypeOK' /\ OpInv'
  BY <1>1, BackToIdle, FaultTyped DEF Fails, TypeOK, database
<1>2. CASE RunEnds
  BY <1>2 DEF RunEnds, TypeOK, OpInv, database
<1>3. CASE Crash
  <2>1. requests' \in [Operators -> Request]
    BY <1>3, IdleTyped DEF Crash
  <2>2. OpInv'
    BY <1>3 DEF Crash, OpInv, Idle
  <2> QED
    BY <1>3, <2>1, <2>2, FaultTyped DEF Crash, TypeOK, database
<1>4. CASE UNCHANGED vars
  BY <1>4 DEF vars, database, TypeOK, OpInv
<1> QED
  BY <1>1, <1>2, <1>3, <1>4, SubmitTypes, StepTypes DEF Next

(* Every variable stays within its type, and what a request is about fits  *)
(* its operation at every stage.                                           *)
THEOREM TypeCorrect == Spec => [](TypeOK /\ OpInv)
<1>1. TypeOK /\ OpInv /\ [Next]_vars => (TypeOK /\ OpInv)'
  BY TypeStep
<1> QED
  BY <1>1, InitTypes, PTL DEF Spec

-----------------------------------------------------------------------------
(* What a step does to the requests of the others. *)

LEMMA OthersWait ==
  ASSUME TypeOK, NEW o \in Operators, Submit(o) \/ Steps(o) \/ Fails(o)
  PROVE  /\ requests' = [requests EXCEPT ![o] = requests'[o]]
         /\ \A q \in Operators \ {o} : requests'[q] = requests[q]
         /\ pool' = pool
<1>1. requests \in [Operators -> Request]
  BY DEF TypeOK
<1>2. CASE Submit(o)
  BY <1>1, <1>2 DEF Submit, Begins
<1>3. CASE Steps(o)
  BY <1>1, <1>3
  DEF Steps, Decide, Revoke, Insert, Collide, Call, StartRun, AppendAudit, Answer, Goes
<1>4. CASE Fails(o)
  BY <1>1, <1>4 DEF Fails
<1> QED
  BY <1>2, <1>3, <1>4

(* How a request comes to its audit row and its answer: it stays there, is *)
(* appended, or took effect, or failed to, in this step.                   *)
Enters(o) ==
  \/ Decide(o) \/ Revoke(o)
  \/ \E p \in Prefixes : Insert(o, p)
  \/ \E took, answered \in BOOLEAN : Call(o, took, answered) \/ StartRun(o, took, answered)

LEMMA RequestMoves ==
  ASSUME TypeOK, [Next]_vars, NEW o \in Operators
  PROVE  \/ requests'[o].pc \notin {"audit", "answer"}
         \/ /\ pool' = pool
            /\ requests'[o] = requests[o] \/ AppendAudit(o) \/ Enters(o)
<1>1. requests[o] \in Request
  BY DEF TypeOK
<1>2. CASE Submit(o)
  <2>1. ASSUME NEW op, NEW pc, NEW what, Begins(o, op, pc, what)
        PROVE  requests'[o].pc = pc
    BY <2>1 DEF Begins, Idle, TypeOK
  <2> QED
    BY <1>2, <2>1 DEF Submit
<1>3. CASE Fails(o) \/ Answer(o) \/ Crash
  <2>1. requests'[o] = Idle
    BY <1>3 DEF Fails, Answer, Crash, TypeOK
  <2> QED
    BY <2>1 DEF Idle
<1>4. ASSUME NEW p \in Prefixes, Collide(o, p)
      PROVE  requests'[o].pc \notin {"audit", "answer"}
  <2>1. requests'[o] = AfterCollision(requests[o], p) /\ requests[o].pc = "insert"
    BY <1>4 DEF Collide, TypeOK
  <2> QED
    BY <1>1, <2>1 DEF AfterCollision, Idle, Request
<1>5. ASSUME NEW q \in Operators, q # o, Submit(q) \/ Steps(q) \/ Fails(q)
      PROVE  requests'[o] = requests[o] /\ pool' = pool
  BY <1>5, OthersWait
<1>6. CASE RunEnds \/ UNCHANGED vars
  BY <1>6 DEF RunEnds, vars
<1>7. CASE Steps(o)
  <2>1. pool' = pool
    BY <1>7, OthersWait
  <2> QED
    BY <1>3, <1>4, <1>7, <2>1 DEF Steps, Enters
<1> QED
  BY <1>2, <1>3, <1>5, <1>6, <1>7 DEF Next

(* Which steps write a table, or show a secret; what took effect stays so. *)
LEMMA WhoWrites ==
  ASSUME [Next]_vars
  PROVE  /\ done \subseteq done'
         /\ \/ UNCHANGED tokens
            \/ \E o \in Operators : Revoke(o)
            \/ \E o \in Operators, p \in Prefixes : Insert(o, p)
         /\ UNCHANGED audit \/ \E o \in Operators : AppendAudit(o)
         /\ UNCHANGED revealed \/ \E o \in Operators : Answer(o)
<1>1. CASE UNCHANGED <<done, tokens, audit, revealed>>
  BY <1>1
<1>2. ASSUME NEW o \in Operators, Submit(o) \/ Fails(o)
      PROVE  UNCHANGED <<done, tokens, audit, revealed>>
  BY <1>2 DEF Submit, Begins, Fails, database
<1>3. ASSUME NEW o \in Operators, Decide(o)
      PROVE  done \subseteq done' /\ UNCHANGED <<tokens, audit, revealed>>
  BY <1>3 DEF Decide
<1>4. ASSUME NEW o \in Operators, Revoke(o)
      PROVE  done \subseteq done' /\ UNCHANGED <<audit, revealed>>
  BY <1>4 DEF Revoke
<1>5. ASSUME NEW o \in Operators, NEW p \in Prefixes, Insert(o, p)
      PROVE  done \subseteq done' /\ UNCHANGED <<audit, revealed>>
  BY <1>5 DEF Insert
<1>6. ASSUME NEW o \in Operators, NEW p \in Prefixes, Collide(o, p)
      PROVE  UNCHANGED <<done, tokens, audit, revealed>>
  BY <1>6 DEF Collide, database
<1>7. ASSUME NEW o \in Operators, NEW took \in BOOLEAN, NEW answered \in BOOLEAN,
             Call(o, took, answered) \/ StartRun(o, took, answered)
      PROVE  done \subseteq done' /\ UNCHANGED <<tokens, audit, revealed>>
  BY <1>7 DEF Call, StartRun, database
<1>8. ASSUME NEW o \in Operators, AppendAudit(o)
      PROVE  UNCHANGED <<done, tokens, revealed>>
  BY <1>8 DEF AppendAudit
<1>9. ASSUME NEW o \in Operators, Answer(o)
      PROVE  UNCHANGED <<done, tokens, audit>>
  BY <1>9 DEF Answer, database
<1>10. CASE RunEnds \/ Crash \/ UNCHANGED vars
  <2>1. UNCHANGED <<done, tokens, audit, revealed>>
    BY <1>10 DEF RunEnds, Crash, vars, database
  <2> QED
    BY <2>1
<1>11. ASSUME NEW o \in Operators, Submit(o) \/ Steps(o) \/ Fails(o)
       PROVE  /\ done \subseteq done'
              /\ UNCHANGED tokens \/ Revoke(o) \/ \E p \in Prefixes : Insert(o, p)
              /\ UNCHANGED audit \/ AppendAudit(o)
              /\ UNCHANGED revealed \/ Answer(o)
  BY <1>2, <1>3, <1>4, <1>5, <1>6, <1>7, <1>8, <1>9, <1>11 DEF Steps
<1> QED
  BY <1>10, <1>11 DEF Next

-----------------------------------------------------------------------------
(* Secrets. *)

Stored(p, n) == tokens[p].state # "free" /\ tokens[p].of = n

MintStored(o) ==
  requests[o].op = "mint" /\ requests[o].pc \in {"audit", "answer"} =>
    Stored(requests[o].what, requests[o].number)

(* A secret that has been shown, or is about to be, is the one stored. *)
StoredInv ==
  /\ \A s \in revealed : Stored(s[1], s[2])
  /\ \A o \in Operators : MintStored(o)

(* What is stored stays: a prefix is given away once. *)
LEMMA StoredStays ==
  ASSUME TypeOK, OpInv, [Next]_vars, NEW p \in Prefixes, NEW n, Stored(p, n)
  PROVE  Stored(p, n)'
<1>1. ASSUME NEW o \in Operators, Revoke(o)
      PROVE  Stored(p, n)'
  <2>1. requests[o].what \in Prefixes
    BY <1>1 DEF Revoke, OpInv
  <2>2. tokens'[p] = tokens[p] \/ tokens'[p] = [tokens[p] EXCEPT !.state = "revoked"]
    BY <1>1, <2>1 DEF Revoke, TypeOK
  <2>3. tokens[p] \in Row
    BY DEF TypeOK
  <2> QED
    BY <2>2, <2>3 DEF Stored, Row
<1>2. ASSUME NEW o \in Operators, NEW q \in Prefixes, Insert(o, q)
      PROVE  Stored(p, n)'
  <2>1. q # p
    BY <1>2 DEF Insert, Stored
  <2> QED
    BY <1>2, <2>1 DEF Insert, Stored, TypeOK
<1>3. ASSUME UNCHANGED tokens
      PROVE  Stored(p, n)'
  BY <1>3 DEF Stored
<1>4. \/ \E o \in Operators : Revoke(o)
      \/ \E o \in Operators, q \in Prefixes : Insert(o, q)
      \/ UNCHANGED tokens
  BY WhoWrites
<1> QED
  BY <1>1, <1>2, <1>3, <1>4

LEMMA StoredMoves ==
  ASSUME TypeOK, OpInv, [Next]_vars
  PROVE  \A p \in Prefixes : \A n : Stored(p, n) =>
           tokens'[p].state # "free" /\ tokens'[p].of = n
BY StoredStays DEF Stored

LEMMA StoredStep ==
  ASSUME TypeOK, OpInv, StoredInv, [Next]_vars
  PROVE  StoredInv'
<1>1. \A s \in revealed : s[1] \in Prefixes
  BY DEF TypeOK
<1>2. ASSUME NEW o \in Operators
      PROVE  MintStored(o)'
  <2>1. requests[o] \in Request
    BY DEF TypeOK
  <2>2. ASSUME requests[o].pc \in {"audit", "answer"},
               requests'[o].op = requests[o].op,
               requests'[o].what = requests[o].what,
               requests'[o].number = requests[o].number
        PROVE  MintStored(o)'
    <3> DEFINE p == requests[o].what
               n == requests[o].number
    <3>1. CASE requests[o].op = "mint"
      <4>1. p \in Prefixes /\ Stored(p, n)
        BY <2>2, <3>1 DEF OpInv, StoredInv, MintStored
      <4> HIDE DEF p, n
      <4>2. tokens'[p].state # "free" /\ tokens'[p].of = n
        BY <4>1, StoredMoves
      <4> QED
        BY <2>2, <4>2 DEF MintStored, Stored, p, n
    <3> QED
      BY <2>2, <3>1 DEF MintStored
  <2>3. CASE requests'[o].pc \notin {"audit", "answer"}
    BY <2>3 DEF MintStored
  <2>4. CASE requests'[o].pc \in {"audit", "answer"} /\ requests'[o] = requests[o]
    BY <2>2, <2>4
  <2>5. CASE AppendAudit(o)
    BY <2>1, <2>2, <2>5 DEF AppendAudit, Goes, TypeOK, Request
  <2>6. ASSUME NEW p \in Prefixes, Insert(o, p)
        PROVE  MintStored(o)'
    <3>1. requests'[o].what = p /\ requests'[o].number = requests[o].number
      BY <2>1, <2>6 DEF Insert, TypeOK, Request
    <3>2. tokens'[p] = [state |-> "active", of |-> requests[o].number]
      BY <2>6 DEF Insert, TypeOK
    <3> QED
      BY <3>1, <3>2 DEF MintStored, Stored
  <2>7. CASE Decide(o) \/ Revoke(o)
    <3>1. requests[o].op # "mint"
      BY <2>7 DEF Decide, Revoke, OpInv
    <3>2. requests'[o].op = requests[o].op
      BY <2>1, <2>7 DEF Decide, Revoke, Goes, TypeOK, Request
    <3> QED
      BY <3>1, <3>2 DEF MintStored
  <2>8. ASSUME NEW took \in BOOLEAN, NEW answered \in BOOLEAN,
               Call(o, took, answered) \/ StartRun(o, took, answered)
        PROVE  MintStored(o)'
    <3>1. requests[o].op # "mint"
      BY <2>8 DEF Call, StartRun
    <3>2. requests'[o].op = requests[o].op
      BY <2>1, <2>8 DEF Call, StartRun, TypeOK, Request
    <3> QED
      BY <3>1, <3>2 DEF MintStored
  <2> QED
    BY <2>3, <2>4, <2>5, <2>6, <2>7, <2>8, RequestMoves DEF Enters
<1>3. ASSUME NEW s \in revealed'
      PROVE  tokens'[s[1]].state # "free" /\ tokens'[s[1]].of = s[2]
  <2>1. CASE s \in revealed
    BY <1>1, <2>1, StoredMoves DEF StoredInv
  <2>2. CASE s \notin revealed
    <3>1. PICK o \in Operators : Answer(o)
      BY <2>2, WhoWrites
    <3>2. requests[o].op = "mint" /\ s = <<requests[o].what, requests[o].number>>
      BY <2>2, <3>1 DEF Answer
    <3>3. requests[o].what \in Prefixes /\ Stored(requests[o].what, requests[o].number)
      BY <3>1, <3>2 DEF Answer, OpInv, StoredInv, MintStored
    <3>4. s[1] = requests[o].what /\ s[2] = requests[o].number
      BY <3>2
    <3> QED
      BY <3>3, <3>4, StoredMoves
  <2> QED
    BY <2>1, <2>2
<1> QED
  BY <1>2, <1>3 DEF StoredInv, Stored

(* A secret that an operator was shown is the one stored under its prefix, *)
(* whatever collisions there were on the way (mint_token).                 *)
THEOREM SecretsAreStored == Spec => []RevealedIsStored
<1>1. Init => TypeOK /\ OpInv /\ StoredInv
  <2>1. Init => StoredInv
    BY DEF Init, StoredInv, MintStored, Idle
  <2> QED
    BY <2>1, InitTypes
<1>2. TypeOK /\ OpInv /\ StoredInv /\ [Next]_vars => (TypeOK /\ OpInv /\ StoredInv)'
  BY TypeStep, StoredStep
<1>3. StoredInv => RevealedIsStored
  BY DEF StoredInv, Stored, RevealedIsStored
<1> QED
  BY <1>1, <1>2, <1>3, PTL DEF Spec

-----------------------------------------------------------------------------
(* The log is true. *)

(* Once a request is at its audit row, what it will say is so. *)
AppendsTruth(o) ==
  LET tells == /\ pool
               /\ requests[o].pc = "audit"
               /\ requests[o].op # "webext"
               /\ requests[o].op = "scan" => requests[o].answer = "ok"
  IN tells => requests[o].number \in done

TruthInv == AuditIsTrue /\ \A o \in Operators : AppendsTruth(o)

LEMMA TruthStep ==
  ASSUME TypeOK, OpInv, TruthInv, [Next]_vars
  PROVE  TruthInv'
<1>1. ASSUME NEW o \in Operators
      PROVE  AppendsTruth(o)'
  <2>1. requests[o] \in Request
    BY DEF TypeOK
  <2>2. CASE requests'[o].pc # "audit"
    BY <2>2 DEF AppendsTruth
  <2>3. CASE requests'[o] = requests[o] /\ pool' = pool
    BY <2>3, WhoWrites DEF TruthInv, AppendsTruth
  <2>4. CASE AppendAudit(o)
    BY <2>1, <2>2, <2>4 DEF AppendAudit, Goes, TypeOK, Request
  <2>5. CASE Decide(o)
    <3>1. requests'[o].number = requests[o].number
      BY <2>1, <2>5 DEF Decide, Goes, TypeOK, Request
    <3> QED
      BY <2>5, <3>1 DEF Decide, AppendsTruth
  <2>6. CASE Revoke(o)
    <3>1. requests'[o].number = requests[o].number
      BY <2>1, <2>6 DEF Revoke, Goes, TypeOK, Request
    <3>2. requests'[o].pc = AuditedIfUpdated(Revocable(tokens[requests[o].what]))
      BY <2>1, <2>6 DEF Revoke, Goes, TypeOK, Request
    <3> QED
      BY <2>6, <3>1, <3>2 DEF Revoke, AppendsTruth, AuditedIfUpdated
  <2>7. ASSUME NEW p \in Prefixes, Insert(o, p)
        PROVE  AppendsTruth(o)'
    <3>1. requests'[o].number = requests[o].number
      BY <2>1, <2>7 DEF Insert, TypeOK, Request
    <3> QED
      BY <2>7, <3>1 DEF Insert, AppendsTruth
  <2>8. ASSUME NEW took \in BOOLEAN, NEW answered \in BOOLEAN, Call(o, took, answered)
        PROVE  AppendsTruth(o)'
    <3>1. /\ requests'[o].number = requests[o].number
          /\ requests'[o].op = "scan"
          /\ requests'[o].answer = Heard(took, answered)
      BY <2>1, <2>8 DEF Call, TypeOK, Request
    <3>2. took => requests'[o].number \in done'
      BY <2>8, <3>1 DEF Call
    <3> QED
      BY <3>1, <3>2 DEF AppendsTruth, Heard
  <2>9. ASSUME NEW took \in BOOLEAN, NEW answered \in BOOLEAN, StartRun(o, took, answered)
        PROVE  AppendsTruth(o)'
    <3>1. requests'[o].op = "webext"
      BY <2>1, <2>9 DEF StartRun, TypeOK, Request
    <3> QED
      BY <3>1 DEF AppendsTruth
  <2> QED
    BY <2>2, <2>3, <2>4, <2>5, <2>6, <2>7, <2>8, <2>9, RequestMoves DEF Enters
<1>2. ASSUME NEW row \in audit',
             row.op \in {"triage", "mint", "revoke"} \/ row.ok = "true"
      PROVE  row.number \in done'
  <2>1. CASE row \in audit
    BY <1>2, <2>1, WhoWrites DEF TruthInv, AuditIsTrue
  <2>2. CASE row \notin audit
    <3>1. PICK o \in Operators : AppendAudit(o)
      BY <1>2, <2>2, WhoWrites
    <3>2. pool /\ row = AuditRowOf(requests[o])
      BY <1>2, <2>2, <3>1 DEF AppendAudit
    <3>3. /\ row.number = requests[o].number /\ row.op = requests[o].op
          /\ requests[o].op # "webext"
          /\ requests[o].op = "scan" => requests[o].answer = "ok"
      BY <1>2, <3>2 DEF AuditRowOf
    <3>4. requests[o].number \in done
      BY <1>2, <3>1, <3>2, <3>3 DEF AppendAudit, TruthInv, AppendsTruth
    <3> QED
      BY <3>3, <3>4, WhoWrites
  <2> QED
    BY <2>1, <2>2
<1> QED
  BY <1>1, <1>2 DEF TruthInv, AuditIsTrue

(* The log is true: the row of a triage, a mint or a revocation, and that   *)
(* of a scan with ok = true, is of a request that took effect, also with   *)
(* answers lost, failed statements and no database (_audit).  The row of a *)
(* pipeline run has no ok and says nothing of it.                          *)
THEOREM LogIsTrue == Spec => []AuditIsTrue
<1>1. Init => TruthInv
  BY DEF Init, TruthInv, AppendsTruth, AuditIsTrue, Idle
<1>2. TypeOK /\ OpInv /\ TruthInv /\ [Next]_vars => (TypeOK /\ OpInv /\ TruthInv)'
  BY TypeStep, TruthStep
<1>3. TruthInv => AuditIsTrue
  BY DEF TruthInv
<1> QED
  BY <1>1, <1>2, <1>3, InitTypes, PTL DEF Spec

-----------------------------------------------------------------------------
(* A revocation is recorded once. *)

RevokeRows(p) == {row \in audit : row.op = "revoke" /\ row.what = p}

Revoking(o, p) ==
  requests[o].pc = "audit" /\ requests[o].op = "revoke" /\ requests[o].what = p

(* The one operator whose UPDATE found the token active has yet to append  *)
(* its row, or has: there is never both a row and one to come.             *)
Once(p) ==
  /\ tokens[p].state # "revoked" =>
       RevokeRows(p) = {} /\ \A o \in Operators : ~Revoking(o, p)
  /\ \A o \in Operators : Revoking(o, p) => RevokeRows(p) = {}
  /\ \A o, q \in Operators : Revoking(o, p) /\ Revoking(q, p) => o = q
  /\ \A r, s \in RevokeRows(p) : r = s

(* The UPDATE of this token finds it active. *)
Revokes(o, p) == Revoke(o) /\ requests[o].what = p /\ tokens[p].state = "active"

LEMMA RevokingComes ==
  ASSUME TypeOK, OpInv, [Next]_vars, NEW o \in Operators, NEW p \in Prefixes,
         requests'[o].pc = "audit", requests'[o].op = "revoke", requests'[o].what = p
  PROVE  \/ Revoking(o, p) /\ ~AppendAudit(o)
         \/ Revokes(o, p)
<1>1. requests[o] \in Request
  BY DEF TypeOK
<1>2. CASE AppendAudit(o)
  BY <1>1, <1>2 DEF AppendAudit, Goes, TypeOK, Request
<1>3. CASE requests'[o] = requests[o]
  BY <1>2, <1>3 DEF Revoking
<1>4. CASE Decide(o)
  BY <1>1, <1>4 DEF Decide, Goes, TypeOK, Request, OpInv
<1>5. CASE Revoke(o)
  <2>1. requests'[o].what = requests[o].what
    BY <1>1, <1>5 DEF Revoke, Goes, TypeOK, Request
  <2>2. requests'[o].pc = AuditedIfUpdated(Revocable(tokens[requests[o].what]))
    BY <1>1, <1>5 DEF Revoke, Goes, TypeOK, Request
  <2> QED
    BY <1>5, <2>1, <2>2 DEF Revokes, AuditedIfUpdated, Revocable
<1>6. ASSUME NEW q \in Prefixes, Insert(o, q)
      PROVE  FALSE
  <2>1. requests'[o].op = requests[o].op
    BY <1>1, <1>6 DEF Insert, TypeOK, Request
  <2> QED
    BY <1>6, <2>1 DEF Insert, OpInv
<1>7. ASSUME NEW took \in BOOLEAN, NEW answered \in BOOLEAN,
             Call(o, took, answered) \/ StartRun(o, took, answered)
      PROVE  FALSE
  <2>1. requests'[o].op = requests[o].op
    BY <1>1, <1>7 DEF Call, StartRun, TypeOK, Request
  <2> QED
    BY <1>7, <2>1 DEF Call, StartRun
<1>8. requests'[o] = requests[o] \/ AppendAudit(o) \/ Enters(o)
  BY RequestMoves
<1>9. CASE Enters(o)
  BY <1>4, <1>5, <1>6, <1>7, <1>9 DEF Enters
<1> QED
  BY <1>2, <1>3, <1>8, <1>9

LEMMA RevokedStays ==
  ASSUME TypeOK, OpInv, [Next]_vars, NEW p \in Prefixes
  PROVE  tokens[p].state = "revoked" => tokens'[p].state = "revoked"
<1>1. tokens[p] \in Row
  BY DEF TypeOK
<1>2. ASSUME NEW o \in Operators, Revoke(o)
      PROVE  tokens[p].state = "revoked" => tokens'[p].state = "revoked"
  BY <1>1, <1>2 DEF Revoke, TypeOK, Row
<1>3. ASSUME NEW o \in Operators, NEW q \in Prefixes, Insert(o, q)
      PROVE  tokens[p].state = "revoked" => tokens'[p].state = "revoked"
  <2>1. tokens[q].state = "free"
    BY <1>3 DEF Insert
  <2> QED
    BY <1>3, <2>1 DEF Insert, TypeOK
<1>4. \/ \E o \in Operators : Revoke(o)
      \/ \E o \in Operators, q \in Prefixes : Insert(o, q)
      \/ UNCHANGED tokens
  BY WhoWrites
<1> QED
  BY <1>2, <1>3, <1>4

LEMMA OnceStep ==
  ASSUME TypeOK, OpInv, [Next]_vars, NEW p \in Prefixes, Once(p)
  PROVE  Once(p)'
<1>1. CASE \E o \in Operators : Revokes(o, p)
  <2>1. PICK o \in Operators : Revokes(o, p)
    BY <1>1
  <2>2. tokens'[p].state = "revoked" /\ audit' = audit
    <3>1. tokens' = [tokens EXCEPT ![p].state = "revoked"] /\ audit' = audit
      BY <2>1 DEF Revokes, Revoke, Revocable
    <3>2. tokens \in [Prefixes -> Row]
      BY DEF TypeOK
    <3> QED
      BY <3>1, <3>2 DEF Row
  <2>3. RevokeRows(p) = {} /\ RevokeRows(p)' = {} /\ \A q \in Operators : ~Revoking(q, p)
    <3>1. RevokeRows(p) = {} /\ \A q \in Operators : ~Revoking(q, p)
      BY <2>1 DEF Revokes, Once
    <3>2. RevokeRows(p)' = RevokeRows(p)
      BY <2>2 DEF RevokeRows
    <3> QED
      BY <3>1, <3>2
  <2>4. ASSUME NEW q \in Operators, Revoking(q, p)'
        PROVE  q = o
    <3>1. q # o => requests'[q] = requests[q]
      BY <2>1, OthersWait DEF Revokes, Steps
    <3> QED
      BY <2>3, <2>4, <3>1 DEF Revoking
  <2> QED
    BY <2>2, <2>3, <2>4 DEF Once
<1>2. CASE ~\E o \in Operators : Revokes(o, p)
  <2>1. ASSUME NEW o \in Operators, Revoking(o, p)'
        PROVE  Revoking(o, p) /\ ~AppendAudit(o)
    BY <1>2, <2>1, RevokingComes DEF Revoking
  <2>2. CASE RevokeRows(p)' = RevokeRows(p)
    BY <2>1, <2>2, RevokedStays DEF Once
  <2>3. CASE RevokeRows(p)' # RevokeRows(p)
    <3>0. audit' # audit
      BY <2>3 DEF RevokeRows
    <3>1. PICK o \in Operators :
            AppendAudit(o) /\ audit' = audit \cup {AuditRowOf(requests[o])}
      BY <3>0, WhoWrites DEF AppendAudit
    <3>2. Revoking(o, p)
      BY <2>3, <3>1 DEF AppendAudit, RevokeRows, Revoking, AuditRowOf
    <3>3. RevokeRows(p) = {} /\ \A q \in Operators : ~Revoking(q, p)'
      BY <2>1, <3>1, <3>2 DEF Once
    <3>4. \A r \in RevokeRows(p)' : r = AuditRowOf(requests[o])
      BY <3>1, <3>3 DEF RevokeRows
    <3>5. tokens'[p].state = "revoked"
      BY <3>2, RevokedStays DEF Once
    <3> QED
      BY <3>3, <3>4, <3>5 DEF Once
  <2> QED
    BY <2>2, <2>3
<1> QED
  BY <1>1, <1>2

(* Two operators who revoke one token leave one row (revoke_pat). *)
THEOREM RevokedTokenHasOneRow == Spec => []RevokeAuditedOnce
<1> DEFINE OnceInv == \A p \in Prefixes : Once(p)
<1>1. Init => OnceInv
  BY DEF Init, Once, RevokeRows, Revoking, Idle
<1>2. TypeOK /\ OpInv /\ OnceInv /\ [Next]_vars => (TypeOK /\ OpInv /\ OnceInv)'
  BY TypeStep, OnceStep
<1>3. OnceInv => RevokeAuditedOnce
  <2> SUFFICES ASSUME OnceInv, NEW p \in Prefixes
               PROVE  Cardinality(RevokeRows(p)) <= 1
    BY DEF RevokeAuditedOnce, RevokeRows
  <2>1. CASE RevokeRows(p) = {}
    BY <2>1, FS_EmptySet
  <2>2. CASE RevokeRows(p) # {}
    <3>1. PICK row \in RevokeRows(p) : TRUE
      BY <2>2
    <3>2. RevokeRows(p) = {row}
      BY <3>1 DEF Once
    <3> QED
      BY <3>2, FS_Singleton
  <2> QED
    BY <2>1, <2>2
<1> QED
  BY <1>1, <1>2, <1>3, InitTypes, PTL DEF Spec

-----------------------------------------------------------------------------
(* The log is complete. *)

Early == {"decide", "revoke", "insert", "call"}

(* A request has a number of its own, and has it until it ends; it takes    *)
(* effect once, in the step that takes it past the early stages.           *)
NumbersInv ==
  /\ done \subseteq 1..made
  /\ \A o \in Operators :
       IF requests[o].pc = "idle" THEN requests[o].number = 0
       ELSE requests[o].number \in 1..made
  /\ \A o, q \in Operators :
       requests[o].pc # "idle" /\ requests[q].pc # "idle"
         /\ requests[o].number = requests[q].number => o = q
  /\ \A o \in Operators : requests[o].pc \in Early => requests[o].number \notin done

Recorded(n) == \E row \in audit : row.number = n

(* Without a fault: what took effect is recorded, or its request has yet   *)
(* to append the row; a request at its answer has.                         *)
CompleteInv ==
  faults = 0 /\ pool =>
    /\ \A n \in done : Recorded(n) \/ \E o \in Operators : requests[o].number = n
    /\ \A o \in Operators :
         requests[o].pc = "answer" /\ requests[o].number \in done
           => Recorded(requests[o].number)

(* How a request's number changes. *)
LEMMA NumberMoves ==
  ASSUME TypeOK, [Next]_vars, NEW o \in Operators
  PROVE  \/ requests'[o] = Idle
         \/ /\ Submit(o) /\ requests'[o].pc \in Early
            /\ requests'[o].number = made + 1 /\ made' = made + 1 /\ done' = done
         \/ /\ requests'[o].number = requests[o].number
            /\ requests'[o].pc = "idle" <=> requests[o].pc = "idle"
            /\ requests'[o].pc \in Early => requests[o].pc \in Early
<1>1. requests[o] \in Request
  BY DEF TypeOK
<1>2. CASE Submit(o)
  <2>1. ASSUME NEW op, NEW pc \in Early, NEW what, Begins(o, op, pc, what)
        PROVE  /\ requests'[o].pc \in Early /\ requests'[o].number = made + 1
               /\ made' = made + 1 /\ done' = done
    BY <2>1 DEF Begins, Idle, TypeOK
  <2>2. {"decide", "call", "revoke", "insert"} = Early
    BY DEF Early
  <2> QED
    BY <1>2, <2>1, <2>2 DEF Submit
<1>3. CASE Fails(o) \/ Answer(o) \/ Crash
  BY <1>3 DEF Fails, Answer, Crash, TypeOK
<1>4. ASSUME NEW p \in Prefixes, Collide(o, p), requests'[o] # Idle
      PROVE  requests'[o].number = requests[o].number /\ requests'[o].pc = requests[o].pc
  <2>1. requests'[o] = AfterCollision(requests[o], p)
    BY <1>4 DEF Collide, TypeOK
  <2> QED
    BY <1>1, <1>4, <2>1 DEF AfterCollision, Request
<1>5. CASE Decide(o) \/ Revoke(o) \/ AppendAudit(o)
  <2>1. PICK to \in {"audit", "answer"} : Goes(o, to)
    BY <1>5 DEF Decide, Revoke, AppendAudit, AuditedIfUpdated
  <2>2. requests'[o].number = requests[o].number /\ requests'[o].pc = to
    BY <1>1, <2>1 DEF Goes, TypeOK, Request
  <2>3. requests[o].pc # "idle"
    BY <1>5 DEF Decide, Revoke, AppendAudit
  <2> QED
    BY <2>2, <2>3 DEF Early
<1>6. ASSUME NEW p \in Prefixes, Insert(o, p)
      PROVE  requests'[o].number = requests[o].number /\ requests'[o].pc = "audit"
             /\ requests[o].pc = "insert"
  BY <1>1, <1>6 DEF Insert, TypeOK, Request
<1>7. ASSUME NEW took \in BOOLEAN, NEW answered \in BOOLEAN,
             Call(o, took, answered) \/ StartRun(o, took, answered)
      PROVE  requests'[o].number = requests[o].number /\ requests'[o].pc = "audit"
             /\ requests[o].pc = "call"
  BY <1>1, <1>7 DEF Call, StartRun, TypeOK, Request
<1>8. ASSUME NEW q \in Operators, q # o, Submit(q) \/ Steps(q) \/ Fails(q)
      PROVE  requests'[o] = requests[o]
  BY <1>8, OthersWait
<1>9. CASE requests'[o] = requests[o]
  BY <1>9
<1>10. CASE RunEnds \/ UNCHANGED vars
  BY <1>9, <1>10 DEF RunEnds, vars
<1>11. CASE Steps(o)
  BY <1>3, <1>4, <1>5, <1>6, <1>7, <1>11 DEF Steps, Early
<1> QED
  BY <1>2, <1>3, <1>8, <1>9, <1>10, <1>11 DEF Next

(* What takes effect is the request of one operator, who goes on to the     *)
(* row of the log with it.                                                 *)
LEMMA DoneMoves ==
  ASSUME TypeOK, [Next]_vars
  PROVE  \/ done' = done
         \/ \E o \in Operators :
              /\ done' = done \cup {requests[o].number}
              /\ requests[o].pc \in Early /\ requests'[o].pc = "audit"
              /\ requests'[o].number = requests[o].number
<1>1. ASSUME NEW o \in Operators PROVE requests[o] \in Request
  BY DEF TypeOK
<1>2. ASSUME NEW o \in Operators, Decide(o) \/ Revoke(o), done' # done
      PROVE  /\ done' = done \cup {requests[o].number}
             /\ requests[o].pc \in Early /\ requests'[o].pc = "audit"
             /\ requests'[o].number = requests[o].number
  <2>1. /\ done' = done \cup {requests[o].number} /\ Goes(o, "audit")
        /\ requests[o].pc \in Early
    BY <1>2 DEF Decide, Revoke, AuditedIfUpdated, Early
  <2> QED
    BY <1>1, <2>1 DEF Goes, TypeOK, Request
<1>3. ASSUME NEW o \in Operators, NEW p \in Prefixes, Insert(o, p)
      PROVE  /\ done' = done \cup {requests[o].number}
             /\ requests[o].pc \in Early /\ requests'[o].pc = "audit"
             /\ requests'[o].number = requests[o].number
  BY <1>1, <1>3 DEF Insert, TypeOK, Request, Early
<1>4. ASSUME NEW o \in Operators, NEW took \in BOOLEAN, NEW answered \in BOOLEAN,
             Call(o, took, answered) \/ StartRun(o, took, answered), done' # done
      PROVE  /\ done' = done \cup {requests[o].number}
             /\ requests[o].pc \in Early /\ requests'[o].pc = "audit"
             /\ requests'[o].number = requests[o].number
  BY <1>1, <1>4 DEF Call, StartRun, TypeOK, Request, Early
<1>5. ASSUME NEW o \in Operators, Submit(o) \/ Fails(o) \/ AppendAudit(o) \/ Answer(o)
      PROVE  done' = done
  BY <1>5 DEF Submit, Begins, Fails, AppendAudit, Answer
<1>6. ASSUME NEW o \in Operators, NEW p \in Prefixes, Collide(o, p)
      PROVE  done' = done
  BY <1>6 DEF Collide
<1>7. CASE RunEnds \/ Crash \/ UNCHANGED vars
  BY <1>7 DEF RunEnds, Crash, vars
<1> QED
  BY <1>2, <1>3, <1>4, <1>5, <1>6, <1>7 DEF Next, Steps

LEMMA MadeGrows == ASSUME TypeOK, [Next]_vars PROVE made \in Nat /\ made' \in {made, made + 1}
<1>1. made \in Nat
  BY ActionsAssumption DEF ActionsAssumption, TypeOK, Numbers
<1>2. ASSUME NEW o \in Operators PROVE Submit(o) => made' = made + 1
  BY DEF Submit, Begins
<1>3. ASSUME NEW o \in Operators PROVE Steps(o) \/ Fails(o) => made' = made
  BY DEF Steps, Decide, Revoke, Insert, Collide, Call, StartRun, AppendAudit, Answer, Fails
<1>4. RunEnds \/ Crash \/ UNCHANGED vars => made' = made
  BY DEF RunEnds, Crash, vars
<1> QED
  BY <1>1, <1>2, <1>3, <1>4 DEF Next

LEMMA NumbersStep ==
  ASSUME TypeOK, NumbersInv, [Next]_vars
  PROVE  NumbersInv'
<1>0. /\ made \in Nat /\ made' \in {made, made + 1} /\ 1..made \subseteq 1..made'
      /\ made + 1 \notin 1..made
  BY MadeGrows
<1>1. done' \subseteq 1..made'
  <2>1. ASSUME NEW o \in Operators, requests[o].pc \in Early
        PROVE  requests[o].number \in 1..made
    BY <2>1 DEF NumbersInv, Early
  <2> QED
    BY <1>0, <2>1, DoneMoves DEF NumbersInv
<1>2. ASSUME NEW o \in Operators
      PROVE  IF requests'[o].pc = "idle" THEN requests'[o].number = 0
             ELSE requests'[o].number \in 1..made'
  <2>1. CASE requests'[o] = Idle
    BY <2>1 DEF Idle
  <2>2. CASE requests'[o].number = made + 1 /\ made' = made + 1 /\ requests'[o].pc \in Early
    BY <1>0, <2>2 DEF Early
  <2>3. CASE /\ requests'[o].number = requests[o].number
             /\ requests'[o].pc = "idle" <=> requests[o].pc = "idle"
    BY <1>0, <2>3 DEF NumbersInv
  <2> QED
    BY <2>1, <2>2, <2>3, NumberMoves
<1>3. ASSUME NEW o \in Operators, NEW q \in Operators,
             requests'[o].pc # "idle", requests'[q].pc # "idle",
             requests'[o].number = requests'[q].number
      PROVE  o = q
  <2>0. requests'[o] # Idle /\ requests'[q] # Idle
    BY <1>3 DEF Idle
  <2>1. ASSUME NEW u \in Operators, NEW v \in Operators, Submit(u), u # v,
               requests'[u].number = made + 1, requests'[v].pc # "idle"
        PROVE  requests'[u].number # requests'[v].number
    <3>1. requests'[v] = requests[v]
      BY <2>1, OthersWait
    <3>2. requests'[v].number \in 1..made
      BY <2>1, <3>1 DEF NumbersInv
    <3> QED
      BY <1>0, <2>1, <3>2
  <2>2. CASE Submit(o) /\ requests'[o].number = made + 1
    BY <1>3, <2>1, <2>2
  <2>3. CASE Submit(q) /\ requests'[q].number = made + 1
    BY <1>3, <2>1, <2>3
  <2>4. CASE /\ requests'[o].number = requests[o].number /\ requests[o].pc # "idle"
             /\ requests'[q].number = requests[q].number /\ requests[q].pc # "idle"
    BY <1>3, <2>4 DEF NumbersInv
  <2> QED
    BY <1>3, <2>0, <2>2, <2>3, <2>4, NumberMoves
<1>4. ASSUME NEW o \in Operators, requests'[o].pc \in Early
      PROVE  requests'[o].number \notin done'
  <2>0. requests'[o] # Idle
    BY <1>4 DEF Idle, Early
  <2>1. CASE requests'[o].number = made + 1 /\ done' = done
    BY <1>0, <2>1 DEF NumbersInv
  <2>2. CASE requests'[o].number = requests[o].number /\ requests[o].pc \in Early
    <3>1. requests[o].number \notin done
      BY <2>2 DEF NumbersInv
    <3>2. ASSUME NEW q \in Operators, requests[q].pc \in Early, requests'[q].pc = "audit",
                 requests[q].number = requests[o].number
          PROVE  FALSE
      <4>1. o = q
        BY <2>2, <3>2 DEF NumbersInv, Early
      <4> QED
        BY <1>4, <3>2, <4>1 DEF Early
    <3> QED
      BY <2>2, <3>1, <3>2, DoneMoves
  <2> QED
    BY <1>4, <2>0, <2>1, <2>2, NumberMoves
<1> QED
  BY <1>1, <1>2, <1>3, <1>4 DEF NumbersInv

(* A request comes to its answer by appending its row, or with nothing to   *)
(* record.                                                                 *)
LEMMA AnswerMoves ==
  ASSUME TypeOK, [Next]_vars, NEW o \in Operators, requests'[o].pc = "answer"
  PROVE  \/ requests'[o] = requests[o]
         \/ AppendAudit(o) /\ requests'[o].number = requests[o].number
         \/ /\ requests[o].pc \in Early /\ done' = done
            /\ requests'[o].number = requests[o].number
<1>1. requests[o] \in Request
  BY DEF TypeOK
<1>2. CASE AppendAudit(o)
  BY <1>1, <1>2 DEF AppendAudit, Goes, TypeOK, Request
<1>3. CASE Decide(o)
  BY <1>1, <1>3 DEF Decide, Goes, TypeOK, Request
<1>4. CASE Revoke(o)
  <2>1. requests'[o].pc = AuditedIfUpdated(Revocable(tokens[requests[o].what]))
        /\ requests'[o].number = requests[o].number
    BY <1>1, <1>4 DEF Revoke, Goes, TypeOK, Request
  <2>2. ~Revocable(tokens[requests[o].what])
    BY <2>1 DEF AuditedIfUpdated
  <2> QED
    BY <1>4, <2>1, <2>2 DEF Revoke, Early
<1>5. ASSUME NEW p \in Prefixes, Insert(o, p)
      PROVE  FALSE
  BY <1>1, <1>5 DEF Insert, TypeOK, Request
<1>6. ASSUME NEW took \in BOOLEAN, NEW answered \in BOOLEAN,
             Call(o, took, answered) \/ StartRun(o, took, answered)
      PROVE  FALSE
  BY <1>1, <1>6 DEF Call, StartRun, TypeOK, Request
<1>7. requests'[o] = requests[o] \/ AppendAudit(o) \/ Enters(o)
  BY RequestMoves
<1> QED
  BY <1>2, <1>3, <1>4, <1>5, <1>6, <1>7 DEF Enters

LEMMA NoFaultSoFar ==
  ASSUME TypeOK, [Next]_vars, faults' = 0
  PROVE  faults = 0 /\ pool' = pool /\ ~Crash /\ \A o \in Operators : ~Fails(o)
<1>1. faults \in Nat
  BY ActionsAssumption DEF ActionsAssumption, TypeOK
<1>2. ~Fault
  BY <1>1 DEF Fault
<1>3. ~Crash /\ \A o \in Operators : ~Fails(o)
  BY <1>2 DEF Crash, Fails
<1>4. ASSUME NEW o \in Operators, Submit(o) \/ Steps(o)
      PROVE  pool' = pool /\ faults' = faults
  <2>1. CASE Submit(o)
    BY <2>1 DEF Submit, Begins
  <2>2. CASE Decide(o) \/ Revoke(o) \/ AppendAudit(o) \/ Answer(o)
    BY <1>2, <2>2 DEF Decide, Revoke, AppendAudit, Answer
  <2>3. ASSUME NEW p \in Prefixes, Insert(o, p) \/ Collide(o, p)
        PROVE  pool' = pool /\ faults' = faults
    BY <2>3 DEF Insert, Collide
  <2>4. ASSUME NEW took \in BOOLEAN, NEW answered \in BOOLEAN,
               Call(o, took, answered) \/ StartRun(o, took, answered)
        PROVE  pool' = pool /\ faults' = faults
    BY <1>2, <2>4 DEF Call, StartRun
  <2> QED
    BY <1>4, <2>1, <2>2, <2>3, <2>4 DEF Steps
<1>5. CASE RunEnds \/ UNCHANGED vars
  BY <1>3, <1>5 DEF RunEnds, vars
<1> QED
  BY <1>3, <1>4, <1>5 DEF Next

LEMMA CompleteStep ==
  ASSUME TypeOK, NumbersInv, CompleteInv, [Next]_vars
  PROVE  CompleteInv'
<1> SUFFICES ASSUME faults' = 0, pool'
             PROVE  /\ \A n \in done' : \/ \E row \in audit' : row.number = n
                                        \/ \E o \in Operators : requests'[o].number = n
                    /\ \A o \in Operators :
                         requests'[o].pc = "answer" /\ requests'[o].number \in done'
                           => \E row \in audit' : row.number = requests'[o].number
  BY DEF CompleteInv, Recorded
<1>0. /\ faults = 0 /\ pool /\ ~Crash /\ \A o \in Operators : ~Fails(o)
      /\ audit \subseteq audit'
  <2>1. audit \subseteq audit'
    BY WhoWrites DEF AppendAudit
  <2> QED
    BY <2>1, NoFaultSoFar
<1>1. ASSUME NEW n, Recorded(n)
      PROVE  \E row \in audit' : row.number = n
  BY <1>0, <1>1 DEF Recorded
<1>2. ASSUME NEW o \in Operators, requests[o].pc = "answer", requests[o].number \in done
      PROVE  Recorded(requests[o].number)
  BY <1>0, <1>2 DEF CompleteInv
<1>3. ASSUME NEW n \in done, NEW o \in Operators, requests[o].number = n,
             requests'[o].number # n
      PROVE  Recorded(n)
  <2>1. n \in 1..made /\ requests[o].pc # "idle"
    BY <1>3 DEF NumbersInv
  <2>2. requests[o].pc \notin Early
    BY <1>3 DEF NumbersInv
  <2>3. ~Submit(o) /\ \A p \in Prefixes : ~Collide(o, p)
    <3>1. ~Submit(o)
      BY <2>1 DEF Submit, Begins
    <3> QED
      BY <2>2, <3>1 DEF Collide, Early
  <2>4. requests'[o] = Idle
    BY <1>3, <2>3, NumberMoves
  <2>5. Answer(o)
    <3>1. requests[o] # Idle /\ requests'[o].pc = "idle"
      BY <2>1, <2>4 DEF Idle
    <3>2. ~Decide(o) /\ ~Revoke(o) /\ \A p \in Prefixes : ~Insert(o, p)
      BY <2>2 DEF Decide, Revoke, Insert, Early
    <3>3. \A took, answered \in BOOLEAN : ~Call(o, took, answered) /\ ~StartRun(o, took, answered)
      BY <2>2 DEF Call, StartRun, Early
    <3>4. ~AppendAudit(o)
      BY <3>1 DEF AppendAudit, Goes, TypeOK, Request
    <3>5. ASSUME NEW q \in Operators, q # o
          PROVE  ~Submit(q) /\ ~Steps(q)
      BY <2>4, <3>1, <3>5, OthersWait
    <3>6. ~RunEnds /\ ~UNCHANGED vars
      BY <2>4, <3>1 DEF RunEnds, vars
    <3>7. Steps(o)
      BY <1>0, <2>3, <3>5, <3>6 DEF Next
    <3> QED
      BY <2>3, <3>2, <3>3, <3>4, <3>7 DEF Steps
  <2> QED
    BY <1>2, <1>3, <2>5 DEF Answer
<1>4. ASSUME NEW n \in done'
      PROVE  \/ \E row \in audit' : row.number = n
             \/ \E o \in Operators : requests'[o].number = n
  <2>1. CASE n \in done
    <3>1. Recorded(n) \/ \E o \in Operators : requests[o].number = n
      BY <1>0, <2>1 DEF CompleteInv
    <3> QED
      BY <1>1, <1>3, <2>1, <3>1
  <2>2. CASE n \notin done
    BY <1>4, <2>2, DoneMoves
  <2> QED
    BY <2>1, <2>2
<1>5. ASSUME NEW o \in Operators, requests'[o].pc = "answer", requests'[o].number \in done'
      PROVE  \E row \in audit' : row.number = requests'[o].number
  <2>1. CASE AppendAudit(o) /\ requests'[o].number = requests[o].number
    <3>1. audit' = audit \cup {AuditRowOf(requests[o])}
      BY <1>0, <2>1 DEF AppendAudit, Fault
    <3>2. AuditRowOf(requests[o]).number = requests[o].number
      BY DEF AuditRowOf
    <3> QED
      BY <2>1, <3>1, <3>2
  <2>2. CASE requests'[o] = requests[o]
    <3>1. CASE requests[o].number \in done
      BY <1>1, <1>2, <1>5, <2>2, <3>1
    <3>2. CASE requests[o].number \notin done
      <4>1. PICK q \in Operators :
              /\ requests[q].number = requests[o].number
              /\ requests[q].pc \in Early /\ requests'[q].pc = "audit"
        BY <1>5, <2>2, <3>2, DoneMoves
      <4>2. q = o
        BY <1>5, <2>2, <4>1 DEF NumbersInv, Early
      <4> QED
        BY <1>5, <4>1, <4>2
    <3> QED
      BY <3>1, <3>2
  <2>3. CASE /\ requests[o].pc \in Early /\ done' = done
             /\ requests'[o].number = requests[o].number
    BY <1>5, <2>3 DEF NumbersInv
  <2> QED
    BY <1>5, <2>1, <2>2, <2>3, AnswerMoves
<1> QED
  BY <1>4, <1>5

(* The log is complete: only a fault keeps the row of what took effect     *)
(* from it, however the requests of several operators interleave (_audit). *)
THEOREM LogIsComplete == Spec => []AuditIsComplete
<1>1. Init => TypeOK /\ OpInv /\ NumbersInv /\ CompleteInv
  <2>1. Init => NumbersInv
    BY DEF Init, NumbersInv, Idle, Early
  <2>2. Init => CompleteInv
    BY DEF Init, CompleteInv
  <2> QED
    BY <2>1, <2>2, InitTypes
<1>2. TypeOK /\ OpInv /\ NumbersInv /\ CompleteInv /\ [Next]_vars
      => (TypeOK /\ OpInv /\ NumbersInv /\ CompleteInv)'
  BY TypeStep, NumbersStep, CompleteStep
<1>3. CompleteInv => AuditIsComplete
  BY DEF CompleteInv, AuditIsComplete, Recorded
<1> QED
  BY <1>1, <1>2, <1>3, PTL DEF Spec

=============================================================================
