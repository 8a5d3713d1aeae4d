---------------------------- MODULE OperatorActions ----------------------------
(***************************************************************************)
(* What operators do from the dashboard, past the session and the CSRF     *)
(* check: triage an incident in the dashboard's own overlay, mint and      *)
(* revoke personal access tokens, have an agent sweep or scan or resolve a *)
(* finding, start a pipeline run; and the audit rows they leave            *)
(* (dashboard/api.py, pat_routes.py, store.py, aggregator.py, audit.py).   *)
(*                                                                         *)
(* Operators' requests run concurrently.  Each statement on the database,  *)
(* and each call of an agent, is a step; with no pool, which a process     *)
(* that could not open one lives with, the steps on the database are       *)
(* skipped or the request is turned away.  There is one incident; a token  *)
(* is known by its prefix, and what role it is clamped to is left out.     *)
(***************************************************************************)
EXTENDS Integers, FiniteSets

CONSTANTS
  Operators,
  Decisions,     \* INCIDENT_TRIAGE_STATUSES
  Prefixes,      \* of tokens; two secrets may share one
  Attempts,      \* of mint_token to find a prefix that is free
  MaxRequests,   \* bound on the requests made
  MaxFaults      \* bound on failed statements, lost answers and crashes

ASSUME ActionsAssumption ==
  /\ IsFiniteSet(Operators) /\ IsFiniteSet(Prefixes)
  /\ Attempts \in Nat \ {0}
  /\ MaxRequests \in Nat /\ MaxFaults \in Nat

VARIABLES
  pool,       \* whether the process has one
  overlay,    \* the row of incident_triage
  tokens,     \* [Prefixes -> Row], personal_access_tokens
  audit,      \* the rows of audit_log
  running,    \* whether the control server has a pipeline run in progress
  requests,   \* [Operators -> Request]
  made,       \* the requests so far: each has its number
  faults,
  done,       \* history: the requests that took effect
  revealed    \* history: the secrets shown to operators

database == <<overlay, tokens, audit>>
vars == <<pool, database, running, requests, made, faults, done, revealed>>

Numbers == 0..MaxRequests

Upstream == {"scan", "webext"}   \* calls of an agent: sweep and resolve are like scan

Stages == {"idle", "decide", "revoke", "insert", "call", "audit", "answer"}

Request == [pc      : Stages,
            op      : {"triage", "mint", "revoke"} \cup Upstream,
            number  : Numbers,
            what    : Decisions \cup Prefixes \cup {"none"},
            attempt : 0..(Attempts - 1),
            answer  : {"none", "ok", "already", "unavailable"}]

Row == [state : {"free", "active", "revoked"}, of : Numbers]

(* An audit row: which request it records, what was done to what, and the  *)
(* metadata's ok, which only the rows of an agent's scan have.             *)
AuditRow == [number : Numbers, op : {"triage", "mint", "revoke"} \cup Upstream,
             what : Decisions \cup Prefixes \cup {"none"}, ok : {"true", "false", "absent"}]

TypeOK ==
  /\ pool \in BOOLEAN
  /\ overlay \in [status : Decisions \cup {"none"}, of : Numbers]
  /\ tokens \in [Prefixes -> Row]
  /\ audit \subseteq AuditRow
  /\ running \in BOOLEAN
  /\ requests \in [Operators -> Request]
  /\ made \in Numbers
  /\ faults \in 0..MaxFaults
  /\ done \subseteq Numbers
  /\ revealed \subseteq (Prefixes \X Numbers)

Idle == [pc |-> "idle", op |-> "triage", number |-> 0, what |-> "none",
         attempt |-> 0, answer |-> "none"]

FreePrefix == [state |-> "free", of |-> 0]
OlderToken == [state |-> "active", of |-> 0]

Init ==
  /\ pool \in BOOLEAN
  /\ overlay = [status |-> "none", of |-> 0]
  /\ tokens \in [Prefixes -> {FreePrefix, OlderToken}]
  /\ audit = {}
  /\ running = FALSE
  /\ requests = [o \in Operators |-> Idle]
  /\ made = 0
  /\ faults = 0
  /\ done = {}
  /\ revealed = {}

-----------------------------------------------------------------------------
(* Mutated forms of the definitions below, each a plausible bug. *)

RevocableAgain(row) == row.state # "free"

AuditedUnlessUpdated(updated) == IF updated THEN "answer" ELSE "audit"

AfterCollisionStores(request, p) == [request EXCEPT !.pc = "audit", !.what = p]

AfterCollisionForgets(request, p) == request

HeardAnyway(took, answered) == "ok"

-----------------------------------------------------------------------------
(* Requests. *)

Fault == faults < MaxFaults /\ faults' = faults + 1

Goes(o, to) == requests' = [requests EXCEPT ![o].pc = to]

Begins(o, op, pc, what) ==
  /\ requests[o].pc = "idle"
  /\ made < MaxRequests
  /\ made' = made + 1
  /\ requests' = [requests EXCEPT ![o] =
       [Idle EXCEPT !.pc = pc, !.op = op, !.number = made + 1, !.what = what]]
  /\ UNCHANGED <<pool, database, running, faults, done, revealed>>

(* require_session lets admins and managers in; mint and revoke want a      *)
(* pool, and answer 503 without one.                                       *)
Submit(o) ==
  \/ \E status \in Decisions : Begins(o, "triage", "decide", status)
  \/ \E op \in Upstream : Begins(o, op, "call", "none")
  \/ pool /\ \E p \in Prefixes : Begins(o, "revoke", "revoke", p)
  \/ pool /\ Begins(o, "mint", "insert", "none")

-----------------------------------------------------------------------------
(* set_incident_triage: an upsert, or nothing without a pool. *)
Decided(status, n) == [status |-> status, of |-> n]

Decide(o) ==
  LET request == requests[o] IN
  /\ request.pc = "decide"
  /\ IF pool THEN /\ overlay' = Decided(request.what, request.number)
                  /\ done' = done \cup {request.number}
             ELSE UNCHANGED <<overlay, done>>
  /\ Goes(o, "audit")
  /\ UNCHANGED <<pool, tokens, audit, running, made, faults, revealed>>

(* revoke_pat: AND revoked_at IS NULL.  Only a row updated is audited. *)
Revocable(row) == row.state = "active"

AuditedIfUpdated(updated) == IF updated THEN "audit" ELSE "answer"

Revoke(o) ==
  LET request == requests[o]
      updated == Revocable(tokens[request.what]) IN
  /\ request.pc = "revoke"
  /\ IF updated THEN /\ tokens' = [tokens EXCEPT ![request.what].state = "revoked"]
                     /\ done' = done \cup {request.number}
                ELSE UNCHANGED <<tokens, done>>
  /\ Goes(o, AuditedIfUpdated(updated))
  /\ UNCHANGED <<pool, overlay, audit, running, made, faults, revealed>>

(* create_pat with a new secret of this prefix: the prefix is free. *)
Insert(o, p) ==
  LET request == requests[o] IN
  /\ request.pc = "insert"
  /\ tokens[p].state = "free"
  /\ tokens' = [tokens EXCEPT ![p] = [state |-> "active", of |-> request.number]]
  /\ done' = done \cup {request.number}
  /\ requests' = [requests EXCEPT ![o].pc = "audit", ![o].what = p]
  /\ UNCHANGED <<pool, overlay, audit, running, made, faults, revealed>>

(* UniqueViolation: another secret, up to the last attempt, then a 500. *)
AfterCollision(request, p) ==
  IF request.attempt + 1 < Attempts THEN [request EXCEPT !.attempt = @ + 1] ELSE Idle

Collide(o, p) ==
  /\ requests[o].pc = "insert"
  /\ tokens[p].state # "free"
  /\ requests' = [requests EXCEPT ![o] = AfterCollision(@, p)]
  /\ UNCHANGED <<pool, database, running, made, faults, done, revealed>>

(* What the aggregator makes of a call: an answer, or Unavailable. *)
Heard(took, answered) == IF took /\ answered THEN "ok" ELSE "unavailable"

(* _post to an agent, which takes it or not; its answer may get lost. *)
Call(o, took, answered) ==
  /\ requests[o].pc = "call"
  /\ requests[o].op = "scan"
  /\ IF answered THEN UNCHANGED faults ELSE Fault
  /\ done' = IF took THEN done \cup {requests[o].number} ELSE done
  /\ requests' = [requests EXCEPT ![o].pc = "audit", ![o].answer = Heard(took, answered)]
  /\ UNCHANGED <<pool, database, running, made, revealed>>

(* webext_run: the control server refuses a run beside another with a 409. *)
StartRun(o, took, answered) ==
  /\ requests[o].pc = "call"
  /\ requests[o].op = "webext"
  /\ took => ~running
  /\ IF answered THEN UNCHANGED faults ELSE Fault
  /\ running' = (running \/ took)
  /\ done' = IF took THEN done \cup {requests[o].number} ELSE done
  /\ requests' = [requests EXCEPT ![o].pc = "audit",
       ![o].answer = IF answered /\ running THEN "already" ELSE Heard(took, answered)]
  /\ UNCHANGED <<pool, database, made, revealed>>

RunEnds ==
  /\ running
  /\ running' = FALSE
  /\ UNCHANGED <<pool, database, requests, made, faults, done, revealed>>

-----------------------------------------------------------------------------
(* audit.append: an INSERT whose failure is swallowed, nothing without a    *)
(* pool.                                                                   *)
AuditRowOf(request) ==
  [number |-> request.number, op |-> request.op, what |-> request.what,
   ok |-> IF request.op # "scan" THEN "absent"
          ELSE IF request.answer = "ok" THEN "true" ELSE "false"]

AppendAudit(o) ==
  /\ requests[o].pc = "audit"
  /\ \/ pool /\ audit' = audit \cup {AuditRowOf(requests[o])} /\ UNCHANGED faults
     \/ pool /\ Fault /\ UNCHANGED audit
     \/ ~pool /\ UNCHANGED <<audit, faults>>
  /\ Goes(o, "answer")
  /\ UNCHANGED <<pool, overlay, tokens, running, made, done, revealed>>

(* The answer: the incidents with the overlay of now, the secret in plain  *)
(* for this once, or the notice.                                           *)
Answer(o) ==
  /\ requests[o].pc = "answer"
  /\ revealed' = IF requests[o].op = "mint"
                   THEN revealed \cup {<<requests[o].what, requests[o].number>>}
                   ELSE revealed
  /\ requests' = [requests EXCEPT ![o] = Idle]
  /\ UNCHANGED <<pool, database, running, made, faults, done>>

-----------------------------------------------------------------------------
(* A statement of the request raises: a 500. *)
Fails(o) ==
  /\ pool
  /\ requests[o].pc \in {"decide", "revoke", "insert", "answer"}
  /\ Fault
  /\ requests' = [requests EXCEPT ![o] = Idle]
  /\ UNCHANGED <<pool, database, running, made, done, revealed>>

(* The process crashes, or is restarted, with or without a database. *)
Crash ==
  /\ Fault
  /\ requests' = [o \in Operators |-> Idle]
  /\ pool' \in BOOLEAN
  /\ UNCHANGED <<database, running, made, done, revealed>>

Steps(o) ==
  \/ Decide(o) \/ Revoke(o)
  \/ \E p \in Prefixes : Insert(o, p) \/ Collide(o, p)
  \/ \E took, answered \in BOOLEAN : Call(o, took, answered) \/ StartRun(o, took, answered)
  \/ AppendAudit(o) \/ Answer(o)

Next ==
  \/ \E o \in Operators : Submit(o) \/ Steps(o) \/ Fails(o)
  \/ RunEnds
  \/ Crash

Spec == Init /\ [][Next]_vars

-----------------------------------------------------------------------------
(* PROPERTIES *)

(* The log is true: the row of a triage, a mint or a revocation, and that   *)
(* of a scan with ok = true, is of a request that took effect, also with    *)
(* answers lost, failed statements and no database (_audit).               *)
(* The row of a pipeline run says nothing of it: action_webext_run writes  *)
(* it after a 409 or an Unavailable too, and without an ok.                *)
AuditIsTrue ==
  \A row \in audit :
    row.op \in {"triage", "mint", "revoke"} \/ row.ok = "true" => row.number \in done

(* The log is complete: only a fault keeps the row of what took effect     *)
(* from it, however the requests of several operators interleave.          *)
AuditIsComplete ==
  faults = 0 /\ pool =>
    \A n \in done : \/ \E row \in audit : row.number = n
                    \/ \E o \in Operators : requests[o].number = n

(* Two operators who revoke one token leave one row (revoke_pat). *)
RevokeAuditedOnce ==
  \A p \in Prefixes :
    Cardinality({row \in audit : row.op = "revoke" /\ row.what = p}) <= 1

(* A secret that an operator was shown is the one stored under its prefix, *)
(* whatever collisions there were on the way (mint_token).                 *)
RevealedIsStored == \A s \in revealed : tokens[s[1]].of = s[2]

-----------------------------------------------------------------------------
(* Fairness.  Statements return or raise, and calls time out. *)
LiveSpec == Spec /\ \A o \in Operators : WF_vars(Steps(o))

(* Every request ends, also when every new secret collides. *)
RequestEnds == \A o \in Operators : requests[o].pc # "idle" ~> requests[o].pc = "idle"

=============================================================================
