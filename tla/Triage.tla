-------------------------------- MODULE Triage --------------------------------
(***************************************************************************)
(* The triage graph of the monitoring agent (monitoring_agent/graph.py):   *)
(* ingest -> classify -> dedup -> decide -> notify, run by several callers *)
(* at once over one incidents table.  A caller is a task of the agent's    *)
(* event loop: the scheduled sweep, a manual POST /sweep, a webhook.  Each *)
(* handles one signal at a time.  Between two awaits a task is alone, so a *)
(* step of a run is what it does from one await to the next: the LLM call, *)
(* the two statements of the upsert, each publish, each status UPDATE.     *)
(*                                                                         *)
(* The environment may crash the process, fail a statement, refuse a page, *)
(* resolve an incident by hand, prune old rows and let time pass.          *)
(***************************************************************************)
EXTENDS IncidentStore

CONSTANTS
  Runs,               \* the callers that triage concurrently
  NoKey,              \* the key of a run that has had no signal yet
  ValidSeverity,      \* _VALID_SEVERITY; info and warning behave alike
  Window,             \* dedup_window_minutes, in clock ticks
  NotifyMaxAttempts,  \* notify_max_attempts
  MaxFaults           \* bound on crashes and failed statements

ASSUME TriageAssumption ==
  /\ NoKey \notin Keys
  /\ {"warning", "critical"} \subseteq ValidSeverity
  /\ Window \in Nat
  /\ Window < Horizon
  /\ NotifyMaxAttempts \in Int
  /\ MaxFaults \in Nat

(* The defaults are 30 minutes and 90 days, the unit of the retention is a *)
(* day: an incident is not forgotten while its window is still running.    *)
ASSUME WindowAssumption == Retention = 0 \/ Window <= Retention

VARIABLES
  runs,    \* [Runs -> Run], the local state of each caller's current triage
  faults,  \* crashes and failed statements so far
  owed,    \* history, per key: a page failed, no later page or resolution since;
           \* "raced" when a run that had delivered was then about to clear
  known    \* history, per key: a page of the present row arrived, or an
           \* operator has resolved it

vars == <<rows, runs, faults, owed, known>>

Severity == ValidSeverity \cup {"unrecognized"}

Attempts == IF NotifyMaxAttempts > 1 THEN NotifyMaxAttempts ELSE 1

Outcome == {"suppressed", "alerted", "failed"}   \* what ainvoke returned
Resting == Outcome \cup {"idle"}

Run == [pc    : Resting \cup {"classify", "select", "insert", "decide",
                              "publish", "clear", "mark"},
        key   : Keys \cup {NoKey},
        sev   : Severity,
        prev  : (0..Horizon) \cup {NoPrev},  \* age of the row the SELECT read
        supp  : BOOLEAN,                     \* state["suppressed"]
        snap  : Status,                      \* incident.status as upsert returned it
        tries : 0..Attempts,                 \* failed publishes so far
        \* history: what was true when the upsert committed
        found : {"nothing", "old", "recent"},  \* the row it overwrote, by age
        raced : BOOLEAN]     \* another run upserted the key after the SELECT

IdleRun == [pc |-> "idle", key |-> NoKey, sev |-> "warning", prev |-> NoPrev,
            supp |-> FALSE, snap |-> "absent", tries |-> 0,
            found |-> "nothing", raced |-> FALSE]

(* Where run goes next.  A run that returns from notify leaves nothing but *)
(* its result behind.                                                      *)
Moved(run, pc) ==
  IF pc \in {"alerted", "failed"} THEN [IdleRun EXCEPT !.pc = pc]
                                  ELSE [run EXCEPT !.pc = pc]

Owed == {"no", "yes", "raced"}

TypeOK ==
  /\ StoreTypeOK
  /\ runs \in [Runs -> Run]
  /\ faults \in 0..MaxFaults
  /\ owed \in [Keys -> Owed]
  /\ known \in [Keys -> BOOLEAN]

Init ==
  /\ StoreInit
  /\ runs = [r \in Runs |-> IdleRun]
  /\ faults = 0
  /\ owed = [k \in Keys |-> "no"]
  /\ known = [k \in Keys |-> FALSE]

-----------------------------------------------------------------------------
(* Mutated forms of the definitions below, each a plausible bug.           *)

SuppressedAtBoundary(prev) == prev # NoPrev /\ prev =< Window

AlertsIgnoringFlag(run) == run.sev = "critical" \/ ~run.supp

AlertsOnAnyRepeat(run) == TRUE

AfterFailureOnceMore(n) == IF n <= Attempts THEN "publish" ELSE "mark"

AfterFailureGivesUp(n) == IF n < Attempts THEN "publish" ELSE "failed"

-----------------------------------------------------------------------------
(* The nodes' decisions. *)

(* dedup: not is_new and seconds_since_prev < window_seconds. *)
Suppressed(prev) == prev # NoPrev /\ prev < Window

(* decide: a failed page and a critical one break through suppression. *)
Alerts(run) ==
  run.snap = "alert_failed" \/ run.sev = "critical" \/ ~run.supp

(* notify: the loop counts its failed attempts; after the n-th, another     *)
(* attempt or the flag.                                                    *)
Failures(run) == run.tries + 1

AfterFailure(n) == IF n < Attempts THEN "publish" ELSE "mark"

(* notify: a delivered page clears the flag that upsert showed, if any. *)
AfterDelivery(run) ==
  IF run.snap = "alert_failed" THEN "clear" ELSE "alerted"

-----------------------------------------------------------------------------
(* A caller invokes the graph with a signal; ingest keeps its suggestion. *)
Ingest(r, k, suggested) ==
  /\ runs[r].pc \in Resting
  /\ runs' = [runs EXCEPT ![r] =
                [IdleRun EXCEPT !.pc = "classify", !.key = k, !.sev = suggested]]
  /\ UNCHANGED <<rows, faults, owed, known>>

(* classify: the model's severity when it is one of the three, else the    *)
(* source's, else "warning".  No answer, a refused call (breaker, cost     *)
(* cap) and any other value that can be looked up are alike:               *)
(* "unrecognized".                                                         *)
ClassifiedAs(answer, suggested) ==
  IF answer \in ValidSeverity THEN answer
  ELSE IF suggested \in ValidSeverity THEN suggested ELSE "warning"

Classify(r, answer) ==
  /\ runs[r].pc = "classify"
  /\ runs' = [runs EXCEPT ![r] =
                [@ EXCEPT !.pc = "select", !.sev = ClassifiedAs(answer, runs[r].sev)]]
  /\ UNCHANGED <<rows, faults, owed, known>>

(* dedup, first statement of the upsert. *)
SelectPrev(r) ==
  /\ runs[r].pc = "select"
  /\ runs' = [runs EXCEPT ![r] =
                [@ EXCEPT !.pc = "insert", !.prev = LastSeen(runs[r].key)]]
  /\ UNCHANGED <<rows, faults, owed, known>>

(* dedup, second statement, and the suppression computed from both: the    *)
(* gap is taken from the row the SELECT read, which has aged meanwhile.    *)
Found(k) ==
  IF ~Present(k) THEN "nothing"
  ELSE IF rows[k].age < Window THEN "recent" ELSE "old"

Upserted(run) ==
  [run EXCEPT !.pc = "decide",
              !.supp = Suppressed(run.prev),
              !.snap = UpsertedStatus(rows[run.key].status),
              !.prev = NoPrev,
              !.found = Found(run.key)]

Overtaken(run, k) ==
  IF run.pc = "insert" /\ run.key = k THEN [run EXCEPT !.raced = TRUE] ELSE run

InsertRow(r) ==
  LET k == runs[r].key IN
  /\ runs[r].pc = "insert"
  /\ Upsert(k)
  /\ runs' = [q \in Runs |->
                IF q = r THEN Upserted(runs[r]) ELSE Overtaken(runs[q], k)]
  /\ known' = [known EXCEPT ![k] = @ /\ Present(k)]
  /\ UNCHANGED <<faults, owed>>

(* decide, and the route to notify or to the end. *)
Decide(r) ==
  /\ runs[r].pc = "decide"
  /\ runs' = [runs EXCEPT ![r] =
                Moved(@, IF Alerts(@) THEN "publish" ELSE "suppressed")]
  /\ UNCHANGED <<rows, faults, owed, known>>

(* notify: the broker confirmed the page. *)
Deliver(r) ==
  LET k == runs[r].key IN
  /\ runs[r].pc = "publish"
  /\ runs' = [runs EXCEPT ![r] = Moved(@, AfterDelivery(@))]
  /\ owed' = [owed EXCEPT ![k] = "no"]
  /\ known' = [known EXCEPT ![k] = Present(k)]
  /\ UNCHANGED <<rows, faults>>

(* notify: publish raised.  The broker may still have taken the page and   *)
(* lost the confirmation (reached): the node cannot tell.                  *)
PublishFails(r, reached) ==
  LET k == runs[r].key
      n == Failures(runs[r])
  IN
  /\ runs[r].pc = "publish"
  /\ runs' = [runs EXCEPT ![r] = Moved([@ EXCEPT !.tries = n], AfterFailure(n))]
  /\ known' = [known EXCEPT ![k] = @ \/ (reached /\ Present(k))]
  /\ UNCHANGED <<rows, faults, owed>>

(* A run that has delivered a page for k is about to clear its flag. *)
Clearing(k) == \E q \in Runs : runs[q].pc = "clear" /\ runs[q].key = k

(* notify: every attempt failed, and the page is owed from now on. *)
MarkFailed(r) ==
  LET k == runs[r].key IN
  /\ runs[r].pc = "mark"
  /\ MarkAlertFailed(k)
  /\ runs' = [runs EXCEPT ![r] = Moved(@, "failed")]
  /\ owed' = [owed EXCEPT ![k] =
                IF ~Present(k) THEN "no"
                ELSE IF Clearing(k) THEN "raced" ELSE "yes"]
  /\ UNCHANGED <<faults, known>>

ClearFailed(r) ==
  /\ runs[r].pc = "clear"
  /\ ClearAlertFailed(runs[r].key)
  /\ runs' = [runs EXCEPT ![r] = Moved(@, "alerted")]
  /\ UNCHANGED <<faults, owed, known>>

(* An answer of the model that ends the run.  The severity is looked up    *)
(* outside the try of classify: one that is a list or an object raises     *)
(* there.  The hypothesis goes into the row as it came: one with a NUL is  *)
(* refused by the INSERT.  Neither is a fault; the model may do it again   *)
(* with every call, and nothing in the graph or in the sweep catches it.   *)
AnswerRaises(r) ==
  /\ runs[r].pc \in {"classify", "insert"}
  /\ runs' = [runs EXCEPT ![r] = IdleRun]
  /\ UNCHANGED <<rows, faults, owed, known>>

-----------------------------------------------------------------------------
(* A statement raises: nothing in the graph or in the sweep catches it, so *)
(* the run is gone.  In "decide" the INSERT has committed and its answer   *)
(* is what was lost.                                                       *)
StoreFails(r) ==
  /\ faults < MaxFaults
  /\ runs[r].pc \in {"select", "insert", "decide", "clear", "mark"}
  /\ runs' = [runs EXCEPT ![r] = IdleRun]
  /\ faults' = faults + 1
  /\ UNCHANGED <<rows, owed, known>>

(* The process dies and restarts: the table survives, the runs do not. *)
Crash ==
  /\ faults < MaxFaults
  /\ runs' = [r \in Runs |-> IdleRun]
  /\ faults' = faults + 1
  /\ UNCHANGED <<rows, owed, known>>

Resolve(k) ==
  /\ ResolveRow(k)
  /\ owed' = [owed EXCEPT ![k] = "no"]
  /\ known' = [known EXCEPT ![k] = TRUE]
  /\ UNCHANGED <<runs, faults>>

Prune ==
  /\ PruneRows
  /\ UNCHANGED <<runs, faults, owed, known>>

(* Timing: a run lasts seconds (a few publish attempts with short pauses),  *)
(* the retention is days.  So the row a run has upserted does not outlive  *)
(* its retention before the run ends.                                      *)
InFlight(r) == runs[r].pc \in {"decide", "publish", "clear", "mark"}

RunsAreShort ==
  Retention > 0 =>
    \A r \in Runs : InFlight(r) => rows[runs[r].key].age < Retention

Aged(prev) == IF prev = NoPrev THEN prev ELSE Older(prev)

Tick ==
  /\ RunsAreShort
  /\ AgeRows
  /\ runs' = [r \in Runs |->
                [runs[r] EXCEPT !.prev = Aged(runs[r].prev)]]
  /\ UNCHANGED <<faults, owed, known>>

-----------------------------------------------------------------------------
RunStep(r) ==
  \/ \E answer \in Severity : Classify(r, answer)
  \/ AnswerRaises(r)
  \/ SelectPrev(r)
  \/ InsertRow(r)
  \/ Decide(r)
  \/ Deliver(r)
  \/ \E reached \in BOOLEAN : PublishFails(r, reached)
  \/ MarkFailed(r)
  \/ ClearFailed(r)

Next ==
  \/ \E r \in Runs, k \in Keys, s \in Severity : Ingest(r, k, s)
  \/ \E r \in Runs : RunStep(r)
  \/ \E r \in Runs : StoreFails(r)
  \/ Crash
  \/ \E k \in Keys : Resolve(k)
  \/ Prune
  \/ Tick

Spec == Init /\ [][Next]_vars

-----------------------------------------------------------------------------
(* PROPERTIES *)

(* A run that ends in "suppress" (decide, after dedup) was right to: the    *)
(* same problem had been recorded less than a window before its own upsert *)
(* committed, whatever other runs, an operator or the prune did between    *)
(* the two statements of that upsert.  So the run that creates an incident *)
(* is never the suppressed one, and neither is a critical one.             *)
SuppressedOnlyIfRecent ==
  \A r \in Runs : runs[r].pc = "suppressed" =>
    /\ runs[r].found = "recent"
    /\ runs[r].sev # "critical"

(* A run that pages (notify) has one of the causes that decide knows: the  *)
(* severity is critical, the last page had failed, the problem was new or  *)
(* silent for a window, or another run recorded it between this run's      *)
(* SELECT and its INSERT; the last is the only way two calm runs page      *)
(* twice for one burst.  This is the rule of the code.  BR-009 wants one   *)
(* page per firing incident, so that neither a critical repeat nor one     *)
(* after a silent window would be a cause (docs/business-rules.md:58, 64). *)
PagesOnlyWithCause ==
  \A r \in Runs : runs[r].pc \in {"publish", "clear", "mark"} =>
    \/ runs[r].sev = "critical"
    \/ runs[r].snap = "alert_failed"
    \/ runs[r].found # "recent"
    \/ runs[r].raced

(* Once notify has given a page up and marked the incident, the mark stays  *)
(* until a later page is delivered or an operator resolves the incident:   *)
(* no upsert, no prune and no other run's clear takes it away.  Left out   *)
(* are the marks set while a run that had delivered before was about to    *)
(* clear: that run does take them away (notify).                           *)
FailedPageStaysFlagged ==
  \A k \in Keys : owed[k] = "yes" => rows[k].status = "alert_failed"

(* r is on its way to page for k, or to mark it, for the row it created. *)
Carries(r, k) ==
  /\ runs[r].key = k
  /\ runs[r].found = "nothing"
  /\ runs[r].pc \in {"decide", "publish", "mark"}

(* As long as nothing has crashed or failed, an open incident that nobody   *)
(* ever got to know of has a run at work that will page or mark it: losing  *)
(* the race for the INSERT, a resolution or a prune drops no first page.   *)
UnpagedIncidentHasCarrier ==
  \A k \in Keys :
    (faults = 0 /\ rows[k].status = "open" /\ ~known[k]) =>
      \E r \in Runs : Carries(r, k)

=============================================================================
