----------------------------- MODULE TriageProof -----------------------------
(***************************************************************************)
(* Proofs about Triage, for every set of keys and of callers, every        *)
(* window, retention, number of attempts and bound on faults that the      *)
(* assumptions allow; and the proof that it implements Alerting: the       *)
(* initial states map to initial states, and each action maps to the step  *)
(* named in its lemma, or to none.                                         *)
(***************************************************************************)
EXTENDS TriageRefinement, TLAPS

-----------------------------------------------------------------------------
(* Facts about the helpers. *)

LEMMA AttemptsIsPositive == Attempts \in Nat /\ Attempts >= 1
  BY TriageAssumption DEF Attempts

LEMMA IdleRunIsRun == IdleRun \in Run
  BY TriageAssumption, AttemptsIsPositive, RetentionAssumption
  DEF IdleRun, Run, Resting, Outcome, Severity, Status, NoPrev

(* An age stays within the horizon, and ageing keeps the order of ages. *)
LEMMA OlderIsAge ==
  ASSUME NEW a \in 0..Horizon
  PROVE  Older(a) \in 0..Horizon
  BY RetentionAssumption DEF Older

LEMMA OlderIsMonotonic ==
  ASSUME NEW a \in 0..Horizon, NEW b \in 0..Horizon, a <= b
  PROVE  Older(a) <= Older(b)
  BY RetentionAssumption DEF Older

(* Where a run moves to, and what it keeps when it does not return. *)
LEMMA MovedIsRun ==
  ASSUME NEW run \in Run,
         NEW pc \in {"select", "insert", "decide", "publish", "clear", "mark",
                     "suppressed", "alerted", "failed"}
  PROVE  /\ Moved(run, pc) \in Run
         /\ Moved(run, pc).pc = pc
         /\ pc \notin {"alerted", "failed"} =>
              /\ Moved(run, pc).key = run.key
              /\ Moved(run, pc).sev = run.sev
              /\ Moved(run, pc).supp = run.supp
              /\ Moved(run, pc).snap = run.snap
              /\ Moved(run, pc).found = run.found
              /\ Moved(run, pc).raced = run.raced
  BY IdleRunIsRun DEF Moved, Run, Resting, Outcome

-----------------------------------------------------------------------------
(* The inductive invariant, in the parts the proofs build on one another.  *)

(* A run at work has a key, and counts the failures of its page only.      *)
RunOK(run) ==
  /\ run.pc \notin Resting => run.key \in Keys
  /\ run.pc \in {"classify", "select", "insert", "decide"} => run.tries = 0
  /\ run.pc = "publish" => run.tries < Attempts

Keyed == \A r \in Runs : RunOK(runs[r])

(* What a run remembers of the SELECT is no younger than the row; the row  *)
(* is only gone if it was past its retention; and if nobody upserted the   *)
(* key since, it is still what the row shows.                              *)
ReadOK(r) ==
  LET k == runs[r].key
      prev == runs[r].prev
  IN runs[r].pc = "insert" =>
       /\ (prev # NoPrev /\ Present(k)) => prev >= rows[k].age
       /\ (prev # NoPrev /\ ~Present(k)) => Retention > 0 /\ prev > Retention
       /\ (~runs[r].raced /\ Present(k)) => prev = rows[k].age

ReadInv == \A r \in Runs : ReadOK(r)

PastInsert == {"decide", "suppressed", "publish", "clear", "mark"}

(* What dedup concluded fits what the upsert found. *)
DecisionOK(run) ==
  /\ run.pc \in PastInsert =>
       /\ run.supp => run.found = "recent"
       /\ ~run.supp => run.found # "recent" \/ run.raced
  /\ run.pc = "suppressed" => run.supp /\ run.sev # "critical"
  /\ run.pc \in {"publish", "clear", "mark"} => Alerts(run)

DecisionInv == \A r \in Runs : DecisionOK(runs[r])

(* A page that is owed is flagged, and nobody is about to clear the flag.  *)
OwedInv ==
  \A k \in Keys : owed[k] = "yes" => rows[k].status = "alert_failed" /\ ~Clearing(k)

(* The row a run has upserted outlives the run. *)
FlightInv ==
  \A r \in Runs : InFlight(r) =>
    /\ Present(runs[r].key)
    /\ Retention > 0 => rows[runs[r].key].age <= Retention

(* A resolved incident is known of, and so is one whose flag is about to   *)
(* be cleared.                                                             *)
KnownInv ==
  \A k \in Keys : (rows[k].status = "resolved" \/ Clearing(k)) => known[k]

IInv == Keyed /\ ReadInv /\ DecisionInv /\ OwedInv /\ FlightInv /\ KnownInv

-----------------------------------------------------------------------------
(* Types: every variable stays within its type, and a run that touches the *)
(* table does so for a key.                                                *)

LEMMA ReplaceRun ==
  ASSUME runs \in [Runs -> Run], Keyed,
         NEW r \in Runs, NEW new \in Run, RunOK(new),
         runs' = [runs EXCEPT ![r] = new]
  PROVE  runs' \in [Runs -> Run] /\ Keyed'
  BY DEF Keyed

LEMMA RunStepTypes ==
  ASSUME TypeOK, Keyed, NEW r \in Runs, RunStep(r)
  PROVE  TypeOK' /\ Keyed'
<1> DEFINE run == runs[r]
           k == runs[r].key
<1> USE DEF TypeOK, StoreTypeOK
<1>0. run \in Run /\ RunOK(run)
  BY DEF Keyed
<1>1. ASSUME NEW answer \in Severity, Classify(r, answer)
      PROVE  TypeOK' /\ Keyed'
  <2> DEFINE new == [run EXCEPT !.pc = "select", !.sev = ClassifiedAs(answer, run.sev)]
  <2>1. ClassifiedAs(answer, run.sev) \in Severity
    BY TriageAssumption DEF ClassifiedAs, Severity
  <2>2. new \in Run /\ RunOK(new)
    BY <1>0, <1>1, <2>1 DEF Classify, Run, RunOK, Resting, Outcome
  <2>3. runs' = [runs EXCEPT ![r] = new]
    BY <1>1 DEF Classify
  <2> QED
    BY <1>1, <2>2, <2>3, ReplaceRun DEF Classify
<1>2. ASSUME SelectPrev(r)
      PROVE  TypeOK' /\ Keyed'
  <2> DEFINE new == [run EXCEPT !.pc = "insert", !.prev = LastSeen(k)]
  <2>1. k \in Keys
    BY <1>0, <1>2 DEF SelectPrev, RunOK, Resting, Outcome
  <2>2. LastSeen(k) \in (0..Horizon) \cup {NoPrev}
    BY <2>1 DEF LastSeen, Row
  <2>3. new \in Run /\ RunOK(new)
    BY <1>0, <1>2, <2>1, <2>2 DEF SelectPrev, Run, RunOK, Resting, Outcome
  <2>4. runs' = [runs EXCEPT ![r] = new]
    BY <1>2 DEF SelectPrev
  <2> QED
    BY <1>2, <2>3, <2>4, ReplaceRun DEF SelectPrev
<1>3. ASSUME InsertRow(r)
      PROVE  TypeOK' /\ Keyed'
  <2>1. k \in Keys /\ run.pc = "insert"
    BY <1>0, <1>3 DEF InsertRow, RunOK, Resting, Outcome
  <2>2. rows' \in [Keys -> Row]
    BY <1>3, <2>1, RetentionAssumption
    DEF InsertRow, Upsert, UpsertedStatus, Row, Status
  <2>3. Suppressed(run.prev) \in BOOLEAN
    BY <1>0 DEF Suppressed
  <2>4. UpsertedStatus(rows[k].status) \in Status
    BY <2>1 DEF UpsertedStatus, Row, Status
  <2>5. Found(k) \in {"nothing", "old", "recent"}
    BY DEF Found
  <2>6. Upserted(run) \in Run /\ RunOK(Upserted(run))
    BY <1>0, <2>1, <2>3, <2>4, <2>5 DEF Upserted, Run, RunOK, Resting, Outcome
  <2>7. ASSUME NEW q \in Runs
        PROVE  Overtaken(runs[q], k) \in Run /\ RunOK(Overtaken(runs[q], k))
    BY DEF Overtaken, Run, Keyed, RunOK
  <2>8. ASSUME NEW q \in Runs
        PROVE  runs'[q] \in Run /\ RunOK(runs'[q])
    BY <1>3, <2>6, <2>7 DEF InsertRow
  <2>9. runs' \in [Runs -> Run] /\ Keyed'
    BY <1>3, <2>8 DEF InsertRow, Keyed, RunOK
  <2> QED
    BY <1>3, <2>1, <2>2, <2>9 DEF InsertRow, Present
<1>4. ASSUME Decide(r)
      PROVE  TypeOK' /\ Keyed'
  <2> DEFINE new == Moved(run, IF Alerts(run) THEN "publish" ELSE "suppressed")
  <2>1. new \in Run /\ RunOK(new)
    BY <1>0, <1>4, AttemptsIsPositive
    DEF Decide, Moved, Run, RunOK, Resting, Outcome
  <2>2. runs' = [runs EXCEPT ![r] = new]
    BY <1>4 DEF Decide
  <2> QED
    BY <1>4, <2>1, <2>2, ReplaceRun DEF Decide
<1>5. ASSUME Deliver(r)
      PROVE  TypeOK' /\ Keyed'
  <2> DEFINE new == Moved(run, AfterDelivery(run))
  <2>1. new \in Run /\ RunOK(new)
    BY <1>0, <1>5, IdleRunIsRun
    DEF Deliver, Moved, AfterDelivery, Run, RunOK, IdleRun, Resting, Outcome
  <2>2. runs' = [runs EXCEPT ![r] = new]
    BY <1>5 DEF Deliver
  <2> QED
    BY <1>5, <2>1, <2>2, ReplaceRun DEF Deliver, Owed, Present
<1>6. ASSUME NEW reached \in BOOLEAN, PublishFails(r, reached)
      PROVE  TypeOK' /\ Keyed'
  <2> DEFINE n == Failures(run)
             counted == [run EXCEPT !.tries = n]
             new == Moved(counted, AfterFailure(n))
  <2>1. run.pc = "publish" /\ n \in 0..Attempts /\ k \in Keys
    BY <1>0, <1>6, AttemptsIsPositive
    DEF PublishFails, Failures, Run, RunOK, Resting, Outcome
  <2>2. counted \in Run /\ counted.tries = n /\ counted.key = k
    BY <1>0, <2>1 DEF Run
  <2>3. new = [counted EXCEPT !.pc = AfterFailure(n)]
    BY DEF Moved, AfterFailure
  <2>4. new \in Run /\ RunOK(new)
    BY <2>1, <2>2, <2>3, AttemptsIsPositive
    DEF AfterFailure, Run, RunOK, Resting, Outcome
  <2>5. runs' = [runs EXCEPT ![r] = new]
    BY <1>6 DEF PublishFails
  <2> QED
    BY <1>6, <2>4, <2>5, ReplaceRun DEF PublishFails, Present
<1>7. ASSUME MarkFailed(r)
      PROVE  TypeOK' /\ Keyed'
  <2> DEFINE new == Moved(run, "failed")
  <2>1. new \in Run /\ RunOK(new)
    BY <1>0, IdleRunIsRun DEF Moved, Run, RunOK, IdleRun, Resting, Outcome
  <2>2. runs' = [runs EXCEPT ![r] = new]
    BY <1>7 DEF MarkFailed
  <2>3. rows' \in [Keys -> Row]
    BY <1>7 DEF MarkFailed, MarkAlertFailed, MarkedStatus, Row, Status
  <2>4. owed' \in [Keys -> Owed]
    BY <1>7 DEF MarkFailed, Owed
  <2> QED
    BY <1>7, <2>1, <2>2, <2>3, <2>4, ReplaceRun DEF MarkFailed
<1>8. ASSUME ClearFailed(r)
      PROVE  TypeOK' /\ Keyed'
  <2> DEFINE new == Moved(run, "alerted")
  <2>1. new \in Run /\ RunOK(new)
    BY <1>0, IdleRunIsRun DEF Moved, Run, RunOK, IdleRun, Resting, Outcome
  <2>2. runs' = [runs EXCEPT ![r] = new]
    BY <1>8 DEF ClearFailed
  <2>3. rows' \in [Keys -> Row]
    BY <1>8 DEF ClearFailed, ClearAlertFailed, ClearedStatus, Row, Status
  <2> QED
    BY <1>8, <2>1, <2>2, <2>3, ReplaceRun DEF ClearFailed
<1>9. ASSUME AnswerRaises(r)
      PROVE  TypeOK' /\ Keyed'
  <2>1. IdleRun \in Run /\ RunOK(IdleRun)
    BY IdleRunIsRun DEF RunOK, IdleRun, Resting, Outcome
  <2> QED
    BY <1>9, <2>1, ReplaceRun DEF AnswerRaises
<1> QED
  BY <1>1, <1>2, <1>3, <1>4, <1>5, <1>6, <1>7, <1>8, <1>9 DEF RunStep

LEMMA TypeStep ==
  ASSUME TypeOK, Keyed, [Next]_vars
  PROVE  TypeOK' /\ Keyed'
<1> USE DEF TypeOK, StoreTypeOK
<1>0. IdleRun \in Run /\ RunOK(IdleRun)
  BY IdleRunIsRun DEF RunOK, IdleRun, Resting, Outcome
<1>1. ASSUME NEW r \in Runs, NEW k \in Keys, NEW s \in Severity, Ingest(r, k, s)
      PROVE  TypeOK' /\ Keyed'
  <2> DEFINE new == [IdleRun EXCEPT !.pc = "classify", !.key = k, !.sev = s]
  <2>1. new \in Run /\ RunOK(new)
    BY <1>0 DEF IdleRun, Run, RunOK, Resting, Outcome
  <2>2. runs' = [runs EXCEPT ![r] = new]
    BY <1>1 DEF Ingest
  <2> QED
    BY <1>1, <2>1, <2>2, ReplaceRun DEF Ingest
<1>2. ASSUME NEW r \in Runs, RunStep(r)
      PROVE  TypeOK' /\ Keyed'
  BY <1>2, RunStepTypes
<1>3. ASSUME NEW r \in Runs, StoreFails(r)
      PROVE  TypeOK' /\ Keyed'
  <2>1. runs' \in [Runs -> Run] /\ Keyed'
    BY <1>0, <1>3, ReplaceRun DEF StoreFails
  <2>2. faults' \in 0..MaxFaults
    BY <1>3, TriageAssumption DEF StoreFails
  <2> QED
    BY <1>3, <2>1, <2>2 DEF StoreFails
<1>4. CASE Crash
  BY <1>0, <1>4, TriageAssumption DEF Crash, Keyed, RunOK
<1>5. ASSUME NEW k \in Keys, Resolve(k)
      PROVE  TypeOK' /\ Keyed'
  BY <1>5 DEF Resolve, ResolveRow, Row, Status, Owed, Keyed, RunOK
<1>6. CASE Prune
  BY <1>6, RetentionAssumption
  DEF Prune, PruneRows, NoRow, Row, Status, Keyed, RunOK
<1>7. CASE Tick
  <2>1. rows' \in [Keys -> Row]
    BY <1>7, OlderIsAge, RetentionAssumption
    DEF Tick, AgeRows, NoRow, Row, Status
  <2>4. ASSUME NEW q \in Runs
        PROVE  Aged(runs[q].prev) \in (0..Horizon) \cup {NoPrev}
    BY OlderIsAge DEF Aged, Run
  <2>5. ASSUME NEW q \in Runs
        PROVE  [runs[q] EXCEPT !.prev = Aged(runs[q].prev)] \in Run
    BY <2>4 DEF Run
  <2>2. runs' \in [Runs -> Run]
    BY <1>7, <2>5 DEF Tick
  <2>3. Keyed'
    BY <1>7 DEF Tick, Keyed, RunOK, Run
  <2> QED
    BY <1>7, <2>1, <2>2, <2>3 DEF Tick
<1>8. CASE UNCHANGED vars
  BY <1>8 DEF vars, Keyed, RunOK
<1> QED
  BY <1>1, <1>2, <1>3, <1>4, <1>5, <1>6, <1>7, <1>8 DEF Next

LEMMA InitTypes == Init => TypeOK /\ Keyed
<1>1. IdleRun \in Run /\ RunOK(IdleRun)
  BY IdleRunIsRun DEF RunOK, IdleRun, Resting, Outcome
<1>2. Init => StoreTypeOK /\ runs \in [Runs -> Run] /\ Keyed
  BY <1>1, RetentionAssumption
  DEF Init, Keyed, StoreInit, StoreTypeOK, NoRow, Row, Status
<1> QED
  BY <1>2, TriageAssumption DEF Init, TypeOK, Owed

(* The type invariant of Triage, for every value of the constants.         *)
THEOREM TypeCorrect == Spec => [](TypeOK /\ Keyed)
  BY InitTypes, TypeStep, PTL DEF Spec

-----------------------------------------------------------------------------
(* What the SELECT read. *)

(* The status updates leave the presence and the age of every row alone.   *)
LEMMA StatusUpdates ==
  ASSUME TypeOK, NEW key \in Keys, NEW k \in Keys,
         MarkAlertFailed(key) \/ ClearAlertFailed(key) \/ ResolveRow(key)
  PROVE  (Present(k)' <=> Present(k)) /\ rows'[k].age = rows[k].age
<1> USE DEF TypeOK, StoreTypeOK, Present, Row, Status
<1>1. CASE MarkAlertFailed(key)
  BY <1>1 DEF MarkAlertFailed, MarkedStatus
<1>2. CASE ClearAlertFailed(key)
  BY <1>2 DEF ClearAlertFailed, ClearedStatus
<1>3. CASE ResolveRow(key)
  BY <1>3 DEF ResolveRow
<1> QED
  BY <1>1, <1>2, <1>3

LEMMA ReadStep ==
  ASSUME TypeOK, Keyed, Keyed', ReadInv, [Next]_vars
  PROVE  ReadInv'
<1> SUFFICES ASSUME NEW q \in Runs, runs'[q].pc = "insert"
             PROVE  ReadOK(q)'
  BY DEF ReadInv, ReadOK
<1> USE DEF TypeOK, StoreTypeOK
<1>0. ReadOK(q) /\ runs'[q].key \in Keys /\ runs[q] \in Run
  BY DEF ReadInv, Keyed, RunOK, Resting, Outcome
<1>1. ASSUME runs'[q] = runs[q], UNCHANGED rows
      PROVE  ReadOK(q)'
  BY <1>0, <1>1 DEF ReadOK, Present
<1>2. ASSUME NEW r \in Runs, NEW k \in Keys, NEW s \in Severity, Ingest(r, k, s)
      PROVE  ReadOK(q)'
  BY <1>1, <1>2 DEF Ingest, IdleRun
<1>3. ASSUME NEW r \in Runs, NEW answer \in Severity, Classify(r, answer)
      PROVE  ReadOK(q)'
  BY <1>1, <1>3 DEF Classify, Run
<1>4. ASSUME NEW r \in Runs, SelectPrev(r)
      PROVE  ReadOK(q)'
  <2>1. CASE q = r
    <3>1. runs'[q].prev = LastSeen(runs'[q].key) /\ rows' = rows
      BY <1>4, <2>1 DEF SelectPrev, Run
    <3> QED
      BY <1>0, <3>1 DEF ReadOK, LastSeen, Present, Row, NoPrev
  <2>2. CASE q # r
    BY <1>1, <1>4, <2>2 DEF SelectPrev
  <2> QED
    BY <2>1, <2>2
<1>5. ASSUME NEW r \in Runs, InsertRow(r)
      PROVE  ReadOK(q)'
  <2> DEFINE k == runs[r].key
  <2>1. q # r /\ runs'[q] = Overtaken(runs[q], k)
    BY <1>5 DEF InsertRow, Upserted, Run
  <2>2. CASE runs[q].pc = "insert" /\ runs[q].key = k
    <3>1. runs'[q] = [runs[q] EXCEPT !.raced = TRUE]
      BY <2>1, <2>2 DEF Overtaken
    <3>2. runs'[q].raced /\ runs'[q].key = k /\ runs'[q].prev = runs[q].prev
      BY <1>0, <2>2, <3>1 DEF Run
    <3>3. rows'[k].age = 0 /\ rows'[k].status # "absent" /\ k \in Keys
      BY <1>0, <1>5, <3>2 DEF InsertRow, Upsert, UpsertedStatus
    <3>4. runs[q].prev \in (0..Horizon) \cup {NoPrev}
      BY <1>0 DEF Run
    <3> QED
      BY <3>2, <3>3, <3>4 DEF ReadOK, Present, NoPrev
  <2>3. CASE ~(runs[q].pc = "insert" /\ runs[q].key = k)
    <3>1. runs'[q] = runs[q]
      BY <2>1, <2>3 DEF Overtaken
    <3>2. runs[q].key # k /\ rows'[runs[q].key] = rows[runs[q].key]
      BY <1>0, <1>5, <2>3, <3>1 DEF InsertRow, Upsert
    <3> QED
      BY <1>0, <3>1, <3>2 DEF ReadOK, Present
  <2> QED
    BY <2>2, <2>3
<1>6. ASSUME NEW r \in Runs, Decide(r)
      PROVE  ReadOK(q)'
  BY <1>1, <1>6 DEF Decide, Moved, Run
<1>7. ASSUME NEW r \in Runs, Deliver(r)
      PROVE  ReadOK(q)'
  BY <1>1, <1>7, MovedIsRun DEF Deliver, AfterDelivery
<1>8. ASSUME NEW r \in Runs, NEW reached \in BOOLEAN, PublishFails(r, reached)
      PROVE  ReadOK(q)'
  BY <1>1, <1>8 DEF PublishFails, Moved, AfterFailure, Run
<1>9. ASSUME NEW r \in Runs, MarkFailed(r) \/ ClearFailed(r)
      PROVE  ReadOK(q)'
  <2>1. q # r /\ runs'[q] = runs[q]
    BY <1>9, MovedIsRun DEF MarkFailed, ClearFailed
  <2>2. runs[r].key \in Keys
    BY <1>9 DEF MarkFailed, ClearFailed, Keyed, RunOK, Resting, Outcome
  <2>3. MarkAlertFailed(runs[r].key) \/ ClearAlertFailed(runs[r].key)
    BY <1>9 DEF MarkFailed, ClearFailed
  <2>4. /\ Present(runs[q].key)' <=> Present(runs[q].key)
        /\ rows'[runs[q].key].age = rows[runs[q].key].age
    BY <1>0, <2>1, <2>2, <2>3, StatusUpdates
  <2> QED
    BY <1>0, <2>1, <2>4 DEF ReadOK, Present
<1>10. ASSUME NEW r \in Runs, StoreFails(r) \/ AnswerRaises(r)
       PROVE  ReadOK(q)'
  BY <1>1, <1>10 DEF StoreFails, AnswerRaises, IdleRun
<1>11. CASE Crash
  BY <1>11 DEF Crash, IdleRun
<1>12. ASSUME NEW k \in Keys, Resolve(k)
       PROVE  ReadOK(q)'
  <2>1. runs'[q] = runs[q]
    BY <1>12 DEF Resolve
  <2>2. /\ Present(runs[q].key)' <=> Present(runs[q].key)
        /\ rows'[runs[q].key].age = rows[runs[q].key].age
    BY <1>0, <1>12, <2>1, StatusUpdates DEF Resolve
  <2> QED
    BY <1>0, <2>1, <2>2 DEF ReadOK, Present
<1>13. CASE Prune
  <2> DEFINE k == runs[q].key
  <2>1. runs'[q] = runs[q] /\ k \in Keys
    BY <1>0, <1>13 DEF Prune
  <2>2. CASE Prunable(k)
    <3>1. ~Present(k)' /\ Present(k) /\ rows[k].age > Retention /\ Retention > 0
      BY <1>13, <2>1, <2>2 DEF Prune, PruneRows, Prunable, NoRow, Present
    <3>2. rows[k].age \in 0..Horizon /\ runs[q].prev \in (0..Horizon) \cup {NoPrev}
      BY <1>0, <2>1 DEF Row, Run
    <3> QED
      BY <1>0, <2>1, <3>1, <3>2, RetentionAssumption DEF ReadOK, NoPrev
  <2>3. CASE ~Prunable(k)
    <3>1. rows'[k] = rows[k]
      BY <1>13, <2>1, <2>3 DEF Prune, PruneRows
    <3> QED
      BY <1>0, <2>1, <3>1 DEF ReadOK, Present
  <2> QED
    BY <2>2, <2>3
<1>14. CASE Tick
  <2> DEFINE k == runs[q].key
             prev == runs[q].prev
  <2>1. /\ runs'[q].pc = runs[q].pc /\ runs'[q].key = k
        /\ runs'[q].raced = runs[q].raced /\ runs'[q].prev = Aged(prev)
    BY <1>0, <1>14 DEF Tick, Run
  <2>2. k \in Keys /\ prev \in (0..Horizon) \cup {NoPrev}
    BY <1>0, <2>1 DEF Run
  <2>3. CASE Present(k)
    <3>1. rows'[k].status # "absent" /\ rows'[k].age = Older(rows[k].age)
      BY <1>14, <2>2, <2>3 DEF Tick, AgeRows, Present, Row
    <3>2. rows[k].age \in 0..Horizon
      BY <2>2 DEF Row
    <3>3. prev = NoPrev => Aged(prev) = NoPrev
      BY DEF Aged
    <3>4. prev # NoPrev => Aged(prev) = Older(prev)
      BY DEF Aged
    <3>5. (prev # NoPrev /\ prev >= rows[k].age) => Aged(prev) >= rows'[k].age
      BY <2>2, <3>1, <3>2, <3>4, OlderIsMonotonic, OlderIsAge
    <3>6. prev = rows[k].age => Aged(prev) = rows'[k].age
      BY <3>1, <3>2, <3>4 DEF NoPrev
    <3>8. runs[q].pc = "insert" /\ rows[k].status # "absent"
      BY <2>1, <2>3 DEF Present
    <3>9. /\ prev # NoPrev => prev >= rows[k].age
          /\ ~runs[q].raced => prev = rows[k].age
      BY <1>0, <2>3, <3>8 DEF ReadOK
    <3>10. /\ Aged(prev) # NoPrev => Aged(prev) >= rows'[k].age
           /\ ~runs[q].raced => Aged(prev) = rows'[k].age
      BY <3>3, <3>5, <3>6, <3>9
    <3> QED
      BY <2>1, <3>1, <3>10 DEF ReadOK, Present
  <2>4. CASE ~Present(k)
    <3>1. ~Present(k)'
      BY <1>14, <2>1, <2>2, <2>4 DEF Tick, AgeRows, Present, NoRow
    <3>2. prev # NoPrev => Aged(prev) >= prev /\ Aged(prev) \in Nat /\ prev \in Nat
      BY <2>2, RetentionAssumption DEF Aged, Older
    <3>3. Aged(prev) # NoPrev => prev # NoPrev
      BY DEF Aged
    <3> QED
      BY <1>0, <2>1, <2>4, <3>1, <3>2, <3>3, RetentionAssumption DEF ReadOK
  <2> QED
    BY <2>3, <2>4
<1>15. CASE UNCHANGED vars
  BY <1>1, <1>15 DEF vars
<1> QED
  BY <1>2, <1>3, <1>4, <1>5, <1>6, <1>7, <1>8, <1>9, <1>10, <1>11, <1>12,
     <1>13, <1>14, <1>15 DEF Next, RunStep

-----------------------------------------------------------------------------
(* What dedup and decide concluded. *)

(* Both directions of the suppression, from what the SELECT read.          *)
LEMMA UpsertDecides ==
  ASSUME TypeOK, Keyed, NEW r \in Runs, ReadOK(r), runs[r].pc = "insert"
  PROVE  /\ Suppressed(runs[r].prev) => Found(runs[r].key) = "recent"
         /\ ~Suppressed(runs[r].prev) =>
              Found(runs[r].key) # "recent" \/ runs[r].raced
<1> DEFINE k == runs[r].key
           prev == runs[r].prev
<1>1. k \in Keys /\ prev \in (0..Horizon) \cup {NoPrev} /\ rows[k].age \in 0..Horizon
  BY DEF TypeOK, StoreTypeOK, Keyed, RunOK, Resting, Outcome, Run, Row
<1>2. CASE Present(k)
  BY <1>1, <1>2, TriageAssumption, RetentionAssumption
  DEF ReadOK, Suppressed, Found, NoPrev
<1>3. CASE ~Present(k)
  BY <1>1, <1>3, TriageAssumption, RetentionAssumption, WindowAssumption
  DEF ReadOK, Suppressed, Found, NoPrev
<1> QED
  BY <1>2, <1>3

LEMMA ReplaceDecided ==
  ASSUME runs \in [Runs -> Run], DecisionInv,
         NEW r \in Runs, NEW new, DecisionOK(new),
         runs' = [runs EXCEPT ![r] = new]
  PROVE  DecisionInv'
<1>1. ASSUME NEW q \in Runs
      PROVE  DecisionOK(runs'[q])
  BY DEF DecisionInv
<1> QED
  BY <1>1 DEF DecisionInv, DecisionOK, Alerts

LEMMA DecisionStep ==
  ASSUME TypeOK, Keyed, ReadInv, DecisionInv, [Next]_vars
  PROVE  DecisionInv'
<1> USE DEF TypeOK, StoreTypeOK
<1>0. DecisionOK(IdleRun)
  BY DEF DecisionOK, IdleRun, PastInsert
<1>1. ASSUME NEW r \in Runs, NEW k \in Keys, NEW s \in Severity, Ingest(r, k, s)
      PROVE  DecisionInv'
  <2> DEFINE new == [IdleRun EXCEPT !.pc = "classify", !.key = k, !.sev = s]
  <2>1. DecisionOK(new)
    BY DEF DecisionOK, IdleRun, PastInsert
  <2> QED
    BY <1>1, <2>1, ReplaceDecided DEF Ingest
<1>2. ASSUME NEW r \in Runs, NEW answer \in Severity, Classify(r, answer)
      PROVE  DecisionInv'
  <2> DEFINE new == [runs[r] EXCEPT !.pc = "select", !.sev = ClassifiedAs(answer, runs[r].sev)]
  <2>1. new.pc = "select"
    BY DEF Run
  <2>2. DecisionOK(new)
    BY <2>1 DEF DecisionOK, PastInsert
  <2>3. runs' = [runs EXCEPT ![r] = new]
    BY <1>2 DEF Classify
  <2> QED
    BY <2>2, <2>3, ReplaceDecided
<1>3. ASSUME NEW r \in Runs, SelectPrev(r)
      PROVE  DecisionInv'
  <2> DEFINE new == [runs[r] EXCEPT !.pc = "insert", !.prev = LastSeen(runs[r].key)]
  <2>1. new.pc = "insert"
    BY DEF Run
  <2>2. DecisionOK(new)
    BY <2>1 DEF DecisionOK, PastInsert
  <2>3. runs' = [runs EXCEPT ![r] = new]
    BY <1>3 DEF SelectPrev
  <2> QED
    BY <2>2, <2>3, ReplaceDecided
<1>4. ASSUME NEW r \in Runs, InsertRow(r)
      PROVE  DecisionInv'
  <2> DEFINE new == Upserted(runs[r])
  <2>1. runs[r].pc = "insert" /\ ReadOK(r)
    BY <1>4 DEF InsertRow, ReadInv
  <2>2. /\ new.pc = "decide" /\ new.raced = runs[r].raced
        /\ new.supp = Suppressed(runs[r].prev)
        /\ new.found = Found(runs[r].key)
    BY DEF Upserted, Run
  <2>3. DecisionOK(new)
    BY <2>1, <2>2, UpsertDecides DEF DecisionOK, PastInsert
  <2>4. ASSUME NEW q \in Runs
        PROVE  DecisionOK(Overtaken(runs[q], runs[r].key))
    <3>1. CASE runs[q].pc = "insert"
      <4>1. Overtaken(runs[q], runs[r].key).pc = "insert"
        BY <3>1 DEF Overtaken, Run
      <4> QED
        BY <4>1 DEF DecisionOK, PastInsert
    <3>2. CASE runs[q].pc # "insert"
      BY <3>2 DEF Overtaken, DecisionInv
    <3> QED
      BY <3>1, <3>2
  <2>5. ASSUME NEW q \in Runs
        PROVE  DecisionOK(runs'[q])
    BY <1>4, <2>3, <2>4 DEF InsertRow
  <2> QED
    BY <2>5 DEF DecisionInv, DecisionOK, Alerts
<1>5. ASSUME NEW r \in Runs, Decide(r)
      PROVE  DecisionInv'
  <2> DEFINE new == Moved(runs[r], IF Alerts(runs[r]) THEN "publish" ELSE "suppressed")
  <2>1. DecisionOK(runs[r]) /\ runs[r].pc = "decide"
    BY <1>5 DEF Decide, DecisionInv
  <2>2. DecisionOK(new)
    <3>1. CASE Alerts(runs[r])
      BY <2>1, <3>1 DEF DecisionOK, Moved, Alerts, PastInsert, Run
    <3>2. CASE ~Alerts(runs[r])
      BY <2>1, <3>2 DEF DecisionOK, Moved, Alerts, PastInsert, Run
    <3> QED
      BY <3>1, <3>2
  <2>3. runs' = [runs EXCEPT ![r] = new]
    BY <1>5 DEF Decide
  <2> QED
    BY <2>2, <2>3, ReplaceDecided
<1>6. ASSUME NEW r \in Runs, Deliver(r)
      PROVE  DecisionInv'
  <2> DEFINE new == Moved(runs[r], AfterDelivery(runs[r]))
  <2>1. DecisionOK(runs[r]) /\ runs[r].pc = "publish"
    BY <1>6 DEF Deliver, DecisionInv
  <2>2. DecisionOK(new)
    BY <2>1 DEF DecisionOK, Moved, AfterDelivery, Alerts, PastInsert, IdleRun, Run
  <2>3. runs' = [runs EXCEPT ![r] = new]
    BY <1>6 DEF Deliver
  <2> QED
    BY <2>2, <2>3, ReplaceDecided
<1>7. ASSUME NEW r \in Runs, NEW reached \in BOOLEAN, PublishFails(r, reached)
      PROVE  DecisionInv'
  <2> DEFINE n == Failures(runs[r])
             counted == [runs[r] EXCEPT !.tries = n]
             new == Moved(counted, AfterFailure(n))
  <2>1. DecisionOK(runs[r]) /\ runs[r].pc = "publish"
    BY <1>7 DEF PublishFails, DecisionInv
  <2>2. AfterFailure(n) \in {"publish", "mark"}
    BY DEF AfterFailure
  <2>3. new = [counted EXCEPT !.pc = AfterFailure(n)]
    BY <2>2 DEF Moved
  <2>4. runs[r] \in Run
    OBVIOUS
  <2> HIDE DEF n
  <2>5. /\ new.pc = AfterFailure(n) /\ new.supp = runs[r].supp
        /\ new.found = runs[r].found /\ new.raced = runs[r].raced
        /\ new.sev = runs[r].sev /\ new.snap = runs[r].snap
    BY <2>3, <2>4 DEF Run
  <2>6. DecisionOK(new)
    BY <2>1, <2>2, <2>5 DEF DecisionOK, Alerts, PastInsert
  <2>7. runs' = [runs EXCEPT ![r] = new]
    BY <1>7 DEF PublishFails, n
  <2> QED
    BY <2>6, <2>7, ReplaceDecided
<1>8. ASSUME NEW r \in Runs, MarkFailed(r) \/ ClearFailed(r)
      PROVE  DecisionInv'
  <2>1. ASSUME NEW pc \in {"failed", "alerted"}
        PROVE  DecisionOK(Moved(runs[r], pc))
    BY DEF DecisionOK, Moved, IdleRun, PastInsert
  <2>2. CASE MarkFailed(r)
    BY <2>1, <2>2, ReplaceDecided DEF MarkFailed
  <2>3. CASE ClearFailed(r)
    BY <2>1, <2>3, ReplaceDecided DEF ClearFailed
  <2> QED
    BY <1>8, <2>2, <2>3
<1>9. ASSUME NEW r \in Runs, StoreFails(r) \/ AnswerRaises(r)
      PROVE  DecisionInv'
  BY <1>0, <1>9, ReplaceDecided DEF StoreFails, AnswerRaises
<1>10. CASE Crash
  <2>1. \A q \in Runs : runs'[q].pc = "idle"
    BY <1>10 DEF Crash, IdleRun
  <2> QED
    BY <2>1 DEF DecisionInv, DecisionOK, PastInsert
<1>11. CASE runs' = runs
  BY <1>11 DEF DecisionInv, DecisionOK, Alerts
<1>12. CASE Tick
  <2>1. ASSUME NEW q \in Runs
        PROVE  /\ runs'[q].pc = runs[q].pc /\ runs'[q].supp = runs[q].supp
               /\ runs'[q].found = runs[q].found /\ runs'[q].raced = runs[q].raced
               /\ runs'[q].sev = runs[q].sev /\ runs'[q].snap = runs[q].snap
    BY <1>12 DEF Tick, Run
  <2> QED
    BY <2>1 DEF DecisionInv, DecisionOK, Alerts, PastInsert
<1> QED
  BY <1>1, <1>2, <1>3, <1>4, <1>5, <1>6, <1>7, <1>8, <1>9, <1>10, <1>11, <1>12
  DEF Next, RunStep, Resolve, Prune, vars

LEMMA InitDecided == Init => ReadInv /\ DecisionInv
  BY DEF Init, ReadInv, ReadOK, DecisionInv, DecisionOK, PastInsert, IdleRun

LEMMA DecidedAlways ==
  Spec => [](TypeOK /\ Keyed /\ ReadInv /\ DecisionInv)
<1>1. /\ TypeOK /\ Keyed /\ ReadInv /\ DecisionInv
      /\ [Next]_vars
      => (TypeOK /\ Keyed /\ ReadInv /\ DecisionInv)'
  BY TypeStep, ReadStep, DecisionStep
<1> QED
  BY <1>1, InitTypes, InitDecided, PTL DEF Spec

(* dedup suppresses only repeats that are less than a window old, however   *)
(* the statements of the runs, the prune and the operator interleave.      *)
THEOREM SuppressionIsSound == Spec => []SuppressedOnlyIfRecent
<1>1. DecisionInv => SuppressedOnlyIfRecent
  BY DEF DecisionInv, DecisionOK, PastInsert, SuppressedOnlyIfRecent
<1> QED
  BY <1>1, DecidedAlways, PTL

(* notify is only reached for a cause, or by losing the race of the upsert. *)
THEOREM PagesHaveACause == Spec => []PagesOnlyWithCause
<1>1. DecisionInv => PagesOnlyWithCause
  BY DEF DecisionInv, DecisionOK, PastInsert, Alerts, PagesOnlyWithCause
<1> QED
  BY <1>1, DecidedAlways, PTL

-----------------------------------------------------------------------------
(* Where the runs that hold a row come from. *)

(* A run past its upsert keeps its key, got there by its own InsertRow, and *)
(* is only about to clear a flag after its own delivery.                   *)
LEMMA Trajectory ==
  ASSUME TypeOK, [Next]_vars, NEW q \in Runs, InFlight(q)'
  PROVE  /\ runs'[q].key = runs[q].key
         /\ InFlight(q) \/ InsertRow(q)
         /\ runs'[q].pc = "clear" => runs[q].pc = "clear" \/ Deliver(q)
<1> USE DEF TypeOK, InFlight
<1>0. runs[q] \in Run
  OBVIOUS
<1>1. CASE runs'[q] = runs[q]
  BY <1>1
<1>2. ASSUME NEW r \in Runs, NEW k \in Keys, NEW s \in Severity, Ingest(r, k, s)
      PROVE  runs'[q] = runs[q]
  BY <1>2 DEF Ingest, IdleRun
<1>3. ASSUME NEW r \in Runs, NEW answer \in Severity, Classify(r, answer)
      PROVE  runs'[q] = runs[q]
  BY <1>3 DEF Classify, Run
<1>4. ASSUME NEW r \in Runs, SelectPrev(r)
      PROVE  runs'[q] = runs[q]
  BY <1>4 DEF SelectPrev, Run
<1>5. ASSUME NEW r \in Runs, InsertRow(r)
      PROVE  runs'[q] = runs[q] \/ (q = r /\ runs'[q] = Upserted(runs[q]))
  BY <1>0, <1>5 DEF InsertRow, Overtaken, Run
<1>6. ASSUME NEW r \in Runs, InsertRow(r), q = r, runs'[q] = Upserted(runs[q])
      PROVE  /\ runs'[q].key = runs[q].key /\ InsertRow(q)
             /\ runs'[q].pc # "clear"
  BY <1>0, <1>6 DEF Upserted, Run
<1>7. ASSUME NEW r \in Runs, Decide(r)
      PROVE  /\ runs'[q].key = runs[q].key /\ InFlight(q)
             /\ runs'[q].pc = "clear" => runs[q].pc = "clear"
  BY <1>0, <1>7 DEF Decide, Moved, Run
<1>8. ASSUME NEW r \in Runs, Deliver(r)
      PROVE  /\ runs'[q].key = runs[q].key /\ InFlight(q)
             /\ runs'[q].pc = "clear" => runs[q].pc = "clear" \/ Deliver(q)
  BY <1>0, <1>8 DEF Deliver, Moved, AfterDelivery, IdleRun, Run
<1>9. ASSUME NEW r \in Runs, NEW reached \in BOOLEAN, PublishFails(r, reached)
      PROVE  /\ runs'[q].key = runs[q].key /\ InFlight(q)
             /\ runs'[q].pc = "clear" => runs[q].pc = "clear"
  BY <1>0, <1>9 DEF PublishFails, Moved, AfterFailure, Run
<1>10. ASSUME NEW r \in Runs, MarkFailed(r) \/ ClearFailed(r)
       PROVE  runs'[q] = runs[q]
  BY <1>10, MovedIsRun DEF MarkFailed, ClearFailed
<1>11. ASSUME NEW r \in Runs, StoreFails(r) \/ AnswerRaises(r)
       PROVE  runs'[q] = runs[q]
  BY <1>11 DEF StoreFails, AnswerRaises, IdleRun
<1>12. ~Crash
  BY DEF Crash, IdleRun
<1>13. CASE Tick
  BY <1>0, <1>13 DEF Tick, Run
<1> QED
  BY <1>1, <1>2, <1>3, <1>4, <1>5, <1>6, <1>7, <1>8, <1>9, <1>10, <1>11, <1>12,
     <1>13 DEF Next, RunStep, Resolve, Prune, vars

(* A run only comes to clear a flag by delivering a page for its key.      *)
LEMMA ClearingStep ==
  ASSUME TypeOK, [Next]_vars, NEW k \in Keys, Clearing(k)', ~Clearing(k)
  PROVE  \E r \in Runs : Deliver(r) /\ runs[r].key = k
<1>1. PICK q \in Runs : runs'[q].pc = "clear" /\ runs'[q].key = k
  BY DEF Clearing
<1>2. InFlight(q)'
  BY <1>1 DEF InFlight
<1>3. runs[q].key = k /\ (runs[q].pc = "clear" \/ Deliver(q))
  BY <1>1, <1>2, Trajectory
<1> QED
  BY <1>3 DEF Clearing

-----------------------------------------------------------------------------
(* The flag of a page that failed. *)

LEMMA OwedStep ==
  ASSUME TypeOK, Keyed, OwedInv, [Next]_vars
  PROVE  OwedInv'
<1> USE DEF TypeOK, StoreTypeOK
<1> SUFFICES ASSUME NEW k \in Keys, owed'[k] = "yes"
             PROVE  rows'[k].status = "alert_failed" /\ ~Clearing(k)'
  BY DEF OwedInv
<1>1. CASE \E r \in Runs : MarkFailed(r) /\ runs[r].key = k
  <2> PICK r \in Runs : MarkFailed(r) /\ runs[r].key = k
    BY <1>1
  <2>1. Present(k) /\ ~Clearing(k)
    BY DEF MarkFailed
  <2>2. rows'[k].status = "alert_failed"
    BY <2>1 DEF MarkFailed, MarkAlertFailed, MarkedStatus, Present, Row
  <2>3. ASSUME NEW q \in Runs
        PROVE  ~(runs'[q].pc = "clear" /\ runs'[q].key = k)
    BY <2>1, MovedIsRun DEF MarkFailed, Clearing
  <2> QED
    BY <2>2, <2>3 DEF Clearing
<1>2. CASE ~\E r \in Runs : MarkFailed(r) /\ runs[r].key = k
  <2>1. owed[k] = "yes"
    BY <1>2 DEF Next, RunStep, Ingest, Classify, AnswerRaises, SelectPrev,
                InsertRow, Decide, Deliver, PublishFails, MarkFailed, ClearFailed, StoreFails,
                Crash, Resolve, Prune, Tick, vars
  <2>2. rows[k].status = "alert_failed" /\ ~Clearing(k)
    BY <2>1 DEF OwedInv
  <2>3. ~\E r \in Runs : Deliver(r) /\ runs[r].key = k
    BY DEF Deliver
  <2>4. ~Clearing(k)'
    BY <2>2, <2>3, ClearingStep
  <2>5. ~\E r \in Runs : ClearFailed(r) /\ runs[r].key = k
    BY <2>2 DEF ClearFailed, Clearing
  <2>6. ~Resolve(k)
    BY DEF Resolve
  <2>7. rows'[k].status = "alert_failed"
    <3>1. ASSUME NEW r \in Runs, InsertRow(r)
          PROVE  rows'[k].status = "alert_failed"
      BY <2>2, <3>1 DEF InsertRow, Upsert, UpsertedStatus
    <3>2. ASSUME NEW r \in Runs, MarkFailed(r) \/ ClearFailed(r)
          PROVE  rows'[k].status = "alert_failed"
      BY <1>2, <2>2, <2>5, <3>2
      DEF MarkFailed, ClearFailed, MarkAlertFailed, ClearAlertFailed
    <3>3. ASSUME NEW j \in Keys, Resolve(j)
          PROVE  rows'[k].status = "alert_failed"
      BY <2>2, <2>6, <3>3 DEF Resolve, ResolveRow
    <3>4. CASE Prune
      BY <2>2, <3>4 DEF Prune, PruneRows, Prunable
    <3>5. CASE Tick
      BY <2>2, <3>5 DEF Tick, AgeRows, Present, Row
    <3>6. CASE rows' = rows
      BY <2>2, <3>6
    <3> QED
      BY <3>1, <3>2, <3>3, <3>4, <3>5, <3>6
      DEF Next, RunStep, Ingest, Classify, AnswerRaises, SelectPrev, Decide,
          Deliver, PublishFails, StoreFails, Crash, vars
  <2> QED
    BY <2>4, <2>7
<1> QED
  BY <1>1, <1>2

(* A page that was given up stays marked until a later page is delivered or *)
(* an operator resolves the incident, whoever else triages it meanwhile.   *)
THEOREM FailedPageIsNotLost == Spec => []FailedPageStaysFlagged
<1>1. Init => OwedInv
  BY DEF Init, OwedInv
<1>2. TypeOK /\ Keyed /\ OwedInv /\ [Next]_vars => (TypeOK /\ Keyed /\ OwedInv)'
  BY TypeStep, OwedStep
<1>3. OwedInv => FailedPageStaysFlagged
  BY DEF OwedInv, FailedPageStaysFlagged
<1> QED
  BY <1>1, <1>2, <1>3, InitTypes, PTL DEF Spec

-----------------------------------------------------------------------------
(* The first page of an incident. *)

LEMMA FlightStep ==
  ASSUME TypeOK, Keyed, FlightInv, [Next]_vars
  PROVE  FlightInv'
<1> USE DEF TypeOK, StoreTypeOK, Row, Status
<1> SUFFICES ASSUME NEW q \in Runs, InFlight(q)'
             PROVE  /\ rows'[runs'[q].key].status # "absent"
                    /\ Retention > 0 => rows'[runs'[q].key].age <= Retention
  BY DEF FlightInv, Present
<1> DEFINE k == runs[q].key
<1>0. /\ runs'[q].key = k
      /\ InFlight(q) \/ InsertRow(q)
  BY Trajectory
<1>1. k \in Keys
  BY <1>0 DEF InFlight, InsertRow, Keyed, RunOK, Resting, Outcome
<1> HIDE DEF k
<1> SUFFICES rows'[k].status # "absent" /\ (Retention > 0 => rows'[k].age <= Retention)
  BY <1>0
<1>2. CASE InsertRow(q)
  BY <1>1, <1>2, RetentionAssumption DEF InsertRow, Upsert, UpsertedStatus, k
<1>3. CASE InFlight(q)
  <2>1. rows[k].status # "absent" /\ (Retention > 0 => rows[k].age <= Retention)
    BY <1>3 DEF FlightInv, Present, k
  <2>2. ASSUME NEW r \in Runs, InsertRow(r)
        PROVE  rows'[k].status # "absent" /\ (Retention > 0 => rows'[k].age <= Retention)
    BY <1>1, <2>1, <2>2, RetentionAssumption DEF InsertRow, Upsert, UpsertedStatus
  <2>3. ASSUME NEW j \in Keys,
               MarkAlertFailed(j) \/ ClearAlertFailed(j) \/ ResolveRow(j)
        PROVE  rows'[k].status # "absent" /\ (Retention > 0 => rows'[k].age <= Retention)
    BY <1>1, <2>1, <2>3, StatusUpdates DEF Present
  <2>4. ASSUME NEW r \in Runs, MarkFailed(r) \/ ClearFailed(r)
        PROVE  rows'[k].status # "absent" /\ (Retention > 0 => rows'[k].age <= Retention)
    <3>1. runs[r].key \in Keys
      BY <2>4 DEF MarkFailed, ClearFailed, Keyed, RunOK, Resting, Outcome
    <3> QED
      BY <2>3, <2>4, <3>1 DEF MarkFailed, ClearFailed
  <2>5. ASSUME NEW j \in Keys, Resolve(j)
        PROVE  rows'[k].status # "absent" /\ (Retention > 0 => rows'[k].age <= Retention)
    BY <2>3, <2>5 DEF Resolve
  <2>6. CASE Prune
    BY <1>1, <2>1, <2>6, RetentionAssumption DEF Prune, PruneRows, Prunable
  <2>7. CASE Tick
    <3>1. Retention > 0 => rows[k].age < Retention
      BY <1>3, <2>7 DEF Tick, RunsAreShort, k
    <3>2. rows[k].age \in 0..Horizon
      BY <1>1
    <3>3. rows'[k].status = rows[k].status /\ rows'[k].age = Older(rows[k].age)
      BY <1>1, <2>1, <2>7 DEF Tick, AgeRows, Present
    <3>4. Older(rows[k].age) <= rows[k].age + 1
      BY <3>2, RetentionAssumption DEF Older
    <3> QED
      BY <2>1, <3>1, <3>2, <3>3, <3>4, OlderIsAge, RetentionAssumption
  <2>8. CASE rows' = rows
    BY <2>1, <2>8
  <2> QED
    BY <2>2, <2>4, <2>5, <2>6, <2>7, <2>8
    DEF Next, RunStep, Ingest, Classify, AnswerRaises, SelectPrev, Decide,
        Deliver, PublishFails, StoreFails, Crash, vars
<1> QED
  BY <1>0, <1>2, <1>3

LEMMA KnownStep ==
  ASSUME TypeOK, Keyed, FlightInv, KnownInv, [Next]_vars
  PROVE  KnownInv'
<1> USE DEF TypeOK, StoreTypeOK, Row, Status
<1> SUFFICES ASSUME NEW k \in Keys, rows'[k].status = "resolved" \/ Clearing(k)'
             PROVE  known'[k]
  BY DEF KnownInv
<1>1. CASE \E r \in Runs : Deliver(r) /\ runs[r].key = k
  <2> PICK r \in Runs : Deliver(r) /\ runs[r].key = k
    BY <1>1
  <2>1. Present(k)
    BY DEF FlightInv, InFlight, Deliver
  <2> QED
    BY <2>1 DEF Deliver
<1>2. CASE Resolve(k)
  BY <1>2 DEF Resolve
<1>3. CASE ~Resolve(k) /\ ~\E r \in Runs : Deliver(r) /\ runs[r].key = k
  <2>1. Clearing(k)' => Clearing(k)
    BY <1>3, ClearingStep
  <2>2. rows'[k].status = "resolved" => rows[k].status = "resolved"
    <3>1. ASSUME NEW r \in Runs, InsertRow(r), rows'[k].status = "resolved"
          PROVE  rows[k].status = "resolved"
      BY <3>1 DEF InsertRow, Upsert, UpsertedStatus
    <3>2. ASSUME NEW r \in Runs, MarkFailed(r) \/ ClearFailed(r),
                 rows'[k].status = "resolved"
          PROVE  rows[k].status = "resolved"
      BY <3>2 DEF MarkFailed, ClearFailed, MarkAlertFailed, MarkedStatus,
                  ClearAlertFailed, ClearedStatus
    <3>3. ASSUME NEW j \in Keys, Resolve(j), rows'[k].status = "resolved"
          PROVE  rows[k].status = "resolved"
      BY <1>3, <3>3 DEF Resolve, ResolveRow
    <3>4. CASE Prune
      BY <3>4 DEF Prune, PruneRows, NoRow
    <3>5. CASE Tick
      BY <3>5 DEF Tick, AgeRows, NoRow
    <3>6. CASE rows' = rows
      BY <3>6
    <3> QED
      BY <3>1, <3>2, <3>3, <3>4, <3>5, <3>6
      DEF Next, RunStep, Ingest, Classify, AnswerRaises, SelectPrev, Decide,
          Deliver, PublishFails, StoreFails, Crash, vars
  <2>3. known[k]
    BY <2>1, <2>2 DEF KnownInv
  <2>4. Present(k)
    BY <2>1, <2>2 DEF Present, Clearing, FlightInv, InFlight
  <2> QED
    BY <1>3, <2>3, <2>4
    DEF Next, RunStep, Ingest, Classify, AnswerRaises, SelectPrev, InsertRow, Decide,
        Deliver, PublishFails, MarkFailed, ClearFailed, StoreFails, Crash, Resolve, Prune,
        Tick, vars
<1> QED
  BY <1>1, <1>2, <1>3

(* A run that carries the page of an incident goes on carrying it, unless   *)
(* it is struck by a fault, delivers the page or flags it as failed.       *)
LEMMA CarrierMoves ==
  ASSUME TypeOK, Keyed, DecisionInv, [Next]_vars,
         NEW k \in Keys, NEW c \in Runs, Carries(c, k),
         ~Crash, ~\E r \in Runs : StoreFails(r),
         ~known'[k], rows[k].status = "open", rows'[k].status = "open"
  PROVE  Carries(c, k)'
<1> USE DEF TypeOK, StoreTypeOK, Row, Status
<1>1. /\ runs[c] \in Run /\ runs[c].key = k /\ runs[c].found = "nothing"
      /\ runs[c].pc \in {"decide", "publish", "mark"}
  BY DEF Carries
<1>2. CASE runs'[c] = runs[c]
  BY <1>2 DEF Carries
<1>3. ASSUME NEW r \in Runs, NEW j \in Keys, NEW s \in Severity, Ingest(r, j, s)
      PROVE  runs'[c] = runs[c]
  BY <1>1, <1>3 DEF Ingest, Resting, Outcome
<1>4. ASSUME NEW r \in Runs, NEW answer \in Severity, Classify(r, answer)
      PROVE  runs'[c] = runs[c]
  BY <1>1, <1>4 DEF Classify
<1>5. ASSUME NEW r \in Runs, SelectPrev(r)
      PROVE  runs'[c] = runs[c]
  BY <1>1, <1>5 DEF SelectPrev
<1>6. ASSUME NEW r \in Runs, InsertRow(r)
      PROVE  runs'[c] = runs[c]
  BY <1>1, <1>6 DEF InsertRow, Overtaken
<1>7. ASSUME NEW r \in Runs, Decide(r)
      PROVE  Carries(c, k)'
  <2>1. CASE c = r
    <3>1. runs[c].pc = "decide"
      BY <1>7, <2>1 DEF Decide
    <3>2. Alerts(runs[c])
      BY <1>1, <3>1 DEF DecisionInv, DecisionOK, PastInsert, Alerts
    <3>3. runs'[c] = Moved(runs[c], "publish")
      BY <1>7, <2>1, <3>2 DEF Decide
    <3> QED
      BY <1>1, <3>3, MovedIsRun DEF Carries
  <2>2. CASE c # r
    BY <1>2, <1>7, <2>2 DEF Decide
  <2> QED
    BY <2>1, <2>2
<1>8. ASSUME NEW r \in Runs, Deliver(r)
      PROVE  runs'[c] = runs[c]
  BY <1>1, <1>8 DEF Deliver, Present
<1>9. ASSUME NEW r \in Runs, NEW reached \in BOOLEAN, PublishFails(r, reached)
       PROVE  Carries(c, k)'
  <2>1. CASE c = r
    <3> DEFINE n == Failures(runs[r])
               counted == [runs[r] EXCEPT !.tries = n]
    <3>1. /\ AfterFailure(n) \in {"publish", "mark"}
          /\ runs'[c] = Moved(counted, AfterFailure(n))
      BY <1>9, <2>1 DEF PublishFails, AfterFailure
    <3> HIDE DEF n
    <3>2. runs'[c] = [counted EXCEPT !.pc = AfterFailure(n)]
      BY <3>1 DEF Moved
    <3> QED
      BY <1>1, <2>1, <3>1, <3>2 DEF Carries, Run
  <2>2. CASE c # r
    BY <1>2, <1>9, <2>2 DEF PublishFails
  <2> QED
    BY <2>1, <2>2
<1>10. ASSUME NEW r \in Runs, MarkFailed(r)
       PROVE  runs'[c] = runs[c]
  BY <1>1, <1>10 DEF MarkFailed, MarkAlertFailed, MarkedStatus
<1>11. ASSUME NEW r \in Runs, ClearFailed(r)
       PROVE  runs'[c] = runs[c]
  BY <1>1, <1>11 DEF ClearFailed
<1>12. CASE Tick
  BY <1>1, <1>12 DEF Tick, Carries, Run
<1>13. ASSUME NEW r \in Runs, AnswerRaises(r)
       PROVE  runs'[c] = runs[c]
  BY <1>1, <1>13 DEF AnswerRaises
<1> QED
  BY <1>2, <1>3, <1>4, <1>5, <1>6, <1>7, <1>8, <1>9, <1>10, <1>11, <1>12, <1>13
  DEF Next, RunStep, Resolve, Prune, vars

LEMMA CarrierStep ==
  ASSUME TypeOK, Keyed, DecisionInv, FlightInv, KnownInv, [Next]_vars,
         UnpagedIncidentHasCarrier
  PROVE  UnpagedIncidentHasCarrier'
<1> USE DEF TypeOK, StoreTypeOK, Row, Status
<1> SUFFICES ASSUME NEW k \in Keys, faults' = 0, ~known'[k],
                    rows'[k].status = "open"
             PROVE  \E c \in Runs : Carries(c, k)'
  BY DEF UnpagedIncidentHasCarrier
<1>0. faults = 0
  <2>1. faults' = faults \/ faults' = faults + 1
    BY DEF Next, RunStep, Ingest, Classify, AnswerRaises, SelectPrev, InsertRow, Decide,
           Deliver, PublishFails, MarkFailed, ClearFailed, StoreFails, Crash, Resolve,
           Prune, Tick, vars
  <2> QED
    BY <2>1, TriageAssumption
(* The run whose upsert creates the incident carries its page. *)
<1>1. ASSUME NEW r \in Runs, InsertRow(r), runs[r].key = k, ~Present(k)
      PROVE  Carries(r, k)'
  BY <1>1 DEF InsertRow, Upserted, Found, Carries, Run
(* In every other step the incident was open and unknown before.           *)
<1>2. ASSUME ~\E r \in Runs : InsertRow(r) /\ runs[r].key = k /\ ~Present(k)
      PROVE  rows[k].status = "open" /\ ~known[k]
  <2>1. ~\E r \in Runs : Deliver(r) /\ runs[r].key = k
    BY DEF Deliver, Present
  <2>2. ~Resolve(k)
    BY DEF Resolve
  <2>3. ~known[k]
    BY <1>2, <2>1, <2>2
    DEF Next, RunStep, Ingest, Classify, AnswerRaises, SelectPrev, InsertRow, Decide,
        Deliver, PublishFails, MarkFailed, ClearFailed, StoreFails, Crash, Resolve, Prune,
        Tick, vars
  <2>4. rows[k].status # "resolved" /\ ~Clearing(k)
    BY <2>3 DEF KnownInv
  <2>5. ASSUME NEW r \in Runs, InsertRow(r)
        PROVE  rows[k].status = "open"
    BY <1>2, <2>4, <2>5 DEF InsertRow, Upsert, UpsertedStatus, Present
  <2>6. ASSUME NEW r \in Runs, MarkFailed(r)
        PROVE  rows[k].status = "open"
    BY <2>4, <2>6 DEF MarkFailed, MarkAlertFailed, MarkedStatus
  <2>7. ASSUME NEW r \in Runs, ClearFailed(r)
        PROVE  rows[k].status = "open"
    BY <2>4, <2>7 DEF ClearFailed, ClearAlertFailed, Clearing
  <2>8. ASSUME NEW j \in Keys, Resolve(j)
        PROVE  rows[k].status = "open"
    BY <2>2, <2>8 DEF Resolve, ResolveRow
  <2>9. CASE Prune
    BY <2>9 DEF Prune, PruneRows, NoRow
  <2>10. CASE Tick
    BY <2>10 DEF Tick, AgeRows, NoRow
  <2>11. CASE rows' = rows
    BY <2>3, <2>11
  <2>12. rows[k].status = "open"
    BY <2>5, <2>6, <2>7, <2>8, <2>9, <2>10, <2>11
    DEF Next, RunStep, Ingest, Classify, AnswerRaises, SelectPrev, Decide,
        Deliver, PublishFails, StoreFails, Crash, vars
  <2> QED
    BY <2>3, <2>12
<1>3. ASSUME rows[k].status = "open", ~known[k]
      PROVE  \E c \in Runs : Carries(c, k)'
  <2>1. PICK c \in Runs : Carries(c, k)
    BY <1>0, <1>3 DEF UnpagedIncidentHasCarrier
  <2>2. ~Crash /\ ~\E r \in Runs : StoreFails(r)
    BY <1>0, TriageAssumption DEF Crash, StoreFails
  <2> QED
    BY <1>3, <2>1, <2>2, CarrierMoves
<1> QED
  BY <1>1, <1>2, <1>3

(* The whole inductive invariant of Triage. *)
LEMMA InvariantAlways == Spec => [](TypeOK /\ IInv /\ UnpagedIncidentHasCarrier)
<1>1. Init => IInv /\ UnpagedIncidentHasCarrier
  <2>1. Init => OwedInv /\ FlightInv /\ KnownInv /\ UnpagedIncidentHasCarrier
    BY DEF Init, StoreInit, NoRow, IdleRun, OwedInv, FlightInv, InFlight,
           KnownInv, Clearing, UnpagedIncidentHasCarrier
  <2> QED
    BY <2>1, InitTypes, InitDecided DEF IInv
<1>2. TypeOK /\ IInv /\ UnpagedIncidentHasCarrier /\ [Next]_vars
      => (TypeOK /\ IInv /\ UnpagedIncidentHasCarrier)'
  BY TypeStep, ReadStep, DecisionStep, OwedStep, FlightStep, KnownStep,
     CarrierStep DEF IInv
<1> QED
  BY <1>1, <1>2, InitTypes, PTL DEF Spec

(* As long as nothing crashes, an open incident that nobody was told about  *)
(* has a run that will page for it or mark it.                             *)
THEOREM FirstPageIsCarried == Spec => []UnpagedIncidentHasCarrier
  BY InvariantAlways, PTL

-----------------------------------------------------------------------------
(* Triage implements Alerting. *)

Inv == TypeOK /\ IInv /\ UnpagedIncidentHasCarrier

-----------------------------------------------------------------------------
(* What a step leaves alone. *)

(* Only its own upsert lets a run carry a page, and only of a missing row. *)
LEMMA CarrierComes ==
  ASSUME TypeOK, [Next]_vars, NEW k \in Keys, NEW c \in Runs,
         Carries(c, k)', Present(k)
  PROVE  Carries(c, k)
<1> USE DEF TypeOK
<1>0. runs[c] \in Run
  OBVIOUS
<1>1. /\ runs'[c].key = k /\ runs'[c].found = "nothing"
      /\ runs'[c].pc \in {"decide", "publish", "mark"}
  BY DEF Carries
<1>2. CASE runs'[c] = runs[c]
  BY <1>1, <1>2 DEF Carries
<1>3. ASSUME NEW r \in Runs, NEW j \in Keys, NEW s \in Severity, Ingest(r, j, s)
      PROVE  runs'[c] = runs[c]
  BY <1>1, <1>3 DEF Ingest, IdleRun
<1>4. ASSUME NEW r \in Runs, NEW answer \in Severity, Classify(r, answer)
      PROVE  runs'[c] = runs[c]
  BY <1>1, <1>4 DEF Classify, Run
<1>5. ASSUME NEW r \in Runs, SelectPrev(r)
      PROVE  runs'[c] = runs[c]
  BY <1>1, <1>5 DEF SelectPrev, Run
<1>6. ASSUME NEW r \in Runs, InsertRow(r)
      PROVE  Carries(c, k)
  <2>1. CASE c = r
    BY <1>0, <1>1, <1>6, <2>1 DEF InsertRow, Upserted, Found, Run
  <2>2. CASE c # r
    BY <1>0, <1>1, <1>6, <2>2 DEF InsertRow, Overtaken, Carries, Run
  <2> QED
    BY <2>1, <2>2
<1>7. ASSUME NEW r \in Runs, Decide(r)
      PROVE  Carries(c, k)
  BY <1>0, <1>1, <1>7 DEF Decide, Moved, Carries, Run
<1>8. ASSUME NEW r \in Runs, Deliver(r)
      PROVE  Carries(c, k)
  BY <1>0, <1>1, <1>8 DEF Deliver, Moved, AfterDelivery, IdleRun, Carries, Run
<1>9. ASSUME NEW r \in Runs, NEW reached \in BOOLEAN, PublishFails(r, reached)
      PROVE  Carries(c, k)
  BY <1>0, <1>1, <1>9 DEF PublishFails, Moved, AfterFailure, Carries, Run
<1>10. ASSUME NEW r \in Runs, MarkFailed(r) \/ ClearFailed(r)
       PROVE  runs'[c] = runs[c]
  BY <1>1, <1>10, MovedIsRun DEF MarkFailed, ClearFailed
<1>11. ASSUME NEW r \in Runs, StoreFails(r) \/ AnswerRaises(r)
       PROVE  runs'[c] = runs[c]
  BY <1>1, <1>11 DEF StoreFails, AnswerRaises, IdleRun
<1>12. ~Crash
  BY <1>1 DEF Crash, IdleRun
<1>13. CASE Tick
  BY <1>0, <1>1, <1>13 DEF Tick, Carries, Run
<1> QED
  BY <1>2, <1>3, <1>4, <1>5, <1>6, <1>7, <1>8, <1>9, <1>10, <1>11, <1>12,
     <1>13 DEF Next, RunStep, Resolve, Prune, vars

(* A step without a fault that leaves the status of an incident and what   *)
(* people know of it alone leaves its phase alone.                         *)
LEMMA PhaseKept ==
  ASSUME Inv, [Next]_vars, faults' = faults, NEW k \in Keys,
         rows'[k].status = rows[k].status, known'[k] = known[k]
  PROVE  PhaseOf(k)' = PhaseOf(k)
<1>1. CASE rows[k].status # "open" \/ known[k]
  BY <1>1 DEF PhaseOf, Inv, TypeOK, StoreTypeOK, Row, Status
<1>2. CASE rows[k].status = "open" /\ ~known[k]
  <2>1. ~Crash /\ ~\E r \in Runs : StoreFails(r)
    BY TriageAssumption DEF Crash, StoreFails, Inv, TypeOK
  <2>2. ASSUME NEW c \in Runs, Carries(c, k)
        PROVE  Carries(c, k)'
    BY <1>2, <2>1, <2>2, CarrierMoves DEF Inv, IInv
  <2>3. ASSUME NEW c \in Runs, Carries(c, k)'
        PROVE  Carries(c, k)
    BY <1>2, <2>3, CarrierComes DEF Inv, Present
  <2> QED
    BY <1>2, <2>2, <2>3 DEF PhaseOf
<1> QED
  BY <1>1, <1>2

(* The runs about to clear a flag of k, when every run that is, is one     *)
(* before and after.                                                       *)
LEMMA ClearingKept ==
  ASSUME NEW k \in Keys,
         \A q \in Runs : (runs'[q].pc = "clear" /\ runs'[q].key = k)
                         <=> (runs[q].pc = "clear" /\ runs[q].key = k)
  PROVE  Clearing(k)' = Clearing(k)
BY DEF Clearing

(* A step that keeps every phase and every acknowledgement is a stutter.   *)
LEMMA Stutter ==
  ASSUME faults' = faults,
         \A k \in Keys : PhaseOf(k)' = PhaseOf(k) /\ Clearing(k)' = Clearing(k)
  PROVE  UNCHANGED A!vars
BY DEF A!vars

-----------------------------------------------------------------------------
(* One lemma per action or group of actions: the step of Alerting it is.   *)

(* The local steps of a run, and time. *)
LEMMA QuietStep ==
  ASSUME Inv, [Next]_vars,
         \/ \E r \in Runs, k \in Keys, s \in Severity : Ingest(r, k, s)
         \/ \E r \in Runs, answer \in Severity : Classify(r, answer)
         \/ \E r \in Runs : AnswerRaises(r) \/ SelectPrev(r) \/ Decide(r)
         \/ Tick
  PROVE  UNCHANGED A!vars
<1> USE DEF Inv, TypeOK, StoreTypeOK
<1>1. faults' = faults /\ known' = known
  BY DEF Ingest, Classify, AnswerRaises, SelectPrev, Decide, Tick
<1>2. ASSUME NEW k \in Keys
      PROVE  rows'[k].status = rows[k].status
  <2>1. CASE Tick
    BY <2>1 DEF Tick, AgeRows, Present, NoRow, Row
  <2>2. CASE rows' = rows
    BY <2>2
  <2> QED
    BY <2>1, <2>2 DEF Ingest, Classify, AnswerRaises, SelectPrev, Decide
<1>3. ASSUME NEW k \in Keys, NEW q \in Runs
      PROVE  (runs'[q].pc = "clear" /\ runs'[q].key = k)
             <=> (runs[q].pc = "clear" /\ runs[q].key = k)
  <2>0. runs[q] \in Run
    OBVIOUS
  <2>1. ASSUME NEW r \in Runs, NEW j \in Keys, NEW s \in Severity, Ingest(r, j, s)
        PROVE  runs'[q] = runs[q] \/ (runs[q].pc # "clear" /\ runs'[q].pc # "clear")
    BY <2>1 DEF Ingest, Resting, Outcome, IdleRun
  <2>2. ASSUME NEW r \in Runs, NEW answer \in Severity, Classify(r, answer)
        PROVE  runs'[q] = runs[q] \/ (runs[q].pc # "clear" /\ runs'[q].pc # "clear")
    BY <2>0, <2>2 DEF Classify, Run
  <2>3. ASSUME NEW r \in Runs, SelectPrev(r)
        PROVE  runs'[q] = runs[q] \/ (runs[q].pc # "clear" /\ runs'[q].pc # "clear")
    BY <2>0, <2>3 DEF SelectPrev, Run
  <2>4. ASSUME NEW r \in Runs, Decide(r)
        PROVE  runs'[q] = runs[q] \/ (runs[q].pc # "clear" /\ runs'[q].pc # "clear")
    <3> DEFINE next == IF Alerts(runs[r]) THEN "publish" ELSE "suppressed"
    <3>1. /\ runs[r].pc = "decide"
          /\ runs' = [runs EXCEPT ![r] = Moved(runs[r], next)]
      BY <2>4 DEF Decide
    <3>2. Moved(runs[r], next).pc = next
      BY MovedIsRun
    <3> QED
      BY <3>1, <3>2
  <2>5. CASE Tick
    BY <2>0, <2>5 DEF Tick, Run
  <2>6. ASSUME NEW r \in Runs, AnswerRaises(r)
        PROVE  runs'[q] = runs[q] \/ (runs[q].pc # "clear" /\ runs'[q].pc # "clear")
    BY <2>6 DEF AnswerRaises, IdleRun
  <2> QED
    BY <2>1, <2>2, <2>3, <2>4, <2>5, <2>6
<1> QED
  BY <1>1, <1>2, <1>3, PhaseKept, ClearingKept, Stutter

(* The upsert opens an incident, reopens it, or changes nothing. *)
LEMMA InsertIsOpen ==
  ASSUME Inv, [Next]_vars, NEW r \in Runs, InsertRow(r),
         NEW k \in Keys, runs[r].key = k
  PROVE  A!Open(k) \/ A!Reopen(k) \/ UNCHANGED A!vars
<1> USE DEF Inv, TypeOK, StoreTypeOK
<1>1. faults' = faults
  BY DEF InsertRow
<1>2. ASSUME NEW j \in Keys, NEW q \in Runs
      PROVE  (runs'[q].pc = "clear" /\ runs'[q].key = j)
             <=> (runs[q].pc = "clear" /\ runs[q].key = j)
  <2>1. CASE q = r
    BY <2>1 DEF InsertRow, Upserted, Run
  <2>2. CASE q # r
    BY <2>2 DEF InsertRow, Overtaken, Run
  <2> QED
    BY <2>1, <2>2
<1>3. \A j \in Keys : Clearing(j)' = Clearing(j)
  BY <1>2, ClearingKept
<1>4. ASSUME NEW j \in Keys, j # k
      PROVE  PhaseOf(j)' = PhaseOf(j)
  <2>1. rows'[j].status = rows[j].status /\ known'[j] = known[j]
    BY <1>1, <1>4 DEF InsertRow, Upsert
  <2> QED
    BY <1>1, <2>1, PhaseKept
<1>5. rows'[k].status = UpsertedStatus(rows[k].status)
  BY <1>1 DEF InsertRow, Upsert
<1>6. CASE ~Present(k)
  <2>1. PhaseOf(k) = "none"
    BY <1>6 DEF PhaseOf, Present
  <2>2. Carries(r, k)'
    BY <1>1, <1>6 DEF InsertRow, Upserted, Found, Carries, Run
  <2>3. rows'[k].status = "open" /\ ~known'[k]
    BY <1>1, <1>5, <1>6 DEF InsertRow, Present, UpsertedStatus
  <2>4. PhaseOf(k)' = "fresh"
    BY <1>1, <2>2, <2>3 DEF PhaseOf
  <2> QED
    BY <1>1, <1>3, <1>4, <2>1, <2>4 DEF A!Open, A!Becomes
<1>7. CASE rows[k].status = "resolved"
  <2>1. PhaseOf(k) = "closed"
    BY <1>7 DEF PhaseOf
  <2>2. known[k]
    BY <1>1, <1>7 DEF IInv, KnownInv
  <2>3. rows'[k].status = "open" /\ known'[k]
    BY <1>1, <1>5, <1>7, <2>2 DEF InsertRow, Present, UpsertedStatus
  <2>4. PhaseOf(k)' = "told"
    BY <1>1, <2>3 DEF PhaseOf
  <2> QED
    BY <1>1, <1>3, <1>4, <2>1, <2>4 DEF A!Reopen, A!Becomes
<1>8. CASE rows[k].status \in {"open", "alert_failed"}
  <2>1. rows'[k].status = rows[k].status /\ known'[k] = known[k]
    BY <1>1, <1>5, <1>8 DEF InsertRow, Present, UpsertedStatus
  <2>2. PhaseOf(k)' = PhaseOf(k)
    BY <1>1, <2>1, PhaseKept
  <2> QED
    BY <1>1, <1>3, <1>4, <2>2, Stutter
<1> QED
  BY <1>1, <1>6, <1>7, <1>8 DEF Present, Row, Status

(* A page that the broker takes, confirmed or not, tells people. *)
LEMMA PageTells ==
  ASSUME NEW k \in Keys, Present(k), rows' = rows, known'[k]
  PROVE  /\ PhaseOf(k) # "none"
         /\ PhaseOf(k)' = IF PhaseOf(k) \in {"fresh", "lost"} THEN "told"
                                                             ELSE PhaseOf(k)
BY DEF PhaseOf, Present

LEMMA DeliverIsPage ==
  ASSUME Inv, [Next]_vars, NEW r \in Runs, Deliver(r),
         NEW k \in Keys, runs[r].key = k
  PROVE  A!Page(k)
<1> USE DEF Inv, TypeOK, StoreTypeOK
<1>1. /\ faults' = faults /\ rows' = rows
      /\ known' = [known EXCEPT ![k] = Present(k)]
      /\ runs[r].pc = "publish"
      /\ runs' = [runs EXCEPT ![r] = Moved(runs[r], AfterDelivery(runs[r]))]
  BY DEF Deliver
<1>2. Present(k) /\ known'[k]
  BY <1>1 DEF IInv, FlightInv, InFlight
<1>3. ASSUME NEW j \in Keys, j # k
      PROVE  PhaseOf(j)' = PhaseOf(j)
  BY <1>1, <1>3, PhaseKept
<1>4. ASSUME NEW j \in Keys, j # k
      PROVE  Clearing(j)' = Clearing(j)
  <2>1. ASSUME NEW q \in Runs
        PROVE  (runs'[q].pc = "clear" /\ runs'[q].key = j)
               <=> (runs[q].pc = "clear" /\ runs[q].key = j)
    BY <1>1, <1>4, MovedIsRun DEF AfterDelivery
  <2> QED
    BY <2>1, ClearingKept
<1>5. Clearing(k)' = Clearing(k) \/ Clearing(k)' = TRUE
  <2>1. ASSUME Clearing(k)
        PROVE  Clearing(k)'
    <3>1. PICK q \in Runs : runs[q].pc = "clear" /\ runs[q].key = k
      BY <2>1 DEF Clearing
    <3>2. runs'[q] = runs[q]
      BY <1>1, <3>1
    <3> QED
      BY <3>1, <3>2 DEF Clearing
  <2> QED
    BY <2>1 DEF Clearing
<1>6. A!Becomes(k, IF PhaseOf(k) \in {"fresh", "lost"} THEN "told" ELSE PhaseOf(k))
  BY <1>1, <1>2, <1>3, PageTells DEF A!Becomes
<1> QED
  BY <1>1, <1>2, <1>4, <1>5, <1>6, PageTells DEF A!Page

LEMMA PublishFailsIsPage ==
  ASSUME Inv, [Next]_vars, NEW r \in Runs, NEW reached \in BOOLEAN,
         PublishFails(r, reached), NEW k \in Keys, runs[r].key = k
  PROVE  A!Page(k) \/ UNCHANGED A!vars
<1> USE DEF Inv, TypeOK, StoreTypeOK
<1> DEFINE counted == [runs[r] EXCEPT !.tries = Failures(runs[r])]
           next == AfterFailure(Failures(runs[r]))
<1>1. /\ faults' = faults /\ rows' = rows
      /\ known' = [known EXCEPT ![k] = known[k] \/ (reached /\ Present(k))]
      /\ runs[r].pc = "publish"
      /\ runs' = [runs EXCEPT ![r] = Moved(counted, next)]
  BY DEF PublishFails
<1>2. next \in {"publish", "mark"}
  BY DEF AfterFailure
<1>3. ASSUME NEW j \in Keys, NEW q \in Runs
      PROVE  (runs'[q].pc = "clear" /\ runs'[q].key = j)
             <=> (runs[q].pc = "clear" /\ runs[q].key = j)
  BY <1>1, <1>2 DEF Moved, Run
<1>4. \A j \in Keys : Clearing(j)' = Clearing(j)
  BY <1>3, ClearingKept
<1>5. ASSUME NEW j \in Keys, j # k \/ known'[k] = known[k]
      PROVE  PhaseOf(j)' = PhaseOf(j)
  BY <1>1, <1>5, PhaseKept
<1>6. CASE known'[k] = known[k]
  BY <1>1, <1>4, <1>5, <1>6, Stutter
<1>7. CASE known'[k] # known[k]
  <2>1. Present(k) /\ known'[k]
    BY <1>1, <1>7
  <2>2. A!Becomes(k, IF PhaseOf(k) \in {"fresh", "lost"} THEN "told" ELSE PhaseOf(k))
    BY <1>1, <1>5, <2>1, PageTells DEF A!Becomes
  <2> QED
    BY <1>1, <1>4, <2>1, <2>2, PageTells DEF A!Page
<1> QED
  BY <1>6, <1>7

LEMMA MarkIsGiveUp ==
  ASSUME Inv, [Next]_vars, NEW r \in Runs, MarkFailed(r),
         NEW k \in Keys, runs[r].key = k
  PROVE  A!GiveUp(k)
<1> USE DEF Inv, TypeOK, StoreTypeOK
<1>1. /\ faults' = faults /\ known' = known
      /\ rows' = [rows EXCEPT ![k].status = MarkedStatus(rows[k].status)]
      /\ runs[r].pc = "mark"
      /\ runs' = [runs EXCEPT ![r] = Moved(runs[r], "failed")]
  BY DEF MarkFailed, MarkAlertFailed
<1>2. Present(k)
  BY <1>1 DEF IInv, FlightInv, InFlight
<1>3. rows'[k].status = "alert_failed"
  BY <1>1, <1>2 DEF Present, MarkedStatus, Row
<1>4. ASSUME NEW j \in Keys, j # k
      PROVE  PhaseOf(j)' = PhaseOf(j)
  BY <1>1, <1>4, PhaseKept
<1>5. ASSUME NEW j \in Keys, NEW q \in Runs
      PROVE  (runs'[q].pc = "clear" /\ runs'[q].key = j)
             <=> (runs[q].pc = "clear" /\ runs[q].key = j)
  BY <1>1, MovedIsRun
<1>6. \A j \in Keys : Clearing(j)' = Clearing(j)
  BY <1>5, ClearingKept
<1>7. PhaseOf(k) # "none" /\ PhaseOf(k)' = "owed"
  BY <1>2, <1>3 DEF PhaseOf, Present
<1> QED
  BY <1>1, <1>4, <1>6, <1>7 DEF A!GiveUp, A!Becomes

LEMMA ClearIsSettle ==
  ASSUME Inv, [Next]_vars, NEW r \in Runs, ClearFailed(r),
         NEW k \in Keys, runs[r].key = k
  PROVE  A!Settle(k)
<1> USE DEF Inv, TypeOK, StoreTypeOK
<1>1. /\ faults' = faults /\ known' = known
      /\ rows' = [rows EXCEPT ![k].status = ClearedStatus(rows[k].status)]
      /\ runs[r].pc = "clear"
      /\ runs' = [runs EXCEPT ![r] = Moved(runs[r], "alerted")]
  BY DEF ClearFailed, ClearAlertFailed
<1>2. Clearing(k) /\ known[k]
  BY <1>1 DEF Clearing, IInv, KnownInv
<1>3. ASSUME NEW j \in Keys, j # k
      PROVE  PhaseOf(j)' = PhaseOf(j)
  BY <1>1, <1>3, PhaseKept
<1>4. ASSUME NEW j \in Keys, j # k
      PROVE  Clearing(j)' = Clearing(j)
  <2>1. ASSUME NEW q \in Runs
        PROVE  (runs'[q].pc = "clear" /\ runs'[q].key = j)
               <=> (runs[q].pc = "clear" /\ runs[q].key = j)
    BY <1>1, <1>4, MovedIsRun
  <2> QED
    BY <2>1, ClearingKept
<1>5. PhaseOf(k)' = IF PhaseOf(k) = "owed" THEN "told" ELSE PhaseOf(k)
  <2>1. rows'[k].status = ClearedStatus(rows[k].status) /\ known'[k]
    BY <1>1, <1>2 DEF Row
  <2> QED
    BY <1>2, <2>1 DEF PhaseOf, ClearedStatus
<1>6. Clearing(k)' \in BOOLEAN
  BY DEF Clearing
<1> QED
  BY <1>1, <1>2, <1>3, <1>4, <1>5, <1>6 DEF A!Settle, A!Becomes

LEMMA ResolveIsResolve ==
  ASSUME Inv, [Next]_vars, NEW k \in Keys, Resolve(k)
  PROVE  A!Resolve(k)
<1> USE DEF Inv, TypeOK, StoreTypeOK
<1>1. /\ faults' = faults /\ runs' = runs
      /\ known' = [known EXCEPT ![k] = TRUE]
      /\ rows[k].status \in {"open", "alert_failed"}
      /\ rows' = [rows EXCEPT ![k].status = "resolved"]
  BY DEF Resolve, ResolveRow
<1>2. ASSUME NEW j \in Keys, j # k
      PROVE  PhaseOf(j)' = PhaseOf(j)
  BY <1>1, <1>2, PhaseKept
<1>3. \A j \in Keys : Clearing(j)' = Clearing(j)
  BY <1>1 DEF Clearing
<1>4. PhaseOf(k) \in {"fresh", "told", "owed", "lost"}
  BY <1>1 DEF PhaseOf
<1>5. PhaseOf(k)' = "closed"
  BY <1>1 DEF PhaseOf, Row
<1> QED
  BY <1>1, <1>2, <1>3, <1>4, <1>5 DEF A!Resolve, A!Becomes

LEMMA PruneIsForget ==
  ASSUME Inv, [Next]_vars, Prune
  PROVE  A!Forget
<1> USE DEF Inv, TypeOK, StoreTypeOK
<1> DEFINE S == {k \in Keys : Prunable(k)}
<1>1. /\ faults' = faults /\ runs' = runs /\ known' = known
      /\ rows' = [k \in Keys |-> IF Prunable(k) THEN NoRow ELSE rows[k]]
  BY DEF Prune, PruneRows
<1>2. S \in SUBSET A!InPhase("closed")
  BY DEF A!InPhase, Prunable, PhaseOf
<1>3. ASSUME NEW k \in Keys
      PROVE  PhaseOf(k)' = IF k \in S THEN "none" ELSE PhaseOf(k)
  <2>1. CASE Prunable(k)
    BY <1>1, <2>1 DEF PhaseOf, NoRow
  <2>2. CASE ~Prunable(k)
    BY <1>1, <2>2, PhaseKept
  <2> QED
    BY <2>1, <2>2
<1>4. \A k \in Keys : Clearing(k)' = Clearing(k)
  BY <1>1 DEF Clearing
<1> QED
  BY <1>1, <1>2, <1>3, <1>4 DEF A!Forget

(* A fault takes runs away: it can lose fresh incidents and unsettle pages. *)
LEMMA FaultIsFault ==
  ASSUME Inv, [Next]_vars, Crash \/ \E r \in Runs : StoreFails(r)
  PROVE  A!Fault
<1> USE DEF Inv, TypeOK, StoreTypeOK
<1> DEFINE S == {k \in Keys : PhaseOf(k) = "fresh" /\ PhaseOf(k)' = "lost"}
           T == {k \in Keys : Clearing(k)'}
<1>1. /\ faults < MaxFaults /\ faults' = faults + 1
      /\ rows' = rows /\ known' = known
  BY DEF Crash, StoreFails
<1>2. ASSUME NEW q \in Runs
      PROVE  runs'[q] = runs[q] \/ runs'[q].pc = "idle"
  BY DEF Crash, StoreFails, IdleRun
<1>3. ASSUME NEW k \in Keys
      PROVE  PhaseOf(k)' = IF k \in S THEN "lost" ELSE PhaseOf(k)
  <2>1. ASSUME NEW c \in Runs, Carries(c, k)'
        PROVE  Carries(c, k)
    BY <1>2, <2>1 DEF Carries
  <2> QED
    BY <1>1, <2>1 DEF PhaseOf
<1>4. ASSUME NEW k \in Keys
      PROVE  Clearing(k)' = (k \in T /\ Clearing(k))
  <2>1. ASSUME Clearing(k)'
        PROVE  Clearing(k)
    BY <1>2, <2>1 DEF Clearing
  <2>2. CASE Clearing(k)'
    BY <2>1, <2>2
  <2>3. CASE ~Clearing(k)'
    BY <2>3 DEF Clearing
  <2> QED
    BY <2>2, <2>3
<1>5. S \in SUBSET A!InPhase("fresh") /\ T \in SUBSET Keys
  BY DEF A!InPhase
<1> HIDE DEF S, T
<1> QED
  BY <1>1, <1>3, <1>4, <1>5 DEF A!Fault

-----------------------------------------------------------------------------
LEMMA InitIsInit == Init => A!Init
<1> SUFFICES ASSUME Init
             PROVE  A!Init
  OBVIOUS
<1>1. \A k \in Keys : PhaseOf(k) = "none" /\ Clearing(k) = FALSE
  BY DEF Init, StoreInit, NoRow, IdleRun, PhaseOf, Clearing
<1> QED
  BY <1>1 DEF A!Init, Init

LEMMA StepIsStep ==
  ASSUME Inv, [Next]_vars
  PROVE  [A!Next]_(A!vars)
<1>1. ASSUME NEW r \in Runs, RunStep(r)
      PROVE  [A!Next]_(A!vars)
  <2>1. CASE runs[r].key \in Keys
    <3> DEFINE k == runs[r].key
    <3> QED
      BY <1>1, <2>1, QuietStep, InsertIsOpen, DeliverIsPage, PublishFailsIsPage,
         MarkIsGiveUp, ClearIsSettle DEF RunStep, A!Next
  <2>2. runs[r].key \in Keys
    BY <1>1 DEF Inv, IInv, Keyed, RunOK, RunStep, Classify, AnswerRaises, SelectPrev,
                InsertRow, Decide, Deliver, PublishFails, MarkFailed, ClearFailed, Resting,
                Outcome
  <2> QED
    BY <2>1, <2>2
<1>2. CASE vars' = vars
  BY <1>2 DEF vars, A!vars, PhaseOf, Clearing, Carries
<1> QED
  BY <1>1, <1>2, QuietStep, ResolveIsResolve, PruneIsForget, FaultIsFault
  DEF Next, A!Next

(* The statements of concurrent triage runs, prunes, resolutions and faults *)
(* add up to the life of an incident that Alerting describes (graph.py,    *)
(* store.py): without a fault no first page is lost, no flag is dropped    *)
(* before a page has arrived, and only resolved incidents are forgotten.   *)
THEOREM TriageImplementsAlerting == Spec => LifecycleKept
<1>1. Inv /\ [Next]_vars => [A!Next]_(A!vars)
  BY StepIsStep
<1>2. Spec => []Inv
  BY InvariantAlways, PTL DEF Inv
<1> QED
  BY <1>1, <1>2, InitIsInit, PTL DEF Spec, LifecycleKept, A!Spec

=============================================================================
