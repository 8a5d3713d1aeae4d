------------------------------- MODULE Heartbeats -------------------------------
(***************************************************************************)
(* The heartbeats of the batch agents.  A job that has run beats: it makes *)
(* sure that its table exists and writes its row (agentkit/heartbeat.py).  *)
(* The monitoring agent reads the rows across databases, through a pool    *)
(* per database that pool_for opens when it is first asked for             *)
(* (monitoring_agent/api.py), and signals what is overdue or has failed    *)
(* (collectors.py).  The sweep of the scheduler does so, and so does the   *)
(* handler of GET /agents, which only shows the result.                    *)
(*                                                                         *)
(* Each job has a database of its own.  The statements and the openings of *)
(* pools are awaited, so each is a step of its own.  Times are kept as     *)
(* ages, which stop counting once they say "overdue".                      *)
(***************************************************************************)
EXTENDS Integers, FiniteSets

CONSTANTS
  Jobs,      \* heartbeat_sources
  Beats,     \* the calls of beat that may be under way at a time
  Readers,   \* the callers of collect_heartbeats, and
  sweep,     \* the one of them that is the scheduled meta sweep
  Allowed,   \* expected_interval_s x grace, in ticks; 0 is on demand
  MaxBeat,   \* bound on the ticks that a call of beat takes
  None       \* no row

ASSUME HeartbeatAssumption ==
  /\ Jobs # {}
  /\ IsFiniteSet(Readers) /\ sweep \in Readers
  /\ Allowed \in Nat /\ MaxBeat \in Nat

Ages == 0..(Allowed + 1)

Older(age) == IF age <= Allowed THEN age + 1 ELSE age

(* written: history, the age of the write rather than of its ts. *)
Row == [age : Ages \cup 0..MaxBeat, written : Ages, failed : BOOLEAN]

VARIABLES
  table,    \* the jobs whose table exists
  row,      \* [Jobs -> Row \cup {None}]
  beats,    \* [Beats -> Beat]
  pools,    \* the jobs in cross_db_pools
  opened,   \* [Jobs -> Nat], the pools opened and not closed
  readers   \* [Readers -> Reader]

database == <<table, row>>
vars == <<database, beats, pools, opened, readers>>

Beat == [pc     : {"idle", "create", "upsert"},
         job    : Jobs,
         age    : 0..MaxBeat,     \* of its ts
         failed : BOOLEAN]        \* what it says: failed or partial, or else

Reader == [pc   : {"idle", "next", "open", "query", "answer", "judged"},
           todo : SUBSET Jobs,
           job  : Jobs,
           got  : [Jobs -> Row \cup {None}],  \* rows read,
           read : SUBSET Jobs]                \* of these jobs

IdleBeat == [pc |-> "idle", job |-> CHOOSE j \in Jobs : TRUE, age |-> 0, failed |-> FALSE]

IdleReader == [pc |-> "idle", todo |-> {}, job |-> CHOOSE j \in Jobs : TRUE,
               got |-> [j \in Jobs |-> None], read |-> {}]

TypeOK ==
  /\ table \in SUBSET Jobs
  /\ row \in [Jobs -> Row \cup {None}]
  /\ beats \in [Beats -> Beat]
  /\ pools \in SUBSET Jobs
  /\ opened \in [Jobs -> Nat]
  /\ readers \in [Readers -> Reader]

Init ==
  /\ table = {}
  /\ row = [j \in Jobs |-> None]
  /\ beats = [b \in Beats |-> IdleBeat]
  /\ pools = {}
  /\ opened = [j \in Jobs |-> 0]
  /\ readers = [r \in Readers |-> IdleReader]

-----------------------------------------------------------------------------
(* Mutated forms of the definitions below, each a plausible bug. *)

UpsertedKeepsTs(old, beat) ==
  [age |-> IF old = None THEN beat.age ELSE old.age, written |-> 0, failed |-> beat.failed]

SignalsIfReported(r) == r # None /\ (r.failed \/ (Allowed > 0 /\ r.age > Allowed))

CachedNever(j) == pools

-----------------------------------------------------------------------------
(* beat.  Its ts is read first.  The job says what became of its run, or    *)
(* that it has started one.                                                *)
BeginBeat(b, j, failed) ==
  /\ beats[b].pc = "idle"
  /\ beats' = [beats EXCEPT ![b] = [pc |-> "create", job |-> j, age |-> 0, failed |-> failed]]
  /\ UNCHANGED <<database, pools, opened, readers>>

(* create_heartbeat_table; an agent may also call it when it starts. *)
CreateTable(j) ==
  /\ table' = table \cup {j}
  /\ UNCHANGED <<row, beats, pools, opened, readers>>

EnsureTable(b) ==
  /\ beats[b].pc = "create"
  /\ table' = table \cup {beats[b].job}
  /\ beats' = [beats EXCEPT ![b].pc = "upsert"]
  /\ UNCHANGED <<row, pools, opened, readers>>

(* The row that the upsert leaves. *)
Upserted(old, beat) == [age |-> beat.age, written |-> 0, failed |-> beat.failed]

Upsert(b) ==
  LET j == beats[b].job IN
  /\ beats[b].pc = "upsert"
  /\ row' = [row EXCEPT ![j] = Upserted(@, beats[b])]
  /\ beats' = [beats EXCEPT ![b] = IdleBeat]
  /\ UNCHANGED <<table, pools, opened, readers>>

(* A statement fails, or the job dies. *)
BeatFails(b) ==
  /\ beats[b].pc # "idle"
  /\ beats' = [beats EXCEPT ![b] = IdleBeat]
  /\ UNCHANGED <<database, pools, opened, readers>>

-----------------------------------------------------------------------------
(* collect_heartbeats. *)
Set(r, reader) == readers' = [readers EXCEPT ![r] = reader]

Begin(r) ==
  /\ readers[r].pc = "idle"
  /\ Set(r, [IdleReader EXCEPT !.pc = "next", !.todo = Jobs])
  /\ UNCHANGED <<database, beats, pools, opened>>

(* pool_for: the lookup, and then the opening of a pool that is not there ...*)
LookUp(r, j) ==
  /\ readers[r].pc = "next" /\ j \in readers[r].todo
  /\ Set(r, [readers[r] EXCEPT !.pc = IF j \in pools THEN "query" ELSE "open",
                               !.job = j, !.todo = @ \ {j}])
  /\ UNCHANGED <<database, beats, pools, opened>>

(* ... after which it is cached, whatever has been cached meanwhile. *)
Cached(j) == pools \cup {j}

Opened(r) ==
  /\ readers[r].pc = "open"
  /\ pools' = Cached(readers[r].job)
  /\ opened' = [opened EXCEPT ![readers[r].job] = @ + 1]
  /\ Set(r, [readers[r] EXCEPT !.pc = "query"])
  /\ UNCHANGED <<database, beats>>

(* last_beat: what the SELECT sees, and then its answer.  With the last one *)
(* all rows are judged, by the clock of that moment.                       *)
Onward(reader) == IF reader.todo = {} THEN "judged" ELSE "next"

Query(r) ==
  LET j == readers[r].job IN
  /\ readers[r].pc = "query" /\ j \in table
  /\ Set(r, [readers[r] EXCEPT !.pc = "answer", !.got[j] = row[j]])
  /\ UNCHANGED <<database, beats, pools, opened>>

Answer(r) ==
  /\ readers[r].pc = "answer"
  /\ Set(r, [readers[r] EXCEPT !.pc = Onward(readers[r]), !.read = @ \cup {readers[r].job}])
  /\ UNCHANGED <<database, beats, pools, opened>>

(* The database does not answer, or it has no such table: the job is        *)
(* skipped.                                                                *)
ReadFails(r) ==
  /\ readers[r].pc \in {"open", "query", "answer"}
  /\ Set(r, [readers[r] EXCEPT !.pc = Onward(readers[r]), !.got[readers[r].job] = None])
  /\ UNCHANGED <<database, beats, pools, opened>>

(* heartbeat_to_signal: failed, overdue, or never reported. *)
Overdue(r) == Allowed > 0 /\ (r = None \/ r.age > Allowed)

Signals(r) == (r # None /\ r.failed) \/ Overdue(r)

Return(r) ==
  /\ readers[r].pc = "judged"
  /\ Set(r, IdleReader)
  /\ UNCHANGED <<database, beats, pools, opened>>

(* The monitoring agent starts anew. *)
Restart ==
  /\ pools' = {}
  /\ opened' = [j \in Jobs |-> 0]
  /\ readers' = [r \in Readers |-> IdleReader]
  /\ UNCHANGED <<database, beats>>

OlderRow(r) ==
  IF r = None THEN None
  ELSE [r EXCEPT !.age = Older(@), !.written = Older(@)]

(* Time passes: a call of beat does not outlast its bound. *)
Tick ==
  /\ \A b \in Beats : beats[b].pc # "idle" => beats[b].age < MaxBeat
  /\ row' = [j \in Jobs |-> OlderRow(row[j])]
  /\ beats' = [b \in Beats |-> IF beats[b].pc = "idle" THEN beats[b]
                              ELSE [beats[b] EXCEPT !.age = @ + 1]]
  /\ readers' = [r \in Readers |->
                   IF readers[r].pc = "judged" THEN readers[r]
                   ELSE [readers[r] EXCEPT !.got =
                           [j \in Jobs |-> OlderRow(readers[r].got[j])]]]
  /\ UNCHANGED <<table, pools, opened>>

ReaderStep(r) ==
  \/ \E j \in Jobs : LookUp(r, j)
  \/ Opened(r) \/ Query(r) \/ Answer(r) \/ ReadFails(r) \/ Return(r)

Next ==
  \/ \E b \in Beats, j \in Jobs, failed \in BOOLEAN : BeginBeat(b, j, failed)
  \/ \E b \in Beats : EnsureTable(b) \/ Upsert(b) \/ BeatFails(b)
  \/ \E j \in Jobs : CreateTable(j)
  \/ \E r \in Readers : Begin(r) \/ ReaderStep(r)
  \/ Restart
  \/ Tick

Spec == Init /\ [][Next]_vars

(* Every await of a sweep ends, the interval job starts it again and again, *)
(* the agent is not restarted for ever, and the databases answer it now and *)
(* then.                                                                   *)
Fairness ==
  /\ <>[][~Restart]_vars
  /\ WF_vars(Begin(sweep)) /\ WF_vars(ReaderStep(sweep))
  /\ \A j \in Jobs :
       LET of(A) == A /\ readers[sweep].job = j IN
       SF_vars(of(Opened(sweep))) /\ SF_vars(of(Query(sweep))) /\ SF_vars(of(Answer(sweep)))

LiveSpec == Spec /\ Fairness

-----------------------------------------------------------------------------
(* PROPERTIES *)

Signalled(r, j) ==
  readers[r].pc = "judged" /\ j \in readers[r].read /\ Signals(readers[r].got[j])

Well(r) == r # None /\ ~r.failed /\ r.age <= Allowed

(* A job that stays silent or failed, if a beat of it is expected at all,   *)
(* is signalled by the scheduled sweep again and again, also if it has      *)
(* never reported, whoever else reads and whatever a late beat of another   *)
(* run has written: as long as its table exists, without which the read     *)
(* fails and the job is skipped (collect_heartbeats, heartbeat_to_signal).  *)
SilenceIsSignalled ==
  \A j \in Jobs :
    Allowed > 0 /\ <>[](j \in table /\ ~Well(row[j])) => []<>Signalled(sweep, j)

(* A job is only signalled as overdue if the beat that the reader found had *)
(* been written for the interval and its grace at the moment of judgement,  *)
(* give or take the time that a beat takes: runs that overlap and beat in   *)
(* the wrong order move the ts back by no more (beat).  The age is taken    *)
(* from the clock at that moment (heartbeat_to_signal), not at the read:    *)
(* a beat written between the two is not seen, and a row read in time and   *)
(* answered slowly may be judged overdue.                                  *)
OverdueOnlyIfSilent ==
  \A r \in Readers, j \in Jobs :
    LET got == readers[r].got[j] IN
    Signalled(r, j) /\ got # None /\ ~got.failed => got.written + MaxBeat > Allowed

(* However long it runs, the monitoring agent has no more pools of a        *)
(* database than there are callers, those in the making included: callers   *)
(* that look it up at the same time may open one each, and all but one are  *)
(* lost, but later callers find the one that was cached (pool_for).        *)
PoolsAreFew ==
  \A j \in Jobs :
    opened[j] + Cardinality({r \in Readers : readers[r].pc = "open" /\ readers[r].job = j})
      <= Cardinality(Readers)

=============================================================================
