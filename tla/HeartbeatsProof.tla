--------------------------- MODULE HeartbeatsProof ---------------------------
(***************************************************************************)
(* Proofs about Heartbeats, for every number of jobs, of overlapping beats  *)
(* and of readers, every interval and every bound on a beat.               *)
(***************************************************************************)
EXTENDS Heartbeats, FiniteSetTheorems, TLAPS

-----------------------------------------------------------------------------
(* The inductive invariant, in its parts. *)

(* A beat's ts is older than its write by no more than the beat takes, in   *)
(* the table and in what was read of it.                                   *)
InTime(r) == r # None => r.age <= r.written + MaxBeat

RowInv ==
  /\ \A j \in Jobs : InTime(row[j])
  /\ \A r \in Readers, j \in Jobs : InTime(readers[r].got[j])

Opening(j) == {r \in Readers : readers[r].pc = "open" /\ readers[r].job = j}

(* A pool that is not cached has not been opened, so whoever opens one has  *)
(* looked it up before the first was; each of the readers has at most once. *)
PoolInv ==
  \A j \in Jobs :
    /\ j \notin pools => opened[j] = 0
    /\ opened[j] + Cardinality(Opening(j)) <= Cardinality(Readers)

IInv == RowInv /\ PoolInv

-----------------------------------------------------------------------------
(* Facts about the operators. *)

LEMMA SomeJob == (CHOOSE j \in Jobs : TRUE) \in Jobs
  BY HeartbeatAssumption

LEMMA IdleBeatIsBeat == IdleBeat \in Beat /\ IdleBeat.pc = "idle"
  BY SomeJob, HeartbeatAssumption DEF IdleBeat, Beat

LEMMA IdleReaderIsReader ==
  /\ IdleReader \in Reader
  /\ IdleReader.pc = "idle"
  /\ \A j \in Jobs : IdleReader.got[j] = None
  BY SomeJob DEF IdleReader, Reader

LEMMA OlderIsAge ==
  ASSUME NEW age \in Nat
  PROVE  /\ Older(age) \in Nat
         /\ age \in Ages => Older(age) \in Ages
         /\ age \in Ages \cup 0..MaxBeat => Older(age) \in Ages \cup 0..MaxBeat
  BY HeartbeatAssumption DEF Older, Ages

LEMMA OlderRowIsRow ==
  ASSUME NEW r \in Row \cup {None}
  PROVE  OlderRow(r) \in Row \cup {None}
<1>1. CASE r = None
  BY <1>1 DEF OlderRow
<1>2. CASE r # None
  <2>1. /\ r \in Row /\ r.age \in Nat /\ r.written \in Nat
        /\ r.age \in Ages \cup 0..MaxBeat /\ r.written \in Ages
    BY <1>2, HeartbeatAssumption DEF Row, Ages
  <2>2. Older(r.age) \in Ages \cup 0..MaxBeat /\ Older(r.written) \in Ages
    BY <2>1, OlderIsAge
  <2>3. OlderRow(r) = [r EXCEPT !.age = Older(r.age), !.written = Older(r.written)]
    BY <1>2 DEF OlderRow
  <2> QED
    BY <2>1, <2>2, <2>3 DEF Row
<1> QED
  BY <1>1, <1>2

(* Ageing keeps the distance of the ts and the write. *)
LEMMA InTimeAges ==
  ASSUME NEW r \in Row \cup {None}, InTime(r)
  PROVE  InTime(OlderRow(r))
<1>1. CASE r = None
  BY <1>1 DEF OlderRow, InTime
<1>2. CASE r # None
  <2>1. /\ r \in Row /\ r.age \in Nat /\ r.written \in Nat /\ r.written <= Allowed + 1
        /\ r.age <= r.written + MaxBeat
    BY <1>2, HeartbeatAssumption DEF Row, Ages, InTime
  <2>2. Older(r.age) <= Older(r.written) + MaxBeat
    BY <2>1, HeartbeatAssumption DEF Older
  <2>3. /\ OlderRow(r).age = Older(r.age)
        /\ OlderRow(r).written = Older(r.written)
    BY <1>2, <2>1 DEF OlderRow, Row
  <2> QED
    BY <2>2, <2>3 DEF InTime
<1> QED
  BY <1>1, <1>2

LEMMA UpsertedIsRow ==
  ASSUME NEW old, NEW beat \in Beat
  PROVE  Upserted(old, beat) \in Row /\ InTime(Upserted(old, beat))
  BY HeartbeatAssumption DEF Upserted, Row, Ages, Beat, InTime

-----------------------------------------------------------------------------
(* Type correctness. *)

LEMMA InitTypeOK == Init => TypeOK
  BY IdleBeatIsBeat, IdleReaderIsReader DEF Init, TypeOK

(* A step of reader r leaves a reader there. *)
LEMMA ReaderTyped ==
  ASSUME TypeOK, NEW r \in Readers,
         Begin(r) \/ ReaderStep(r)
  PROVE  readers' \in [Readers -> Reader]
<1>0. readers[r] \in Reader /\ readers \in [Readers -> Reader] /\ readers[r].job \in Jobs
  BY DEF TypeOK, Reader
<1>1. ASSUME NEW reader \in Reader, Set(r, reader)
      PROVE  readers' \in [Readers -> Reader]
  BY <1>0, <1>1 DEF Set
<1>2. ASSUME Begin(r)
      PROVE  readers' \in [Readers -> Reader]
  <2>1. [IdleReader EXCEPT !.pc = "next", !.todo = Jobs] \in Reader
    BY IdleReaderIsReader DEF Reader
  <2> QED
    BY <1>2, <2>1, <1>1 DEF Begin
<1>3. ASSUME NEW j \in Jobs, LookUp(r, j)
      PROVE  readers' \in [Readers -> Reader]
  <2>1. [readers[r] EXCEPT !.pc = IF j \in pools THEN "query" ELSE "open",
                           !.job = j, !.todo = @ \ {j}] \in Reader
    BY <1>0 DEF Reader
  <2> QED
    BY <1>3, <2>1, <1>1 DEF LookUp
<1>4. ASSUME Opened(r)
      PROVE  readers' \in [Readers -> Reader]
  <2>1. [readers[r] EXCEPT !.pc = "query"] \in Reader
    BY <1>0 DEF Reader
  <2> QED
    BY <1>4, <2>1, <1>1 DEF Opened
<1>5. ASSUME Query(r)
      PROVE  readers' \in [Readers -> Reader]
  <2>1. row[readers[r].job] \in Row \cup {None}
    BY <1>0 DEF TypeOK
  <2>2. [readers[r] EXCEPT !.pc = "answer",
                           !.got[readers[r].job] = row[readers[r].job]] \in Reader
    BY <1>0, <2>1 DEF Reader
  <2> QED
    BY <1>5, <2>2, <1>1 DEF Query
<1>6. ASSUME Answer(r)
      PROVE  readers' \in [Readers -> Reader]
  <2>1. [readers[r] EXCEPT !.pc = Onward(readers[r]),
                           !.read = @ \cup {readers[r].job}] \in Reader
    BY <1>0 DEF Reader, Onward
  <2> QED
    BY <1>6, <2>1, <1>1 DEF Answer
<1>7. ASSUME ReadFails(r)
      PROVE  readers' \in [Readers -> Reader]
  <2>1. [readers[r] EXCEPT !.pc = Onward(readers[r]),
                           !.got[readers[r].job] = None] \in Reader
    BY <1>0 DEF Reader, Onward
  <2> QED
    BY <1>7, <2>1, <1>1 DEF ReadFails
<1>8. ASSUME Return(r)
      PROVE  readers' \in [Readers -> Reader]
  BY <1>8, <1>1, IdleReaderIsReader DEF Return
<1> QED
  BY <1>2, <1>3, <1>4, <1>5, <1>6, <1>7, <1>8 DEF ReaderStep

LEMMA BeatTyped ==
  ASSUME TypeOK, NEW b \in Beats,
         \/ \E j \in Jobs, failed \in BOOLEAN : BeginBeat(b, j, failed)
         \/ EnsureTable(b) \/ Upsert(b) \/ BeatFails(b)
  PROVE  /\ beats' \in [Beats -> Beat]
         /\ row' \in [Jobs -> Row \cup {None}]
         /\ table' \in SUBSET Jobs
<1>0. beats[b] \in Beat /\ beats[b].job \in Jobs
  BY DEF TypeOK, Beat
<1>1. ASSUME NEW j \in Jobs, NEW failed \in BOOLEAN, BeginBeat(b, j, failed)
      PROVE  beats' \in [Beats -> Beat] /\ row' = row /\ table' = table
  <2>1. [pc |-> "create", job |-> j, age |-> 0, failed |-> failed] \in Beat
    BY HeartbeatAssumption DEF Beat
  <2> QED
    BY <1>1, <2>1 DEF BeginBeat, database, TypeOK
<1>2. ASSUME EnsureTable(b)
      PROVE  beats' \in [Beats -> Beat] /\ row' = row /\ table' \in SUBSET Jobs
  <2>1. [beats[b] EXCEPT !.pc = "upsert"] \in Beat
    BY <1>0 DEF Beat
  <2> QED
    BY <1>0, <1>2, <2>1 DEF EnsureTable, TypeOK
<1>3. ASSUME Upsert(b)
      PROVE  /\ beats' \in [Beats -> Beat] /\ row' \in [Jobs -> Row \cup {None}]
             /\ table' = table
  BY <1>0, <1>3, IdleBeatIsBeat, UpsertedIsRow DEF Upsert, TypeOK
<1>4. ASSUME BeatFails(b)
      PROVE  beats' \in [Beats -> Beat] /\ row' = row /\ table' = table
  BY <1>4, IdleBeatIsBeat DEF BeatFails, database, TypeOK
<1> QED
  BY <1>1, <1>2, <1>3, <1>4 DEF TypeOK

LEMMA TickTyped ==
  ASSUME TypeOK, Tick
  PROVE  TypeOK'
<1>1. row' \in [Jobs -> Row \cup {None}]
  BY OlderRowIsRow DEF Tick, TypeOK
<1>2. beats' \in [Beats -> Beat]
  <2>1. ASSUME NEW b \in Beats, beats[b].pc # "idle"
        PROVE  [beats[b] EXCEPT !.age = @ + 1] \in Beat
    BY <2>1, HeartbeatAssumption DEF Tick, TypeOK, Beat
  <2> QED
    BY <2>1 DEF Tick, TypeOK
<1>3. readers' \in [Readers -> Reader]
  <2>1. ASSUME NEW r \in Readers
        PROVE  [readers[r] EXCEPT !.got =
                  [j \in Jobs |-> OlderRow(readers[r].got[j])]] \in Reader
    <3>1. readers[r] \in Reader /\ readers[r].got \in [Jobs -> Row \cup {None}]
      BY DEF TypeOK, Reader
    <3>2. [j \in Jobs |-> OlderRow(readers[r].got[j])] \in [Jobs -> Row \cup {None}]
      BY <3>1, OlderRowIsRow
    <3> QED
      BY <3>1, <3>2 DEF Reader
  <2> QED
    BY <2>1 DEF Tick, TypeOK
<1> QED
  BY <1>1, <1>2, <1>3 DEF Tick, TypeOK

LEMMA TypeStep ==
  ASSUME TypeOK, [Next]_vars
  PROVE  TypeOK'
<1>1. ASSUME NEW b \in Beats, NEW j \in Jobs, NEW failed \in BOOLEAN,
             BeginBeat(b, j, failed)
      PROVE  TypeOK'
  BY <1>1, BeatTyped DEF BeginBeat, TypeOK
<1>2. ASSUME NEW b \in Beats, EnsureTable(b) \/ Upsert(b) \/ BeatFails(b)
      PROVE  TypeOK'
  BY <1>2, BeatTyped DEF EnsureTable, Upsert, BeatFails, TypeOK
<1>3. ASSUME NEW j \in Jobs, CreateTable(j)
      PROVE  TypeOK'
  BY <1>3 DEF CreateTable, TypeOK
<1>4. ASSUME NEW r \in Readers, Begin(r) \/ ReaderStep(r)
      PROVE  TypeOK'
  <2>1. readers' \in [Readers -> Reader]
    BY <1>4, ReaderTyped
  <2>2. UNCHANGED <<table, row, beats>>
    BY <1>4 DEF Begin, ReaderStep, LookUp, Opened, Query, Answer, ReadFails, Return, database
  <2>3. CASE Opened(r)
    <3>1. readers[r].job \in Jobs
      BY DEF TypeOK, Reader
    <3>2. pools' \in SUBSET Jobs /\ opened' \in [Jobs -> Nat]
      BY <2>3, <3>1 DEF Opened, Cached, TypeOK
    <3> QED
      BY <2>1, <2>2, <3>2 DEF TypeOK
  <2>4. CASE UNCHANGED <<pools, opened>>
    BY <2>1, <2>2, <2>4 DEF TypeOK
  <2> QED
    BY <1>4, <2>3, <2>4 DEF Begin, ReaderStep, LookUp, Query, Answer, ReadFails, Return
<1>5. CASE Restart
  BY <1>5, IdleReaderIsReader DEF Restart, TypeOK, database
<1>6. CASE Tick
  BY <1>6, TickTyped
<1>7. CASE UNCHANGED vars
  BY <1>7 DEF vars, database, TypeOK
<1> QED
  BY <1>1, <1>2, <1>3, <1>4, <1>5, <1>6, <1>7 DEF Next

(* Every variable of Heartbeats stays within its type (heartbeat.py,        *)
(* collect_heartbeats).                                                    *)
THEOREM TypeCorrect == Spec => []TypeOK
<1>1. Init => TypeOK
  BY InitTypeOK
<1>2. TypeOK /\ [Next]_vars => TypeOK'
  BY TypeStep
<1> QED
  BY <1>1, <1>2, PTL DEF Spec

-----------------------------------------------------------------------------
(* The rows. *)

LEMMA InitInv == Init => IInv
<1> SUFFICES ASSUME Init PROVE IInv
  OBVIOUS
<1>1. RowInv
  BY IdleReaderIsReader DEF Init, RowInv, InTime
<1>2. ASSUME NEW j \in Jobs
      PROVE  Opening(j) = {}
  BY IdleReaderIsReader DEF Init, Opening
<1>3. Cardinality(Readers) \in Nat
  BY FS_CardinalityType, HeartbeatAssumption
<1>4. PoolInv
  BY <1>2, <1>3, FS_EmptySet DEF Init, PoolInv
<1> QED
  BY <1>1, <1>4 DEF IInv

LEMMA RowsInTime ==
  ASSUME TypeOK, RowInv, [Next]_vars, NEW j \in Jobs
  PROVE  InTime(row'[j])
<1>0. InTime(row[j]) /\ row[j] \in Row \cup {None}
  BY DEF RowInv, TypeOK
<1>1. ASSUME NEW b \in Beats, Upsert(b)
      PROVE  InTime(row'[j])
  <2>1. /\ InTime(Upserted(row[j], beats[b]))
        /\ row'[j] = row[j] \/ row'[j] = Upserted(row[j], beats[b])
    BY <1>1, UpsertedIsRow DEF Upsert, TypeOK
  <2> QED
    BY <1>0, <2>1
<1>2. CASE Tick
  <2>1. row'[j] = OlderRow(row[j])
    BY <1>2 DEF Tick
  <2> QED
    BY <1>0, <2>1, InTimeAges
<1>3. CASE row' = row
  BY <1>0, <1>3
<1> QED
  BY <1>1, <1>2, <1>3
  DEF Next, vars, database, BeginBeat, EnsureTable, BeatFails, CreateTable, Begin, ReaderStep,
      LookUp, Opened, Query, Answer, ReadFails, Return, Restart

(* What a reader has read stays as it was, ages, is forgotten, or is what   *)
(* the row now says.                                                       *)
LEMMA GotMoves ==
  ASSUME TypeOK, NEW r \in Readers, NEW j \in Jobs, NEW s \in Readers,
         Begin(s) \/ ReaderStep(s)
  PROVE  readers'[r].got[j] \in {readers[r].got[j], row[j], None}
<1>0. readers[r] \in Reader /\ readers[s] \in Reader /\ readers[s].job \in Jobs
  BY DEF TypeOK, Reader
<1>1. CASE r # s
  <2>1. readers'[r] = readers[r]
    BY <1>1 DEF TypeOK, Begin, ReaderStep, LookUp, Opened, Query, Answer, ReadFails, Return, Set
  <2> QED
    BY <2>1
<1>2. CASE r = s /\ Begin(s)
  <2>1. readers'[r].got = IdleReader.got
    BY <1>2, IdleReaderIsReader DEF Begin, Set, TypeOK, Reader
  <2> QED
    BY <2>1, IdleReaderIsReader
<1>3. ASSUME r = s, NEW k \in Jobs, LookUp(s, k)
      PROVE  readers'[r].got = readers[r].got
  BY <1>0, <1>3 DEF LookUp, Set, TypeOK, Reader
<1>4. CASE r = s /\ Opened(s)
  BY <1>0, <1>4 DEF Opened, Set, TypeOK, Reader
<1>5. CASE r = s /\ Query(s)
  <2>1. readers'[r].got = [readers[r].got EXCEPT ![readers[r].job] = row[readers[r].job]]
    BY <1>0, <1>5 DEF Query, Set, TypeOK, Reader
  <2> QED
    BY <1>0, <2>1 DEF Reader
<1>6. CASE r = s /\ Answer(s)
  BY <1>0, <1>6 DEF Answer, Set, TypeOK, Reader
<1>7. CASE r = s /\ ReadFails(s)
  <2>1. readers'[r].got = [readers[r].got EXCEPT ![readers[r].job] = None]
    BY <1>0, <1>7 DEF ReadFails, Set, TypeOK, Reader
  <2> QED
    BY <1>0, <2>1 DEF Reader
<1>8. CASE r = s /\ Return(s)
  <2>1. readers'[r].got = IdleReader.got
    BY <1>8 DEF Return, Set, TypeOK
  <2> QED
    BY <2>1, IdleReaderIsReader
<1> QED
  BY <1>1, <1>2, <1>3, <1>4, <1>5, <1>6, <1>7, <1>8 DEF ReaderStep

LEMMA ReadInTime ==
  ASSUME TypeOK, RowInv, [Next]_vars, NEW r \in Readers, NEW j \in Jobs
  PROVE  InTime(readers'[r].got[j])
<1>0. /\ readers[r] \in Reader /\ readers[r].got[j] \in Row \cup {None}
      /\ InTime(readers[r].got[j]) /\ InTime(row[j])
  BY DEF RowInv, TypeOK, Reader
<1>1. ASSUME NEW s \in Readers, Begin(s) \/ ReaderStep(s)
      PROVE  InTime(readers'[r].got[j])
  <2>1. readers'[r].got[j] \in {readers[r].got[j], row[j], None}
    BY <1>1, GotMoves
  <2>2. InTime(None)
    BY DEF InTime
  <2> QED
    BY <1>0, <2>1, <2>2
<1>2. CASE Restart
  BY <1>2, IdleReaderIsReader DEF Restart, InTime
<1>3. CASE Tick
  <2>1. CASE readers[r].pc = "judged"
    BY <1>0, <1>3, <2>1 DEF Tick
  <2>2. CASE readers[r].pc # "judged"
    <3>1. readers'[r].got = [k \in Jobs |-> OlderRow(readers[r].got[k])]
      BY <1>0, <1>3, <2>2 DEF Tick, Reader
    <3>2. readers'[r].got[j] = OlderRow(readers[r].got[j])
      BY <3>1
    <3> QED
      BY <1>0, <3>2, InTimeAges
  <2> QED
    BY <2>1, <2>2
<1>4. CASE readers' = readers
  BY <1>0, <1>4
<1> QED
  BY <1>1, <1>2, <1>3, <1>4
  DEF Next, vars, BeginBeat, EnsureTable, Upsert, BeatFails, CreateTable

LEMMA RowStep ==
  ASSUME TypeOK, RowInv, [Next]_vars
  PROVE  RowInv'
<1>1. \A j \in Jobs : InTime(row'[j])
  BY RowsInTime
<1>2. \A r \in Readers, j \in Jobs : InTime(readers'[r].got[j])
  BY ReadInTime
<1> QED
  BY <1>1, <1>2 DEF RowInv, InTime

-----------------------------------------------------------------------------
(* The pools. *)

LEMMA OpeningIsFinite ==
  ASSUME NEW j \in Jobs
  PROVE  /\ IsFiniteSet(Opening(j))
         /\ Cardinality(Opening(j)) \in Nat
         /\ Cardinality(Opening(j)) <= Cardinality(Readers)
         /\ Cardinality(Readers) \in Nat
<1>1. Opening(j) \subseteq Readers
  BY DEF Opening
<1> QED
  BY <1>1, FS_Subset, FS_CardinalityType, HeartbeatAssumption

(* No more readers open a pool of job j, and none has been opened. *)
LEMMA PoolsStay ==
  ASSUME TypeOK, PoolInv, NEW j \in Jobs,
         opened'[j] = opened[j], j \in pools => j \in pools',
         Opening(j)' \subseteq Opening(j)
  PROVE  /\ j \notin pools' => opened'[j] = 0
         /\ opened'[j] + Cardinality(Opening(j)') <= Cardinality(Readers)
<1>1. Cardinality(Opening(j)') <= Cardinality(Opening(j))
  BY OpeningIsFinite, FS_Subset
<1>2. /\ Cardinality(Opening(j)) \in Nat /\ Cardinality(Opening(j)') \in Nat
      /\ Cardinality(Readers) \in Nat /\ opened[j] \in Nat
  BY OpeningIsFinite, FS_Subset, FS_CardinalityType DEF TypeOK
<1> QED
  BY <1>1, <1>2 DEF PoolInv

(* What a reader's step changes of those that open. *)
LEMMA OpeningMoves ==
  ASSUME TypeOK, NEW j \in Jobs, NEW r \in Readers,
         \A s \in Readers \ {r} : readers'[s] = readers[s],
         ~(readers'[r].pc = "open" /\ readers'[r].job = j)
  PROVE  Opening(j)' = Opening(j) \ {r}
  BY DEF Opening

LEMMA PoolStep ==
  ASSUME TypeOK, PoolInv, [Next]_vars
  PROVE  PoolInv'
<1> SUFFICES ASSUME NEW j \in Jobs
             PROVE  /\ j \notin pools' => opened'[j] = 0
                    /\ opened'[j] + Cardinality(Opening(j)') <= Cardinality(Readers)
  BY DEF PoolInv
<1>0. /\ opened[j] \in Nat
      /\ j \notin pools => opened[j] = 0
      /\ opened[j] + Cardinality(Opening(j)) <= Cardinality(Readers)
  BY DEF TypeOK, PoolInv
<1>1. CASE UNCHANGED <<pools, opened, readers>>
  <2>1. Opening(j)' = Opening(j)
    BY <1>1 DEF Opening
  <2> QED
    BY <1>1, <2>1, PoolsStay
<1>2. ASSUME NEW r \in Readers, Begin(r) \/ Query(r) \/ Answer(r) \/ ReadFails(r) \/ Return(r)
      PROVE  /\ j \notin pools' => opened'[j] = 0
             /\ opened'[j] + Cardinality(Opening(j)') <= Cardinality(Readers)
  <2>1. UNCHANGED <<pools, opened>>
    BY <1>2 DEF Begin, Query, Answer, ReadFails, Return
  <2>2. \A s \in Readers \ {r} : readers'[s] = readers[s]
    BY <1>2 DEF TypeOK, Begin, Query, Answer, ReadFails, Return, Set
  <2>3. readers'[r].pc # "open"
    <3>1. readers[r] \in Reader /\ Onward(readers[r]) # "open"
      BY DEF TypeOK, Onward
    <3>2. CASE Begin(r)
      BY <3>2, IdleReaderIsReader DEF TypeOK, Reader, Begin, Set
    <3>3. CASE Query(r)
      BY <3>1, <3>3 DEF TypeOK, Reader, Query, Set
    <3>4. CASE Answer(r)
      <4>1. readers'[r] = [readers[r] EXCEPT !.pc = Onward(readers[r]),
                             !.read = readers[r].read \cup {readers[r].job}]
        BY <3>4 DEF Answer, Set, TypeOK
      <4>2. readers'[r].pc = Onward(readers[r])
        BY <3>1, <4>1 DEF Reader
      <4> QED
        BY <3>1, <4>2
    <3>5. CASE ReadFails(r)
      <4>1. readers'[r] = [readers[r] EXCEPT !.pc = Onward(readers[r]),
                                             !.got[readers[r].job] = None]
        BY <3>5 DEF ReadFails, Set, TypeOK
      <4>2. readers'[r].pc = Onward(readers[r])
        BY <3>1, <4>1 DEF Reader
      <4> QED
        BY <3>1, <4>2
    <3>6. CASE Return(r)
      BY <3>6, IdleReaderIsReader DEF TypeOK, Return, Set
    <3> QED
      BY <1>2, <3>2, <3>3, <3>4, <3>5, <3>6
  <2>4. Opening(j)' \subseteq Opening(j)
    BY <2>2, <2>3, OpeningMoves
  <2> QED
    BY <2>1, <2>4, PoolsStay
<1>3. ASSUME NEW r \in Readers, NEW k \in Jobs, LookUp(r, k)
      PROVE  /\ j \notin pools' => opened'[j] = 0
             /\ opened'[j] + Cardinality(Opening(j)') <= Cardinality(Readers)
  <2>1. UNCHANGED <<pools, opened>>
    BY <1>3 DEF LookUp
  <2>2. \A s \in Readers \ {r} : readers'[s] = readers[s]
    BY <1>3 DEF TypeOK, LookUp, Set
  <2>3. /\ readers'[r].job = k
        /\ readers'[r].pc = IF k \in pools THEN "query" ELSE "open"
    BY <1>3 DEF TypeOK, Reader, LookUp, Set
  <2>4. CASE j \in pools \/ k # j
    <3>1. Opening(j)' \subseteq Opening(j)
      BY <2>2, <2>3, <2>4, OpeningMoves
    <3> QED
      BY <2>1, <3>1, PoolsStay
  <2>5. CASE j \notin pools
    <3>1. opened'[j] = 0 /\ pools' = pools
      BY <1>0, <2>1, <2>5
    <3>2. Opening(j)' \subseteq Readers
      BY DEF Opening
    <3>3. Cardinality(Opening(j)') <= Cardinality(Readers) /\ Cardinality(Opening(j)') \in Nat
      BY <3>2, FS_Subset, FS_CardinalityType, HeartbeatAssumption
    <3> QED
      BY <3>1, <3>3, OpeningIsFinite
  <2> QED
    BY <2>4, <2>5
<1>4. ASSUME NEW r \in Readers, Opened(r)
      PROVE  /\ j \notin pools' => opened'[j] = 0
             /\ opened'[j] + Cardinality(Opening(j)') <= Cardinality(Readers)
  <2>1. /\ readers[r].pc = "open" /\ readers[r].job \in Jobs
        /\ pools' = pools \cup {readers[r].job}
        /\ opened' = [opened EXCEPT ![readers[r].job] = @ + 1]
    BY <1>4 DEF Opened, Cached, TypeOK, Reader
  <2>2. \A s \in Readers \ {r} : readers'[s] = readers[s]
    BY <1>4 DEF TypeOK, Opened, Set
  <2>3. readers'[r].pc = "query"
    BY <1>4 DEF TypeOK, Reader, Opened, Set
  <2>4. Opening(j)' = Opening(j) \ {r}
    BY <2>2, <2>3, OpeningMoves
  <2>5. CASE readers[r].job # j
    BY <2>1, <2>4, <2>5, PoolsStay DEF TypeOK
  <2>6. CASE readers[r].job = j
    <3>1. r \in Opening(j)
      BY <2>1, <2>6 DEF Opening
    <3>2. Cardinality(Opening(j)') = Cardinality(Opening(j)) - 1
      BY <2>4, <3>1, OpeningIsFinite, FS_RemoveElement
    <3>3. j \in pools' /\ opened'[j] = opened[j] + 1
      BY <2>1, <2>6 DEF TypeOK
    <3> QED
      BY <1>0, <3>2, <3>3, OpeningIsFinite
  <2> QED
    BY <2>5, <2>6
<1>5. CASE Restart
  <2>1. Opening(j)' = {} /\ opened'[j] = 0
    BY <1>5, IdleReaderIsReader DEF Restart, Opening
  <2> QED
    BY <2>1, FS_EmptySet, OpeningIsFinite
<1>6. CASE Tick
  <2>1. ASSUME NEW r \in Readers
        PROVE  readers'[r].pc = readers[r].pc /\ readers'[r].job = readers[r].job
    BY <1>6 DEF Tick, TypeOK, Reader
  <2>2. Opening(j)' = Opening(j)
    BY <2>1 DEF Opening
  <2> QED
    BY <1>6, <2>2, PoolsStay DEF Tick
<1> QED
  BY <1>1, <1>2, <1>3, <1>4, <1>5, <1>6
  DEF Next, vars, ReaderStep, BeginBeat, EnsureTable, Upsert, BeatFails, CreateTable

-----------------------------------------------------------------------------
(* The theorems. *)

LEMMA Inductive == Spec => [](TypeOK /\ IInv)
<1>1. Init => TypeOK /\ IInv
  BY InitTypeOK, InitInv
<1>2. TypeOK /\ IInv /\ [Next]_vars => TypeOK' /\ IInv'
  BY TypeStep, RowStep, PoolStep DEF IInv
<1> QED
  BY <1>1, <1>2, PTL DEF Spec

(* A job is only signalled as overdue if the beat that the reader found is, *)
(* when it is judged, older than the interval and its grace, but for the    *)
(* time that a beat takes, whatever runs overlap and whatever readers read  *)
(* (collect_heartbeats, heartbeat_to_signal).                              *)
THEOREM OverdueJobsAreSilent == Spec => []OverdueOnlyIfSilent
<1>1. ASSUME TypeOK, IInv, NEW r \in Readers, NEW j \in Jobs,
             Signalled(r, j), readers[r].got[j] # None, ~readers[r].got[j].failed
      PROVE  readers[r].got[j].written + MaxBeat > Allowed
  <2>1. /\ readers[r].got[j] \in Row
        /\ readers[r].got[j].age <= readers[r].got[j].written + MaxBeat
    BY <1>1 DEF IInv, RowInv, InTime, TypeOK, Reader
  <2>2. readers[r].got[j].age \in Nat /\ readers[r].got[j].written \in Nat
    BY <2>1, HeartbeatAssumption DEF Row, Ages
  <2>3. readers[r].got[j].age > Allowed
    BY <1>1 DEF Signalled, Signals, Overdue
  <2> QED
    BY <2>1, <2>2, <2>3, HeartbeatAssumption
<1>2. TypeOK /\ IInv => OverdueOnlyIfSilent
  BY <1>1 DEF OverdueOnlyIfSilent
<1> QED
  BY <1>2, Inductive, PTL

(* However many callers look a database up at once, and however long the    *)
(* agent runs, it has no more pools of a database than it has callers       *)
(* (pool_for).                                                             *)
THEOREM PoolsStayFew == Spec => []PoolsAreFew
<1>1. TypeOK /\ IInv => PoolsAreFew
  BY DEF IInv, PoolInv, PoolsAreFew, Opening
<1> QED
  BY <1>1, Inductive, PTL

=============================================================================
