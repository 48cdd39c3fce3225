--------------------------- MODULE CliIngest_proofs ---------------------------
(***************************************************************************)
(* Proofs about CliIngest for every set of commands, alerts, feeds and     *)
(* limits, and any number of runs.                                         *)
(***************************************************************************)
EXTENDS CliIngest, AlertDatabase_proofs, FiniteSetTheorems

(***************************************************************************)
(* The inductive invariant.                                                *)
(***************************************************************************)

(* What every contents of the file and of the writer's copy satisfies.     *)
Sound(d) ==
    /\ IsFiniteSet(d.raw)
    /\ Tracked(d, 0)
    /\ \A s \in KnownSources(d) : d.src[s].count = Cardinality(RowsOf(d, s))
    /\ \A a, b \in d.raw : SameKey(a, b) => a = b

(* The writer's copy extends the file; with no writer there is no copy.    *)
FileInv ==
    /\ db.raw \subseteq work.raw
    /\ writer = None => work = db
    /\ Sound(db)
    /\ Sound(work)

(* Where p is in its batch.  After a failed write the rows before the bad  *)
(* one stay counted by row[p].                                             *)
BatchInv(p) ==
    /\ row[p] <= Len(batch[p]) + 1
    /\ pc[p] \in Ended \cup {"begin"} => batch[p] = <<>>
    /\ pc[p] \in Ended \cup {"begin", "fetch"} => row[p] = 1
    /\ pc[p] = "insert"
         => /\ batch[p] # <<>>
            /\ row[p] > 1 => writer = p
            /\ \A i \in 1 .. row[p] - 1 : Stored(work, batch[p][i])

(* Each row that p's run added was received and is not waiting to be       *)
(* inserted.                                                               *)
CountInv(p) ==
    /\ IsFiniteSet(added[p])
    /\ Cardinality(added[p]) + Len(batch[p]) + 1 <= run[p].ingested + row[p]

(* The run's row is settled by the last update only, and then says what    *)
(* the object says.                                                        *)
RowInv(p) ==
    /\ Settled(p) => runs[p] = run[p] /\ pc[p] \in Ended \cup {"close"}
    /\ pc[p] = "begin" => run[p].status = "running"

Successful(p) == run[p].status = "completed" /\ ~ raised[p]

(* A run is called complete after its remainder.                           *)
StatusInv(p) ==
    Successful(p) => batch[p] = <<>> /\ pc[p] \in Ended \cup {"final", "close"}

(* What was delivered is stored or waits in the batch.                     *)
DeliveredInv(p) ==
    pc[p] \in {"begin", "fetch", "insert"} \/ Successful(p)
        => \A a \in Delivered(p) :
              Stored(db, a) \/ \E i \in 1 .. Len(batch[p]) : batch[p][i] = a

ProcInv(p) ==
    BatchInv(p) /\ CountInv(p) /\ RowInv(p) /\ StatusInv(p) /\ DeliveredInv(p)

IInv == TypeOK /\ FileInv /\ \A p \in Procs : ProcInv(p)

-----------------------------------------------------------------------------
(* One row of write_batch keeps the contents sound: the trigger counts the *)
(* row it stores, and starts at one when no alert of the source is there.  *)
LEMMA InsertSound ==
    ASSUME NEW d \in Database, NEW a \in Alerts, Sound(d)
    PROVE  Sound(InsertOrIgnore(d, a))
<1>1. CASE Stored(d, a)
  BY <1>1 DEF InsertOrIgnore
<1>2. CASE ~ Stored(d, a)
  <2> DEFINE e == [raw |-> d.raw \cup {a}, src |-> TrackSource(d.src, a)]
             sa == SourceOf[a]
  <2>1. InsertOrIgnore(d, a) = e
    BY <1>2 DEF InsertOrIgnore
  <2>2. Tracked(e, 0)
    BY <2>1, InsertPreserves DEF Sound
  <2>3. a \notin d.raw
    BY <1>2 DEF Stored, SameKey
  <2>4. /\ d.raw \subseteq Alerts
        /\ d.src \in [Sources -> Tracking \cup {None}]
        /\ sa \in Sources
    BY AlertsAssumption DEF Database
  <2>5. IsFiniteSet(e.raw)
    BY FS_AddElement DEF Sound
  <2>6. \A b, c \in e.raw : SameKey(b, c) => b = c
    BY <1>2 DEF Sound, Stored, SameKey
  <2>7. ASSUME NEW s \in KnownSources(e)
        PROVE  e.src[s].count = Cardinality(RowsOf(e, s))
    <3>1. CASE s # sa
      <4>1. e.src[s] = d.src[s] /\ s \in KnownSources(d)
        BY <2>4, <2>7, <3>1, TrackSourceRows DEF KnownSources
      <4>2. RowsOf(e, s) = RowsOf(d, s)
        BY <3>1 DEF RowsOf
      <4> QED BY <4>1, <4>2 DEF Sound
    <3>2. CASE s = sa
      <4>1. RowsOf(e, sa) = RowsOf(d, sa) \cup {a} /\ a \notin RowsOf(d, sa)
        BY <2>3 DEF RowsOf
      <4>2. IsFiniteSet(RowsOf(d, sa))
        <5>1. RowsOf(d, sa) \in SUBSET d.raw
          BY DEF RowsOf
        <5> QED BY <5>1, FS_Subset DEF Sound
      <4>3. Cardinality(RowsOf(e, sa)) = Cardinality(RowsOf(d, sa)) + 1
        BY <4>1, <4>2, FS_AddElement
      <4>4. e.src[sa] = Upsert(d.src[sa], MjdOf[a])
        BY <2>4, TrackSourceRows
      <4>5. CASE d.src[sa] = None
        <5>1. RowsOf(d, sa) = {}
          <6>1. ASSUME NEW b \in d.raw, SourceOf[b] = sa PROVE FALSE
            BY <2>4, <4>5, <6>1, AlertsAssumption
               DEF Sound, Tracked, RecentSourceTracked
          <6> QED BY <6>1 DEF RowsOf
        <5>2. Cardinality(RowsOf(d, sa)) = 0
          BY <5>1, FS_EmptySet
        <5> QED BY <3>2, <4>3, <4>4, <4>5, <5>2 DEF Upsert
      <4>6. CASE d.src[sa] # None
        <5>1. d.src[sa].count = Cardinality(RowsOf(d, sa))
          BY <2>4, <4>6 DEF Sound, KnownSources
        <5> QED BY <3>2, <4>3, <4>4, <4>6, <5>1 DEF Upsert
      <4> QED BY <4>5, <4>6
    <3> QED BY <3>1, <3>2
  <2> HIDE DEF e
  <2> QED BY <2>1, <2>2, <2>5, <2>6, <2>7 DEF Sound
<1> QED BY <1>1, <1>2

(* The known sources of sound contents are the ones of its alerts.         *)
LEMMA KnownAreLogged ==
    ASSUME NEW d \in Database, Sound(d)
    PROVE  KnownSources(d) = {SourceOf[a] : a \in d.raw}
<1>1. d.raw \subseteq Alerts
  BY DEF Database
<1>2. \A a \in d.raw : SourceOf[a] \in KnownSources(d)
  BY <1>1, AlertsAssumption
     DEF Sound, Tracked, RecentSourceTracked, KnownSources
<1>3. \A s \in KnownSources(d) : \E a \in d.raw : SourceOf[a] = s
  BY DEF Sound, Tracked, NoPhantomSource, KnownSources
<1> QED BY <1>2, <1>3

-----------------------------------------------------------------------------
(* A step of another command.                                              *)
Untouched(q) ==
    /\ pc'[q] = pc[q]
    /\ start'[q] = start[q]
    /\ pos'[q] = pos[q]
    /\ batch'[q] = batch[q]
    /\ row'[q] = row[q]
    /\ run'[q] = run[q]
    /\ runs'[q] = runs[q]
    /\ added'[q] = added[q]
    /\ raised'[q] = raised[q]

LEMMA BystanderInv ==
    ASSUME IInv, NEW q \in Procs, Untouched(q), db.raw \subseteq db'.raw,
           writer = q => writer' = q /\ work' = work
    PROVE  ProcInv(q)'
<1>1. ProcInv(q)
  BY DEF IInv
<1>2. BatchInv(q)'
  <2>1. row[q] \in Nat \ {0}
    BY DEF IInv, TypeOK
  <2>2. CASE row[q] = 1
    BY <1>1, <2>2 DEF ProcInv, BatchInv, Untouched, Ended
  <2>3. CASE row[q] > 1 /\ pc[q] = "insert"
    BY <1>1, <2>3 DEF ProcInv, BatchInv, Untouched, Ended
  <2>4. CASE pc[q] # "insert"
    BY <1>1, <2>4 DEF ProcInv, BatchInv, Untouched, Ended
  <2> QED BY <2>1, <2>2, <2>3, <2>4
<1>3. CountInv(q)' /\ RowInv(q)' /\ StatusInv(q)'
  BY <1>1 DEF ProcInv, CountInv, RowInv, StatusInv, Successful, Settled,
              Untouched, Ended
<1>4. DeliveredInv(q)'
  <2>1. Delivered(q)' = Delivered(q)
    BY DEF Delivered, Untouched
  <2>2. \A a : Stored(db, a) => Stored(db', a)
    BY DEF Stored
  <2>3. pc'[q] \in {"begin", "fetch", "insert"} \/ Successful(q)'
          => pc[q] \in {"begin", "fetch", "insert"} \/ Successful(q)
    BY DEF Successful, Untouched
  <2>4. batch'[q] = batch[q]
    BY DEF Untouched
  <2> QED BY <1>1, <2>1, <2>2, <2>3, <2>4 DEF ProcInv, DeliveredInv, Stored
<1> QED BY <1>2, <1>3, <1>4 DEF ProcInv

(* A commit of p's copy.                                                   *)
LEMMA CommitKeeps ==
    ASSUME IInv, NEW p \in Procs, CanWrite(p), CommitOf(p, work)
    PROVE  /\ FileInv'
           /\ db' = work
           /\ db' \in Database /\ work' \in Database
           /\ writer' \in Procs \cup {None}
           /\ db.raw \subseteq db'.raw
           /\ \A q \in Procs \ {p} : writer # q
BY CliAssumption DEF IInv, TypeOK, FileInv, CommitOf, CanWrite

(* The loss of p's connection.                                             *)
LEMMA DisconnectKeeps ==
    ASSUME IInv, NEW p \in Procs, Disconnect(p)
    PROVE  /\ FileInv'
           /\ db' = db /\ work' \in Database
           /\ writer' \in Procs \cup {None}
           /\ \A q \in Procs \ {p} :
                 writer = q => writer' = q /\ work' = work
BY DEF IInv, TypeOK, FileInv, Disconnect

(* A step that leaves the file and the lock alone.                         *)
LEMMA DatabaseUnchanged ==
    ASSUME IInv, UNCHANGED database
    PROVE  /\ FileInv'
           /\ db' \in Database /\ work' \in Database
           /\ writer' \in Procs \cup {None}
           /\ db' = db /\ work' = work /\ writer' = writer
BY DEF IInv, TypeOK, FileInv, database

-----------------------------------------------------------------------------
LEMMA InitIInv == Init => IInv
<1> SUFFICES ASSUME Init PROVE IInv
  OBVIOUS
<1>1. EmptyDatabase \in Database
  BY DEF EmptyDatabase, Database
<1>2. TypeOK
  <2>1. NewRun \in IngestionRun
    BY DEF NewRun, IngestionRun
  <2> QED BY <1>1, <2>1 DEF Init, TypeOK, Ended
<1>3. Sound(EmptyDatabase)
  <2>1. IsFiniteSet(EmptyDatabase.raw)
    BY FS_EmptySet DEF EmptyDatabase
  <2> QED
    BY <2>1 DEF Sound, EmptyDatabase, Tracked, NoPhantomSource,
                RecentSourceTracked, LastSeenCovers, KnownSources
<1>4. FileInv
  BY <1>3 DEF Init, FileInv
<1>5. ASSUME NEW p \in Procs PROVE ProcInv(p)
  <2>1. IsFiniteSet(added[p]) /\ Cardinality(added[p]) = 0
    BY FS_EmptySet DEF Init
  <2>2. Delivered(p) = {}
    BY DEF Init, Delivered
  <2> QED
    BY <2>1, <2>2 DEF Init, ProcInv, BatchInv, CountInv, RowInv, StatusInv,
       DeliveredInv, Successful, Settled, NewRun, Ended
<1> QED BY <1>2, <1>4, <1>5 DEF IInv

-----------------------------------------------------------------------------
(* A step of p preserves the invariant when it preserves p's part of it.   *)
LEMMA StepOfOne ==
    ASSUME IInv, NEW p \in Procs,
           TypeOK', FileInv', ProcInv(p)', db.raw \subseteq db'.raw,
           \A q \in Procs \ {p} : Untouched(q),
           \A q \in Procs \ {p} : writer = q => writer' = q /\ work' = work
    PROVE  IInv'
<1>1. ASSUME NEW q \in Procs PROVE ProcInv(q)'
  BY <1>1, BystanderInv
<1> QED BY <1>1 DEF IInv

(* The start of a command: nothing is in memory from the run before.       *)
LEMMA StartKeeps ==
    ASSUME IInv, NEW p \in Procs, Start(p)
    PROVE  IInv'
<1> USE DEF process
<1>1. TypeOK /\ ProcInv(p)
  BY DEF IInv
<1>2. PICK first \in Nat : /\ start' = [start EXCEPT ![p] = first]
                           /\ pos' = [pos EXCEPT ![p] = first]
  <2>1. start[p] .. pos[p] \subseteq Nat
    BY <1>1 DEF TypeOK
  <2> QED BY <2>1 DEF Start
<1>3. TypeOK'
  <2>1. PICK l \in Limits : limit' = [limit EXCEPT ![p] = l]
    BY DEF Start
  <2>2. NewRun \in IngestionRun
    BY DEF NewRun, IngestionRun
  <2> QED
    BY <1>1, <1>2, <2>1, <2>2, DatabaseUnchanged, CliAssumption
       DEF Start, TypeOK, Alive
<1>4. ProcInv(p)'
  <2>1. /\ pc'[p] = "begin" /\ run'[p] = NewRun /\ runs'[p] = None
        /\ added'[p] = {} /\ raised'[p] = FALSE
        /\ batch'[p] = <<>> /\ row'[p] = 1
        /\ start'[p] = first /\ pos'[p] = first
    BY <1>1, <1>2 DEF Start, TypeOK, ProcInv, BatchInv
  <2>2. IsFiniteSet(added'[p]) /\ Cardinality(added'[p]) = 0
    BY <2>1, FS_EmptySet
  <2>3. Delivered(p)' = {}
    BY <2>1 DEF Delivered
  <2> QED
    BY <2>1, <2>2, <2>3 DEF ProcInv, BatchInv, CountInv, RowInv, StatusInv,
       DeliveredInv, Successful, Settled, NewRun, Ended
<1>5. \A q \in Procs \ {p} : Untouched(q)
  BY <1>1, <1>2 DEF Start, TypeOK, Untouched
<1> QED
  BY <1>3, <1>4, <1>5, DatabaseUnchanged, StepOfOne DEF Start

(* A record leaves the feed: skipped, or received into the batch and       *)
(* counted.                                                                *)
LEMMA RecordKeeps ==
    ASSUME IInv, NEW p \in Procs, SkipUndecodable(p) \/ Receive(p)
    PROVE  IInv'
<1> DEFINE a == Feed[p][pos[p] + 1]
<1> USE DEF process
<1>1. TypeOK /\ ProcInv(p)
  BY DEF IInv
<1>2. /\ a \in Alerts
      /\ pos[p] \in Nat
      /\ start[p] \in Nat
      /\ UNCHANGED database
      /\ pos' = [pos EXCEPT ![p] = pos[p] + 1]
      /\ pc[p] = "fetch"
  BY <1>1, CliAssumption DEF SkipUndecodable, Receive, HasRecord, TypeOK
<1>3. Delivered(p)' \subseteq Delivered(p) \cup {a}
  <2>1. start'[p] = start[p] /\ pos'[p] = pos[p] + 1
    BY <1>1, <1>2 DEF SkipUndecodable, Receive, TypeOK
  <2>2. start[p] + 1 .. pos[p] + 1
          \subseteq (start[p] + 1 .. pos[p]) \cup {pos[p] + 1}
    BY <1>2
  <2> QED BY <2>1, <2>2 DEF Delivered
<1>4. CASE SkipUndecodable(p)
  <2>1. TypeOK'
    BY <1>1, <1>2, <1>4, DatabaseUnchanged DEF SkipUndecodable, TypeOK
  <2>2. Delivered(p)' \subseteq Delivered(p)
    BY <1>3, <1>4 DEF SkipUndecodable, Delivered
  <2>3. ProcInv(p)'
    BY <1>1, <1>2, <1>4, <2>2, DatabaseUnchanged
       DEF SkipUndecodable, ProcInv, BatchInv, CountInv, RowInv, StatusInv,
           DeliveredInv, Successful, Settled, Stored, Ended
  <2>4. \A q \in Procs \ {p} : Untouched(q)
    BY <1>1, <1>4 DEF SkipUndecodable, TypeOK, Untouched
  <2> QED BY <1>2, <2>1, <2>3, <2>4, DatabaseUnchanged, StepOfOne
<1>5. CASE Receive(p)
  <2>1. /\ batch' = [batch EXCEPT ![p] = Append(batch[p], a)]
        /\ run' = [run EXCEPT ![p].ingested = run[p].ingested + 1]
        /\ pc'[p] \in {"fetch", "insert"}
        /\ pc' \in [Procs -> Alive \cup Ended]
        /\ UNCHANGED <<row, runs, added, raised>>
    BY <1>1, <1>5 DEF Receive, TypeOK, Alive
  <2>2. /\ batch[p] \in Seq(Alerts)
        /\ batch'[p] = Append(batch[p], a)
        /\ run[p] \in IngestionRun
        /\ run'[p] = [run[p] EXCEPT !.ingested = run[p].ingested + 1]
        /\ row[p] \in Nat \ {0}
    BY <1>1, <2>1 DEF TypeOK
  <2>3. /\ batch'[p] \in Seq(Alerts)
        /\ Len(batch'[p]) = Len(batch[p]) + 1
        /\ batch'[p][Len(batch[p]) + 1] = a
        /\ \A i \in 1 .. Len(batch[p]) : batch'[p][i] = batch[p][i]
    BY <1>2, <2>2
  <2>4. /\ run'[p] \in IngestionRun
        /\ run'[p].status = run[p].status
        /\ run'[p].ingested = run[p].ingested + 1
        /\ run[p].ingested \in Nat
    BY <2>2 DEF IngestionRun
  <2>5. TypeOK'
    <3>1. batch' \in [Procs -> Seq(Alerts)]
      BY <1>1, <2>1, <2>2, <2>3 DEF TypeOK
    <3>2. run' \in [Procs -> IngestionRun]
      BY <1>1, <2>1, <2>2, <2>4 DEF TypeOK
    <3> QED
      BY <1>1, <1>2, <1>5, <2>1, <3>1, <3>2, DatabaseUnchanged
         DEF Receive, TypeOK
  <2>6. BatchInv(p)'
    BY <1>1, <1>2, <2>1, <2>2, <2>3 DEF ProcInv, BatchInv, Ended
  <2>7. CountInv(p)'
    <3>1. Cardinality(added[p]) \in Nat
      BY <1>1, FS_CardinalityType DEF ProcInv, CountInv
    <3>2. Len(batch[p]) \in Nat
      BY <2>2
    <3> QED BY <1>1, <2>1, <2>2, <2>3, <2>4, <3>1, <3>2 DEF ProcInv, CountInv
  <2>8. RowInv(p)' /\ StatusInv(p)'
    BY <1>1, <1>2, <2>1, <2>4
       DEF ProcInv, RowInv, StatusInv, Successful, Settled, Ended
  <2>9. DeliveredInv(p)'
    <3>1. SUFFICES ASSUME NEW b \in Delivered(p)'
                   PROVE  \/ Stored(db, b)
                          \/ \E i \in 1 .. Len(batch'[p]) : batch'[p][i] = b
      BY <1>2, DatabaseUnchanged DEF DeliveredInv, Stored
    <3>2. CASE b = a
      BY <2>2, <2>3, <3>2
    <3>3. CASE b \in Delivered(p)
      <4>1. Stored(db, b) \/ \E i \in 1 .. Len(batch[p]) : batch[p][i] = b
        BY <1>1, <1>2, <3>3 DEF ProcInv, DeliveredInv
      <4> QED BY <2>2, <2>3, <4>1
    <3> QED BY <1>3, <3>1, <3>2, <3>3
  <2>10. \A q \in Procs \ {p} : Untouched(q)
    BY <1>1, <1>5 DEF Receive, TypeOK, Untouched
  <2> QED
    BY <1>2, <2>5, <2>6, <2>7, <2>8, <2>9, <2>10, DatabaseUnchanged, StepOfOne
       DEF ProcInv
<1> QED BY <1>4, <1>5

(* The end of the loop: the remainder is written, or the run is complete.  *)
LEMMA LeaveLoopKeeps ==
    ASSUME IInv, NEW p \in Procs, LeaveLoop(p)
    PROVE  IInv'
<1> USE DEF process
<1>1. TypeOK /\ ProcInv(p) /\ UNCHANGED database
  BY DEF IInv, LeaveLoop
<1>2. pc[p] = "fetch" /\ row[p] = 1 /\ row'[p] = 1 /\ batch'[p] = batch[p]
  BY <1>1 DEF LeaveLoop, ProcInv, BatchInv
<1>3. Delivered(p)' = Delivered(p)
  BY DEF LeaveLoop, Delivered
<1>4. \A q \in Procs \ {p} : Untouched(q)
  BY <1>1 DEF LeaveLoop, TypeOK, Untouched
<1>5. TypeOK' /\ ProcInv(p)'
  <2>1. CASE batch[p] = <<>>
    <3>1. /\ pc'[p] = "final"
          /\ run'[p] = [run[p] EXCEPT !.status = "completed"]
          /\ run[p] \in IngestionRun
      BY <1>1, <2>1 DEF LeaveLoop, TypeOK
    <3>2. run'[p] \in IngestionRun /\ run'[p].ingested = run[p].ingested
      BY <3>1 DEF IngestionRun
    <3>3. TypeOK'
      <4>1. run' \in [Procs -> IngestionRun]
        <5>1. run \in [Procs -> IngestionRun]
          BY <1>1 DEF TypeOK
        <5>2. run' = [run EXCEPT ![p] = run'[p]]
          BY <2>1, <3>1, <5>1 DEF LeaveLoop
        <5> QED BY <3>2, <5>1, <5>2
      <4>2. pc' \in [Procs -> Alive \cup Ended]
        <5>1. pc' = [pc EXCEPT ![p] = "final"]
          BY <2>1 DEF LeaveLoop
        <5> QED BY <1>1, <5>1 DEF TypeOK, Alive
      <4>3. UNCHANGED <<process, pos, batch, row, runs, added, raised>>
        BY DEF LeaveLoop
      <4> QED BY <1>1, <4>1, <4>2, <4>3, DatabaseUnchanged DEF TypeOK
    <3>4. BatchInv(p)' /\ CountInv(p)'
      BY <1>1, <1>2, <2>1, <3>1, <3>2
         DEF LeaveLoop, ProcInv, BatchInv, CountInv, Ended
    <3>5. RowInv(p)' /\ StatusInv(p)'
      BY <1>1, <1>2, <2>1, <3>1
         DEF LeaveLoop, ProcInv, RowInv, StatusInv, Settled, Ended
    <3>6. DeliveredInv(p)'
      BY <1>1, <1>2, <1>3, DatabaseUnchanged
         DEF ProcInv, DeliveredInv, Stored
    <3> QED BY <3>3, <3>4, <3>5, <3>6 DEF ProcInv
  <2>2. CASE batch[p] # <<>>
    <3>1. pc'[p] = "insert" /\ run' = run
      BY <1>1, <2>2 DEF LeaveLoop, TypeOK
    <3>2. TypeOK'
      BY <1>1, <2>2, <3>1, DatabaseUnchanged DEF LeaveLoop, TypeOK, Alive
    <3>3. BatchInv(p)' /\ CountInv(p)'
      BY <1>1, <1>2, <2>2, <3>1
         DEF LeaveLoop, ProcInv, BatchInv, CountInv, Ended
    <3>4. RowInv(p)' /\ StatusInv(p)'
      BY <1>1, <1>2, <2>2, <3>1
         DEF LeaveLoop, ProcInv, RowInv, StatusInv, Successful, Settled, Ended
    <3>5. DeliveredInv(p)'
      BY <1>1, <1>2, <1>3, DatabaseUnchanged
         DEF ProcInv, DeliveredInv, Stored
    <3> QED BY <3>2, <3>3, <3>4, <3>5 DEF ProcInv
  <2> QED BY <2>1, <2>2
<1> QED BY <1>1, <1>4, <1>5, DatabaseUnchanged, StepOfOne

(* An exception reaches an except clause, before the row is settled.       *)
LEMMA HandleKeeps ==
    ASSUME IInv, NEW p \in Procs, NEW status \in {"failed", "completed"},
           Handle(p, status), pc[p] \in {"fetch", "insert", "final"},
           UNCHANGED <<database, process, pos, batch, row, runs, added>>
    PROVE  IInv'
<1> USE DEF process
<1>1. TypeOK /\ ProcInv(p)
  BY DEF IInv
<1>2. /\ run'[p] = [run[p] EXCEPT !.status = status]
      /\ run[p] \in IngestionRun
      /\ raised'[p] = TRUE
      /\ pc'[p] \in {"handler", "final"}
  BY <1>1 DEF Handle, TypeOK
<1>3. run'[p] \in IngestionRun /\ run'[p].ingested = run[p].ingested
  BY <1>2 DEF IngestionRun
<1>4. TypeOK'
  BY <1>1, <1>2, <1>3, DatabaseUnchanged DEF Handle, TypeOK, Alive
<1>5. BatchInv(p)' /\ CountInv(p)'
  BY <1>1, <1>2, <1>3 DEF ProcInv, BatchInv, CountInv, Ended
<1>6. RowInv(p)' /\ StatusInv(p)' /\ DeliveredInv(p)'
  BY <1>1, <1>2 DEF ProcInv, RowInv, StatusInv, DeliveredInv, Successful,
                    Settled, Ended
<1>7. \A q \in Procs \ {p} : Untouched(q)
  BY <1>1 DEF Handle, TypeOK, Untouched
<1> QED
  BY <1>4, <1>5, <1>6, <1>7, DatabaseUnchanged, StepOfOne DEF ProcInv

(* KeyboardInterrupt in `ingest', and a failed update of the row in        *)
(* backfill's except clause: on to the next clause.                        *)
LEMMA PassOnKeeps ==
    ASSUME IInv, NEW p \in Procs,
           \/ pc[p] \in {"fetch", "insert"} /\ pc' = [pc EXCEPT ![p] = "final"]
           \/ pc[p] = "handler" /\ pc' = [pc EXCEPT ![p] = "close"],
           UNCHANGED <<database, process, pos, batch, row, run, runs, added,
                       raised>>
    PROVE  IInv'
<1> USE DEF process
<1>1. TypeOK /\ ProcInv(p)
  BY DEF IInv
<1>2. \/ pc[p] \in {"fetch", "insert"} /\ pc'[p] = "final"
      \/ pc[p] = "handler" /\ pc'[p] = "close"
  BY <1>1 DEF TypeOK
<1>3. TypeOK'
  BY <1>1, DatabaseUnchanged DEF TypeOK, Alive
<1>4. BatchInv(p)' /\ CountInv(p)'
  BY <1>1, <1>2 DEF ProcInv, BatchInv, CountInv, Ended
<1>5. RowInv(p)' /\ StatusInv(p)' /\ DeliveredInv(p)'
  BY <1>1, <1>2 DEF ProcInv, RowInv, StatusInv, DeliveredInv, Successful,
                    Settled, Ended
<1>6. \A q \in Procs \ {p} : Untouched(q)
  BY <1>1 DEF TypeOK, Untouched
<1> QED
  BY <1>3, <1>4, <1>5, <1>6, DatabaseUnchanged, StepOfOne DEF ProcInv

-----------------------------------------------------------------------------
(* A row goes to the writer's copy.                                        *)
LEMMA InsertRowKeeps ==
    ASSUME IInv, NEW p \in Procs, InsertRow(p)
    PROVE  IInv' /\ db' = db
<1> DEFINE a == batch[p][row[p]]
<1> USE DEF process
<1>1. TypeOK /\ FileInv /\ ProcInv(p)
  BY DEF IInv
<1>2. /\ a \in Alerts
      /\ batch[p] \in Seq(Alerts)
      /\ row[p] \in Nat \ {0}
      /\ row[p] <= Len(batch[p])
      /\ row'[p] = row[p] + 1
      /\ pc[p] = "insert"
      /\ work' = InsertOrIgnore(work, a)
      /\ writer' = p
      /\ db' = db
  BY <1>1 DEF InsertRow, TypeOK
<1>3. /\ work' \in Database
      /\ work.raw \subseteq work'.raw
      /\ Stored(work', a)
      /\ Sound(work')
  <2>1. work \in Database /\ Sound(work) /\ Tracked(work, 0)
    BY <1>1 DEF TypeOK, FileInv, Sound
  <2> QED BY <1>2, <2>1, InsertPreserves, InsertSound
<1>4. FileInv'
  BY <1>1, <1>2, <1>3, CliAssumption DEF FileInv
<1>5. added'[p] = added[p] \/ added'[p] = added[p] \cup {a}
  BY <1>1 DEF InsertRow, TypeOK
<1>6. TypeOK'
  <2>1. added' \in [Procs -> SUBSET Alerts]
    BY <1>1, <1>2 DEF InsertRow, TypeOK
  <2>2. row' \in [Procs -> Nat \ {0}]
    BY <1>1 DEF InsertRow, TypeOK
  <2> QED BY <1>1, <1>2, <1>3, <2>1, <2>2 DEF InsertRow, TypeOK
<1>7. BatchInv(p)'
  <2>1. \A i \in 1 .. row[p] : Stored(work', batch[p][i])
    <3>1. SUFFICES ASSUME NEW i \in 1 .. row[p]
                   PROVE  Stored(work', batch[p][i])
      OBVIOUS
    <3>2. CASE i = row[p]
      BY <1>3, <3>2
    <3>3. CASE i \in 1 .. row[p] - 1
      BY <1>1, <1>2, <1>3, <3>3, StoredMonotone DEF ProcInv, BatchInv
    <3> QED BY <1>2, <3>1, <3>2, <3>3
  <2> QED
    BY <1>1, <1>2, <2>1 DEF InsertRow, ProcInv, BatchInv, Ended
<1>8. CountInv(p)'
  <2>1. IsFiniteSet(added[p]) /\ Cardinality(added[p]) \in Nat
    BY <1>1, FS_CardinalityType DEF ProcInv, CountInv
  <2>2. /\ IsFiniteSet(added'[p])
        /\ Cardinality(added'[p]) \in Nat
        /\ Cardinality(added'[p]) <= Cardinality(added[p]) + 1
    BY <1>5, <2>1, FS_AddElement
  <2>3. run[p].ingested \in Nat /\ Len(batch[p]) \in Nat
    BY <1>1, <1>2 DEF TypeOK, IngestionRun
  <2> QED
    BY <1>1, <1>2, <2>1, <2>2, <2>3 DEF InsertRow, ProcInv, CountInv
<1>9. RowInv(p)' /\ StatusInv(p)' /\ DeliveredInv(p)'
  BY <1>1, <1>2 DEF InsertRow, ProcInv, RowInv, StatusInv, DeliveredInv,
                    Delivered, Successful, Settled, Stored
<1>10. \A q \in Procs \ {p} : Untouched(q)
  BY <1>1 DEF InsertRow, TypeOK, Untouched
<1>11. \A q \in Procs \ {p} : writer # q
  BY CliAssumption DEF InsertRow, CanWrite
<1> QED
  BY <1>2, <1>4, <1>6, <1>7, <1>8, <1>9, <1>10, <1>11, StepOfOne DEF ProcInv

(* The commit of a batch: what was delivered so far is in the file.        *)
LEMMA CommitBatchKeeps ==
    ASSUME IInv, NEW p \in Procs, CommitBatch(p)
    PROVE  IInv' /\ db' = work
<1> USE DEF process
<1>1. TypeOK /\ FileInv /\ ProcInv(p)
  BY DEF IInv
<1>2. /\ pc[p] = "insert"
      /\ batch[p] \in Seq(Alerts)
      /\ row[p] = Len(batch[p]) + 1
      /\ row[p] > 1
      /\ writer = p
      /\ CanWrite(p)
      /\ \A i \in 1 .. Len(batch[p]) : Stored(work, batch[p][i])
  BY <1>1 DEF CommitBatch, TypeOK, ProcInv, BatchInv, CanWrite
<1>3. CommitOf(p, work)
  BY DEF CommitBatch
<1>4. /\ batch'[p] = <<>> /\ row'[p] = 1
      /\ UNCHANGED <<process, pos, runs, added, raised>>
      /\ run[p] \in IngestionRun
      /\ \/ pc'[p] = "final" /\ run'[p] = [run[p] EXCEPT !.status = "completed"]
         \/ pc'[p] = "fetch" /\ run'[p] = run[p]
  BY <1>1 DEF CommitBatch, TypeOK
<1>5. run'[p] \in IngestionRun /\ run'[p].ingested = run[p].ingested
  BY <1>4 DEF IngestionRun
<1>6. TypeOK'
  <2>1. /\ batch' \in [Procs -> Seq(Alerts)]
        /\ row' \in [Procs -> Nat \ {0}]
    BY <1>1 DEF CommitBatch, TypeOK
  <2>2. /\ run' \in [Procs -> IngestionRun]
        /\ pc' \in [Procs -> Alive \cup Ended]
    BY <1>1, <1>5 DEF CommitBatch, TypeOK, Alive
  <2> QED
    BY <1>1, <1>2, <1>3, <1>4, <2>1, <2>2, CommitKeeps DEF TypeOK
<1>7. BatchInv(p)' /\ CountInv(p)'
  <2>1. Cardinality(added[p]) \in Nat /\ run[p].ingested \in Nat
    BY <1>1, FS_CardinalityType DEF ProcInv, CountInv, TypeOK, IngestionRun
  <2> QED
    BY <1>1, <1>2, <1>4, <1>5, <2>1 DEF ProcInv, BatchInv, CountInv, Ended
<1>8. RowInv(p)' /\ StatusInv(p)'
  BY <1>1, <1>2, <1>4
     DEF ProcInv, RowInv, StatusInv, Successful, Settled, Ended
<1>9. DeliveredInv(p)'
  <2>1. Delivered(p)' = Delivered(p)
    BY <1>4 DEF Delivered
  <2>2. \A b \in Delivered(p) : Stored(work, b)
    BY <1>1, <1>2, StoredMonotone DEF ProcInv, DeliveredInv, FileInv
  <2> QED BY <1>3, <2>1, <2>2 DEF DeliveredInv, CommitOf, Stored
<1>10. \A q \in Procs \ {p} : Untouched(q)
  BY <1>1 DEF CommitBatch, TypeOK, Untouched
<1> QED
  BY <1>2, <1>3, <1>6, <1>7, <1>8, <1>9, <1>10, CommitKeeps, StepOfOne
     DEF ProcInv

-----------------------------------------------------------------------------
(* The row of the run: before the loop, and after it.                      *)
LEMMA WriteRunKeeps ==
    ASSUME IInv, NEW p \in Procs, Begin(p) \/ RecordRun(p)
    PROVE  IInv' /\ db' = work
<1> USE DEF process
<1>1. TypeOK /\ FileInv /\ ProcInv(p)
  BY DEF IInv
<1>2. /\ CanWrite(p)
      /\ CommitOf(p, work)
      /\ UNCHANGED <<process, pos, batch, row, run, added, raised>>
      /\ runs' = [runs EXCEPT ![p] = run[p]]
  BY DEF Begin, RecordRun
<1>3. /\ runs'[p] = run[p]
      /\ \/ pc[p] = "begin" /\ pc'[p] = "fetch"
         \/ pc[p] \in {"final", "handler"} /\ pc'[p] = "close"
  BY <1>1, <1>2 DEF Begin, RecordRun, TypeOK
<1>4. TypeOK'
  <2>1. runs' \in [Procs -> IngestionRun \cup {None}]
    BY <1>1, <1>2 DEF TypeOK
  <2>2. pc' \in [Procs -> Alive \cup Ended]
    BY <1>1 DEF Begin, RecordRun, TypeOK, Alive
  <2> QED BY <1>1, <1>2, <2>1, <2>2, CommitKeeps DEF TypeOK
<1>5. BatchInv(p)' /\ CountInv(p)'
  BY <1>1, <1>2, <1>3 DEF ProcInv, BatchInv, CountInv, Ended
<1>6. StatusInv(p)'
  BY <1>1, <1>2, <1>3 DEF ProcInv, StatusInv, Successful, Ended
<1>7. RowInv(p)'
  <2>1. CASE pc[p] = "begin"
    <3>1. run[p].status = "running"
      BY <1>1, <2>1 DEF ProcInv, RowInv
    <3> QED BY <1>2, <1>3, <3>1 DEF RowInv, Settled
  <2>2. CASE pc[p] \in {"final", "handler"}
    BY <1>2, <1>3, <2>2 DEF RowInv
  <2> QED BY <1>3, <2>1, <2>2
<1>8. DeliveredInv(p)'
  <2>1. Delivered(p)' = Delivered(p) /\ Successful(p)' = Successful(p)
    BY <1>2 DEF Delivered, Successful
  <2>2. \A b : Stored(db, b) => Stored(db', b)
    BY <1>2, CommitKeeps DEF Stored
  <2> QED
    BY <1>1, <1>2, <1>3, <2>1, <2>2 DEF ProcInv, DeliveredInv
<1>9. \A q \in Procs \ {p} : Untouched(q)
  BY <1>1, <1>2 DEF Begin, RecordRun, TypeOK, Untouched
<1> QED
  BY <1>2, <1>4, <1>5, <1>6, <1>7, <1>8, <1>9, CommitKeeps, StepOfOne
     DEF ProcInv

(* The connection is lost, by the close or with the process.               *)
LEMMA EndKeeps ==
    ASSUME IInv, NEW p \in Procs, Disconnect(p),
           \/ pc' = [pc EXCEPT ![p] = "done"] /\ pc[p] = "close"
           \/ pc' = [pc EXCEPT ![p] = "idle"]
    PROVE  IInv' /\ db' = db
<1> USE DEF process
<1>1. TypeOK /\ FileInv /\ ProcInv(p)
  BY DEF IInv
<1>2. /\ pc'[p] \in Ended
      /\ batch'[p] = <<>> /\ row'[p] = 1
      /\ added'[p] = added[p] \cap db.raw
      /\ UNCHANGED <<db, process, pos, run, runs, raised>>
  BY <1>1 DEF Disconnect, TypeOK, Ended
<1>3. TypeOK'
  <2>1. pc' \in [Procs -> Alive \cup Ended]
    BY <1>1 DEF TypeOK, Alive, Ended
  <2>2. batch' \in [Procs -> Seq(Alerts)] /\ row' \in [Procs -> Nat \ {0}]
    <3>1. <<>> \in Seq(Alerts) /\ 1 \in Nat \ {0}
      OBVIOUS
    <3> QED BY <1>1, <3>1 DEF Disconnect, TypeOK
  <2>3. added' \in [Procs -> SUBSET Alerts]
    BY <1>1 DEF Disconnect, TypeOK
  <2>4. UNCHANGED <<db, process, pos, run, runs, raised>>
    BY DEF Disconnect
  <2> QED BY <1>1, <2>1, <2>2, <2>3, <2>4, DisconnectKeeps DEF TypeOK
<1>4. BatchInv(p)'
  BY <1>2 DEF BatchInv, Ended
<1>5. CountInv(p)'
  <2>1. IsFiniteSet(added[p]) /\ Cardinality(added[p]) \in Nat
    BY <1>1, FS_CardinalityType DEF ProcInv, CountInv
  <2>2. /\ IsFiniteSet(added'[p])
        /\ Cardinality(added'[p]) \in Nat
        /\ Cardinality(added'[p]) <= Cardinality(added[p])
    <3>1. added'[p] \in SUBSET added[p]
      BY <1>2
    <3> QED BY <2>1, <3>1, FS_Subset, FS_CardinalityType
  <2>3. /\ run[p].ingested \in Nat
        /\ row[p] \in Nat
        /\ Len(batch[p]) \in Nat
        /\ row[p] <= Len(batch[p]) + 1
    BY <1>1 DEF TypeOK, IngestionRun, ProcInv, BatchInv
  <2> QED
    BY <1>1, <1>2, <2>1, <2>2, <2>3 DEF ProcInv, CountInv
<1>6. RowInv(p)' /\ StatusInv(p)'
  <2>1. Settled(p)' = Settled(p) /\ Successful(p)' = Successful(p)
    BY <1>2 DEF Settled, Successful
  <2> QED BY <1>1, <1>2, <2>1 DEF ProcInv, RowInv, StatusInv, Ended
<1>7. DeliveredInv(p)'
  <2>1. Delivered(p)' = Delivered(p) /\ Successful(p)' = Successful(p)
    BY <1>2 DEF Delivered, Successful
  <2>2. pc'[p] \notin {"begin", "fetch", "insert"}
    BY <1>2 DEF Ended
  <2>3. Successful(p) => \A b \in Delivered(p) : Stored(db, b)
    <3>1. SUFFICES ASSUME Successful(p) PROVE \A b \in Delivered(p) : Stored(db, b)
      OBVIOUS
    <3>2. batch[p] = <<>>
      BY <1>1, <3>1 DEF ProcInv, StatusInv
    <3> QED BY <1>1, <3>1, <3>2 DEF ProcInv, DeliveredInv
  <2> QED BY <1>2, <2>1, <2>2, <2>3 DEF DeliveredInv, Stored
<1>8. \A q \in Procs \ {p} : Untouched(q)
  BY <1>1 DEF Disconnect, TypeOK, Untouched
<1> QED
  BY <1>2, <1>3, <1>4, <1>5, <1>6, <1>7, <1>8, DisconnectKeeps, StepOfOne
     DEF ProcInv

-----------------------------------------------------------------------------
(* Every step keeps the invariant, and the file is left alone or becomes   *)
(* the writer's copy.                                                      *)
LEMMA NextKeeps ==
    ASSUME IInv, [Next]_vars
    PROVE  IInv' /\ db' \in {db, work}
<1>1. CASE UNCHANGED vars
  BY <1>1 DEF vars, IInv, TypeOK, FileInv, ProcInv, BatchInv, CountInv, RowInv,
              StatusInv, DeliveredInv, Delivered, Successful, Settled, Stored
<1>2. ASSUME NEW p \in Procs, Step(p)
      PROVE  IInv' /\ db' \in {db, work}
  <2>1. CASE Begin(p) \/ RecordRun(p)
    BY <2>1, WriteRunKeeps
  <2>2. CASE BeginFails(p) \/ Close(p)
    BY <2>2, EndKeeps DEF BeginFails, Close
  <2>3. CASE SkipUndecodable(p) \/ Receive(p)
    BY <2>3, RecordKeeps DEF SkipUndecodable, Receive, database
  <2>4. CASE LeaveLoop(p)
    BY <2>4, LeaveLoopKeeps DEF LeaveLoop, database
  <2>5. CASE InsertRow(p)
    BY <2>5, InsertRowKeeps
  <2>6. CASE CommitBatch(p)
    BY <2>6, CommitBatchKeeps
  <2>7. CASE InsertFails(p)
    BY <2>7, HandleKeeps DEF InsertFails, database
  <2>8. CASE RecordRunFails(p)
    <3>1. CASE p \in Backfills /\ pc[p] = "final"
      BY <2>8, <3>1, HandleKeeps DEF RecordRunFails, database
    <3>2. CASE p \in Backfills /\ pc[p] = "handler"
      BY <2>8, <3>2, PassOnKeeps DEF RecordRunFails, database
    <3>3. CASE p \notin Backfills
      BY <2>8, <3>3, EndKeeps DEF RecordRunFails
    <3> QED BY <2>8, <3>1, <3>2, <3>3 DEF RecordRunFails
  <2> QED
    BY <1>2, <2>1, <2>2, <2>3, <2>4, <2>5, <2>6, <2>7, <2>8 DEF Step
<1>3. ASSUME NEW p \in Procs, Disturbance(p)
      PROVE  IInv' /\ db' \in {db, work}
  <2>1. CASE Start(p)
    BY <2>1, StartKeeps DEF Start, database
  <2>2. CASE SourceRaises(p)
    <3>1. PICK status \in {"failed", "completed"} : Handle(p, status)
      BY <2>2 DEF SourceRaises
    <3> QED BY <2>2, <3>1, HandleKeeps DEF SourceRaises, database
  <2>3. CASE Interrupt(p)
    <3>1. CASE p \in Backfills
      BY <2>3, <3>1, HandleKeeps DEF Interrupt, database
    <3>2. CASE p \notin Backfills
      BY <2>3, <3>2, PassOnKeeps DEF Interrupt, database
    <3> QED BY <3>1, <3>2
  <2>4. CASE Crash(p)
    BY <2>4, EndKeeps DEF Crash
  <2> QED BY <1>3, <2>1, <2>2, <2>3, <2>4 DEF Disturbance
<1> QED BY <1>1, <1>2, <1>3 DEF Next

THEOREM Invariant == Spec => []IInv
<1>1. IInv /\ [Next]_vars => IInv'
  BY NextKeeps
<1> QED BY <1>1, InitIInv, PTL DEF Spec

(* TypeOK: the fields of every IngestionRun, the states of the commands    *)
(* and the tables keep their types, for any commands, feeds and restarts.  *)
THEOREM TypeCorrect == Spec => []TypeOK
<1>1. IInv => TypeOK
  BY DEF IInv
<1> QED BY <1>1, Invariant, PTL

(* TrackingExact: at every commit of ingest and backfill processed_sources *)
(* counts the stored alerts of each source exactly, whatever fails.        *)
THEOREM TrackingIsExact == Spec => []TrackingExact
<1>1. IInv => TrackingExact
  BY DEF IInv, FileInv, Sound, TrackingExact
<1> QED BY <1>1, Invariant, PTL

(* CompletedStored: a run of ingest or backfill that no exception ended    *)
(* and whose row says completed has stored all that it received.           *)
THEOREM CompletedIsStored == Spec => []CompletedStored
<1>1. IInv => CompletedStored
  <2> SUFFICES ASSUME IInv, NEW p \in Procs, Settled(p),
                      runs[p].status = "completed", ~ raised[p]
               PROVE  \A a \in Delivered(p) : Stored(db, a)
    BY DEF CompletedStored
  <2>1. ProcInv(p)
    BY DEF IInv
  <2>2. Successful(p)
    BY <2>1 DEF ProcInv, RowInv, Successful
  <2>3. batch[p] = <<>>
    BY <2>1, <2>2 DEF ProcInv, StatusInv
  <2> QED BY <2>1, <2>2, <2>3 DEF ProcInv, DeliveredInv
<1> QED BY <1>1, Invariant, PTL

(* IngestedCovers: no settled run of ingest or backfill reports fewer      *)
(* alerts than the rows it added.                                          *)
THEOREM IngestedCoversRows == Spec => []IngestedCovers
<1>1. IInv => IngestedCovers
  <2> SUFFICES ASSUME IInv, NEW p \in Procs, Settled(p)
               PROVE  Cardinality(added[p]) <= runs[p].ingested
    BY DEF IngestedCovers
  <2>1. ProcInv(p)
    BY DEF IInv
  <2>2. Cardinality(added[p]) \in Nat
    BY <2>1, FS_CardinalityType DEF ProcInv, CountInv
  <2>3. /\ run[p].ingested \in Nat
        /\ row[p] \in Nat
        /\ Len(batch[p]) \in Nat
        /\ row[p] <= Len(batch[p]) + 1
    BY <2>1 DEF IInv, TypeOK, IngestionRun, ProcInv, BatchInv
  <2> QED
    BY <2>1, <2>2, <2>3 DEF ProcInv, CountInv, RowInv
<1> QED BY <1>1, Invariant, PTL

-----------------------------------------------------------------------------
(* The refinement: a step that commits appends the new rows to the log and *)
(* makes their sources known at once; every other step is a stutter.       *)
LEMMA StepRefines ==
    ASSUME IInv, [Next]_vars
    PROVE  [Log!Next]_<<db.raw, KnownSources(db), 0>>
<1>1. /\ db \in Database /\ work \in Database
      /\ Sound(db) /\ Sound(work) /\ db.raw \subseteq work.raw
  BY DEF IInv, TypeOK, FileInv
<1>2. CASE db' = db
  BY <1>2 DEF KnownSources
<1>3. CASE db' = work
  <2> DEFINE new == work.raw \ db.raw
  <2>1. new \in SUBSET (Alerts \ db.raw)
    BY <1>1 DEF Database
  <2>2. \A a \in new, b \in db.raw \cup new : Log!SameKey(a, b) => a = b
    BY <1>1 DEF Sound, SameKey, Log!SameKey
  <2>3. db'.raw = db.raw \cup new
    BY <1>1, <1>3
  <2>4. KnownSources(db)' = KnownSources(db) \cup {SourceOf[a] : a \in new}
    <3>1. /\ KnownSources(db) = {SourceOf[a] : a \in db.raw}
          /\ KnownSources(work) = {SourceOf[a] : a \in work.raw}
      BY <1>1, KnownAreLogged
    <3>2. KnownSources(db)' = KnownSources(work)
      BY <1>3 DEF KnownSources
    <3> QED BY <1>1, <3>1, <3>2
  <2>5. Log!Append(new)
    BY <2>2, <2>3, <2>4 DEF Log!Append
  <2> QED BY <2>1, <2>5 DEF Log!Next
<1> QED BY <1>2, <1>3, NextKeeps

(* ImplementsAuditLog: whatever ingest and backfill do to the file, its    *)
(* readers see an append-only log under unique keys whose sources are      *)
(* known from the moment their first alert is in it.                       *)
THEOREM CommandsImplementLog == Spec => ImplementsAuditLog
<1>1. Init => Log!Init
  BY DEF Init, Log!Init, EmptyDatabase, KnownSources
<1>2. IInv /\ [Next]_vars => [Log!Next]_<<db.raw, KnownSources(db), 0>>
  BY StepRefines
<1> QED BY <1>1, <1>2, Invariant, PTL DEF Spec, ImplementsAuditLog, Log!Spec
=============================================================================
