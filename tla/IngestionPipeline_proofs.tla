----------------------- MODULE IngestionPipeline_proofs -----------------------
(***************************************************************************)
(* Proofs about IngestionPipeline for every set of processes, alerts and   *)
(* options, every feed and every number of runs.                           *)
(***************************************************************************)
EXTENDS IngestionPipeline, AlertDatabase_proofs, FiniteSetTheorems

(***************************************************************************)
(* The inductive invariant.  TrackingCoversLog says what holds of the      *)
(* committed database; it is inductive only with the same of the writer's  *)
(* uncommitted copy, and because the tracker is only ever asked to update  *)
(* the source of an alert that a write_batch has stored before.            *)
(***************************************************************************)

(* The writer's copy extends the file; with no writer there is no copy.    *)
WriterInv ==
    /\ db.raw \subseteq work.raw
    /\ writer = None => work = db
    /\ Tracked(db, horizon)
    /\ Tracked(work, horizon)

(* Where run() is in its batch: the rows before the current one are in the *)
(* writer's copy, and all of them are in the file when tracking begins.    *)
BatchInv(p) ==
    /\ pc[p] = "fetch" => row[p] = 1
    /\ pc[p] = "insert"
         => /\ batch[p] # <<>>
            /\ row[p] <= Len(batch[p]) + 1
            /\ row[p] > 1 => writer = p
            /\ \A i \in 1 .. row[p] - 1 : Stored(work, batch[p][i])
    /\ pc[p] \in {"lookup", "upsert"}
         => /\ row[p] <= Len(batch[p])
            /\ \A i \in 1 .. Len(batch[p]) : Stored(db, batch[p][i])
    /\ pc[p] \in Ended => row[p] = 1

IInv == TypeOK /\ WriterInv /\ \A p \in Procs : BatchInv(p)

-----------------------------------------------------------------------------
(* A counter of PipelineStats grows by a natural number.                   *)
LEMMA CounterTypes ==
    ASSUME NEW f \in [Procs -> Stats], NEW p \in Procs, NEW n \in Nat
    PROVE  /\ [f EXCEPT ![p].received = @ + n] \in [Procs -> Stats]
           /\ [f EXCEPT ![p].stored = @ + n] \in [Procs -> Stats]
           /\ [f EXCEPT ![p].failed = @ + n] \in [Procs -> Stats]
           /\ [f EXCEPT ![p].new = @ + n] \in [Procs -> Stats]
<1> DEFINE st == f[p]
<1>1. st \in Stats
  OBVIOUS
<1> HIDE DEF st
<1>2. /\ [st EXCEPT !.received = @ + n] \in Stats
      /\ [st EXCEPT !.stored = @ + n] \in Stats
      /\ [st EXCEPT !.failed = @ + n] \in Stats
      /\ [st EXCEPT !.new = @ + n] \in Stats
  BY <1>1 DEF Stats
<1> QED BY <1>2 DEF st

(* What a process that may write finds is the writer's copy.               *)
LEMMA BaseIsWork ==
    ASSUME NEW p \in Procs, TypeOK, WriterInv, CanWrite(p)
    PROVE  Base(p) = work
BY DEF Base, CanWrite, WriterInv

(* A process whose own state does not change, in a step that loses no row  *)
(* of the file and leaves it its transaction if it has one, stays where it *)
(* is in its batch.                                                        *)
LEMMA BystanderInv ==
    ASSUME IInv, NEW q \in Procs,
           pc'[q] = pc[q], row'[q] = row[q], batch'[q] = batch[q],
           db.raw \subseteq db'.raw,
           writer = q => writer' = q /\ work' = work
    PROVE  BatchInv(q)'
<1>1. BatchInv(q)
  BY DEF IInv
<1>2. CASE pc[q] \in {"lookup", "upsert"}
  BY <1>1, <1>2, StoredMonotone DEF BatchInv, Ended
<1>3. CASE pc[q] = "insert"
  <2>1. row[q] \in Nat \ {0}
    BY DEF IInv, TypeOK
  <2>2. CASE row[q] = 1
    BY <1>1, <1>3, <2>2 DEF BatchInv, Ended
  <2>3. CASE row[q] > 1
    BY <1>1, <1>3, <2>3 DEF BatchInv, Ended
  <2> QED BY <2>1, <2>2, <2>3
<1>4. CASE pc[q] \notin {"lookup", "upsert", "insert"}
  BY <1>1, <1>4 DEF BatchInv
<1> QED BY <1>2, <1>3, <1>4

(* A step that leaves the shared database alone.                           *)
LEMMA DatabaseUnchanged ==
    ASSUME IInv, UNCHANGED database
    PROVE  /\ WriterInv'
           /\ db' \in Database /\ work' \in Database /\ horizon' \in Nat
           /\ writer' \in Procs \cup {None}
           /\ db.raw \subseteq db'.raw
BY DEF IInv, WriterInv, TypeOK, database

(* A commit of p's copy, or of an extension of it that keeps the tables in *)
(* agreement.                                                              *)
LEMMA CommitKeeps ==
    ASSUME IInv, NEW p \in Procs, CanWrite(p), NEW d \in Database,
           Base(p).raw \subseteq d.raw, Tracked(d, horizon),
           CommitOf(p, d), UNCHANGED horizon
    PROVE  /\ WriterInv'
           /\ db' = d /\ writer' = None
           /\ db' \in Database /\ work' \in Database
           /\ writer' \in Procs \cup {None}
           /\ snap' \in [Procs -> Database \cup {None, Begun, Newest}]
           /\ db.raw \subseteq db'.raw
           /\ \A q \in Procs : q # p => writer # q
<1>1. Base(p) = work
  BY BaseIsWork DEF IInv
<1>2. db' = d /\ work' = d /\ writer' = None
  BY DEF CommitOf
<1>3. db.raw \subseteq d.raw
  BY <1>1 DEF IInv, WriterInv
<1>4. Superseded \in [Procs -> Database \cup {None, Begun, Newest}]
  BY DEF IInv, TypeOK, Superseded
<1>5. snap' \in [Procs -> Database \cup {None, Begun, Newest}]
  BY <1>4 DEF CommitOf
<1>6. \A q \in Procs : q # p => writer # q
  BY PipelineAssumption DEF CanWrite
<1> QED BY <1>2, <1>3, <1>5, <1>6 DEF WriterInv

(* The loss of p's connection.                                             *)
LEMMA DisconnectKeeps ==
    ASSUME IInv, NEW p \in Procs, Disconnect(p), UNCHANGED <<db, horizon>>
    PROVE  /\ WriterInv'
           /\ work' \in Database /\ writer' \in Procs \cup {None}
           /\ snap' \in [Procs -> Database \cup {None, Begun, Newest}]
           /\ \A q \in Procs : q # p /\ writer = q
                 => writer' = q /\ work' = work
BY DEF IInv, WriterInv, TypeOK, Disconnect

-----------------------------------------------------------------------------
LEMMA InitIInv == Init => IInv
<1> SUFFICES ASSUME Init PROVE IInv
  OBVIOUS
<1> USE DEF Init
<1>1. EmptyDatabase \in Database
  BY DEF EmptyDatabase, Database
<1>2. (CHOOSE o \in Options : TRUE) \in Options
  BY PipelineAssumption
<1>3. TypeOK
  BY <1>1, <1>2 DEF TypeOK, Stats, NoStats, Ended
<1>4. WriterInv
  BY DEF WriterInv, Tracked, NoPhantomSource, RecentSourceTracked,
         LastSeenCovers, EmptyDatabase
<1>5. \A p \in Procs : BatchInv(p)
  BY DEF BatchInv, Ended
<1> QED BY <1>3, <1>4, <1>5 DEF IInv

(* Every action of a process keeps the invariant; first the ones that do   *)
(* not touch the database.                                                 *)
LEMMA ReceivingKeeps ==
    ASSUME IInv, NEW p \in Procs,
           \/ SkipUndecodable(p) \/ ReceiveDuplicate(p) \/ ReceiveAlert(p)
           \/ LeaveLoop(p) \/ SourceRaises(p)
    PROVE  IInv' /\ db.raw \subseteq db'.raw
<1> USE DEF database, process
<1>1. UNCHANGED database
  BY DEF SkipUndecodable, ReceiveDuplicate, ReceiveAlert, LeaveLoop,
         SourceRaises
<1>2. TypeOK /\ BatchInv(p) /\ Feed[p] \in Seq(Alerts)
  BY PipelineAssumption DEF IInv
<1>3. TypeOK'
  <2>0. SnapAfterRead(p) \in Database \cup {None, Begun, Newest}
    BY <1>2 DEF SnapAfterRead, TypeOK
  <2>a. Consume(p) => pos' \in [Procs -> Nat]
    BY <1>2 DEF Consume, TypeOK
  <2>b. CountReceived(p) => stats' \in [Procs -> Stats]
    <3>1. stats \in [Procs -> Stats] /\ 1 \in Nat
      BY <1>2 DEF TypeOK
    <3>2. [stats EXCEPT ![p].received = @ + 1] \in [Procs -> Stats]
      BY <3>1, CounterTypes, Zenon
    <3> QED BY <3>2 DEF CountReceived
  <2>c. ReadForDuplicates(p)
          => snap' \in [Procs -> Database \cup {None, Begun, Newest}]
    BY <2>0, <1>2 DEF ReadForDuplicates, TypeOK
  <2>1. CASE SkipUndecodable(p)
    BY <2>1, <2>a, <1>1, <1>2, DatabaseUnchanged
       DEF SkipUndecodable, TypeOK
  <2>2. CASE ReceiveDuplicate(p)
    BY <2>a, <2>b, <2>c, <2>2, <1>1, <1>2, DatabaseUnchanged
       DEF ReceiveDuplicate, TypeOK
  <2>3. CASE ReceiveAlert(p)
    <3>1. Feed[p][pos[p] + 1] \in Alerts
      BY <2>3, <1>2 DEF ReceiveAlert, HasRecord, TypeOK
    <3>2. batch' \in [Procs -> Seq(Alerts)]
      BY <2>3, <3>1, <1>2 DEF ReceiveAlert, TypeOK
    <3>3. pc' \in [Procs -> Running \cup Ended \cup {"close"}]
      BY <2>3, <1>2 DEF ReceiveAlert, TypeOK, Running
    <3> QED
      BY <2>a, <2>b, <2>c, <2>3, <3>2, <3>3, <1>1, <1>2, DatabaseUnchanged
         DEF ReceiveAlert, TypeOK
  <2>4. CASE LeaveLoop(p)
    BY <2>4, <1>1, <1>2, DatabaseUnchanged DEF LeaveLoop, TypeOK, Running
  <2>5. CASE SourceRaises(p)
    BY <2>5, <1>1, <1>2, DatabaseUnchanged
       DEF SourceRaises, TypeOK, Running, Failing
  <2> QED BY <2>1, <2>2, <2>3, <2>4, <2>5
<1>4. BatchInv(p)'
  <2> USE <1>1, <1>2 DEF BatchInv, Ended, TypeOK
  <2>1. CASE SkipUndecodable(p)
    BY <2>1 DEF SkipUndecodable, HasRecord
  <2>2. CASE ReceiveDuplicate(p)
    BY <2>2 DEF ReceiveDuplicate, HasRecord
  <2>3. CASE ReceiveAlert(p)
    BY <2>3 DEF ReceiveAlert, HasRecord
  <2>4. CASE LeaveLoop(p)
    BY <2>4 DEF LeaveLoop
  <2>5. CASE SourceRaises(p)
    BY <2>5 DEF SourceRaises
  <2> QED BY <2>1, <2>2, <2>3, <2>4, <2>5
<1>5. ASSUME NEW q \in Procs, q # p PROVE BatchInv(q)'
  <2>1. pc'[q] = pc[q] /\ row'[q] = row[q] /\ batch'[q] = batch[q]
    BY <1>2, <1>5 DEF TypeOK, SkipUndecodable, ReceiveDuplicate, ReceiveAlert,
       LeaveLoop, SourceRaises
  <2> QED BY <1>1, <2>1, BystanderInv, DatabaseUnchanged
<1> QED BY <1>1, <1>3, <1>4, <1>5, DatabaseUnchanged DEF IInv

(* The end of a batch, whichever way it ends.                              *)
LEMMA EndBatchKeeps ==
    ASSUME TypeOK, NEW p \in Procs, EndBatch(p)
    PROVE  /\ batch' \in [Procs -> Seq(Alerts)]
           /\ row' \in [Procs -> Nat \ {0}]
           /\ rowcount' \in [Procs -> Nat]
           /\ pc' \in [Procs -> Running \cup Ended \cup {"close"}]
           /\ BatchInv(p)'
           /\ \A q \in Procs : q # p => /\ pc'[q] = pc[q]
                                        /\ row'[q] = row[q]
                                        /\ batch'[q] = batch[q]
<1>1. batch' \in [Procs -> Seq(Alerts)]
  <2>1. <<>> \in Seq(Alerts)
    OBVIOUS
  <2> QED BY <2>1 DEF EndBatch, TypeOK
<1>2. /\ row' \in [Procs -> Nat \ {0}]
      /\ rowcount' \in [Procs -> Nat]
      /\ pc' \in [Procs -> Running \cup Ended \cup {"close"}]
  BY DEF EndBatch, TypeOK, Running
<1>3. row'[p] = 1 /\ pc'[p] \in {"complete", "fetch"}
  BY DEF EndBatch, TypeOK
<1>4. BatchInv(p)'
  BY <1>3 DEF BatchInv, Ended
<1> QED BY <1>1, <1>2, <1>4 DEF EndBatch, TypeOK

(* Start gives a run its options, its place in the feed and fresh counters. *)
LEMMA StartKeeps ==
    ASSUME IInv, NEW p \in Procs, Start(p)
    PROVE  IInv' /\ db.raw \subseteq db'.raw
<1> USE DEF database
<1>1. TypeOK /\ BatchInv(p) /\ UNCHANGED database
  BY DEF IInv, Start
<1>2. TypeOK'
  <2>1. NoStats \in Stats
    BY DEF NoStats, Stats
  <2>2. KnownSources(db) \in SUBSET Sources
    BY DEF KnownSources
  <2>3. pc' \in [Procs -> Running \cup Ended \cup {"close"}]
    BY <1>1 DEF Start, TypeOK, Running
  <2>4. start' \in [Procs -> Nat] /\ pos' \in [Procs -> Nat]
    BY <1>1 DEF Start, TypeOK
  <2>5. opt' \in [Procs -> Options] /\ nruns' \in [Procs -> Nat]
    BY <1>1 DEF Start, TypeOK
  <2>6. /\ stats' \in [Procs -> Stats]
        /\ runs' \in [Procs -> RunRow \cup {None}]
        /\ known' \in [Procs -> SUBSET Sources]
        /\ added' \in [Procs -> SUBSET Alerts]
        /\ raised' \in [Procs -> BOOLEAN]
    BY <1>1, <2>1, <2>2 DEF Start, TypeOK
  <2> QED
    BY <1>1, <2>3, <2>4, <2>5, <2>6, DatabaseUnchanged DEF Start, TypeOK
<1>3. BatchInv(p)'
  BY <1>1 DEF Start, BatchInv, Ended, TypeOK
<1>4. ASSUME NEW q \in Procs, q # p PROVE BatchInv(q)'
  <2>1. pc'[q] = pc[q] /\ row'[q] = row[q] /\ batch'[q] = batch[q]
    BY <1>1, <1>4 DEF Start, TypeOK
  <2> QED BY <1>1, <2>1, BystanderInv, DatabaseUnchanged
<1> QED BY <1>1, <1>2, <1>3, <1>4, DatabaseUnchanged DEF IInv

(* A batch that ends without a commit: a dry run, or a failure, which      *)
(* leaves the writer's copy with the rows it already inserted.             *)
LEMMA UncommittedBatchKeeps ==
    ASSUME IInv, NEW p \in Procs,
           DryRunBatch(p) \/ InsertFails(p) \/ UpsertFails(p)
    PROVE  IInv' /\ db.raw \subseteq db'.raw
<1> USE DEF database, process
<1>1. TypeOK /\ UNCHANGED database /\ EndBatch(p)
  BY DEF IInv, DryRunBatch, InsertFails, UpsertFails, FailBatch
<1>2. stats' \in [Procs -> Stats]
  <2>1. stats \in [Procs -> Stats] /\ Len(batch[p]) \in Nat
    BY <1>1 DEF TypeOK
  <2>2. /\ [stats EXCEPT ![p].stored = @ + Len(batch[p])] \in [Procs -> Stats]
        /\ [stats EXCEPT ![p].failed = @ + Len(batch[p])] \in [Procs -> Stats]
    BY <2>1, CounterTypes, Zenon
  <2> QED BY <2>2 DEF DryRunBatch, InsertFails, UpsertFails, FailBatch
<1>3. snap' \in [Procs -> Database \cup {None, Begun, Newest}]
  BY <1>1 DEF DryRunBatch, InsertFails, UpsertFails, FailBatch,
              SnapAfterError, TypeOK
<1>4. TypeOK'
  BY <1>1, <1>2, <1>3, EndBatchKeeps, DatabaseUnchanged
     DEF DryRunBatch, InsertFails, UpsertFails, TypeOK
<1>5. ASSUME NEW q \in Procs, q # p PROVE BatchInv(q)'
  <2>1. pc'[q] = pc[q] /\ row'[q] = row[q] /\ batch'[q] = batch[q]
    BY <1>1, <1>5, EndBatchKeeps
  <2> QED BY <1>1, <2>1, BystanderInv, DatabaseUnchanged
<1> QED
  BY <1>1, <1>4, <1>5, EndBatchKeeps, DatabaseUnchanged DEF IInv

-----------------------------------------------------------------------------
(* The statements that write.  An inserted row goes to the writer's copy.  *)
LEMMA InsertRowKeeps ==
    ASSUME IInv, NEW p \in Procs, InsertRow(p)
    PROVE  IInv' /\ db.raw \subseteq db'.raw
<1> DEFINE a == batch[p][row[p]]
<1> USE DEF process
<1>1. TypeOK /\ WriterInv /\ BatchInv(p)
  BY DEF IInv
<1>2. a \in Alerts
  BY <1>1 DEF InsertRow, TypeOK
<1>3. CanWrite(p) /\ Base(p) = work /\ work \in Database
  BY <1>1, BaseIsWork DEF InsertRow, TypeOK
<1>4. /\ work' = InsertOrIgnore(work, a)
      /\ writer' = p
      /\ UNCHANGED <<db, horizon>>
  BY <1>3 DEF InsertRow
<1>5. /\ work' \in Database
      /\ work.raw \subseteq work'.raw
      /\ Stored(work', a)
      /\ Tracked(work', horizon)
  <2>1. horizon \in Nat /\ Tracked(work, horizon)
    BY <1>1 DEF TypeOK, WriterInv
  <2> QED BY <1>2, <1>3, <1>4, <2>1, InsertPreserves
<1>6. WriterInv'
  BY <1>1, <1>4, <1>5, PipelineAssumption DEF WriterInv
<1>7. TypeOK'
  <2>1. snap' \in [Procs -> Database \cup {None, Begun, Newest}]
    BY <1>1 DEF InsertRow, TypeOK
  <2>2. row' \in [Procs -> Nat \ {0}] /\ rowcount' \in [Procs -> Nat]
    <3>1. /\ row' = [row EXCEPT ![p] = row[p] + 1]
          /\ \E n \in {0, 1} :
                rowcount' = [rowcount EXCEPT ![p] = rowcount[p] + n]
      BY DEF InsertRow
    <3>2. row \in [Procs -> Nat \ {0}] /\ rowcount \in [Procs -> Nat]
      BY <1>1 DEF TypeOK
    <3>3. row[p] + 1 \in Nat \ {0} /\ \A n \in {0, 1} : rowcount[p] + n \in Nat
      BY <3>2
    <3> QED BY <3>1, <3>2, <3>3
  <2>3. added' \in [Procs -> SUBSET Alerts]
    <3>1. added[p] \cup {a} \in SUBSET Alerts
      BY <1>1, <1>2 DEF TypeOK
    <3> QED BY <1>1, <3>1 DEF InsertRow, TypeOK
  <2> QED
    BY <1>1, <1>4, <1>5, <2>1, <2>2, <2>3 DEF InsertRow, TypeOK
<1>8. BatchInv(p)'
  <2>1. /\ pc'[p] = "insert"
        /\ batch' = batch
        /\ batch[p] \in Seq(Alerts)
        /\ row[p] \in Nat /\ row[p] <= Len(batch[p])
        /\ row'[p] = row[p] + 1
    BY <1>1 DEF InsertRow, Inserting, TypeOK
  <2>2. \A i \in 1 .. row[p] - 1 : Stored(work, batch[p][i])
    BY <1>1, <2>1 DEF BatchInv, InsertRow
  <2>3. \A i \in 1 .. row[p] : Stored(work', batch[p][i])
    <3>1. SUFFICES ASSUME NEW i \in 1 .. row[p]
                   PROVE  Stored(work', batch[p][i])
      OBVIOUS
    <3>2. CASE i = row[p]
      BY <1>5, <3>2
    <3>3. CASE i \in 1 .. row[p] - 1
      BY <1>5, <2>2, <3>3, StoredMonotone
    <3> QED BY <2>1, <3>1, <3>2, <3>3
  <2>4. batch[p] # <<>>
    BY <1>1, <2>1 DEF BatchInv, InsertRow
  <2> QED BY <1>4, <2>1, <2>3, <2>4 DEF BatchInv, Ended
<1>9. ASSUME NEW q \in Procs, q # p PROVE BatchInv(q)'
  <2>1. pc'[q] = pc[q] /\ row'[q] = row[q] /\ batch'[q] = batch[q]
    BY <1>1, <1>9 DEF InsertRow, TypeOK
  <2>2. writer # q
    BY <1>3, <1>9, PipelineAssumption DEF CanWrite
  <2> QED BY <1>4, <2>1, <2>2, BystanderInv
<1> QED BY <1>4, <1>6, <1>7, <1>8, <1>9 DEF IInv

(* The commit of a batch makes all of its rows part of the file.           *)
LEMMA CommitBatchKeeps ==
    ASSUME IInv, NEW p \in Procs, CommitBatch(p)
    PROVE  IInv' /\ db.raw \subseteq db'.raw
<1> USE DEF process
<1>1. TypeOK /\ WriterInv /\ BatchInv(p)
  BY DEF IInv
<1>2. /\ pc[p] = "insert" /\ batch[p] \in Seq(Alerts) /\ row[p] \in Nat
      /\ row[p] = Len(batch[p]) + 1 /\ batch[p] # <<>>
  BY <1>1 DEF CommitBatch, Inserting, BatchInv, TypeOK
<1>3. writer = p
  <2>1. Len(batch[p]) > 0
    BY <1>2
  <2> QED BY <1>1, <1>2, <2>1 DEF BatchInv
<1>4. CanWrite(p) /\ Base(p) = work
  BY <1>3 DEF CanWrite, Base
<1>5. CommitOf(p, work) /\ UNCHANGED horizon
  BY <1>4 DEF CommitBatch
<1>6. /\ WriterInv'
      /\ db' = work /\ writer' = None
      /\ db' \in Database /\ work' \in Database
      /\ writer' \in Procs \cup {None}
      /\ snap' \in [Procs -> Database \cup {None, Begun, Newest}]
      /\ db.raw \subseteq db'.raw
      /\ \A q \in Procs : q # p => writer # q
  <2>1. work \in Database /\ Tracked(work, horizon)
    BY <1>1 DEF TypeOK, WriterInv
  <2> QED BY <1>4, <1>5, <2>1, CommitKeeps
<1>7. stats' \in [Procs -> Stats]
  <2>1. stats \in [Procs -> Stats] /\ rowcount[p] \in Nat
    BY <1>1 DEF TypeOK
  <2>2. [stats EXCEPT ![p].stored = @ + rowcount[p]] \in [Procs -> Stats]
    BY <2>1, CounterTypes, Zenon
  <2> QED BY <2>2 DEF CommitBatch
<1>8. /\ batch' \in [Procs -> Seq(Alerts)]
      /\ row' \in [Procs -> Nat \ {0}]
      /\ rowcount' \in [Procs -> Nat]
      /\ pc' \in [Procs -> Running \cup Ended \cup {"close"}]
      /\ BatchInv(p)'
      /\ \A q \in Procs : q # p => /\ pc'[q] = pc[q]
                                   /\ row'[q] = row[q]
                                   /\ batch'[q] = batch[q]
  <2>1. CASE opt[p].track_state
    <3>1. /\ pc' = [pc EXCEPT ![p] = "lookup"]
          /\ row' = [row EXCEPT ![p] = 1]
          /\ rowcount' = [rowcount EXCEPT ![p] = 0]
          /\ batch' = batch
      BY <2>1 DEF CommitBatch
    <3>2. /\ batch' \in [Procs -> Seq(Alerts)]
          /\ row' \in [Procs -> Nat \ {0}]
          /\ rowcount' \in [Procs -> Nat]
          /\ pc' \in [Procs -> Running \cup Ended \cup {"close"}]
          /\ pc'[p] = "lookup" /\ row'[p] = 1
      BY <1>1, <3>1 DEF TypeOK, Running
    <3>3. \A i \in 1 .. Len(batch[p]) : Stored(db', batch[p][i])
      BY <1>1, <1>2, <1>6 DEF BatchInv
    <3>4. 1 <= Len(batch[p])
      BY <1>2
    <3>5. BatchInv(p)'
      BY <3>1, <3>2, <3>3, <3>4 DEF BatchInv, Ended
    <3> QED BY <1>1, <3>1, <3>2, <3>5 DEF TypeOK
  <2>2. CASE ~ opt[p].track_state
    BY <1>1, <2>2, EndBatchKeeps DEF CommitBatch
  <2> QED BY <2>1, <2>2
<1>9. TypeOK'
  BY <1>1, <1>6, <1>7, <1>8 DEF CommitBatch, TypeOK
<1>10. ASSUME NEW q \in Procs, q # p PROVE BatchInv(q)'
  BY <1>6, <1>8, <1>10, BystanderInv
<1> QED BY <1>6, <1>8, <1>9, <1>10 DEF IInv

(* The tracker updates the source of an alert that is stored.              *)
LEMMA UpsertSourceKeeps ==
    ASSUME IInv, NEW p \in Procs, UpsertSource(p)
    PROVE  IInv' /\ db.raw \subseteq db'.raw
<1> DEFINE a == batch[p][row[p]]
           d == UpdateProcessedSource(work, a)
<1> USE DEF process
<1>1. TypeOK /\ WriterInv /\ BatchInv(p)
  BY DEF IInv
<1>2. /\ CanWrite(p) /\ Base(p) = work
      /\ CommitOf(p, d) /\ UNCHANGED horizon
  BY <1>1, BaseIsWork DEF UpsertSource
<1>3. /\ pc[p] = "upsert"
      /\ batch[p] \in Seq(Alerts) /\ row[p] \in Nat \ {0}
      /\ row[p] <= Len(batch[p])
      /\ \A i \in 1 .. Len(batch[p]) : Stored(db, batch[p][i])
  <2>1. batch[p] \in Seq(Alerts) /\ row[p] \in Nat \ {0}
    BY <1>1 DEF TypeOK
  <2> QED BY <1>1, <2>1 DEF UpsertSource, BatchInv
<1>4. a \in Alerts /\ Stored(db, a)
  BY <1>3
<1>5. Stored(work, a)
  BY <1>1, <1>4, StoredMonotone DEF WriterInv
<1>6. d \in Database /\ d.raw = work.raw /\ Tracked(d, horizon)
  <2>1. work \in Database /\ horizon \in Nat /\ Tracked(work, horizon)
    BY <1>1 DEF TypeOK, WriterInv
  <2> QED BY <1>4, <1>5, <2>1, UpdatePreserves
<1>7. /\ WriterInv'
      /\ db' = d /\ writer' = None
      /\ db' \in Database /\ work' \in Database
      /\ writer' \in Procs \cup {None}
      /\ snap' \in [Procs -> Database \cup {None, Begun, Newest}]
      /\ db.raw \subseteq db'.raw
      /\ \A q \in Procs : q # p => writer # q
  <2> HIDE DEF d
  <2> QED BY <1>2, <1>6, CommitKeeps
<1> HIDE DEF a, d
<1>8. /\ batch' \in [Procs -> Seq(Alerts)]
      /\ row' \in [Procs -> Nat \ {0}]
      /\ rowcount' \in [Procs -> Nat]
      /\ pc' \in [Procs -> Running \cup Ended \cup {"close"}]
      /\ BatchInv(p)'
      /\ \A q \in Procs : q # p => /\ pc'[q] = pc[q]
                                   /\ row'[q] = row[q]
                                   /\ batch'[q] = batch[q]
  <2>1. CASE row[p] < Len(batch[p])
    <3>1. /\ pc' = [pc EXCEPT ![p] = "lookup"]
          /\ row' = [row EXCEPT ![p] = row[p] + 1]
          /\ batch' = batch /\ rowcount' = rowcount
      BY <2>1 DEF UpsertSource
    <3>2. /\ batch' \in [Procs -> Seq(Alerts)]
          /\ rowcount' \in [Procs -> Nat]
          /\ pc' \in [Procs -> Running \cup Ended \cup {"close"}]
          /\ pc'[p] = "lookup"
      BY <1>1, <3>1 DEF TypeOK, Running
    <3>3. row' \in [Procs -> Nat \ {0}] /\ row'[p] = row[p] + 1
      <4>1. row \in [Procs -> Nat \ {0}] /\ row[p] + 1 \in Nat \ {0}
        BY <1>1, <1>3 DEF TypeOK
      <4> QED BY <3>1, <4>1
    <3>4. \A i \in 1 .. Len(batch[p]) : Stored(db', batch[p][i])
      BY <1>3, <1>7, StoredMonotone
    <3>5. row[p] + 1 <= Len(batch[p])
      BY <1>3, <2>1
    <3>6. BatchInv(p)'
      BY <3>1, <3>2, <3>3, <3>4, <3>5 DEF BatchInv, Ended
    <3> QED BY <1>1, <3>1, <3>2, <3>3, <3>6 DEF TypeOK
  <2>2. CASE ~ row[p] < Len(batch[p])
    BY <1>1, <2>2, EndBatchKeeps DEF UpsertSource
  <2> QED BY <2>1, <2>2
<1>9. TypeOK'
  BY <1>1, <1>7, <1>8 DEF UpsertSource, TypeOK
<1>10. ASSUME NEW q \in Procs, q # p PROVE BatchInv(q)'
  BY <1>7, <1>8, <1>10, BystanderInv
<1> QED BY <1>7, <1>8, <1>9, <1>10 DEF IInv

(* The look-up only counts.                                                *)
LEMMA LookupSourceKeeps ==
    ASSUME IInv, NEW p \in Procs, LookupSource(p)
    PROVE  IInv' /\ db.raw \subseteq db'.raw
<1> USE DEF database, process
<1>1. TypeOK /\ BatchInv(p) /\ UNCHANGED database
  BY DEF IInv, LookupSource
<1>2. stats' \in [Procs -> Stats]
  <2>1. stats \in [Procs -> Stats] /\ 1 \in Nat
    BY <1>1 DEF TypeOK
  <2>2. [stats EXCEPT ![p].new = @ + 1] \in [Procs -> Stats]
    BY <2>1, CounterTypes, Zenon
  <2> QED BY <2>1, <2>2 DEF LookupSource
<1>3. TypeOK'
  BY <1>1, <1>2, DatabaseUnchanged DEF LookupSource, TypeOK, Running
<1>4. BatchInv(p)'
  <2>1. pc'[p] = "upsert" /\ pc[p] = "lookup"
    BY <1>1 DEF LookupSource, TypeOK
  <2> QED BY <1>1, <2>1 DEF LookupSource, BatchInv, Ended
<1>5. ASSUME NEW q \in Procs, q # p PROVE BatchInv(q)'
  <2>1. pc'[q] = pc[q] /\ row'[q] = row[q] /\ batch'[q] = batch[q]
    BY <1>1, <1>5 DEF LookupSource, TypeOK
  <2> QED BY <1>1, <2>1, BystanderInv, DatabaseUnchanged
<1> QED BY <1>1, <1>3, <1>4, <1>5, DatabaseUnchanged DEF IInv

(* The row of the run, and the commit of whatever was left open.           *)
LEMMA RecordRunKeeps ==
    ASSUME IInv, NEW p \in Procs, RecordRun(p)
    PROVE  IInv' /\ db.raw \subseteq db'.raw
<1> USE DEF process
<1>1. TypeOK /\ WriterInv /\ UNCHANGED horizon
  BY DEF IInv, RecordRun
<1>2. /\ WriterInv'
      /\ db' \in Database /\ work' \in Database
      /\ writer' \in Procs \cup {None}
      /\ snap' \in [Procs -> Database \cup {None, Begun, Newest}]
      /\ runs' \in [Procs -> RunRow \cup {None}]
      /\ db.raw \subseteq db'.raw
      /\ \A q \in Procs : q # p /\ writer = q => writer' = q /\ work' = work
  <2>1. CASE opt[p].dry_run
    <3>1. UNCHANGED <<db, writer, work, snap, runs>>
      BY <2>1 DEF RecordRun
    <3>2. UNCHANGED database
      BY <1>1, <3>1 DEF database
    <3> QED BY <1>1, <3>1, <3>2, DatabaseUnchanged DEF TypeOK
  <2>2. CASE ~ opt[p].dry_run
    <3>1. /\ CanWrite(p) /\ CommitOf(p, Base(p))
          /\ runs' = [runs EXCEPT ![p] = RunRecord(p)]
      BY <2>2 DEF RecordRun
    <3>2. /\ Base(p) \in Database
          /\ Tracked(Base(p), horizon)
      BY <1>1, <3>1, BaseIsWork DEF WriterInv, TypeOK
    <3>3. RunRecord(p) \in RunRow
      <4>1. stats[p] \in Stats
        BY <1>1 DEF TypeOK
      <4> QED BY <4>1 DEF RunRecord, RunRow, Stats
    <3>4. runs' \in [Procs -> RunRow \cup {None}]
      BY <1>1, <3>1, <3>3 DEF TypeOK
    <3> HIDE DEF process
    <3> QED BY <1>1, <3>1, <3>2, <3>4, CommitKeeps
  <2> QED BY <2>1, <2>2
<1>3. pc' \in [Procs -> Running \cup Ended \cup {"close"}] /\ pc'[p] = "close"
  BY <1>1 DEF RecordRun, TypeOK
<1>4. TypeOK'
  BY <1>1, <1>2, <1>3 DEF RecordRun, TypeOK
<1>5. BatchInv(p)'
  BY <1>3 DEF BatchInv, Ended
<1>6. ASSUME NEW q \in Procs, q # p PROVE BatchInv(q)'
  <2>1. pc'[q] = pc[q] /\ row'[q] = row[q] /\ batch'[q] = batch[q]
    BY <1>1, <1>6 DEF RecordRun, TypeOK
  <2> QED BY <1>2, <1>6, <2>1, BystanderInv
<1> QED BY <1>2, <1>4, <1>5, <1>6 DEF IInv

(* What leaves the database and the batch alone.                           *)
LEMMA OutsideBatchKeeps ==
    ASSUME IInv, NEW p \in Procs,
           RecordRunFails(p) \/ Interrupt(p) \/ CommitOffset(p)
    PROVE  IInv' /\ db.raw \subseteq db'.raw
<1> USE DEF database, process
<1>1. TypeOK /\ BatchInv(p) /\ UNCHANGED <<database, row, batch>>
  BY DEF IInv, RecordRunFails, Interrupt, CommitOffset
<1>2. /\ pc' \in [Procs -> Running \cup Ended \cup {"close"}]
      /\ pc'[p] = pc[p] \/ pc'[p] \in {"close", "fail_counted"}
      /\ \A q \in Procs : q # p => pc'[q] = pc[q]
  BY <1>1 DEF RecordRunFails, Interrupt, CommitOffset, TypeOK, Running,
              Failing
<1>3. snap' \in [Procs -> Database \cup {None, Begun, Newest}]
  BY <1>1 DEF RecordRunFails, Interrupt, CommitOffset, TypeOK,
              SnapAfterError
<1>4. raised' \in [Procs -> BOOLEAN] /\ offset' \in [Procs -> Nat]
  BY <1>1 DEF RecordRunFails, Interrupt, CommitOffset, TypeOK
<1>5. TypeOK'
  BY <1>1, <1>2, <1>3, <1>4, DatabaseUnchanged
     DEF RecordRunFails, Interrupt, CommitOffset, TypeOK
<1>6. ASSUME NEW q \in Procs PROVE BatchInv(q)'
  <2>1. CASE pc'[q] = pc[q]
    BY <1>1, <2>1, BystanderInv, DatabaseUnchanged
  <2>2. CASE pc'[q] \in {"close", "fail_counted"}
    BY <2>2 DEF BatchInv, Ended
  <2> QED BY <1>2, <2>1, <2>2
<1> QED BY <1>1, <1>5, <1>6, DatabaseUnchanged DEF IInv

(* The end of a process, orderly or not, ends its transaction with it.     *)
LEMMA EndKeeps ==
    ASSUME IInv, NEW p \in Procs, Close(p) \/ Crash(p)
    PROVE  IInv' /\ db.raw \subseteq db'.raw
<1> USE DEF process
<1>1. TypeOK /\ LoseMemory(p)
  BY DEF IInv, Close, Crash
<1>2. Disconnect(p) /\ UNCHANGED <<db, horizon>>
  BY <1>1 DEF LoseMemory
<1>3. /\ WriterInv'
      /\ work' \in Database /\ writer' \in Procs \cup {None}
      /\ snap' \in [Procs -> Database \cup {None, Begun, Newest}]
      /\ \A q \in Procs : q # p /\ writer = q => writer' = q /\ work' = work
  BY <1>2, DisconnectKeeps
<1>4. /\ pc' \in [Procs -> Running \cup Ended \cup {"close"}]
      /\ pc'[p] \in Ended
      /\ \A q \in Procs : q # p => pc'[q] = pc[q]
  BY <1>1 DEF Close, Crash, TypeOK, Ended
<1>5. offset' \in [Procs -> Nat]
  BY <1>1 DEF Close, Crash, TypeOK
<1>6. /\ batch' \in [Procs -> Seq(Alerts)]
      /\ row' \in [Procs -> Nat \ {0}]
      /\ rowcount' \in [Procs -> Nat]
      /\ added' \in [Procs -> SUBSET Alerts]
      /\ row'[p] = 1
      /\ \A q \in Procs : q # p => row'[q] = row[q] /\ batch'[q] = batch[q]
  <2>1. <<>> \in Seq(Alerts) /\ added[p] \cap db.raw \in SUBSET Alerts
    BY <1>1 DEF TypeOK
  <2> QED BY <1>1, <2>1 DEF LoseMemory, TypeOK
<1>7. TypeOK'
  BY <1>1, <1>2, <1>3, <1>4, <1>5, <1>6 DEF LoseMemory, TypeOK
<1>8. BatchInv(p)'
  BY <1>4, <1>6 DEF BatchInv, Ended
<1>9. ASSUME NEW q \in Procs, q # p PROVE BatchInv(q)'
  BY <1>2, <1>3, <1>4, <1>6, <1>9, BystanderInv
<1> QED BY <1>2, <1>3, <1>7, <1>8, <1>9 DEF IInv

(* Retention moves the horizon with what it forgets.                       *)
LEMMA CleanupKeeps ==
    ASSUME IInv, NEW t \in Thresholds, Cleanup(t)
    PROVE  IInv' /\ db.raw \subseteq db'.raw
<1> USE DEF process
<1>1. TypeOK /\ WriterInv /\ t \in Nat
  BY PipelineAssumption DEF IInv
<1>2. /\ writer = None /\ writer' = None
      /\ db' = CleanupOldState(db, t) /\ work' = db'
      /\ horizon' = IF horizon < t THEN t ELSE horizon
  BY DEF Cleanup
<1>3. /\ db' \in Database /\ db'.raw = db.raw /\ Tracked(db', horizon')
      /\ horizon' \in Nat
  <2>1. db \in Database /\ horizon \in Nat /\ Tracked(db, horizon)
    BY <1>1 DEF TypeOK, WriterInv
  <2> QED BY <1>1, <1>2, <2>1, CleanupPreserves
<1>4. WriterInv'
  BY <1>2, <1>3 DEF WriterInv
<1>5. snap' \in [Procs -> Database \cup {None, Begun, Newest}]
  BY <1>1 DEF Cleanup, Superseded, TypeOK
<1>6. TypeOK'
  BY <1>1, <1>2, <1>3, <1>5 DEF Cleanup, TypeOK
<1>7. ASSUME NEW q \in Procs PROVE BatchInv(q)'
  <2>1. writer # q
    BY <1>2, PipelineAssumption
  <2> QED BY <1>3, <2>1, BystanderInv DEF Cleanup
<1> QED BY <1>3, <1>4, <1>6, <1>7 DEF IInv

-----------------------------------------------------------------------------
LEMMA NextKeeps ==
    ASSUME IInv, [Next]_vars
    PROVE  IInv' /\ db.raw \subseteq db'.raw
<1>1. CASE UNCHANGED vars
  BY <1>1 DEF vars, IInv, TypeOK, WriterInv, BatchInv, Stored
<1>2. ASSUME NEW p \in Procs, Step(p)
      PROVE  IInv' /\ db.raw \subseteq db'.raw
  BY <1>2, ReceivingKeeps, UncommittedBatchKeeps, InsertRowKeeps,
     CommitBatchKeeps, LookupSourceKeeps, UpsertSourceKeeps, RecordRunKeeps,
     OutsideBatchKeeps, EndKeeps DEF Step
<1>3. ASSUME NEW p \in Procs, Disturbance(p)
      PROVE  IInv' /\ db.raw \subseteq db'.raw
  BY <1>3, StartKeeps, ReceivingKeeps, OutsideBatchKeeps, EndKeeps
     DEF Disturbance
<1>4. ASSUME NEW t \in Thresholds, Cleanup(t)
      PROVE  IInv' /\ db.raw \subseteq db'.raw
  BY <1>4, CleanupKeeps
<1> QED BY <1>1, <1>2, <1>3, <1>4 DEF Next

THEOREM Invariant == Spec => []IInv
<1>1. IInv /\ [Next]_vars => IInv'
  BY NextKeeps
<1> QED BY <1>1, InitIInv, PTL DEF Spec

(* TypeOK: every field of PipelineStats, every run's row and every table   *)
(* keeps its type, for any number of processes, feeds and restarts.        *)
THEOREM TypeCorrect == Spec => []TypeOK
<1>1. IInv => TypeOK
  BY DEF IInv
<1> QED BY <1>1, Invariant, PTL

(* TrackingCoversLog: processed_sources agrees with alerts_raw at every    *)
(* commit of write_batch, update_processed_source, write_ingestion_run and *)
(* cleanup_old_state, whatever is interrupted, killed or fails between.    *)
THEOREM TrackingCorrect == Spec => []TrackingCoversLog
<1>1. IInv => TrackingCoversLog
  BY DEF IInv, WriterInv, TrackingCoversLog
<1> QED BY <1>1, Invariant, PTL

(* AuditTrail: no commit removes or replaces a row of alerts_raw.          *)
THEOREM AuditTrailKept == Spec => AuditTrail
<1>1. IInv /\ [Next]_vars => [db.raw \subseteq db'.raw]_db
  BY NextKeeps
<1> QED BY <1>1, Invariant, PTL DEF Spec, AuditTrail

-----------------------------------------------------------------------------
(***************************************************************************)
(* What a run reports and what it leaves in alerts_raw: CompletedRunStored *)
(* and RunAccounting.                                                      *)
(*                                                                         *)
(* Neither property is inductive: both speak of a run that is over, whose  *)
(* counters were collected batch by batch.  The strengthening follows the  *)
(* run.  While it works, the rows it added and the alerts it was given are *)
(* looked for in Base(p), the contents its next commit will publish: its   *)
(* own uncommitted copy while it holds the lock (which a failed batch      *)
(* leaves open), the file otherwise.                                       *)
(***************************************************************************)

(* An old snapshot holds no row that the file has not.                     *)
SnapInv ==
    \A q \in Procs :
        snap[q] \notin {None, Begun, Newest} => snap[q].raw \subseteq db.raw

HasId(d, a) == \E b \in d.raw : IdOf[b] = IdOf[a]

(* The counters account for the rows p's run added.                        *)
Accounts(p, ingested, failed) ==
    /\ Cardinality(added[p]) <= ingested + failed
    /\ failed = 0 => ingested = Cardinality(added[p])

Working == {"fetch", "insert", "lookup", "upsert", "complete"}

(* The rows of the current batch are counted in rowcount until its commit. *)
WorkInv(p) ==
    pc[p] \in Working /\ ~ opt[p].dry_run =>
        /\ Accounts(p, stats[p].stored + rowcount[p], stats[p].failed)
        /\ stats[p].failed = 0 =>
              \A a \in Delivered(p) :
                 \/ HasId(Base(p), a)
                 \/ \E i \in 1 .. Len(batch[p]) : batch[p][i] = a

(* rowcount counts rows of the batch in progress.                          *)
RowcountInv(p) ==
    /\ pc[p] \in {"fetch", "insert"} => rowcount[p] < row[p]
    /\ pc[p] \in {"lookup", "upsert", "complete"} \cup Ended => rowcount[p] = 0
    /\ pc[p] = "complete" => batch[p] = <<>>

(* The row of ingestion_runs is written last, and after a failure only by  *)
(* _fail_run; a dry run writes none.                                       *)
RecordInv(p) ==
    /\ pc[p] \in Running \/ opt[p].dry_run => runs[p] = None
    /\ pc[p] \in Failing => raised[p]

(* A run that was recorded as completed, before and after its connection   *)
(* is closed.                                                              *)
ReportInv(p) ==
    /\ pc[p] \in {"close", "done"}
    /\ runs[p] # None
    /\ runs[p].status = "completed"
    /\ ~ raised[p]
    => /\ writer # p
       /\ Accounts(p, runs[p].ingested, runs[p].failed)
       /\ runs[p].failed = 0 => \A a \in Delivered(p) : HasId(db, a)

RunInv(p) ==
    /\ IsFiniteSet(added[p])
    /\ added[p] \subseteq Base(p).raw
    /\ WorkInv(p) /\ RowcountInv(p) /\ RecordInv(p) /\ ReportInv(p)

RInv == SnapInv /\ \A p \in Procs : RunInv(p)

(* Another process's step leaves p's run alone.                            *)
Untouched(p) ==
    /\ pc'[p] = pc[p] /\ opt'[p] = opt[p] /\ start'[p] = start[p]
    /\ pos'[p] = pos[p] /\ batch'[p] = batch[p] /\ row'[p] = row[p]
    /\ rowcount'[p] = rowcount[p] /\ stats'[p] = stats[p]
    /\ runs'[p] = runs[p] /\ added'[p] = added[p] /\ raised'[p] = raised[p]

-----------------------------------------------------------------------------
(* What a counter of PipelineStats is after it grew.                       *)
LEMMA CounterValues ==
    ASSUME NEW f \in [Procs -> Stats], NEW p \in Procs, NEW n \in Nat
    PROVE  /\ [f EXCEPT ![p].received = @ + n][p].stored = f[p].stored
           /\ [f EXCEPT ![p].received = @ + n][p].failed = f[p].failed
           /\ [f EXCEPT ![p].new = @ + n][p].stored = f[p].stored
           /\ [f EXCEPT ![p].new = @ + n][p].failed = f[p].failed
           /\ [f EXCEPT ![p].stored = @ + n][p].stored = f[p].stored + n
           /\ [f EXCEPT ![p].stored = @ + n][p].failed = f[p].failed
           /\ [f EXCEPT ![p].failed = @ + n][p].stored = f[p].stored
           /\ [f EXCEPT ![p].failed = @ + n][p].failed = f[p].failed + n
<1> DEFINE st == f[p]
<1>1. st \in Stats
  OBVIOUS
<1> HIDE DEF st
<1>2. /\ [st EXCEPT !.received = @ + n].stored = st.stored
      /\ [st EXCEPT !.received = @ + n].failed = st.failed
      /\ [st EXCEPT !.new = @ + n].stored = st.stored
      /\ [st EXCEPT !.new = @ + n].failed = st.failed
      /\ [st EXCEPT !.stored = @ + n].stored = st.stored + n
      /\ [st EXCEPT !.stored = @ + n].failed = st.failed
      /\ [st EXCEPT !.failed = @ + n].stored = st.stored
      /\ [st EXCEPT !.failed = @ + n].failed = st.failed + n
  BY <1>1 DEF Stats
<1> QED BY <1>2 DEF st

(* A row that is stored has its alert_id in the table, and stays there.    *)
LEMMA StoredHasId ==
    ASSUME NEW d, NEW a, Stored(d, a) PROVE HasId(d, a)
BY DEF Stored, SameKey, HasId

LEMMA HasIdMonotone ==
    ASSUME NEW d, NEW e, NEW a, d.raw \subseteq e.raw, HasId(d, a)
    PROVE  HasId(e, a)
BY DEF HasId

(* What p may read is what it would publish, or less.                      *)
LEMMA ViewInBase ==
    ASSUME SnapInv, NEW p \in Procs
    PROVE  View(p).raw \subseteq Base(p).raw
BY DEF SnapInv, View, Base

(* A number of rows.                                                       *)
LEMMA AddedCount ==
    ASSUME NEW p \in Procs, RunInv(p)
    PROVE  Cardinality(added[p]) \in Nat
BY FS_CardinalityType DEF RunInv

-----------------------------------------------------------------------------
LEMMA InitRInv == Init => RInv
<1> SUFFICES ASSUME Init PROVE RInv
  OBVIOUS
<1> USE DEF Init
<1>1. SnapInv
  BY DEF SnapInv
<1>2. ASSUME NEW p \in Procs PROVE RunInv(p)
  <2>1. IsFiniteSet(added[p]) /\ added[p] \subseteq Base(p).raw
    BY FS_EmptySet
  <2>2. /\ pc[p] = "idle" /\ batch[p] = <<>> /\ rowcount[p] = 0
        /\ runs[p] = None
    OBVIOUS
  <2> QED
    BY <2>1, <2>2
       DEF RunInv, WorkInv, RowcountInv, RecordInv, ReportInv, Working,
           Running, Failing, Ended
<1> QED BY <1>1, <1>2 DEF RInv

(* A process whose run is untouched by a step that loses no row of the     *)
(* file, nor its transaction, and gives it no lock.                        *)
LEMMA BystanderRun ==
    ASSUME NEW q \in Procs, RunInv(q), Untouched(q),
           db.raw \subseteq db'.raw,
           writer = q => writer' = q /\ work' = work,
           writer' = q => writer = q
    PROVE  RunInv(q)'
<1>1. Base(q).raw \subseteq Base(q)'.raw
  BY DEF Base
<1>2. Delivered(q)' = Delivered(q)
  BY DEF Delivered, Untouched
<1>3. WorkInv(q)'
  BY <1>1, <1>2, HasIdMonotone DEF RunInv, WorkInv, Accounts, Untouched
<1>4. ReportInv(q)'
  BY <1>2, HasIdMonotone DEF RunInv, ReportInv, Accounts, Untouched
<1> QED
  BY <1>1, <1>3, <1>4 DEF RunInv, RowcountInv, RecordInv, Untouched

(* Each process has variables of its own, and the lock is taken and        *)
(* released by its holder only.                                            *)
LEMMA OthersUntouched ==
    ASSUME IInv, NEW p \in Procs, NEW q \in Procs, q # p,
           Step(p) \/ Disturbance(p)
    PROVE  /\ Untouched(q)
           /\ writer = q => writer' = q /\ work' = work
           /\ writer' = q => writer = q
<1>1. TypeOK
  BY DEF IInv
<1>2. Untouched(q)
  <2>1. opt'[q] = opt[q] /\ start'[q] = start[q]
    BY <1>1 DEF Step, Disturbance, SkipUndecodable, ReceiveDuplicate,
       ReceiveAlert, LeaveLoop, DryRunBatch, InsertRow, CommitBatch,
       InsertFails, LookupSource, UpsertSource, UpsertFails, RecordRun,
       RecordRunFails, Close, Start, SourceRaises, Interrupt, Crash,
       CommitOffset, LoseMemory, process, TypeOK
  <2>2. pos'[q] = pos[q]
    BY <1>1 DEF Step, Disturbance, SkipUndecodable, ReceiveDuplicate,
       ReceiveAlert, LeaveLoop, DryRunBatch, InsertRow, CommitBatch,
       InsertFails, LookupSource, UpsertSource, UpsertFails, RecordRun,
       RecordRunFails, Close, Start, SourceRaises, Interrupt, Crash,
       CommitOffset, LoseMemory, Consume, TypeOK
  <2>3. pc'[q] = pc[q]
    BY <1>1 DEF Step, Disturbance, SkipUndecodable, ReceiveDuplicate,
       ReceiveAlert, LeaveLoop, DryRunBatch, InsertRow, CommitBatch,
       InsertFails, LookupSource, UpsertSource, UpsertFails, RecordRun,
       RecordRunFails, Close, Start, SourceRaises, Interrupt, Crash,
       CommitOffset, EndBatch, FailBatch, TypeOK
  <2>4. batch'[q] = batch[q] /\ row'[q] = row[q] /\ rowcount'[q] = rowcount[q]
    BY <1>1 DEF Step, Disturbance, SkipUndecodable, ReceiveDuplicate,
       ReceiveAlert, LeaveLoop, DryRunBatch, InsertRow, CommitBatch,
       InsertFails, LookupSource, UpsertSource, UpsertFails, RecordRun,
       RecordRunFails, Close, Start, SourceRaises, Interrupt, Crash,
       CommitOffset, EndBatch, FailBatch, LoseMemory, TypeOK
  <2>5. stats'[q] = stats[q]
    BY <1>1 DEF Step, Disturbance, SkipUndecodable, ReceiveDuplicate,
       ReceiveAlert, LeaveLoop, DryRunBatch, InsertRow, CommitBatch,
       InsertFails, LookupSource, UpsertSource, UpsertFails, RecordRun,
       RecordRunFails, Close, Start, SourceRaises, Interrupt, Crash,
       CommitOffset, FailBatch, LoseMemory, CountReceived, TypeOK
  <2>6. runs'[q] = runs[q] /\ added'[q] = added[q] /\ raised'[q] = raised[q]
    BY <1>1 DEF Step, Disturbance, SkipUndecodable, ReceiveDuplicate,
       ReceiveAlert, LeaveLoop, DryRunBatch, InsertRow, CommitBatch,
       InsertFails, LookupSource, UpsertSource, UpsertFails, RecordRun,
       RecordRunFails, Close, Start, SourceRaises, Interrupt, Crash,
       CommitOffset, LoseMemory, TypeOK
  <2> QED BY <2>1, <2>2, <2>3, <2>4, <2>5, <2>6 DEF Untouched
<1>3. \/ UNCHANGED <<writer, work>>
      \/ Disconnect(p)
      \/ CanWrite(p) /\ writer' \in {p, None}
  <2>1. CASE CommitBatch(p)
    <3>1. pc[p] = "insert" /\ row[p] > Len(batch[p]) /\ writer' = None
      BY <2>1 DEF CommitBatch, Inserting, CommitOf
    <3>2. batch[p] # <<>> /\ batch[p] \in Seq(Alerts) /\ row[p] \in Nat \ {0}
      BY <1>1, <3>1 DEF IInv, BatchInv, TypeOK
    <3>3. writer = p
      BY <3>1, <3>2 DEF IInv, BatchInv
    <3> QED BY <3>1, <3>3 DEF CanWrite
  <2>2. CASE InsertRow(p) \/ UpsertSource(p) \/ RecordRun(p)
    BY <2>2 DEF InsertRow, UpsertSource, RecordRun, CommitOf
  <2>3. CASE Close(p) \/ Crash(p)
    BY <2>3 DEF Close, Crash, LoseMemory
  <2>4. CASE \/ SkipUndecodable(p) \/ ReceiveDuplicate(p) \/ ReceiveAlert(p)
             \/ LeaveLoop(p) \/ DryRunBatch(p) \/ InsertFails(p)
             \/ LookupSource(p) \/ UpsertFails(p) \/ RecordRunFails(p)
             \/ Start(p) \/ SourceRaises(p) \/ Interrupt(p) \/ CommitOffset(p)
    BY <2>4 DEF SkipUndecodable, ReceiveDuplicate, ReceiveAlert, LeaveLoop,
       DryRunBatch, InsertFails, LookupSource, UpsertFails, RecordRunFails,
       Start, SourceRaises, Interrupt, CommitOffset, database
  <2> QED BY <2>1, <2>2, <2>3, <2>4 DEF Step, Disturbance
<1>4. /\ writer = q => writer' = q /\ work' = work
      /\ writer' = q => writer = q
  BY <1>3, PipelineAssumption DEF Disconnect, CanWrite
<1> QED BY <1>2, <1>4

-----------------------------------------------------------------------------
(* A snapshot is bound to what the file holds, when it is taken or when    *)
(* the first commit after that leaves it behind.                           *)
LEMMA SnapKeeps ==
    ASSUME IInv, SnapInv, [Next]_vars
    PROVE  SnapInv'
<1> DEFINE Old(q) == \/ snap'[q] \in {None, Begun, Newest}
                     \/ snap'[q] = snap[q]
                     \/ snap[q] = Newest /\ snap'[q] = db
<1>1. db.raw \subseteq db'.raw
  BY NextKeeps
<1>2. SUFFICES ASSUME NEW q \in Procs PROVE Old(q)
  BY <1>1, <1>2 DEF SnapInv
<1>3. TypeOK
  BY DEF IInv
<1>4. CASE UNCHANGED vars
  BY <1>4 DEF vars
<1>5. ASSUME NEW t \in Thresholds, Cleanup(t) PROVE Old(q)
  BY <1>5 DEF Cleanup, Superseded
<1>6. ASSUME NEW p \in Procs, NEW d, CommitOf(p, d) PROVE Old(q)
  BY <1>3, <1>6 DEF CommitOf, Superseded, TypeOK
<1>7. ASSUME NEW p \in Procs, Step(p) PROVE Old(q)
  <2>1. CASE CommitBatch(p) \/ UpsertSource(p) \/ RecordRun(p)
    BY <1>6, <2>1 DEF CommitBatch, UpsertSource, RecordRun
  <2>2. CASE InsertRow(p)
    BY <1>3, <2>2 DEF InsertRow, TypeOK
  <2>3. CASE SkipUndecodable(p) \/ LeaveLoop(p) \/ DryRunBatch(p)
             \/ LookupSource(p)
    BY <2>3 DEF SkipUndecodable, LeaveLoop, DryRunBatch, LookupSource
  <2>4. CASE ReceiveDuplicate(p) \/ ReceiveAlert(p)
    BY <1>3, <2>4 DEF ReceiveDuplicate, ReceiveAlert, ReadForDuplicates,
       SnapAfterRead, TypeOK
  <2>5. CASE InsertFails(p) \/ UpsertFails(p) \/ RecordRunFails(p)
    BY <1>3, <2>5 DEF InsertFails, UpsertFails, RecordRunFails, FailBatch,
       SnapAfterError, TypeOK
  <2>6. CASE Close(p)
    BY <1>3, <2>6 DEF Close, LoseMemory, Disconnect, TypeOK
  <2> QED BY <1>7, <2>1, <2>2, <2>3, <2>4, <2>5, <2>6 DEF Step
<1>8. ASSUME NEW p \in Procs, Disturbance(p) PROVE Old(q)
  <2>1. CASE Crash(p)
    BY <1>3, <2>1 DEF Crash, LoseMemory, Disconnect, TypeOK
  <2>2. CASE ~ Crash(p)
    BY <1>8, <2>2 DEF Disturbance, Start, SourceRaises, Interrupt, CommitOffset
  <2> QED BY <2>1, <2>2
<1> QED BY <1>4, <1>5, <1>7, <1>8 DEF Next

-----------------------------------------------------------------------------
(* The steps of p, and what they do to p's run.  A run begins without      *)
(* rows, counters and deliveries.                                          *)
LEMMA StartRun ==
    ASSUME IInv, NEW p \in Procs, RunInv(p), Start(p)
    PROVE  RunInv(p)'
<1>1. TypeOK
  BY DEF IInv
<1>2. /\ pc[p] \in Ended /\ pc'[p] = "fetch"
      /\ start'[p] = pos'[p] /\ pos'[p] \in Nat
      /\ stats'[p] = NoStats /\ runs'[p] = None /\ added'[p] = {}
      /\ row'[p] = row[p] /\ rowcount'[p] = rowcount[p]
  BY <1>1 DEF Start, TypeOK
<1>3. Delivered(p)' = {}
  BY <1>2 DEF Delivered
<1>4. rowcount[p] = 0 /\ row[p] = 1
  BY <1>2 DEF RunInv, RowcountInv, IInv, BatchInv
<1>5. Accounts(p, 0, 0)'
  BY <1>2, FS_EmptySet DEF Accounts
<1>6. WorkInv(p)'
  BY <1>2, <1>3, <1>4, <1>5 DEF WorkInv, NoStats, Accounts
<1> QED
  BY <1>2, <1>4, <1>6, FS_EmptySet
     DEF RunInv, RowcountInv, RecordInv, ReportInv, Running, Failing, Ended

(* What the loop consumes is a duplicate of a row p can see, or waits in   *)
(* the batch.                                                              *)
LEMMA ReceivingRun ==
    ASSUME IInv, SnapInv, NEW p \in Procs, RunInv(p),
           \/ SkipUndecodable(p) \/ ReceiveDuplicate(p) \/ ReceiveAlert(p)
           \/ LeaveLoop(p) \/ SourceRaises(p)
    PROVE  RunInv(p)'
<1> DEFINE a == Feed[p][pos[p] + 1]
<1>1. /\ TypeOK /\ pc[p] = "fetch" /\ row[p] = 1 /\ rowcount[p] = 0
      /\ runs[p] = None
      /\ rowcount' = rowcount /\ row' = row /\ runs' = runs /\ added' = added
      /\ opt' = opt /\ start' = start /\ Base(p)' = Base(p)
  <2>1. TypeOK /\ BatchInv(p)
    BY DEF IInv
  <2>2. pc[p] = "fetch"
    BY DEF SkipUndecodable, ReceiveDuplicate, ReceiveAlert, LeaveLoop,
       SourceRaises, HasRecord
  <2>3. row[p] = 1
    BY <2>1, <2>2 DEF BatchInv
  <2>4. rowcount[p] = 0
    BY <2>1, <2>2, <2>3 DEF RunInv, RowcountInv, TypeOK
  <2>5. runs[p] = None
    BY <2>2 DEF RunInv, RecordInv, Running
  <2> QED
    BY <2>1, <2>2, <2>3, <2>4, <2>5
       DEF SkipUndecodable, ReceiveDuplicate, ReceiveAlert, LeaveLoop,
           SourceRaises, database, process, Base
<1>2. IsFiniteSet(added[p])' /\ (added[p] \subseteq Base(p).raw)'
  BY <1>1 DEF RunInv
<1>3. /\ pc'[p] \in {"fetch", "insert", "complete", "fail", "fail_empty"}
      /\ pc'[p] = "complete" => batch'[p] = <<>>
      /\ pc'[p] \in Failing => raised'[p]
      /\ SourceRaises(p) => pc'[p] \in Failing
  BY <1>1 DEF SkipUndecodable, ReceiveDuplicate, ReceiveAlert, LeaveLoop,
     SourceRaises, TypeOK, Failing
<1>4. RowcountInv(p)' /\ RecordInv(p)' /\ ReportInv(p)'
  BY <1>1, <1>3
     DEF RowcountInv, RecordInv, ReportInv, Ended, Running, Failing
<1>5. WorkInv(p)'
  <2>1. SUFFICES ASSUME pc'[p] \in Working, ~ opt[p].dry_run
                 PROVE  WorkInv(p)'
    BY <1>1 DEF WorkInv
  <2>2. /\ Accounts(p, stats[p].stored + rowcount[p], stats[p].failed)
        /\ stats[p].failed = 0 =>
              \A b \in Delivered(p) :
                 \/ HasId(Base(p), b)
                 \/ \E i \in 1 .. Len(batch[p]) : batch[p][i] = b
    BY <1>1, <2>1 DEF RunInv, WorkInv, Working
  <2>3. stats'[p].stored = stats[p].stored /\ stats'[p].failed = stats[p].failed
    <3>1. stats \in [Procs -> Stats] /\ 1 \in Nat
      BY <1>1 DEF TypeOK
    <3>2. CASE CountReceived(p)
      <4>1. stats' = [stats EXCEPT ![p].received = @ + 1]
        BY <3>2 DEF CountReceived
      <4> QED BY <3>1, <4>1, CounterValues, Zenon
    <3>3. CASE stats' = stats
      BY <3>3
    <3> QED
      BY <3>2, <3>3 DEF SkipUndecodable, ReceiveDuplicate, ReceiveAlert,
         LeaveLoop, SourceRaises
  <2>4. batch'[p] = batch[p] \/ (ReceiveAlert(p) /\ batch'[p] = Append(batch[p], a))
    BY <1>1 DEF SkipUndecodable, ReceiveDuplicate, ReceiveAlert, LeaveLoop,
       SourceRaises, TypeOK
  <2>5. batch[p] \in Seq(Alerts)
    BY <1>1 DEF TypeOK
  <2>6. \A b \in Delivered(p)' :
           \/ b \in Delivered(p)
           \/ b = a /\ (ReceiveDuplicate(p) \/ ReceiveAlert(p))
    <3>1. CASE pos' = pos
      BY <1>1, <3>1 DEF Delivered
    <3>2. CASE Consume(p)
      <4>1. pos[p] \in Nat /\ start[p] \in Nat /\ pos'[p] = pos[p] + 1
        BY <1>1, <3>2 DEF Consume, TypeOK
      <4>2. \A b \in Delivered(p)' :
               b \in Delivered(p) \/ (b = a /\ b \notin Undecodable)
        BY <1>1, <4>1 DEF Delivered
      <4>3. SkipUndecodable(p) => a \in Undecodable
        BY DEF SkipUndecodable
      <4>4. Consume(p) =>
              SkipUndecodable(p) \/ ReceiveDuplicate(p) \/ ReceiveAlert(p)
              \/ pos' = pos
        BY DEF LeaveLoop, SourceRaises
      <4> QED BY <3>1, <3>2, <4>2, <4>3, <4>4
    <3> QED
      BY <3>1, <3>2 DEF SkipUndecodable, ReceiveDuplicate, ReceiveAlert,
         LeaveLoop, SourceRaises
  <2>7. ReceiveDuplicate(p) => HasId(Base(p), a)
    BY ViewInBase DEF ReceiveDuplicate, IsDuplicate, HasId
  <2>8. ASSUME stats[p].failed = 0, NEW b \in Delivered(p)'
        PROVE  \/ HasId(Base(p), b)
               \/ \E i \in 1 .. Len(batch'[p]) : batch'[p][i] = b
    <3>1. CASE b \in Delivered(p)
      BY <2>2, <2>4, <2>5, <2>8, <3>1
    <3>2. CASE b = a /\ ReceiveDuplicate(p)
      BY <2>7, <3>2
    <3>3. CASE b = a /\ ReceiveAlert(p)
      <4>1. batch'[p] = Append(batch[p], a)
        BY <1>1, <3>3 DEF ReceiveAlert, TypeOK
      <4>2. /\ Len(batch[p]) + 1 \in 1 .. Len(batch'[p])
            /\ batch'[p][Len(batch[p]) + 1] = a
        BY <2>5, <4>1
      <4> QED BY <3>3, <4>2
    <3> QED BY <2>6, <3>1, <3>2, <3>3
  <2> QED BY <1>1, <2>2, <2>3, <2>8 DEF WorkInv, Accounts
<1> QED BY <1>2, <1>4, <1>5 DEF RunInv

(* A dry run counts and records nothing.                                   *)
LEMMA DryRunRun ==
    ASSUME IInv, NEW p \in Procs, RunInv(p), DryRunBatch(p)
    PROVE  RunInv(p)'
<1>1. /\ pc[p] = "insert" /\ opt[p].dry_run
      /\ pc'[p] \in {"complete", "fetch"} /\ row'[p] = 1 /\ rowcount'[p] = 0
      /\ batch'[p] = <<>>
      /\ opt' = opt /\ runs' = runs /\ added' = added /\ Base(p)' = Base(p)
  BY DEF DryRunBatch, EndBatch, IInv, TypeOK, process, database, Base
<1> QED
  BY <1>1 DEF RunInv, WorkInv, RowcountInv, RecordInv, ReportInv, Ended,
              Running, Failing

(* A failed batch is counted as a whole; the rows it had inserted, at most *)
(* as many, stay in the open transaction.                                  *)
LEMMA FailedBatchRun ==
    ASSUME IInv, NEW p \in Procs, RunInv(p), InsertFails(p) \/ UpsertFails(p)
    PROVE  RunInv(p)'
<1>1. TypeOK /\ BatchInv(p)
  BY DEF IInv
<1>2. /\ pc[p] \in {"insert", "upsert"} /\ FailBatch(p) /\ UNCHANGED database
      /\ opt' = opt /\ runs' = runs /\ added' = added /\ Base(p)' = Base(p)
  BY DEF InsertFails, UpsertFails, Inserting, process, database, Base
<1>3. /\ pc'[p] \in {"complete", "fetch"} /\ row'[p] = 1 /\ rowcount'[p] = 0
      /\ batch'[p] = <<>>
  BY <1>1, <1>2 DEF FailBatch, EndBatch, TypeOK
<1>4. /\ stats'[p].stored = stats[p].stored
      /\ stats'[p].failed = stats[p].failed + Len(batch[p])
  <2>1. stats \in [Procs -> Stats] /\ Len(batch[p]) \in Nat
    BY <1>1 DEF TypeOK
  <2>2. stats' = [stats EXCEPT ![p].failed = @ + Len(batch[p])]
    BY <1>2 DEF FailBatch
  <2> QED BY <2>1, <2>2, CounterValues, Zenon
<1>5. Len(batch[p]) \in Nat \ {0} /\ rowcount[p] <= Len(batch[p])
  <2>1. /\ batch[p] \in Seq(Alerts) /\ row[p] \in Nat \ {0}
        /\ rowcount[p] \in Nat
    BY <1>1 DEF TypeOK
  <2>2. CASE pc[p] = "insert"
    <3>1. row[p] <= Len(batch[p])
      BY <1>2, <2>2 DEF InsertFails, UpsertFails
    <3>2. rowcount[p] < row[p]
      BY <2>2 DEF RunInv, RowcountInv
    <3> QED BY <2>1, <3>1, <3>2
  <2>3. CASE pc[p] = "upsert"
    BY <1>1, <2>1, <2>3 DEF BatchInv, RunInv, RowcountInv
  <2> QED BY <1>2, <2>2, <2>3
<1>6. WorkInv(p)'
  <2>1. SUFFICES ASSUME ~ opt[p].dry_run PROVE WorkInv(p)'
    BY <1>2 DEF WorkInv
  <2>2. Accounts(p, stats[p].stored + rowcount[p], stats[p].failed)
    BY <1>2, <2>1 DEF RunInv, WorkInv, Working
  <2>3. /\ stats[p].stored \in Nat /\ stats[p].failed \in Nat
        /\ rowcount[p] \in Nat /\ Cardinality(added[p]) \in Nat
    BY <1>1, AddedCount DEF TypeOK, Stats
  <2>4. stats'[p].failed # 0
    BY <1>4, <1>5, <2>3
  <2>5. Cardinality(added[p])
          <= stats[p].stored + 0 + (stats[p].failed + Len(batch[p]))
    BY <1>5, <2>2, <2>3 DEF Accounts
  <2> QED BY <1>2, <1>3, <1>4, <2>4, <2>5 DEF WorkInv, Accounts
<1> QED
  BY <1>2, <1>3, <1>6 DEF RunInv, RowcountInv, RecordInv, ReportInv, Ended,
                          Running, Failing

(* A row that is not ignored is one that the run had not added before.     *)
LEMMA InsertRun ==
    ASSUME IInv, NEW p \in Procs, RunInv(p), InsertRow(p)
    PROVE  RunInv(p)'
<1> DEFINE a == batch[p][row[p]]
           new == ~ Stored(work, a)
<1>1. TypeOK /\ WriterInv /\ Base(p) = work
  BY BaseIsWork DEF IInv, InsertRow
<1>2. /\ pc[p] = "insert" /\ ~ opt[p].dry_run
      /\ work' = InsertOrIgnore(work, a)
      /\ writer' = p /\ Base(p)' = work'
      /\ rowcount'[p] = rowcount[p] + (IF new THEN 1 ELSE 0)
      /\ added'[p] = IF new THEN added[p] \cup {a} ELSE added[p]
      /\ row'[p] = row[p] + 1
      /\ UNCHANGED <<opt, start, pos, pc, batch, stats, runs>>
  BY <1>1 DEF InsertRow, Inserting, process, Base, TypeOK
<1>3. /\ work.raw \subseteq work'.raw
      /\ new => a \in work'.raw
  BY <1>2 DEF InsertOrIgnore
<1>4. /\ rowcount[p] \in Nat /\ row[p] \in Nat /\ stats[p].stored \in Nat
      /\ stats[p].failed \in Nat /\ Cardinality(added[p]) \in Nat
  BY <1>1, AddedCount DEF TypeOK, Stats
<1>5. new => a \notin added[p]
  BY <1>1 DEF RunInv, Stored, SameKey
<1>6. /\ IsFiniteSet(added'[p])
      /\ Cardinality(added'[p])
           = Cardinality(added[p]) + (IF new THEN 1 ELSE 0)
  <2> HIDE DEF a, new
  <2>1. IsFiniteSet(added[p])
    BY DEF RunInv
  <2>2. CASE new
    <3>1. added'[p] = added[p] \cup {a} /\ a \notin added[p]
      BY <1>2, <1>5, <2>2
    <3>2. /\ IsFiniteSet(added[p] \cup {a})
          /\ Cardinality(added[p] \cup {a}) = Cardinality(added[p]) + 1
      BY <2>1, <3>1, FS_AddElement
    <3> QED BY <2>2, <3>1, <3>2
  <2>3. CASE ~ new
    BY <1>2, <1>4, <2>1, <2>3
  <2> QED BY <2>2, <2>3
<1>7. added'[p] \subseteq Base(p)'.raw
  BY <1>1, <1>2, <1>3 DEF RunInv
<1> HIDE DEF a
<1>8. RowcountInv(p)'
  BY <1>2, <1>4 DEF RunInv, RowcountInv, Ended
<1>9. WorkInv(p)'
  <2>1. /\ Accounts(p, stats[p].stored + rowcount[p], stats[p].failed)
        /\ stats[p].failed = 0 =>
              \A b \in Delivered(p) :
                 \/ HasId(work, b)
                 \/ \E i \in 1 .. Len(batch[p]) : batch[p][i] = b
    BY <1>1, <1>2 DEF RunInv, WorkInv, Working
  <2>2. Accounts(p, stats[p].stored + rowcount[p], stats[p].failed)'
    <3> HIDE DEF new
    <3> QED BY <1>2, <1>4, <1>6, <2>1 DEF Accounts
  <2>3. Delivered(p)' = Delivered(p)
    BY <1>2 DEF Delivered
  <2> QED BY <1>2, <1>3, <2>1, <2>2, <2>3, HasIdMonotone DEF WorkInv
<1>10. RecordInv(p)' /\ ReportInv(p)'
  BY <1>2 DEF RunInv, RecordInv, ReportInv, Running, Failing
<1> QED BY <1>6, <1>7, <1>8, <1>9, <1>10 DEF RunInv

(* The commit turns rowcount into alerts_ingested.                         *)
LEMMA CommitRun ==
    ASSUME IInv, NEW p \in Procs, RunInv(p), CommitBatch(p)
    PROVE  RunInv(p)'
<1>1. TypeOK /\ WriterInv /\ BatchInv(p)
  BY DEF IInv
<1>2. /\ pc[p] = "insert" /\ ~ opt[p].dry_run
      /\ batch[p] \in Seq(Alerts) /\ row[p] \in Nat
      /\ row[p] = Len(batch[p]) + 1 /\ batch[p] # <<>>
  BY <1>1 DEF CommitBatch, Inserting, BatchInv, TypeOK
<1>3. writer = p /\ Base(p) = work
  <2>1. Len(batch[p]) > 0
    BY <1>2
  <2> QED BY <1>1, <1>2, <2>1 DEF BatchInv, Base
<1>4. db' = work /\ writer' = None /\ Base(p)' = work
  BY <1>3, PipelineAssumption DEF CommitBatch, CommitOf, Base
<1>5. /\ UNCHANGED <<opt, start, pos, runs, added>>
      /\ pc'[p] \in {"lookup", "complete", "fetch"}
      /\ pc'[p] # "lookup" => batch'[p] = <<>>
      /\ pc'[p] = "lookup" => batch'[p] = batch[p]
      /\ row'[p] = 1 /\ rowcount'[p] = 0
  BY <1>1 DEF CommitBatch, EndBatch, process, TypeOK
<1>6. /\ stats'[p].stored = stats[p].stored + rowcount[p]
      /\ stats'[p].failed = stats[p].failed
  <2>1. stats \in [Procs -> Stats] /\ rowcount[p] \in Nat
    BY <1>1 DEF TypeOK
  <2>2. stats' = [stats EXCEPT ![p].stored = @ + rowcount[p]]
    BY DEF CommitBatch
  <2> QED BY <2>1, <2>2, CounterValues, Zenon
<1>7. WorkInv(p)'
  <2>1. /\ Accounts(p, stats[p].stored + rowcount[p], stats[p].failed)
        /\ stats[p].failed = 0 =>
              \A b \in Delivered(p) :
                 \/ HasId(work, b)
                 \/ \E i \in 1 .. Len(batch[p]) : batch[p][i] = b
    BY <1>2, <1>3 DEF RunInv, WorkInv, Working
  <2>2. \A i \in 1 .. Len(batch[p]) : HasId(work, batch[p][i])
    BY <1>1, <1>2, StoredHasId DEF BatchInv
  <2>3. Delivered(p)' = Delivered(p)
    BY <1>5 DEF Delivered
  <2>4. stats[p].stored + rowcount[p] + 0 = stats[p].stored + rowcount[p]
    BY <1>1 DEF TypeOK, Stats
  <2>5. Accounts(p, stats[p].stored + rowcount[p], stats[p].failed)'
    BY <1>5, <1>6, <2>1, <2>4 DEF Accounts
  <2> QED BY <1>4, <1>5, <1>6, <2>1, <2>2, <2>3, <2>5 DEF WorkInv
<1>8. IsFiniteSet(added[p])' /\ (added[p] \subseteq Base(p).raw)'
  BY <1>3, <1>4, <1>5 DEF RunInv
<1>9. RowcountInv(p)' /\ RecordInv(p)' /\ ReportInv(p)'
  BY <1>2, <1>5 DEF RunInv, RowcountInv, RecordInv, ReportInv, Ended,
                    Running, Failing
<1> QED BY <1>7, <1>8, <1>9 DEF RunInv

(* The tracker neither adds a row nor counts one.                          *)
LEMMA TrackingRun ==
    ASSUME IInv, NEW p \in Procs, RunInv(p), LookupSource(p) \/ UpsertSource(p)
    PROVE  RunInv(p)'
<1>1. TypeOK /\ WriterInv /\ BatchInv(p)
  BY DEF IInv
<1>2. /\ pc[p] \in {"lookup", "upsert"}
      /\ UNCHANGED <<opt, start, pos, runs, added>>
      /\ pc'[p] \in {"lookup", "upsert", "complete", "fetch"}
      /\ pc'[p] \in {"complete", "fetch"} => batch'[p] = <<>> /\ row'[p] = 1
      /\ batch'[p] \in {batch[p], <<>>} /\ rowcount'[p] \in {rowcount[p], 0}
  BY <1>1 DEF LookupSource, UpsertSource, EndBatch, process, TypeOK
<1>3. Base(p).raw \subseteq Base(p)'.raw
  <2>1. CASE LookupSource(p)
    BY <2>1 DEF LookupSource, database, Base
  <2>2. CASE UpsertSource(p)
    BY <2>2, PipelineAssumption
       DEF UpsertSource, CommitOf, UpdateProcessedSource, Base
  <2> QED BY <2>1, <2>2
<1>4. /\ stats'[p].stored = stats[p].stored
      /\ stats'[p].failed = stats[p].failed
  <2>1. stats \in [Procs -> Stats] /\ 1 \in Nat
    BY <1>1 DEF TypeOK
  <2>2. CASE stats' = [stats EXCEPT ![p].new = @ + 1]
    BY <2>1, <2>2, CounterValues, Zenon
  <2>3. CASE stats' = stats
    BY <2>3
  <2> QED BY <2>2, <2>3 DEF LookupSource, UpsertSource
<1>5. rowcount[p] = 0 /\ rowcount'[p] = 0
  BY <1>2 DEF RunInv, RowcountInv
<1>6. WorkInv(p)'
  <2>1. Delivered(p)' = Delivered(p)
    BY <1>2 DEF Delivered
  <2>2. \A i \in 1 .. Len(batch[p]) : HasId(Base(p)', batch[p][i])
    <3>1. SUFFICES ASSUME NEW i \in 1 .. Len(batch[p])
                   PROVE  HasId(Base(p), batch[p][i])
      BY <1>3, HasIdMonotone
    <3>2. HasId(db, batch[p][i])
      BY <1>1, <1>2, StoredHasId DEF BatchInv
    <3>3. db.raw \subseteq Base(p).raw
      BY <1>1 DEF WriterInv, Base
    <3> QED BY <3>2, <3>3, HasIdMonotone
  <2>3. ~ opt[p].dry_run =>
          /\ Accounts(p, stats[p].stored + rowcount[p], stats[p].failed)
          /\ stats[p].failed = 0 =>
                \A b \in Delivered(p) :
                   \/ HasId(Base(p), b)
                   \/ \E i \in 1 .. Len(batch[p]) : batch[p][i] = b
    BY <1>2 DEF RunInv, WorkInv, Working
  <2>4. ASSUME ~ opt[p].dry_run, stats[p].failed = 0, NEW b \in Delivered(p)
        PROVE  HasId(Base(p)', b)
    BY <1>3, <2>2, <2>3, <2>4, HasIdMonotone
  <2> QED BY <1>2, <1>4, <1>5, <2>1, <2>3, <2>4 DEF WorkInv, Accounts
<1>7. RowcountInv(p)' /\ RecordInv(p)' /\ ReportInv(p)'
  BY <1>2, <1>5 DEF RunInv, RowcountInv, RecordInv, ReportInv, Ended,
                    Running, Failing
<1>8. IsFiniteSet(added[p])' /\ (added[p] \subseteq Base(p).raw)'
  BY <1>2, <1>3 DEF RunInv
<1> QED BY <1>6, <1>7, <1>8 DEF RunInv

(* _complete_run copies the counters, after the last batch; the commit of  *)
(* the row publishes what failed batches had left uncommitted.             *)
LEMMA RecordedRun ==
    ASSUME IInv, NEW p \in Procs, RunInv(p), RecordRun(p)
    PROVE  RunInv(p)'
<1>1. TypeOK
  BY DEF IInv
<1>2. /\ pc[p] \in {"complete"} \cup Failing /\ pc'[p] = "close"
      /\ UNCHANGED <<opt, start, pos, batch, stats, added, raised>>
  BY <1>1 DEF RecordRun, Recording, process, TypeOK
<1>3. CASE opt[p].dry_run
  <2>1. Base(p)' = Base(p) /\ runs' = runs /\ runs[p] = None
    BY <1>3 DEF RecordRun, Base, RunInv, RecordInv
  <2> QED
    BY <1>2, <1>3, <2>1 DEF RunInv, WorkInv, RowcountInv, RecordInv,
       ReportInv, Working, Ended, Running, Failing
<1>4. CASE ~ opt[p].dry_run
  <2>1. /\ db' = Base(p) /\ writer' = None /\ runs'[p] = RunRecord(p)
        /\ Base(p)' = Base(p)
    BY <1>1, <1>4, PipelineAssumption DEF RecordRun, CommitOf, Base, TypeOK
  <2>2. ReportInv(p)'
    <3>1. SUFFICES ASSUME RunRecord(p).status = "completed", ~ raised[p]
                   PROVE  ReportInv(p)'
      BY <1>2, <2>1 DEF ReportInv
    <3>2. pc[p] = "complete"
      BY <1>2, <3>1 DEF RunInv, RecordInv, RunRecord
    <3>3. /\ RunRecord(p).ingested = stats[p].stored
          /\ RunRecord(p).failed = stats[p].failed
      BY <3>2 DEF RunRecord
    <3>4. /\ Accounts(p, stats[p].stored, stats[p].failed)
          /\ stats[p].failed = 0 =>
                \A b \in Delivered(p) : HasId(Base(p), b)
      <4>1. rowcount[p] = 0 /\ Len(batch[p]) = 0
        BY <3>2 DEF RunInv, RowcountInv
      <4>2. stats[p].stored + 0 = stats[p].stored
        BY <1>1 DEF TypeOK, Stats
      <4> QED BY <1>4, <3>2, <4>1, <4>2 DEF RunInv, WorkInv, Working
    <3>5. Delivered(p)' = Delivered(p) /\ writer' # p
      BY <1>2, <2>1, PipelineAssumption DEF Delivered
    <3> QED BY <1>2, <2>1, <3>3, <3>4, <3>5 DEF ReportInv, Accounts
  <2> QED
    BY <1>2, <1>4, <2>1, <2>2 DEF RunInv, WorkInv, RowcountInv, RecordInv,
       Working, Ended, Running, Failing
<1> QED BY <1>3, <1>4

(* An error of the record, Ctrl-C, and Kafka's committing thread.          *)
LEMMA OutsideRun ==
    ASSUME IInv, NEW p \in Procs, RunInv(p),
           RecordRunFails(p) \/ Interrupt(p) \/ CommitOffset(p)
    PROVE  RunInv(p)'
<1>1. TypeOK
  BY DEF IInv
<1>2. /\ UNCHANGED <<opt, start, pos, batch, row, rowcount, stats, runs, added>>
      /\ Base(p)' = Base(p)
  BY DEF RecordRunFails, Interrupt, CommitOffset, database, process, Base
<1>3. Delivered(p)' = Delivered(p)
  BY <1>2 DEF Delivered
<1>4. CASE CommitOffset(p)
  <2>1. pc' = pc /\ raised' = raised /\ writer' = writer /\ db' = db
    BY <1>4 DEF CommitOffset, database
  <2> QED
    BY <1>2, <1>3, <2>1
       DEF RunInv, WorkInv, RowcountInv, RecordInv, ReportInv, Accounts
<1>5. CASE RecordRunFails(p)
  <2>1. /\ pc[p] \in {"complete"} \cup Failing
        /\ pc'[p] \in {"fail_counted", "close"} /\ raised'[p]
    BY <1>1, <1>5 DEF RecordRunFails, Recording, TypeOK
  <2> QED
    BY <1>2, <2>1 DEF RunInv, WorkInv, RowcountInv, RecordInv, ReportInv,
       Working, Ended, Running, Failing
<1>6. CASE Interrupt(p)
  <2>1. pc[p] \in Running /\ pc'[p] = "close" /\ runs[p] = None
    BY <1>1, <1>6 DEF Interrupt, TypeOK, RunInv, RecordInv
  <2> QED
    BY <1>2, <2>1 DEF RunInv, WorkInv, RowcountInv, RecordInv, ReportInv,
       Working, Ended, Running, Failing
<1> QED BY <1>4, <1>5, <1>6

(* The end of the connection takes back what was not committed; a recorded *)
(* run has left nothing of that kind.                                      *)
LEMMA EndRun ==
    ASSUME IInv, NEW p \in Procs, RunInv(p), Close(p) \/ Crash(p)
    PROVE  RunInv(p)'
<1>1. TypeOK
  BY DEF IInv
<1>2. /\ UNCHANGED <<opt, start, pos, runs, raised, db>>
      /\ added'[p] = added[p] \cap db.raw /\ rowcount'[p] = 0
      /\ writer' # p
      /\ Close(p) => pc[p] = "close" /\ pc'[p] = "done"
      /\ Crash(p) => pc'[p] = "idle"
  <2>1. LoseMemory(p) /\ UNCHANGED process
    BY DEF Close, Crash, LoseMemory
  <2>2. writer' # p
    BY <2>1, PipelineAssumption DEF LoseMemory, Disconnect
  <2>3. /\ Close(p) => pc[p] = "close" /\ pc'[p] = "done"
        /\ Crash(p) => pc'[p] = "idle"
    BY <1>1 DEF Close, Crash, TypeOK
  <2>4. added'[p] = added[p] \cap db.raw /\ rowcount'[p] = 0
    BY <1>1, <2>1 DEF LoseMemory, TypeOK
  <2> QED BY <2>1, <2>2, <2>3, <2>4 DEF LoseMemory, process
<1>3. IsFiniteSet(added[p])' /\ (added[p] \subseteq Base(p).raw)'
  <2>1. IsFiniteSet(added[p] \cap db.raw)
    BY FS_Subset DEF RunInv
  <2> QED BY <1>2, <2>1 DEF Base
<1>4. ReportInv(p)'
  <2>1. SUFFICES ASSUME Close(p), runs[p] # None,
                        runs[p].status = "completed", ~ raised[p]
                 PROVE  ReportInv(p)'
    BY <1>2 DEF ReportInv
  <2>2. /\ writer # p
        /\ Accounts(p, runs[p].ingested, runs[p].failed)
        /\ runs[p].failed = 0 => \A a \in Delivered(p) : HasId(db, a)
    BY <1>2, <2>1 DEF RunInv, ReportInv
  <2>3. added'[p] = added[p]
    BY <1>2, <2>2 DEF RunInv, Base
  <2>4. Delivered(p)' = Delivered(p)
    BY <1>2 DEF Delivered
  <2> QED BY <1>2, <2>2, <2>3, <2>4 DEF ReportInv, Accounts
<1>5. WorkInv(p)' /\ RowcountInv(p)' /\ RecordInv(p)'
  BY <1>2 DEF RunInv, WorkInv, RowcountInv, RecordInv, Working, Ended,
              Running, Failing
<1> QED BY <1>3, <1>4, <1>5 DEF RunInv

-----------------------------------------------------------------------------
LEMMA NextKeepsRuns ==
    ASSUME IInv, RInv, [Next]_vars
    PROVE  RInv'
<1>1. db.raw \subseteq db'.raw /\ SnapInv'
  BY NextKeeps, SnapKeeps DEF RInv
<1>2. SUFFICES ASSUME NEW q \in Procs PROVE RunInv(q)'
  BY <1>1 DEF RInv
<1>3. RunInv(q) /\ SnapInv
  BY DEF RInv
<1>4. CASE UNCHANGED vars
  BY <1>1, <1>3, <1>4, BystanderRun DEF vars, Untouched
<1>5. ASSUME NEW t \in Thresholds, Cleanup(t) PROVE RunInv(q)'
  <2>1. writer = None /\ writer' = None /\ Untouched(q)
    BY <1>5 DEF Cleanup, process, Untouched
  <2> QED BY <1>1, <1>3, <2>1, PipelineAssumption, BystanderRun
<1>6. ASSUME NEW p \in Procs, Step(p) \/ Disturbance(p) PROVE RunInv(q)'
  <2>1. CASE q = p
    BY <1>3, <1>6, <2>1, StartRun, ReceivingRun, DryRunRun, FailedBatchRun,
       InsertRun, CommitRun, TrackingRun, RecordedRun, OutsideRun, EndRun
       DEF Step, Disturbance
  <2>2. CASE q # p
    BY <1>1, <1>3, <1>6, <2>2, OthersUntouched, BystanderRun
  <2> QED BY <2>1, <2>2
<1> QED BY <1>4, <1>5, <1>6 DEF Next

LEMMA RunsInvariant == Spec => []RInv
<1>1. IInv /\ RInv /\ [Next]_vars => RInv'
  BY NextKeepsRuns
<1> QED BY <1>1, InitRInv, Invariant, PTL DEF Spec

(* CompletedRunStored: when a run ended well and reports no failed alert,  *)
(* all that its source delivered is in alerts_raw under its alert_id; the  *)
(* loop of run(), _is_duplicate, _write_batch and _complete_run lose none. *)
THEOREM CompletedRunsStored == Spec => []CompletedRunStored
<1>1. RInv => CompletedRunStored
  BY DEF RInv, RunInv, ReportInv, CompletedRunStored, Completed, HasId
<1> QED BY <1>1, RunsInvariant, PTL

(* RunAccounting: the rows a completed run added are no more than its      *)
(* alerts_ingested and alerts_failed say, and exactly alerts_ingested when *)
(* no batch failed.                                                        *)
THEOREM RunsAccounted == Spec => []RunAccounting
<1>1. RInv => RunAccounting
  BY DEF RInv, RunInv, ReportInv, RunAccounting, Completed, Accounts
<1> QED BY <1>1, RunsInvariant, PTL
=============================================================================
