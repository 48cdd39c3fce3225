----------------------- MODULE PipelineRefinement_proofs -----------------------
(***************************************************************************)
(* IngestionPipeline implements AuditLog, and the observation count covers *)
(* the stored rows, for every value of the constants.                      *)
(*                                                                         *)
(* Both are about the two tables only, so the actions are first sorted by  *)
(* what they do to the tables (TableStep); the rest of the proof speaks of *)
(* these five kinds of steps.                                              *)
(***************************************************************************)
EXTENDS IngestionPipeline_proofs, FiniteSetTheorems

(* The tracker runs when the batch is committed: it holds no lock.         *)
LockFree ==
    \A p \in Procs : pc[p] \in {"lookup", "upsert"} => writer # p

(* The writer's copy has each key once, and knows the sources that the     *)
(* file knows and those of its own rows.                                   *)
CopyInv ==
    /\ IsFiniteSet(work.raw)
    /\ \A a, b \in work.raw : SameKey(a, b) => a = b
    /\ KnownSources(work) = KnownSources(db)
                               \cup {SourceOf[a] : a \in work.raw \ db.raw}

RecentRows(d, h, s) == {a \in RowsOf(d, s) : MjdOf[a] >= h}

Counted(d, h) ==
    \A s \in KnownSources(d) : Cardinality(RecentRows(d, h, s)) <= d.src[s].count

TableInv ==
    IInv /\ LockFree /\ CopyInv /\ Counted(db, horizon) /\ Counted(work, horizon)

(* The steps by what they do to the tables.                                *)
Stutters == UNCHANGED <<db, horizon>> /\ (work' = work \/ work' = db)

Inserts(a) == UNCHANGED <<db, horizon>> /\ work' = InsertOrIgnore(work, a)

Commits == db' = work /\ work' = work /\ UNCHANGED horizon

Tracks(a) ==
    /\ Stored(db, a)
    /\ db' = UpdateProcessedSource(db, a)
    /\ work' = db'
    /\ UNCHANGED horizon

Forgets(t) ==
    /\ db' = CleanupOldState(db, t)
    /\ work' = db'
    /\ horizon' = IF horizon < t THEN t ELSE horizon

TableStep ==
    \/ Stutters
    \/ \E a \in Alerts : Inserts(a) \/ Tracks(a)
    \/ Commits
    \/ \E t \in Thresholds : Forgets(t)

-----------------------------------------------------------------------------
LEMMA StepIsTableStep ==
    ASSUME IInv, LockFree, [Next]_vars
    PROVE  TableStep
<1>1. TypeOK /\ WriterInv /\ \A p \in Procs : BatchInv(p)
  BY DEF IInv
<1>2. CASE UNCHANGED vars
  BY <1>2 DEF vars, TableStep, Stutters
<1>3. ASSUME NEW p \in Procs, Step(p) PROVE TableStep
  <2>1. CASE UNCHANGED database
    BY <2>1 DEF database, TableStep, Stutters
  <2>2. CASE InsertRow(p)
    <3>1. batch[p][row[p]] \in Alerts
      BY <1>1, <2>2 DEF InsertRow, TypeOK
    <3>2. Base(p) = work
      BY <1>1, <2>2, BaseIsWork DEF InsertRow
    <3> QED BY <2>2, <3>1, <3>2 DEF InsertRow, TableStep, Inserts
  <2>3. CASE CommitBatch(p)
    <3>1. /\ pc[p] = "insert" /\ batch[p] \in Seq(Alerts) /\ row[p] \in Nat
          /\ row[p] = Len(batch[p]) + 1 /\ batch[p] # <<>>
      BY <1>1, <2>3 DEF CommitBatch, Inserting, BatchInv, TypeOK
    <3>2. Len(batch[p]) > 0
      BY <3>1
    <3>3. writer = p
      BY <1>1, <3>1, <3>2 DEF BatchInv
    <3>4. Base(p) = work
      BY <3>3 DEF Base
    <3> QED BY <2>3, <3>4 DEF CommitBatch, CommitOf, TableStep, Commits
  <2>4. CASE UpsertSource(p)
    <3> DEFINE a == batch[p][row[p]]
    <3>1. pc[p] = "upsert" /\ writer # p /\ CanWrite(p)
      BY <2>4 DEF UpsertSource, LockFree
    <3>2. writer = None /\ work = db /\ Base(p) = db
      BY <1>1, <3>1 DEF CanWrite, WriterInv, Base
    <3>3. /\ batch[p] \in Seq(Alerts)
          /\ row[p] \in 1 .. Len(batch[p])
          /\ \A i \in 1 .. Len(batch[p]) : Stored(db, batch[p][i])
      BY <1>1, <3>1 DEF BatchInv, TypeOK
    <3>4. a \in Alerts /\ Stored(db, a)
      BY <3>3
    <3>5. Tracks(a)
      BY <2>4, <3>2, <3>4 DEF UpsertSource, CommitOf, Tracks
    <3> QED BY <3>4, <3>5 DEF TableStep
  <2>5. CASE RecordRun(p)
    <3>1. CASE opt[p].dry_run
      BY <2>5, <3>1 DEF RecordRun, TableStep, Stutters
    <3>2. CASE ~ opt[p].dry_run
      <4>1. CanWrite(p) /\ CommitOf(p, Base(p)) /\ UNCHANGED horizon
        BY <2>5, <3>2 DEF RecordRun
      <4>2. Base(p) = work
        BY <1>1, <4>1, BaseIsWork
      <4> QED BY <4>1, <4>2 DEF CommitOf, TableStep, Commits
    <3> QED BY <3>1, <3>2
  <2>6. CASE Close(p)
    BY <2>6 DEF Close, LoseMemory, Disconnect, TableStep, Stutters
  <2> QED
    BY <1>3, <2>1, <2>2, <2>3, <2>4, <2>5, <2>6
       DEF Step, SkipUndecodable, ReceiveDuplicate, ReceiveAlert, LeaveLoop,
           DryRunBatch, InsertFails, LookupSource, UpsertFails, RecordRunFails
<1>4. ASSUME NEW p \in Procs, Disturbance(p) PROVE TableStep
  <2>1. CASE UNCHANGED database
    BY <2>1 DEF database, TableStep, Stutters
  <2>2. CASE Crash(p)
    BY <2>2 DEF Crash, LoseMemory, Disconnect, TableStep, Stutters
  <2> QED
    BY <1>4, <2>1, <2>2
       DEF Disturbance, Start, SourceRaises, Interrupt, CommitOffset
<1>5. ASSUME NEW t \in Thresholds, Cleanup(t) PROVE TableStep
  BY <1>5 DEF Cleanup, TableStep, Forgets
<1> QED BY <1>2, <1>3, <1>4, <1>5 DEF Next

(* Only InsertRow takes the lock, and every way into the tracker releases  *)
(* it or finds it released.                                                *)
LEMMA LockFreeKept ==
    ASSUME IInv, LockFree, [Next]_vars
    PROVE  LockFree'
<1>1. pc \in [Procs -> Running \cup Ended \cup {"close"}] /\ None \notin Procs
  BY PipelineAssumption DEF IInv, TypeOK
<1>2. SUFFICES ASSUME NEW q \in Procs, pc'[q] \in {"lookup", "upsert"}
               PROVE  writer' # q
  BY DEF LockFree
<1>3. CASE UNCHANGED vars
  BY <1>2, <1>3 DEF vars, LockFree
<1>4. ASSUME NEW p \in Procs, Step(p) PROVE writer' # q
  <2>1. CASE CommitBatch(p) \/ UpsertSource(p)
    BY <1>1, <2>1 DEF CommitBatch, UpsertSource, CommitOf
  <2>2. CASE LookupSource(p)
    BY <1>1, <1>2, <2>2 DEF LookupSource, LockFree, database
  <2>3. CASE InsertRow(p)
    BY <1>1, <1>2, <2>3 DEF InsertRow, Inserting, LockFree
  <2>4. CASE RecordRun(p)
    BY <1>1, <1>2, <2>4 DEF RecordRun, CommitOf, LockFree
  <2>5. CASE Close(p)
    BY <1>1, <1>2, <2>5 DEF Close, LoseMemory, Disconnect, LockFree
  <2>6. CASE \/ SkipUndecodable(p) \/ ReceiveDuplicate(p) \/ ReceiveAlert(p)
             \/ LeaveLoop(p)
    BY <1>1, <1>2, <2>6
       DEF SkipUndecodable, ReceiveDuplicate, ReceiveAlert, LeaveLoop,
           LockFree, database
  <2>7. CASE DryRunBatch(p) \/ InsertFails(p) \/ UpsertFails(p)
    BY <1>1, <1>2, <2>7
       DEF DryRunBatch, InsertFails, UpsertFails, FailBatch, EndBatch,
           LockFree, database
  <2>8. CASE RecordRunFails(p)
    BY <1>1, <1>2, <2>8 DEF RecordRunFails, LockFree, database
  <2> QED
    BY <1>4, <2>1, <2>2, <2>3, <2>4, <2>5, <2>6, <2>7, <2>8 DEF Step
<1>5. ASSUME NEW p \in Procs, Disturbance(p) PROVE writer' # q
  <2>1. CASE Crash(p)
    BY <1>1, <1>2, <2>1 DEF Crash, LoseMemory, Disconnect, LockFree, Ended
  <2>2. CASE Start(p) \/ SourceRaises(p) \/ Interrupt(p) \/ CommitOffset(p)
    BY <1>1, <1>2, <2>2
       DEF Start, SourceRaises, Interrupt, CommitOffset, LockFree, database
  <2> QED BY <1>5, <2>1, <2>2 DEF Disturbance
<1>6. ASSUME NEW t \in Thresholds, Cleanup(t) PROVE writer' # q
  BY <1>1, <1>6 DEF Cleanup
<1> QED BY <1>3, <1>4, <1>5, <1>6 DEF Next

-----------------------------------------------------------------------------
(* Tracking an alert counts it: with its row, or without a new row.        *)
LEMMA TrackingCounts ==
    ASSUME NEW d \in Database, NEW e \in Database, NEW a \in Alerts,
           NEW h \in Nat, Tracked(d, h), IsFiniteSet(d.raw), Counted(d, h),
           e.src = TrackSource(d.src, a),
           d.raw \subseteq e.raw, e.raw \subseteq d.raw \cup {a}
    PROVE  IsFiniteSet(e.raw) /\ Counted(e, h)
<1> DEFINE sa == SourceOf[a]
<1>1. /\ d.src \in [Sources -> Tracking \cup {None}]
      /\ d.raw \subseteq Alerts
      /\ sa \in Sources
  BY AlertsAssumption DEF Database
<1>2. /\ e.src[sa] = Upsert(d.src[sa], MjdOf[a])
      /\ \A s \in Sources : s # sa => e.src[s] = d.src[s]
  BY <1>1, TrackSourceRows
<1>3. IsFiniteSet(e.raw)
  <2>1. IsFiniteSet(d.raw \cup {a}) /\ e.raw \in SUBSET (d.raw \cup {a})
    BY FS_AddElement
  <2> QED BY <2>1, FS_Subset
<1>4. ASSUME NEW s \in KnownSources(e)
      PROVE  Cardinality(RecentRows(e, h, s)) <= e.src[s].count
  <2>1. CASE s # sa
    <3>1. s \in KnownSources(d) /\ e.src[s] = d.src[s]
      BY <1>2, <1>4, <2>1 DEF KnownSources
    <3>2. RecentRows(e, h, s) = RecentRows(d, h, s)
      BY <2>1 DEF RecentRows, RowsOf
    <3> QED BY <3>1, <3>2 DEF Counted
  <2>2. CASE s = sa
    <3> DEFINE old == RecentRows(d, h, sa)
    <3>1. IsFiniteSet(old)
      <4>1. old \in SUBSET d.raw
        BY DEF RecentRows, RowsOf
      <4> QED BY <4>1, FS_Subset
    <3>2. Cardinality(old) \in Nat
      BY <3>1, FS_CardinalityType
    <3>3. /\ Cardinality(RecentRows(e, h, sa)) \in Nat
          /\ Cardinality(RecentRows(e, h, sa)) <= Cardinality(old) + 1
      <4>1. RecentRows(e, h, sa) \in SUBSET (old \cup {a})
        BY DEF RecentRows, RowsOf
      <4>2. /\ IsFiniteSet(old \cup {a})
            /\ Cardinality(old \cup {a}) <= Cardinality(old) + 1
        <5>1. /\ IsFiniteSet(old \cup {a})
              /\ Cardinality(old \cup {a}) =
                    IF a \in old THEN Cardinality(old) ELSE Cardinality(old) + 1
          <6> HIDE DEF old
          <6> QED BY <3>1, FS_AddElement
        <5> HIDE DEF old
        <5> QED BY <3>2, <5>1
      <4>3. /\ IsFiniteSet(RecentRows(e, h, sa))
            /\ Cardinality(RecentRows(e, h, sa)) <= Cardinality(old \cup {a})
        BY <4>1, <4>2, FS_Subset
      <4>4. /\ Cardinality(RecentRows(e, h, sa)) \in Nat
            /\ Cardinality(old \cup {a}) \in Nat
        BY <4>2, <4>3, FS_CardinalityType
      <4> QED BY <3>2, <4>2, <4>3, <4>4
    <3>4. CASE d.src[sa] = None
      <4>1. old = {}
        BY <3>4 DEF RecentRows, RowsOf, Tracked, RecentSourceTracked
      <4>2. Cardinality(old) = 0
        BY <4>1, FS_EmptySet
      <4>3. e.src[sa].count = 1
        BY <1>2, <3>4 DEF Upsert
      <4> QED BY <2>2, <3>3, <4>2, <4>3
    <3>5. CASE d.src[sa] # None
      <4>1. Cardinality(old) <= d.src[sa].count
        BY <1>1, <3>5 DEF Counted, KnownSources
      <4>2. d.src[sa].count \in Nat
        BY <1>1, <3>5 DEF Tracking
      <4>3. e.src[sa].count = d.src[sa].count + 1
        BY <1>2, <3>5 DEF Upsert
      <4> QED BY <2>2, <3>2, <3>3, <4>1, <4>2, <4>3
    <3> QED BY <3>4, <3>5
  <2> QED BY <2>1, <2>2
<1> QED BY <1>3, <1>4 DEF Counted

(* The inserted row has a new key, and its source becomes known with it.   *)
LEMMA InsertKeepsCopy ==
    ASSUME NEW a \in Alerts, TableInv, Inserts(a)
    PROVE  CopyInv' /\ Counted(work, horizon)'
<1>1. /\ work \in Database /\ horizon \in Nat
      /\ Tracked(work, horizon)
      /\ db.raw \subseteq work.raw
  BY DEF TableInv, IInv, TypeOK, WriterInv
<1>2. CASE Stored(work, a)
  <2>1. UNCHANGED <<db, work, horizon>>
    BY <1>2 DEF Inserts, InsertOrIgnore
  <2> QED
    BY <2>1 DEF TableInv, CopyInv, Counted, KnownSources, RecentRows, RowsOf
<1>3. CASE ~ Stored(work, a)
  <2> DEFINE sa == SourceOf[a]
  <2>1. /\ work'.raw = work.raw \cup {a}
        /\ work'.src = TrackSource(work.src, a)
        /\ UNCHANGED <<db, horizon>>
    BY <1>3 DEF Inserts, InsertOrIgnore
  <2>2. work' \in Database
    BY <1>1, InsertPreserves DEF Inserts
  <2>3. IsFiniteSet(work'.raw) /\ Counted(work', horizon)
    BY <1>1, <2>1, <2>2, TrackingCounts DEF TableInv, CopyInv
  <2>4. \A b, c \in work'.raw : SameKey(b, c) => b = c
    BY <1>3, <2>1 DEF TableInv, CopyInv, Stored, SameKey
  <2>5. KnownSources(work') = KnownSources(work) \cup {sa}
    <3>1. work.src \in [Sources -> Tracking \cup {None}] /\ sa \in Sources
      BY <1>1, AlertsAssumption DEF Database
    <3>2. work'.src[sa] \in Tracking
      <4>1. work'.src[sa] = Upsert(work.src[sa], MjdOf[a])
        BY <2>1, <3>1, TrackSourceRows
      <4>2. work.src[sa] \in Tracking \cup {None} /\ MjdOf[a] \in Nat
        BY <3>1, AlertsAssumption
      <4> QED BY <4>1, <4>2, UpsertRow
    <3>3. \A s \in Sources : s # sa => work'.src[s] = work.src[s]
      BY <2>1, <3>1, TrackSourceRows
    <3> QED BY <3>1, <3>2, <3>3, NoneAssumption DEF KnownSources
  <2>6. a \notin work.raw
    BY <1>3 DEF Stored, SameKey
  <2>7. KnownSources(work') = KnownSources(db)
                                 \cup {SourceOf[b] : b \in work'.raw \ db.raw}
    BY <1>1, <2>1, <2>5, <2>6 DEF TableInv, CopyInv
  <2>8. Counted(work, horizon)'
    BY <2>1, <2>3 DEF Counted, RecentRows, RowsOf, KnownSources
  <2> QED
    BY <2>1, <2>3, <2>4, <2>7, <2>8 DEF CopyInv, KnownSources
<1> QED BY <1>2, <1>3

(* What leaves no copy beside the file.                                    *)
LEMMA SameCopy ==
    ASSUME work' = db', IsFiniteSet(db'.raw), Counted(db', horizon'),
           \A a, b \in db'.raw : SameKey(a, b) => a = b
    PROVE  CopyInv' /\ Counted(db, horizon)' /\ Counted(work, horizon)'
BY DEF CopyInv, Counted, KnownSources, RecentRows, RowsOf

(* Retention keeps the count of every source it spares, and moves the      *)
(* horizon over the rows of the ones it forgets.                           *)
LEMMA CleanupCounts ==
    ASSUME NEW d \in Database, NEW h \in Nat, NEW t \in Nat,
           IsFiniteSet(d.raw), Counted(d, h)
    PROVE  Counted(CleanupOldState(d, t), IF h < t THEN t ELSE h)
<1> DEFINE e == CleanupOldState(d, t)
           k == IF h < t THEN t ELSE h
<1>1. d.raw \subseteq Alerts
  BY DEF Database
<1>2. /\ e.raw = d.raw
      /\ \A s \in Sources : e.src[s] \in {None, d.src[s]}
  BY DEF CleanupOldState
<1>3. k \in Nat /\ h <= k
  OBVIOUS
<1> HIDE DEF e, k
<1>4. SUFFICES ASSUME NEW s \in KnownSources(e)
               PROVE  Cardinality(RecentRows(e, k, s)) <= e.src[s].count
  BY DEF Counted, e, k
<1>5. s \in KnownSources(d) /\ e.src[s] = d.src[s]
  BY <1>2, <1>4 DEF KnownSources
<1>6. RecentRows(e, k, s) \in SUBSET RecentRows(d, h, s)
  BY <1>1, <1>2, <1>3, AlertsAssumption DEF RecentRows, RowsOf
<1>7. IsFiniteSet(RecentRows(d, h, s))
  <2>1. RecentRows(d, h, s) \in SUBSET d.raw
    BY DEF RecentRows, RowsOf
  <2> QED BY <2>1, FS_Subset
<1>8. /\ Cardinality(RecentRows(e, k, s)) \in Nat
      /\ Cardinality(RecentRows(d, h, s)) \in Nat
      /\ Cardinality(RecentRows(e, k, s)) <= Cardinality(RecentRows(d, h, s))
  BY <1>6, <1>7, FS_Subset, FS_CardinalityType
<1>9. d.src[s] \in Tracking
  BY <1>5 DEF KnownSources, Database
<1> QED BY <1>5, <1>8, <1>9 DEF Counted, Tracking

-----------------------------------------------------------------------------
LEMMA TableInvKept ==
    ASSUME TableInv, [Next]_vars
    PROVE  TableInv'
<1>1. /\ db \in Database /\ work \in Database /\ horizon \in Nat
      /\ Tracked(db, horizon) /\ Tracked(work, horizon)
      /\ db.raw \subseteq work.raw
      /\ IsFiniteSet(work.raw)
      /\ \A a, b \in work.raw : SameKey(a, b) => a = b
      /\ Counted(db, horizon) /\ Counted(work, horizon)
  BY DEF TableInv, IInv, TypeOK, WriterInv, CopyInv
<1>2. IsFiniteSet(db.raw)
  <2>1. db.raw \in SUBSET work.raw
    BY <1>1
  <2> QED BY <1>1, <2>1, FS_Subset
<1>3. IInv' /\ LockFree' /\ TableStep
  BY NextKeeps, LockFreeKept, StepIsTableStep DEF TableInv
<1>4. CopyInv' /\ Counted(db, horizon)' /\ Counted(work, horizon)'
  <2>1. CASE Stutters
    <3>1. CASE work' = db
      <4>1. work' = db' /\ IsFiniteSet(db'.raw) /\ Counted(db', horizon')
            /\ \A a, b \in db'.raw : SameKey(a, b) => a = b
        BY <1>1, <1>2, <2>1, <3>1 DEF Stutters
      <4> QED BY <4>1, SameCopy
    <3>2. CASE work' = work
      BY <2>1, <3>2 DEF Stutters, TableInv, CopyInv, Counted, KnownSources,
                        RecentRows, RowsOf
    <3> QED BY <2>1, <3>1, <3>2 DEF Stutters
  <2>2. ASSUME NEW a \in Alerts, Inserts(a)
        PROVE  CopyInv' /\ Counted(db, horizon)' /\ Counted(work, horizon)'
    <3>1. Counted(db, horizon)'
      BY <1>1, <2>2 DEF Inserts, Counted, KnownSources, RecentRows, RowsOf
    <3> QED BY <2>2, <3>1, InsertKeepsCopy
  <2>3. ASSUME NEW a \in Alerts, Tracks(a)
        PROVE  CopyInv' /\ Counted(db, horizon)' /\ Counted(work, horizon)'
    <3>1. db'.raw = db.raw /\ db'.src = TrackSource(db.src, a)
      BY <2>3 DEF Tracks, UpdateProcessedSource
    <3>2. db' \in Database
      BY <1>3 DEF IInv, TypeOK
    <3>3. IsFiniteSet(db'.raw) /\ Counted(db', horizon)
      BY <1>1, <1>2, <3>1, <3>2, TrackingCounts
    <3> QED BY <1>1, <2>3, <3>1, <3>3, SameCopy DEF Tracks
  <2>4. CASE Commits
    <3>1. work' = db' /\ IsFiniteSet(db'.raw) /\ Counted(db', horizon')
          /\ \A a, b \in db'.raw : SameKey(a, b) => a = b
      BY <1>1, <2>4 DEF Commits
    <3> QED BY <3>1, SameCopy
  <2>5. ASSUME NEW t \in Thresholds, Forgets(t)
        PROVE  CopyInv' /\ Counted(db, horizon)' /\ Counted(work, horizon)'
    <3>1. t \in Nat
      BY PipelineAssumption
    <3>2. Counted(db', horizon')
      BY <1>1, <1>2, <2>5, <3>1, CleanupCounts DEF Forgets
    <3>3. db'.raw = db.raw
      BY <2>5 DEF Forgets, CleanupOldState
    <3> QED BY <1>1, <1>2, <2>5, <3>2, <3>3, SameCopy DEF Forgets
  <2> QED BY <1>3, <2>1, <2>2, <2>3, <2>4, <2>5 DEF TableStep
<1> QED BY <1>3, <1>4 DEF TableInv

LEMMA InitTableInv == Init => TableInv
<1> SUFFICES ASSUME Init PROVE TableInv
  OBVIOUS
<1>1. IInv
  BY InitIInv
<1>2. LockFree
  BY DEF Init, LockFree
<1>3. IsFiniteSet(EmptyDatabase.raw)
  BY FS_EmptySet DEF EmptyDatabase
<1>4. CopyInv
  BY <1>3 DEF Init, CopyInv, EmptyDatabase, KnownSources
<1>5. Counted(db, horizon) /\ Counted(work, horizon)
  BY DEF Init, Counted, EmptyDatabase, KnownSources
<1> QED BY <1>1, <1>2, <1>4, <1>5 DEF TableInv

THEOREM TableInvariant == Spec => []TableInv
<1>1. TableInv /\ [Next]_vars => TableInv'
  BY TableInvKept
<1> QED BY <1>1, InitTableInv, PTL DEF Spec

(* CountCoversRows: observation_count never falls short of the stored      *)
(* alerts of a source at or after the retention horizon, whatever crashes, *)
(* fails or interleaves.                                                   *)
THEOREM CountsCoverRows == Spec => []CountCoversRows
<1>1. TableInv => CountCoversRows
  BY DEF TableInv, Counted, CountCoversRows, KnownSources, RecentRows
<1> QED BY <1>1, TableInvariant, PTL

-----------------------------------------------------------------------------
(* Each kind of step is a step of the log: a commit appends the writer's   *)
(* rows at once, tracking recalls the source of a stored alert, retention  *)
(* forgets sources without an alert at or after its horizon.               *)
LEMMA StepRefines ==
    ASSUME TableInv, [Next]_vars
    PROVE  [Log!Next]_<<db.raw, KnownSources(db), horizon>>
<1>1. /\ db \in Database /\ work \in Database /\ horizon \in Nat
      /\ Tracked(db, horizon)
      /\ db.raw \subseteq work.raw
      /\ CopyInv
  BY DEF TableInv, IInv, TypeOK, WriterInv
<1>2. TableStep
  BY StepIsTableStep DEF TableInv
<1>3. CASE UNCHANGED <<db, horizon>>
  BY <1>3 DEF KnownSources
<1>4. CASE Commits
  <2> DEFINE new == work.raw \ db.raw
  <2>1. new \in SUBSET (Alerts \ db.raw)
    BY <1>1 DEF Database
  <2>2. \A a \in new, b \in db.raw \cup new : Log!SameKey(a, b) => a = b
    BY <1>1 DEF CopyInv, SameKey, Log!SameKey
  <2>3. db'.raw = db.raw \cup new /\ horizon' = horizon
    BY <1>1, <1>4 DEF Commits
  <2>4. KnownSources(db)' = KnownSources(db) \cup {SourceOf[a] : a \in new}
    <3>1. KnownSources(db)' = KnownSources(work)
      BY <1>4 DEF Commits, KnownSources
    <3> QED BY <1>1, <3>1 DEF CopyInv
  <2>5. Log!Append(new)
    BY <2>2, <2>3, <2>4 DEF Log!Append
  <2> QED BY <2>1, <2>5 DEF Log!Next
<1>5. ASSUME NEW a \in Alerts, Tracks(a)
      PROVE  Log!Next
  <2> DEFINE sa == SourceOf[a]
  <2>1. /\ db'.raw = db.raw
        /\ db'.src = TrackSource(db.src, a)
        /\ horizon' = horizon
        /\ Stored(db, a)
    BY <1>5 DEF Tracks, UpdateProcessedSource
  <2>2. db.src \in [Sources -> Tracking \cup {None}] /\ sa \in Sources
    BY <1>1, AlertsAssumption DEF Database
  <2>3. db'.src[sa] \in Tracking
    <3>1. db'.src[sa] = Upsert(db.src[sa], MjdOf[a])
      BY <2>1, <2>2, TrackSourceRows
    <3>2. db.src[sa] \in Tracking \cup {None} /\ MjdOf[a] \in Nat
      BY <2>2, AlertsAssumption
    <3> QED BY <3>1, <3>2, UpsertRow
  <2>4. \A s \in Sources : s # sa => db'.src[s] = db.src[s]
    BY <2>1, <2>2, TrackSourceRows
  <2>5. KnownSources(db)' = KnownSources(db) \cup {sa}
    BY <2>2, <2>3, <2>4, NoneAssumption DEF KnownSources
  <2>6. \E b \in db.raw : SourceOf[b] = sa
    BY <2>1 DEF Stored, SameKey
  <2>7. Log!Recall(sa)
    BY <2>1, <2>5, <2>6 DEF Log!Recall
  <2> QED BY <2>2, <2>7 DEF Log!Next
<1>6. ASSUME NEW t \in Thresholds, Forgets(t)
      PROVE  Log!Next
  <2> DEFINE old == KnownSources(db) \ KnownSources(db')
  <2>1. /\ db'.raw = db.raw
        /\ horizon' = IF horizon < t THEN t ELSE horizon
        /\ t \in Nat
    BY <1>6, PipelineAssumption DEF Forgets, CleanupOldState
  <2>2. \A s \in Sources : db'.src[s] = IF db.src[s] # None /\ db.src[s].last < t
                                        THEN None ELSE db.src[s]
    BY <1>6 DEF Forgets, CleanupOldState
  <2>3. KnownSources(db') \subseteq KnownSources(db)
    BY <2>2 DEF KnownSources
  <2>4. ASSUME NEW a \in db.raw, SourceOf[a] \in old
        PROVE  MjdOf[a] < horizon'
    <3>1. /\ SourceOf[a] \in Sources
          /\ db.src[SourceOf[a]] # None
          /\ db.src[SourceOf[a]].last < t
      BY <2>2, <2>4 DEF KnownSources
    <3>2. MjdOf[a] \in Nat /\ db.src[SourceOf[a]] \in Tracking
      BY <1>1, <3>1, AlertsAssumption DEF Database
    <3>3. MjdOf[a] >= horizon => db.src[SourceOf[a]].last >= MjdOf[a]
      BY <1>1, <3>1 DEF Tracked, LastSeenCovers
    <3>4. db.src[SourceOf[a]].last \in Nat
      BY <3>2 DEF Tracking
    <3> QED BY <1>1, <2>1, <3>1, <3>2, <3>3, <3>4
  <2>5. KnownSources(db)' = KnownSources(db) \ old
    <3>1. KnownSources(db)' = KnownSources(db')
      BY DEF KnownSources
    <3> QED BY <2>3, <3>1
  <2>6. old \in SUBSET Sources
    BY DEF KnownSources
  <2> HIDE DEF old
  <2>7. Log!Forget(old, t)
    BY <2>1, <2>4, <2>5 DEF Log!Forget
  <2> QED BY <2>6, <2>7 DEF Log!Next
<1> QED
  BY <1>2, <1>3, <1>4, <1>5, <1>6 DEF TableStep, Stutters, Inserts

(* ImplementsAuditLog: whatever the pipelines and retention do to the file *)
(* and whichever of them die, its readers see an append-only log under     *)
(* unique keys, with the sources of the log known as AuditLog promises.    *)
THEOREM PipelineImplementsLog == Spec => ImplementsAuditLog
<1>1. Init => Log!Init
  BY DEF Init, Log!Init, EmptyDatabase, KnownSources
<1>2. TableInv /\ [Next]_vars
         => [Log!Next]_<<db.raw, KnownSources(db), horizon>>
  BY StepRefines
<1> QED
  BY <1>1, <1>2, TableInvariant, PTL DEF Spec, ImplementsAuditLog, Log!Spec
=============================================================================
