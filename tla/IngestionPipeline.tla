-------------------------- MODULE IngestionPipeline --------------------------
(***************************************************************************)
(* Ingestion processes over one SQLite file (ingest/pipeline.py,           *)
(* ingest/state.py, storage/sqlite.py, sources/kafka.py).  Each process    *)
(* runs IngestionPipeline.run: it receives alerts from its source, drops   *)
(* the ones it takes for duplicates, collects a batch, writes the batch in *)
(* one transaction, updates the tracking state of each alert of the batch  *)
(* in a transaction of its own, and finally records the run.               *)
(*                                                                         *)
(* Python's sqlite3 opens a transaction before the first INSERT and leaves *)
(* it open when a statement raises; only a commit ends it.  `snap' is what *)
(* that does to the connection: the open transaction has not read yet      *)
(* (Begun), or it has and is bound to the snapshot of the file it read,    *)
(* which is the newest one (Newest) or the older contents snap[p].         *)
(***************************************************************************)
EXTENDS AlertDatabase, Sequences

CONSTANTS
    Procs,         \* ingestion processes (each with its own source)
    Kafka,         \* the ones whose source is a Kafka topic, not a file
    Feed,          \* Feed[p]: the records of p's topic or file, in order
    Undecodable,   \* records the source cannot parse: logged and skipped
    Unstorable,    \* alerts with a number that SQLite cannot bind
    Options,       \* the PipelineOptions a run may be given
    AutoCommit,    \* enable.auto.commit of the Kafka consumer
    Thresholds,    \* the MJDs of cleanup_old_state's threshold
    MaxRuns,       \* bound: runs each process starts
    Begun,         \* an open transaction that holds no snapshot yet
    Newest         \* an open transaction bound to the newest snapshot

PipelineOptions ==
    [batch_size : Nat \ {0}, max_alerts : Nat \cup {None},
     skip_duplicates : BOOLEAN, track_state : BOOLEAN, dry_run : BOOLEAN]

ASSUME PipelineAssumption ==
    /\ Kafka \subseteq Procs
    /\ Feed \in [Procs -> Seq(Alerts)]
    /\ Undecodable \subseteq Alerts
    /\ Unstorable \subseteq Alerts
    /\ Options \subseteq PipelineOptions
    /\ Options # {}
    /\ AutoCommit \in BOOLEAN
    /\ Thresholds \subseteq Nat
    /\ MaxRuns \in Nat
    /\ None \notin Procs
    /\ Cardinality({None, Begun, Newest}) = 3

VARIABLES
    db,          \* the committed contents of the database file
    writer,      \* the process that holds SQLite's write lock, or None
    work,        \* the database as the writer's open transaction sees it
    horizon,     \* the latest threshold cleanup_old_state has used
    snap,        \* snap[p]: None, Begun, Newest, or the old snapshot p reads
    pc,          \* pc[p]: where p is in run()
    opt,         \* opt[p]: PipelineOptions of p's run
    start,       \* start[p]: offset at which p's run began to read
    pos,         \* pos[p]: number of records of Feed[p] consumed so far
    offset,      \* offset[p]: offset committed to Kafka by p's group
    batch,       \* batch[p]: alerts received and not yet written
    row,         \* row[p]: next row of the batch to insert or to track
    rowcount,    \* rowcount[p]: rows the current write_batch inserted
    stats,       \* stats[p]: PipelineStats of p's run
    runs,        \* runs[p]: row of p's run in ingestion_runs, or None
    known,       \* history: sources tracked when p's run began
    added,       \* history: rows of alerts_raw that p's run inserted
    raised,      \* history: p's run ended by re-raising an exception
    nruns        \* number of runs p has started

database == <<db, writer, work, horizon>>
process == <<opt, start, known, nruns>>
vars == <<db, writer, work, horizon, snap, pc, opt, start, pos, offset, batch,
          row, rowcount, stats, runs, known, added, raised, nruns>>

Stats == [received : Nat, stored : Nat, failed : Nat, new : Nat]
NoStats == [received |-> 0, stored |-> 0, failed |-> 0, new |-> 0]

RunRow == [status : {"completed", "failed"},
           ingested : Nat, failed : Nat, new : Nat]

(* The states of run(): idle between runs; receiving; write_batch inserting *)
(* its rows; get_source_state and update_processed_source for one alert of *)
(* the batch; _complete_run; _fail_run with a message, with an empty one,  *)
(* and with the counters _complete_run had set; the end of the with block. *)
Failing == {"fail", "fail_empty", "fail_counted"}
Running == {"fetch", "insert", "lookup", "upsert", "complete"} \cup Failing
Ended == {"idle", "done"}

-----------------------------------------------------------------------------
(* The connection of a process.                                            *)

View(p) ==
    IF writer = p THEN work
    ELSE IF snap[p] \in {None, Begun, Newest} THEN db ELSE snap[p]

(* A write needs the lock, and fails at once from a snapshot that is not   *)
(* the newest (SQLITE_BUSY_SNAPSHOT).                                      *)
CanWrite(p) ==
    \/ writer = p
    \/ writer = None /\ snap[p] \in {None, Begun, Newest}

(* The contents on which p's next write acts.                              *)
Base(p) == IF writer = p THEN work ELSE db

(* A read inside an open transaction binds the connection to a snapshot.   *)
SnapAfterRead(p) ==
    IF snap[p] = Begun /\ writer # p THEN Newest ELSE snap[p]

(* A statement that raises leaves the transaction it opened open.          *)
SnapAfterError(p) == IF snap[p] = None THEN Begun ELSE snap[p]

(* A commit of new pages leaves the other readers with the old ones.       *)
Superseded == [q \in Procs |-> IF snap[q] = Newest THEN db ELSE snap[q]]

(* commit() of everything p has written, with d the resulting contents.    *)
(* (Even an ignored row rewrites the AUTOINCREMENT counter.)               *)
CommitOf(p, d) ==
    /\ db' = d
    /\ writer' = None
    /\ work' = d
    /\ snap' = [Superseded EXCEPT ![p] = None]

(* The connection is gone: SQLite rolls an open transaction back.          *)
Disconnect(p) ==
    /\ writer' = IF writer = p THEN None ELSE writer
    /\ work' = IF writer = p THEN db ELSE work
    /\ snap' = [snap EXCEPT ![p] = None]

-----------------------------------------------------------------------------
Init ==
    /\ db = EmptyDatabase
    /\ writer = None
    /\ work = EmptyDatabase
    /\ horizon = 0
    /\ snap = [p \in Procs |-> None]
    /\ pc = [p \in Procs |-> "idle"]
    /\ opt = [p \in Procs |-> CHOOSE o \in Options : TRUE]
    /\ start = [p \in Procs |-> 0]
    /\ pos = [p \in Procs |-> 0]
    /\ offset = [p \in Procs |-> 0]
    /\ batch = [p \in Procs |-> <<>>]
    /\ row = [p \in Procs |-> 1]
    /\ rowcount = [p \in Procs |-> 0]
    /\ stats = [p \in Procs |-> NoStats]
    /\ runs = [p \in Procs |-> None]
    /\ known = [p \in Procs |-> {}]
    /\ added = [p \in Procs |-> {}]
    /\ raised = [p \in Procs |-> FALSE]
    /\ nruns = [p \in Procs |-> 0]

(* __enter__ and the head of run(): a Kafka consumer resumes at the offset *)
(* its group committed, a file is read from its beginning.                 *)
Start(p) ==
    /\ pc[p] \in Ended
    /\ nruns[p] < MaxRuns
    /\ nruns' = [nruns EXCEPT ![p] = @ + 1]
    /\ \E o \in Options : opt' = [opt EXCEPT ![p] = o]
    /\ LET first == IF p \in Kafka THEN offset[p] ELSE 0
       IN /\ start' = [start EXCEPT ![p] = first]
          /\ pos' = [pos EXCEPT ![p] = first]
    /\ pc' = [pc EXCEPT ![p] = "fetch"]
    /\ stats' = [stats EXCEPT ![p] = NoStats]
    /\ runs' = [runs EXCEPT ![p] = None]
    /\ known' = [known EXCEPT ![p] = KnownSources(db)]
    /\ added' = [added EXCEPT ![p] = {}]
    /\ raised' = [raised EXCEPT ![p] = FALSE]
    /\ UNCHANGED <<database, snap, offset, batch, row, rowcount>>

-----------------------------------------------------------------------------
(* fetch_alerts and the body of the loop over it.                          *)

LimitReached(p) ==
    opt[p].max_alerts # None /\ stats[p].received >= opt[p].max_alerts

HasRecord(p) ==
    /\ pc[p] = "fetch"
    /\ ~ LimitReached(p)
    /\ pos[p] < Len(Feed[p])

Consume(p) == pos' = [pos EXCEPT ![p] = @ + 1]
CountReceived(p) == stats' = [stats EXCEPT ![p].received = @ + 1]

(* A record the source cannot parse never reaches the pipeline.            *)
SkipUndecodable(p) ==
    /\ HasRecord(p)
    /\ Feed[p][pos[p] + 1] \in Undecodable
    /\ Consume(p)
    /\ UNCHANGED <<database, process, snap, pc, offset, batch, row, rowcount,
                   stats, runs, added, raised>>

ChecksDuplicates(p) == opt[p].skip_duplicates /\ opt[p].track_state

(* _is_duplicate: alerts_raw has a row of this alert_id.  It asks the      *)
(* database only, not the batch that waits in memory.                      *)
IsDuplicate(p, a) ==
    /\ ChecksDuplicates(p)
    /\ \E b \in View(p).raw : IdOf[b] = IdOf[a]

ReadForDuplicates(p) ==
    snap' = IF ChecksDuplicates(p)
            THEN [snap EXCEPT ![p] = SnapAfterRead(p)] ELSE snap

ReceiveDuplicate(p) ==
    /\ HasRecord(p)
    /\ LET a == Feed[p][pos[p] + 1]
       IN a \notin Undecodable /\ IsDuplicate(p, a)
    /\ Consume(p)
    /\ CountReceived(p)
    /\ ReadForDuplicates(p)
    /\ UNCHANGED <<database, process, pc, offset, batch, row, rowcount, runs,
                   added, raised>>

ReceiveAlert(p) ==
    /\ HasRecord(p)
    /\ LET a == Feed[p][pos[p] + 1]
       IN /\ a \notin Undecodable
          /\ ~ IsDuplicate(p, a)
          /\ batch' = [batch EXCEPT ![p] = Append(@, a)]
    /\ Consume(p)
    /\ CountReceived(p)
    /\ ReadForDuplicates(p)
    /\ pc' = [pc EXCEPT ![p] =
                IF Len(batch[p]) + 1 >= opt[p].batch_size
                THEN "insert" ELSE "fetch"]
    /\ UNCHANGED <<database, process, offset, row, rowcount, runs, added,
                   raised>>

(* A defect: the remainder of the batch is not written.                    *)
LeaveLoopAtOnce(p) ==
    /\ pc[p] = "fetch"
    /\ LimitReached(p) \/ (p \notin Kafka /\ pos[p] = Len(Feed[p]))
    /\ pc' = [pc EXCEPT ![p] = "complete"]
    /\ UNCHANGED <<database, process, snap, pos, offset, batch, row, rowcount,
                   stats, runs, added, raised>>

(* The source has no more: the limit is reached, or the file is at its end *)
(* (a Kafka topic has none: poll() is tried again).  What is left of the   *)
(* batch is written before the run is completed.                           *)
LeaveLoop(p) ==
    /\ pc[p] = "fetch"
    /\ LimitReached(p) \/ (p \notin Kafka /\ pos[p] = Len(Feed[p]))
    /\ pc' = [pc EXCEPT ![p] = IF batch[p] = <<>> THEN "complete" ELSE "insert"]
    /\ UNCHANGED <<database, process, snap, pos, offset, batch, row, rowcount,
                   stats, runs, added, raised>>

(* The source raises, with an empty message where a file ends in the middle *)
(* of a record (EOFError).                                                 *)
SourceRaises(p) ==
    /\ pc[p] = "fetch"
    /\ ~ LimitReached(p)
    /\ \E failure \in {"fail"} \cup (IF p \in Kafka THEN {} ELSE {"fail_empty"}) :
          pc' = [pc EXCEPT ![p] = failure]
    /\ raised' = [raised EXCEPT ![p] = TRUE]
    /\ UNCHANGED <<database, process, snap, pos, offset, batch, row, rowcount,
                   stats, runs, added>>

-----------------------------------------------------------------------------
(* _write_batch.  A batch that is shorter than batch_size is the remainder *)
(* written after the loop: the run is completed next.                      *)

EndBatch(p) ==
    /\ batch' = [batch EXCEPT ![p] = <<>>]
    /\ row' = [row EXCEPT ![p] = 1]
    /\ rowcount' = [rowcount EXCEPT ![p] = 0]
    /\ pc' = [pc EXCEPT ![p] =
                IF Len(batch[p]) < opt[p].batch_size THEN "complete" ELSE "fetch"]

DryRunBatch(p) ==
    /\ pc[p] = "insert"
    /\ opt[p].dry_run
    /\ stats' = [stats EXCEPT ![p].stored = @ + Len(batch[p])]
    /\ EndBatch(p)
    /\ UNCHANGED <<database, process, snap, pos, offset, runs, added, raised>>

Inserting(p) == pc[p] = "insert" /\ ~ opt[p].dry_run

(* One row of executemany; the first takes the write lock.                 *)
InsertRow(p) ==
    /\ Inserting(p)
    /\ row[p] <= Len(batch[p])
    /\ CanWrite(p)
    /\ LET a == batch[p][row[p]]
           new == ~ Stored(Base(p), a)
       IN /\ a \notin Unstorable
          /\ work' = InsertOrIgnore(Base(p), a)
          /\ rowcount' = [rowcount EXCEPT ![p] = @ + (IF new THEN 1 ELSE 0)]
          /\ added' = [added EXCEPT ![p] = IF new THEN @ \cup {a} ELSE @]
    /\ writer' = p
    /\ snap' = [snap EXCEPT ![p] = Begun]
    /\ row' = [row EXCEPT ![p] = @ + 1]
    /\ UNCHANGED <<db, horizon, process, pc, pos, offset, batch, stats, runs,
                   raised>>

(* commit() and the return of the row count; the tracker is next.          *)
CommitBatch(p) ==
    /\ Inserting(p)
    /\ row[p] > Len(batch[p])
    /\ CommitOf(p, Base(p))
    /\ stats' = [stats EXCEPT ![p].stored = @ + rowcount[p]]
    /\ IF opt[p].track_state
       THEN /\ pc' = [pc EXCEPT ![p] = "lookup"]
            /\ row' = [row EXCEPT ![p] = 1]
            /\ rowcount' = [rowcount EXCEPT ![p] = 0]
            /\ UNCHANGED batch
       ELSE EndBatch(p)
    /\ UNCHANGED <<horizon, process, pos, offset, runs, added, raised>>

(* Defects: the failed batch is not counted, or is kept for another try.   *)
FailBatchUncounted(p) ==
    /\ snap' = [snap EXCEPT ![p] = SnapAfterError(p)]
    /\ EndBatch(p)
    /\ UNCHANGED stats

FailBatchRetries(p) ==
    /\ snap' = [snap EXCEPT ![p] = SnapAfterError(p)]
    /\ UNCHANGED <<pc, batch, row, rowcount, stats>>

(* The except clause: the whole batch counts as failed, nothing is rolled  *)
(* back, and the run goes on.                                              *)
FailBatch(p) ==
    /\ stats' = [stats EXCEPT ![p].failed = @ + Len(batch[p])]
    /\ snap' = [snap EXCEPT ![p] = SnapAfterError(p)]
    /\ EndBatch(p)

(* The timeout for the lock runs out, the snapshot is stale, or a number   *)
(* of the row does not fit SQLite's INTEGER.                               *)
InsertFails(p) ==
    /\ Inserting(p)
    /\ row[p] <= Len(batch[p])
    /\ ~ CanWrite(p) \/ batch[p][row[p]] \in Unstorable
    /\ FailBatch(p)
    /\ UNCHANGED <<database, process, pos, offset, runs, added, raised>>

(* get_source_state decides whether the alert's source counts as new.      *)
LookupSource(p) ==
    /\ pc[p] = "lookup"
    /\ LET s == SourceOf[batch[p][row[p]]]
       IN stats' = IF View(p).src[s] = None
                   THEN [stats EXCEPT ![p].new = @ + 1] ELSE stats
    /\ pc' = [pc EXCEPT ![p] = "upsert"]
    /\ UNCHANGED <<database, process, snap, pos, offset, batch, row, rowcount,
                   runs, added, raised>>

(* update_source_state: one upsert in a transaction of its own.            *)
UpsertSource(p) ==
    /\ pc[p] = "upsert"
    /\ CanWrite(p)
    /\ CommitOf(p, UpdateProcessedSource(Base(p), batch[p][row[p]]))
    /\ IF row[p] < Len(batch[p])
       THEN /\ pc' = [pc EXCEPT ![p] = "lookup"]
            /\ row' = [row EXCEPT ![p] = @ + 1]
            /\ UNCHANGED <<batch, rowcount>>
       ELSE EndBatch(p)
    /\ UNCHANGED <<horizon, process, pos, offset, stats, runs, added, raised>>

UpsertFails(p) ==
    /\ pc[p] = "upsert"
    /\ ~ CanWrite(p)
    /\ FailBatch(p)
    /\ UNCHANGED <<database, process, pos, offset, runs, added, raised>>

-----------------------------------------------------------------------------
(* The end of run() and of the with block around it.                       *)

(* A defect: an empty message leaves the status the run started with.      *)
RunRecordUnfinished(p) ==
    [status   |-> CASE pc[p] = "complete" -> "completed"
                    [] pc[p] = "fail_empty" -> "running"
                    [] OTHER -> "failed",
     ingested |-> stats[p].stored,
     failed   |-> stats[p].failed,
     new      |-> stats[p].new]

(* The row of ingestion_runs.  _fail_run does not copy the counters, and   *)
(* IngestionRun.complete(error) takes an empty message for no error.       *)
RunRecord(p) ==
    LET counted == pc[p] \in {"complete", "fail_counted"}
    IN [status   |-> IF pc[p] \in {"complete", "fail_empty"}
                     THEN "completed" ELSE "failed",
        ingested |-> IF counted THEN stats[p].stored ELSE 0,
        failed   |-> IF counted THEN stats[p].failed ELSE 0,
        new      |-> IF counted THEN stats[p].new ELSE 0]

Recording(p) == pc[p] \in {"complete"} \cup Failing

(* write_ingestion_run; its commit also commits what a failed write_batch  *)
(* left in the open transaction.                                           *)
RecordRun(p) ==
    /\ Recording(p)
    /\ IF opt[p].dry_run
       THEN UNCHANGED <<db, writer, work, snap, runs>>
       ELSE /\ CanWrite(p)
            /\ CommitOf(p, Base(p))
            /\ runs' = [runs EXCEPT ![p] = RunRecord(p)]
    /\ pc' = [pc EXCEPT ![p] = "close"]
    /\ UNCHANGED <<horizon, process, pos, offset, batch, row, rowcount, stats,
                   added, raised>>

(* A database error in _complete_run is handled by _fail_run; in _fail_run *)
(* it leaves the run without a row.                                        *)
RecordRunFails(p) ==
    /\ Recording(p)
    /\ ~ opt[p].dry_run
    /\ ~ CanWrite(p)
    /\ snap' = [snap EXCEPT ![p] = SnapAfterError(p)]
    /\ pc' = [pc EXCEPT ![p] =
                IF pc[p] = "complete" THEN "fail_counted" ELSE "close"]
    /\ raised' = [raised EXCEPT ![p] = TRUE]
    /\ UNCHANGED <<database, process, pos, offset, batch, row, rowcount, stats,
                   runs, added>>

(* What the process held in memory, and its open transaction, are gone.    *)
LoseMemory(p) ==
    /\ Disconnect(p)
    /\ batch' = [batch EXCEPT ![p] = <<>>]
    /\ row' = [row EXCEPT ![p] = 1]
    /\ rowcount' = [rowcount EXCEPT ![p] = 0]
    /\ added' = [added EXCEPT ![p] = @ \cap db.raw]
    /\ UNCHANGED <<db, horizon, process, pos, stats, runs, raised>>

(* __exit__: closing a Kafka consumer commits its position.                *)
Close(p) ==
    /\ pc[p] = "close"
    /\ pc' = [pc EXCEPT ![p] = "done"]
    /\ offset' = IF p \in Kafka /\ AutoCommit
                 THEN [offset EXCEPT ![p] = pos[p]] ELSE offset
    /\ LoseMemory(p)

(* KeyboardInterrupt is not an Exception: no run is recorded, but the with *)
(* block closes the source.                                                *)
Interrupt(p) ==
    /\ pc[p] \in Running
    /\ pc' = [pc EXCEPT ![p] = "close"]
    /\ UNCHANGED <<database, process, snap, pos, offset, batch, row, rowcount,
                   stats, runs, added, raised>>

(* The process is killed, or the machine stops.                            *)
Crash(p) ==
    /\ pc[p] \notin Ended
    /\ pc' = [pc EXCEPT ![p] = "idle"]
    /\ UNCHANGED offset
    /\ LoseMemory(p)

(* The consumer's background thread commits the position it has delivered. *)
CommitOffset(p) ==
    /\ AutoCommit
    /\ p \in Kafka
    /\ pc[p] \notin Ended
    /\ offset[p] # pos[p]
    /\ offset' = [offset EXCEPT ![p] = pos[p]]
    /\ UNCHANGED <<database, process, snap, pc, pos, batch, row, rowcount,
                   stats, runs, added, raised>>

(* Maintenance, on a connection of its own.                                *)
Cleanup(threshold) ==
    /\ writer = None
    /\ db' = CleanupOldState(db, threshold)
    /\ work' = db'
    /\ horizon' = IF horizon < threshold THEN threshold ELSE horizon
    /\ snap' = IF db' = db THEN snap ELSE Superseded
    /\ UNCHANGED <<writer, process, pc, pos, offset, batch, row, rowcount,
                   stats, runs, added, raised>>

-----------------------------------------------------------------------------
(* The steps run() takes by itself.                                        *)
Step(p) ==
    \/ SkipUndecodable(p) \/ ReceiveDuplicate(p) \/ ReceiveAlert(p)
    \/ LeaveLoop(p)
    \/ DryRunBatch(p) \/ InsertRow(p) \/ CommitBatch(p) \/ InsertFails(p)
    \/ LookupSource(p) \/ UpsertSource(p) \/ UpsertFails(p)
    \/ RecordRun(p) \/ RecordRunFails(p) \/ Close(p)

(* What may happen to it.                                                  *)
Disturbance(p) ==
    \/ Start(p) \/ SourceRaises(p) \/ Interrupt(p) \/ Crash(p) \/ CommitOffset(p)

Next ==
    \/ \E p \in Procs : Step(p) \/ Disturbance(p)
    \/ \E t \in Thresholds : Cleanup(t)

Spec == Init /\ [][Next]_vars

(* A process that has started keeps running; nothing else is owed.         *)
FairSpec == Spec /\ \A p \in Procs : WF_vars(Step(p))

-----------------------------------------------------------------------------
(* Every variable keeps its type: the fields of PipelineStats and of the   *)
(* run's row, the states of run(), and only alerts in the tables.          *)
TypeOK ==
    /\ db \in Database
    /\ writer \in Procs \cup {None}
    /\ work \in Database
    /\ horizon \in Nat
    /\ snap \in [Procs -> Database \cup {None, Begun, Newest}]
    /\ pc \in [Procs -> Running \cup Ended \cup {"close"}]
    /\ opt \in [Procs -> Options]
    /\ start \in [Procs -> Nat]
    /\ pos \in [Procs -> Nat]
    /\ offset \in [Procs -> Nat]
    /\ batch \in [Procs -> Seq(Alerts)]
    /\ row \in [Procs -> Nat \ {0}]
    /\ rowcount \in [Procs -> Nat]
    /\ stats \in [Procs -> Stats]
    /\ runs \in [Procs -> RunRow \cup {None}]
    /\ known \in [Procs -> SUBSET Sources]
    /\ added \in [Procs -> SUBSET Alerts]
    /\ raised \in [Procs -> BOOLEAN]
    /\ nruns \in [Procs -> Nat]

(* The tracking state agrees with the audit trail, at every commit, across *)
(* crashes, failed batches and two writers: what write_batch and its       *)
(* trigger, update_processed_source and cleanup_old_state do to            *)
(* processed_sources never leaves a tracked source without an alert, a     *)
(* source with an alert at or after the retention horizon without tracking *)
(* state, or a last_seen_mjd before such an alert.  (Before the horizon    *)
(* the second half fails: an update, or an old observation, that arrives   *)
(* after retention forgot the source starts its row anew.)                 *)
TrackingCoversLog == Tracked(db, horizon)

(* observation_count never falls short of the stored alerts of a source    *)
(* that retention cannot have forgotten: the trigger counts a row in the   *)
(* transaction that inserts it, so no crash separates the two.             *)
CountCoversRows ==
    \A s \in Sources : db.src[s] # None
        => Cardinality({a \in RowsOf(db, s) : MjdOf[a] >= horizon})
              <= db.src[s].count

(* alerts_raw is an audit trail ("immutable", schema.py:40): no commit of  *)
(* any process removes or replaces a stored alert.                         *)
AuditTrail == [][db.raw \subseteq db'.raw]_db

(* A run that ended well: it has its row and re-raised nothing.            *)
Completed(p) ==
    /\ pc[p] = "done"
    /\ runs[p] # None
    /\ runs[p].status = "completed"
    /\ ~ raised[p]

Delivered(p) ==
    {Feed[p][i] : i \in start[p] + 1 .. pos[p]} \ Undecodable

(* Whatever the source delivered to a completed run that reports no failed *)
(* alert is in alerts_raw under its alert_id: no alert is dropped between  *)
(* the loop, the duplicate check, the batch and the remainder, not even    *)
(* when an earlier run crashed or another process writes the same alerts.  *)
CompletedRunStored ==
    \A p \in Procs : Completed(p) /\ runs[p].failed = 0
        => \A a \in Delivered(p) : \E b \in db.raw : IdOf[b] = IdOf[a]

(* The counters of a completed run account for the rows it added: each is  *)
(* in a batch reported as ingested or as failed, and alerts_ingested is    *)
(* the exact number when no batch failed.                                  *)
RunAccounting ==
    \A p \in Procs : Completed(p)
        => /\ Cardinality(added[p]) <= runs[p].ingested + runs[p].failed
           /\ runs[p].failed = 0 => runs[p].ingested = Cardinality(added[p])

(* The database is the audit log its readers are promised.                 *)
Log == INSTANCE AuditLog WITH log <- db.raw, known <- KnownSources(db)
ImplementsAuditLog == Log!Spec

(* A run over a file ends, whatever fails on its way: a lock that another  *)
(* process keeps, a stale snapshot, an alert that cannot be stored.        *)
FileRunEnds ==
    \A p \in Procs \ Kafka : pc[p] = "fetch" ~> pc[p] \in Ended

-----------------------------------------------------------------------------
(* What the documentation says of these operations and the code does not   *)
(* do: TLC refutes each of the following.                                  *)

(* "new_sources: Number of newly discovered DIASources" (models/runs.py).  *)
(* The trigger creates the row of a new source before get_source_state     *)
(* looks for it, so a run over new sources reports none.                   *)
NewSourcesReported ==
    \A p \in Procs :
        Completed(p) /\ runs[p].failed = 0 /\ opt[p].track_state
            => Cardinality({SourceOf[a] : a \in added[p]} \ known[p])
                  <= runs[p].new

(* "Check if we've seen this exact alert" (pipeline.py): an alert that     *)
(* shares only its alert_id with a stored one is dropped as its duplicate. *)
OnlyExactDuplicatesSkipped ==
    \A p \in Procs : Completed(p) /\ runs[p].failed = 0
        => \A a \in Delivered(p) : Stored(db, a)

(* "alerts_ingested: Number of alerts successfully ingested" and "Insert   *)
(* all alerts in a single transaction" (models/runs.py, storage/           *)
(* protocol.py): the rows before one that cannot be bound stay in the open *)
(* transaction and are committed later, though their batch failed.         *)
IngestedIsStored ==
    \A p \in Procs : Completed(p) => runs[p].ingested = Cardinality(added[p])

(* "Idempotent: Safe to restart / Resumable: State persisted in database"  *)
(* (ingest/__init__.py): what Kafka will not deliver again is stored.  The *)
(* consumer commits offsets of alerts that wait in memory for their batch. *)
CommittedOffsetStored ==
    \A p \in Procs : pc[p] \in Ended
        => \A i \in 1 .. offset[p] :
              \E b \in db.raw : IdOf[b] = IdOf[Feed[p][i]]
=============================================================================
