------------------------------ MODULE CliIngest ------------------------------
(***************************************************************************)
(* The `ingest' and `backfill' commands (cli.py).  The daily timer runs     *)
(* `ingest', which does not use IngestionPipeline: it has a loop of its own *)
(* around SQLiteStorage.write_batch.  There is no duplicate check and no    *)
(* tracker beside the trigger, the first error ends the run, and the row of *)
(* the run is inserted before the loop and updated after it.                *)
(*                                                                          *)
(* The connection reads nothing inside a transaction, so unlike the         *)
(* pipeline's it never holds an old snapshot: a write only needs the lock.  *)
(***************************************************************************)
EXTENDS AlertDatabase, Sequences

CONSTANTS
    Procs,         \* the processes that run a command
    Backfills,     \* the ones that run `backfill'; the others run `ingest'
    Kafka,         \* the ones whose source is a Kafka topic, not a file
    Feed,          \* Feed[p]: the records of p's topic or files, in order
    Undecodable,   \* records the source cannot parse: logged and skipped
    Unstorable,    \* alerts with a number that SQLite cannot bind
    BatchSize,     \* settings.ingestion.batch_size
    Limits,        \* values of --max-messages or --limit, None for no limit
    MaxRuns        \* bound: runs each process starts

ASSUME CliAssumption ==
    /\ Backfills \subseteq Procs
    /\ Kafka \subseteq Procs \ Backfills
    /\ Feed \in [Procs -> Seq(Alerts)]
    /\ Undecodable \subseteq Alerts
    /\ Unstorable \subseteq Alerts
    /\ BatchSize \in Nat \ {0}
    /\ Limits \subseteq Nat \cup {None}
    /\ MaxRuns \in Nat
    /\ None \notin Procs

VARIABLES
    db,        \* the committed contents of the database file
    writer,    \* the process that holds SQLite's write lock, or None
    work,      \* the database as the writer's open transaction sees it
    pc,        \* pc[p]: where p is in its command
    limit,     \* limit[p]: the limit of p's run
    start,     \* start[p]: records of Feed[p] before the first one of p's run
    pos,       \* pos[p]: records of Feed[p] consumed so far
    batch,     \* batch[p]: alerts received and not yet written
    row,       \* row[p]: next row of the batch to insert
    run,       \* run[p]: the IngestionRun object of p's run
    runs,      \* runs[p]: the row of that run in ingestion_runs, or None
    added,     \* history: rows of alerts_raw that p's run inserted
    raised,    \* history: an exception reached p's except clause
    nruns      \* number of runs p has started

database == <<db, writer, work>>
process == <<limit, start, nruns>>
vars == <<db, writer, work, pc, limit, start, pos, batch, row, run, runs,
          added, raised, nruns>>

IngestionRun ==
    [status : {"running", "completed", "failed"}, ingested : Nat]
NewRun == [status |-> "running", ingested |-> 0]

(* Idle; inserting the run's row; receiving; write_batch; the write of the *)
(* run's row after the loop; the one in backfill's except clauses; the     *)
(* close of source and storage; ended.                                     *)
Alive == {"begin", "fetch", "insert", "final", "handler", "close"}
Ended == {"idle", "done"}

CanWrite(p) == writer \in {None, p}

CommitOf(p, d) == db' = d /\ work' = d /\ writer' = None

(* The process or its connection ends: an open transaction is rolled back. *)
Disconnect(p) ==
    /\ writer' = IF writer = p THEN None ELSE writer
    /\ work' = IF writer = p THEN db ELSE work
    /\ batch' = [batch EXCEPT ![p] = <<>>]
    /\ row' = [row EXCEPT ![p] = 1]
    /\ added' = [added EXCEPT ![p] = @ \cap db.raw]
    /\ UNCHANGED <<db, process, pos, run, runs, raised>>

Init ==
    /\ db = EmptyDatabase
    /\ writer = None
    /\ work = EmptyDatabase
    /\ pc = [p \in Procs |-> "idle"]
    /\ limit = [p \in Procs |-> None]
    /\ start = [p \in Procs |-> 0]
    /\ pos = [p \in Procs |-> 0]
    /\ batch = [p \in Procs |-> <<>>]
    /\ row = [p \in Procs |-> 1]
    /\ run = [p \in Procs |-> NewRun]
    /\ runs = [p \in Procs |-> None]
    /\ added = [p \in Procs |-> {}]
    /\ raised = [p \in Procs |-> FALSE]
    /\ nruns = [p \in Procs |-> 0]

(* The command starts.  Files are read from their beginning; a consumer    *)
(* resumes at the offset its group committed, between the one the last run *)
(* started at and the one it reached.                                      *)
Start(p) ==
    /\ pc[p] \in Ended
    /\ nruns[p] < MaxRuns
    /\ nruns' = [nruns EXCEPT ![p] = @ + 1]
    /\ \E l \in Limits : limit' = [limit EXCEPT ![p] = l]
    /\ \E first \in IF p \in Kafka THEN start[p] .. pos[p] ELSE {0} :
          /\ start' = [start EXCEPT ![p] = first]
          /\ pos' = [pos EXCEPT ![p] = first]
    /\ pc' = [pc EXCEPT ![p] = "begin"]
    /\ run' = [run EXCEPT ![p] = NewRun]
    /\ runs' = [runs EXCEPT ![p] = None]
    /\ added' = [added EXCEPT ![p] = {}]
    /\ raised' = [raised EXCEPT ![p] = FALSE]
    /\ UNCHANGED <<database, batch, row>>

(* The row of the run, before anything is received.                        *)
Begin(p) ==
    /\ pc[p] = "begin"
    /\ CanWrite(p)
    /\ CommitOf(p, work)
    /\ runs' = [runs EXCEPT ![p] = run[p]]
    /\ pc' = [pc EXCEPT ![p] = "fetch"]
    /\ UNCHANGED <<process, pos, batch, row, run, added, raised>>

(* Outside of the try block an error ends the process.                     *)
BeginFails(p) ==
    /\ pc[p] = "begin"
    /\ ~ CanWrite(p)
    /\ pc' = [pc EXCEPT ![p] = "idle"]
    /\ Disconnect(p)

-----------------------------------------------------------------------------
(* The loop over fetch_alerts.                                             *)

LimitReached(p) == limit[p] # None /\ run[p].ingested >= limit[p]

HasRecord(p) ==
    /\ pc[p] = "fetch"
    /\ ~ LimitReached(p)
    /\ pos[p] < Len(Feed[p])

SkipUndecodable(p) ==
    /\ HasRecord(p)
    /\ Feed[p][pos[p] + 1] \in Undecodable
    /\ pos' = [pos EXCEPT ![p] = @ + 1]
    /\ UNCHANGED <<database, process, pc, batch, row, run, runs, added, raised>>

(* alerts_ingested counts the alert when it is received.                   *)
Receive(p) ==
    /\ HasRecord(p)
    /\ Feed[p][pos[p] + 1] \notin Undecodable
    /\ pos' = [pos EXCEPT ![p] = @ + 1]
    /\ batch' = [batch EXCEPT ![p] = Append(@, Feed[p][pos[p] + 1])]
    /\ run' = [run EXCEPT ![p].ingested = @ + 1]
    /\ pc' = [pc EXCEPT ![p] =
                IF Len(batch[p]) + 1 >= BatchSize THEN "insert" ELSE "fetch"]
    /\ UNCHANGED <<database, process, row, runs, added, raised>>

(* The source has no more: what is left of the batch is written, and the   *)
(* run is complete.                                                        *)
LeaveLoop(p) ==
    /\ pc[p] = "fetch"
    /\ LimitReached(p) \/ (p \notin Kafka /\ pos[p] = Len(Feed[p]))
    /\ IF batch[p] = <<>>
       THEN /\ run' = [run EXCEPT ![p].status = "completed"]
            /\ pc' = [pc EXCEPT ![p] = "final"]
       ELSE /\ pc' = [pc EXCEPT ![p] = "insert"]
            /\ UNCHANGED run
    /\ UNCHANGED <<database, process, pos, batch, row, runs, added, raised>>

(* The except clause: run.fail(str(e)) takes an empty message for none.    *)
(* `ingest' writes the row in its finally clause, `backfill' here.         *)
Handle(p, status) ==
    /\ run' = [run EXCEPT ![p].status = status]
    /\ raised' = [raised EXCEPT ![p] = TRUE]
    /\ pc' = [pc EXCEPT ![p] = IF p \in Backfills THEN "handler" ELSE "final"]

(* The source raises, with an empty message where a file ends in the middle *)
(* of a record (EOFError).                                                 *)
SourceRaises(p) ==
    /\ pc[p] = "fetch"
    /\ ~ LimitReached(p)
    /\ \E status \in {"failed"} \cup (IF p \in Kafka THEN {} ELSE {"completed"}) :
          Handle(p, status)
    /\ UNCHANGED <<database, process, pos, batch, row, runs, added>>

-----------------------------------------------------------------------------
(* write_batch.                                                            *)

InsertRow(p) ==
    /\ pc[p] = "insert"
    /\ row[p] <= Len(batch[p])
    /\ CanWrite(p)
    /\ LET a == batch[p][row[p]]
       IN /\ a \notin Unstorable
          /\ work' = InsertOrIgnore(work, a)
          /\ added' = [added EXCEPT ![p] =
                         IF Stored(work, a) THEN @ ELSE @ \cup {a}]
    /\ writer' = p
    /\ row' = [row EXCEPT ![p] = @ + 1]
    /\ UNCHANGED <<db, process, pc, pos, batch, run, runs, raised>>

(* The number of inserted rows that write_batch returns is not used.  A    *)
(* batch shorter than BatchSize is the remainder.                          *)
CommitBatch(p) ==
    /\ pc[p] = "insert"
    /\ row[p] > Len(batch[p])
    /\ CommitOf(p, work)
    /\ batch' = [batch EXCEPT ![p] = <<>>]
    /\ row' = [row EXCEPT ![p] = 1]
    /\ IF Len(batch[p]) < BatchSize
       THEN /\ run' = [run EXCEPT ![p].status = "completed"]
            /\ pc' = [pc EXCEPT ![p] = "final"]
       ELSE /\ pc' = [pc EXCEPT ![p] = "fetch"]
            /\ UNCHANGED run
    /\ UNCHANGED <<process, pos, runs, added, raised>>

(* Defects: the loop goes on with the next batch, as the pipeline does; the *)
(* alerts of the failed batch are not counted; the batch is tried again.   *)
InsertFailsGoesOn(p) ==
    /\ pc[p] = "insert"
    /\ row[p] <= Len(batch[p])
    /\ ~ CanWrite(p) \/ batch[p][row[p]] \in Unstorable
    /\ batch' = [batch EXCEPT ![p] = <<>>]
    /\ row' = [row EXCEPT ![p] = 1]
    /\ pc' = [pc EXCEPT ![p] = "fetch"]
    /\ UNCHANGED <<database, process, pos, run, runs, added, raised>>

InsertFailsUncounted(p) ==
    /\ pc[p] = "insert"
    /\ row[p] <= Len(batch[p])
    /\ ~ CanWrite(p) \/ batch[p][row[p]] \in Unstorable
    /\ run' = [run EXCEPT ![p].status = "failed",
                          ![p].ingested = @ - Len(batch[p])]
    /\ raised' = [raised EXCEPT ![p] = TRUE]
    /\ pc' = [pc EXCEPT ![p] = IF p \in Backfills THEN "handler" ELSE "final"]
    /\ UNCHANGED <<database, process, pos, batch, row, runs, added>>

InsertFailsRetries(p) ==
    /\ pc[p] = "insert"
    /\ row[p] <= Len(batch[p])
    /\ ~ CanWrite(p) \/ batch[p][row[p]] \in Unstorable
    /\ row' = [row EXCEPT ![p] = 1]
    /\ UNCHANGED <<database, process, pc, pos, batch, run, runs, added, raised>>

(* The lock's timeout runs out, or a number does not fit: the rows before  *)
(* this one stay in the open transaction.                                  *)
InsertFails(p) ==
    /\ pc[p] = "insert"
    /\ row[p] <= Len(batch[p])
    /\ ~ CanWrite(p) \/ batch[p][row[p]] \in Unstorable
    /\ Handle(p, "failed")
    /\ UNCHANGED <<database, process, pos, batch, row, runs, added>>

-----------------------------------------------------------------------------
(* The end of the command.                                                 *)

(* write_ingestion_run: the update of the row commits with it what a       *)
(* failed write_batch left open.                                           *)
RecordRun(p) ==
    /\ pc[p] \in {"final", "handler"}
    /\ CanWrite(p)
    /\ CommitOf(p, work)
    /\ runs' = [runs EXCEPT ![p] = run[p]]
    /\ pc' = [pc EXCEPT ![p] = "close"]
    /\ UNCHANGED <<process, pos, batch, row, run, added, raised>>

(* In backfill's try block the error is handled by its except clause; in   *)
(* the except clause the finally clause still closes.  In ingest's finally *)
(* clause it ends the process.                                             *)
RecordRunFails(p) ==
    /\ pc[p] \in {"final", "handler"}
    /\ ~ CanWrite(p)
    /\ IF p \in Backfills
       THEN /\ IF pc[p] = "final"
               THEN Handle(p, "failed")
               ELSE /\ pc' = [pc EXCEPT ![p] = "close"]
                    /\ UNCHANGED <<run, raised>>
            /\ UNCHANGED <<database, process, pos, batch, row, runs, added>>
       ELSE /\ pc' = [pc EXCEPT ![p] = "idle"]
            /\ Disconnect(p)

Close(p) ==
    /\ pc[p] = "close"
    /\ pc' = [pc EXCEPT ![p] = "done"]
    /\ Disconnect(p)

(* A defect: an interrupted command cancels its run.                       *)
InterruptCancels(p) ==
    /\ pc[p] \in {"fetch", "insert"}
    /\ Handle(p, "cancelled")
    /\ UNCHANGED <<database, process, pos, batch, row, runs, added>>

(* KeyboardInterrupt: `backfill' has a clause for it, `ingest' only runs   *)
(* its finally clause.                                                     *)
Interrupt(p) ==
    /\ pc[p] \in {"fetch", "insert"} \cup (IF p \in Backfills THEN {"final"} ELSE {})
    /\ IF p \in Backfills
       THEN Handle(p, "failed")
       ELSE /\ pc' = [pc EXCEPT ![p] = "final"]
            /\ UNCHANGED <<run, raised>>
    /\ UNCHANGED <<database, process, pos, batch, row, runs, added>>

(* The process is killed: by the timer's TimeoutStartSec, or with the      *)
(* machine.                                                                *)
Crash(p) ==
    /\ pc[p] \in Alive
    /\ pc' = [pc EXCEPT ![p] = "idle"]
    /\ Disconnect(p)

-----------------------------------------------------------------------------
(* The steps a command takes by itself.                                    *)
Step(p) ==
    \/ Begin(p) \/ BeginFails(p)
    \/ SkipUndecodable(p) \/ Receive(p) \/ LeaveLoop(p)
    \/ InsertRow(p) \/ CommitBatch(p) \/ InsertFails(p)
    \/ RecordRun(p) \/ RecordRunFails(p) \/ Close(p)

Disturbance(p) == Start(p) \/ SourceRaises(p) \/ Interrupt(p) \/ Crash(p)

Next == \E p \in Procs : Step(p) \/ Disturbance(p)

Spec == Init /\ [][Next]_vars

(* A command that has started keeps running.                               *)
FairSpec == Spec /\ \A p \in Procs : WF_vars(Step(p))

-----------------------------------------------------------------------------
(* Every variable keeps its type: the fields of IngestionRun, the states   *)
(* of the commands, only alerts in the tables.                             *)
TypeOK ==
    /\ db \in Database
    /\ writer \in Procs \cup {None}
    /\ work \in Database
    /\ pc \in [Procs -> Alive \cup Ended]
    /\ limit \in [Procs -> Nat \cup {None}]
    /\ start \in [Procs -> Nat]
    /\ pos \in [Procs -> Nat]
    /\ batch \in [Procs -> Seq(Alerts)]
    /\ row \in [Procs -> Nat \ {0}]
    /\ run \in [Procs -> IngestionRun]
    /\ runs \in [Procs -> IngestionRun \cup {None}]
    /\ added \in [Procs -> SUBSET Alerts]
    /\ raised \in [Procs -> BOOLEAN]
    /\ nruns \in [Procs -> Nat]

(* Where only these commands write, processed_sources says exactly how     *)
(* many alerts of each source are stored, and when the latest was seen, at *)
(* every commit of write_batch and whatever fails between: the trigger is  *)
(* all the tracking there is.  (The pipeline's tracker counts once more.)  *)
TrackingExact ==
    /\ Tracked(db, 0)
    /\ \A s \in KnownSources(db) : db.src[s].count = Cardinality(RowsOf(db, s))

Delivered(p) ==
    {Feed[p][i] : i \in start[p] + 1 .. pos[p]} \ Undecodable

Settled(p) == runs[p] # None /\ runs[p].status # "running"

(* A run that no exception ended and whose row says completed has stored   *)
(* every alert it received under that alert's key, whatever other commands *)
(* and earlier, killed runs did: the remainder is written before the run   *)
(* is called complete, and a failed batch never passes unnoticed.          *)
CompletedStored ==
    \A p \in Procs :
        Settled(p) /\ runs[p].status = "completed" /\ ~ raised[p]
            => \A a \in Delivered(p) : Stored(db, a)

(* No settled run reports fewer alerts than the rows it added, not even    *)
(* when its last batch failed and the rows before the bad one came into    *)
(* the file with the update of the run's row.                              *)
IngestedCovers ==
    \A p \in Procs : Settled(p) => Cardinality(added[p]) <= runs[p].ingested

(* The commands keep the promise of the audit log too.                     *)
Log == INSTANCE AuditLog WITH
           log <- db.raw, known <- KnownSources(db), horizon <- 0,
           Thresholds <- {}
ImplementsAuditLog == Log!Spec

(* A command over files ends and gives the lock back, whatever fails: an   *)
(* alert that cannot be stored, or another command that keeps the lock.    *)
CommandEnds ==
    \A p \in Procs \ Kafka :
        pc[p] = "begin" ~> pc[p] \in Ended /\ writer # p

-----------------------------------------------------------------------------
(* What the documentation says of the commands and they do not do.         *)

(* "is_running: Check if the run is still in progress" (models/runs.py):   *)
(* an interrupted or killed command leaves its row running.                *)
RunningIsInProgress ==
    \A p \in Procs :
        runs[p] # None /\ runs[p].status = "running" => pc[p] \notin Ended
=============================================================================
