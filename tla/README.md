# A formal model of lsst-extendedness

TLA+ modules, TLC configurations and TLAPS proofs about the alert-ingestion
system in this repository.  Paths below are relative to the repository root;
`E/` abbreviates `src/lsst_extendedness/`.

## 1. The system

| component | state it keeps | operations | hard parts | what makes it correct |
|---|---|---|---|---|
| Alert database (`E/storage/schema.py`, `sqlite.py`) | `alerts_raw`, `processed_sources`, `ingestion_runs`, `processing_results`, `alerts_filtered` | INSERT OR IGNORE of a batch with a trigger per row, upserts, retention, queries | several connections, open transactions, the trigger inside the insert | nothing stored is lost; the tracking table agrees with the audit table at every commit |
| Ingestion pipeline (`E/ingest/pipeline.py`) | batch in memory, counters, the run record | receive, skip duplicates, write a batch, track its sources, record the run | kill between two commits, swallowed failures, two processes on one file | what a good run received is stored; its counters account for what it stored; it ends |
| State tracker (`E/ingest/state.py`) | rows of `processed_sources`, `kafka_state` | look-up, upsert, window query, retention | it runs beside the trigger and beside retention | as the database |
| Sources (`E/sources/*`) | consumer position, file list, generator state | connect, fetch_alerts, close | offsets committed ahead of storage, limits, malformed records | every record is delivered or skipped, in order, within the limit |
| Command line (`E/cli.py`) | a run row that it inserts first and updates last | ingest, backfill, process, query, export | it has an ingestion loop of its own, without the pipeline's error handling | the run row tells what was stored |
| Filter engine (`E/filter/*`) | saved filters, `alerts_filtered` | filter in Python, filter in SQL, copy_to_filtered | one predicate in two languages, commits row by row | both evaluations agree; a copy is complete or reported |
| Processing (`E/processing/*`) | registry, `processing_results` | register, discover, run, run_all | a plugin that fails among others | a failure neither hides nor loses another plugin's result |
| Cutouts (`E/cutouts/processor.py`) | FITS files by date | extract, save, retention | names built from seconds, cleanup beside extraction | a path leads to its stamp; no young file goes |
| Legacy consumer (`src/lsst_alert_consumer.py`) | JSON state file, CSV files | consume, classify reassociations, append, save | crash between the CSV and the state file, state file rewritten in place, two consumers in one group | each alert once in the CSV; its flag follows the stream; the state is that of the last alert |
| CSV writers (`src/utils/csv_writer.py`) | buffers, CSV files | append, flush, rewrite with more columns, merge | a flush that fails half way, columns that differ | no record is lost, a file reads back |
| Scripts (`bin/*`, `systemd/*`) | PID file, dated directories | start once, clean up | check-then-act on the PID file, a killed script | one consumer |
| Export scripts (`scripts/export_to_*.py`), `E/query/*` | output files | convert alerts or observations for two programs | two programs without shared code | both files tell the same |
| ANTARES filters (`antares-level2/*`, `src/antares_extendedness_filter.py`) | a tag at a locus | pass an alert or not | three copies of one test | they agree with each other and with what comes into the database |
| Configuration, logging, reports | none | read-only | | |

How they interact: sources hand alert records to the pipeline (a generator call
per record); the pipeline and its state tracker share one `sqlite3` connection;
processes share the SQLite file and nothing else; Kafka remembers one offset per
consumer group, committed by the consumer's own thread.  The list of hazards,
each at its line and with the properties that watch it, is in `PROJECT.json`.

## 2. Modules

| module | what it is |
|---|---|
| `AlertDatabase` | the rows of the two shared tables, and what one SQL statement does to them; the agreement `Tracked(d, h)` of the tables |
| `AuditLog` | the abstract specification: an append-only log and the set of sources it makes known |
| `IngestionPipeline` | the processes: `IngestionPipeline.run` step by step over the database, with SQLite's locking and Kafka's offsets |
| `CliIngest` | the processes of the `ingest` and `backfill` commands, which have a loop of their own over the same database |
| `AlertTable` | the database as later commands see it: `alerts_raw` as a growing sequence, a write lock, and the transaction and snapshot of each client's connection |
| `FilterEngine`, `Processing` | filters, presets and copies; the registry, the processors and their batches; both over `AlertTable` |
| `PostIngest` | their composition: an analyst, a processing run, and ingestion beside them |
| `LegacyConsumer`, `CsvWriters`, `Cutouts` | the parts that keep their data in files |
| `FileStores` | the three of them |
| `AlertSources`, `AntaresFilters`, `SchemaCreation`, `Exports` | what surrounds the database: where alerts come from, what is decided before they come, who creates the tables, what leaves them |
| `Interfaces` | the four of them |
| `OrderedSets` | a finite set in an order: `sorted`, ORDER BY, a selection of rows, drop_duplicates |
| `MC*` | constants for TLC |
| `AlertDatabase_proofs`, `OrderedSets_proofs` | lemmas about single statements, and about sets in an order |
| `IngestionPipeline_proofs`, `PipelineRefinement_proofs`, `CliIngest_proofs`, `PostIngest_proofs`, `FileStores_proofs`, `Interfaces_proofs` | theorems about the module of that name |

### The database

A state of the file is a record: `raw`, the set of alerts in `alerts_raw`, and
`src`, a function from DIASource to its `processed_sources` row or `None`.  An
alert is a model value with an `alert_id`, a `dia_source_id` and an MJD, the only
columns that the statements compare.  `InsertOrIgnore` is one row of
`write_batch`'s `executemany`: a row with a present key is ignored and fires no
trigger; a new one fires the trigger in the same statement.  The trigger's upsert
and `update_processed_source` are the same function of these columns (`Upsert`).

### SQLite

The behaviour of `sqlite3` was observed with small experiments against the
library the code uses, and modelled so:

- the first INSERT of a connection opens a transaction (implicit BEGIN); it takes
  the write lock with the first row that gets through, and holds it until a commit
  or a disconnect (`writer`, `work` is the uncommitted contents);
- a statement that raises leaves the transaction open, and the code never rolls
  back.  With rows in it they stay in `work` and the next commit of that
  connection makes them permanent; without, the connection is `Begun`;
- a SELECT in a transaction without the lock pins the snapshot it read
  (`Newest`); when another connection commits, that snapshot is old (`snap[p]` is
  the old contents), the process reads old rows and each of its writes fails at
  once (SQLITE_BUSY_SNAPSHOT); even a commit of ignored rows does this, since it
  rewrites the AUTOINCREMENT counter;
- a write that does not get the lock within the timeout fails (`InsertFails`,
  `UpsertFails`, `RecordRunFails`); with the lock kept by another process the
  model lets the failure happen at any moment, which covers every timeout.

### The pipeline

| action | code |
|---|---|
| `Start` | `__enter__` and the head of `run()`, on a fresh connection to an initialized database |
| `SkipUndecodable`, `ReceiveDuplicate`, `ReceiveAlert`, `LeaveLoop`, `SourceRaises` | the loop over `fetch_alerts` with the limit, the duplicate check and the batch; leaving it writes the remainder |
| `DryRunBatch`, `InsertRow`, `CommitBatch`, `InsertFails` | `_write_batch` and `SQLiteStorage.write_batch`; `FailBatch` is the `except` clause |
| `LookupSource`, `UpsertSource`, `UpsertFails` | the loop over the batch in `_write_batch`: `get_source_state`, then `update_source_state`, a commit each |
| `RecordRun`, `RecordRunFails` | `_complete_run`, `_fail_run`, `write_ingestion_run` |
| `Close`, `Interrupt`, `Crash` | `__exit__`; KeyboardInterrupt, which `except Exception` does not catch; a kill |
| `CommitOffset` | the Kafka consumer's automatic commits |
| `Cleanup` | `cleanup_old_state` from a connection of its own |

`known`, `added`, `raised`, `horizon` and `start` are history or bookkeeping that
properties refer to; no guard of a program step reads `known`, `added`, `raised`
or `horizon`.

Abstractions: the counters `reassociations`, `updated_sources`, `batches_written`
and `elapsed_seconds` are only reported and left out, and so are the ss_object
columns.  A process runs against a schema that exists.  A record that does not
parse is in `Undecodable`; an alert with a number that does not fit SQLite's
64-bit INTEGER is in `Unstorable` (`executemany` raises OverflowError on it).  A
Kafka topic is one partition with one consumer group per process.

### The commands

`ingest` (which the daily timer starts) and `backfill` do not use the pipeline.
`CliIngest` has the same database and the same lock, and differs as the code does:

| action | code in `E/cli.py` |
|---|---|
| `Start`, `Begin`, `BeginFails` | the head of the command, and the first `write_ingestion_run`: the run's row is inserted, status running, before anything is received and outside of the `try` |
| `SkipUndecodable`, `Receive`, `LeaveLoop`, `SourceRaises` | the loop over `fetch_alerts`; `alerts_ingested` counts what is received; the limit is the source's |
| `InsertRow`, `CommitBatch`, `InsertFails` | `write_batch` in the loop and for the remainder; the first error ends the run |
| `RecordRun`, `RecordRunFails` | the update of the row: in `ingest` in the `finally` clause; in `backfill` in the `try` block (pc `final`) or an `except` clause (`handler`) |
| `Close`, `Interrupt`, `Crash` | the closes; KeyboardInterrupt (`backfill` has a clause for it, `ingest` only its `finally`); a kill, for one by the timer's `TimeoutStartSec` |

There is no duplicate check and no tracker, so the connection reads nothing inside
a transaction and holds no snapshot: `db`, `writer` and `work` suffice.  A consumer
that starts again resumes anywhere between the offset it started at and the one it
reached, which covers every moment of an automatic commit.  Left out: the early
returns of `backfill --dry-run` and of a directory without files, which write
nothing, and `ingest --legacy`, which runs another program.

`TrackingExact` is what these commands keep and the pipeline does not: the trigger
alone counts each stored alert once.  The commands run no retention, so the
refinement to `AuditLog` has the horizon 0 and no thresholds.

### Commands after ingestion

`AlertTable` abstracts what `IngestionPipeline` and `CliIngest` do to `alerts_raw`:
rows are appended in commits (`IngestCommits`), may be withheld (`IngestAborts`), and
never change, so the snapshot of a reader is a prefix.  `conn[p]` is the connection of
a client: `txn` if Python has opened a transaction that nothing ended, which is the
state after a failed `execute` (`LockedOut`: BEGIN was issued, the INSERT failed,
nothing rolls back); `pinned`, the prefix that a query in such a transaction sees from
then on (`Reads`); `stale`, if somebody has committed since, when every write fails at
once (`CanWrite`).

| action | code |
|---|---|
| `SaveFilter`, `DeleteFilter`, `FilterWriteFails` | `FilterEngine.save_filter`, `delete_filter` |
| `CopyQuery`, `CopyRow`, `CopyFails` | `copy_to_filtered`: one query, then a transaction per row; its argument is any configuration, one in hand or one that `load_filter` has returned at some time |
| `Reopen` | the analyst opens the database again after an exception |
| `Discover`, `Unregister`, `ClearRegistry`, `ExitSession` | the registry of one Python process |
| `StartBatch`, `ProcessorNotFound`, `Process`, `ProcessRaises`, `SaveResult`, `SaveFails` | `ProcessingRunner.run_all` and `run`, `BaseProcessor.run`, `save_result`; `run` of one processor, as the `process -p` command calls it, is a list of one |

A filter is the set of rows its SQL selects (`Matches`, with the three-valued logic of
NULL), and its result any of the sets that order and limit allow (`Results`).  The
presets, the keyword filter, the views and the shortcuts are definitions of their own,
since each of them is code of its own.  An MD5 is taken to be free of collisions.

### Data in files

`LegacyConsumer` is `consume_alerts` with its buffer, its CSV, its state file, and the
script that starts it.  `Consume` is one message: the reassociation test against the
state in memory, the entry in that state, the row; a full buffer is saved, then the
state, whose `open("w")` and `json.dump` are two steps (`Truncate`, `WriteState`).
`save_to_csv` is taken apart where another consumer can come in between: `LookForCsv`
asks if the file is there, `CreateCsv` opens it in mode `w` and so empties it, whoever
has written to it by then, and `WriteRows` adds the rows, in `w` mode from the start of
the file on, in `a` mode at its end.  Where two saves meet (`mixed`), any run of lines
of what they write may be lost (`Reach`).  A save may fail at each of these places, with
some rows written and the last line torn or not (`SaveFails`): the buffer stays, and
goes into a file named for the second, which may replace that of a moment before or of
another consumer (`KeepBatch`, `recent`), or cannot be written either.  All of it may be
interrupted (`Interrupt`) or be the last step before a kill (`Kill`).  `Assign`,
`AutoCommit` and the commit in `Close` are Kafka's: the group gives the partition to one
member at a time, and what poll returned counts as consumed.
`CheckLock`, `WriteLock` and `RemoveLock` are the PID file of `run_lsst_consumer.sh`;
`Kill` stops the script, its Python process, or both.

`CsvWriters` has both writers with their buffers, `append_to_csv` and the merge.  A line
of a file is a record, whether a reader finds its values under their columns (`fits`),
what it finds under the column of the keys (`read`, another column's value if the line
was written in another order), and whether it is too wide to be read.  Every write may
fail before it has opened the file, between rows, inside of a line or before the header
(`WriteFails`), also that of an `add_record`, which returns True nevertheless, and of
`append_to_csv`, which has no buffer and refuses the record (`refused`).  The merge
keeps the first row of each value that is read under the column of the keys.  Not
modelled: `clear_buffer`, and what pandas makes of the first line when it is wider than
the header (its columns become an index).
`Cutouts` has several processes that write stamps (`MakeDirectory`, then `Extract`)
beside `cleanup_old_cutouts`, which unlinks old files, lists the directories, looks into
each, and removes it (`LookInside`, `RemoveDirectory`), with time passing in between.

### Around the database

`AlertSources` has the sources other than Kafka.  `connect` finds what there is
(`ConnectFile` with the discovery of files, and so on): a sequence of pieces, which are
files, the list of a catalogue, or the loci of a stream, each with its records and a type
that says how it is read.  `fetch_alerts` is a generator with a cursor (`fetch.file`,
`fetch.at`), one round of its loop per step; its caller may drop it while it waits at a
`yield` (`fetch.paused`, `Abandoned`), a stream may be interrupted anywhere or raise
(`StreamRaises`), and a source may be asked again.  With its history a locus is given
alert by alert.  `Due` is what a fetch is meant to give, the first places up to the
limit of the whole fetch, independent of the loops.  `AntaresFilters` lets every
combination of the fields that the three filters read arrive at a locus.
`SchemaCreation` runs the scripts of `create_schema` statement by statement in several
processes.  `Exports` has both programs on all four inputs; each detection has its two
errors and, which is not written, where each comes from (`Origins`).

Whatever the code sorts is `InOrder` of `OrderedSets`: the element at place n is the one
with n - 1 before it.  SortSeq of the TLC module has no definition that a proof could
expand, and a recursive sort could only be reasoned about by induction over data.

`FileStores` and `Interfaces` put parts together that share no state.  Their steps
commute and each property speaks of one part, so that a behaviour of one part at a
time shows all that an interleaving would; the variable `part` says which one moves.

### The abstract specification

`AuditLog` says what a reader of the database is
promised: alerts join the log at once and under new keys (`Append`), a source is
known from the moment its first alert is in the log, and is forgotten only by
retention (`Forget`), which spares sources with an alert at or after its horizon.
`ImplementsAuditLog` is the refinement, with the committed `raw` as the log.

## 3. Runs

| run | bounds | shows |
|---|---|---|
| `pipeline_two` | a file process and a Kafka process, 3 records each, batches of 2, a limit of 3, one run each, retention at MJD 6 | `TrackingCoversLog`, `CountCoversRows`, `RunAccounting`, `AuditTrail`, `ImplementsAuditLog` |
| `pipeline_options` | one file process, 5 records, all combinations of batch size 1..3, limit none or 3 and the three flags, two runs, retention at 4 and 6 | `TypeOK`, `CompletedRunStored` |
| `pipeline_live` | two processes, `FairSpec`, one record against three, one unstorable | `FileRunEnds` |
| `cli_two` | a backfill of 4 records with one unstorable and an ingest from Kafka of 3 with one malformed, limit none or 2, batches of 2, two runs each, `FairSpec` | `TypeOK`, `TrackingExact`, `CompletedStored`, `IngestedCovers`, `ImplementsAuditLog`, `CommandEnds` |
| `post_ingest` | four alerts in two commits, two configurations under one name, two plugins, three kinds of batch, three commands of the analyst and the runner together, `FairSpec` | `FilteredMatches`, `CopyCovers`, `SelectionsAgree`, `BuiltinsAvailable`, `BatchFollowsList`, `ReportMatchesTable`, `ResultsAreCurrent`, `MinimoonProcessorAgrees`, `CommandsEnd` |
| `file_stores` | four messages, two consumers with two starts and one kind of failure; three records with three orders of columns, two files and one kind of failed write; three alerts, two extracting processes, a clock up to 3 | `NoSilentLoss`, `FlagsFollowStream`, `RowsOnce`, `StateIsCurrent`, `LockExcludes`; `DynamicReadsBack`, `RecordsKept`, `MergedOnce`; `PathsHold`, `GoodStampsSaved` |
| `interfaces` | five forms of path and four other sources, four limits, up to two fetches; all alerts over three values of each field; three creators with four openings; five alerts, six observation lines, six sets of options | `FetchDelivers`, `FiltersAgree`, `SchemaComplete`, `ExportsAgree` |
| `find_*` | one or two processes, one or two runs | a statement of the documentation that the code does not keep; see section 6 |

The feeds are chosen so that each process has a full batch and a remainder, the
processes race for one alert (`a2`) and for one key with two payloads (`a1`,
`a4`), a source is observed out of order (`a1`, `a2`), an `alert_id` occurs with
two sources (`a1`, `a3`), and a batch fails after its first row was inserted
(`a5` cannot be stored).  Two processes suffice for a lock, a stale snapshot and a
race between check and insert: each of them involves one holder and one victim.
`MaxRuns` bounds restarts: one run each where two processes interleave, two where
a later run meets the database of an earlier one.  A process that has used its
runs stops, so the runs disable deadlock checking.

In `post_ingest` the analyst and the runner share a budget of `MaxCommands` three,
which allows a command that fails, the one after it on the connection that the failure
left behind, and one of the other client.  The alerts have a candidate without SNR, one
below the SNR bound, a NULL object, and one name stands for two filters, one of them
with limit 0; the presets are compared by `SelectionsAgree` on the whole table.  One
batch saves and goes on after a failure, one saves and stops, one takes whatever is
registered and does not save.  In `file_stores` `MaxFaults` bounds the kinds of failure
in one behaviour, not their number: each property names the kinds it excepts, so that
what it says of a kind is seen with that kind alone and as often as it likes; scripts
that race, consumers that overlap and failed batches of one second are not counted.
`MaxFailures` is one failed write of the CSV writers, which says what a retry after it
does; section 4 has no such bound.  Consumers and extracting processes are symmetric, and
the run has no liveness property.  In `interfaces` `Exports` has one bound of its own:
nothing is stored once a file is there, since the file does not change by it; `Exact`
stands for 2^53 and is 8.  `MaxFetches` two is one fetch that is cut
short in any way and one that goes on from there; that fetches of a longer history link
up is proved (section 4).

Fairness: `FairSpec` asks weak fairness of `Step(p)`, the steps a started process
takes by itself.  The operating system schedules a runnable process; nothing is
assumed of failures, starts or Kafka's background thread, nor that another
process releases the lock: a write that never gets it fails by its timeout.
`CliIngest` assumes the same of its `Step(p)`, and `PostIngest` of the loop of a copy
and of a batch: a write that waits for the lock ends, at the latest, by the busy timeout
of its connection.  Nothing is assumed of the ingesting processes, which may keep the
lock forever.

Deliberately precise statements:

- `TrackingCoversLog` holds for alerts at or after the retention horizon.  Before
  it the agreement can fail: when retention forgets a source between the commit of
  its alert and the tracking update, the update starts a new row.
- `RunAccounting` does not say that `alerts_ingested` is the number of added rows
  in general (it is not, see `find_partial`), only when no batch failed.
- `CompletedStored` and `CompletedRunStored` except runs that an exception ended:
  an exception with an empty message is recorded as completed (section 6).
- `IngestedCovers` is an inequality: the commands count an alert when it arrives.
- `CompletedRunStored` speaks of the `alert_id`, which is what the duplicate check
  compares (see `find_duplicate`).
- `CopyCovers` is about copies that found something: one that finds nothing may have
  asked an old snapshot, and reports 0 as if there were nothing.
- `ResultsAreCurrent` is about stored results.  A batch is no single snapshot.
- `NoSilentLoss`, `FlagsFollowStream`, `RowsOnce` and `StateIsCurrent` name the failures
  under which they do not hold.  Rows are lost without any failure when two consumers save
  at the same time (`clash`), since the second may create the file anew, and a failed batch
  when another consumer fails within the same second (`second`); a row is written twice
  when a save that failed had already written it.  A kill loses the buffer, whose messages Kafka has counted
  as consumed; an interrupt inside `process_alert` loses the row of a source that the state
  knows already.  Flags and state survive an interrupt; they fail after a kill, a state
  file that was not written, or an overlap of two consumers.
- `SchemaComplete` says when a process can meet an incomplete schema, and that nobody
  repairs it after a creator was cut off.
- `FiltersAgree` and `ExportsAgree` except the cases in which the copies of one rule
  differ, by name; without one of the exceptions TLC finds the difference.
- `RecordsKept` excepts a rewrite that failed, a write that ended inside of a line, and
  records that `append_to_csv` refused.  `MergedOnce` says of every merge that no two rows
  read the same under the column of the keys; that these are the keys of the records it
  says only when all lines fit their headers.
- `ExportsAgree` compares RA and Dec each for itself; it excepts a measured error that
  equals THOR's default and a default that was stretched along a trail (`Untold`).
- `FetchDelivers` promises the limit of the whole fetch.  It excepts a pattern that begins
  with a star, and a `FileSource` whose limit tells beyond one file or beside rows of a CSV
  that do not convert (`LimitsEachFile`): then only the order, no repetition and the limit
  of each file are left (section 6).  Of a stream it
  bounds what may be lost (`Lossy`): the locus taken after the limit was reached, the one
  in hand at an interrupt, and with histories the rest of the last one.

Each property has a mutant: a definition of the model changed the way a plausible
bug would change the code (comments "A defect" in the modules); the property's run
finds it.

## 4. Proofs

Everything below holds for every value of the constants, under the assumptions at the
end: every set of processes, alerts, feeds, files, records or options, every limit, and
any number of runs and failures (a bound such as `MaxRuns` is an arbitrary number there).
Theorems about a composition (`PostIngest`, `FileStores`, `Interfaces`) are about its
`Spec`, so that its other parts move too.

| module | theorem | states |
|---|---|---|
| `IngestionPipeline_proofs` | `TypeCorrect`, `TrackingCorrect`, `AuditTrailKept`, `CompletedRunsStored`, `RunsAccounted` | `TypeOK`, `TrackingCoversLog`, `AuditTrail`, `CompletedRunStored`, `RunAccounting` |
| `PipelineRefinement_proofs` | `CountsCoverRows`, `PipelineImplementsLog` | `CountCoversRows`, `ImplementsAuditLog` |
| `CliIngest_proofs` | `TypeCorrect`, `TrackingIsExact`, `CompletedIsStored`, `IngestedCoversRows`, `CommandsImplementLog` | `TypeOK`, `TrackingExact`, `CompletedStored`, `IngestedCovers`, `ImplementsAuditLog` |
| `PostIngest_proofs` | `PostTypes`, `FilteredRowsMatch`, `CopiesComplete`, `SelectionsConsistent` | `TypeOK`, `FilteredMatches`, `CopyCovers`, `SelectionsAgree` |
| | `BuiltinsStay`, `BatchesFollowLists`, `ReportsTrue`, `ResultsCurrent`, `MinimoonDefinitionsAgree` | `BuiltinsAvailable`, `BatchFollowsList`, `ReportMatchesTable`, `ResultsAreCurrent`, `MinimoonProcessorAgrees` |
| `FileStores_proofs` | `ConsumerTypes`, `LockHolds`, `NothingLost`, `NothingTwice`, `FlagsRight`, `StateRight` | `TypeOK`, `LockExcludes`, `NoSilentLoss`, `RowsOnce`, `FlagsFollowStream`, `StateIsCurrent` |
| | `RecordsSurvive`, `DynamicFilesReadBack`, `MergesOnce`, `PathsLead`, `StampsSaved` | `RecordsKept`, `DynamicReadsBack`, `MergedOnce`, `PathsHold`, `GoodStampsSaved` |
| `Interfaces_proofs` | `InterfaceTypes`, `SchemaIsComplete`, `FiltersAlwaysAgree`, `ExportsAlwaysAgree`, `FetchesDeliver` | `TypeOK`, `SchemaComplete`, `FiltersAgree`, `ExportsAgree`, `FetchDelivers` |

Every theorem about a `Spec` follows from an inductive invariant: it holds initially, each
action keeps it (a lemma per action or group of actions), and it implies the property.

### Pipeline and commands

`TrackingCoversLog` is about the committed file and not inductive.  The inductive
invariant `IInv` adds that the writer's uncommitted copy agrees as well and
extends the file (`WriterInv`), and where a process is in its batch (`BatchInv`):
the rows before the current one are in the copy, and when the tracker starts, all
alerts of the batch are in the file.  The last part is what makes
`update_processed_source` harmless: it only touches sources that have an alert.
`AlertDatabase_proofs` has the lemmas about single statements (`InsertPreserves`,
`UpdatePreserves`, `CleanupPreserves`); `BystanderInv` says a process is not
disturbed by another's step; then there is one lemma per action or group of
actions.

The results of a run (`RunAccounting`, `CompletedRunStored`) need a second invariant,
`RInv`, about what a process sees, `Base(p)`: its uncommitted copy while it holds the
lock, the file otherwise.  The rows a run added are in `Base(p)`; the counters, with
`rowcount` of the batch in progress, account for them, and exactly so while no batch
failed; and what was delivered has its `alert_id` in `Base(p)` or waits in the batch
(`WorkInv`).  The duplicate check may ask an old snapshot, but that has no row that the
file has not (`SnapInv`), so what is skipped as a duplicate is stored.

`PipelineRefinement_proofs` first sorts the actions by what they do to the tables
(`TableStep`: stutter, insert into the copy, commit, track, forget) and then speaks
of these five kinds only.  Two facts beyond `IInv` are needed: the tracker holds no
lock (`LockFree`), since a commit of rows together with a tracking update of a
forgotten source would be no single step of the log; and the copy has unique keys
and knows the sources of the file and of its own rows (`CopyInv`).

In `CliIngest_proofs` the invariant of the database (`Sound`: tracked, exact counts,
unique keys, finite) is kept by `InsertOrIgnore` alone, and the rest is what each
command knows about itself: `CountInv` (rows added, alerts waiting and alerts
counted), `RowInv` (a settled row is the object, and nothing happens to it after),
`StatusInv` (complete only without a remainder) and `DeliveredInv` (delivered is
stored or waiting).

### Commands after ingestion

`PostInv` is `TableInv`, `FilterInv` and `ProcInv`.  `SnapshotInv` in the first carries the
others: a pinned snapshot that nobody has overtaken shows all of the table, and one that
was overtaken can write no more.  So a copy that has written its first row had the present
table (`CopyInv`: until then its rows are the answer to its query or its connection is
stale, and a stale copy fails at its first INSERT), and so had a result that is saved
(`SaveInv`, `ResultInv`).  `ListInv` says that what a batch has reported and what it has
still to do make up its list; `RegInv` keeps the names of the registry unique through
re-registration.  `SelectionsAgree` and `MinimoonProcessorAgrees` compare definitions and
hold of every table, not only of those that can be reached.

### Data in files

`ConsumerInv` is the types, `LockInv`, `SavesInv`, `DeliveryInv` and `KnownInv`.
`SavesInv` says who is at work on the CSV: while no two saves have met, one process at
most, and one that is about to create the file finds none.  `DeliveryInv` and `KnownInv`
are about the `Frontier`: how far the owner of the partition has read, or the committed
offset if nobody owns it.  The actions come down to seven kinds of step by what they do
to the rows (`Quiet`, `Closes`, `Takes`, `Skips`, `Creates`, `Stores`, `Retries`; lemma
`KindOf`), and the invariants are proved over the kinds:

- `LossInv`: every good message before the frontier is in the CSV, in a file of failed
  batches or in a buffer (`KeptInv`), what a process may still drop without another try is
  in such a file, and what its next failed batch may replace is saved or buffered
  (`BatchInv`);
- `OnceInv`: CSV and buffers have each message once and have none in common, which also
  two saves that meet keep, as they take lines away and add none;
- `LockInv`: the PID file names the one script that is alive and past its check;
- `ActiveInv`, `RightInv`: the process that reads knows of each source what the stream
  said last before the frontier, and when none reads, the state file does.

Each holds unless one of the failures that its property names has happened; none of them
excludes more.  `CsvInv` is about buffers and lines (`Line`: one that fits its header is
read as the key it has) and about headers (`ReadsBack`): a file that only the dynamic
writer has written has a sorted header, which is determined by its columns, so that all
its lines fit.  `CutInv` puts every file and every returned path where
`Path` puts it, at a second no later than its time, from which follows that the cleanup
removes only what is past the retention; `SavedInv` says that the directory of a path in
hand exists until the cleanup has removed one.

### Sets in an order

`OrderedSets_proofs` counts, for each element of a finite ordered set, the elements before
it (`Rank`).  Ranks are different and less than the cardinality, so they take each value
once (`RankOnto`), and `InOrder` is what it is meant to be: a sequence of the set's
elements, each once, in the order (`InOrderLists`).  That takes the place of an induction
over sorting.  From it follow what is added at the end (`InOrderAppend`), the prefix that a
downward closed part is (`InOrderPrefix`), and that picking from an order is the order of
what was picked (`PickedOrder`).

### Around the database

- Schema: what has been made is a `Beginning` of the scripts, no creator is further than
  it, and between its first and its last script somebody creates or was cut off.
- Filters: the three verdicts are compared for one alert, whatever it is (`FiltersAgreeOn`).
- Exports: every file is `Made` from its input by the operators of its program
  (`ExportInv`), and for each input these make the same (`SameFromTable`,
  `SameFromListing`; the second by `PickedOrder`, since Pumalink leaves out sites).
- Sources: `SourceInv` has for a fetch that goes on its `Hand`: what it has given are the
  ids of the places behind its cursor that its loops let through, in their order (`Gone`,
  `Got`).  Each loop counts the limit differently, and so does the rest of `Hand`: per file
  for AVRO (`FileHand`), over all that was given for lists and streams (`ListHand`), and
  for a stream all that it took is let through but for its last loci (`StreamHand`); for the mock the numbers themselves
  (`MockHand`).  A step of the cursor over a place that can be given appends its id
  (`IdsAtGrow`, `NextIsDue`); at the limit nothing that is left is let through
  (`RestIsNotDue`); what is cut short is a prefix (`IdsAtPrefix`).  At the end `GotIsDue`
  shows that the loops let through what is due, unless the limit of a `FileSource` is one
  of each file, for which `LimitOfEach` has what is left (`FetchEnds`).  `FetchesLinked` and `FetchesDone` are
  the fetches that are over: each begins where the one before it ended.

### Assumptions

Types of the parameters and special values that differ from all others:
`AlertsAssumption`, `NoneAssumption`, `PipelineAssumption`, `CliAssumption`,
`ArrivalsAssumption`, `ProcessingAssumption`, `BuiltinsAssumption` (the four built-in
entries are entries), `LegacyAssumption` (a stream is a finite sequence whose messages
parse or do not), `ShapeAssumption` (the columns of a record are a finite sequence of
names with that of the keys among them), `CutoutAssumption`, `SourcesAssumption` (`None` is no id), `SchemaAssumption`,
`FiltersAssumption`, `ExportsAssumption` (in it, a trail stretches by a factor of one or more, and `Exact` is a multiple of 4, as 2^53 is, so
that an integer up to it is exact and rounding goes to even).  `FilterAssumption` and
`SeparateProcesses` say that analysts and the runner are clients, and the runner is a
process of its own.  None of them restricts the order or the number of events.

Only model-checked are the three liveness properties `FileRunEnds`, `CommandEnds` and
`CommandsEnd`, which need fairness and ENABLED and are out of the prover's reach, and the
violations of section 6.

## 5. Plan

The modules planned at the beginning are there, and each safety and action property that a
run checks is proved.  What is left:

1. A refinement for the consumer: `LegacyConsumer` implements an abstract log of rows in
   which each message is appended with the flag of its place in the stream, as long as none
   of the failures happens; `DeliveryInv` and `KnownInv` are its invariant.
2. A refinement for `SchemaCreation`: with one creator and no failure the schema is made in
   one step.
3. The findings without a run of their own (section 6), where a statement of the
   repository can be quoted against them.

None of these modules declares a RECURSIVE operator, so that they can be proved about.

## 6. Findings

Statements of the repository that TLC refutes in the model, with the line that
causes it:

| run | statement | what happens |
|---|---|---|
| `find_new_sources` | `E/models/runs.py:50` new_sources | the trigger creates the source before the look-up (`E/ingest/pipeline.py:238`); new_sources stays 0 |
| `find_duplicate` | `E/ingest/pipeline.py:205` "this exact alert" | alert_id alone decides |
| `find_partial` | `E/models/runs.py:48`, `E/storage/protocol.py:91` | rows of a failed batch are committed later |
| `find_offset` | `E/ingest/__init__.py:26-27` | offsets of unstored alerts are committed |
| `find_running` | `E/models/runs.py:129` "still in progress" | an interrupted or killed command leaves its row running |

Further consequences of the modelled definitions, without a run of their own:

- `Upsert` keeps `first_seen_mjd` when an earlier observation arrives second, so
  `get_sources_in_window` misses the source (`E/ingest/state.py:182`);
- the trigger and the tracker both count, so `observation_count` of a tracked alert
  is two for one row (`E/storage/schema.py:331`);
- a failure whose message is empty is recorded as completed (`E/models/runs.py:156`);
- after a lock timeout the transaction stays open, the next read pins its snapshot,
  and later writes fail on a free lock (`E/storage/sqlite.py:82`);
- the commands count received alerts as ingested, stored or not (`E/cli.py:299`);
- the loop of `ingest` does not read `--duration` (`E/cli.py:189`);
- with manual commits nothing ever commits an offset, so each limited run reads the same
  head of the topic (`E/sources/kafka.py:120`, `CommitOffset` with `AutoCommit` FALSE);
- a schema whose creator died after the first script has its version and never gets its
  views, indexes and trigger (`E/storage/schema.py:199`, `SchemaComplete`);
- `copy_to_filtered` fails in the middle with the rows before it committed, never writes
  `filter_config`, and copying a limited filter again adds to what it copied before
  (`E/filter/engine.py:464`); a limit of 0 is none (`E/filter/engine.py:165`);
- the example processor's `without_sso` sums a bitwise complement, which is minus the
  number of alerts minus those with an SSO (`Records`,
  `E/processing/builtin/example.py:67`); a processor registered under another name than
  its `name` attribute saves its results under the attribute; `run` passes its own
  default window, so that a class's `default_window_days` is never used;
- after `clear_registry` the built-in processors do not come back in the same process
  (`E/processing/registry.py:169`);
- two legacy consumers that both find no CSV create it one after the other, and the rows
  of the first are gone, with their offsets committed (`src/lsst_alert_consumer.py:446`); a
  failed batch of one replaces that of the other in the same second (`:466`);
- the legacy consumer loses its buffer when it is killed, since Kafka has committed it,
  and a torn state file makes every source new (`src/lsst_alert_consumer.py:175`); a
  script that is killed leaves its consumer running, and the next script starts another
  (`bin/run_lsst_consumer.sh:73`);
- `add_record` returns True, "if buffer was flushed", also when the flush has failed
  (`src/utils/csv_writer.py:57`); a merge finds the column of its keys by the header, so
  that a line written in another order is compared by another column's value (`:367`);
- a file of the plain CSV writer keeps its header whatever columns come later, and a
  line wider than the header makes the file unreadable for a merge or a rewrite; a
  rewrite that fails has emptied the file (`src/utils/csv_writer.py:211`);
- two stamps of one kind, source and second share a file (`E/cutouts/processor.py:114`);
- a limit applies to each file of a folder anew (`E/sources/file.py:123`), where
  `E/sources/file.py:105` and `E/sources/protocol.py:115` say maximum number of alerts: of
  a folder with two files of two alerts each, a fetch with the limit 2 finds `count` still
  0 at the second file and gives all four, although `tests/test_sources.py:703` is named
  for a limit across files; in a CSV the limit counts rows, not alerts (`:204`); a pattern such as `data/*.avro` searches the directory
  above `data` (`E/sources/file.py:83`, against the example at `:32`);
- a limited ANTARES fetch takes one locus more than it gives (`E/sources/antares.py:185`);
  the mock's second fetch skips or repeats numbers (`E/sources/mock.py:94`);
- `dia_source_id` of a Horizons object is a 60-bit hash times 1000, which SQLite's INTEGER
  does not hold (`E/sources/spacerocks.py:274`);
- a reassociation never changes the verdict of the wide filter, whose extendedness
  thresholds let every value pass; the tag of the tagging filter is never removed;
- `export_to_thor.py --default-sigma` replaces measured errors that equal the default
  (`:914`), and an id above 2^53 changes on its way through a CSV (`:427`); observations
  without a name are numbered by their place, so that they change with the window and
  the known sites; `export_to_pumalink.py` leaves an old file when nothing matches.

## 7. Not modelled

- `E/ingest/deserializer.py` (schema registry cache): no source uses it.
- `kafka_state`: only tests write it.  The `ss_object` columns of `processed_sources`:
  the code hands them through and decides nothing by them.
- Several partitions and rebalancing in `E/sources/kafka.py`; its consumer is alone in
  its group.
- `backfill --dry-run`, `query`, the `db` commands, statistics, backup, summaries: they
  read and print.
- Values of alerts: the mock's random numbers, ephemerides, coordinates, FITS and CSV
  encoding, the layout of export files, parsing of observation lines.
- The daily summary and the cutouts of the legacy consumer, CSV statistics, splitting and
  JSON conversion, thumbnails, the Kafka helpers: files or values of their own that no
  other part reads.
- `generate_report.py`, `validate_cutouts.py`, `download_fink_fixtures.py`,
  `test_kafka_connection.py`, `bin/cleanup_old_data.sh` and the set-up scripts: one-shot
  programs.
- Configuration and logging: values read once at the start.
