---------------------------- MODULE AlertDatabase ----------------------------
(***************************************************************************)
(* The rows of the SQLite database the pipeline shares, and what one SQL   *)
(* statement of storage/sqlite.py, storage/schema.py and ingest/state.py   *)
(* does to them.  A value of Database is one state of the file: the table  *)
(* alerts_raw as a set of alerts and the table processed_sources as a      *)
(* function from the DIASource to its row, or None (SQL's "no row").       *)
(*                                                                         *)
(* Of an alert's columns only those matter here that a statement compares: *)
(* the two identifiers of UNIQUE(alert_id, dia_source_id) and the MJD.     *)
(***************************************************************************)
EXTENDS Naturals, FiniteSets

CONSTANTS
    Alerts,      \* the alert records (payloads) the sources can deliver
    Sources,     \* DIASource identifiers
    IdOf,        \* alert_id of an alert
    SourceOf,    \* dia_source_id of an alert
    MjdOf,       \* mjd of an alert
    None         \* SQL NULL / Python None

ASSUME AlertsAssumption ==
    /\ IdOf \in [Alerts -> Nat]
    /\ SourceOf \in [Alerts -> Sources]
    /\ MjdOf \in [Alerts -> Nat]

(* A row of processed_sources, and the contents of the database.           *)
Tracking == [first : Nat, last : Nat, count : Nat]
Database == [raw : SUBSET Alerts, src : [Sources -> Tracking \cup {None}]]

ASSUME NoneAssumption == None \notin Tracking

(* create_schema: both tables exist and are empty.                         *)
EmptyDatabase == [raw |-> {}, src |-> [s \in Sources |-> None]]

(* UNIQUE(alert_id, dia_source_id) *)
SameKey(a, b) == IdOf[a] = IdOf[b] /\ SourceOf[a] = SourceOf[b]
Stored(d, a) == \E b \in d.raw : SameKey(a, b)

(* A defect: the upsert keeps the MJD that arrived last, not the largest.  *)
UpsertLatestArrival(row, mjd) ==
    IF row = None
    THEN [first |-> mjd, last |-> mjd, count |-> 1]
    ELSE [row EXCEPT !.last = mjd, !.count = @ + 1]

(* The upsert that the trigger and StateTracker share: a new row counts    *)
(* one observation; an existing row keeps first_seen_mjd, takes the larger *)
(* last_seen_mjd and counts one more.                                      *)
Upsert(row, mjd) ==
    IF row = None
    THEN [first |-> mjd, last |-> mjd, count |-> 1]
    ELSE [first |-> row.first,
          last  |-> IF row.last < mjd THEN mjd ELSE row.last,
          count |-> row.count + 1]

(* SQLiteStorage.update_processed_source, and the body of the trigger      *)
(* tr_update_processed_sources.                                            *)
TrackSource(src, a) ==
    [src EXCEPT ![SourceOf[a]] = Upsert(src[SourceOf[a]], MjdOf[a])]

UpdateProcessedSource(d, a) == [raw |-> d.raw, src |-> TrackSource(d.src, a)]

(* Defects: INSERT OR REPLACE; a trigger that only creates missing rows.   *)
InsertOrReplace(d, a) ==
    [raw |-> {b \in d.raw : ~ SameKey(a, b)} \cup {a},
     src |-> TrackSource(d.src, a)]

InsertTracksNewOnly(d, a) ==
    IF Stored(d, a)
    THEN d
    ELSE [raw |-> d.raw \cup {a},
          src |-> IF d.src[SourceOf[a]] = None
                  THEN TrackSource(d.src, a) ELSE d.src]

(* One row of write_batch's INSERT OR IGNORE: a row whose key is present is *)
(* ignored and fires no trigger; a new row fires it in the same statement. *)
InsertOrIgnore(d, a) ==
    IF Stored(d, a)
    THEN d
    ELSE [raw |-> d.raw \cup {a}, src |-> TrackSource(d.src, a)]

(* A defect: retention by the first observation.                           *)
CleanupByFirstSeen(d, threshold) ==
    [raw |-> d.raw,
     src |-> [s \in Sources |->
                IF d.src[s] # None /\ d.src[s].first < threshold
                THEN None ELSE d.src[s]]]

(* StateTracker.cleanup_old_state: forget the sources last seen before the *)
(* threshold.                                                              *)
CleanupOldState(d, threshold) ==
    [raw |-> d.raw,
     src |-> [s \in Sources |->
                IF d.src[s] # None /\ d.src[s].last < threshold
                THEN None ELSE d.src[s]]]

(* The sources get_processed_source finds, and the alerts of a source.     *)
KnownSources(d) == {s \in Sources : d.src[s] # None}
RowsOf(d, s) == {a \in d.raw : SourceOf[a] = s}

-----------------------------------------------------------------------------
(* The agreement of processed_sources with alerts_raw: a tracked source    *)
(* has an alert; a source with an alert at or after the retention horizon  *)
(* h is tracked, and not last seen before that alert.                      *)
NoPhantomSource(d) ==
    \A s \in Sources : d.src[s] # None => \E a \in d.raw : SourceOf[a] = s

RecentSourceTracked(d, h) ==
    \A a \in d.raw : MjdOf[a] >= h => d.src[SourceOf[a]] # None

LastSeenCovers(d, h) ==
    \A a \in d.raw : MjdOf[a] >= h /\ d.src[SourceOf[a]] # None
                        => d.src[SourceOf[a]].last >= MjdOf[a]

Tracked(d, h) ==
    /\ NoPhantomSource(d)
    /\ RecentSourceTracked(d, h)
    /\ LastSeenCovers(d, h)
=============================================================================
