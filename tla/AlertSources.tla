---------------------------- MODULE AlertSources ----------------------------
(***************************************************************************)
(* The sources other than Kafka: files, ANTARES, the Fink fixtures, JPL    *)
(* Horizons and the mock.  Each is connected, asked for alerts with or     *)
(* without a limit, possibly again, and closed.  A fetch is a generator: a *)
(* step here is one round of its loop, and its caller may drop it.         *)
(*                                                                         *)
(* A record is what the outside has: [id, what], where what says if it can *)
(* be converted: "good", "anonymous" without an alert id, "timeless"       *)
(* without a time, "partial" without an id of its source or a coordinate,  *)
(* "invalid" with a value out of range.                                    *)
(***************************************************************************)
EXTENDS OrderedSets, SequencesExt

CONSTANTS
    SourceKinds,  \* the sources looked at, among those of Loops
    Folders,      \* per form of path: the files it is meant to match, each
                  \* [type, records], in the order of their names; type is
                  \* "avro", "csv", "unknown", or "broken" if reading raises
    Beside,       \* the files in the directory above
    Fixtures,     \* the records of objects.json and sso.json
    Rocks,        \* the objects asked of Horizons, [id, what]
    Loci,         \* the ANTARES stream: the alerts of each locus
    MockCount,    \* MockSource.count
    Limits,       \* the limits asked for
    NoLimit,
    None,         \* no alert
    MaxFetches    \* bound: fetches of one connection

Records == [id : Nat,
            what : {"good", "anonymous", "timeless", "partial", "invalid", "unreachable"}]
Files == [type : {"avro", "csv", "unknown", "broken"}, records : Seq(Records)]

ASSUME SourcesAssumption ==
    /\ SourceKinds \subseteq {"file", "fink", "spacerocks", "antares", "history", "mock"}
    /\ MockCount \in Nat /\ MaxFetches \in Nat
    /\ Limits \subseteq Nat \cup {NoLimit} /\ NoLimit \notin Nat /\ None \notin Nat
    /\ \A path \in DOMAIN Folders : Folders[path] \in Seq(Files)
    /\ "none" \notin DOMAIN Folders
    /\ Beside \in Seq(Files)
    /\ Fixtures \in Seq(Records) /\ Rocks \in Seq(Records)
    /\ Loci \in Seq(Seq(Records))

VARIABLES
    source,       \* [kind, open, path, has, taken]: has is what connect found,
                  \* in pieces; taken what is gone from a stream, or _generated
    fetch,        \* the generator: [on, limit, start, file, at, count, paused]:
                  \* source.taken at its start, the next record at of piece
                  \* file, and if it waits at a yield
    given,        \* the ids it has given out
    fetches       \* the fetches so far: [start, until, limit, given, ended]

sourceVars == <<source, fetch, given, fetches>>

NoFetch == [on |-> FALSE, limit |-> NoLimit, start |-> 0, file |-> 1, at |-> 1,
            count |-> 0, paused |-> FALSE]
Live == source.kind \in {"antares", "history"}

-----------------------------------------------------------------------------
(* What becomes of a record: an id, or None.                               *)

(* AlertRecord.from_avro: what is missing is 0, and an mjd of 0 is refused.*)
FromAvro(r) == CASE r.what \in {"good", "partial"} -> r.id
                 [] r.what = "anonymous" -> 0
                 [] OTHER -> None

(* The required columns of a CSV, and the test for None of Fink's fields.  *)
FromRow(r) == IF r.what = "good" THEN r.id ELSE None

(* ANTARES: alert_id is an attribute that may not be there, a coordinate   *)
(* and a time that are missing are those of the locus and of the alert.    *)
FromAlert(r) == FromAvro(r)

(* A piece is [type, records], the type saying how it is read.             *)
IdOf(piece, k) ==
    CASE piece.type = "avro" -> FromAvro(piece.records[k])
      [] piece.type \in {"csv", "rows"} -> FromRow(piece.records[k])
      [] piece.type \in {"latest", "alerts"} -> FromAlert(piece.records[k])
      [] OTHER -> None

Reached(limit, n) == limit # NoLimit /\ n >= limit

-----------------------------------------------------------------------------
(* connect.                                                                *)

(* A pattern whose star begins the file name: the part before the star is  *)
(* taken for a file, and its directory is searched.                        *)
Discover(path) == IF path = "star" THEN Beside ELSE Folders[path]

(* Objects that Horizons does not answer for are left out.                 *)
Answered == Picked(Rocks, {i \in DOMAIN Rocks : Rocks[i].what = "good"})

Contents(kind, files) ==
    CASE kind = "file" -> files
      [] kind = "fink" -> <<[type |-> "rows", records |-> Fixtures]>>
      [] kind = "spacerocks" -> <<[type |-> "rows", records |-> Answered]>>
      [] kind = "antares" ->
            [i \in DOMAIN Loci |-> [type |-> "latest", records |-> Loci[i]]]
      [] kind = "history" ->
            [i \in DOMAIN Loci |-> [type |-> "alerts", records |-> Loci[i]]]
      [] OTHER -> <<>>

NoSource == [kind |-> "none", open |-> FALSE, path |-> "none", has |-> <<>>, taken |-> 0]

SourcesInit ==
    /\ source = NoSource
    /\ fetch = NoFetch /\ given = <<>> /\ fetches = <<>>

(* get_source of a registered name: the constructor only notes its options.*)
NewSource(kind, path) ==
    /\ source = NoSource
    /\ source' = [NoSource EXCEPT !.kind = kind, !.path = path]
    /\ UNCHANGED <<fetch, given, fetches>>

Opened(files) ==
    /\ ~ source.open /\ fetches = <<>>
    /\ source' = [source EXCEPT !.open = TRUE, !.has = Contents(source.kind, files),
                                !.taken = 0]
    /\ UNCHANGED <<fetch, given, fetches>>

ConnectFile == source.kind = "file" /\ Opened(Discover(source.path))
ConnectFink == source.kind = "fink" /\ Fixtures # <<>> /\ Opened(<<>>)
ConnectMock == source.kind = "mock" /\ Opened(<<>>)
ConnectAntares == Live /\ Opened(<<>>)
ConnectRocks == source.kind = "spacerocks" /\ Answered # <<>> /\ Opened(<<>>)

(* A defect: a source is closed under a fetch that goes on.                *)
CloseSourceAnytime ==
    /\ source.open
    /\ source' = [source EXCEPT !.open = FALSE, !.has = <<>>]
    /\ UNCHANGED <<fetch, given, fetches>>

(* The callers close when they have done with the generator.               *)
CloseSource ==
    /\ source.open /\ ~ fetch.on
    /\ source' = [source EXCEPT !.open = FALSE, !.has = <<>>]
    /\ UNCHANGED <<fetch, given, fetches>>

-----------------------------------------------------------------------------
(* fetch_alerts.                                                           *)

BeginFetch(limit) ==
    /\ source.open /\ ~ fetch.on /\ Len(fetches) < MaxFetches
    /\ fetch' = [on |-> TRUE, limit |-> limit, start |-> source.taken,
                 file |-> source.taken + 1, at |-> IF Live THEN 0 ELSE 1,
                 count |-> 0, paused |-> FALSE]
    /\ given' = <<>>
    /\ UNCHANGED <<source, fetches>>

(* The loop is over, or the caller has let go of the generator.            *)
Ends(ended) ==
    /\ fetch' = NoFetch
    /\ fetches' = Append(fetches, [start |-> fetch.start, until |-> source'.taken,
                                   limit |-> fetch.limit, given |-> given,
                                   ended |-> ended])
    /\ given' = <<>>

(* A record is converted, and yielded if that was possible.                *)
Gives(id, file, at) ==
    /\ given' = IF id = None THEN given ELSE Append(given, id)
    /\ fetch' = [fetch EXCEPT !.file = file, !.at = at, !.paused = id # None,
                              !.count = IF id = None THEN @ ELSE @ + 1]
    /\ UNCHANGED fetches

Piece == source.has[fetch.file]
Exhausted == fetch.at > Len(Piece.records)
GivesNext == Gives(IdOf(Piece, fetch.at), fetch.file, fetch.at + 1)

MovesTo(file, at, count) ==
    /\ fetch' = [fetch EXCEPT !.file = file, !.at = at, !.count = count, !.paused = FALSE]
    /\ UNCHANGED <<given, fetches>>

(* FinkSource, SpaceRocksSource: the limit, then the next of the list.     *)
FetchListed ==
    /\ fetch.on /\ source.kind \in {"fink", "spacerocks"}
    /\ UNCHANGED source
    /\ IF Reached(fetch.limit, fetch.count) \/ Exhausted THEN Ends("done") ELSE GivesNext

(* FileSource: every file is read with the limit as if it were the first,  *)
(* for fetch_alerts does not count: fetch.count is of this file.           *)
NextFile == MovesTo(fetch.file + 1, 1, 0)

(* A defect: the limit is exceeded by one.                                 *)
ReadAvroOneMore ==
    /\ Piece.type = "avro"
    /\ IF Exhausted \/ (fetch.limit # NoLimit /\ fetch.count > fetch.limit)
       THEN NextFile ELSE GivesNext

(* _read_avro: up to limit alerts.                                         *)
ReadAvro ==
    /\ Piece.type = "avro"
    /\ IF Exhausted \/ Reached(fetch.limit, fetch.count) THEN NextFile ELSE GivesNext

(* _read_csv: the alerts among the first limit rows.                       *)
ReadCsv ==
    /\ Piece.type = "csv"
    /\ IF Exhausted \/ Reached(fetch.limit, fetch.at - 1) THEN NextFile ELSE GivesNext

FetchFiles ==
    /\ fetch.on /\ source.kind = "file"
    /\ UNCHANGED source
    /\ \/ (fetch.limit = 0 \/ fetch.file > Len(source.has)) /\ Ends("done")
       \/ /\ fetch.limit # 0 /\ fetch.file <= Len(source.has)
          /\ \/ ReadAvro \/ ReadCsv
             \/ Piece.type = "unknown" /\ NextFile
             \/ Piece.type = "broken" /\ Ends("raised")

(* ANTARESSource: the next locus is taken from the stream before the limit *)
(* is looked at.                                                           *)
TakeLocus ==
    /\ fetch.on /\ Live /\ fetch.at = 0
    /\ source.taken < Len(source.has)
    /\ source' = [source EXCEPT !.taken = @ + 1]
    /\ IF Reached(fetch.limit, fetch.count)
       THEN Ends("done") ELSE MovesTo(fetch.file, 1, fetch.count)

(* The stream raises, and so does fetch_alerts.                            *)
StreamRaises ==
    /\ fetch.on /\ Live /\ fetch.at = 0
    /\ UNCHANGED source
    /\ Ends("raised")

(* The latest alert of the locus is given.                                 *)
FetchLatest ==
    /\ fetch.on /\ source.kind = "antares" /\ fetch.at > 0
    /\ UNCHANGED source
    /\ LET n == Len(Piece.records)
       IN Gives(IF n = 0 THEN None ELSE IdOf(Piece, n), fetch.file + 1, 0)

(* With the history all its alerts are given, up to the limit.             *)
FetchHistory ==
    /\ fetch.on /\ source.kind = "history" /\ fetch.at > 0
    /\ UNCHANGED source
    /\ IF Exhausted \/ Reached(fetch.limit, fetch.count)
       THEN MovesTo(fetch.file + 1, 0, fetch.count) ELSE GivesNext

(* MockSource: i counts the rounds, at - 1, and _generated grows with it;  *)
(* the number of an alert is their sum.  A limit of 0 is none.             *)
MockRounds ==
    LET left == MockCount - fetch.start
        asked == IF fetch.limit \in {0, NoLimit} THEN MockCount ELSE fetch.limit
    IN IF asked < left THEN asked ELSE left

FetchMock ==
    /\ fetch.on /\ source.kind = "mock"
    /\ IF fetch.at > MockRounds
       THEN UNCHANGED source /\ Ends("done")
       ELSE /\ Gives(source.taken + fetch.at - 1, fetch.file, fetch.at + 1)
            /\ source' = [source EXCEPT !.taken = @ + 1]

(* Ctrl-C inside the loop of ANTARES ends it like an end of the data.      *)
Interrupted ==
    /\ fetch.on /\ Live
    /\ UNCHANGED source
    /\ Ends("interrupted")

(* The caller stops at a yield: an error or Ctrl-C of its own.             *)
Abandoned ==
    /\ fetch.on /\ fetch.paused
    /\ UNCHANGED source
    /\ Ends("abandoned")

SourcesNext ==
    \/ \E path \in DOMAIN Folders : "file" \in SourceKinds /\ NewSource("file", path)
    \/ \E kind \in SourceKinds \ {"file"} : NewSource(kind, "none")
    \/ ConnectFile \/ ConnectFink \/ ConnectMock \/ ConnectAntares \/ ConnectRocks
    \/ CloseSource
    \/ \E limit \in Limits : BeginFetch(limit)
    \/ FetchListed \/ FetchFiles \/ TakeLocus \/ StreamRaises \/ FetchLatest \/ FetchHistory
    \/ FetchMock \/ Interrupted \/ Abandoned

-----------------------------------------------------------------------------
SourcesTypeOK ==
    /\ source.open \in BOOLEAN /\ source.taken \in Nat
    /\ fetch.on \in BOOLEAN /\ fetch.limit \in Limits \cup {NoLimit}
    /\ fetch.start \in Nat /\ fetch.file \in Nat /\ fetch.at \in Nat /\ fetch.count \in Nat
    /\ fetch.on => source.open
    /\ Len(fetches) <= MaxFetches

(* The source has what it is meant to have.                                *)
Meant == Contents(source.kind, Folders[source.path])

(* The records from a piece on that can be given, up to a piece that       *)
(* cannot be read.                                                         *)
Usable(pieces, start) ==
    UNION {{i} \X {k \in DOMAIN pieces[i].records :
                     /\ IdOf(pieces[i], k) # None
                     /\ pieces[i].type = "latest" => k = Len(pieces[i].records)} :
             i \in {j \in start + 1 .. Len(pieces) :
                      \A h \in start + 1 .. j : pieces[h].type # "broken"}}

(* limit: "Maximum number of alerts" of the fetch, None for all of them.   *)
Due(pieces, f) ==
    LET usable == Usable(pieces, f.start)
    IN {p \in usable : \/ f.limit = NoLimit
                       \/ Cardinality(Below(usable, Earlier, p)) < f.limit}

IdsAt(pieces, places) ==
    LET at == InOrder(places, Earlier)
    IN [n \in DOMAIN at |-> IdOf(pieces[at[n][1]], at[n][2])]

Promised(pieces, f) == IdsAt(pieces, Due(pieces, f))

(* FileSource does not keep that: its limit is one of each file, and of    *)
(* the rows of a CSV, if they can be converted or not.                     *)
LimitsEachFile(pieces, f) ==
    /\ f.limit # NoLimit
    /\ \/ \E p, q \in Usable(pieces, f.start) :
            pieces[p[1]].type \in {"avro", "csv"} /\ q[1] # p[1]
       \/ \E i \in DOMAIN pieces : \E k \in DOMAIN pieces[i].records :
            pieces[i].type = "csv" /\ IdOf(pieces[i], k) = None

(* It gives some of its records in order, of no file more than the limit.  *)
OfEachFile(pieces, f) ==
    \E places \in SUBSET Usable(pieces, f.start) :
        /\ f.given = IdsAt(pieces, places)
        /\ \A i \in DOMAIN pieces : Cardinality({p \in places : p[1] = i}) <= f.limit

(* The loci at the end of those taken of which something can be lost: the  *)
(* one taken after the limit, the one in hand.                             *)
Lossy(kind, ended) ==
    (IF ended = "done" \/ (ended = "interrupted" /\ kind = "antares") THEN 1 ELSE 0)
    + (IF kind = "history" THEN 1 ELSE 0)

Delivers(kind, pieces, f) ==
    CASE kind = "mock" -> IsInjective(f.given) /\ Len(f.given) <= MockCount
      [] kind # "mock" /\ LimitsEachFile(pieces, f) -> OfEachFile(pieces, f)
      [] kind # "mock" /\ ~ LimitsEachFile(pieces, f) ->
           /\ IsPrefix(f.given, Promised(pieces, f))
           /\ f.ended = "done" \/ (f.ended = "raised" /\ kind = "file") =>
                f.given = Promised(pieces, f)
           /\ kind \in {"antares", "history"} =>
                LET safe == {p \in Usable(pieces, f.start) :
                               p[1] <= f.until - Lossy(kind, f.ended)}
                IN Cardinality(safe) <= Len(f.given)

(* A fetch gives out the first records that can be converted, as many as   *)
(* its limit allows, in order, nothing twice and nothing left out, and a   *)
(* part of that when it is cut short.  Of a stream it has given out all it *)
(* took but for the end, and the next goes on after that.  Excepted: a     *)
(* pattern that begins with a star finds other files, and where the limit  *)
(* is not that of the fetch what is given is in order, and nothing twice.  *)
FetchDelivers ==
    source.path # "star" =>
        \A n \in DOMAIN fetches : /\ n > 1 => fetches[n].start = fetches[n - 1].until
                                  /\ Delivers(source.kind, Meant, fetches[n])
=============================================================================
