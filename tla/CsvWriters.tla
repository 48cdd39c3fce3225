----------------------------- MODULE CsvWriters -----------------------------
(***************************************************************************)
(* utils/csv_writer.py: two writers with a buffer each, append_to_csv,     *)
(* which append to CSV files, and the merging of files.  A record is its   *)
(* key; Shape gives its columns, numbers that stand for names in their     *)
(* order of sorting.  Records differ in the key alone, so a field is its   *)
(* column and, in KeyColumn, the key.                                      *)
(*                                                                         *)
(* A line is a record, whether a reader of the file finds each value under *)
(* its own column, the field that it finds under KeyColumn, and wide: it   *)
(* has more fields than the header.                                        *)
(***************************************************************************)
EXTENDS OrderedSets, SequencesExt

CONSTANTS
    Shape,       \* record -> the sequence of its columns
    KeyColumn,   \* the column of the keys
    Files,
    FlushAt,     \* batch_size of CSVWriter
    MaxFailures  \* bound: kinds of failure in one behaviour

Records == DOMAIN Shape
NoName == 0      \* a name in a header that is no column's
NoRecord == 0    \* the key of a line that was torn

ASSUME ShapeAssumption ==
    /\ NoRecord \notin Records /\ MaxFailures \in Nat
    /\ \A r \in Records : Shape[r] \in Seq(Nat) /\ KeyColumn \in Range(Shape[r])

(* A file: the writers it is from, its header, its lines, and whether it   *)
(* ends inside of a line.  One without a header is not there, or is empty. *)
Absent == [by |-> {}, header |-> <<>>, lines |-> <<>>, cut |-> FALSE]
Empty(who) == [by |-> {who}, header |-> <<>>, lines |-> <<>>, cut |-> TRUE]

VARIABLES
    file,        \* the CSV files
    plain,       \* record_buffer of a CSVWriter
    dynamic,     \* record_buffer of a DynamicCSVWriter
    known,       \* its all_columns
    given,       \* history: the records given to a writer
    refused,     \* history: the records for which append_to_csv said 0
    merged,      \* if the last call was a merge: its two files, and the keys
                 \* in its output
    failures     \* history: <<kind of failure, file>>

csvVars == <<file, plain, dynamic, known, given, refused, merged, failures>>

NoMerge == [of |-> <<>>, keys |-> <<>>]

CsvInit ==
    /\ file = [f \in Files |-> Absent]
    /\ plain = <<>> /\ dynamic = <<>> /\ known = {}
    /\ given = {} /\ refused = {} /\ failures = {}
    /\ merged = NoMerge

-----------------------------------------------------------------------------
Sorted(cols) == InOrder(cols, Smaller)

(* The columns of DataFrame(records): in the order they first appear.      *)
Columns(records) ==
    LET places == UNION {{i} \X DOMAIN Shape[records[i]] : i \in DOMAIN records}
        name(p) == Shape[records[p[1]]][p[2]]
        isFirst(p) == \A q \in places : name(q) = name(p) => <<q, p>> \notin Earlier
        first == InOrder({p \in places : isFirst(p)}, Earlier)
    IN [n \in DOMAIN first |-> name(first[n])]

(* What stands under the name KeyColumn of the header, if r is written     *)
(* with some columns: another column's field, if they are not in its order.*)
Blank == <<>>
FieldRead(r, cols, header) ==
    LET at == {i \in DOMAIN header \cap DOMAIN cols : header[i] = KeyColumn}
    IN IF at = {} THEN Blank
       ELSE LET c == cols[CHOOSE i \in at : TRUE]
            IN IF c = KeyColumn THEN <<c, r>>
               ELSE IF c \in Range(Shape[r]) THEN <<c>> ELSE Blank

Lines(records, cols, header) ==
    [i \in DOMAIN records |-> [key  |-> records[i],
                               fits |-> cols = header,
                               wide |-> Len(cols) > Len(header),
                               read |-> FieldRead(records[i], cols, header)]]

(* A new file gets a header, an old one keeps its own, whatever is added;  *)
(* the first line added to an empty one is taken for its header.  That     *)
(* line, and one that continues a torn line, is none of its own.           *)
Appended(f, who, records, cols) ==
    LET head == IF f = Absent THEN cols
                ELSE IF f.header = <<>> THEN [i \in DOMAIN cols |-> NoName] ELSE f.header
        new == Lines(records, cols, head)
    IN IF f # Absent /\ records = <<>> THEN f
       ELSE [by |-> f.by \cup {who}, header |-> head, cut |-> FALSE,
             lines |-> f.lines \o (IF f.cut THEN Tail(new) ELSE new)]

(* It ends inside of a line, which may have too many fields in the end.    *)
Torn(f, w) ==
    IF f.cut THEN f
    ELSE [f EXCEPT !.cut = TRUE,
                   !.lines = Append(@, [key |-> NoRecord, fits |-> FALSE, wide |-> w,
                                        read |-> Blank])]

(* A defect: the columns are written in the order they first appear.       *)
DynamicColumnsUnsorted == Columns(dynamic)

(* DynamicCSVWriter.flush: every column seen so far, sorted.               *)
DynamicColumns == Sorted(Range(Columns(dynamic)) \cup known)

(* The file is read and written again with the columns of both.            *)
Widened(f, cols) == Sorted(Range(f.header) \cup Range(cols))
Rewritten(f, records, cols) ==
    [by |-> f.by \cup {"dynamic"}, header |-> Widened(f, cols), cut |-> FALSE,
     lines |-> f.lines \o Lines(records, cols, cols)]

Mismatch(f, cols) == f # Absent /\ Range(f.header) # Range(cols)

(* pandas reads a file that has a header, and no line wider than that.     *)
Readable(f) == f.header # <<>> /\ \A i \in DOMAIN f.lines : ~ f.lines[i].wide

DynamicFile(f, records) ==
    IF Mismatch(f, DynamicColumns) THEN Rewritten(f, records, DynamicColumns)
    ELSE Appended(f, "dynamic", records, DynamicColumns)

-----------------------------------------------------------------------------
Fails(kind, f) ==
    /\ <<kind, f>> \notin failures /\ failures' = failures \cup {<<kind, f>>}
    /\ Cardinality(failures') <= MaxFailures

(* A to_csv that fails: before it has opened the file, after some of the   *)
(* rows, inside of a line, or before the header of a new file is out.      *)
WriteFails(f, who, records, cols) ==
    \/ Fails("append", f) /\ UNCHANGED file
    \/ \E n \in 0 .. Len(records) - 1 :
         LET g == Appended(file[f], who, SubSeq(records, 1, n), cols)
         IN \/ Fails("append", f) /\ file' = [file EXCEPT ![f] = g]
            \/ /\ Fails("cut", f)
               /\ \E w \in BOOLEAN : file' = [file EXCEPT ![f] = Torn(g, w)]
    \/ /\ file[f] = Absent /\ Fails("cut", f)
       /\ file' = [file EXCEPT ![f] = Empty(who)]

Gives(r) == r \notin given /\ given' = given \cup {r}

(* A defect: the buffer is emptied before it is written.                   *)
PlainAddEmpties(r, f) ==
    /\ Gives(r)
    /\ LET buf == Append(plain, r)
       IN \/ /\ Len(buf) < FlushAt /\ plain' = buf
             /\ UNCHANGED <<file, failures>>
          \/ /\ Len(buf) >= FlushAt /\ plain' = <<>>
             /\ \/ file' = [file EXCEPT ![f] = Appended(@, "plain", buf, Columns(buf))]
                   /\ UNCHANGED failures
                \/ WriteFails(f, "plain", buf, Columns(buf))
    /\ UNCHANGED <<dynamic, known, refused>> /\ merged' = NoMerge

(* CSVWriter.add_record, which flushes a full buffer to the default file.  *)
(* If that fails the buffer stays (and True is returned all the same).     *)
PlainAdd(r, f) ==
    /\ Gives(r)
    /\ LET buf == Append(plain, r)
       IN \/ /\ Len(buf) < FlushAt /\ plain' = buf
             /\ UNCHANGED <<file, failures>>
          \/ /\ Len(buf) >= FlushAt /\ plain' = <<>>
             /\ file' = [file EXCEPT ![f] = Appended(@, "plain", buf, Columns(buf))]
             /\ UNCHANGED failures
          \/ /\ Len(buf) >= FlushAt /\ plain' = buf
             /\ WriteFails(f, "plain", buf, Columns(buf))
    /\ UNCHANGED <<dynamic, known, refused>> /\ merged' = NoMerge

PlainFlush(f) ==
    /\ plain # <<>>
    /\ file' = [file EXCEPT ![f] = Appended(@, "plain", plain, Columns(plain))]
    /\ plain' = <<>>
    /\ UNCHANGED <<dynamic, known, given, refused, failures>> /\ merged' = NoMerge

(* 0 is returned, the buffer stays.                                        *)
PlainFlushFails(f) ==
    /\ plain # <<>>
    /\ WriteFails(f, "plain", plain, Columns(plain))
    /\ UNCHANGED <<plain, dynamic, known, given, refused>> /\ merged' = NoMerge

(* append_to_csv has no buffer: the caller is told, by 0 or by the error   *)
(* of a file that cannot be created, and keeps the record or not.          *)
AppendToCsv(r, f) ==
    /\ Gives(r)
    /\ \/ /\ file' = [file EXCEPT ![f] = Appended(@, "plain", <<r>>, Shape[r])]
          /\ UNCHANGED <<refused, failures>>
       \/ /\ refused' = refused \cup {r}
          /\ WriteFails(f, "plain", <<r>>, Shape[r])
    /\ UNCHANGED <<plain, dynamic, known>> /\ merged' = NoMerge

(* The same without create_if_missing.                                     *)
AppendToMissing(r, f) ==
    /\ file[f] = Absent
    /\ Gives(r) /\ refused' = refused \cup {r}
    /\ UNCHANGED <<file, plain, dynamic, known, failures>> /\ merged' = NoMerge

DynamicAdd(r) ==
    /\ Gives(r)
    /\ dynamic' = Append(dynamic, r)
    /\ known' = known \cup Range(Shape[r])
    /\ UNCHANGED <<file, plain, refused, failures>> /\ merged' = NoMerge

(* What the flush of a DynamicCSVWriter has to read of the file, it can.   *)
DynamicReads(f) ==
    /\ file[f] # Absent => file[f].header # <<>>
    /\ Mismatch(file[f], DynamicColumns) => Readable(file[f])

DynamicFlush(f) ==
    /\ dynamic # <<>> /\ DynamicReads(f)
    /\ file' = [file EXCEPT ![f] = DynamicFile(@, dynamic)]
    /\ dynamic' = <<>>
    /\ UNCHANGED <<plain, known, given, refused, failures>> /\ merged' = NoMerge

DynamicFlushFails(f) ==
    /\ dynamic # <<>> /\ DynamicReads(f) /\ ~ Mismatch(file[f], DynamicColumns)
    /\ WriteFails(f, "dynamic", dynamic, DynamicColumns)
    /\ UNCHANGED <<plain, dynamic, known, given, refused>> /\ merged' = NoMerge

(* The rewriting fails after it has emptied the file, or written a header. *)
RewriteFails(f) ==
    /\ dynamic # <<>> /\ DynamicReads(f) /\ Mismatch(file[f], DynamicColumns)
    /\ Fails("rewrite", f)
    /\ file' \in {[file EXCEPT ![f] = Empty("dynamic")],
                  [file EXCEPT ![f] = [by |-> {"dynamic"}, lines |-> <<>>, cut |-> FALSE,
                                       header |-> Widened(file[f], DynamicColumns)]]}
    /\ UNCHANGED <<plain, dynamic, known, given, refused>> /\ merged' = NoMerge

(* A defect: of equal keys none is kept.                                   *)
NoneOfEqual(keys) ==
    SelectSeq(keys, LAMBDA k : Cardinality({i \in DOMAIN keys : keys[i] = k}) = 1)

(* merge_csv_files, deduplicating by KeyColumn, which it finds by the      *)
(* header: the first row of each field that is read there.  A file with a  *)
(* line too wide makes it fail.                                            *)
FirstOfEach(keys) == WithoutRepeats(keys)

Merge(f, g) ==
    /\ file[f] # Absent /\ file[g] # Absent
    /\ Readable(file[f]) /\ Readable(file[g])
    /\ KeyColumn \in Range(file[f].header) \cup Range(file[g].header)
    /\ LET all == file[f].lines \o file[g].lines
       IN merged' = [of |-> <<f, g>>, keys |-> FirstOfEach([i \in DOMAIN all |-> all[i].read])]
    /\ merged' # merged
    /\ UNCHANGED <<file, plain, dynamic, known, given, refused, failures>>

CsvNext ==
    \E f \in Files :
        \/ \E r \in Records :
             \/ PlainAdd(r, f) \/ AppendToCsv(r, f) \/ AppendToMissing(r, f)
             \/ DynamicAdd(r)
        \/ PlainFlush(f) \/ PlainFlushFails(f)
        \/ DynamicFlush(f) \/ DynamicFlushFails(f) \/ RewriteFails(f)
        \/ \E g \in Files : Merge(f, g)

-----------------------------------------------------------------------------
LinesOf(f) == file[f].lines
KeysIn(f) == {LinesOf(f)[i].key : i \in DOMAIN LinesOf(f)} \cap Records
AllFit(lines) == \A i \in DOMAIN lines : lines[i].fits

(* A file that only a DynamicCSVWriter has written reads back as it was    *)
(* given, whatever columns the records have and in whatever order they     *)
(* came, unless a write to it ended inside of a line.  (A file of the      *)
(* other writers does if its records have one shape.)                      *)
DynamicReadsBack ==
    \A f \in Files :
        file[f].by \subseteq {"dynamic"} /\ <<"cut", f>> \notin failures => AllFit(LinesOf(f))

(* Every record given to a writer is in its buffer or in a file, if it was *)
(* not refused: a flush that fails, be it that of an add_record, loses     *)
(* nothing, unless it was rewriting, or ended inside of a line.            *)
RecordsKept ==
    (\A f \in Files : {<<"rewrite", f>>, <<"cut", f>>} \cap failures = {}) =>
        given \ refused
          \subseteq Range(plain) \cup Range(dynamic) \cup UNION {KeysIn(f) : f \in Files}

(* A merge has no two rows that read the same under KeyColumn, and, if all *)
(* lines of its files fit their headers, one row for each key of them, in  *)
(* spite of rows that a flush has written twice because it failed in       *)
(* between.                                                                *)
OneRowPerKey ==
    LET keys == merged'.keys
        f == merged'.of[1]
        g == merged'.of[2]
    IN /\ \A i, j \in DOMAIN keys : keys[i] = keys[j] => i = j
       /\ AllFit(LinesOf(f)) /\ AllFit(LinesOf(g)) =>
            Range(keys) = {<<KeyColumn, k>> : k \in KeysIn(f) \cup KeysIn(g)}

(* The same of every merge.                                                *)
MergedOnce == [][merged' # merged /\ merged' # NoMerge => OneRowPerKey]_csvVars
=============================================================================
