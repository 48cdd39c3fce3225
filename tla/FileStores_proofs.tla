-------------------------- MODULE FileStores_proofs --------------------------
(***************************************************************************)
(* What the parts that keep their data in files preserve, proved for every *)
(* number of processes, every stream, every batch size, every set of       *)
(* records and of alerts.                                                  *)
(***************************************************************************)
EXTENDS FileStores, OrderedSets_proofs, SequenceTheorems, TLAPS

-----------------------------------------------------------------------------
(* The CSV consumer.  The types of its state.                              *)
N == Len(Stream)
Flags == {None, "new_association", "changed_association", "updated_reassociation"}
Row == (1 .. N) \X Flags
KnownSet == [Sources -> {None} \cup {Tracked(i) : i \in DOMAIN Stream}]
Pcs == {"off", "checked", "exit", "boot", "loop", "csv", "create", "fill", "append",
        "truncate", "write", "close"}
Endings == {"no", "rest", "state"}
ProcState == [pc : Pcs, script : BOOLEAN, known : KnownSet, buf : Seq(Row),
              pos : 0 .. N, ending : Endings]

Types ==
    /\ pidfile \in Procs \cup {None} /\ owner \in Procs \cup {None}
    /\ stateFile \in [torn : BOOLEAN, known : KnownSet]
    /\ csv \in Seq(Row) /\ csvEnd \in {"none", "line", "torn"} /\ mixed \subseteq Procs
    /\ recent \in [by : Procs \cup {None}, ids : SUBSET (1 .. N)]
    /\ failed \subseteq 1 .. N /\ committed \in 0 .. N
    /\ proc \in [Procs -> ProcState]
    /\ starts \in 0 .. MaxStarts

(* The state of a process, field by field.                                 *)
St(c, s, k, b, o, e) ==
    [pc |-> c, script |-> s, known |-> k, buf |-> b, pos |-> o, ending |-> e]
Moves(p, c, s, k, b, o, e) == proc' = [proc EXCEPT ![p] = St(c, s, k, b, o, e)]
Fields(p, c, s, k, b, o, e) ==
    /\ proc'[p].pc = c /\ proc'[p].script = s /\ proc'[p].known = k
    /\ proc'[p].buf = b /\ proc'[p].pos = o /\ proc'[p].ending = e
    /\ \A q \in Procs \ {p} : proc'[q] = proc[q]

LEMMA StreamFacts ==
    N \in Nat /\ DOMAIN Stream = 1 .. N /\ \A i \in 1 .. N : Stream[i].ok \in BOOLEAN
  BY LegacyAssumption DEF N

LEMMA UnknownIsKnown == Unknown \in KnownSet
  BY DEF Unknown, KnownSet

LEMMA StFields ==
  ASSUME NEW c, NEW s, NEW k, NEW b, NEW o, NEW e
  PROVE  /\ St(c, s, k, b, o, e).pc = c /\ St(c, s, k, b, o, e).script = s
         /\ St(c, s, k, b, o, e).known = k /\ St(c, s, k, b, o, e).buf = b
         /\ St(c, s, k, b, o, e).pos = o /\ St(c, s, k, b, o, e).ending = e
  BY DEF St

LEMMA OffIs == Off = St("off", FALSE, Unknown, <<>>, 0, "no")
  BY DEF Off, St

LEMMA StTyped ==
  ASSUME NEW c \in Pcs, NEW s \in BOOLEAN, NEW k \in KnownSet, NEW b \in Seq(Row),
         NEW o \in 0 .. N, NEW e \in Endings
  PROVE  St(c, s, k, b, o, e) \in ProcState
  BY DEF St, ProcState

LEMMA ProcIs ==
  ASSUME Types, NEW p \in Procs
  PROVE  /\ proc[p] = St(proc[p].pc, proc[p].script, proc[p].known, proc[p].buf,
                         proc[p].pos, proc[p].ending)
         /\ proc[p].pc \in Pcs /\ proc[p].script \in BOOLEAN /\ proc[p].known \in KnownSet
         /\ proc[p].buf \in Seq(Row) /\ proc[p].pos \in 0 .. N /\ proc[p].ending \in Endings
<1>1. proc[p] \in ProcState
  BY DEF Types
<1> QED
  BY <1>1 DEF ProcState, St

LEMMA MovesFields ==
  ASSUME Types, NEW p \in Procs, NEW c, NEW s, NEW k, NEW b, NEW o, NEW e,
         Moves(p, c, s, k, b, o, e)
  PROVE  Fields(p, c, s, k, b, o, e)
<1>1. proc'[p] = St(c, s, k, b, o, e) /\ \A q \in Procs \ {p} : proc'[q] = proc[q]
  BY DEF Types, Moves
<1> QED
  BY <1>1, StFields DEF Fields

LEMMA MovesTyped ==
  ASSUME Types, NEW p \in Procs, NEW c \in Pcs, NEW s \in BOOLEAN, NEW k \in KnownSet,
         NEW b \in Seq(Row), NEW o \in 0 .. N, NEW e \in Endings,
         Moves(p, c, s, k, b, o, e)
  PROVE  proc' \in [Procs -> ProcState]
<1>1. St(c, s, k, b, o, e) \in ProcState
  BY StTyped
<1> QED
  BY <1>1 DEF Moves, Types

LEMMA PcMoves ==
  ASSUME Types, NEW p \in Procs, NEW c, proc' = [proc EXCEPT ![p].pc = c]
  PROVE  Moves(p, c, proc[p].script, proc[p].known, proc[p].buf, proc[p].pos, proc[p].ending)
<1> DEFINE r == proc[p]
<1>1. r = St(r.pc, r.script, r.known, r.buf, r.pos, r.ending)
  BY ProcIs
<1>2. [r EXCEPT !.pc = c] = St(c, r.script, r.known, r.buf, r.pos, r.ending)
  BY <1>1 DEF St
<1> QED
  BY <1>2 DEF Moves

-----------------------------------------------------------------------------
(* What each action makes of the state of its process.                     *)
LEMMA CheckLockMoves ==
  ASSUME Types, NEW p \in Procs, CheckLock(p)
  PROVE  Moves(p, "checked", TRUE, Unknown, <<>>, 0, "no")
<1> DEFINE m == [Off EXCEPT !.pc = "checked"]
<1>1. proc' = [proc EXCEPT ![p] = [m EXCEPT !.script = TRUE]]
  BY DEF CheckLock
<1>2. PICK no, yes : no = FALSE /\ yes = TRUE
  OBVIOUS
<1>3. m = St("checked", no, Unknown, <<>>, 0, "no")
  <2>1. Off = St("off", no, Unknown, <<>>, 0, "no")
    BY <1>2, OffIs
  <2> QED
    BY <2>1 DEF St
<1> HIDE DEF m
<1>4. [m EXCEPT !.script = yes] = St("checked", yes, Unknown, <<>>, 0, "no")
  BY <1>3 DEF St
<1> QED
  BY <1>1, <1>2, <1>4 DEF Moves

LEMMA StartByHandMoves ==
  ASSUME Types, NEW p \in Procs, StartByHand(p)
  PROVE  Moves(p, "boot", FALSE, Unknown, <<>>, 0, "no")
<1>1. PICK no : no = FALSE
  OBVIOUS
<1>2. Off = St("off", no, Unknown, <<>>, 0, "no")
  BY <1>1, OffIs
<1>3. [Off EXCEPT !.pc = "boot"] = St("boot", no, Unknown, <<>>, 0, "no")
  BY <1>2 DEF St
<1> QED
  BY <1>1, <1>3 DEF Moves, StartByHand

LEMMA WriteLockMoves ==
  ASSUME Types, NEW p \in Procs, WriteLock(p)
  PROVE  Moves(p, "boot", proc[p].script, proc[p].known, proc[p].buf, proc[p].pos,
               proc[p].ending)
  BY PcMoves DEF WriteLock

LEMMA RemoveLockMoves ==
  ASSUME Types, NEW p \in Procs, RemoveLock(p)
  PROVE  Moves(p, "off", FALSE, Unknown, <<>>, 0, "no")
  BY OffIs DEF Moves, RemoveLock

LEMMA LoadStateMoves ==
  ASSUME Types, NEW p \in Procs, LoadState(p)
  PROVE  Moves(p, "loop", proc[p].script, IF stateFile.torn THEN Unknown ELSE stateFile.known,
               proc[p].buf, proc[p].pos, proc[p].ending)
<1> DEFINE k == IF stateFile.torn THEN Unknown ELSE stateFile.known
           r == proc[p]
           m == [r EXCEPT !.pc = "loop"]
<1>1. proc' = [proc EXCEPT ![p] = [m EXCEPT !.known = k]]
  BY DEF LoadState, Types
<1>2. r = St(r.pc, r.script, r.known, r.buf, r.pos, r.ending)
  BY ProcIs
<1>3. m = St("loop", r.script, r.known, r.buf, r.pos, r.ending)
  BY <1>2 DEF St
<1> HIDE DEF m, k
<1>4. [m EXCEPT !.known = k] = St("loop", r.script, k, r.buf, r.pos, r.ending)
  BY <1>3 DEF St
<1> QED
  BY <1>1, <1>4 DEF Moves, k

LEMMA AssignMoves ==
  ASSUME Types, NEW p \in Procs, Assign(p)
  PROVE  Moves(p, proc[p].pc, proc[p].script, proc[p].known, proc[p].buf, committed',
               proc[p].ending)
<1> DEFINE r == proc[p]
<1>1. proc' = [proc EXCEPT ![p] = [r EXCEPT !.pos = committed']]
  BY DEF Assign
<1>2. r = St(r.pc, r.script, r.known, r.buf, r.pos, r.ending)
  BY ProcIs
<1>3. [r EXCEPT !.pos = committed'] = St(r.pc, r.script, r.known, r.buf, committed', r.ending)
  BY <1>2 DEF St
<1> QED
  BY <1>1, <1>3 DEF Moves

LEMMA ConsumeMoves ==
  ASSUME Types, NEW p \in Procs, Consume(p),
         NEW i, i = proc[p].pos + 1, NEW s, s = Stream[i].source,
         NEW row, row = <<i, Reason(proc[p].known[s], Tracked(i))>>
  PROVE  /\ Stream[i].ok =>
              Moves(p, IF Len(Append(proc[p].buf, row)) >= BatchSize THEN "csv" ELSE "loop",
                    proc[p].script, [proc[p].known EXCEPT ![s] = Tracked(i)],
                    Append(proc[p].buf, row), i, proc[p].ending)
         /\ ~ Stream[i].ok =>
              Moves(p, "loop", proc[p].script, proc[p].known, proc[p].buf, i, proc[p].ending)
<1> DEFINE ok == Stream[i].ok
           r == proc[p]
           buf == IF ok THEN Append(r.buf, row) ELSE r.buf
           k == IF ok THEN [r.known EXCEPT ![s] = Tracked(i)] ELSE r.known
           c == IF ok /\ Len(buf) >= BatchSize THEN "csv" ELSE "loop"
<1>1. r = St(r.pc, r.script, r.known, r.buf, r.pos, r.ending)
  BY ProcIs
<1> DEFINE m1 == [r EXCEPT !.pos = i]
           m2 == [m1 EXCEPT !.known = k]
           m3 == [m2 EXCEPT !.buf = buf]
           m4 == [m3 EXCEPT !.pc = c]
<1>3. proc' = [proc EXCEPT ![p] = m4]
  BY <1>1 DEF Consume, Types, St
<1> HIDE DEF k, buf, c, r
<1>4. m4 = St(c, r.script, k, buf, i, r.ending)
  <2>1. m1 = St(r.pc, r.script, r.known, r.buf, i, r.ending)
    BY <1>1 DEF St
  <2> HIDE DEF m1
  <2>2. m2 = St(r.pc, r.script, k, r.buf, i, r.ending)
    BY <2>1 DEF St
  <2> HIDE DEF m2
  <2>3. m3 = St(r.pc, r.script, k, buf, i, r.ending)
    BY <2>2 DEF St
  <2> HIDE DEF m3
  <2> QED
    BY <2>3 DEF St
<1>5. Moves(p, c, r.script, k, buf, i, r.ending)
  BY <1>3, <1>4 DEF Moves
<1>6. CASE ok
  <2>1. /\ buf = Append(r.buf, row) /\ k = [r.known EXCEPT ![s] = Tracked(i)]
        /\ c = IF Len(Append(r.buf, row)) >= BatchSize THEN "csv" ELSE "loop"
    BY <1>6 DEF k, buf, c
  <2> QED
    BY <1>5, <1>6, <2>1 DEF r
<1>7. CASE ~ ok
  <2>1. buf = r.buf /\ k = r.known /\ c = "loop"
    BY <1>7 DEF k, buf, c
  <2> QED
    BY <1>5, <1>7, <2>1 DEF r
<1> QED
  BY <1>6, <1>7

LEMMA EndingIs ==
  ASSUME NEW p, NEW c, NEW s, NEW k, NEW b, NEW o, NEW e
  PROVE  Ending(p, St(c, s, k, b, o, e))
           = St(IF b # <<>> THEN "csv" ELSE "truncate", s, k, b, o,
                IF b # <<>> THEN "rest" ELSE "state")
<1> DEFINE r == St(c, s, k, b, o, e)
<1>1. r.buf = b
  BY StFields
<1>2. CASE b # <<>>
  <2> DEFINE m == [r EXCEPT !.pc = "csv"]
  <2>1. m = St("csv", s, k, b, o, e)
    BY DEF St
  <2> HIDE DEF m
  <2>2. [m EXCEPT !.ending = "rest"] = St("csv", s, k, b, o, "rest")
    BY <2>1 DEF St
  <2> QED
    BY <1>1, <1>2, <2>2 DEF Ending, m
<1>3. CASE b = <<>>
  <2> DEFINE m == [r EXCEPT !.pc = "truncate"]
  <2>1. m = St("truncate", s, k, b, o, e)
    BY DEF St
  <2> HIDE DEF m
  <2>2. [m EXCEPT !.ending = "state"] = St("truncate", s, k, b, o, "state")
    BY <2>1 DEF St
  <2> QED
    BY <1>1, <1>3, <2>2 DEF Ending, m
<1> QED
  BY <1>2, <1>3

LEMMA SaveFailedIs ==
  ASSUME NEW c, NEW s, NEW k, NEW b, NEW o, NEW e
  PROVE  SaveFailed(St(c, s, k, b, o, e))
           = St(IF e = "no" THEN "loop" ELSE "truncate", s, k, b, o,
                IF e = "no" THEN "no" ELSE "state")
<1> DEFINE r == St(c, s, k, b, o, e)
<1>1. r.ending = e
  BY StFields
<1>2. CASE e = "no"
  <2>1. [r EXCEPT !.pc = "loop"] = St("loop", s, k, b, o, e)
    BY DEF St
  <2> QED
    BY <1>1, <1>2, <2>1 DEF SaveFailed
<1>3. CASE e # "no"
  <2> DEFINE m == [r EXCEPT !.pc = "truncate"]
  <2>1. m = St("truncate", s, k, b, o, e)
    BY DEF St
  <2> HIDE DEF m
  <2>2. [m EXCEPT !.ending = "state"] = St("truncate", s, k, b, o, "state")
    BY <2>1 DEF St
  <2> QED
    BY <1>1, <1>3, <2>2 DEF SaveFailed, m
<1> QED
  BY <1>2, <1>3

LEMMA StateWrittenIs ==
  ASSUME NEW c, NEW s, NEW k, NEW b, NEW o, NEW e \in Endings
  PROVE  StateWritten(St(c, s, k, b, o, e))
           = St(IF e = "no" THEN "loop" ELSE IF e = "rest" THEN "truncate" ELSE "close",
                s, k, b, o, IF e = "no" THEN "no" ELSE "state")
<1> DEFINE r == St(c, s, k, b, o, e)
<1>1. r.ending = e
  BY StFields
<1>2. CASE e = "no"
  <2>1. [r EXCEPT !.pc = "loop"] = St("loop", s, k, b, o, e)
    BY DEF St
  <2> QED
    BY <1>1, <1>2, <2>1 DEF StateWritten
<1>3. CASE e = "rest"
  <2> DEFINE m == [r EXCEPT !.pc = "truncate"]
  <2>1. m = St("truncate", s, k, b, o, e)
    BY DEF St
  <2> HIDE DEF m
  <2>2. [m EXCEPT !.ending = "state"] = St("truncate", s, k, b, o, "state")
    BY <2>1 DEF St
  <2> QED
    BY <1>1, <1>3, <2>2 DEF StateWritten, m
<1>4. CASE e = "state"
  <2>1. [r EXCEPT !.pc = "close"] = St("close", s, k, b, o, e)
    BY DEF St
  <2> QED
    BY <1>1, <1>4, <2>1 DEF StateWritten
<1> QED
  BY <1>2, <1>3, <1>4 DEF Endings

LEMMA ExitIs ==
  [Off EXCEPT !.pc = "exit", !.script = TRUE] = St("exit", TRUE, Unknown, <<>>, 0, "no")
<1> DEFINE m == [Off EXCEPT !.pc = "exit"]
<1>1. PICK no, yes : no = FALSE /\ yes = TRUE
  OBVIOUS
<1>2. m = St("exit", no, Unknown, <<>>, 0, "no")
  <2>1. Off = St("off", no, Unknown, <<>>, 0, "no")
    BY <1>1, OffIs
  <2> QED
    BY <2>1 DEF St
<1> HIDE DEF m
<1>3. [m EXCEPT !.script = yes] = St("exit", yes, Unknown, <<>>, 0, "no")
  BY <1>2 DEF St
<1> QED
  BY <1>1, <1>3 DEF m

LEMMA EndingMoves ==
  ASSUME Types, NEW p \in Procs, proc' = [proc EXCEPT ![p] = Ending(p, proc[p])]
  PROVE  Moves(p, IF proc[p].buf # <<>> THEN "csv" ELSE "truncate", proc[p].script,
               proc[p].known, proc[p].buf, proc[p].pos,
               IF proc[p].buf # <<>> THEN "rest" ELSE "state")
<1> DEFINE r == proc[p]
<1>1. r = St(r.pc, r.script, r.known, r.buf, r.pos, r.ending)
  BY ProcIs
<1>2. Ending(p, St(r.pc, r.script, r.known, r.buf, r.pos, r.ending))
        = St(IF r.buf # <<>> THEN "csv" ELSE "truncate", r.script, r.known, r.buf, r.pos,
             IF r.buf # <<>> THEN "rest" ELSE "state")
  BY EndingIs
<1> QED
  BY <1>1, <1>2 DEF Moves

LEMMA WriteRowsMoves ==
  ASSUME Types, NEW p \in Procs, WriteRows(p)
  PROVE  Moves(p, "truncate", proc[p].script, proc[p].known, <<>>, proc[p].pos, proc[p].ending)
<1> DEFINE r == proc[p]
           m == [r EXCEPT !.buf = <<>>]
<1>1. proc' = [proc EXCEPT ![p] = [m EXCEPT !.pc = "truncate"]]
  BY DEF WriteRows, Types
<1>2. r = St(r.pc, r.script, r.known, r.buf, r.pos, r.ending)
  BY ProcIs
<1>3. m = St(r.pc, r.script, r.known, <<>>, r.pos, r.ending)
  BY <1>2 DEF St
<1> HIDE DEF m
<1>4. [m EXCEPT !.pc = "truncate"] = St("truncate", r.script, r.known, <<>>, r.pos, r.ending)
  BY <1>3 DEF St
<1> QED
  BY <1>1, <1>4 DEF Moves

LEMMA LookForCsvMoves ==
  ASSUME Types, NEW p \in Procs, LookForCsv(p)
  PROVE  Moves(p, IF csvEnd = "none" THEN "create" ELSE "append", proc[p].script,
               proc[p].known, proc[p].buf, proc[p].pos, proc[p].ending)
<1>1. proc' = [proc EXCEPT ![p].pc = IF csvEnd = "none" THEN "create" ELSE "append"]
  BY DEF LookForCsv
<1> QED
  BY <1>1, PcMoves

LEMMA CreateCsvMoves ==
  ASSUME Types, NEW p \in Procs, CreateCsv(p)
  PROVE  Moves(p, "fill", proc[p].script, proc[p].known, proc[p].buf, proc[p].pos, proc[p].ending)
  BY PcMoves DEF CreateCsv

LEMMA SaveFailsMoves ==
  ASSUME Types, NEW p \in Procs, SaveFails(p)
  PROVE  Moves(p, IF proc[p].ending = "no" THEN "loop" ELSE "truncate", proc[p].script,
               proc[p].known, proc[p].buf, proc[p].pos,
               IF proc[p].ending = "no" THEN "no" ELSE "state")
<1> DEFINE r == proc[p]
<1>1. r = St(r.pc, r.script, r.known, r.buf, r.pos, r.ending)
  BY ProcIs
<1>2. SaveFailed(St(r.pc, r.script, r.known, r.buf, r.pos, r.ending))
        = St(IF r.ending = "no" THEN "loop" ELSE "truncate", r.script, r.known, r.buf, r.pos,
             IF r.ending = "no" THEN "no" ELSE "state")
  BY SaveFailedIs
<1> QED
  BY <1>1, <1>2 DEF Moves, SaveFails

LEMMA WrittenMoves ==
  ASSUME Types, NEW p \in Procs, proc' = [proc EXCEPT ![p] = StateWritten(proc[p])]
  PROVE  Moves(p, IF proc[p].ending = "no" THEN "loop"
                  ELSE IF proc[p].ending = "rest" THEN "truncate" ELSE "close",
               proc[p].script, proc[p].known, proc[p].buf, proc[p].pos,
               IF proc[p].ending = "no" THEN "no" ELSE "state")
<1> DEFINE r == proc[p]
<1>1. r = St(r.pc, r.script, r.known, r.buf, r.pos, r.ending) /\ r.ending \in Endings
  BY ProcIs
<1>2. StateWritten(St(r.pc, r.script, r.known, r.buf, r.pos, r.ending))
        = St(IF r.ending = "no" THEN "loop" ELSE IF r.ending = "rest" THEN "truncate" ELSE "close",
             r.script, r.known, r.buf, r.pos, IF r.ending = "no" THEN "no" ELSE "state")
  BY <1>1, StateWrittenIs
<1> QED
  BY <1>1, <1>2 DEF Moves

LEMMA CloseMoves ==
  ASSUME Types, NEW p \in Procs, Close(p)
  PROVE  Moves(p, IF proc[p].script THEN "exit" ELSE "off", proc[p].script, Unknown, <<>>, 0, "no")
<1>1. proc[p].script \in BOOLEAN
  BY ProcIs
<1>2. CASE proc[p].script = TRUE
  BY <1>2, ExitIs DEF Close, Moves
<1>3. CASE proc[p].script = FALSE
  BY <1>3, OffIs DEF Close, Moves
<1> QED
  BY <1>1, <1>2, <1>3

(* What a save leaves behind if it stops: the first of its rows, if it has *)
(* opened the file.                                                        *)
Leaves(p, end) ==
    \/ proc[p].pc \notin {"fill", "append"} /\ UNCHANGED saves
    \/ /\ proc[p].pc \in {"fill", "append"} /\ mixed' = mixed /\ csvEnd' = end
       /\ end = "torn" => fault' \cap {"interrupt", "kill", "cut", "recovery"} # {}
       /\ \E n \in 0 .. Len(proc[p].buf) : Reach(p, SubSeq(proc[p].buf, 1, n))

LEMMA StopsLeaves ==
  ASSUME NEW p, NEW n \in 0 .. Len(proc[p].buf), NEW end \in {"line", "torn"}, Stops(p, n, end),
         end = "torn" => fault' \cap {"interrupt", "kill", "cut", "recovery"} # {}
  PROVE  Leaves(p, end)
  BY DEF Stops, Leaves

LEMMA SaveFailsLeaves ==
  ASSUME Types, NEW p \in Procs, SaveFails(p)
  PROVE  \E end \in {"line", "torn"} : Leaves(p, end)
<1>1. Len(proc[p].buf) \in Nat
  BY ProcIs, LenProperties
<1>2. PICK n \in 0 .. Len(proc[p].buf) - 1, end \in {"line", "torn"} :
         /\ Stops(p, n, end)
         /\ \/ KeepBatch(p, {IF end = "torn" THEN "cut" ELSE "disk"})
            \/ /\ Faulty("recovery") /\ UNCHANGED failed
               /\ recent' \in {recent, [recent EXCEPT !.ids = {}]}
  BY DEF SaveFails
<1>3. n \in 0 .. Len(proc[p].buf)
  BY <1>1
<1>4. end = "torn" => fault' \cap {"cut", "recovery"} # {}
  BY <1>2 DEF KeepBatch, Faulty, Faults
<1> QED
  BY <1>2, <1>3, <1>4, StopsLeaves

(* The three places an interrupt may come at.                              *)
InterruptReads(p) ==
    /\ proc[p].pc = "loop" /\ owner = p /\ proc[p].pos < N /\ UNCHANGED saves
    /\ LET i == proc[p].pos + 1
           b == proc[p].buf
       IN Moves(p, IF b # <<>> THEN "csv" ELSE "truncate", proc[p].script,
                IF Stream[i].ok THEN [proc[p].known EXCEPT ![Stream[i].source] = Tracked(i)]
                                ELSE proc[p].known,
                b, i, IF b # <<>> THEN "rest" ELSE "state")
InterruptSaves(p) ==
    /\ proc[p].pc \in Saves \cup {"csv", "truncate", "write"} /\ proc[p].ending = "no"
    /\ \E end \in {"line", "torn"} : Leaves(p, end)
    /\ Moves(p, IF proc[p].buf # <<>> THEN "csv" ELSE "truncate", proc[p].script,
             proc[p].known, proc[p].buf, proc[p].pos,
             IF proc[p].buf # <<>> THEN "rest" ELSE "state")

LEMMA InterruptMoves ==
  ASSUME Types, NEW p \in Procs, Interrupt(p)
  PROVE  InterruptReads(p) \/ InterruptSaves(p)
<1>0. "interrupt" \in fault'
  BY DEF Interrupt, Faulty, Faults
<1>1. CASE /\ proc[p].pc = "loop" /\ owner = p /\ proc[p].pos < Len(Stream)
           /\ LET i == proc[p].pos + 1
                  k == IF Stream[i].ok
                       THEN [proc[p].known EXCEPT ![Stream[i].source] = Tracked(i)]
                       ELSE proc[p].known
              IN proc' = [proc EXCEPT ![p] = Ending(p, [@ EXCEPT !.pos = i, !.known = k])]
           /\ UNCHANGED saves
  <2> DEFINE r == proc[p]
             i == r.pos + 1
             k == IF Stream[i].ok THEN [r.known EXCEPT ![Stream[i].source] = Tracked(i)]
                                  ELSE r.known
             m1 == [r EXCEPT !.pos = i]
             m2 == [m1 EXCEPT !.known = k]
  <2>1. r = St(r.pc, r.script, r.known, r.buf, r.pos, r.ending)
    BY ProcIs
  <2>2. proc' = [proc EXCEPT ![p] = Ending(p, m2)]
    BY <1>1
  <2> HIDE DEF i, k
  <2>3. m1 = St(r.pc, r.script, r.known, r.buf, i, r.ending)
    BY <2>1 DEF St
  <2> HIDE DEF m1
  <2>4. m2 = St(r.pc, r.script, k, r.buf, i, r.ending)
    BY <2>3 DEF St
  <2> HIDE DEF m2
  <2>5. Ending(p, m2) = St(IF r.buf # <<>> THEN "csv" ELSE "truncate", r.script, k, r.buf, i,
                           IF r.buf # <<>> THEN "rest" ELSE "state")
    BY <2>4, EndingIs
  <2> QED
    BY <1>1, <2>2, <2>5 DEF InterruptReads, Moves, i, k, N
<1>2. CASE /\ proc[p].ending = "no"
           /\ \E n \in 0 .. Len(proc[p].buf) : \E end \in {"line", "torn"} : Stops(p, n, end)
           /\ proc' = [proc EXCEPT ![p] = Ending(p, @)]
  <2>1. \E end \in {"line", "torn"} : Leaves(p, end)
    BY <1>0, <1>2, StopsLeaves
  <2>2. proc[p].pc \in Saves \cup {"csv"}
    BY <1>2 DEF Stops, Saves
  <2> QED
    BY <1>2, <2>1, <2>2, EndingMoves DEF InterruptSaves
<1>3. CASE /\ proc[p].pc \in {"truncate", "write"} /\ proc[p].ending = "no"
           /\ proc' = [proc EXCEPT ![p] = Ending(p, @)]
           /\ UNCHANGED saves
  <2>1. \E end \in {"line", "torn"} : Leaves(p, end)
    BY <1>3 DEF Leaves
  <2> QED
    BY <1>3, <2>1, EndingMoves DEF InterruptSaves
<1> QED
  BY <1>1, <1>2, <1>3 DEF Interrupt

KillsPython(p) ==
    /\ "kill" \in fault' /\ proc[p].pc \in Consuming /\ proc[p].script
    /\ \E end \in {"line", "torn"} : Leaves(p, end)
    /\ Moves(p, "exit", TRUE, Unknown, <<>>, 0, "no")
KillsScript(p) ==
    /\ "orphan" \in fault' /\ proc[p].pc \in Consuming /\ proc[p].script /\ UNCHANGED saves
    /\ Moves(p, proc[p].pc, FALSE, proc[p].known, proc[p].buf, proc[p].pos, proc[p].ending)
KillsBoth(p) ==
    /\ "kill" \in fault' /\ proc[p].pc # "off"
    /\ \E end \in {"line", "torn"} : Leaves(p, end)
    /\ Moves(p, "off", FALSE, Unknown, <<>>, 0, "no")

LEMMA KillMoves ==
  ASSUME Types, NEW p \in Procs, Kill(p)
  PROVE  KillsPython(p) \/ KillsScript(p) \/ KillsBoth(p)
<1>1. CASE /\ Faulty("orphan")
           /\ proc[p].pc \in Consuming /\ proc[p].script
           /\ proc' = [proc EXCEPT ![p].script = FALSE]
           /\ UNCHANGED saves
  <2> DEFINE r == proc[p]
  <2>1. PICK no : no = FALSE
    OBVIOUS
  <2>2. r = St(r.pc, r.script, r.known, r.buf, r.pos, r.ending)
    BY ProcIs
  <2>3. [r EXCEPT !.script = no] = St(r.pc, no, r.known, r.buf, r.pos, r.ending)
    BY <2>2 DEF St
  <2> QED
    BY <1>1, <2>1, <2>3 DEF KillsScript, Moves, Faulty, Faults
<1>2. ASSUME Faulty("kill"),
             IF proc[p].pc \in {"fill", "append"}
             THEN \E n \in 0 .. Len(proc[p].buf) : \E end \in {"line", "torn"} : Stops(p, n, end)
             ELSE UNCHANGED saves
      PROVE  "kill" \in fault' /\ \E end \in {"line", "torn"} : Leaves(p, end)
  <2>1. "kill" \in fault'
    BY <1>2 DEF Faulty, Faults
  <2>2. CASE proc[p].pc \in {"fill", "append"}
    BY <1>2, <2>1, <2>2, StopsLeaves
  <2>3. CASE proc[p].pc \notin {"fill", "append"}
    BY <1>2, <2>1, <2>3 DEF Leaves
  <2> QED
    BY <2>1, <2>2, <2>3
<1>3. CASE ~ (/\ Faulty("orphan")
              /\ proc[p].pc \in Consuming /\ proc[p].script
              /\ proc' = [proc EXCEPT ![p].script = FALSE]
              /\ UNCHANGED saves)
  <2>0. /\ Faulty("kill")
        /\ IF proc[p].pc \in {"fill", "append"}
           THEN \E n \in 0 .. Len(proc[p].buf) : \E end \in {"line", "torn"} : Stops(p, n, end)
           ELSE UNCHANGED saves
    BY <1>3, Zenon DEF Kill
  <2>1. "kill" \in fault' /\ \E end \in {"line", "torn"} : Leaves(p, end)
    BY <1>2, <2>0
  <2>2. \/ /\ proc[p].pc \in Consuming /\ proc[p].script
           /\ proc' = [proc EXCEPT ![p] = [Off EXCEPT !.pc = "exit", !.script = TRUE]]
        \/ proc[p].pc # "off" /\ proc' = [proc EXCEPT ![p] = Off]
    BY <1>3 DEF Kill
  <2> QED
    BY <2>1, <2>2, ExitIs, OffIs DEF KillsPython, KillsBoth, Moves
<1> QED
  BY <1>1, <1>3
-----------------------------------------------------------------------------
(* Types is an invariant.                                                  *)
LEMMA ReasonTyped ==
  ASSUME NEW prev, NEW now
  PROVE  Reason(prev, now) \in Flags
  BY DEF Reason, Flags

LEMMA KnownTyped ==
  ASSUME NEW k \in KnownSet, NEW i \in 1 .. N
  PROVE  /\ Stream[i].source \in Sources
         /\ [k EXCEPT ![Stream[i].source] = Tracked(i)] \in KnownSet
<1>1. i \in DOMAIN Stream
  BY StreamFacts
<1> QED
  BY <1>1 DEF KnownSet, Sources

LEMMA PrefixTyped ==
  ASSUME NEW t \in Seq(Row), NEW n \in 0 .. Len(t)
  PROVE  /\ SubSeq(t, 1, n) \in Seq(Row) /\ Len(SubSeq(t, 1, n)) = n
         /\ \A i \in 1 .. n : i \in DOMAIN t /\ SubSeq(t, 1, n)[i] = t[i]
<1>1. Len(t) \in Nat /\ DOMAIN t = 1 .. Len(t) /\ \A i \in 1 .. Len(t) : t[i] \in Row
  BY LenProperties
<1> QED
  BY <1>1, SubSeqProperties

(* Without leaves lines of the sequence, each of them once.                *)
LEMMA WithoutIs ==
  ASSUME NEW s \in Seq(Row), NEW i \in 1 .. Len(s) + 1, NEW j \in i .. Len(s) + 1
  PROVE  /\ Without(s, i, j) \in Seq(Row)
         /\ DOMAIN Without(s, i, j) = 1 .. Len(s) - (j - i)
         /\ \A k \in DOMAIN Without(s, i, j) :
              LET f == IF k < i THEN k ELSE k + (j - i)
              IN f \in DOMAIN s /\ Without(s, i, j)[k] = s[f]
         /\ j = i => Without(s, i, j) = s
<1> DEFINE n == Len(s)
           a == SubSeq(s, 1, i - 1)
           b == SubSeq(s, j, n)
<1>1. n \in Nat /\ DOMAIN s = 1 .. n /\ (\A k \in 1 .. n : s[k] \in Row)
  BY LenProperties
<1>2. i \in Int /\ j \in Int /\ i - 1 \in 0 .. n /\ 1 <= i /\ i <= j /\ j <= n + 1
  BY <1>1
<1>3. a \in Seq(Row) /\ Len(a) = i - 1 /\ \A k \in 1 .. i - 1 : a[k] = s[k]
  BY <1>2, PrefixTyped
<1>4. b \in Seq(Row) /\ Len(b) = n - j + 1 /\ \A k \in 1 .. n - j + 1 : b[k] = s[j + k - 1]
  <2>1. \A k \in j .. n : s[k] \in Row
    BY <1>1, <1>2
  <2>2. /\ b \in Seq(Row) /\ Len(b) = IF j <= n THEN n - j + 1 ELSE 0
        /\ \A k \in 1 .. n - j + 1 : b[k] = s[j + k - 1]
    BY <1>1, <1>2, <2>1, SubSeqProperties
  <2> QED
    BY <1>1, <1>2, <2>2
<1> HIDE DEF a, b
<1> DEFINE u == a \o b
<1>5. /\ u \in Seq(Row) /\ Len(u) = Len(a) + Len(b)
      /\ \A k \in 1 .. Len(a) + Len(b) : u[k] = IF k <= Len(a) THEN a[k] ELSE b[k - Len(a)]
  BY <1>3, <1>4, ConcatProperties
<1>6. Without(s, i, j) = u
  BY DEF Without, a, b
<1> HIDE DEF u
<1>7. DOMAIN u = 1 .. n - (j - i)
  <2>1. DOMAIN u = 1 .. Len(u)
    BY <1>5, LenProperties
  <2>2. Len(u) = n - (j - i)
    BY <1>1, <1>2, <1>3, <1>4, <1>5
  <2> QED
    BY <2>1, <2>2
<1>8. ASSUME NEW k \in 1 .. n - (j - i)
      PROVE  LET f == IF k < i THEN k ELSE k + (j - i) IN f \in DOMAIN s /\ u[k] = s[f]
  <2>1. k \in 1 .. Len(a) + Len(b) /\ k \in Int
    BY <1>1, <1>2, <1>3, <1>4
  <2>2. CASE k < i
    <3>1. k \in 1 .. i - 1 /\ k <= Len(a) /\ k \in DOMAIN s
      BY <1>1, <1>2, <1>3, <2>1, <2>2
    <3> QED
      BY <1>3, <1>5, <2>1, <2>2, <3>1
  <2>3. CASE ~ (k < i)
    <3> DEFINE h == k - (i - 1)
    <3>1. h \in 1 .. n - j + 1 /\ ~ (k <= Len(a)) /\ k - Len(a) = h
      BY <1>1, <1>2, <1>3, <2>1, <2>3
    <3>2. u[k] = b[h]
      BY <1>5, <2>1, <3>1
    <3>3. b[h] = s[j + h - 1]
      BY <1>4, <3>1
    <3>4. j + h - 1 = k + (j - i) /\ k + (j - i) \in DOMAIN s
      BY <1>1, <1>2, <2>1, <2>3
    <3> HIDE DEF h
    <3> QED
      BY <2>3, <3>2, <3>3, <3>4
  <2> QED
    BY <2>2, <2>3
<1>9. ASSUME j = i PROVE u = s
  <2>1. 1 .. n - (j - i) = 1 .. n
    BY <1>1, <1>2, <1>9
  <2>2. \A k \in 1 .. n : u[k] = s[k]
    BY <1>1, <1>2, <1>8, <1>9, <2>1
  <2>3. Len(u) = Len(s)
    BY <1>1, <1>2, <1>3, <1>4, <1>5, <1>9
  <2> QED
    BY <1>1, <1>5, <2>2, <2>3, SeqEqual
<1> QED
  BY <1>5, <1>6, <1>7, <1>8, <1>9

(* The lines that a save brings to the file: its rows, behind those of     *)
(* others or before them, and what is left of them.                        *)
LEMMA ReachIs ==
  ASSUME Types, NEW p \in Procs, NEW rows \in Seq(Row), Reach(p, rows),
         proc[p].pc \in {"fill", "append"}
  PROVE  \E s \in Seq(Row) : \E i \in 1 .. Len(s) + 1 : \E j \in i .. Len(s) + 1 :
           /\ \/ s = rows \o csv /\ csv' = Without(s, i, j) /\ proc[p].pc = "fill"
              \/ s = rows /\ csv' = csv \o Without(s, i, j) /\ proc[p].pc = "append"
           /\ csv' \in Seq(Row)
           /\ p \notin mixed => \/ j = i
                                \/ proc[p].pc = "append" /\ csvEnd = "torn"
<1> DEFINE s == IF proc[p].pc = "fill" THEN rows \o csv ELSE rows
<1>1. csv \in Seq(Row) /\ rows \o csv \in Seq(Row)
  BY ConcatProperties DEF Types
<1>2. s \in Seq(Row)
  BY <1>1
<1>3a. PICK i \in 1 .. Len(s) + 1 : \E j \in i .. Len(s) + 1 :
         /\ p \notin mixed =>
              i = 1 /\ j = IF proc[p].pc = "append" /\ csvEnd = "torn" /\ rows # <<>> THEN 2 ELSE 1
         /\ csv' = IF proc[p].pc = "fill" THEN Without(s, i, j) ELSE csv \o Without(s, i, j)
  BY DEF Reach
<1>3. PICK j \in i .. Len(s) + 1 :
         /\ p \notin mixed =>
              i = 1 /\ j = IF proc[p].pc = "append" /\ csvEnd = "torn" /\ rows # <<>> THEN 2 ELSE 1
         /\ csv' = IF proc[p].pc = "fill" THEN Without(s, i, j) ELSE csv \o Without(s, i, j)
  BY <1>3a
<1>4. csv' \in Seq(Row)
  <2>1. Without(s, i, j) \in Seq(Row)
    BY <1>2, <1>3, WithoutIs
  <2> QED
    BY <1>1, <1>3, <2>1, ConcatProperties
<1>5. /\ \/ s = rows \o csv /\ csv' = Without(s, i, j) /\ proc[p].pc = "fill"
         \/ s = rows /\ csv' = csv \o Without(s, i, j) /\ proc[p].pc = "append"
      /\ p \notin mixed => \/ j = i
                           \/ proc[p].pc = "append" /\ csvEnd = "torn"
  BY <1>3
<1> HIDE DEF s
<1> QED
  BY <1>2, <1>3, <1>4, <1>5

LEMMA LeavesTyped ==
  ASSUME Types, NEW p \in Procs, NEW end \in {"line", "torn"}, Leaves(p, end)
  PROVE  csv' \in Seq(Row) /\ csvEnd' \in {"none", "line", "torn"} /\ mixed' \subseteq Procs
<1>1. CASE UNCHANGED saves
  BY <1>1 DEF saves, Types
<1>2. CASE ~ UNCHANGED saves
  <2>1. PICK n \in 0 .. Len(proc[p].buf) : Reach(p, SubSeq(proc[p].buf, 1, n))
    BY <1>2 DEF Leaves
  <2>2. SubSeq(proc[p].buf, 1, n) \in Seq(Row)
    BY ProcIs, PrefixTyped
  <2> QED
    BY <1>2, <2>1, <2>2, ReachIs DEF Leaves, Types
<1> QED
  BY <1>1, <1>2

LEMMA BatchIs ==
  ASSUME Types, NEW p \in Procs
  PROVE  Batch(p) = {proc[p].buf[j][1] : j \in DOMAIN proc[p].buf} /\ Batch(p) \subseteq 1 .. N
<1>1. proc[p].buf \in Seq(Row)
  BY ProcIs
<1>2. Batch(p) = {proc[p].buf[j][1] : j \in DOMAIN proc[p].buf}
  BY DEF Batch, Range
<1>3. \A row \in Range(proc[p].buf) : row \in Row
  BY <1>1, RangeOfSeq
<1> QED
  BY <1>2, <1>3 DEF Batch, Row

LEMMA TypesInit == Init => Types
<1> SUFFICES ASSUME Init PROVE Types
  OBVIOUS
<1>1. <<>> \in Seq(Row) /\ N \in Nat
  BY EmptySeq, StreamFacts
<1>2. Off \in ProcState
  <2>1. PICK no \in BOOLEAN : no = FALSE
    OBVIOUS
  <2>2. "off" \in Pcs /\ "no" \in Endings /\ 0 \in 0 .. N
    BY <1>1 DEF Pcs, Endings
  <2>3. St("off", no, Unknown, <<>>, 0, "no") \in ProcState
    BY <1>1, <2>2, StTyped, UnknownIsKnown
  <2> QED
    BY <2>1, <2>3, OffIs
<1>3. proc \in [Procs -> ProcState]
  BY <1>2 DEF Init
<1>4. stateFile \in [torn : BOOLEAN, known : KnownSet]
  BY UnknownIsKnown DEF Init
<1>5. 0 \in 0 .. N /\ 0 \in 0 .. MaxStarts
  BY <1>1, LegacyAssumption
<1> QED
  BY <1>1, <1>3, <1>4, <1>5 DEF Init, Types

LEMMA TypesConsume ==
  ASSUME Types, NEW p \in Procs, Consume(p)
  PROVE  proc' \in [Procs -> ProcState]
<1> DEFINE i == proc[p].pos + 1
           s == Stream[i].source
           row == <<i, Reason(proc[p].known[s], Tracked(i))>>
           buf == Append(proc[p].buf, row)
           k == [proc[p].known EXCEPT ![s] = Tracked(i)]
           c == IF Len(buf) >= BatchSize THEN "csv" ELSE "loop"
<1>1. i \in 1 .. N /\ i \in 0 .. N
  <2>1. proc[p].pos \in 0 .. N /\ N \in Nat /\ proc[p].pos < N
    BY ProcIs, StreamFacts DEF Consume, N
  <2> QED
    BY <2>1
<1>2. /\ proc[p].script \in BOOLEAN /\ proc[p].known \in KnownSet
      /\ proc[p].buf \in Seq(Row) /\ proc[p].ending \in Endings
  BY ProcIs
<1>3. CASE Stream[i].ok
  <2>1. Moves(p, c, proc[p].script, k, buf, i, proc[p].ending)
    BY <1>3, ConsumeMoves
  <2>2. row \in Row
    BY <1>1, ReasonTyped DEF Row
  <2>3. buf \in Seq(Row)
    <3> HIDE DEF row
    <3> QED
      BY <1>2, <2>2, AppendProperties
  <2>4. k \in KnownSet
    BY <1>1, <1>2, KnownTyped
  <2>5. c \in Pcs
    BY DEF Pcs
  <2> HIDE DEF buf, k, c, i
  <2> QED
    BY <1>1, <1>2, <2>1, <2>3, <2>4, <2>5, MovesTyped
<1>4. CASE ~ Stream[i].ok
  <2>1. Moves(p, "loop", proc[p].script, proc[p].known, proc[p].buf, i, proc[p].ending)
    BY <1>4, ConsumeMoves
  <2> HIDE DEF i
  <2> QED
    BY <1>1, <1>2, <2>1, MovesTyped DEF Pcs
<1> QED
  BY <1>3, <1>4

LEMMA TypesInterrupt ==
  ASSUME Types, NEW p \in Procs, Interrupt(p)
  PROVE  Types'
<1>1. UNCHANGED <<pidfile, stateFile, recent, failed, committed, owner, starts>>
  BY DEF Interrupt, batches, broker
<1>2. /\ proc[p].script \in BOOLEAN /\ proc[p].known \in KnownSet
      /\ proc[p].buf \in Seq(Row) /\ proc[p].ending \in Endings /\ proc[p].pos \in 0 .. N
  BY ProcIs
<1> DEFINE b == proc[p].buf
           c == IF b # <<>> THEN "csv" ELSE "truncate"
           e == IF b # <<>> THEN "rest" ELSE "state"
<1>3. c \in Pcs /\ e \in Endings
  BY DEF Pcs, Endings
<1>4. CASE InterruptReads(p)
  <2> DEFINE i == proc[p].pos + 1
             k == IF Stream[i].ok THEN [proc[p].known EXCEPT ![Stream[i].source] = Tracked(i)]
                                  ELSE proc[p].known
  <2>1. i \in 1 .. N /\ i \in 0 .. N
    <3>1. proc[p].pos \in 0 .. N /\ N \in Nat /\ proc[p].pos < N
      BY <1>2, <1>4, StreamFacts DEF InterruptReads
    <3> QED
      BY <3>1
  <2>2. k \in KnownSet
    BY <1>2, <2>1, KnownTyped
  <2>3. Moves(p, c, proc[p].script, k, b, i, e) /\ UNCHANGED <<csv, csvEnd, mixed>>
    BY <1>4 DEF InterruptReads, saves
  <2> HIDE DEF i, k, b, c, e
  <2>4. proc' \in [Procs -> ProcState]
    BY <1>2, <1>3, <2>1, <2>2, <2>3, MovesTyped DEF b
  <2> QED
    BY <1>1, <2>3, <2>4 DEF Types
<1>5. CASE InterruptSaves(p)
  <2>2. csv' \in Seq(Row) /\ csvEnd' \in {"none", "line", "torn"} /\ mixed' \subseteq Procs
    BY <1>5, LeavesTyped DEF InterruptSaves
  <2>3. Moves(p, c, proc[p].script, proc[p].known, b, proc[p].pos, e)
    BY <1>5 DEF InterruptSaves
  <2> HIDE DEF b, c, e
  <2>4. proc' \in [Procs -> ProcState]
    BY <1>2, <1>3, <2>3, MovesTyped DEF b
  <2> QED
    BY <1>1, <2>2, <2>4 DEF Types
<1> QED
  BY <1>4, <1>5, InterruptMoves

LEMMA TypesStep ==
  ASSUME Types, [Next]_vars
  PROVE  Types'
<1>1. CASE UNCHANGED vars
  BY <1>1 DEF vars, disk, saves, batches, broker, Types
<1> SUFFICES ASSUME NEW p \in Procs,
                    \/ CheckLock(p) \/ StartByHand(p) \/ Step(p)
                    \/ Assign(p) \/ AutoCommit(p) \/ Consume(p)
                    \/ Interrupt(p) \/ Kill(p)
             PROVE  Types'
  BY <1>1 DEF Next
<1>2. /\ proc[p].pc \in Pcs /\ proc[p].script \in BOOLEAN /\ proc[p].known \in KnownSet
      /\ proc[p].buf \in Seq(Row) /\ proc[p].pos \in 0 .. N /\ proc[p].ending \in Endings
  BY ProcIs
<1>3. N \in Nat /\ MaxStarts \in Nat
  BY StreamFacts, LegacyAssumption
<1>4. /\ {"off", "checked", "exit", "boot", "loop", "csv", "create", "fill", "append",
          "truncate", "write", "close"} \subseteq Pcs
      /\ {"no", "rest", "state"} \subseteq Endings
      /\ <<>> \in Seq(Row) /\ Unknown \in KnownSet /\ 0 \in 0 .. N
  BY <1>3, EmptySeq, UnknownIsKnown DEF Pcs, Endings
<1>5. CASE CheckLock(p)
  <2>1. proc' \in [Procs -> ProcState]
    BY <1>4, <1>5, CheckLockMoves, MovesTyped
  <2>2. starts' \in 0 .. MaxStarts
    BY <1>3, <1>5 DEF CheckLock, Types
  <2> QED
    BY <1>5, <2>1, <2>2 DEF CheckLock, Types, broker, saves, batches
<1>6. CASE StartByHand(p)
  <2>1. proc' \in [Procs -> ProcState]
    BY <1>4, <1>6, StartByHandMoves, MovesTyped
  <2>2. starts' \in 0 .. MaxStarts
    BY <1>3, <1>6 DEF StartByHand, Types
  <2> QED
    BY <1>6, <2>1, <2>2 DEF StartByHand, Types, broker, disk, saves, batches
<1>7. CASE WriteLock(p)
  <2>1. proc' \in [Procs -> ProcState]
    BY <1>2, <1>4, <1>7, WriteLockMoves, MovesTyped
  <2> QED
    BY <1>7, <2>1 DEF WriteLock, Types, broker, saves, batches
<1>8. CASE RemoveLock(p)
  <2>1. proc' \in [Procs -> ProcState]
    BY <1>4, <1>8, RemoveLockMoves, MovesTyped
  <2> QED
    BY <1>8, <2>1 DEF RemoveLock, Types, broker, saves, batches
<1>9. CASE LoadState(p)
  <2> DEFINE k == IF stateFile.torn THEN Unknown ELSE stateFile.known
  <2>1. k \in KnownSet
    BY <1>4 DEF Types
  <2>2. Moves(p, "loop", proc[p].script, k, proc[p].buf, proc[p].pos, proc[p].ending)
    BY <1>9, LoadStateMoves
  <2> HIDE DEF k
  <2>3. proc' \in [Procs -> ProcState]
    BY <1>2, <1>4, <2>1, <2>2, MovesTyped
  <2>4. recent' \in [by : Procs \cup {None}, ids : SUBSET (1 .. N)]
    BY <1>9 DEF LoadState, Types
  <2> QED
    BY <1>9, <2>3, <2>4 DEF LoadState, Types, broker, saves
<1>10. CASE LeaveLoop(p)
  <2>1. proc' \in [Procs -> ProcState]
    BY <1>2, <1>4, <1>10, EndingMoves, MovesTyped DEF LeaveLoop
  <2> QED
    BY <1>10, <2>1 DEF LeaveLoop, Types, broker, disk, saves, batches
<1>11. CASE WriteRows(p)
  <2>1. proc' \in [Procs -> ProcState]
    BY <1>2, <1>4, <1>11, WriteRowsMoves, MovesTyped
  <2>2. csv' \in Seq(Row)
    BY <1>2, <1>11, ReachIs DEF WriteRows
  <2> QED
    BY <1>11, <2>1, <2>2 DEF WriteRows, Types, broker, batches
<1>12. CASE SaveFails(p)
  <2>1. proc' \in [Procs -> ProcState]
    BY <1>2, <1>4, <1>12, SaveFailsMoves, MovesTyped
  <2>2. \E end \in {"line", "torn"} : Leaves(p, end)
    BY <1>12, SaveFailsLeaves
  <2>3. csv' \in Seq(Row) /\ csvEnd' \in {"none", "line", "torn"} /\ mixed' \subseteq Procs
    BY <2>2, LeavesTyped
  <2>4. recent' \in [by : Procs \cup {None}, ids : SUBSET (1 .. N)] /\ failed' \subseteq 1 .. N
    BY <1>12, BatchIs DEF SaveFails, KeepBatch, Types
  <2> QED
    BY <1>12, <2>1, <2>3, <2>4 DEF SaveFails, Types, broker, saves, batches
<1>22. CASE LookForCsv(p)
  <2>1. proc' \in [Procs -> ProcState]
    BY <1>2, <1>4, <1>22, LookForCsvMoves, MovesTyped
  <2> QED
    BY <1>22, <2>1 DEF LookForCsv, Types, broker, batches
<1>23. CASE CreateCsv(p)
  <2>1. proc' \in [Procs -> ProcState]
    BY <1>2, <1>4, <1>23, CreateCsvMoves, MovesTyped
  <2> QED
    BY <1>4, <1>23, <2>1 DEF CreateCsv, Types, broker, batches
<1>13. CASE Truncate(p)
  <2>1. proc' \in [Procs -> ProcState]
    BY <1>2, <1>4, <1>13, PcMoves, MovesTyped DEF Truncate
  <2>2. stateFile' \in [torn : BOOLEAN, known : KnownSet]
    BY <1>13 DEF Truncate, Types
  <2> QED
    BY <1>13, <2>1, <2>2 DEF Truncate, Types, broker, saves, batches
<1>14. CASE WriteState(p)
  <2>1. proc' \in [Procs -> ProcState]
    BY <1>2, <1>4, <1>14, WrittenMoves, MovesTyped DEF WriteState
  <2>2. stateFile' \in [torn : BOOLEAN, known : KnownSet]
    BY <1>2, <1>14 DEF WriteState
  <2> QED
    BY <1>14, <2>1, <2>2 DEF WriteState, Types, broker, saves, batches
<1>15. CASE WriteStateFails(p)
  <2>1. proc' \in [Procs -> ProcState]
    BY <1>2, <1>4, <1>15, WrittenMoves, MovesTyped DEF WriteStateFails
  <2> QED
    BY <1>15, <2>1 DEF WriteStateFails, Types, broker, disk, saves, batches
<1>16. CASE Close(p)
  <2>1. proc' \in [Procs -> ProcState]
    BY <1>2, <1>4, <1>16, CloseMoves, MovesTyped
  <2> QED
    BY <1>2, <1>16, <2>1 DEF Close, Types, broker, disk, saves, batches
<1>17. CASE Assign(p)
  <2>1. committed' \in 0 .. N
    BY <1>17 DEF Assign, Types, ProcState
  <2>2. proc' \in [Procs -> ProcState]
    BY <1>2, <1>17, <2>1, AssignMoves, MovesTyped
  <2> QED
    BY <1>17, <2>1, <2>2 DEF Assign, Types, disk, saves, batches
<1>18. CASE AutoCommit(p)
  BY <1>2, <1>18 DEF AutoCommit, Types, disk, saves, batches
<1>19. CASE Consume(p)
  BY <1>19, TypesConsume DEF Consume, Types, disk, broker, saves, batches
<1>20. CASE Interrupt(p)
  BY <1>20, TypesInterrupt
<1>21. CASE Kill(p)
  <2>1. proc' \in [Procs -> ProcState]
    BY <1>2, <1>4, <1>21, KillMoves, MovesTyped DEF KillsPython, KillsScript, KillsBoth
  <2>2. csv' \in Seq(Row) /\ csvEnd' \in {"none", "line", "torn"} /\ mixed' \subseteq Procs
    <3>1. UNCHANGED saves \/ \E end \in {"line", "torn"} : Leaves(p, end)
      BY <1>21, KillMoves DEF KillsPython, KillsScript, KillsBoth
    <3> QED
      BY <3>1, LeavesTyped DEF saves, Types
  <2> QED
    BY <1>21, <2>1, <2>2 DEF Kill, Types, batches, broker
<1> QED
  BY <1>5, <1>6, <1>7, <1>8, <1>9, <1>10, <1>11, <1>12, <1>13, <1>14, <1>15, <1>16, <1>17,
     <1>18, <1>19, <1>20, <1>21, <1>22, <1>23 DEF Step
LEMMA TypesMean == Types => TypeOK
<1> SUFFICES ASSUME Types PROVE TypeOK
  OBVIOUS
<1>1. \A p \in Procs :
        /\ proc[p].pc \in Consuming \cup {"off", "checked", "exit"}
        /\ proc[p].pos \in 0 .. Len(Stream)
        /\ proc[p].ending \in {"no", "rest", "state"}
  BY ProcIs DEF Pcs, Endings, Consuming, Saves, N
<1> QED
  BY <1>1 DEF Types, TypeOK, N

LEMMA ConsumerSteps == [StoreNext]_storeVars => [Next]_vars
  BY DEF StoreNext, storeVars

-----------------------------------------------------------------------------
(* The lock.  Unless two scripts checked it at the same time or a script   *)
(* was killed without its consumer, the PID file names the one script that *)
(* has written it and is still alive, and there is no other.               *)
LockInv ==
    /\ \A p \in Procs : proc[p].pc \in {"checked", "exit"} => proc[p].script
    /\ fault \cap {"race", "orphan"} = {} =>
        /\ \A p, q \in Procs : ShellAlive(p) /\ ShellAlive(q) => p = q
        /\ \A p \in Procs : ShellAlive(p) /\ proc[p].pc # "checked" => pidfile = p

LEMMA LockInvInit == Init => LockInv
  BY DEF Init, LockInv, ShellAlive, Off

LEMMA LockInvStep ==
  ASSUME Types, LockInv, [Next]_vars
  PROVE  LockInv'
<1>1. CASE UNCHANGED vars
  BY <1>1 DEF vars, disk, LockInv, ShellAlive
<1> SUFFICES ASSUME NEW p \in Procs,
                    \/ CheckLock(p) \/ StartByHand(p) \/ Step(p)
                    \/ Assign(p) \/ AutoCommit(p) \/ Consume(p)
                    \/ Interrupt(p) \/ Kill(p)
             PROVE  LockInv'
  BY <1>1 DEF Next
<1>2. CASE CheckLock(p)
  <2>1. Fields(p, "checked", TRUE, Unknown, <<>>, 0, "no")
    BY <1>2, CheckLockMoves, MovesFields
  <2>2. fault' \cap {"race", "orphan"} = {} =>
          \A q \in Procs : ~ ShellAlive(q)
    <3> SUFFICES ASSUME fault' \cap {"race", "orphan"} = {}, NEW q \in Procs, ShellAlive(q)
                 PROVE  FALSE
      OBVIOUS
    <3>1. \A r \in Procs : proc[r].pc # "checked"
      BY <1>2 DEF CheckLock, Faulty, Faults
    <3>2. fault' = fault
      BY <1>2, <3>1 DEF CheckLock
    <3>3. pidfile = q
      BY <3>1, <3>2 DEF LockInv
    <3> QED
      BY <1>2, <3>3, LegacyAssumption DEF CheckLock
  <2> QED
    BY <1>2, <2>1, <2>2 DEF LockInv, ShellAlive, Fields
<1>3. CASE StartByHand(p)
  <2>1. Fields(p, "boot", FALSE, Unknown, <<>>, 0, "no")
    BY <1>3, StartByHandMoves, MovesFields
  <2> QED
    BY <1>3, <2>1 DEF StartByHand, LockInv, ShellAlive, Fields, disk
<1>4. CASE WriteLock(p)
  <2>1. Fields(p, "boot", proc[p].script, proc[p].known, proc[p].buf, proc[p].pos,
               proc[p].ending)
    BY <1>4, WriteLockMoves, MovesFields
  <2> QED
    BY <1>4, <2>1 DEF WriteLock, LockInv, ShellAlive, Fields
<1>5. CASE RemoveLock(p)
  <2>1. Fields(p, "off", FALSE, Unknown, <<>>, 0, "no")
    BY <1>5, RemoveLockMoves, MovesFields
  <2> QED
    BY <1>5, <2>1 DEF RemoveLock, LockInv, ShellAlive, Fields
<1>6. CASE Close(p)
  <2>1. Fields(p, IF proc[p].script THEN "exit" ELSE "off", proc[p].script, Unknown, <<>>, 0, "no")
    BY <1>6, CloseMoves, MovesFields
  <2> QED
    BY <1>6, <2>1 DEF Close, LockInv, ShellAlive, Fields, disk
<1>7. CASE Kill(p)
  <2>0. pidfile' = pidfile /\ fault \subseteq fault'
    BY <1>7 DEF Kill, Faulty, Faults
  <2>1. CASE KillsScript(p)
    <3>1. Fields(p, proc[p].pc, FALSE, proc[p].known, proc[p].buf, proc[p].pos, proc[p].ending)
      BY <2>1, MovesFields DEF KillsScript
    <3> QED
      BY <2>0, <2>1, <3>1 DEF KillsScript, Consuming, LockInv, ShellAlive, Fields, Saves
  <2>2. CASE KillsPython(p)
    <3>1. Fields(p, "exit", TRUE, Unknown, <<>>, 0, "no")
      BY <2>2, MovesFields DEF KillsPython
    <3> QED
      BY <2>0, <2>2, <3>1 DEF KillsPython, Consuming, LockInv, ShellAlive, Fields, Saves
  <2>3. CASE KillsBoth(p)
    <3>1. Fields(p, "off", FALSE, Unknown, <<>>, 0, "no")
      BY <2>3, MovesFields DEF KillsBoth
    <3> QED
      BY <2>0, <2>3, <3>1 DEF KillsBoth, LockInv, ShellAlive, Fields
  <2> QED
    BY <1>7, <2>1, <2>2, <2>3, KillMoves
<1>8. ASSUME proc[p].pc \in Consuming \ {"close"},
             NEW c \in Consuming,
             NEW k, NEW b, NEW o, NEW e, Moves(p, c, proc[p].script, k, b, o, e),
             UNCHANGED pidfile, fault \subseteq fault'
      PROVE  LockInv'
  <2>1. Fields(p, c, proc[p].script, k, b, o, e)
    BY <1>8, MovesFields
  <2> QED
    BY <1>8, <2>1 DEF LockInv, ShellAlive, Fields, Consuming, Saves
<1>9. CASE LoadState(p)
  BY <1>8, <1>9, LoadStateMoves DEF LoadState, Faulty, Faults, Consuming
<1>10. CASE LeaveLoop(p)
  BY <1>8, <1>10, EndingMoves DEF LeaveLoop, disk, Consuming
<1>11. CASE WriteRows(p)
  BY <1>8, <1>11, WriteRowsMoves DEF WriteRows, Consuming, Saves
<1>12. CASE SaveFails(p)
  <2>1. UNCHANGED pidfile /\ fault \subseteq fault'
    BY <1>12 DEF SaveFails, KeepBatch, Faulty, Faults
  <2>2. proc[p].pc \in Consuming \ {"close"}
    BY <1>12 DEF SaveFails, Stops, Consuming, Saves
  <2> QED
    BY <1>8, <1>12, <2>1, <2>2, SaveFailsMoves DEF Consuming
<1>20. CASE LookForCsv(p)
  <2>1. UNCHANGED pidfile /\ fault \subseteq fault' /\ proc[p].pc \in Consuming \ {"close"}
    BY <1>20 DEF LookForCsv, Faulty, Faults, Consuming
  <2> QED
    BY <1>8, <1>20, <2>1, LookForCsvMoves DEF Consuming, Saves
<1>21. CASE CreateCsv(p)
  BY <1>8, <1>21, CreateCsvMoves DEF CreateCsv, Consuming, Saves
<1>13. CASE Truncate(p)
  BY <1>8, <1>13, PcMoves DEF Truncate, Consuming
<1>14. CASE WriteState(p)
  BY <1>8, <1>14, WrittenMoves DEF WriteState, Consuming
<1>15. CASE WriteStateFails(p)
  BY <1>8, <1>15, WrittenMoves DEF WriteStateFails, Faulty, Faults, disk, Consuming
<1>16. CASE Assign(p)
  BY <1>8, <1>16, AssignMoves DEF Assign, disk, Consuming
<1>17. CASE AutoCommit(p)
  BY <1>17 DEF AutoCommit, LockInv, ShellAlive, disk
<1>18. CASE Consume(p)
  <2> DEFINE i == proc[p].pos + 1
             s == Stream[i].source
             row == <<i, Reason(proc[p].known[s], Tracked(i))>>
  <2>1. \/ Moves(p, IF Len(Append(proc[p].buf, row)) >= BatchSize THEN "csv" ELSE "loop",
                 proc[p].script, [proc[p].known EXCEPT ![s] = Tracked(i)],
                 Append(proc[p].buf, row), i, proc[p].ending)
        \/ Moves(p, "loop", proc[p].script, proc[p].known, proc[p].buf, i, proc[p].ending)
    BY <1>18, ConsumeMoves
  <2> HIDE DEF i, s, row
  <2> QED
    BY <1>8, <1>18, <2>1 DEF Consume, disk, Consuming
<1>19. CASE Interrupt(p)
  BY <1>8, <1>19, InterruptMoves DEF Interrupt, InterruptReads, InterruptSaves, Faulty, Faults,
                                           Consuming, Saves
<1> QED
  BY <1>2, <1>3, <1>4, <1>5, <1>6, <1>7, <1>9, <1>10, <1>11, <1>12, <1>13, <1>14, <1>15,
     <1>16, <1>17, <1>18, <1>19, <1>20, <1>21 DEF Step
LEMMA LockInvMeans == LockInv => LockExcludes
  BY DEF LockInv, LockExcludes, ShellAlive, Consuming, Saves

-----------------------------------------------------------------------------
(* The CSV file and who is at work on it.  Saves that have not met another *)
(* are alone, and one that is about to create the file finds none; a line  *)
(* is torn for good only by a failure.                                     *)
SavesInv ==
    /\ csvEnd = "none" => csv = <<>>
    /\ "clash" \notin fault =>
        /\ mixed = {}
        /\ \A p, q \in Procs : proc[p].pc \in Saves /\ proc[q].pc \in Saves => p = q
        /\ \A p \in Procs : proc[p].pc = "create" => csvEnd = "none"
        /\ csvEnd = "torn" /\ fault \cap {"interrupt", "kill", "cut", "recovery"} = {} =>
              \E p \in Procs : proc[p].pc = "fill"

LEMMA SavesInit == Init => SavesInv
  BY DEF Init, SavesInv, Off, Saves

LEMMA SavesStay ==
  ASSUME Types, SavesInv, fault \subseteq fault', NEW p \in Procs,
         NEW c, c \notin Saves, NEW s, NEW k, NEW b, NEW o, NEW e, Moves(p, c, s, k, b, o, e),
         \/ proc[p].pc \notin {"fill", "append"} /\ UNCHANGED saves
         \/ /\ proc[p].pc \in {"fill", "append"} /\ mixed' = mixed /\ csvEnd' \in {"line", "torn"}
            /\ csvEnd' = "torn" => fault' \cap {"interrupt", "kill", "cut", "recovery"} # {}
  PROVE  SavesInv'
<1>1. proc'[p].pc \notin Saves /\ \A q \in Procs \ {p} : proc'[q] = proc[q]
  BY MovesFields DEF Fields
<1>2. proc'[p].pc \notin {"create", "fill"}
  BY <1>1 DEF Saves
<1>3. CASE proc[p].pc \notin {"fill", "append"} /\ UNCHANGED saves
  BY <1>1, <1>2, <1>3 DEF SavesInv, saves
<1>4. CASE /\ proc[p].pc \in {"fill", "append"} /\ mixed' = mixed /\ csvEnd' \in {"line", "torn"}
           /\ csvEnd' = "torn" => fault' \cap {"interrupt", "kill", "cut", "recovery"} # {}
  <2>1. SUFFICES ASSUME "clash" \notin fault'
                 PROVE  /\ mixed' = {}
                        /\ \A q, r \in Procs :
                              proc'[q].pc \in Saves /\ proc'[r].pc \in Saves => q = r
                        /\ \A q \in Procs : proc'[q].pc # "create"
    BY <1>4 DEF SavesInv
  <2>2. proc[p].pc \in Saves
    BY <1>4 DEF Saves
  <2>3. \A q \in Procs : proc'[q].pc \notin Saves
    BY <1>1, <2>1, <2>2 DEF SavesInv
  <2> QED
    BY <1>4, <2>1, <2>3 DEF SavesInv, Saves
<1> QED
  BY <1>3, <1>4

LEMMA FaultGrows ==
  ASSUME [Next]_vars
  PROVE  fault \subseteq fault'
  BY DEF Next, vars, Step, CheckLock, WriteLock, StartByHand, RemoveLock, LoadState, Assign,
         AutoCommit, Consume, LeaveLoop, LookForCsv, CreateCsv, WriteRows, SaveFails, KeepBatch,
         Truncate, WriteState, WriteStateFails, Close, Interrupt, Kill, Faulty, Faults

LEMMA SavesStep ==
  ASSUME Types, SavesInv, [Next]_vars
  PROVE  SavesInv'
<1>1. CASE UNCHANGED vars
  BY <1>1 DEF vars, disk, saves, SavesInv
<1> SUFFICES ASSUME NEW p \in Procs,
                    \/ CheckLock(p) \/ StartByHand(p) \/ Step(p)
                    \/ Assign(p) \/ AutoCommit(p) \/ Consume(p)
                    \/ Interrupt(p) \/ Kill(p)
             PROVE  SavesInv'
  BY <1>1 DEF Next
<1>2. fault \subseteq fault'
  BY FaultGrows
<1>3. ASSUME NEW c, c \notin Saves, NEW s, NEW k, NEW b, NEW o, NEW e,
             Moves(p, c, s, k, b, o, e), proc[p].pc \notin {"fill", "append"}, UNCHANGED saves
      PROVE  SavesInv'
  BY <1>2, <1>3, SavesStay
<1>4. ASSUME NEW c, c \notin Saves, NEW s, NEW k, NEW b, NEW o, NEW e,
             Moves(p, c, s, k, b, o, e), \E end \in {"line", "torn"} : Leaves(p, end)
      PROVE  SavesInv'
  <2>1. \/ proc[p].pc \notin {"fill", "append"} /\ UNCHANGED saves
        \/ /\ proc[p].pc \in {"fill", "append"} /\ mixed' = mixed /\ csvEnd' \in {"line", "torn"}
           /\ csvEnd' = "torn" => fault' \cap {"interrupt", "kill", "cut", "recovery"} # {}
    BY <1>4 DEF Leaves
  <2> QED
    BY <1>2, <1>4, <2>1, SavesStay
<1>5. CASE CheckLock(p)
  BY <1>3, <1>5, CheckLockMoves DEF CheckLock, Saves
<1>6. CASE StartByHand(p)
  BY <1>3, <1>6, StartByHandMoves DEF StartByHand, disk, Saves
<1>7. CASE WriteLock(p)
  BY <1>3, <1>7, WriteLockMoves DEF WriteLock, Saves
<1>8. CASE RemoveLock(p)
  BY <1>3, <1>8, RemoveLockMoves DEF RemoveLock, Saves
<1>9. CASE LoadState(p)
  BY <1>3, <1>9, LoadStateMoves DEF LoadState, Saves
<1>10. CASE LeaveLoop(p)
  BY <1>3, <1>10, EndingMoves DEF LeaveLoop, disk, Saves
<1>11. CASE Truncate(p)
  BY <1>3, <1>11, PcMoves DEF Truncate, Saves
<1>12. CASE WriteState(p)
  BY <1>3, <1>12, WrittenMoves DEF WriteState, Saves
<1>13. CASE WriteStateFails(p)
  BY <1>3, <1>13, WrittenMoves DEF WriteStateFails, disk, Saves
<1>14. CASE Close(p)
  BY <1>3, <1>14, CloseMoves DEF Close, disk, Saves
<1>15. CASE Assign(p)
  <2>1. proc[p].pc = "loop" /\ UNCHANGED saves
    BY <1>15 DEF Assign, disk
  <2> QED
    BY <1>3, <1>15, <2>1, AssignMoves DEF Saves
<1>16. CASE AutoCommit(p)
  BY <1>16 DEF AutoCommit, disk, saves, SavesInv
<1>17. CASE Consume(p)
  <2> DEFINE i == proc[p].pos + 1
             o == Stream[i].source
             row == <<i, Reason(proc[p].known[o], Tracked(i))>>
  <2>1. \/ Moves(p, IF Len(Append(proc[p].buf, row)) >= BatchSize THEN "csv" ELSE "loop",
                 proc[p].script, [proc[p].known EXCEPT ![o] = Tracked(i)],
                 Append(proc[p].buf, row), i, proc[p].ending)
        \/ Moves(p, "loop", proc[p].script, proc[p].known, proc[p].buf, i, proc[p].ending)
    BY <1>17, ConsumeMoves
  <2> HIDE DEF i, o, row
  <2> QED
    BY <1>3, <1>17, <2>1 DEF Consume, disk, Saves
<1>18. CASE SaveFails(p)
  BY <1>4, <1>18, SaveFailsLeaves, SaveFailsMoves DEF Saves
<1>19. CASE Interrupt(p)
  <2>1. CASE InterruptReads(p)
    BY <1>3, <2>1 DEF InterruptReads, Saves
  <2>2. CASE InterruptSaves(p)
    BY <1>4, <2>2 DEF InterruptSaves, Saves
  <2> QED
    BY <1>19, <2>1, <2>2, InterruptMoves
<1>20. CASE Kill(p)
  <2>1. CASE KillsPython(p)
    BY <1>4, <2>1 DEF KillsPython, Saves
  <2>2. CASE KillsBoth(p)
    BY <1>4, <2>2 DEF KillsBoth, Saves
  <2>3. CASE KillsScript(p)
    <3>0. Fields(p, proc[p].pc, FALSE, proc[p].known, proc[p].buf, proc[p].pos, proc[p].ending)
      BY <2>3, MovesFields DEF KillsScript
    <3>1. \A q \in Procs : proc'[q].pc = proc[q].pc
      BY <3>0 DEF Fields
    <3> QED
      BY <1>2, <2>3, <3>1 DEF KillsScript, SavesInv, saves
  <2> QED
    BY <1>20, <2>1, <2>2, <2>3, KillMoves
<1>21. CASE LookForCsv(p)
  <2> DEFINE c == IF csvEnd = "none" THEN "create" ELSE "append"
             others == {q \in Procs \ {p} : proc[q].pc \in Saves}
  <2>1. Fields(p, c, proc[p].script, proc[p].known, proc[p].buf, proc[p].pos, proc[p].ending)
    BY <1>21, LookForCsvMoves, MovesFields
  <2>2. /\ csv' = csv /\ csvEnd' = csvEnd /\ proc[p].pc = "csv"
        /\ others # {} => "clash" \in fault'
        /\ others = {} => mixed' = mixed \ {p}
    BY <1>21 DEF LookForCsv, Faulty, Faults
  <2>3. SUFFICES ASSUME "clash" \notin fault'
                 PROVE  SavesInv'
    BY <2>2 DEF SavesInv
  <2>4. mixed' = {} /\ \A q \in Procs \ {p} : proc'[q].pc = proc[q].pc /\ proc[q].pc \notin Saves
    BY <1>2, <2>1, <2>2, <2>3 DEF SavesInv, Fields
  <2>5. proc'[p].pc = "create" => csvEnd = "none"
    BY <2>1 DEF Fields
  <2>6. \A q \in Procs : proc[q].pc = "fill" => proc'[q].pc = "fill"
    BY <2>2, <2>4
  <2> HIDE DEF c, others
  <2> QED
    BY <1>2, <2>2, <2>3, <2>4, <2>5, <2>6 DEF SavesInv, Saves
<1>22. CASE CreateCsv(p)
  <2>1. /\ proc'[p].pc = "fill" /\ \A q \in Procs \ {p} : proc'[q] = proc[q]
        /\ proc[p].pc = "create" /\ csv' = <<>> /\ csvEnd' = "torn" /\ mixed' = mixed
    <3>1. Fields(p, "fill", proc[p].script, proc[p].known, proc[p].buf, proc[p].pos, proc[p].ending)
      BY <1>22, CreateCsvMoves, MovesFields
    <3> QED
      BY <1>22, <3>1 DEF CreateCsv, Fields
  <2> QED
    BY <1>2, <2>1 DEF SavesInv, Saves
<1>23. CASE WriteRows(p)
  <2>1. /\ proc[p].pc \in {"fill", "append"} /\ mixed' = mixed /\ csvEnd' = "line"
        /\ Moves(p, "truncate", proc[p].script, proc[p].known, <<>>, proc[p].pos, proc[p].ending)
    BY <1>23, WriteRowsMoves DEF WriteRows
  <2>2. "truncate" \notin Saves
    BY DEF Saves
  <2> QED
    BY <1>2, <2>1, <2>2, SavesStay
<1> QED
  BY <1>5, <1>6, <1>7, <1>8, <1>9, <1>10, <1>11, <1>12, <1>13, <1>14, <1>15, <1>16, <1>17,
     <1>18, <1>19, <1>20, <1>21, <1>22, <1>23 DEF Step

-----------------------------------------------------------------------------
(* Delivery.  The stream has been read up to the position of the process   *)
(* that holds the partition, or up to what is committed if none does; a    *)
(* process that was not killed gives the partition up before it stops.     *)
Still == {"off", "checked", "exit", "boot"}
Polling == {"loop", "csv", "create", "fill", "append", "truncate", "write", "close"}
Late == {"truncate", "write", "close"}

Frontier == IF owner = None THEN committed ELSE proc[owner].pos

OwnerInv ==
    /\ owner # None => proc[owner].pc \in Polling
    /\ committed <= Frontier

Ids(s) == {s[j][1] : j \in DOMAIN s}

(* The kinds of steps, by what they do to the rows.                        *)
Others(p) == \A q \in Procs \ {p} : proc'[q] = proc[q]

Lost == {"interrupt", "recovery", "cut", "clash", "second"}
Doubled == {"interrupt", "disk", "cut", "recovery"}

SameFiles == csv' = csv /\ failed' = failed /\ recent' = recent

Quiet(p) ==
    /\ Others(p) /\ Frontier' = Frontier /\ csv' = csv /\ failed' = failed
    /\ \/ recent' = recent
       \/ proc'[p].pc = "loop" /\ recent' = [by |-> None, ids |-> recent.ids]
          /\ recent.by = p
    /\ proc'[p].pc \in Polling => proc[p].pc \in Polling \/ recent'.by # p
    /\ proc'[p].buf = proc[p].buf
    /\ proc'[p].pc \in Still => proc[p].pc \in Still
    /\ proc'[p].pc \in Late => proc[p].pc \in Late \/ proc[p].buf = <<>>

Closes(p) ==
    /\ Others(p) /\ Frontier' = Frontier /\ SameFiles
    /\ proc[p].pc = "close" /\ proc'[p].buf = <<>> /\ proc'[p].pc \in Still

Takes(p) ==
    /\ Others(p) /\ Frontier + 1 <= N /\ Frontier' = Frontier + 1 /\ SameFiles
    /\ proc[p].pc = "loop" /\ proc'[p].pc \in {"loop", "csv"}
    /\ Stream[Frontier + 1].ok
    /\ proc'[p].buf = Append(proc[p].buf,
         <<Frontier + 1, Reason(proc[p].known[Stream[Frontier + 1].source],
                                Tracked(Frontier + 1))>>)

Skips(p) ==
    /\ Others(p) /\ Frontier + 1 <= N /\ Frontier' = Frontier + 1 /\ SameFiles
    /\ proc[p].pc = "loop" /\ proc'[p].pc \in {"loop", "csv", "truncate"}
    /\ "interrupt" \in fault' \/ (~ Stream[Frontier + 1].ok /\ proc'[p].pc = "loop")
    /\ proc'[p].buf = proc[p].buf

Creates(p) ==
    /\ Others(p) /\ Frontier' = Frontier /\ csv' = <<>>
    /\ failed' = failed /\ recent' = recent
    /\ proc[p].pc = "create" /\ proc'[p].pc = "fill" /\ proc'[p].buf = proc[p].buf

Stores(p) ==
    /\ Others(p) /\ Frontier' = Frontier /\ failed' = failed /\ recent' = recent
    /\ proc[p].pc \in {"fill", "append"} /\ Reach(p, proc[p].buf)
    /\ proc'[p].pc = "truncate" /\ proc'[p].buf = <<>>

Retries(p) ==
    /\ Others(p) /\ Frontier' = Frontier
    /\ \E end \in {"line", "torn"} : Leaves(p, end)
    /\ proc[p].pc \in Polling /\ proc'[p].pc \in {"loop", "csv", "truncate"}
    /\ proc'[p].buf = proc[p].buf
    /\ fault' \cap Doubled # {}
    /\ \/ fault' \cap Lost # {}
       \/ /\ recent' = [by |-> p, ids |-> Ids(proc[p].buf)]
          /\ \/ failed' = failed \cup recent.ids
             \/ recent.by = p /\ failed' = failed

AnyKind(p) ==
    \/ Quiet(p) \/ Closes(p) \/ Takes(p) \/ Skips(p)
    \/ Creates(p) \/ Stores(p) \/ Retries(p)

(* A step of p that leaves the broker alone, and p's position too if it is *)
(* p that holds the partition.                                             *)
LEMMA FrontierStays ==
  ASSUME Types, OwnerInv, NEW p \in Procs, UNCHANGED <<committed, owner>>,
         NEW c, NEW s, NEW k, NEW b, NEW o, NEW e, Moves(p, c, s, k, b, o, e),
         owner = p => c \in Polling /\ o = proc[p].pos
  PROVE  /\ OwnerInv' /\ Frontier' = Frontier
         /\ Others(p) /\ proc'[p].pc = c /\ proc'[p].buf = b
<1>1. Fields(p, c, s, k, b, o, e)
  BY MovesFields
<1>2. Frontier' = Frontier
  BY <1>1 DEF Frontier, Fields, Types
<1>3. owner # None => proc'[owner].pc \in Polling
  BY <1>1 DEF OwnerInv, Fields, Types
<1> QED
  BY <1>1, <1>2, <1>3 DEF OwnerInv, Fields, Others

(* Only a process that polls holds the partition.                          *)
LEMMA OwnerPolls ==
  ASSUME OwnerInv, NEW p \in Procs, proc[p].pc \notin Polling
  PROVE  owner # p
  BY LegacyAssumption DEF OwnerInv

LEMMA KindConsume ==
  ASSUME Types, OwnerInv, NEW p \in Procs, Consume(p)
  PROVE  OwnerInv' /\ (Takes(p) \/ Skips(p))
<1> DEFINE i == proc[p].pos + 1
           s == Stream[i].source
           row == <<i, Reason(proc[p].known[s], Tracked(i))>>
<1>1. /\ owner = p /\ proc[p].pc = "loop" /\ proc[p].pos < N
      /\ owner' = owner /\ committed' = committed /\ SameFiles
  BY DEF Consume, N, disk, saves, batches, broker, SameFiles
<1>2. p # None /\ N \in Nat /\ proc[p].pos \in 0 .. N /\ committed \in 0 .. N
  BY LegacyAssumption, StreamFacts, ProcIs DEF Types
<1>3. Frontier = proc[p].pos /\ Frontier + 1 = i /\ Frontier + 1 <= N
  BY <1>1, <1>2 DEF Frontier
<1>4. CASE Stream[i].ok
  <2> DEFINE c == IF Len(Append(proc[p].buf, row)) >= BatchSize THEN "csv" ELSE "loop"
             k == [proc[p].known EXCEPT ![s] = Tracked(i)]
             b == Append(proc[p].buf, row)
  <2>1. Moves(p, c, proc[p].script, k, b, i, proc[p].ending)
    BY <1>4, ConsumeMoves
  <2>2. c \in {"loop", "csv"}
    OBVIOUS
  <2> HIDE DEF c, k, b
  <2>3. Fields(p, c, proc[p].script, k, b, i, proc[p].ending)
    BY <2>1, MovesFields
  <2>4. Frontier' = i
    BY <1>1, <1>2, <2>3 DEF Frontier, Fields
  <2>5. OwnerInv'
    BY <1>1, <1>2, <1>3, <2>2, <2>3, <2>4 DEF OwnerInv, Fields, Polling
  <2>6. b = Append(proc[p].buf, <<Frontier + 1,
              Reason(proc[p].known[Stream[Frontier + 1].source], Tracked(Frontier + 1))>>)
    BY <1>3 DEF b
  <2>7. Takes(p)
    BY <1>1, <1>3, <1>4, <2>2, <2>3, <2>4, <2>6 DEF Takes, Fields, Others
  <2> QED
    BY <2>5, <2>7
<1>5. CASE ~ Stream[i].ok
  <2>1. Moves(p, "loop", proc[p].script, proc[p].known, proc[p].buf, i, proc[p].ending)
    BY <1>5, ConsumeMoves
  <2>2. Fields(p, "loop", proc[p].script, proc[p].known, proc[p].buf, i, proc[p].ending)
    BY <2>1, MovesFields
  <2>3. Frontier' = i
    BY <1>1, <1>2, <2>2 DEF Frontier, Fields
  <2>4. OwnerInv'
    BY <1>1, <1>2, <1>3, <2>2, <2>3 DEF OwnerInv, Fields, Polling
  <2>5. Skips(p)
    BY <1>1, <1>3, <1>5, <2>2, <2>3 DEF Skips, Fields, Others
  <2> QED
    BY <2>4, <2>5
<1> QED
  BY <1>4, <1>5

LEMMA KindInterrupt ==
  ASSUME Types, OwnerInv, NEW p \in Procs, Interrupt(p)
  PROVE  OwnerInv' /\ (Skips(p) \/ Retries(p))
<1>1. /\ owner' = owner /\ committed' = committed /\ failed' = failed /\ recent' = recent
      /\ "interrupt" \in fault'
  BY DEF Interrupt, broker, batches, Faulty, Faults
<1> DEFINE b == proc[p].buf
           c == IF b # <<>> THEN "csv" ELSE "truncate"
           e == IF b # <<>> THEN "rest" ELSE "state"
<1>2. c \in {"csv", "truncate"}
  OBVIOUS
<1>3. CASE InterruptReads(p)
  <2> DEFINE i == proc[p].pos + 1
             k == IF Stream[i].ok THEN [proc[p].known EXCEPT ![Stream[i].source] = Tracked(i)]
                                  ELSE proc[p].known
  <2>1. /\ owner = p /\ proc[p].pc = "loop" /\ proc[p].pos < N /\ csv' = csv
        /\ Moves(p, c, proc[p].script, k, b, i, e)
    BY <1>3 DEF InterruptReads, saves
  <2>2. p # None /\ N \in Nat /\ proc[p].pos \in 0 .. N /\ committed \in 0 .. N
    BY LegacyAssumption, StreamFacts, ProcIs DEF Types
  <2>3. Frontier = proc[p].pos /\ Frontier + 1 = i /\ Frontier + 1 <= N
    BY <2>1, <2>2 DEF Frontier
  <2> HIDE DEF k, c, e
  <2>4. Fields(p, c, proc[p].script, k, b, i, e)
    BY <2>1, MovesFields
  <2>5. Frontier' = i
    BY <1>1, <2>1, <2>2, <2>4 DEF Frontier, Fields
  <2>6. OwnerInv'
    BY <1>1, <1>2, <2>1, <2>2, <2>3, <2>4, <2>5 DEF OwnerInv, Fields, Polling
  <2>7. Skips(p)
    BY <1>1, <1>2, <2>1, <2>3, <2>4, <2>5 DEF Skips, SameFiles, Fields, Others
  <2> QED
    BY <2>6, <2>7
<1>4. CASE InterruptSaves(p)
  <2>1. /\ proc[p].pc \in Polling
        /\ \E end \in {"line", "torn"} : Leaves(p, end)
        /\ Moves(p, c, proc[p].script, proc[p].known, b, proc[p].pos, e)
    BY <1>4 DEF InterruptSaves, Saves, Polling
  <2> HIDE DEF c, e
  <2>2. /\ OwnerInv' /\ Frontier' = Frontier
        /\ Others(p) /\ proc'[p].pc = c /\ proc'[p].buf = b
    BY <1>1, <1>2, <2>1, FrontierStays DEF Polling
  <2>3. Retries(p)
    BY <1>1, <1>2, <2>1, <2>2 DEF Retries, Lost, Doubled
  <2> QED
    BY <2>2, <2>3
<1> QED
  BY <1>3, <1>4, InterruptMoves

LEMMA KindAssign ==
  ASSUME Types, OwnerInv, NEW p \in Procs, Assign(p)
  PROVE  OwnerInv' /\ Quiet(p)
<1>1. /\ proc[p].pc = "loop" /\ owner # p /\ owner' = p
      /\ owner # None => proc[owner].pc \notin Consuming \ {"loop"}
      /\ committed' = IF owner # None /\ proc[owner].pc = "loop" THEN proc[owner].pos ELSE committed
      /\ SameFiles
  BY DEF Assign, disk, saves, batches, SameFiles
<1>2. committed' = Frontier
  BY <1>1 DEF Frontier, OwnerInv, Polling, Consuming, Saves
<1>3. Fields(p, proc[p].pc, proc[p].script, proc[p].known, proc[p].buf, committed',
             proc[p].ending)
  BY AssignMoves, MovesFields
<1>4. p # None /\ Frontier' = committed'
  BY <1>1, <1>3, LegacyAssumption DEF Frontier, Fields
<1>5. committed' \in 0 .. N /\ N \in Nat
  BY <1>1, StreamFacts DEF Types, ProcState
<1>6. OwnerInv'
  BY <1>1, <1>3, <1>4, <1>5 DEF OwnerInv, Fields, Polling
<1>7. Quiet(p)
  BY <1>1, <1>2, <1>3, <1>4 DEF Quiet, SameFiles, Fields, Others, Still, Polling
<1> QED
  BY <1>6, <1>7

LEMMA KindClose ==
  ASSUME Types, OwnerInv, NEW p \in Procs, Close(p)
  PROVE  OwnerInv' /\ Closes(p)
<1>1. /\ proc[p].pc = "close" /\ SameFiles
      /\ IF owner = p THEN committed' = proc[p].pos /\ owner' = None
                       ELSE committed' = committed /\ owner' = owner
  BY DEF Close, disk, saves, batches, broker, SameFiles
<1> DEFINE c == IF proc[p].script THEN "exit" ELSE "off"
<1>2. Moves(p, c, proc[p].script, Unknown, <<>>, 0, "no")
  BY CloseMoves
<1>3. c \in Still
  BY DEF Still
<1> HIDE DEF c
<1>4. Fields(p, c, proc[p].script, Unknown, <<>>, 0, "no")
  BY <1>2, MovesFields
<1>5. p # None /\ proc[p].pos \in 0 .. N /\ N \in Nat
  BY LegacyAssumption, ProcIs, StreamFacts
<1>6. CASE owner = p
  <2>1. Frontier' = Frontier /\ committed' = Frontier'
    BY <1>1, <1>5, <1>6 DEF Frontier
  <2>2. OwnerInv'
    BY <1>1, <1>5, <1>6, <2>1 DEF OwnerInv
  <2> QED
    BY <1>1, <1>3, <1>4, <2>1, <2>2 DEF Closes, Fields, Others
<1>7. CASE owner # p
  <2>1. owner' = owner /\ committed' = committed
    BY <1>1, <1>7
  <2>2. OwnerInv' /\ Frontier' = Frontier
    BY <1>2, <1>7, <2>1, FrontierStays
  <2> QED
    BY <1>1, <1>3, <1>4, <2>2 DEF Closes, Fields, Others
<1> QED
  BY <1>6, <1>7

LEMMA KindAutoCommit ==
  ASSUME Types, OwnerInv, NEW p \in Procs, AutoCommit(p)
  PROVE  OwnerInv' /\ Quiet(p)
<1>1. /\ owner = p /\ owner' = owner /\ committed' = proc[p].pos /\ proc' = proc
      /\ SameFiles
  BY DEF AutoCommit, disk, saves, batches, SameFiles
<1>2. p # None /\ proc[p].pos \in 0 .. N /\ N \in Nat
  BY LegacyAssumption, ProcIs, StreamFacts
<1>3. Frontier' = Frontier /\ committed' = Frontier'
  BY <1>1, <1>2 DEF Frontier
<1> QED
  BY <1>1, <1>2, <1>3 DEF OwnerInv, Quiet, SameFiles, Others

(* A process that does not consume holds no rows.                          *)
EmptyInv == \A p \in Procs : proc[p].pc \in Still => proc[p].buf = <<>>

LEMMA KindOf ==
  ASSUME Types, OwnerInv, EmptyInv, NEW p \in Procs, "kill" \notin fault',
         \/ CheckLock(p) \/ StartByHand(p) \/ Step(p)
         \/ Assign(p) \/ AutoCommit(p) \/ Consume(p)
         \/ Interrupt(p) \/ Kill(p)
  PROVE  OwnerInv' /\ AnyKind(p)
<1>1. ASSUME NEW c, NEW s, NEW k, NEW o, NEW e, Moves(p, c, s, k, proc[p].buf, o, e),
             UNCHANGED <<committed, owner>>, SameFiles,
             owner = p => c \in Polling /\ o = proc[p].pos,
             c \in Polling => proc[p].pc \in Polling,
             c \in Still => proc[p].pc \in Still,
             c \in Late => proc[p].pc \in Late \/ proc[p].buf = <<>>
      PROVE  OwnerInv' /\ Quiet(p)
  <2> DEFINE b == proc[p].buf
  <2>1. Moves(p, c, s, k, b, o, e)
    BY <1>1
  <2> HIDE DEF b
  <2>2. /\ OwnerInv' /\ Frontier' = Frontier
        /\ Others(p) /\ proc'[p].pc = c /\ proc'[p].buf = b
    BY <1>1, <2>1, FrontierStays
  <2> QED
    BY <1>1, <2>2 DEF Quiet, SameFiles, b
<1>2. CASE LoadState(p)
  <2> DEFINE k == IF stateFile.torn THEN Unknown ELSE stateFile.known
  <2>1. Moves(p, "loop", proc[p].script, k, proc[p].buf, proc[p].pos, proc[p].ending)
    BY <1>2, LoadStateMoves
  <2> HIDE DEF k
  <2>2. /\ proc[p].pc = "boot" /\ UNCHANGED <<committed, owner, csv, failed>>
        /\ recent' = [recent EXCEPT !.by = IF @ = p THEN None ELSE @]
    BY <1>2 DEF LoadState, broker, saves
  <2>3. recent = [by |-> recent.by, ids |-> recent.ids]
    BY DEF Types
  <2>4. recent' = IF recent.by = p THEN [by |-> None, ids |-> recent.ids] ELSE recent
    BY <2>2, <2>3
  <2>5. /\ OwnerInv' /\ Frontier' = Frontier
        /\ Others(p) /\ proc'[p].pc = "loop" /\ proc'[p].buf = proc[p].buf
    BY <2>1, <2>2, FrontierStays DEF Polling
  <2>6. recent'.by # p
    BY <2>4, LegacyAssumption
  <2> QED
    BY <2>2, <2>4, <2>5, <2>6 DEF Quiet, AnyKind, Still, Late
<1>3. CASE LeaveLoop(p)
  <2> DEFINE c == IF proc[p].buf # <<>> THEN "csv" ELSE "truncate"
             e == IF proc[p].buf # <<>> THEN "rest" ELSE "state"
  <2>1. Moves(p, c, proc[p].script, proc[p].known, proc[p].buf, proc[p].pos, e)
    BY <1>3, EndingMoves DEF LeaveLoop
  <2>2. c \in Polling /\ c \notin Still /\ (c \in Late => proc[p].buf = <<>>)
    BY DEF Polling, Still, Late
  <2> HIDE DEF c, e
  <2> QED
    BY <1>1, <1>3, <2>1, <2>2 DEF LeaveLoop, AnyKind, disk, broker, saves, batches, SameFiles,
                                  Polling
<1>4. CASE Truncate(p)
  <2>1. /\ Moves(p, "write", proc[p].script, proc[p].known, proc[p].buf, proc[p].pos,
                 proc[p].ending)
        /\ UNCHANGED <<committed, owner>> /\ SameFiles
    BY <1>4, PcMoves DEF Truncate, broker, saves, batches, SameFiles
  <2>2. "write" \in Polling /\ "write" \notin Still /\ proc[p].pc \in Late \cap Polling
    BY <1>4 DEF Truncate, Polling, Still, Late
  <2> QED
    BY <1>1, <2>1, <2>2 DEF AnyKind
<1>5. ASSUME proc[p].pc = "write", UNCHANGED <<committed, owner>>, SameFiles,
             proc' = [proc EXCEPT ![p] = StateWritten(proc[p])]
      PROVE  OwnerInv' /\ Quiet(p)
  <2> DEFINE c == IF proc[p].ending = "no" THEN "loop"
                  ELSE IF proc[p].ending = "rest" THEN "truncate" ELSE "close"
             e == IF proc[p].ending = "no" THEN "no" ELSE "state"
  <2>1. Moves(p, c, proc[p].script, proc[p].known, proc[p].buf, proc[p].pos, e)
    BY <1>5, WrittenMoves
  <2>2. c \in Polling /\ c \notin Still
    BY DEF Polling, Still
  <2>3. proc[p].pc \in Late \cap Polling
    BY <1>5 DEF Late, Polling
  <2> HIDE DEF c, e
  <2> QED
    BY <1>1, <1>5, <2>1, <2>2, <2>3
<1>6. CASE WriteState(p) \/ WriteStateFails(p)
  BY <1>5, <1>6 DEF WriteState, WriteStateFails, AnyKind, disk, broker, saves, batches, SameFiles
<1>7. CASE WriteLock(p)
  <2>1. proc[p].pc = "checked" /\ proc[p].pc \in Still /\ owner # p
    BY <1>7, OwnerPolls DEF WriteLock, Still, Polling
  <2> QED
    BY <1>1, <1>7, <2>1, WriteLockMoves DEF WriteLock, AnyKind, broker, saves, batches, SameFiles,
                                                  Still, Late, Polling
<1>8. ASSUME proc[p].pc \in {"off", "exit"}, NEW c \in Still, NEW s,
             Moves(p, c, s, Unknown, <<>>, 0, "no"), UNCHANGED <<committed, owner>>, SameFiles
      PROVE  OwnerInv' /\ AnyKind(p)
  <2>1. owner # p /\ proc[p].pc \in Still /\ proc[p].buf = <<>>
    BY <1>8, OwnerPolls DEF Polling, Still, EmptyInv
  <2> QED
    BY <1>1, <1>8, <2>1 DEF AnyKind, Late, Still, Polling
<1>9. CASE CheckLock(p)
  BY <1>8, <1>9, CheckLockMoves DEF CheckLock, Still, broker, saves, batches, SameFiles
<1>10. CASE StartByHand(p)
  BY <1>8, <1>10, StartByHandMoves DEF StartByHand, Still, broker, disk, saves, batches, SameFiles
<1>11. CASE RemoveLock(p)
  BY <1>8, <1>11, RemoveLockMoves DEF RemoveLock, Still, broker, saves, batches, SameFiles
<1>12. CASE WriteRows(p)
  <2>1. Moves(p, "truncate", proc[p].script, proc[p].known, <<>>, proc[p].pos, proc[p].ending)
    BY <1>12, WriteRowsMoves
  <2>2. /\ OwnerInv' /\ Frontier' = Frontier
        /\ Others(p) /\ proc'[p].pc = "truncate" /\ proc'[p].buf = <<>>
    BY <1>12, <2>1, FrontierStays DEF WriteRows, broker, Polling
  <2> QED
    BY <1>12, <2>2 DEF WriteRows, AnyKind, Stores, batches
<1>13. CASE SaveFails(p)
  <2> DEFINE c == IF proc[p].ending = "no" THEN "loop" ELSE "truncate"
             e == IF proc[p].ending = "no" THEN "no" ELSE "state"
             b == proc[p].buf
  <2>1. Moves(p, c, proc[p].script, proc[p].known, b, proc[p].pos, e)
    BY <1>13, SaveFailsMoves
  <2>2. c \in Polling /\ c \in {"loop", "csv", "truncate"}
    BY DEF Polling
  <2> HIDE DEF c, e, b
  <2>3. /\ OwnerInv' /\ Frontier' = Frontier
        /\ Others(p) /\ proc'[p].pc = c /\ proc'[p].buf = b
    BY <1>13, <2>1, <2>2, FrontierStays DEF SaveFails, broker
  <2>4. \E end \in {"line", "torn"} : Leaves(p, end)
    BY <1>13, SaveFailsLeaves
  <2>5. proc[p].pc \in Polling
    BY <1>13 DEF SaveFails, Stops, Polling
  <2>6. PICK end \in {"line", "torn"} :
           \/ KeepBatch(p, {IF end = "torn" THEN "cut" ELSE "disk"})
           \/ /\ Faulty("recovery") /\ UNCHANGED failed
              /\ recent' \in {recent, [recent EXCEPT !.ids = {}]}
    BY <1>13 DEF SaveFails
  <2>7. Batch(p) = Ids(proc[p].buf)
    BY BatchIs DEF Ids
  <2>8. /\ fault' \cap Doubled # {}
        /\ \/ fault' \cap Lost # {}
           \/ /\ recent' = [by |-> p, ids |-> Ids(proc[p].buf)]
              /\ \/ failed' = failed \cup recent.ids
                 \/ recent.by = p /\ failed' = failed
    <3>1. CASE Faulty("recovery")
      BY <3>1 DEF Faulty, Faults, Doubled, Lost
    <3>2. CASE KeepBatch(p, {IF end = "torn" THEN "cut" ELSE "disk"})
      BY <2>7, <3>2 DEF KeepBatch, Faults, Doubled, Lost
    <3> QED
      BY <2>6, <3>1, <3>2
  <2> QED
    BY <2>2, <2>3, <2>4, <2>5, <2>8 DEF AnyKind, Retries, b
<1>15. CASE LookForCsv(p)
  <2> DEFINE c == IF csvEnd = "none" THEN "create" ELSE "append"
  <2>1. Moves(p, c, proc[p].script, proc[p].known, proc[p].buf, proc[p].pos, proc[p].ending)
    BY <1>15, LookForCsvMoves
  <2>2. /\ c \in Polling /\ c \notin Still /\ c \notin Late /\ proc[p].pc \in Polling
        /\ UNCHANGED <<committed, owner>> /\ SameFiles
    BY <1>15 DEF LookForCsv, Polling, Still, Late, broker, batches, SameFiles
  <2> HIDE DEF c
  <2> QED
    BY <1>1, <2>1, <2>2 DEF AnyKind
<1>16. CASE CreateCsv(p)
  <2>1. Moves(p, "fill", proc[p].script, proc[p].known, proc[p].buf, proc[p].pos, proc[p].ending)
    BY <1>16, CreateCsvMoves
  <2> DEFINE b == proc[p].buf
  <2>2. Moves(p, "fill", proc[p].script, proc[p].known, b, proc[p].pos, proc[p].ending)
    BY <2>1
  <2> HIDE DEF b
  <2>3. /\ OwnerInv' /\ Frontier' = Frontier
        /\ Others(p) /\ proc'[p].pc = "fill" /\ proc'[p].buf = b
    BY <1>16, <2>2, FrontierStays DEF CreateCsv, broker, Polling
  <2> QED
    BY <1>16, <2>3 DEF CreateCsv, AnyKind, Creates, batches, b
<1>14. CASE Kill(p)
  <2>1. KillsScript(p)
    BY <1>14, KillMoves DEF KillsPython, KillsBoth
  <2>2. Moves(p, proc[p].pc, FALSE, proc[p].known, proc[p].buf, proc[p].pos, proc[p].ending)
    BY <2>1 DEF KillsScript
  <2>3. owner = p => proc[p].pc \in Polling
    BY LegacyAssumption DEF OwnerInv
  <2>4. UNCHANGED <<committed, owner>> /\ SameFiles
    BY <1>14, <2>1 DEF Kill, KillsScript, saves, batches, broker, SameFiles
  <2> QED
    BY <1>1, <2>2, <2>3, <2>4 DEF AnyKind
<1> QED
  BY <1>2, <1>3, <1>4, <1>6, <1>7, <1>9, <1>10, <1>11, <1>12, <1>13, <1>14, <1>15, <1>16, KindConsume,
     KindInterrupt, KindAssign, KindClose, KindAutoCommit DEF Step, AnyKind
-----------------------------------------------------------------------------
(* The messages in rows that are added.                                    *)
Distinct(s) == \A j, k \in DOMAIN s : s[j][1] = s[k][1] => j = k

LEMMA IdsConcat ==
  ASSUME NEW s \in Seq(Row), NEW t \in Seq(Row)
  PROVE  Ids(s \o t) = Ids(s) \cup Ids(t)
<1>1. Range(s \o t) = Range(s) \cup Range(t)
  BY RangeConcatenation
<1>2. \A u : Ids(u) = {row[1] : row \in Range(u)}
  BY DEF Ids, Range
<1> QED
  BY <1>1, <1>2

LEMMA IdsAppend ==
  ASSUME NEW s \in Seq(Row), NEW row \in Row
  PROVE  Ids(Append(s, row)) = Ids(s) \cup {row[1]}
<1>1. <<row>> \in Seq(Row) /\ Append(s, row) = s \o <<row>>
  BY AppendIsConcat
<1>2. Ids(<<row>>) = {row[1]}
  BY DEF Ids
<1>3. Ids(s \o <<row>>) = Ids(s) \cup Ids(<<row>>)
  BY <1>1, IdsConcat
<1> QED
  BY <1>1, <1>2, <1>3

LEMMA IdsPrefix ==
  ASSUME NEW s \in Seq(Row), NEW n \in 0 .. Len(s)
  PROVE  Ids(SubSeq(s, 1, n)) \subseteq Ids(s)
<1>1. Len(s) \in Nat /\ DOMAIN s = 1 .. Len(s) /\ \A i \in 1 .. Len(s) : s[i] \in Row
  BY LenProperties
<1>2. /\ SubSeq(s, 1, n) \in Seq(Row) /\ Len(SubSeq(s, 1, n)) = n
      /\ \A i \in 1 .. n : SubSeq(s, 1, n)[i] = s[i]
  BY <1>1, SubSeqProperties
<1>3. DOMAIN SubSeq(s, 1, n) = 1 .. n
  BY <1>2, LenProperties
<1> QED
  BY <1>1, <1>2, <1>3 DEF Ids

LEMMA DistinctConcat ==
  ASSUME NEW s \in Seq(Row), NEW t \in Seq(Row), Distinct(s), Distinct(t),
         Ids(s) \cap Ids(t) = {}
  PROVE  Distinct(s \o t)
<1>1. Len(s) \in Nat /\ DOMAIN s = 1 .. Len(s) /\ Len(t) \in Nat /\ DOMAIN t = 1 .. Len(t)
  BY LenProperties
<1>2. /\ s \o t \in Seq(Row) /\ Len(s \o t) = Len(s) + Len(t)
      /\ \A i \in 1 .. Len(s) + Len(t) : (s \o t)[i] =
            IF i <= Len(s) THEN s[i] ELSE t[i - Len(s)]
  BY ConcatProperties
<1>3. DOMAIN (s \o t) = 1 .. Len(s) + Len(t)
  BY <1>2, LenProperties
<1> DEFINE u == s \o t
<1> HIDE DEF u
<1> SUFFICES ASSUME NEW j \in 1 .. Len(s) + Len(t), NEW k \in 1 .. Len(s) + Len(t),
                    u[j][1] = u[k][1]
             PROVE  j = k
  BY <1>3 DEF Distinct, u
<1>4. \A i \in 1 .. Len(s) + Len(t) :
        IF i <= Len(s) THEN i \in DOMAIN s /\ u[i] = s[i]
                       ELSE i - Len(s) \in DOMAIN t /\ u[i] = t[i - Len(s)]
  BY <1>1, <1>2 DEF u
<1>5. CASE j <= Len(s) /\ k <= Len(s)
  BY <1>4, <1>5 DEF Distinct
<1>6. CASE ~ (j <= Len(s)) /\ ~ (k <= Len(s))
  <2> DEFINE j2 == j - Len(s)  k2 == k - Len(s)
  <2>1. j2 \in DOMAIN t /\ k2 \in DOMAIN t /\ u[j] = t[j2] /\ u[k] = t[k2]
    BY <1>4, <1>6
  <2> HIDE DEF j2, k2
  <2>2. j2 = k2
    BY <2>1 DEF Distinct
  <2> QED
    BY <2>2, <1>1 DEF j2, k2
<1>7. CASE j <= Len(s) /\ ~ (k <= Len(s))
  <2>1. u[j][1] \in Ids(s) /\ u[k][1] \in Ids(t)
    BY <1>4, <1>7 DEF Ids
  <2> QED
    BY <2>1
<1>8. CASE ~ (j <= Len(s)) /\ k <= Len(s)
  <2>1. u[k][1] \in Ids(s) /\ u[j][1] \in Ids(t)
    BY <1>4, <1>8 DEF Ids
  <2> QED
    BY <2>1
<1> QED
  BY <1>5, <1>6, <1>7, <1>8

LEMMA DistinctAppend ==
  ASSUME NEW s \in Seq(Row), NEW row \in Row, Distinct(s), row[1] \notin Ids(s)
  PROVE  Distinct(Append(s, row))
<1> DEFINE t == <<row>>
<1>1. t \in Seq(Row) /\ Append(s, row) = s \o t
  BY AppendIsConcat
<1>2. Ids(t) = {row[1]} /\ Distinct(t)
  BY DEF Ids, Distinct
<1> HIDE DEF t
<1>3. Ids(s) \cap Ids(t) = {}
  BY <1>2
<1> QED
  BY <1>1, <1>2, <1>3, DistinctConcat

LEMMA WithoutRows ==
  ASSUME NEW s \in Seq(Row), NEW i \in 1 .. Len(s) + 1, NEW j \in i .. Len(s) + 1
  PROVE  /\ Ids(Without(s, i, j)) \subseteq Ids(s)
         /\ Distinct(s) => Distinct(Without(s, i, j))
         /\ (\A k \in DOMAIN s : s[k][2] = Expected(s[k][1])) =>
              \A k \in DOMAIN Without(s, i, j) :
                Without(s, i, j)[k][2] = Expected(Without(s, i, j)[k][1])
<1> DEFINE w == Without(s, i, j)
           f(k) == IF k < i THEN k ELSE k + (j - i)
<1>1. DOMAIN w = 1 .. Len(s) - (j - i) /\ \A k \in DOMAIN w : f(k) \in DOMAIN s /\ w[k] = s[f(k)]
  BY WithoutIs
<1>2. \A k, m \in DOMAIN w : f(k) = f(m) => k = m
  <2>1. Len(s) \in Nat /\ i \in Int /\ j \in Int /\ i <= j
    BY LenProperties
  <2> HIDE DEF w
  <2> QED
    BY <1>1, <2>1
<1> HIDE DEF w, f
<1>3. Ids(w) \subseteq Ids(s)
  BY <1>1 DEF Ids
<1>4. Distinct(s) => Distinct(w)
  BY <1>1, <1>2 DEF Distinct
<1>5. (\A k \in DOMAIN s : s[k][2] = Expected(s[k][1])) =>
        \A k \in DOMAIN w : w[k][2] = Expected(w[k][1])
  BY <1>1
<1> QED
  BY <1>3, <1>4, <1>5 DEF w

(* The messages in the file after rows have reached it.                    *)
LEMMA ReachRows ==
  ASSUME Types, NEW p \in Procs, NEW rows \in Seq(Row), Reach(p, rows),
         proc[p].pc \in {"fill", "append"}
  PROVE  /\ Ids(csv') \subseteq Ids(csv) \cup Ids(rows)
         /\ p \notin mixed => Ids(csv) \subseteq Ids(csv')
         /\ p \notin mixed /\ (proc[p].pc = "append" => csvEnd # "torn") =>
              Ids(rows) \subseteq Ids(csv')
         /\ Distinct(csv) /\ Distinct(rows) /\ Ids(csv) \cap Ids(rows) = {} => Distinct(csv')
<1>1. PICK s \in Seq(Row) : \E i \in 1 .. Len(s) + 1 : \E j \in i .. Len(s) + 1 :
           /\ \/ s = rows \o csv /\ csv' = Without(s, i, j) /\ proc[p].pc = "fill"
              \/ s = rows /\ csv' = csv \o Without(s, i, j) /\ proc[p].pc = "append"
           /\ p \notin mixed => \/ j = i
                                \/ proc[p].pc = "append" /\ csvEnd = "torn"
  BY ReachIs
<1>2. PICK i \in 1 .. Len(s) + 1 : \E j \in i .. Len(s) + 1 :
           /\ \/ s = rows \o csv /\ csv' = Without(s, i, j) /\ proc[p].pc = "fill"
              \/ s = rows /\ csv' = csv \o Without(s, i, j) /\ proc[p].pc = "append"
           /\ p \notin mixed => \/ j = i
                                \/ proc[p].pc = "append" /\ csvEnd = "torn"
  BY <1>1
<1>3. PICK j \in i .. Len(s) + 1 :
           /\ \/ s = rows \o csv /\ csv' = Without(s, i, j) /\ proc[p].pc = "fill"
              \/ s = rows /\ csv' = csv \o Without(s, i, j) /\ proc[p].pc = "append"
           /\ p \notin mixed => \/ j = i
                                \/ proc[p].pc = "append" /\ csvEnd = "torn"
  BY <1>2
<1> DEFINE w == Without(s, i, j)
<1>4. w \in Seq(Row) /\ Ids(w) \subseteq Ids(s) /\ (Distinct(s) => Distinct(w)) /\ (j = i => w = s)
  BY WithoutIs, WithoutRows
<1>5. csv \in Seq(Row)
  BY DEF Types
<1>6. CASE s = rows \o csv /\ csv' = w /\ proc[p].pc = "fill"
  <2>1. Ids(s) = Ids(rows) \cup Ids(csv)
    BY <1>5, <1>6, IdsConcat
  <2>2. Distinct(csv) /\ Distinct(rows) /\ Ids(csv) \cap Ids(rows) = {} => Distinct(s)
    BY <1>5, <1>6, DistinctConcat
  <2> HIDE DEF w
  <2> QED
    BY <1>3, <1>4, <1>6, <2>1, <2>2
<1>7. CASE s = rows /\ csv' = csv \o w /\ proc[p].pc = "append"
  <2> HIDE DEF w
  <2>1. Ids(csv') = Ids(csv) \cup Ids(w)
    BY <1>4, <1>5, <1>7, IdsConcat
  <2>2. Distinct(csv) /\ Distinct(rows) /\ Ids(csv) \cap Ids(rows) = {} => Distinct(csv')
    BY <1>4, <1>5, <1>7, DistinctConcat
  <2> QED
    BY <1>3, <1>4, <1>7, <2>1, <2>2
<1> QED
  BY <1>3, <1>6, <1>7

LEMMA LeavesRows ==
  ASSUME Types, NEW p \in Procs, NEW end \in {"line", "torn"}, Leaves(p, end)
  PROVE  /\ Ids(csv') \subseteq Ids(csv) \cup Ids(proc[p].buf)
         /\ p \notin mixed => Ids(csv) \subseteq Ids(csv')
<1>1. CASE UNCHANGED saves
  BY <1>1 DEF saves
<1>2. CASE ~ UNCHANGED saves
  <2>1. PICK n \in 0 .. Len(proc[p].buf) : Reach(p, SubSeq(proc[p].buf, 1, n))
    BY <1>2 DEF Leaves
  <2> DEFINE rows == SubSeq(proc[p].buf, 1, n)
  <2>2. rows \in Seq(Row) /\ Ids(rows) \subseteq Ids(proc[p].buf) /\ Reach(p, rows)
    BY <2>1, ProcIs, PrefixTyped, IdsPrefix
  <2>3. proc[p].pc \in {"fill", "append"}
    BY <1>2 DEF Leaves
  <2> HIDE DEF rows
  <2>4. /\ Ids(csv') \subseteq Ids(csv) \cup Ids(rows)
        /\ p \notin mixed => Ids(csv) \subseteq Ids(csv')
    BY <2>2, <2>3, ReachRows
  <2> QED
    BY <2>2, <2>4
<1> QED
  BY <1>1, <1>2

LEMMA FrontierTyped ==
  ASSUME Types
  PROVE  Frontier \in 0 .. N
  BY DEF Types, Frontier, ProcState

-----------------------------------------------------------------------------
(* What is read is kept.  Every row is of a message before the frontier;   *)
(* every message before it is saved, failed or buffered; the rows a        *)
(* process may still drop, having tried to save them, are in a file of     *)
(* the failed; what a later failed batch of the same run may write over is *)
(* saved or buffered; and while no row was written twice none is in two    *)
(* places.                                                                 *)
BelowInv ==
    /\ Ids(csv) \subseteq 1 .. Frontier
    /\ \A p \in Procs : Ids(proc[p].buf) \subseteq 1 .. Frontier

Own(p) == IF recent.by = p THEN recent.ids ELSE {}

KeptInv ==
    \A i \in 1 .. Frontier : Stream[i].ok =>
        \/ i \in Ids(csv) \cup failed \cup recent.ids
        \/ \E p \in Procs : i \in Ids(proc[p].buf)

BatchInv ==
    \A p \in Procs :
        /\ proc[p].pc \in Late => Ids(proc[p].buf) \subseteq failed \cup Own(p)
        /\ proc[p].pc \in Polling => Own(p) \subseteq Ids(csv) \cup Ids(proc[p].buf)

LossInv == fault \cap Lost = {} => KeptInv /\ BatchInv

OnceInv ==
    fault \cap Doubled = {} =>
        /\ Distinct(csv)
        /\ \A p \in Procs : Distinct(proc[p].buf) /\ Ids(proc[p].buf) \cap Ids(csv) = {}
        /\ \A p, q \in Procs : p # q => Ids(proc[p].buf) \cap Ids(proc[q].buf) = {}

DeliveryInv ==
    "kill" \notin fault => OwnerInv /\ EmptyInv /\ BelowInv /\ LossInv /\ OnceInv

LEMMA EmptyRow == <<>> \in Seq(Row) /\ Ids(<<>>) = {} /\ Distinct(<<>>)
  BY EmptySeq DEF Ids, Distinct

LEMMA DeliveryInit == Init => DeliveryInv
<1> SUFFICES ASSUME Init PROVE DeliveryInv
  OBVIOUS
<1>1. \A p \in Procs : proc[p].buf = <<>> /\ proc[p].pc = "off"
  BY DEF Init, Off
<1>2. csv = <<>> /\ owner = None /\ committed = 0 /\ Frontier = 0
  BY DEF Init, Frontier
<1>3. OwnerInv /\ EmptyInv
  BY <1>1, <1>2 DEF OwnerInv, EmptyInv
<1>4. BelowInv /\ OnceInv
  BY <1>1, <1>2, EmptyRow DEF BelowInv, OnceInv
<1>5. LossInv
  BY <1>1, <1>2 DEF LossInv, KeptInv, BatchInv, Late, Polling
<1> QED
  BY <1>3, <1>4, <1>5 DEF DeliveryInv

LEMMA EmptyStep ==
  ASSUME EmptyInv, NEW p \in Procs, AnyKind(p)
  PROVE  EmptyInv'
<1>1. proc'[p].pc \in Still => proc'[p].buf = <<>>
  BY DEF AnyKind, Quiet, Closes, Takes, Skips, Creates, Stores, Retries, EmptyInv, Still
<1>2. Others(p)
  BY DEF AnyKind, Quiet, Closes, Takes, Skips, Creates, Stores, Retries
<1> QED
  BY <1>1, <1>2 DEF EmptyInv, Others

(* The rows after a step of each kind.                                     *)
LEMMA RowsQuiet ==
  ASSUME Types, fault \subseteq fault', BelowInv, LossInv, OnceInv, NEW p \in Procs, Quiet(p)
  PROVE  BelowInv' /\ LossInv' /\ OnceInv'
<1>1. /\ \A q \in Procs : proc'[q].buf = proc[q].buf
      /\ Others(p) /\ Frontier' = Frontier /\ csv' = csv /\ failed' = failed
  BY DEF Quiet, Others
<1>2. BelowInv' /\ OnceInv'
  BY <1>1 DEF BelowInv, OnceInv
<1>3. LossInv'
  <2> SUFFICES ASSUME fault' \cap Lost = {} PROVE KeptInv' /\ BatchInv'
    BY DEF LossInv
  <2>1. KeptInv /\ BatchInv
    BY DEF LossInv
  <2>2. recent'.ids = recent.ids
    BY DEF Quiet
  <2>3. KeptInv'
    BY <1>1, <2>1, <2>2 DEF KeptInv
  <2>4. \A q \in Procs \ {p} : Own(q)' = Own(q) /\ proc'[q] = proc[q]
    BY <1>1, LegacyAssumption DEF Quiet, Own, Others
  <2>5. \/ recent' = recent
        \/ proc'[p].pc = "loop" /\ recent'.by # p
    BY LegacyAssumption DEF Quiet
  <2>6. proc'[p].pc \in Late => Ids(proc'[p].buf) \subseteq failed' \cup Own(p)'
    BY <1>1, <2>1, <2>5, EmptyRow DEF Quiet, BatchInv, Own, Late
  <2>7. proc'[p].pc \in Polling => Own(p)' \subseteq Ids(csv') \cup Ids(proc'[p].buf)
    BY <1>1, <2>1, <2>5 DEF Quiet, BatchInv, Own
  <2> QED
    BY <1>1, <2>1, <2>3, <2>4, <2>6, <2>7 DEF BatchInv
<1> QED
  BY <1>2, <1>3

LEMMA RowsCloses ==
  ASSUME Types, fault \subseteq fault', BelowInv, LossInv, OnceInv, NEW p \in Procs, Closes(p)
  PROVE  BelowInv' /\ LossInv' /\ OnceInv'
<1>1. /\ Others(p) /\ Frontier' = Frontier /\ csv' = csv /\ failed' = failed /\ recent' = recent
      /\ proc[p].pc = "close" /\ proc'[p].buf = <<>> /\ proc'[p].pc \in Still
  BY DEF Closes, SameFiles
<1>2. Ids(proc'[p].buf) = {} /\ Distinct(proc'[p].buf)
  BY <1>1, EmptyRow
<1>3. BelowInv' /\ OnceInv'
  BY <1>1, <1>2 DEF BelowInv, OnceInv, Others
<1>4. LossInv'
  <2> SUFFICES ASSUME fault' \cap Lost = {} PROVE KeptInv' /\ BatchInv'
    BY DEF LossInv
  <2>1. KeptInv /\ BatchInv
    BY DEF LossInv
  <2>2. Ids(proc[p].buf) \subseteq failed \cup recent.ids
    BY <1>1, <2>1 DEF BatchInv, Own, Late
  <2>3. KeptInv'
    BY <1>1, <1>2, <2>1, <2>2 DEF KeptInv, Others
  <2>4. BatchInv'
    BY <1>1, <1>2, <2>1 DEF BatchInv, Own, Others, Still, Polling
  <2> QED
    BY <2>3, <2>4
<1> QED
  BY <1>3, <1>4

LEMMA RowsTakes ==
  ASSUME Types, fault \subseteq fault', BelowInv, LossInv, OnceInv, NEW p \in Procs, Takes(p)
  PROVE  BelowInv' /\ LossInv' /\ OnceInv'
<1> DEFINE i == Frontier + 1
           row == <<i, Reason(proc[p].known[Stream[i].source], Tracked(i))>>
           b == proc[p].buf
<1>1. /\ Others(p) /\ i <= N /\ Frontier' = i
      /\ csv' = csv /\ failed' = failed /\ recent' = recent
      /\ proc[p].pc \in Polling /\ proc'[p].pc \notin Late /\ proc'[p].buf = Append(b, row)
  BY DEF Takes, SameFiles, Late, Polling
<1>2. /\ Frontier \in Nat /\ i \in 1 .. N
      /\ 1 .. i = (1 .. Frontier) \cup {i} /\ i \notin 1 .. Frontier
  BY <1>1, FrontierTyped, StreamFacts
<1>3. b \in Seq(Row) /\ row \in Row /\ row[1] = i
  BY <1>2, ProcIs, ReasonTyped DEF Row
<1> HIDE DEF row, b, i
<1>4. Ids(proc'[p].buf) = Ids(b) \cup {i}
  BY <1>1, <1>3, IdsAppend
<1>5. BelowInv'
  BY <1>1, <1>2, <1>4 DEF BelowInv, Others, b
<1>6. LossInv'
  <2> SUFFICES ASSUME fault' \cap Lost = {} PROVE KeptInv' /\ BatchInv'
    BY DEF LossInv
  <2>1. KeptInv /\ BatchInv
    BY DEF LossInv
  <2>2. KeptInv'
    BY <1>1, <1>2, <1>4, <2>1 DEF KeptInv, Others, b
  <2>3. BatchInv'
    BY <1>1, <1>4, <2>1 DEF BatchInv, Own, Others, b
  <2> QED
    BY <2>2, <2>3
<1>7. OnceInv'
  <2> SUFFICES ASSUME fault' \cap Doubled = {}
               PROVE  /\ Distinct(csv)
                      /\ \A q \in Procs : /\ Distinct(proc'[q].buf)
                                          /\ Ids(proc'[q].buf) \cap Ids(csv) = {}
                      /\ \A q, r \in Procs : q # r => Ids(proc'[q].buf) \cap Ids(proc'[r].buf) = {}
    BY <1>1 DEF OnceInv
  <2>1. fault \cap Doubled = {}
    OBVIOUS
  <2>2. i \notin Ids(csv) /\ \A q \in Procs : i \notin Ids(proc[q].buf)
    BY <1>2 DEF BelowInv
  <2>3. Distinct(proc'[p].buf)
    BY <1>1, <1>3, <2>1, <2>2, DistinctAppend DEF OnceInv, b
  <2>4. /\ Distinct(csv)
        /\ \A q \in Procs : Distinct(proc[q].buf) /\ Ids(proc[q].buf) \cap Ids(csv) = {}
        /\ \A q, r \in Procs : q # r => Ids(proc[q].buf) \cap Ids(proc[r].buf) = {}
    BY <2>1 DEF OnceInv
  <2>5. \A q \in Procs :
          Ids(proc'[q].buf) = IF q = p THEN Ids(proc[p].buf) \cup {i} ELSE Ids(proc[q].buf)
    BY <1>1, <1>4 DEF Others, b
  <2>6. \A q \in Procs : Distinct(proc'[q].buf)
    BY <1>1, <2>3, <2>4 DEF Others
  <2>7. \A q \in Procs : Ids(proc'[q].buf) \cap Ids(csv) = {}
    BY <2>2, <2>4, <2>5
  <2>8. \A q, r \in Procs : q # r => Ids(proc'[q].buf) \cap Ids(proc'[r].buf) = {}
    BY <2>2, <2>4, <2>5
  <2> QED
    BY <2>4, <2>6, <2>7, <2>8
<1> QED
  BY <1>5, <1>6, <1>7

LEMMA RowsSkips ==
  ASSUME Types, fault \subseteq fault', BelowInv, LossInv, OnceInv, NEW p \in Procs, Skips(p)
  PROVE  BelowInv' /\ LossInv' /\ OnceInv'
<1> DEFINE i == Frontier + 1
<1>1. /\ Others(p) /\ i <= N /\ Frontier' = i
      /\ csv' = csv /\ failed' = failed /\ recent' = recent /\ proc[p].pc \in Polling
      /\ "interrupt" \in fault' \/ (~ Stream[i].ok /\ proc'[p].pc \notin Late)
      /\ \A q \in Procs : proc'[q].buf = proc[q].buf
  BY DEF Skips, SameFiles, Others, Late, Polling
<1>2. Frontier \in Nat /\ 1 .. i = (1 .. Frontier) \cup {i}
  BY FrontierTyped
<1> HIDE DEF i
<1>3. BelowInv' /\ OnceInv'
  BY <1>1, <1>2 DEF BelowInv, OnceInv
<1>4. LossInv'
  <2> SUFFICES ASSUME fault' \cap Lost = {} PROVE KeptInv' /\ BatchInv'
    BY DEF LossInv
  <2>1. KeptInv /\ BatchInv
    BY DEF LossInv
  <2>2. KeptInv'
    BY <1>1, <1>2, <2>1 DEF KeptInv, Lost
  <2>3. BatchInv'
    BY <1>1, <2>1 DEF BatchInv, Own, Others, Lost
  <2> QED
    BY <2>2, <2>3
<1> QED
  BY <1>3, <1>4

LEMMA RowsCreates ==
  ASSUME Types, fault \subseteq fault', SavesInv, BelowInv, LossInv, OnceInv,
         NEW p \in Procs, Creates(p)
  PROVE  BelowInv' /\ LossInv' /\ OnceInv'
<1>1. /\ Others(p) /\ Frontier' = Frontier /\ csv' = <<>> /\ Ids(csv') = {} /\ Distinct(csv')
      /\ failed' = failed /\ recent' = recent
      /\ proc[p].pc = "create" /\ proc'[p].pc \in Polling \ Late
      /\ \A q \in Procs : proc'[q].buf = proc[q].buf
  BY EmptyRow DEF Creates, Others, Polling, Late
<1>2. BelowInv' /\ OnceInv'
  BY <1>1 DEF BelowInv, OnceInv
<1>3. LossInv'
  <2> SUFFICES ASSUME fault' \cap Lost = {} PROVE KeptInv' /\ BatchInv'
    BY DEF LossInv
  <2>1. KeptInv /\ BatchInv /\ csv = <<>>
    BY <1>1 DEF LossInv, SavesInv, Lost
  <2>2. Ids(csv') = Ids(csv)
    BY <1>1, <2>1
  <2>3. KeptInv'
    BY <1>1, <2>1, <2>2 DEF KeptInv
  <2>4. proc[p].pc \in Polling
    BY <1>1 DEF Polling
  <2>5. BatchInv'
    BY <1>1, <2>1, <2>2, <2>4 DEF BatchInv, Own, Others
  <2> QED
    BY <2>3, <2>5
<1> QED
  BY <1>2, <1>3

LEMMA RowsStores ==
  ASSUME Types, fault \subseteq fault', "kill" \notin fault', SavesInv, BelowInv, LossInv, OnceInv,
         NEW p \in Procs, Stores(p)
  PROVE  BelowInv' /\ LossInv' /\ OnceInv'
<1>1. /\ Others(p) /\ Frontier' = Frontier /\ failed' = failed /\ recent' = recent
      /\ proc'[p].buf = <<>> /\ proc[p].pc \in Polling \cap {"fill", "append"}
  BY DEF Stores, Polling
<1>2. csv \in Seq(Row) /\ proc[p].buf \in Seq(Row)
  BY ProcIs DEF Types
<1>3. /\ Ids(csv') \subseteq Ids(csv) \cup Ids(proc[p].buf)
      /\ p \notin mixed => Ids(csv) \subseteq Ids(csv')
      /\ p \notin mixed /\ (proc[p].pc = "append" => csvEnd # "torn") =>
           Ids(proc[p].buf) \subseteq Ids(csv')
      /\ Distinct(csv) /\ Distinct(proc[p].buf) /\ Ids(csv) \cap Ids(proc[p].buf) = {} =>
           Distinct(csv')
  BY <1>1, <1>2, ReachRows DEF Stores
<1>4. Ids(proc'[p].buf) = {} /\ Distinct(proc'[p].buf)
  BY <1>1, EmptyRow
<1>5. BelowInv'
  BY <1>1, <1>3, <1>4 DEF BelowInv, Others
<1>6. LossInv'
  <2> SUFFICES ASSUME fault' \cap Lost = {} PROVE KeptInv' /\ BatchInv'
    BY DEF LossInv
  <2>1. KeptInv /\ BatchInv /\ "clash" \notin fault
    BY DEF LossInv, Lost
  <2>2. p \notin mixed /\ (proc[p].pc = "append" => csvEnd # "torn")
    <3>1. fault \cap {"interrupt", "kill", "cut", "recovery"} = {}
      BY DEF Lost
    <3>2. mixed = {}
      BY <2>1 DEF SavesInv
    <3>3. ASSUME proc[p].pc = "append", csvEnd = "torn" PROVE FALSE
      <4>1. PICK q \in Procs : proc[q].pc = "fill"
        BY <2>1, <3>1, <3>3 DEF SavesInv
      <4>2. p = q
        BY <2>1, <3>3, <4>1 DEF SavesInv, Saves
      <4> QED
        BY <3>3, <4>1, <4>2
    <3> QED
      BY <3>2, <3>3
  <2>3. Ids(csv') = Ids(csv) \cup Ids(proc[p].buf)
    BY <1>3, <2>2
  <2>4. KeptInv'
    BY <1>1, <1>4, <2>1, <2>3 DEF KeptInv, Others
  <2>5. BatchInv'
    BY <1>1, <1>4, <2>1, <2>3 DEF BatchInv, Own, Others
  <2> QED
    BY <2>4, <2>5
<1>7. OnceInv'
  <2> SUFFICES ASSUME fault' \cap Doubled = {}
               PROVE  /\ Distinct(csv')
                      /\ \A q \in Procs : /\ Distinct(proc'[q].buf)
                                          /\ Ids(proc'[q].buf) \cap Ids(csv') = {}
                      /\ \A q, r \in Procs : q # r => Ids(proc'[q].buf) \cap Ids(proc'[r].buf) = {}
    BY DEF OnceInv
  <2>1. fault \cap Doubled = {}
    OBVIOUS
  <2>2. Distinct(csv')
    BY <1>3, <2>1 DEF OnceInv
  <2> QED
    BY <1>1, <1>3, <1>4, <2>1, <2>2 DEF OnceInv, Others
<1> QED
  BY <1>5, <1>6, <1>7

LEMMA RowsRetries ==
  ASSUME Types, fault \subseteq fault', SavesInv, BelowInv, LossInv, OnceInv,
         NEW p \in Procs, Retries(p)
  PROVE  BelowInv' /\ LossInv' /\ OnceInv'
<1>1. /\ Others(p) /\ Frontier' = Frontier /\ fault' \cap Doubled # {} /\ proc[p].pc \in Polling
      /\ \A q \in Procs : proc'[q].buf = proc[q].buf
  BY DEF Retries, Others
<1>2. /\ Ids(csv') \subseteq Ids(csv) \cup Ids(proc[p].buf)
      /\ p \notin mixed => Ids(csv) \subseteq Ids(csv')
  BY LeavesRows DEF Retries
<1>3. BelowInv'
  BY <1>1, <1>2 DEF BelowInv
<1>4. LossInv'
  <2> SUFFICES ASSUME fault' \cap Lost = {} PROVE KeptInv' /\ BatchInv'
    BY DEF LossInv
  <2>1. KeptInv /\ BatchInv /\ mixed = {}
    BY DEF LossInv, SavesInv, Lost
  <2>2. Ids(csv) \subseteq Ids(csv')
    BY <1>2, <2>1
  <2>3. /\ recent'.by = p /\ recent'.ids = Ids(proc[p].buf)
        /\ \/ failed' = failed \cup recent.ids
           \/ recent.by = p /\ failed' = failed
    BY DEF Retries
  <2>4. recent.by = p => recent.ids \subseteq Ids(csv) \cup Ids(proc[p].buf)
    BY <1>1, <2>1 DEF BatchInv, Own
  <2>5. KeptInv'
    BY <1>1, <2>1, <2>2, <2>3, <2>4 DEF KeptInv
  <2>6. ASSUME NEW q \in Procs, q # p, proc'[q].pc \in Late
        PROVE  Ids(proc'[q].buf) \subseteq failed' \cup Own(q)'
    <3>1. Ids(proc[q].buf) \subseteq failed \cup Own(q)
      BY <1>1, <2>1, <2>6 DEF BatchInv, Others
    <3> QED
      BY <1>1, <2>3, <2>6, <3>1 DEF Own
  <2>7. \A q \in Procs : Own(q)' = IF q = p THEN Ids(proc[p].buf) ELSE {}
    BY <2>3 DEF Own
  <2> QED
    BY <1>1, <2>5, <2>6, <2>7 DEF BatchInv
<1>5. OnceInv'
  BY <1>1 DEF OnceInv
<1> QED
  BY <1>3, <1>4, <1>5

LEMMA DeliveryStep ==
  ASSUME Types, SavesInv, DeliveryInv, [Next]_vars
  PROVE  DeliveryInv'
<1>1. fault \subseteq fault'
  BY FaultGrows
<1> SUFFICES ASSUME "kill" \notin fault'
             PROVE  OwnerInv' /\ EmptyInv' /\ BelowInv' /\ LossInv' /\ OnceInv'
  BY DEF DeliveryInv
<1>2. OwnerInv /\ EmptyInv /\ BelowInv /\ LossInv /\ OnceInv
  BY <1>1 DEF DeliveryInv
<1>3. CASE UNCHANGED vars
  <2>1. UNCHANGED <<proc, committed, owner, csv, failed, recent, fault>>
    BY <1>3 DEF vars, disk, broker, saves, batches
  <2> QED
    BY <1>2, <2>1 DEF OwnerInv, EmptyInv, BelowInv, LossInv, KeptInv, BatchInv, Own, OnceInv,
                      Frontier
<1>4. CASE Next
  <2>1. PICK p \in Procs : \/ CheckLock(p) \/ StartByHand(p) \/ Step(p)
                           \/ Assign(p) \/ AutoCommit(p) \/ Consume(p)
                           \/ Interrupt(p) \/ Kill(p)
    BY <1>4 DEF Next
  <2>2. OwnerInv' /\ AnyKind(p)
    BY <1>2, <2>1, KindOf
  <2>3. EmptyInv'
    BY <1>2, <2>2, EmptyStep
  <2>4. BelowInv' /\ LossInv' /\ OnceInv'
    BY <1>1, <1>2, <2>2, RowsQuiet, RowsCloses, RowsTakes, RowsSkips, RowsCreates, RowsStores,
       RowsRetries DEF AnyKind
  <2> QED
    BY <2>2, <2>3, <2>4
<1> QED
  BY <1>3, <1>4

LEMMA DeliveryMeans ==
  ASSUME Types, DeliveryInv
  PROVE  NoSilentLoss /\ RowsOnce
<1>1. Saved = Ids(csv) /\ Buffered = UNION {Ids(proc[p].buf) : p \in Procs}
  BY DEF Saved, Buffered, Ids
<1>2. NoSilentLoss
  <2> SUFFICES ASSUME fault \cap {"kill", "interrupt", "recovery", "cut", "clash", "second"} = {},
                      NEW i \in 1 .. committed, Stream[i].ok
               PROVE  i \in Saved \cup failed \cup recent.ids \cup Buffered
    BY DEF NoSilentLoss
  <2>1. OwnerInv /\ KeptInv
    BY DEF DeliveryInv, LossInv, Lost
  <2>2. i \in 1 .. Frontier
    BY <2>1, FrontierTyped DEF OwnerInv, Types
  <2> QED
    BY <1>1, <2>1, <2>2 DEF KeptInv
<1>3. RowsOnce
  BY DEF RowsOnce, DeliveryInv, OnceInv, Doubled, Distinct
<1> QED
  BY <1>2, <1>3
-----------------------------------------------------------------------------
(* What is known.  The messages of a source among the first n, and what    *)
(* the last of them said.                                                  *)
Seen(n, s) == {j \in 1 .. n : Stream[j].ok /\ Stream[j].source = s}
LastOf(S) == CHOOSE j \in S : \A k \in S : k <= j
Latest(n) == [s \in Sources |-> IF Seen(n, s) = {} THEN None ELSE Tracked(LastOf(Seen(n, s)))]

LEMMA LastIs ==
  ASSUME NEW S \in SUBSET Nat, NEW i \in S, \A k \in S : k <= i
  PROVE  LastOf(S) = i
<1>1. LastOf(S) \in S /\ \A k \in S : k <= LastOf(S)
  BY DEF LastOf
<1>2. LastOf(S) <= i /\ i <= LastOf(S)
  BY <1>1
<1>3. LastOf(S) \in Nat /\ i \in Nat
  BY <1>1
<1> QED
  BY <1>2, <1>3

LEMMA LatestFirst == Latest(0) = Unknown
<1>1. \A s : Seen(0, s) = {}
  BY DEF Seen
<1> QED
  BY <1>1 DEF Latest, Unknown

(* One more message that decodes is what its source said last; one that    *)
(* does not changes nothing.                                               *)
LEMMA LatestNext ==
  ASSUME NEW n \in Nat, NEW i, i = n + 1, i <= N
  PROVE  /\ Stream[i].ok => Latest(i) = [Latest(n) EXCEPT ![Stream[i].source] = Tracked(i)]
         /\ ~ Stream[i].ok => Latest(i) = Latest(n)
<1>1. 1 .. i = (1 .. n) \cup {i} /\ i \in Nat /\ i \in 1 .. N
  BY StreamFacts
<1>2. CASE Stream[i].ok
  <2> DEFINE o == Stream[i].source
  <2>1. Seen(i, o) = Seen(n, o) \cup {i} /\ \A s : s # o => Seen(i, s) = Seen(n, s)
    BY <1>1, <1>2 DEF Seen
  <2>2. LastOf(Seen(i, o)) = i
    <3>1. Seen(i, o) \in SUBSET Nat /\ i \in Seen(i, o) /\ \A k \in Seen(i, o) : k <= i
      BY <1>1, <2>1 DEF Seen
    <3> HIDE DEF o
    <3> QED
      BY <3>1, LastIs
  <2>3. o \in Sources
    BY <1>1, StreamFacts DEF Sources
  <2> QED
    BY <1>2, <2>1, <2>2, <2>3 DEF Latest
<1>3. CASE ~ Stream[i].ok
  <2>1. \A s : Seen(i, s) = Seen(n, s)
    BY <1>1, <1>3 DEF Seen
  <2> QED
    BY <1>3, <2>1 DEF Latest
<1> QED
  BY <1>2, <1>3

(* The row made by somebody who knows all before the message is right.     *)
LEMMA ReasonIsExpected ==
  ASSUME NEW n \in Nat, NEW i, i = n + 1, i <= N
  PROVE  Reason(Latest(n)[Stream[i].source], Tracked(i)) = Expected(i)
<1>1. i \in 1 .. N /\ i - 1 = n
  BY StreamFacts
<1>2. Stream[i].source \in Sources
  BY <1>1, StreamFacts DEF Sources
<1>3. Before(i) = Seen(n, Stream[i].source)
  BY <1>1 DEF Before, Seen
<1>4. Expected(i) = Reason(IF Before(i) = {} THEN None ELSE Tracked(LastOf(Before(i))), Tracked(i))
  BY DEF Expected, LastOf
<1> QED
  BY <1>2, <1>3, <1>4 DEF Latest

-----------------------------------------------------------------------------
(* Without a kill, a failed write of the state, or two consumers at a      *)
(* time, the one consumer knows all up to the frontier; the state file     *)
(* says the same whenever no consumer is at work on it; and every row      *)
(* compares its message with the one before.                               *)
Active(p) == proc[p].pc \in Polling
Current == ~ stateFile.torn /\ stateFile.known = Latest(Frontier)
Right(s) == \A j \in DOMAIN s : s[j][2] = Expected(s[j][1])

ActiveInv ==
    /\ \A p, q \in Procs : Active(p) /\ Active(q) => p = q
    /\ \A p \in Procs : Active(p) => proc[p].known = Latest(Frontier)
    /\ (\A p \in Procs : Active(p) => proc[p].pc = "close") => Current

RightInv == Right(csv) /\ \A p \in Procs : Right(proc[p].buf)

KnownInv == fault \cap {"kill", "state", "overlap"} = {} => ActiveInv /\ RightInv

LEMMA RightConcat ==
  ASSUME NEW s \in Seq(Row), NEW t \in Seq(Row), Right(s), Right(t)
  PROVE  Right(s \o t)
<1>1. \A u \in Seq(Row) : Right(u) <=> \A row \in Range(u) : row[2] = Expected(row[1])
  BY DEF Right, Range
<1>2. Range(s \o t) = Range(s) \cup Range(t) /\ s \o t \in Seq(Row)
  BY RangeConcatenation, ConcatProperties
<1> HIDE DEF Right
<1> QED
  BY <1>1, <1>2

LEMMA RightPrefix ==
  ASSUME NEW s \in Seq(Row), NEW n \in 0 .. Len(s), Right(s)
  PROVE  Right(SubSeq(s, 1, n))
<1>1. Len(s) \in Nat /\ DOMAIN s = 1 .. Len(s) /\ \A i \in 1 .. Len(s) : s[i] \in Row
  BY LenProperties
<1>2. /\ SubSeq(s, 1, n) \in Seq(Row) /\ Len(SubSeq(s, 1, n)) = n
      /\ \A i \in 1 .. n : SubSeq(s, 1, n)[i] = s[i]
  BY <1>1, SubSeqProperties
<1>3. DOMAIN SubSeq(s, 1, n) = 1 .. n
  BY <1>2, LenProperties
<1> QED
  BY <1>1, <1>2, <1>3 DEF Right

LEMMA RightReach ==
  ASSUME Types, NEW p \in Procs, NEW rows \in Seq(Row), Reach(p, rows),
         proc[p].pc \in {"fill", "append"}, Right(csv), Right(rows)
  PROVE  Right(csv')
<1>1. PICK s \in Seq(Row) : \E i \in 1 .. Len(s) + 1 : \E j \in i .. Len(s) + 1 :
           /\ \/ s = rows \o csv /\ csv' = Without(s, i, j) /\ proc[p].pc = "fill"
              \/ s = rows /\ csv' = csv \o Without(s, i, j) /\ proc[p].pc = "append"
           /\ csv' \in Seq(Row)
           /\ p \notin mixed => \/ j = i
                                \/ proc[p].pc = "append" /\ csvEnd = "torn"
  BY ReachIs
<1>2. PICK i \in 1 .. Len(s) + 1 : \E j \in i .. Len(s) + 1 :
           \/ s = rows \o csv /\ csv' = Without(s, i, j)
           \/ s = rows /\ csv' = csv \o Without(s, i, j)
  BY <1>1
<1>3. PICK j \in i .. Len(s) + 1 :
           \/ s = rows \o csv /\ csv' = Without(s, i, j)
           \/ s = rows /\ csv' = csv \o Without(s, i, j)
  BY <1>2
<1>4. csv \in Seq(Row)
  BY DEF Types
<1> DEFINE w == Without(s, i, j)
<1>5. w \in Seq(Row) /\ (Right(s) => Right(w))
  BY WithoutIs, WithoutRows DEF Right
<1> HIDE DEF w
<1>6. CASE s = rows \o csv /\ csv' = w
  BY <1>4, <1>5, <1>6, RightConcat
<1>7. CASE s = rows /\ csv' = csv \o w
  BY <1>4, <1>5, <1>7, RightConcat
<1> QED
  BY <1>3, <1>6, <1>7 DEF w

LEMMA RightStep ==
  ASSUME Types, OwnerInv, ActiveInv, RightInv, NEW p \in Procs, AnyKind(p)
  PROVE  RightInv'
<1>1. csv \in Seq(Row) /\ proc[p].buf \in Seq(Row)
  BY ProcIs DEF Types
<1>2. Right(<<>>)
  BY DEF Right
<1>3. CASE Quiet(p) \/ Closes(p) \/ Skips(p)
  BY <1>2, <1>3 DEF Quiet, Closes, Skips, SameFiles, RightInv, Others
<1>7. CASE Creates(p)
  BY <1>2, <1>7 DEF Creates, RightInv, Others
<1>4. CASE Stores(p)
  <2>1. Right(csv')
    BY <1>1, <1>4, RightReach DEF Stores, RightInv
  <2> QED
    BY <1>2, <1>4, <2>1 DEF Stores, RightInv, Others
<1>5. CASE Retries(p)
  <2>1. Right(csv')
    <3>1. CASE UNCHANGED saves
      BY <3>1 DEF saves, RightInv
    <3>2. CASE ~ UNCHANGED saves
      <4>1. PICK n \in 0 .. Len(proc[p].buf) : Reach(p, SubSeq(proc[p].buf, 1, n))
        BY <1>5, <3>2 DEF Retries, Leaves
      <4> DEFINE rows == SubSeq(proc[p].buf, 1, n)
      <4>2. rows \in Seq(Row) /\ Right(rows) /\ Reach(p, rows)
        BY <1>1, <4>1, PrefixTyped, RightPrefix DEF RightInv
      <4>3. proc[p].pc \in {"fill", "append"}
        BY <1>5, <3>2 DEF Retries, Leaves
      <4> HIDE DEF rows
      <4> QED
        BY <4>2, <4>3, RightReach DEF RightInv
    <3> QED
      BY <3>1, <3>2
  <2> QED
    BY <1>5, <2>1 DEF Retries, RightInv, Others
<1>6. CASE Takes(p)
  <2> DEFINE i == Frontier + 1
             row == <<i, Reason(proc[p].known[Stream[i].source], Tracked(i))>>
  <2>1. i <= N /\ Frontier \in Nat /\ i \in 1 .. N
    BY <1>6, FrontierTyped, StreamFacts DEF Takes
  <2>2. proc[p].known = Latest(Frontier)
    BY <1>6 DEF Takes, ActiveInv, Active, Polling
  <2>3. row \in Row /\ row[2] = Expected(row[1])
    BY <2>1, <2>2, ReasonTyped, ReasonIsExpected DEF Row
  <2>4. csv' = csv /\ proc'[p].buf = Append(proc[p].buf, row) /\ Others(p)
    BY <1>6 DEF Takes, SameFiles
  <2> HIDE DEF row
  <2>5. Right(proc'[p].buf)
    <3> DEFINE t == <<row>>
    <3>1. t \in Seq(Row) /\ proc'[p].buf = proc[p].buf \o t
      BY <1>1, <2>3, <2>4, AppendIsConcat
    <3>2. Right(t)
      BY <2>3 DEF Right
    <3> HIDE DEF t
    <3> QED
      BY <1>1, <3>1, <3>2, RightConcat DEF RightInv
  <2> QED
    BY <2>4, <2>5 DEF RightInv, Others
<1> QED
  BY <1>3, <1>4, <1>5, <1>6, <1>7 DEF AnyKind

LEMMA ActiveGoesOn ==
  ASSUME ActiveInv, NEW p \in Procs, Active(p), Others(p), proc'[p].pc \in Polling,
         proc'[p].known = Latest(Frontier'), proc'[p].pc = "close" => Current'
  PROVE  ActiveInv'
  BY DEF ActiveInv, Active, Others

LEMMA ActiveStops ==
  ASSUME ActiveInv, NEW p \in Procs, Others(p), proc'[p].pc \notin Polling,
         proc[p].pc \in Polling => proc[p].pc = "close",
         stateFile' = stateFile, Frontier' = Frontier
  PROVE  ActiveInv'
<1>1. \A q \in Procs : q # p => proc'[q] = proc[q]
  BY DEF Others
<1>2. Current' <=> Current
  BY DEF Current
<1> QED
  BY <1>1, <1>2 DEF ActiveInv, Active

LEMMA ActiveStep ==
  ASSUME Types, OwnerInv, EmptyInv, ActiveInv, NEW p \in Procs,
         fault' \cap {"kill", "state", "overlap"} = {},
         \/ CheckLock(p) \/ StartByHand(p) \/ Step(p)
         \/ Assign(p) \/ AutoCommit(p) \/ Consume(p)
         \/ Interrupt(p) \/ Kill(p)
  PROVE  ActiveInv'
<1>1. CASE CheckLock(p) \/ StartByHand(p) \/ WriteLock(p) \/ RemoveLock(p)
  <2>1. proc[p].pc \in Still /\ stateFile' = stateFile /\ UNCHANGED <<committed, owner>>
    BY <1>1 DEF CheckLock, StartByHand, WriteLock, RemoveLock, Still, broker, disk
  <2>2. proc[p].pc \notin Polling /\ owner # p
    BY <2>1, OwnerPolls DEF Still, Polling
  <2>3. PICK c \in {"checked", "boot", "off"} : \E s, k, b, o, e :
          Moves(p, c, s, k, b, o, e)
    BY <1>1, CheckLockMoves, StartByHandMoves, WriteLockMoves, RemoveLockMoves
  <2>3b. PICK s, k, b, o, e : Moves(p, c, s, k, b, o, e)
    BY <2>3
  <2>4. Frontier' = Frontier /\ Others(p) /\ proc'[p].pc = c
    BY <2>1, <2>2, <2>3b, FrontierStays
  <2>5. proc'[p].pc \notin Polling
    BY <2>4 DEF Polling
  <2> QED
    BY <2>1, <2>2, <2>4, <2>5, ActiveStops
<1>2. CASE LoadState(p)
  <2> DEFINE k == IF stateFile.torn THEN Unknown ELSE stateFile.known
  <2>1. /\ proc[p].pc = "boot" /\ UNCHANGED <<committed, owner, stateFile>>
        /\ \A q \in Procs \ {p} : proc[q].pc \notin Consuming
    BY <1>2 DEF LoadState, Faulty, Faults, broker
  <2>2. Moves(p, "loop", proc[p].script, k, proc[p].buf, proc[p].pos, proc[p].ending)
    BY <1>2, LoadStateMoves
  <2>3. \A q \in Procs : ~ Active(q)
    BY <2>1 DEF Active, Polling, Consuming, Saves
  <2>4. k = Latest(Frontier)
    BY <2>3 DEF ActiveInv, Current
  <2> HIDE DEF k
  <2>5. owner # p
    BY <2>1, OwnerPolls DEF Polling
  <2>6. Frontier' = Frontier /\ Fields(p, "loop", proc[p].script, k, proc[p].buf, proc[p].pos,
                                      proc[p].ending)
    BY <2>1, <2>2, <2>5, FrontierStays, MovesFields
  <2> QED
    BY <2>3, <2>4, <2>6 DEF ActiveInv, Active, Fields, Polling
<1>3. ASSUME NEW c \in Polling, NEW s, NEW b, NEW e,
             Moves(p, c, s, proc[p].known, b, proc[p].pos, e), Active(p),
             UNCHANGED <<committed, owner>>,
             c = "close" => Current'
      PROVE  ActiveInv'
  <2>1. Frontier' = Frontier /\ Fields(p, c, s, proc[p].known, b, proc[p].pos, e)
    BY <1>3, FrontierStays, MovesFields
  <2>2. proc'[p].known = Latest(Frontier')
    BY <1>3, <2>1 DEF ActiveInv, Fields
  <2> QED
    BY <1>3, <2>1, <2>2, ActiveGoesOn DEF Fields, Others
<1>4. CASE LeaveLoop(p)
  <2>1. Active(p) /\ UNCHANGED <<committed, owner>>
    BY <1>4 DEF LeaveLoop, Active, Polling, broker
  <2>2. PICK c \in {"csv", "truncate"} : \E e :
          Moves(p, c, proc[p].script, proc[p].known, proc[p].buf, proc[p].pos, e)
    BY <1>4, EndingMoves DEF LeaveLoop
  <2>2b. PICK e : Moves(p, c, proc[p].script, proc[p].known, proc[p].buf, proc[p].pos, e)
    BY <2>2
  <2> QED
    BY <1>3, <2>1, <2>2b DEF Polling
<1>5. CASE WriteRows(p)
  <2>1. Active(p) /\ UNCHANGED <<committed, owner>>
    BY <1>5 DEF WriteRows, Active, Polling, broker
  <2> QED
    BY <1>3, <1>5, <2>1, WriteRowsMoves DEF Polling
<1>6. CASE SaveFails(p)
  <2>1. Active(p) /\ UNCHANGED <<committed, owner>>
    BY <1>6 DEF SaveFails, Stops, Active, Polling, broker
  <2>2. PICK c \in {"loop", "truncate"} : \E e :
          Moves(p, c, proc[p].script, proc[p].known, proc[p].buf, proc[p].pos, e)
    BY <1>6, SaveFailsMoves
  <2>2b. PICK e : Moves(p, c, proc[p].script, proc[p].known, proc[p].buf, proc[p].pos, e)
    BY <2>2
  <2> QED
    BY <1>3, <2>1, <2>2b DEF Polling
<1>18. CASE LookForCsv(p)
  <2>1. Active(p) /\ UNCHANGED <<committed, owner>>
    BY <1>18 DEF LookForCsv, Active, Polling, broker
  <2>2. PICK c \in {"create", "append"} :
          Moves(p, c, proc[p].script, proc[p].known, proc[p].buf, proc[p].pos, proc[p].ending)
    BY <1>18, LookForCsvMoves
  <2> QED
    BY <1>3, <2>1, <2>2 DEF Polling
<1>19. CASE CreateCsv(p)
  <2>1. Active(p) /\ UNCHANGED <<committed, owner>>
    BY <1>19 DEF CreateCsv, Active, Polling, broker
  <2> QED
    BY <1>3, <1>19, <2>1, CreateCsvMoves DEF Polling
<1>7. CASE Truncate(p)
  <2>1. Active(p) /\ UNCHANGED <<committed, owner>>
    BY <1>7 DEF Truncate, Active, Polling, broker
  <2>2. Moves(p, "write", proc[p].script, proc[p].known, proc[p].buf, proc[p].pos, proc[p].ending)
    BY <1>7, PcMoves DEF Truncate
  <2> QED
    BY <1>3, <2>1, <2>2 DEF Polling
<1>8. CASE WriteState(p)
  <2>1. /\ Active(p) /\ UNCHANGED <<committed, owner>>
        /\ stateFile' = [torn |-> FALSE, known |-> proc[p].known]
    BY <1>8 DEF WriteState, Active, Polling, broker
  <2>2. PICK c \in {"loop", "truncate", "close"} : \E e :
          Moves(p, c, proc[p].script, proc[p].known, proc[p].buf, proc[p].pos, e)
    BY <1>8, WrittenMoves DEF WriteState
  <2>2b. PICK e : Moves(p, c, proc[p].script, proc[p].known, proc[p].buf, proc[p].pos, e)
    BY <2>2
  <2>3. c \in Polling
    BY DEF Polling
  <2>4. Frontier' = Frontier
    BY <2>1, <2>2b, <2>3, FrontierStays
  <2>5. Current'
    BY <2>1, <2>4 DEF Current, ActiveInv
  <2> QED
    BY <1>3, <2>1, <2>2b, <2>3, <2>5
<1>9. CASE WriteStateFails(p)
  BY <1>9 DEF WriteStateFails, Faulty, Faults
<1>10. CASE Close(p)
  <2>1. Closes(p) /\ stateFile' = stateFile
    BY <1>10, KindClose DEF Close, disk
  <2> QED
    BY <2>1, ActiveStops DEF Closes, Still, Polling
<1>11. CASE Assign(p)
  <2>1. Quiet(p) /\ proc[p].pc = "loop"
    BY <1>11, KindAssign DEF Assign
  <2>2. Fields(p, proc[p].pc, proc[p].script, proc[p].known, proc[p].buf, committed',
               proc[p].ending)
    BY <1>11, AssignMoves, MovesFields
  <2>3. Active(p) /\ proc'[p].pc = "loop" /\ proc'[p].known = Latest(Frontier')
    BY <2>1, <2>2 DEF Quiet, Fields, ActiveInv, Active, Polling
  <2> QED
    BY <2>1, <2>3, ActiveGoesOn DEF Quiet, Polling
<1>12. CASE AutoCommit(p)
  <2>1. Frontier' = Frontier /\ proc' = proc /\ stateFile' = stateFile
    BY <1>12, KindAutoCommit DEF Quiet, AutoCommit, disk
  <2> QED
    BY <2>1 DEF ActiveInv, Active, Current
<1>13. CASE Consume(p)
  <2> DEFINE i == proc[p].pos + 1
             s == Stream[i].source
             row == <<i, Reason(proc[p].known[s], Tracked(i))>>
             k == IF Stream[i].ok THEN [proc[p].known EXCEPT ![s] = Tracked(i)] ELSE proc[p].known
  <2>1. /\ owner = p /\ proc[p].pc = "loop" /\ owner' = owner
        /\ Frontier = proc[p].pos /\ p # None
    BY <1>13, LegacyAssumption DEF Consume, Frontier, broker
  <2>2. Frontier' = i /\ Frontier \in Nat /\ i = Frontier + 1 /\ i <= N
    BY <1>13, <2>1, KindConsume, FrontierTyped DEF Takes, Skips
  <2>3. PICK c \in {"loop", "csv"} : \E b, o, e :
          Moves(p, c, proc[p].script, k, b, o, e)
    <3>1. CASE Stream[i].ok
      BY <1>13, <3>1, ConsumeMoves
    <3>2. CASE ~ Stream[i].ok
      BY <1>13, <3>2, ConsumeMoves
    <3> QED
      BY <3>1, <3>2
  <2>3b. PICK b, o, e : Moves(p, c, proc[p].script, k, b, o, e)
    BY <2>3
  <2>4. k = Latest(i)
    <3>1. proc[p].known = Latest(Frontier)
      BY <2>1 DEF ActiveInv, Active, Polling
    <3> QED
      BY <2>2, <3>1, LatestNext
  <2> HIDE DEF k, i
  <2>5. Fields(p, c, proc[p].script, k, b, o, e)
    BY <2>3b, MovesFields
  <2> QED
    BY <2>1, <2>2, <2>4, <2>5, ActiveGoesOn DEF Fields, Others, Active, Polling
<1>14. CASE InterruptReads(p) /\ owner' = owner
  <2> DEFINE i == proc[p].pos + 1
             k == IF Stream[i].ok THEN [proc[p].known EXCEPT ![Stream[i].source] = Tracked(i)]
                                  ELSE proc[p].known
  <2>1. /\ owner = p /\ proc[p].pc = "loop" /\ proc[p].pos < N
        /\ Frontier = proc[p].pos /\ p # None
    BY <1>14, LegacyAssumption DEF InterruptReads, Frontier
  <2>2. PICK c \in {"csv", "truncate"} : \E b, e :
          Moves(p, c, proc[p].script, k, b, i, e)
    BY <1>14 DEF InterruptReads
  <2>2b. PICK b, e : Moves(p, c, proc[p].script, k, b, i, e)
    BY <2>2
  <2>3. Frontier \in Nat /\ i = Frontier + 1 /\ i <= N
    BY <2>1, FrontierTyped, StreamFacts
  <2>4. k = Latest(i)
    <3>1. proc[p].known = Latest(Frontier)
      BY <2>1 DEF ActiveInv, Active, Polling
    <3> QED
      BY <2>3, <3>1, LatestNext
  <2> HIDE DEF k, i
  <2>5. Fields(p, c, proc[p].script, k, b, i, e)
    BY <2>2b, MovesFields
  <2>6. Frontier' = i
    BY <1>14, <2>1, <2>5 DEF Frontier, Fields
  <2> QED
    BY <2>1, <2>4, <2>5, <2>6, ActiveGoesOn DEF Fields, Others, Active, Polling
<1>15. CASE InterruptSaves(p) /\ UNCHANGED <<committed, owner>>
  <2>1. Active(p)
    BY <1>15 DEF InterruptSaves, Active, Polling, Saves
  <2>2. PICK c \in {"csv", "truncate"} : \E e :
          Moves(p, c, proc[p].script, proc[p].known, proc[p].buf, proc[p].pos, e)
    BY <1>15 DEF InterruptSaves
  <2>2b. PICK e : Moves(p, c, proc[p].script, proc[p].known, proc[p].buf, proc[p].pos, e)
    BY <2>2
  <2> QED
    BY <1>3, <1>15, <2>1, <2>2b DEF Polling
<1>16. CASE Interrupt(p)
  BY <1>14, <1>15, <1>16, InterruptMoves DEF Interrupt, broker
<1>17. CASE Kill(p)
  <2>1. KillsScript(p) /\ UNCHANGED <<committed, owner, stateFile>>
    BY <1>17, KillMoves DEF KillsPython, KillsBoth, Kill, broker
  <2>2. Fields(p, proc[p].pc, FALSE, proc[p].known, proc[p].buf, proc[p].pos, proc[p].ending)
    BY <2>1, MovesFields DEF KillsScript
  <2>3. Frontier' = Frontier
    BY <2>1, <2>2 DEF Frontier, Fields, Types
  <2>4. \A q \in Procs : proc'[q].pc = proc[q].pc /\ proc'[q].known = proc[q].known
    BY <2>2 DEF Fields
  <2> QED
    BY <2>1, <2>3, <2>4 DEF ActiveInv, Active, Current
<1> QED
  BY <1>1, <1>2, <1>4, <1>5, <1>6, <1>7, <1>8, <1>9, <1>10, <1>11, <1>12, <1>13, <1>16, <1>17,
     <1>18, <1>19 DEF Step

LEMMA KnownInit == Init => KnownInv
<1> SUFFICES ASSUME Init PROVE ActiveInv /\ RightInv
  BY DEF KnownInv
<1>1. \A p \in Procs : proc[p].buf = <<>> /\ proc[p].pc = "off"
  BY DEF Init, Off
<1>2. csv = <<>> /\ Frontier = 0 /\ ~ stateFile.torn /\ stateFile.known = Unknown
  BY DEF Init, Frontier
<1>3. ActiveInv
  BY <1>1, <1>2, LatestFirst DEF ActiveInv, Active, Current, Polling
<1>4. RightInv
  BY <1>1, <1>2 DEF RightInv, Right
<1> QED
  BY <1>3, <1>4

LEMMA KnownStep ==
  ASSUME Types, DeliveryInv, KnownInv, [Next]_vars
  PROVE  KnownInv'
<1>1. fault \subseteq fault'
  BY FaultGrows
<1> SUFFICES ASSUME fault' \cap {"kill", "state", "overlap"} = {}
             PROVE  ActiveInv' /\ RightInv'
  BY DEF KnownInv
<1>2. OwnerInv /\ EmptyInv /\ ActiveInv /\ RightInv
  BY <1>1 DEF DeliveryInv, KnownInv
<1>3. CASE UNCHANGED vars
  <2>1. UNCHANGED <<proc, committed, owner, csv, stateFile>>
    BY <1>3 DEF vars, disk, broker, saves
  <2> QED
    BY <1>2, <2>1 DEF ActiveInv, RightInv, Active, Current, Frontier
<1>4. CASE Next
  <2>1. PICK p \in Procs : \/ CheckLock(p) \/ StartByHand(p) \/ Step(p)
                           \/ Assign(p) \/ AutoCommit(p) \/ Consume(p)
                           \/ Interrupt(p) \/ Kill(p)
    BY <1>4 DEF Next
  <2>2. ActiveInv'
    BY <1>2, <2>1, ActiveStep
  <2>3. AnyKind(p)
    BY <1>2, <2>1, KindOf
  <2> QED
    BY <1>2, <2>2, <2>3, RightStep
<1> QED
  BY <1>3, <1>4

LEMMA KnownMeans ==
  ASSUME Types, DeliveryInv, KnownInv
  PROVE  FlagsFollowStream /\ StateIsCurrent
<1>1. FlagsFollowStream
  BY DEF FlagsFollowStream, KnownInv, RightInv, Right
<1>2. StateIsCurrent
  <2> SUFFICES ASSUME NoneRuns, fault \cap {"kill", "state", "overlap"} = {}
               PROVE  /\ ~ stateFile.torn
                      /\ \A s \in Sources :
                          LET seen == {j \in 1 .. committed : Stream[j].ok /\ Stream[j].source = s}
                          IN stateFile.known[s] =
                               IF seen = {} THEN None
                               ELSE Tracked(CHOOSE j \in seen : \A k \in seen : k <= j)
    BY DEF StateIsCurrent
  <2>1. \A p \in Procs : ~ Active(p)
    BY DEF NoneRuns, Active, Polling, Consuming, Saves
  <2>2. owner = None
    BY <2>1 DEF DeliveryInv, OwnerInv, Active, Types
  <2>3. Current /\ Frontier = committed
    BY <2>1, <2>2 DEF KnownInv, ActiveInv, Frontier
  <2>4. stateFile.known = Latest(committed) /\ ~ stateFile.torn
    BY <2>3 DEF Current
  <2> QED
    BY <2>4 DEF Latest, Seen, LastOf
<1> QED
  BY <1>1, <1>2

-----------------------------------------------------------------------------
(* The invariant of the consumer: lock, saves, delivery and knowledge,     *)
(* over the types.                                                         *)
ConsumerInv == Types /\ LockInv /\ SavesInv /\ DeliveryInv /\ KnownInv

(* Every step of the script, the consumer, Kafka and the failures keeps    *)
(* it; the steps of the other stores leave the consumer alone.             *)
THEOREM ConsumerInvariant == StoreSpec => []ConsumerInv
<1>1. StoreInit => ConsumerInv
  BY TypesInit, LockInvInit, SavesInit, DeliveryInit, KnownInit DEF StoreInit, ConsumerInv
<1>2. ConsumerInv /\ [StoreNext]_storeVars => ConsumerInv'
  BY ConsumerSteps, TypesStep, LockInvStep, SavesStep, DeliveryStep, KnownStep DEF ConsumerInv
<1> QED
  BY <1>1, <1>2, PTL DEF StoreSpec

(* The state of the consumer, its files and the broker keep their types:   *)
(* src/lsst_alert_consumer.py and the script that starts it.               *)
THEOREM ConsumerTypes == StoreSpec => []TypeOK
<1>1. ConsumerInv => TypeOK
  BY TypesMean DEF ConsumerInv
<1> QED
  BY <1>1, ConsumerInvariant, PTL

(* Two scripts never run a consumer at the same time, unless they checked  *)
(* the PID file at the same time or a script was killed alone:             *)
(* bin/run_lsst_consumer.sh.                                               *)
THEOREM LockHolds == StoreSpec => []LockExcludes
<1>1. ConsumerInv => LockExcludes
  BY LockInvMeans DEF ConsumerInv
<1> QED
  BY <1>1, ConsumerInvariant, PTL

(* A message that Kafka will not deliver again is saved, in the file of a  *)
(* failed batch, or in a buffer, over failed saves, restarts and a         *)
(* partition that moves, for any number of consumers that run beside each  *)
(* other but do not save at the same time, unless a process was killed or  *)
(* interrupted, a save failed inside of a line or in both of its files, or *)
(* two failed batches took one name: poll, save_to_csv and close of the    *)
(* consumer.                                                               *)
THEOREM NothingLost == StoreSpec => []NoSilentLoss
<1>1. ConsumerInv => NoSilentLoss
  BY DeliveryMeans DEF ConsumerInv
<1> QED
  BY <1>1, ConsumerInvariant, PTL

(* No message has two rows unless a save failed or a process was killed or *)
(* interrupted, with any number of consumers, also if their saves meet and *)
(* one writes over the rows of another: save_to_csv.                       *)
THEOREM NothingTwice == StoreSpec => []RowsOnce
<1>1. ConsumerInv => RowsOnce
  BY DeliveryMeans DEF ConsumerInv
<1> QED
  BY <1>1, ConsumerInvariant, PTL

(* The reassociation flag of every row compares its message with the one   *)
(* of the same source before it in the stream, under the same exceptions   *)
(* as the state file: process_alert, over the state that _load_state and   *)
(* _save_state carry from run to run.                                      *)
THEOREM FlagsRight == StoreSpec => []FlagsFollowStream
<1>1. ConsumerInv => FlagsFollowStream
  BY KnownMeans DEF ConsumerInv
<1> QED
  BY <1>1, ConsumerInvariant, PTL

(* Between runs the state file says what the last message of each source   *)
(* said, unless a consumer was killed, could not write it, or another one  *)
(* ran beside it: _load_state and _save_state.                             *)
THEOREM StateRight == StoreSpec => []StateIsCurrent
<1>1. ConsumerInv => StateIsCurrent
  BY KnownMeans DEF ConsumerInv
<1> QED
  BY <1>1, ConsumerInvariant, PTL

-----------------------------------------------------------------------------
(* The CSV writers.  A line has the key of a record or was torn, and one   *)
(* that fits its header is read under KeyColumn as what it is.             *)
Reads == {Blank} \cup {<<c>> : c \in Nat} \cup {<<c, r>> : c \in Nat, r \in Records}
Line == {l \in [key : Records \cup {NoRecord}, fits : BOOLEAN, wide : BOOLEAN, read : Reads] :
           l.fits => l.key \in Records /\ l.read = <<KeyColumn, l.key>>}
IsFile(f) ==
    /\ f = [by |-> f.by, header |-> f.header, lines |-> f.lines, cut |-> f.cut]
    /\ f.header \in Seq(Nat) /\ f.lines \in Seq(Line) /\ f.cut \in BOOLEAN
Keys(lines) == {lines[i].key : i \in DOMAIN lines} \cap Records

(* Records that are written with these columns, the keys' among them.      *)
Writable(rs, cols) ==
    rs \in Seq(Records) /\ cols \in Seq(Nat) /\ KeyColumn \in Range(cols)

(* A field that is read, and that it is the key if the columns are those   *)
(* of the header.                                                          *)
LEMMA FieldReads ==
  ASSUME NEW r \in Records, NEW cols \in Seq(Nat), KeyColumn \in Range(cols), NEW header
  PROVE  /\ FieldRead(r, cols, header) \in Reads
         /\ cols = header => FieldRead(r, cols, header) = <<KeyColumn, r>>
<1> DEFINE at == {i \in DOMAIN header \cap DOMAIN cols : header[i] = KeyColumn}
           place == CHOOSE i \in at : TRUE
<1>1. \A i \in DOMAIN cols : cols[i] \in Nat
  BY LenProperties
<1>2. CASE at = {}
  <2>1. FieldRead(r, cols, header) = Blank
    BY <1>2 DEF FieldRead
  <2>2. cols # header
    BY <1>2 DEF Range
  <2> QED
    BY <2>1, <2>2 DEF Reads
<1>3. CASE at # {}
  <2>1. place \in at
    BY <1>3
  <2>2. FieldRead(r, cols, header)
          = IF cols[place] = KeyColumn THEN <<cols[place], r>>
            ELSE IF cols[place] \in Range(Shape[r]) THEN <<cols[place]>> ELSE Blank
    BY <1>3 DEF FieldRead
  <2>3. cols[place] \in Nat /\ (cols = header => cols[place] = KeyColumn)
    BY <1>1, <2>1
  <2> HIDE DEF place
  <2>4. FieldRead(r, cols, header) \in Reads
    BY <2>2, <2>3 DEF Reads
  <2> QED
    BY <2>2, <2>3, <2>4
<1> QED
  BY <1>2, <1>3

(* A record becomes one line with its key.                                 *)
LEMMA LinesKeys ==
  ASSUME NEW rs, NEW cols, Writable(rs, cols), NEW header
  PROVE  /\ Lines(rs, cols, header) \in Seq(Line)
         /\ Keys(Lines(rs, cols, header)) = Range(rs)
         /\ Len(Lines(rs, cols, header)) = Len(rs)
         /\ cols = header => AllFit(Lines(rs, cols, header))
<1> DEFINE new == Lines(rs, cols, header)
<1>1. Len(rs) \in Nat /\ DOMAIN rs = 1 .. Len(rs) /\ \A i \in 1 .. Len(rs) : rs[i] \in Records
  BY LenProperties DEF Writable
<1>2. DOMAIN new = 1 .. Len(rs)
  BY <1>1 DEF Lines
<1>3. ASSUME NEW i \in 1 .. Len(rs)
      PROVE  new[i] \in Line /\ new[i].key = rs[i] /\ new[i].fits = (cols = header)
  <2> DEFINE read == FieldRead(rs[i], cols, header)
             fit == cols = header
             broad == Len(cols) > Len(header)
             l == [key |-> rs[i], fits |-> fit, wide |-> broad, read |-> read]
  <2>1. new[i] = l
    BY <1>1 DEF Lines
  <2>2. /\ rs[i] \in Records /\ read \in Reads /\ fit \in BOOLEAN /\ broad \in BOOLEAN
        /\ fit => read = <<KeyColumn, rs[i]>>
    BY <1>1, FieldReads DEF Writable
  <2> HIDE DEF read, broad
  <2>3. l \in [key : Records \cup {NoRecord}, fits : BOOLEAN, wide : BOOLEAN, read : Reads]
    BY <2>2
  <2>4. l.fits => l.key \in Records /\ l.read = <<KeyColumn, l.key>>
    BY <2>2
  <2>5. l \in Line
    BY <2>3, <2>4 DEF Line
  <2> QED
    BY <2>1, <2>5
<1>4. new \in [1 .. Len(rs) -> Line]
  <2>1. new = [i \in DOMAIN rs |-> new[i]]
    BY DEF Lines
  <2> HIDE DEF new
  <2> QED
    BY <1>1, <1>3, <2>1
<1>5. Keys(new) = Range(rs)
  BY <1>1, <1>2, <1>3 DEF Keys, Range
<1>6. cols = header => AllFit(new)
  BY <1>2, <1>3 DEF AllFit
<1>7. new \in Seq(Line)
  BY <1>1, <1>4, SeqDef
<1> HIDE DEF new
<1>8. Len(new) = Len(rs)
  BY <1>1, <1>2, <1>7, LenProperties
<1> QED
  BY <1>5, <1>6, <1>7, <1>8 DEF new

LEMMA ConcatKeys ==
  ASSUME NEW s \in Seq(Line), NEW t \in Seq(Line)
  PROVE  /\ s \o t \in Seq(Line) /\ Keys(s \o t) = Keys(s) \cup Keys(t)
         /\ AllFit(s \o t) <=> AllFit(s) /\ AllFit(t)
<1>1. s \o t \in Seq(Line)
  BY ConcatProperties
<1>2. Range(s \o t) = Range(s) \cup Range(t)
  BY RangeConcatenation
<1>3. \A u : /\ Keys(u) = {line.key : line \in Range(u)} \cap Records
             /\ AllFit(u) <=> \A line \in Range(u) : line.fits
  BY DEF Keys, AllFit, Range
<1> QED
  BY <1>1, <1>2, <1>3

(* A file that is appended to keeps its lines, and gets one for each       *)
(* record, if it ends with a whole line.                                   *)
LEMMA AppendedKeys ==
  ASSUME NEW f, IsFile(f), NEW who, NEW rs, NEW cols, Writable(rs, cols)
  PROVE  LET g == Appended(f, who, rs, cols)
         IN /\ IsFile(g) /\ Keys(f.lines) \subseteq Keys(g.lines)
            /\ ~ f.cut => ~ g.cut /\ Keys(g.lines) = Keys(f.lines) \cup Range(rs)
<1> DEFINE g == Appended(f, who, rs, cols)
           head == IF f = Absent THEN cols
                   ELSE IF f.header = <<>> THEN [i \in DOMAIN cols |-> NoName] ELSE f.header
           new == Lines(rs, cols, head)
           more == IF f.cut THEN Tail(new) ELSE new
<1>1. CASE f # Absent /\ rs = <<>>
  <2>1. g = f /\ Range(rs) = {}
    BY <1>1 DEF Appended, Range
  <2> QED
    BY <2>1
<1>2. CASE ~ (f # Absent /\ rs = <<>>)
  <2>1. g = [by |-> f.by \cup {who}, header |-> head, lines |-> f.lines \o more, cut |-> FALSE]
    BY <1>2 DEF Appended
  <2>2. head \in Seq(Nat)
    <3>1. Len(cols) \in Nat /\ DOMAIN cols = 1 .. Len(cols)
      BY LenProperties DEF Writable
    <3>2. [i \in DOMAIN cols |-> NoName] \in [1 .. Len(cols) -> Nat]
      BY <3>1 DEF NoName
    <3>3. [i \in DOMAIN cols |-> NoName] \in Seq(Nat)
      BY <3>1, <3>2, SeqDef
    <3> QED
      BY <3>3 DEF Writable, IsFile
  <2> HIDE DEF head
  <2>3. new \in Seq(Line) /\ Keys(new) = Range(rs) /\ Len(new) = Len(rs)
    BY LinesKeys
  <2> HIDE DEF new
  <2>4. more \in Seq(Line) /\ (~ f.cut => more = new)
    <3>1. CASE f.cut
      <4>1. f # Absent
        BY <3>1 DEF Absent
      <4>2. Len(rs) \in Nat /\ Len(rs) # 0
        BY <1>2, <4>1, LenProperties, EmptySeq DEF Writable
      <4>3. new # <<>>
        BY <2>3, <4>2, EmptySeq
      <4> QED
        BY <2>3, <3>1, <4>3, HeadTailProperties
    <3> QED
      BY <2>3, <3>1
  <2> HIDE DEF more
  <2>5. f.lines \o more \in Seq(Line) /\ Keys(f.lines \o more) = Keys(f.lines) \cup Keys(more)
    BY <2>4, ConcatKeys DEF IsFile
  <2>6. IsFile(g)
    BY <2>1, <2>2, <2>5 DEF IsFile
  <2> QED
    BY <2>1, <2>3, <2>4, <2>5, <2>6
<1> QED
  BY <1>1, <1>2

LEMMA SortedColumns ==
  ASSUME NEW S \in SUBSET Nat, IsFiniteSet(S)
  PROVE  Sorted(S) \in Seq(Nat) /\ Range(Sorted(S)) = S
BY SmallerOrders, InOrderRange DEF Sorted

(* The same of one that is written anew, under a sorted header.            *)
LEMMA WidenedColumns ==
  ASSUME NEW f, IsFile(f), NEW cols \in Seq(Nat)
  PROVE  /\ Widened(f, cols) \in Seq(Nat)
         /\ Widened(f, cols) = Sorted(Range(Widened(f, cols)))
<1> DEFINE U == Range(f.header) \cup Range(cols)
<1>1. U \in SUBSET Nat /\ IsFiniteSet(U)
  BY SequenceRange, FS_Union DEF IsFile
<1> HIDE DEF U
<1>2. Sorted(U) \in Seq(Nat) /\ Range(Sorted(U)) = U
  BY <1>1, SortedColumns
<1> QED
  BY <1>2 DEF Widened, U

LEMMA RewrittenKeys ==
  ASSUME NEW f, IsFile(f), NEW rs, NEW cols, Writable(rs, cols)
  PROVE  LET g == Rewritten(f, rs, cols)
         IN IsFile(g) /\ ~ g.cut /\ Keys(g.lines) = Keys(f.lines) \cup Range(rs)
<1>1. f.lines \in Seq(Line) /\ cols \in Seq(Nat)
  BY DEF IsFile, Writable
<1> DEFINE new == Lines(rs, cols, cols)
<1>2. new \in Seq(Line) /\ Keys(new) = Range(rs)
  BY LinesKeys
<1> HIDE DEF new
<1>3. f.lines \o new \in Seq(Line) /\ Keys(f.lines \o new) = Keys(f.lines) \cup Range(rs)
  BY <1>1, <1>2, ConcatKeys
<1>4. Widened(f, cols) \in Seq(Nat)
  BY <1>1, WidenedColumns
<1> QED
  BY <1>3, <1>4 DEF Rewritten, IsFile, new

(* A file that a write has left in the middle of a line, or empty.         *)
LEMMA TornIsFile ==
  ASSUME NEW f, IsFile(f), NEW w \in BOOLEAN
  PROVE  IsFile(Torn(f, w))
<1> DEFINE l == [key |-> NoRecord, fits |-> FALSE, wide |-> w, read |-> Blank]
<1>1. CASE f.cut
  BY <1>1 DEF Torn
<1>2. CASE ~ f.cut
  <2>1. l \in Line
    BY DEF Line, Reads
  <2> HIDE DEF l
  <2>2. Append(f.lines, l) \in Seq(Line)
    BY <2>1, AppendProperties DEF IsFile
  <2>3. f = [by |-> f.by, header |-> f.header, lines |-> f.lines, cut |-> f.cut]
    BY DEF IsFile
  <2>4. Torn(f, w) = [f EXCEPT !.cut = TRUE, !.lines = Append(f.lines, l)]
    BY <1>2 DEF Torn, l
  <2>5. Torn(f, w) = [by |-> f.by, header |-> f.header, lines |-> Append(f.lines, l), cut |-> TRUE]
    BY <2>3, <2>4
  <2> QED
    BY <2>2, <2>5 DEF IsFile
<1> QED
  BY <1>1, <1>2 DEF IsFile

LEMMA NewIsFile ==
  ASSUME NEW who
  PROVE  IsFile(Absent) /\ IsFile(Empty(who))
BY EmptySeq DEF IsFile, Absent, Empty
(* The columns of records are numbers, KeyColumn among them.               *)
LEMMA ColumnsType ==
  ASSUME NEW rs \in Seq(Records)
  PROVE  /\ Columns(rs) \in Seq(Nat)
         /\ rs # <<>> => KeyColumn \in Range(Columns(rs))
<1> DEFINE row == [i \in DOMAIN rs |-> {i} \X DOMAIN Shape[rs[i]]]
           places == UNION {{i} \X DOMAIN Shape[rs[i]] : i \in DOMAIN rs}
           name(p) == Shape[rs[p[1]]][p[2]]
           isFirst(p) == \A q \in places : name(q) = name(p) => <<q, p>> \notin Earlier
           firsts == {p \in places : isFirst(p)}
           first == InOrder(firsts, Earlier)
<1>1. Len(rs) \in Nat /\ DOMAIN rs = 1 .. Len(rs) /\ \A i \in 1 .. Len(rs) : rs[i] \in Records
  BY LenProperties
<1>2. \A i \in 1 .. Len(rs) : Shape[rs[i]] \in Seq(Nat)
  BY <1>1, ShapeAssumption
<1>3. ASSUME NEW i \in 1 .. Len(rs)
      PROVE  /\ Len(Shape[rs[i]]) \in Nat /\ DOMAIN Shape[rs[i]] = 1 .. Len(Shape[rs[i]])
             /\ \A j \in DOMAIN Shape[rs[i]] : Shape[rs[i]][j] \in Nat
  <2> DEFINE s == Shape[rs[i]]
  <2>1. s \in Seq(Nat)
    BY <1>2
  <2> HIDE DEF s
  <2>2. Len(s) \in Nat /\ DOMAIN s = 1 .. Len(s) /\ \A j \in 1 .. Len(s) : s[j] \in Nat
    BY <2>1, LenProperties
  <2> QED
    BY <2>2 DEF s
<1>4. ASSUME NEW i \in 1 .. Len(rs) PROVE IsFiniteSet({i} \X DOMAIN Shape[rs[i]])
  <2>1. IsFiniteSet({i})
    BY FS_Singleton
  <2>2. 1 \in Int /\ Len(Shape[rs[i]]) \in Int
    BY <1>3
  <2>3. IsFiniteSet(1 .. Len(Shape[rs[i]]))
    BY <2>2, FS_Interval
  <2>4. IsFiniteSet(DOMAIN Shape[rs[i]])
    BY <1>3, <2>3
  <2> QED
    BY <2>1, <2>4, FS_Product
<1>5. IsFiniteSet(places)
  <2> DEFINE R == {row[i] : i \in 1 .. Len(rs)}
  <2>1. row \in Surjection(1 .. Len(rs), R)
    BY <1>1 DEF Surjection
  <2>2. 1 \in Int /\ Len(rs) \in Int
    BY <1>1
  <2>3. IsFiniteSet(1 .. Len(rs))
    BY <2>2, FS_Interval
  <2>4. \A T \in R : IsFiniteSet(T)
    BY <1>1, <1>4
  <2>5. places = UNION R
    BY <1>1
  <2> HIDE DEF row, R, places
  <2>6. IsFiniteSet(R)
    BY <2>1, <2>3, FS_Surjection
  <2>7. IsFiniteSet(UNION R)
    BY <2>4, <2>6, FS_UNION
  <2> QED
    BY <2>5, <2>7
<1>6. ASSUME NEW p \in places
      PROVE  p \in Nat \X Nat /\ name(p) \in Nat
  <2>1. PICK i \in 1 .. Len(rs) : p \in {i} \X DOMAIN Shape[rs[i]]
    BY <1>1
  <2>2. p[1] = i /\ p[2] \in DOMAIN Shape[rs[i]] /\ p = <<p[1], p[2]>>
    BY <2>1
  <2>3. p[2] \in Nat /\ i \in Nat
    BY <1>1, <1>3, <2>2
  <2> QED
    BY <1>3, <2>2, <2>3
<1>7. firsts \in SUBSET places /\ firsts \in SUBSET (Nat \X Nat)
  BY <1>6
<1>8. Columns(rs) = [n \in DOMAIN first |-> name(first[n])]
  BY DEF Columns
<1>9. \A p \in firsts : name(p) \in Nat
  BY <1>6
<1>10. IsFiniteSet(firsts) /\ IsOrder(firsts, Earlier)
  <2>1. firsts \in SUBSET places
    BY <1>7
  <2> HIDE DEF places, firsts
  <2> QED
    BY <1>5, <1>7, <2>1, FS_Subset, EarlierOrders
<1>11. ASSUME rs # <<>>
       PROVE  \E p \in firsts : name(p) = KeyColumn
  <2> DEFINE P == {p \in places : name(p) = KeyColumn}
             o == InOrder(P, Earlier)
  <2>1. P # {}
    <3>1. 1 \in 1 .. Len(rs)
      BY <1>1, <1>11, EmptySeq
    <3>2. KeyColumn \in Range(Shape[rs[1]])
      BY <1>1, <3>1, ShapeAssumption
    <3>3. PICK j \in DOMAIN Shape[rs[1]] : Shape[rs[1]][j] = KeyColumn
      BY <3>2 DEF Range
    <3>4. <<1, j>> \in places
      BY <1>1, <3>1, <3>3
    <3>5. name(<<1, j>>) = KeyColumn
      BY <3>3
    <3> QED
      BY <3>4, <3>5
  <2>2. P \in SUBSET places /\ P \in SUBSET (Nat \X Nat)
    BY <1>6
  <2>3. IsFiniteSet(P) /\ IsOrder(P, Earlier)
    <3> HIDE DEF P, places
    <3> QED
      BY <1>5, <2>2, FS_Subset, EarlierOrders
  <2>4. \A p \in P : p \in places /\ name(p) = KeyColumn
    OBVIOUS
  <2>5. \A p \in places : name(p) = KeyColumn => p \in P
    OBVIOUS
  <2> HIDE DEF P
  <2>6. Lists(o, P, Earlier)
    BY <2>3, InOrderLists
  <2> HIDE DEF o
  <2>7. Len(o) \in Nat /\ Len(o) >= 1 /\ o \in [1 .. Len(o) -> P]
    BY <2>1, <2>6, LenProperties DEF Lists
  <2>8. o[1] \in P
    BY <2>7
  <2>9. ASSUME NEW q \in P PROVE <<q, o[1]>> \notin Earlier
    <3>1. PICK i \in 1 .. Len(o) : o[i] = q
      BY <2>6 DEF Lists
    <3>2. i = 1 \/ <<o[1], q>> \in Earlier
      BY <2>6, <2>7, <3>1 DEF Lists
    <3> QED
      BY <2>3, <2>8, <3>1, <3>2 DEF IsOrder
  <2>10. o[1] \in firsts
    <3>1. o[1] \in places /\ name(o[1]) = KeyColumn
      BY <2>4, <2>8
    <3>2. \A q \in places : name(q) = name(o[1]) => <<q, o[1]>> \notin Earlier
      <4> HIDE DEF places, name
      <4> QED
        BY <2>5, <2>9, <3>1
    <3> QED
      BY <3>1, <3>2
  <2> QED
    BY <2>4, <2>8, <2>10
<1> HIDE DEF firsts, places, name
<1>12. Lists(first, firsts, Earlier)
  BY <1>10, InOrderLists
<1> HIDE DEF first
<1>13. Len(first) \in Nat /\ DOMAIN first = 1 .. Len(first)
       /\ \A n \in 1 .. Len(first) : first[n] \in firsts
  BY <1>12, LenProperties DEF Lists
<1>14. Columns(rs) \in [1 .. Len(first) -> Nat]
  BY <1>8, <1>9, <1>13
<1>15. ASSUME rs # <<>>
       PROVE  KeyColumn \in Range(Columns(rs))
  <2>1. PICK p \in firsts : name(p) = KeyColumn
    BY <1>11, <1>15
  <2>2. PICK n \in 1 .. Len(first) : first[n] = p
    BY <1>12, <2>1 DEF Lists
  <2> QED
    BY <1>8, <1>13, <2>1, <2>2 DEF Range
<1> QED
  BY <1>13, <1>14, <1>15, SeqDef

-----------------------------------------------------------------------------
(* What a file that only the DynamicCSVWriter has written says of itself:  *)
(* a sorted header is determined by its columns, so that it is enough to   *)
(* know that a batch with the same columns fits.                           *)
ReadsBack(f) ==
    f.by \subseteq {"dynamic"} => f.header = Sorted(Range(f.header)) /\ AllFit(f.lines)
Clean(f) == {<<"rewrite", f>>, <<"cut", f>>} \cap failures = {}

(* The buffers hold records and the files lines, and no record is lost.    *)
CsvInv ==
    /\ plain \in Seq(Records) /\ dynamic \in Seq(Records)
    /\ known \in SUBSET Nat /\ IsFiniteSet(known)
    /\ file = [f \in Files |-> file[f]]
    /\ \A f \in Files : IsFile(file[f]) /\ (Clean(f) => ~ file[f].cut)
    /\ \A f \in Files : <<"cut", f>> \notin failures => ReadsBack(file[f])
    /\ RecordsKept

LEMMA CsvInvInit == CsvInit => CsvInv
<1> SUFFICES ASSUME CsvInit PROVE CsvInv
  OBVIOUS
<1>1. <<>> \in Seq(Records) /\ IsFile(Absent) /\ IsFiniteSet(known) /\ ~ Absent.cut
  BY EmptySeq, NewIsFile, FS_EmptySet DEF CsvInit, Absent
<1>2. Sorted({}) = <<>> /\ Range(<<>>) = {}
  BY InOrderEmpty DEF Sorted, Range
<1>3. Absent.header = <<>> /\ Absent.lines = <<>> /\ AllFit(<<>>)
  BY DEF Absent, AllFit
<1>4. ReadsBack(Absent)
  BY <1>2, <1>3 DEF ReadsBack
<1> QED
  BY <1>1, <1>4 DEF CsvInit, CsvInv, RecordsKept

(* The columns that a DynamicCSVWriter writes with.                        *)
LEMMA DynamicWrites ==
  ASSUME CsvInv, dynamic # <<>>
  PROVE  Writable(dynamic, DynamicColumns) /\ DynamicColumns = Sorted(Range(DynamicColumns))
<1> DEFINE C == Range(Columns(dynamic)) \cup known
<1>1. Columns(dynamic) \in Seq(Nat) /\ KeyColumn \in Range(Columns(dynamic))
  BY ColumnsType DEF CsvInv
<1>2. C \in SUBSET Nat /\ IsFiniteSet(C) /\ KeyColumn \in C
  BY <1>1, SequenceRange, FS_Union DEF CsvInv
<1> HIDE DEF C
<1>3. Sorted(C) \in Seq(Nat) /\ Range(Sorted(C)) = C
  BY <1>2, SortedColumns
<1> QED
  BY <1>2, <1>3 DEF DynamicColumns, Writable, CsvInv, C

LEMMA PlainWrites ==
  ASSUME NEW rs \in Seq(Records), rs # <<>>
  PROVE  Writable(rs, Columns(rs))
BY ColumnsType DEF Writable

(* What a DynamicCSVWriter appends to is new or has its columns.           *)
Suits(f, who, cols) ==
    who # "plain" => /\ cols = Sorted(Range(cols))
                     /\ f # Absent => f.header # <<>> /\ Range(f.header) = Range(cols)

LEMMA AppendedBack ==
  ASSUME NEW f, IsFile(f), ReadsBack(f), NEW who, NEW rs, NEW cols,
         Writable(rs, cols), Suits(f, who, cols)
  PROVE  ReadsBack(Appended(f, who, rs, cols))
<1> DEFINE g == Appended(f, who, rs, cols)
<1>1. CASE f # Absent /\ rs = <<>>
  BY <1>1 DEF Appended
<1>2. CASE ~ (f # Absent /\ rs = <<>>) /\ who = "plain"
  <2>1. g.by = f.by \cup {who}
    BY <1>2 DEF Appended
  <2> QED
    BY <1>2, <2>1 DEF ReadsBack
<1>3. CASE ~ (f # Absent /\ rs = <<>>) /\ who # "plain"
  <2> DEFINE new == Lines(rs, cols, cols)
             more == IF f.cut THEN Tail(new) ELSE new
  <2> SUFFICES ASSUME g.by \subseteq {"dynamic"}
               PROVE  g.header = Sorted(Range(g.header)) /\ AllFit(g.lines)
    BY DEF ReadsBack
  <2>1. g.by = f.by \cup {who}
    BY <1>3 DEF Appended
  <2>2. f.header = Sorted(Range(f.header)) /\ AllFit(f.lines)
    BY <2>1 DEF ReadsBack
  <2>3. f # Absent => f.header = cols /\ f.header # <<>>
    BY <1>3, <2>2 DEF Suits
  <2>4. g.header = cols /\ g.lines = f.lines \o more
    BY <1>3, <2>3 DEF Appended
  <2>5. new \in Seq(Line) /\ AllFit(new) /\ Len(new) = Len(rs)
    BY LinesKeys
  <2> HIDE DEF new
  <2>6. more \in Seq(Line) /\ AllFit(more)
    <3>1. CASE f.cut
      <4>1. f # Absent
        BY <3>1 DEF Absent
      <4>2. Len(rs) \in Nat /\ Len(rs) # 0
        BY <1>3, <4>1, LenProperties, EmptySeq DEF Writable
      <4>3. new # <<>>
        BY <2>5, <4>2, EmptySeq
      <4> DEFINE rest == Tail(new)
      <4>4. /\ rest \in Seq(Line) /\ Len(rest) = Len(new) - 1
            /\ \A i \in 1 .. Len(rest) : rest[i] = new[i + 1]
        BY <2>5, <4>3, HeadTailProperties
      <4> HIDE DEF rest
      <4>5. /\ Len(new) \in Nat /\ DOMAIN new = 1 .. Len(new)
            /\ Len(rest) \in Nat /\ DOMAIN rest = 1 .. Len(rest)
        BY <2>5, <4>4, LenProperties
      <4>6. \A i \in 1 .. Len(rest) : i + 1 \in DOMAIN new
        BY <4>4, <4>5
      <4>7. AllFit(rest)
        BY <2>5, <4>4, <4>5, <4>6 DEF AllFit
      <4> QED
        BY <3>1, <4>4, <4>7 DEF rest
    <3> QED
      BY <2>5, <3>1
  <2> HIDE DEF more
  <2> QED
    BY <1>3, <2>2, <2>4, <2>6, ConcatKeys DEF IsFile, Suits
<1> QED
  BY <1>1, <1>2, <1>3

LEMMA RewrittenBack ==
  ASSUME NEW f, IsFile(f), ReadsBack(f), NEW rs, NEW cols, Writable(rs, cols)
  PROVE  ReadsBack(Rewritten(f, rs, cols))
<1> DEFINE g == Rewritten(f, rs, cols)
           new == Lines(rs, cols, cols)
<1> SUFFICES ASSUME g.by \subseteq {"dynamic"}
             PROVE  g.header = Sorted(Range(g.header)) /\ AllFit(g.lines)
  BY DEF ReadsBack
<1>1. /\ g.by = f.by \cup {"dynamic"} /\ g.header = Widened(f, cols)
      /\ g.lines = f.lines \o new
  BY DEF Rewritten
<1>2. AllFit(f.lines) /\ f.lines \in Seq(Line)
  BY <1>1 DEF ReadsBack, IsFile
<1>3. new \in Seq(Line) /\ AllFit(new)
  BY LinesKeys
<1> HIDE DEF new
<1>4. AllFit(f.lines \o new)
  BY <1>2, <1>3, ConcatKeys
<1>5. Widened(f, cols) = Sorted(Range(Widened(f, cols)))
  BY WidenedColumns DEF Writable
<1> QED
  BY <1>1, <1>4, <1>5

(* What the flush of a DynamicCSVWriter makes of a file.                   *)
LEMMA DynamicFileKeys ==
  ASSUME CsvInv, NEW f \in Files, dynamic # <<>>, DynamicReads(f)
  PROVE  LET old == file[f]
             g == DynamicFile(old, dynamic)
         IN /\ IsFile(g) /\ Keys(old.lines) \subseteq Keys(g.lines)
            /\ ~ old.cut => ~ g.cut /\ Keys(g.lines) = Keys(old.lines) \cup Range(dynamic)
            /\ ReadsBack(old) => ReadsBack(g)
<1> DEFINE old == file[f]  cols == DynamicColumns
<1>1. Writable(dynamic, cols) /\ cols = Sorted(Range(cols)) /\ IsFile(old)
  BY DynamicWrites DEF CsvInv
<1>2. CASE Mismatch(old, cols)
  BY <1>1, <1>2, RewrittenKeys, RewrittenBack DEF DynamicFile
<1>3. CASE ~ Mismatch(old, cols)
  <2>1. Suits(old, "dynamic", cols)
    BY <1>1, <1>3 DEF Suits, Mismatch, DynamicReads
  <2> QED
    BY <1>1, <1>3, <2>1, AppendedKeys, AppendedBack DEF DynamicFile
<1> QED
  BY <1>2, <1>3

-----------------------------------------------------------------------------
LEMMA PrefixIsSeq ==
  ASSUME NEW s \in Seq(Records), NEW n \in 0 .. Len(s) - 1
  PROVE  SubSeq(s, 1, n) \in Seq(Records)
<1>1. Len(s) \in Nat /\ \A i \in 1 .. Len(s) : s[i] \in Records
  BY LenProperties
<1> QED
  BY <1>1, SubSeqProperties

(* A step that makes a new file of one, or leaves it: it keeps the lines,  *)
(* if it ends no line in the middle.                                       *)
Makes(f, new) ==
    /\ IsFile(new) /\ file' = [file EXCEPT ![f] = new]
    /\ failures \subseteq failures'
    /\ <<"cut", f>> \notin failures' /\ ReadsBack(file[f]) => ReadsBack(new)
    /\ Clean(f)' => ~ new.cut /\ Keys(file[f].lines) \subseteq Keys(new.lines)

LEMMA WriteFailsMakes ==
  ASSUME CsvInv, NEW f \in Files, NEW who, NEW rs, NEW cols, Writable(rs, cols),
         Suits(file[f], who, cols), WriteFails(f, who, rs, cols)
  PROVE  \E new : Makes(f, new)
<1>1. IsFile(file[f]) /\ (Clean(f) => ~ file[f].cut)
  BY DEF CsvInv
<1>2. failures \subseteq failures' /\ (Clean(f)' => Clean(f))
  BY DEF WriteFails, Fails, Clean
<1>3. CASE UNCHANGED file
  <2> DEFINE new == file[f]
  <2>1. file' = [file EXCEPT ![f] = new]
    BY <1>3 DEF CsvInv
  <2>2. IsFile(new) /\ (Clean(f)' => ~ new.cut) /\ Keys(file[f].lines) \subseteq Keys(new.lines)
    BY <1>1, <1>2
  <2>3. ReadsBack(file[f]) => ReadsBack(new)
    OBVIOUS
  <2> HIDE DEF new
  <2>4. Makes(f, new)
    BY <1>2, <2>1, <2>2, <2>3 DEF Makes
  <2> QED
    BY <2>4
<1>4. ASSUME NEW n \in 0 .. Len(rs) - 1,
             file' = [file EXCEPT ![f] = Appended(file[f], who, SubSeq(rs, 1, n), cols)]
      PROVE  \E new : Makes(f, new)
  <2> DEFINE s == SubSeq(rs, 1, n)  new == Appended(file[f], who, s, cols)
  <2>1. Writable(s, cols)
    BY PrefixIsSeq DEF Writable
  <2> HIDE DEF s
  <2>2. /\ IsFile(new) /\ Keys(file[f].lines) \subseteq Keys(new.lines)
        /\ ~ file[f].cut => ~ new.cut
    BY <1>1, <2>1, AppendedKeys
  <2>3. ReadsBack(file[f]) => ReadsBack(new)
    BY <1>1, <2>1, AppendedBack
  <2>4. file' = [file EXCEPT ![f] = new]
    BY <1>4 DEF s
  <2> HIDE DEF new
  <2>5. Makes(f, new)
    BY <1>1, <1>2, <2>2, <2>3, <2>4 DEF Makes
  <2> QED
    BY <2>5
<1>5. ASSUME <<"cut", f>> \in failures', NEW new, IsFile(new), file' = [file EXCEPT ![f] = new]
      PROVE  \E g : Makes(f, g)
  <2>1. Makes(f, new)
    BY <1>2, <1>5 DEF Makes, Clean
  <2> QED
    BY <2>1
<1>6. ASSUME NEW n \in 0 .. Len(rs) - 1, NEW w \in BOOLEAN, Fails("cut", f),
             file' = [file EXCEPT ![f] = Torn(Appended(file[f], who, SubSeq(rs, 1, n), cols), w)]
      PROVE  \E new : Makes(f, new)
  <2> DEFINE s == SubSeq(rs, 1, n)  g == Appended(file[f], who, s, cols)  new == Torn(g, w)
  <2>1. Writable(s, cols)
    BY PrefixIsSeq DEF Writable
  <2> HIDE DEF s
  <2>2. IsFile(g)
    BY <1>1, <2>1, AppendedKeys
  <2>3. file' = [file EXCEPT ![f] = new]
    BY <1>6 DEF s
  <2> HIDE DEF g
  <2>4. IsFile(new)
    BY <2>2, TornIsFile
  <2> HIDE DEF new
  <2>5. <<"cut", f>> \in failures'
    BY <1>6 DEF Fails
  <2> QED
    BY <1>5, <2>3, <2>4, <2>5
<1>7. ASSUME Fails("cut", f), file' = [file EXCEPT ![f] = Empty(who)]
      PROVE  \E new : Makes(f, new)
  <2>1. IsFile(Empty(who)) /\ <<"cut", f>> \in failures'
    BY <1>7, NewIsFile DEF Fails
  <2> QED
    BY <1>5, <1>7, <2>1
<1> QED
  BY <1>3, <1>4, <1>6, <1>7 DEF WriteFails

(* A step that makes a file of one, the buffers otherwise losing only what *)
(* the file has got.                                                       *)
LEMMA CsvInvWrite ==
  ASSUME CsvInv, NEW f \in Files, NEW new, Makes(f, new),
         plain' \in Seq(Records), dynamic' \in Seq(Records),
         known' \in SUBSET Nat, IsFiniteSet(known'), refused \subseteq refused',
         Clean(f)' =>
           LET there == Range(plain') \cup Range(dynamic') \cup Keys(new.lines)
           IN /\ given' \ refused' \subseteq given \cup there
              /\ Range(plain) \cup Range(dynamic) \subseteq there
  PROVE  CsvInv'
<1>1. file'[f] = new /\ \A g \in Files \ {f} : file'[g] = file[g]
  BY DEF CsvInv, Makes
<1>2. file' = [g \in Files |-> file'[g]]
  BY DEF CsvInv, Makes
<1>3. failures \subseteq failures' /\ \A g \in Files : Clean(g)' => Clean(g)
  BY DEF Makes, Clean
<1>4. \A g \in Files : IsFile(file'[g]) /\ (Clean(g)' => ~ file'[g].cut)
  BY <1>1, <1>3 DEF CsvInv, Makes
<1>5. \A g \in Files : <<"cut", g>> \notin failures' => ReadsBack(file'[g])
  BY <1>1, <1>3 DEF CsvInv, Makes
<1>6. \A g \in Files : KeysIn(g) = Keys(file[g].lines) /\ KeysIn(g)' = Keys(file'[g].lines)
  BY DEF KeysIn, Keys, LinesOf
<1>7. RecordsKept'
  <2> SUFFICES ASSUME \A g \in Files : Clean(g)', NEW r \in given' \ refused',
                      r \notin Range(plain'), r \notin Range(dynamic')
               PROVE  \E g \in Files : r \in KeysIn(g)'
    BY DEF RecordsKept, Clean
  <2>1. given \ refused
          \subseteq Range(plain) \cup Range(dynamic) \cup UNION {KeysIn(g) : g \in Files}
    BY <1>3 DEF CsvInv, RecordsKept, Clean
  <2>2. \A g \in Files : Keys(file[g].lines) \subseteq Keys(file'[g].lines)
    BY <1>1 DEF Makes
  <2>3. CASE r \in Keys(new.lines)
    BY <2>3, <1>1, <1>6
  <2>4. CASE r \notin Keys(new.lines)
    <3>1. r \in given \ refused /\ r \notin Range(plain) /\ r \notin Range(dynamic)
      BY <2>4
    <3>2. PICK g \in Files : r \in KeysIn(g)
      BY <2>1, <3>1
    <3> QED
      BY <3>2, <1>6, <2>2
  <2> QED
    BY <2>3, <2>4
<1>8. \A g : ReadsBack(g)' = ReadsBack(g) /\ IsFile(g)' = IsFile(g)
  OBVIOUS
<1> QED
  BY <1>2, <1>4, <1>5, <1>7 DEF CsvInv

(* The same for a step that leaves the files alone.                        *)
LEMMA CsvInvBuffer ==
  ASSUME CsvInv, NEW f \in Files, file' = file, failures' = failures,
         plain' \in Seq(Records), dynamic' \in Seq(Records),
         known' \in SUBSET Nat, IsFiniteSet(known'), refused \subseteq refused',
         given' \ refused' \subseteq given \cup Range(plain') \cup Range(dynamic'),
         Range(plain) \cup Range(dynamic) \subseteq Range(plain') \cup Range(dynamic')
  PROVE  CsvInv'
<1> DEFINE new == file[f]
<1>1. /\ IsFile(new) /\ (Clean(f) => ~ new.cut) /\ file' = [file EXCEPT ![f] = new]
      /\ Keys(file[f].lines) \subseteq Keys(new.lines)
      /\ ReadsBack(file[f]) => ReadsBack(new)
  BY DEF CsvInv
<1> HIDE DEF new
<1>2. Makes(f, new)
  BY <1>1 DEF Makes, Clean
<1> QED
  BY <1>2, CsvInvWrite

LEMMA AppendRange ==
  ASSUME NEW s \in Seq(Records), NEW r \in Records
  PROVE  /\ Append(s, r) \in Seq(Records) /\ Append(s, r) # <<>>
         /\ Range(Append(s, r)) = Range(s) \cup {r}
<1>1. /\ Append(s, r) \in Seq(Records) /\ Append(s, r) # <<>>
      /\ Append(s, r) = s \o <<r>>
  BY AppendProperties, AppendIsConcat
<1>2. <<r>> \in Seq(Records) /\ Range(<<r>>) = {r}
  BY DEF Range
<1>3. Range(s \o <<r>>) = Range(s) \cup Range(<<r>>)
  BY <1>2, RangeConcatenation
<1> QED
  BY <1>1, <1>2, <1>3

(* The writing of records to a file that succeeds.                         *)
LEMMA PlainMakes ==
  ASSUME CsvInv, NEW f \in Files, NEW rs, NEW cols, Writable(rs, cols),
         file' = [file EXCEPT ![f] = Appended(file[f], "plain", rs, cols)],
         failures' = failures
  PROVE  \E new : Makes(f, new) /\ (Clean(f)' => Range(rs) \subseteq Keys(new.lines))
<1> DEFINE new == Appended(file[f], "plain", rs, cols)
<1>1. IsFile(file[f]) /\ (Clean(f) => ~ file[f].cut)
  BY DEF CsvInv
<1>2. Suits(file[f], "plain", cols)
  BY DEF Suits
<1>3. /\ IsFile(new) /\ Keys(file[f].lines) \subseteq Keys(new.lines)
      /\ ~ file[f].cut => ~ new.cut /\ Range(rs) \subseteq Keys(new.lines)
  BY <1>1, AppendedKeys
<1>4. ReadsBack(file[f]) => ReadsBack(new)
  BY <1>1, <1>2, AppendedBack
<1>5. file' = [file EXCEPT ![f] = new]
  OBVIOUS
<1> HIDE DEF new
<1>6. Clean(f)' => Clean(f)
  BY DEF Clean
<1>7. Makes(f, new)
  BY <1>1, <1>3, <1>4, <1>5, <1>6 DEF Makes
<1> QED
  BY <1>1, <1>3, <1>6, <1>7

LEMMA CsvInvPlainAdd ==
  ASSUME CsvInv, NEW f \in Files, NEW r \in Records, PlainAdd(r, f)
  PROVE  CsvInv'
<1> DEFINE s == Append(plain, r)
<1>1. s \in Seq(Records) /\ Range(s) = Range(plain) \cup {r} /\ s # <<>>
  BY AppendRange DEF CsvInv
<1>2. given' = given \cup {r} /\ dynamic' = dynamic /\ known' = known /\ refused' = refused
  BY DEF PlainAdd, Gives
<1>3. /\ plain \in Seq(Records) /\ dynamic \in Seq(Records)
      /\ known \in SUBSET Nat /\ IsFiniteSet(known)
  BY DEF CsvInv
<1>4. Writable(s, Columns(s)) /\ Suits(file[f], "plain", Columns(s))
  BY <1>1, PlainWrites DEF Suits
<1>5. \/ plain' = s /\ UNCHANGED <<file, failures>>
      \/ /\ plain' = <<>> /\ failures' = failures
         /\ file' = [file EXCEPT ![f] = Appended(file[f], "plain", s, Columns(s))]
      \/ plain' = s /\ WriteFails(f, "plain", s, Columns(s))
  BY DEF PlainAdd, CsvInv
<1> HIDE DEF s
<1>6. CASE plain' = s /\ UNCHANGED <<file, failures>>
  BY <1>1, <1>2, <1>3, <1>6, CsvInvBuffer
<1>7. CASE /\ plain' = <<>> /\ failures' = failures
           /\ file' = [file EXCEPT ![f] = Appended(file[f], "plain", s, Columns(s))]
  <2>1. PICK new : Makes(f, new) /\ (Clean(f)' => Range(s) \subseteq Keys(new.lines))
    BY <1>4, <1>7, PlainMakes
  <2>2. plain' \in Seq(Records)
    BY <1>7, EmptySeq
  <2> QED
    BY <1>1, <1>2, <1>3, <2>1, <2>2, CsvInvWrite
<1>8. CASE plain' = s /\ WriteFails(f, "plain", s, Columns(s))
  <2>1. PICK new : Makes(f, new)
    BY <1>4, <1>8, WriteFailsMakes
  <2> QED
    BY <1>1, <1>2, <1>3, <1>8, <2>1, CsvInvWrite
<1> QED
  BY <1>5, <1>6, <1>7, <1>8

LEMMA CsvInvPlainFlush ==
  ASSUME CsvInv, NEW f \in Files, PlainFlush(f) \/ PlainFlushFails(f)
  PROVE  CsvInv'
<1>1. /\ UNCHANGED <<dynamic, known, given, refused>>
      /\ plain \in Seq(Records) /\ dynamic \in Seq(Records)
      /\ known \in SUBSET Nat /\ IsFiniteSet(known)
  BY DEF PlainFlush, PlainFlushFails, CsvInv
<1>2. Writable(plain, Columns(plain)) /\ Suits(file[f], "plain", Columns(plain))
  BY PlainWrites DEF PlainFlush, PlainFlushFails, CsvInv, Suits
<1>3. CASE PlainFlush(f)
  <2>1. /\ failures' = failures /\ plain' = <<>>
        /\ file' = [file EXCEPT ![f] = Appended(file[f], "plain", plain, Columns(plain))]
    BY <1>3 DEF PlainFlush
  <2>2. PICK new : Makes(f, new) /\ (Clean(f)' => Range(plain) \subseteq Keys(new.lines))
    BY <1>2, <2>1, PlainMakes
  <2>3. plain' \in Seq(Records)
    BY <2>1, EmptySeq
  <2> QED
    BY <1>1, <2>2, <2>3, CsvInvWrite
<1>4. CASE PlainFlushFails(f)
  <2>1. plain' = plain /\ WriteFails(f, "plain", plain, Columns(plain))
    BY <1>4 DEF PlainFlushFails
  <2>2. PICK new : Makes(f, new)
    BY <1>2, <2>1, WriteFailsMakes
  <2> QED
    BY <1>1, <2>1, <2>2, CsvInvWrite
<1> QED
  BY <1>3, <1>4

LEMMA CsvInvAppend ==
  ASSUME CsvInv, NEW f \in Files, NEW r \in Records,
         AppendToCsv(r, f) \/ AppendToMissing(r, f)
  PROVE  CsvInv'
<1>1. /\ given' = given \cup {r} /\ UNCHANGED <<plain, dynamic, known>>
      /\ plain \in Seq(Records) /\ dynamic \in Seq(Records)
      /\ known \in SUBSET Nat /\ IsFiniteSet(known)
  BY DEF AppendToCsv, AppendToMissing, Gives, CsvInv
<1> DEFINE s == <<r>>
<1>2. Writable(s, Shape[r]) /\ Suits(file[f], "plain", Shape[r]) /\ Range(s) = {r}
  BY ShapeAssumption DEF Writable, Suits, Range
<1>3. \/ /\ refused' = refused /\ failures' = failures
         /\ file' = [file EXCEPT ![f] = Appended(file[f], "plain", s, Shape[r])]
      \/ refused' = refused \cup {r} /\ WriteFails(f, "plain", s, Shape[r])
      \/ refused' = refused \cup {r} /\ UNCHANGED <<file, failures>>
  BY DEF AppendToCsv, AppendToMissing
<1> HIDE DEF s
<1>4. CASE /\ refused' = refused /\ failures' = failures
           /\ file' = [file EXCEPT ![f] = Appended(file[f], "plain", s, Shape[r])]
  <2>1. PICK new : Makes(f, new) /\ (Clean(f)' => Range(s) \subseteq Keys(new.lines))
    BY <1>2, <1>4, PlainMakes
  <2> QED
    BY <1>1, <1>2, <1>4, <2>1, CsvInvWrite
<1>5. CASE refused' = refused \cup {r} /\ WriteFails(f, "plain", s, Shape[r])
  <2>1. PICK new : Makes(f, new)
    BY <1>2, <1>5, WriteFailsMakes
  <2> QED
    BY <1>1, <1>5, <2>1, CsvInvWrite
<1>6. CASE refused' = refused \cup {r} /\ UNCHANGED <<file, failures>>
  BY <1>1, <1>6, CsvInvBuffer
<1> QED
  BY <1>3, <1>4, <1>5, <1>6

LEMMA CsvInvDynamicAdd ==
  ASSUME CsvInv, NEW f \in Files, NEW r \in Records, DynamicAdd(r)
  PROVE  CsvInv'
<1>1. /\ given' = given \cup {r} /\ dynamic' = Append(dynamic, r)
      /\ known' = known \cup Range(Shape[r])
      /\ UNCHANGED <<file, plain, failures, refused>>
      /\ plain \in Seq(Records) /\ dynamic \in Seq(Records)
  BY DEF DynamicAdd, Gives, CsvInv
<1>2. dynamic' \in Seq(Records) /\ Range(dynamic') = Range(dynamic) \cup {r}
  BY <1>1, AppendRange
<1>3. Range(Shape[r]) \in SUBSET Nat /\ IsFiniteSet(Range(Shape[r]))
  BY ShapeAssumption, SequenceRange
<1>4. known' \in SUBSET Nat /\ IsFiniteSet(known')
  BY <1>1, <1>3, FS_Union DEF CsvInv
<1> QED
  BY <1>1, <1>2, <1>4, CsvInvBuffer

LEMMA CsvInvDynamicFlush ==
  ASSUME CsvInv, NEW f \in Files, DynamicFlush(f) \/ DynamicFlushFails(f)
  PROVE  CsvInv'
<1>1. /\ UNCHANGED <<plain, known, given, refused>> /\ dynamic # <<>> /\ DynamicReads(f)
      /\ plain \in Seq(Records) /\ dynamic \in Seq(Records)
      /\ known \in SUBSET Nat /\ IsFiniteSet(known)
      /\ IsFile(file[f]) /\ (Clean(f) => ~ file[f].cut)
  BY DEF DynamicFlush, DynamicFlushFails, CsvInv
<1>2. CASE DynamicFlush(f)
  <2> DEFINE new == DynamicFile(file[f], dynamic)
  <2>1. dynamic' = <<>> /\ failures' = failures /\ file' = [file EXCEPT ![f] = new]
    BY <1>2 DEF DynamicFlush
  <2>2. /\ IsFile(new) /\ Keys(file[f].lines) \subseteq Keys(new.lines)
        /\ ~ file[f].cut => ~ new.cut /\ Range(dynamic) \subseteq Keys(new.lines)
        /\ ReadsBack(file[f]) => ReadsBack(new)
    BY <1>1, DynamicFileKeys
  <2>3. dynamic' \in Seq(Records)
    BY <2>1, EmptySeq
  <2> HIDE DEF new
  <2>4. Clean(f)' => Clean(f)
    BY <2>1 DEF Clean
  <2>5. Makes(f, new)
    BY <1>1, <2>1, <2>2, <2>4 DEF Makes
  <2> QED
    BY <1>1, <2>1, <2>2, <2>3, <2>4, <2>5, CsvInvWrite
<1>3. CASE DynamicFlushFails(f)
  <2> DEFINE cols == DynamicColumns
  <2>1. /\ dynamic' = dynamic /\ WriteFails(f, "dynamic", dynamic, cols)
        /\ ~ Mismatch(file[f], cols)
    BY <1>3 DEF DynamicFlushFails
  <2>2. Writable(dynamic, cols) /\ cols = Sorted(Range(cols))
    BY <1>1, DynamicWrites
  <2> HIDE DEF cols
  <2>3. Suits(file[f], "dynamic", cols)
    BY <1>1, <2>1, <2>2 DEF Suits, Mismatch, DynamicReads
  <2>4. PICK new : Makes(f, new)
    BY <2>1, <2>2, <2>3, WriteFailsMakes
  <2> QED
    BY <1>1, <2>1, <2>4, CsvInvWrite
<1> QED
  BY <1>2, <1>3

(* What a failed rewriting leaves is a file, and it may have lost records. *)
LEMMA CsvInvRewriteFails ==
  ASSUME CsvInv, NEW f \in Files, RewriteFails(f)
  PROVE  CsvInv'
<1> DEFINE head == Widened(file[f], DynamicColumns)
           kept == [by |-> {"dynamic"}, lines |-> <<>>, cut |-> FALSE, header |-> head]
<1>1. /\ UNCHANGED <<plain, dynamic, known, given, refused>> /\ dynamic # <<>>
      /\ plain \in Seq(Records) /\ dynamic \in Seq(Records)
      /\ known \in SUBSET Nat /\ IsFiniteSet(known)
      /\ <<"rewrite", f>> \in failures' /\ failures \subseteq failures'
  BY DEF RewriteFails, Fails, CsvInv
<1>2. head \in Seq(Nat) /\ head = Sorted(Range(head))
  BY <1>1, DynamicWrites, WidenedColumns DEF CsvInv, Writable
<1>3. \/ file' = [file EXCEPT ![f] = Empty("dynamic")]
      \/ file' = [file EXCEPT ![f] = kept]
  BY DEF RewriteFails
<1> HIDE DEF head
<1>4. IsFile(kept) /\ ReadsBack(kept)
  <2>2. <<>> \in Seq(Line) /\ AllFit(<<>>)
    BY EmptySeq DEF AllFit
  <2> QED
    BY <1>2, <2>2 DEF IsFile, ReadsBack
<1>5. IsFile(Empty("dynamic")) /\ ReadsBack(Empty("dynamic"))
  <2>1. Sorted({}) = <<>> /\ Range(<<>>) = {} /\ AllFit(<<>>)
    BY InOrderEmpty DEF Sorted, Range, AllFit
  <2>2. Empty("dynamic").header = <<>> /\ Empty("dynamic").lines = <<>>
    BY DEF Empty
  <2> QED
    BY <2>1, <2>2, NewIsFile DEF ReadsBack
<1> HIDE DEF kept
<1>6. PICK new : IsFile(new) /\ ReadsBack(new) /\ file' = [file EXCEPT ![f] = new]
  BY <1>3, <1>4, <1>5
<1>7. ~ Clean(f)'
  BY <1>1 DEF Clean
<1>8. Makes(f, new)
  BY <1>1, <1>6, <1>7 DEF Makes
<1> QED
  BY <1>1, <1>7, <1>8, CsvInvWrite

LEMMA CsvInvStep == CsvInv /\ [CsvNext]_csvVars => CsvInv'
<1> SUFFICES ASSUME CsvInv, [CsvNext]_csvVars
             PROVE  CsvInv'
  OBVIOUS
<1>1. CASE UNCHANGED <<file, plain, dynamic, known, given, refused, failures>>
  BY <1>1 DEF CsvInv, RecordsKept, Clean, KeysIn, LinesOf, IsFile, ReadsBack, AllFit, Sorted
<1>2. ASSUME NEW f \in Files, NEW r \in Records,
             PlainAdd(r, f) \/ AppendToCsv(r, f) \/ AppendToMissing(r, f) \/ DynamicAdd(r)
      PROVE  CsvInv'
  BY <1>2, CsvInvPlainAdd, CsvInvAppend, CsvInvDynamicAdd
<1>3. ASSUME NEW f \in Files,
             \/ PlainFlush(f) \/ PlainFlushFails(f)
             \/ DynamicFlush(f) \/ DynamicFlushFails(f) \/ RewriteFails(f)
      PROVE  CsvInv'
  BY <1>3, CsvInvPlainFlush, CsvInvDynamicFlush, CsvInvRewriteFails
<1>4. ASSUME NEW f \in Files, NEW g \in Files, Merge(f, g)
      PROVE  UNCHANGED <<file, plain, dynamic, known, given, refused, failures>>
  BY <1>4 DEF Merge
<1>5. CASE CsvNext
  BY <1>1, <1>2, <1>3, <1>4, <1>5 DEF CsvNext
<1>6. CASE UNCHANGED csvVars
  BY <1>1, <1>6 DEF csvVars
<1> QED
  BY <1>5, <1>6

LEMMA WriterSteps == [StoreNext]_storeVars => [CsvNext]_csvVars
  BY DEF StoreNext, storeVars

(* A record given to a writer and not refused is in a buffer or in a file, *)
(* whatever writes have failed in between, that of an add_record too,      *)
(* unless one failed inside of a line or while it rewrote its file: flush, *)
(* add_record and append_to_csv of utils/csv_writer.py.                    *)
THEOREM RecordsSurvive == StoreSpec => []RecordsKept
<1>1. StoreInit => CsvInv
  BY CsvInvInit DEF StoreInit
<1>2. CsvInv /\ [StoreNext]_storeVars => CsvInv'
  BY CsvInvStep, WriterSteps
<1>3. CsvInv => RecordsKept
  BY DEF CsvInv
<1> QED
  BY <1>1, <1>2, <1>3, PTL DEF StoreSpec

(* A file that only DynamicCSVWriters have written reads back, for all     *)
(* shapes of records in whatever order they came, whatever flushes have    *)
(* failed between two lines: DynamicCSVWriter.flush.                       *)
THEOREM DynamicFilesReadBack == StoreSpec => []DynamicReadsBack
<1>1. StoreInit => CsvInv
  BY CsvInvInit DEF StoreInit
<1>2. CsvInv /\ [StoreNext]_storeVars => CsvInv'
  BY CsvInvStep, WriterSteps
<1>3. CsvInv => DynamicReadsBack
  BY DEF CsvInv, ReadsBack, DynamicReadsBack, LinesOf
<1> QED
  BY <1>1, <1>2, <1>3, PTL DEF StoreSpec

(* A merge has no two rows that read the same under KeyColumn, and if all  *)
(* lines fit their headers one row for each key of the files it read, and  *)
(* none for anything else: merge_csv_files with a dedupe column.           *)
THEOREM MergesOnce == StoreSpec => MergedOnce
<1> DEFINE Once == merged' # merged /\ merged' # NoMerge => OneRowPerKey
<1>1. StoreInit => CsvInv
  BY CsvInvInit DEF StoreInit
<1>2. CsvInv /\ [StoreNext]_storeVars => CsvInv'
  BY CsvInvStep, WriterSteps
<1>3. ASSUME CsvInv, NEW f \in Files, NEW g \in Files, Merge(f, g)
      PROVE  Once
  <2> DEFINE s == file[f].lines  t == file[g].lines  all == s \o t
             fields == [i \in DOMAIN all |-> all[i].read]
             keys == WithoutRepeats(fields)
  <2>1. merged'.keys = keys /\ merged'.of[1] = f /\ merged'.of[2] = g
    BY <1>3 DEF Merge, FirstOfEach
  <2>2. s \in Seq(Line) /\ t \in Seq(Line)
    BY <1>3 DEF CsvInv, IsFile
  <2>3. /\ KeysIn(f) = Keys(s) /\ KeysIn(g) = Keys(t)
        /\ LinesOf(f) = s /\ LinesOf(g) = t
    BY DEF KeysIn, Keys, LinesOf
  <2> HIDE DEF s, t
  <2>4. /\ all \in Seq(Line) /\ Keys(all) = Keys(s) \cup Keys(t)
        /\ AllFit(all) <=> AllFit(s) /\ AllFit(t)
    BY <2>2, ConcatKeys
  <2> HIDE DEF all
  <2>5. Len(all) \in Nat /\ DOMAIN all = 1 .. Len(all) /\ \A i \in 1 .. Len(all) : all[i] \in Line
    BY <2>4, LenProperties
  <2>6. fields \in [1 .. Len(all) -> Reads]
    BY <2>5 DEF Line
  <2>7. fields \in Seq(Reads)
    BY <2>5, <2>6, SeqDef
  <2>8. ASSUME AllFit(all)
        PROVE  Range(fields) = {<<KeyColumn, k>> : k \in Keys(all)}
    <3>1. \A i \in 1 .. Len(all) : /\ all[i].key \in Records
                                   /\ fields[i] = <<KeyColumn, all[i].key>>
      BY <2>5, <2>8 DEF AllFit, Line
    <3>2. Keys(all) = {all[i].key : i \in 1 .. Len(all)}
      BY <2>5, <3>1 DEF Keys
    <3>3. Range(fields) = {fields[i] : i \in 1 .. Len(all)}
      BY <2>5 DEF Range
    <3> HIDE DEF fields
    <3>4. \A x : x \in Range(fields) <=> \E i \in 1 .. Len(all) : x = <<KeyColumn, all[i].key>>
      BY <3>1, <3>3
    <3>5. \A x : x \in {<<KeyColumn, k>> : k \in Keys(all)}
                  <=> \E i \in 1 .. Len(all) : x = <<KeyColumn, all[i].key>>
      BY <3>2
    <3> QED
      BY <3>4, <3>5
  <2> HIDE DEF fields
  <2>9. Range(keys) = Range(fields) /\ \A m, n \in DOMAIN keys : keys[m] = keys[n] => m = n
    BY <2>7, WithoutRepeatsOnce
  <2> HIDE DEF keys
  <2>10. OneRowPerKey
    BY <2>1, <2>3, <2>4, <2>8, <2>9 DEF OneRowPerKey
  <2> QED
    BY <2>10
<1>4. CsvInv /\ [CsvNext]_csvVars => [Once]_csvVars
  <2> SUFFICES ASSUME CsvInv, CsvNext PROVE Once
    BY DEF csvVars
  <2>1. CASE merged' = NoMerge
    BY <2>1
  <2>2. CASE merged' # NoMerge
    <3>1. PICK f \in Files, g \in Files : Merge(f, g)
      BY <2>2 DEF CsvNext, PlainAdd, AppendToCsv, AppendToMissing, DynamicAdd, PlainFlush,
                  PlainFlushFails, DynamicFlush, DynamicFlushFails, RewriteFails
    <3> QED
      BY <1>3, <3>1
  <2> QED
    BY <2>1, <2>2
<1> HIDE DEF Once
<1>5. CsvInv /\ [StoreNext]_storeVars => [Once]_csvVars
  BY <1>4, WriterSteps
<1>6. StoreSpec => [][Once]_csvVars
  BY <1>1, <1>2, <1>5, PTL DEF StoreSpec
<1> QED
  BY <1>6 DEF MergedOnce, Once

-----------------------------------------------------------------------------
(* Cutouts.  A path that is in hand is that of the stamp in hand, a file   *)
(* or a path that was returned lies where Path puts it, and no file is     *)
(* younger than the clock or than its name says.                           *)
JobInv ==
    \A w \in Writers :
        /\ job[w] = [alert |-> job[w].alert, todo |-> job[w].todo, path |-> job[w].path]
        /\ job[w].path # Nowhere =>
            \E second \in 0 .. clock :
                job[w].path = Path(job[w].alert, Head(job[w].todo), second)

FilesInv ==
    \A f \in files :
        /\ f.mtime \in 0 .. clock
        /\ \E second \in 0 .. f.mtime : f.path = Path(f.alert, f.kind, second)

RecordsInv ==
    \A r \in records :
        r.path # Nowhere =>
            \E second \in 0 .. clock : r.path = Path(r.alert, r.kind, second)

CutInv ==
    /\ clock \in Nat
    /\ job = [w \in Writers |-> job[w]]
    /\ JobInv /\ FilesInv /\ RecordsInv /\ PathsHold

LEMMA CutInvInit == CutoutInit => CutInv
  BY DEF CutoutInit, CutInv, JobInv, FilesInv, RecordsInv, PathsHold, NoJob

(* A writer that takes an alert or makes a directory changes its job only. *)
LEMMA CutInvJob ==
  ASSUME CutInv, UNCHANGED <<clock, files, records>>, job' = [w \in Writers |-> job'[w]], JobInv'
  PROVE  CutInv'
  BY DEF CutInv, FilesInv, RecordsInv, PathsHold, At

LEMMA CutInvStart ==
  ASSUME CutInv, NEW w \in Writers, NEW a \in CutAlerts, StartAlert(w, a)
  PROVE  CutInv'
<1> DEFINE todo == SelectSeq(Kinds, LAMBDA k : a.stamps[k] # "none")
<1>1. job' = [job EXCEPT ![w] = [alert |-> a, path |-> Nowhere, todo |-> todo]]
  BY DEF StartAlert
<1> HIDE DEF todo
<1>2. JobInv'
  BY <1>1 DEF CutInv, JobInv, StartAlert
<1> QED
  BY <1>1, <1>2, CutInvJob DEF CutInv, StartAlert

LEMMA CutInvDirectory ==
  ASSUME CutInv, NEW w \in Writers, MakeDirectory(w)
  PROVE  CutInv'
<1> DEFINE p == Path(job[w].alert, Head(job[w].todo), clock)
<1>1. job' = [job EXCEPT ![w].path = p]
  BY DEF MakeDirectory
<1>2. clock \in 0 .. clock
  BY DEF CutInv
<1>3. /\ job'[w] = [alert |-> job[w].alert, todo |-> job[w].todo, path |-> p]
      /\ \A v \in Writers \ {w} : job'[v] = job[v]
  BY <1>1 DEF CutInv, JobInv
<1>4. JobInv'
  BY <1>2, <1>3 DEF CutInv, JobInv, MakeDirectory
<1> QED
  BY <1>1, <1>4, CutInvJob DEF CutInv, MakeDirectory

LEMMA CutInvExtract ==
  ASSUME CutInv, NEW w \in Writers, Extract(w)
  PROVE  CutInv'
<1> DEFINE a == job[w].alert
           k == Head(job[w].todo)
           p == job[w].path
           good == a.stamps[k] = "fits" /\ p.night \in dirs
           new == [path |-> p, alert |-> a, kind |-> k, mtime |-> clock]
           r0 == [alert |-> a, kind |-> k, path |-> IF good THEN p ELSE Nowhere]
<1>1. /\ p # Nowhere
      /\ files' = IF good THEN (files \ At(p)) \cup {new} ELSE files
      /\ records' = records \cup {r0}
      /\ job' = [job EXCEPT ![w].path = Nowhere, ![w].todo = Tail(@)]
      /\ clock' = clock
  BY DEF Extract
<1>2. PICK second \in 0 .. clock : p = Path(a, k, second)
  BY <1>1 DEF CutInv, JobInv
<1>3. clock \in Nat
  BY DEF CutInv
<1>4. /\ job'[w] = [alert |-> a, todo |-> Tail(job[w].todo), path |-> Nowhere]
      /\ \A v \in Writers \ {w} : job'[v] = job[v]
      /\ job' = [v \in Writers |-> job'[v]]
  <2>1. job[w] = [alert |-> a, todo |-> job[w].todo, path |-> p]
    BY DEF CutInv, JobInv
  <2>2. [[job[w] EXCEPT !.path = Nowhere] EXCEPT !.todo = Tail(job[w].todo)]
          = [alert |-> a, todo |-> Tail(job[w].todo), path |-> Nowhere]
    <3> DEFINE j == job[w]  t == job[w].todo  t2 == Tail(job[w].todo)
    <3>1. j = [alert |-> a, todo |-> t, path |-> p]
      BY <2>1
    <3> DEFINE m == [alert |-> a, todo |-> t, path |-> Nowhere]
    <3> HIDE DEF a, p, j, t, t2
    <3>2. [j EXCEPT !.path = Nowhere] = m
      BY <3>1
    <3>3. [m EXCEPT !.todo = t2] = [alert |-> a, todo |-> t2, path |-> Nowhere]
      OBVIOUS
    <3> HIDE DEF m
    <3>4. [[j EXCEPT !.path = Nowhere] EXCEPT !.todo = t2]
            = [alert |-> a, todo |-> t2, path |-> Nowhere]
      BY <3>2, <3>3
    <3> QED
      BY <3>4 DEF j, t2
  <2>3. job = [v \in Writers |-> job[v]]
    BY DEF CutInv
  <2>4. job' = [job EXCEPT ![w] = [[@ EXCEPT !.path = Nowhere] EXCEPT !.todo = Tail(job[w].todo)]]
    BY <1>1, <2>1, <2>3
  <2> QED
    BY <2>2, <2>3, <2>4
<1>5. JobInv'
  BY <1>1, <1>4 DEF CutInv, JobInv
<1>6. FilesInv'
  BY <1>1, <1>2, <1>3 DEF CutInv, FilesInv
<1>7. RecordsInv'
  BY <1>1, <1>2 DEF CutInv, RecordsInv
<1>8. PathsHold'
  <2> SUFFICES ASSUME NEW r \in records', r.path # Nowhere
               PROVE  \/ \E f \in files' : /\ f.path = r.path
                                           /\ f.alert.source = r.alert.source /\ f.kind = r.kind
                      \/ (~ \E f \in files' : f.path = r.path) /\ r.path.second + Days < clock'
    BY DEF PathsHold, At
  <2>1. CASE r.path = p /\ good
    <3>1. r.alert.source = a.source /\ r.kind = k
      <4>1. PICK t \in 0 .. clock : r.path = Path(r.alert, r.kind, t)
        BY <1>1, <1>7 DEF RecordsInv
      <4>2. r.path.source = r.alert.source /\ r.path.kind = r.kind
        BY <4>1 DEF Path
      <4>3. p.source = a.source /\ p.kind = k
        BY <1>2 DEF Path
      <4> QED
        BY <4>2, <4>3, <2>1
    <3>2. new \in files' /\ new.path = p /\ new.alert = a /\ new.kind = k
      BY <2>1, <1>1
    <3> HIDE DEF new
    <3> QED
      BY <3>1, <3>2, <2>1
  <2>2. CASE ~ good
    <3>1. r \in records /\ files' = files
      BY <2>2, <1>1
    <3> QED
      BY <3>1, <1>1 DEF CutInv, PathsHold, At
  <2>3. CASE r.path # p /\ good
    <3>1. r \in records /\ \A f : f.path = r.path => (f \in files <=> f \in files')
      BY <2>3, <1>1 DEF At
    <3> QED
      BY <3>1, <1>1 DEF CutInv, PathsHold, At
  <2> QED
    BY <2>1, <2>2, <2>3
<1> QED
  BY <1>1, <1>3, <1>4, <1>5, <1>6, <1>7, <1>8 DEF CutInv

LEMMA CutInvRemove ==
  ASSUME CutInv, RemoveOldFile
  PROVE  CutInv'
<1>1. PICK g \in files : g.mtime + Days < clock /\ files' = files \ {g}
  BY DEF RemoveOldFile
<1>2. clock' = clock /\ job' = job /\ records' = records
  BY DEF RemoveOldFile
<1>3. g.path.second + Days < clock
  <2>1. PICK second \in 0 .. g.mtime : g.path = Path(g.alert, g.kind, second)
    BY DEF CutInv, FilesInv
  <2>2. g.path.second = second /\ g.mtime \in Nat /\ clock \in Nat
    BY <2>1 DEF CutInv, FilesInv, Path
  <2> QED
    BY <1>1, <2>2, CutoutAssumption
<1>4. PathsHold'
  <2> SUFFICES ASSUME NEW r \in records, r.path # Nowhere
               PROVE  \/ \E f \in files' : /\ f.path = r.path
                                           /\ f.alert.source = r.alert.source /\ f.kind = r.kind
                      \/ (~ \E f \in files' : f.path = r.path) /\ r.path.second + Days < clock
    BY <1>2 DEF PathsHold, At
  <2>1. CASE \E f \in files' : f.path = r.path
    <3>1. PICK f \in files' : f.path = r.path
      BY <2>1
    <3>2. PICK t \in 0 .. clock : r.path = Path(r.alert, r.kind, t)
      BY DEF CutInv, RecordsInv
    <3>3. PICK u \in 0 .. f.mtime : f.path = Path(f.alert, f.kind, u)
      BY <1>1 DEF CutInv, FilesInv
    <3> QED
      BY <3>1, <3>2, <3>3 DEF Path
  <2>2. CASE ~ \E f \in files' : f.path = r.path
    <3>1. CASE r.path = g.path
      BY <3>1, <2>2, <1>3
    <3>2. CASE r.path # g.path
      BY <3>2, <2>2, <1>1 DEF CutInv, PathsHold, At
    <3> QED
      BY <3>1, <3>2
  <2> QED
    BY <2>1, <2>2
<1> QED
  BY <1>1, <1>2, <1>4 DEF CutInv, JobInv, FilesInv, RecordsInv

LEMMA CutInvTick ==
  ASSUME CutInv, Tick
  PROVE  CutInv'
<1>1. clock' = clock + 1 /\ clock \in Nat /\ UNCHANGED <<files, job, records>>
  BY DEF Tick, CutInv
<1>2. clock' \in Nat /\ 0 .. clock \subseteq 0 .. clock'
  BY <1>1
<1>3. JobInv' /\ FilesInv' /\ RecordsInv'
  BY <1>1, <1>2 DEF CutInv, JobInv, FilesInv, RecordsInv
<1>4. PathsHold'
  <2> SUFFICES ASSUME NEW r \in records, r.path # Nowhere,
                      r.path.second + Days < clock
               PROVE  r.path.second + Days < clock'
    BY <1>1 DEF CutInv, PathsHold, At
  <2>1. PICK t \in 0 .. clock : r.path = Path(r.alert, r.kind, t)
    BY DEF CutInv, RecordsInv
  <2>2. r.path.second = t
    BY <2>1 DEF Path
  <2> QED
    BY <1>1, <2>2, CutoutAssumption
<1> QED
  BY <1>1, <1>2, <1>3, <1>4 DEF CutInv

LEMMA CutInvStep == CutInv /\ [CutoutNext]_cutVars => CutInv'
<1> SUFFICES ASSUME CutInv, [CutoutNext]_cutVars
             PROVE  CutInv'
  OBVIOUS
<1>1. CASE UNCHANGED <<clock, files, job, records>>
  BY <1>1 DEF CutInv, JobInv, FilesInv, RecordsInv, PathsHold, At
<1>2. ASSUME NEW w \in Writers,
             (\E a \in CutAlerts : StartAlert(w, a)) \/ MakeDirectory(w) \/ Extract(w)
      PROVE  CutInv'
  BY <1>2, CutInvStart, CutInvDirectory, CutInvExtract
<1> QED
  BY <1>1, <1>2, CutInvRemove, CutInvTick
     DEF CutoutNext, cutVars, ListDirectories, LookInside, RemoveDirectory

(* Until the cleanup removes a directory, the one of a path in hand is     *)
(* there: that is why a good stamp then gets its path.                     *)
SavedInv ==
    /\ job = [w \in Writers |-> job[w]]
    /\ \A w \in Writers :
        /\ job[w] = [alert |-> job[w].alert, todo |-> job[w].todo, path |-> job[w].path]
        /\ ~ swept /\ job[w].path # Nowhere => job[w].path.night \in dirs
    /\ GoodStampsSaved

LEMMA SavedInvInit == CutoutInit => SavedInv
  BY DEF CutoutInit, SavedInv, GoodStampsSaved, NoJob

LEMMA SavedInvStart ==
  ASSUME SavedInv, NEW w \in Writers, NEW a \in CutAlerts, StartAlert(w, a)
  PROVE  SavedInv'
<1> DEFINE todo == SelectSeq(Kinds, LAMBDA k : a.stamps[k] # "none")
<1>1. job' = [job EXCEPT ![w] = [alert |-> a, path |-> Nowhere, todo |-> todo]]
  BY DEF StartAlert
<1> HIDE DEF todo
<1>2. UNCHANGED <<dirs, records, swept>>
  BY DEF StartAlert
<1>3. job' = [v \in Writers |-> job'[v]]
  BY <1>1 DEF SavedInv
<1>4. \A v \in Writers :
        /\ job'[v] = [alert |-> job'[v].alert, todo |-> job'[v].todo, path |-> job'[v].path]
        /\ ~ swept /\ job'[v].path # Nowhere => job'[v].path.night \in dirs
  BY <1>1 DEF SavedInv
<1> QED
  BY <1>2, <1>3, <1>4 DEF SavedInv, GoodStampsSaved

LEMMA SavedInvDirectory ==
  ASSUME SavedInv, NEW w \in Writers, MakeDirectory(w)
  PROVE  SavedInv'
<1> DEFINE p == Path(job[w].alert, Head(job[w].todo), clock)
<1>1. job' = [job EXCEPT ![w].path = p] /\ dirs' = dirs \cup {p.night}
  BY DEF MakeDirectory
<1>2. UNCHANGED <<records, swept>>
  BY DEF MakeDirectory
<1> HIDE DEF p
<1>3. /\ job'[w] = [alert |-> job[w].alert, todo |-> job[w].todo, path |-> p]
      /\ \A v \in Writers \ {w} : job'[v] = job[v]
  BY <1>1 DEF SavedInv
<1>4. job' = [v \in Writers |-> job'[v]]
  BY <1>1 DEF SavedInv
<1>5. \A v \in Writers :
        /\ job'[v] = [alert |-> job'[v].alert, todo |-> job'[v].todo, path |-> job'[v].path]
        /\ ~ swept /\ job'[v].path # Nowhere => job'[v].path.night \in dirs'
  BY <1>1, <1>3 DEF SavedInv
<1> QED
  BY <1>2, <1>4, <1>5 DEF SavedInv, GoodStampsSaved

LEMMA SavedInvExtract ==
  ASSUME SavedInv, NEW w \in Writers, Extract(w)
  PROVE  SavedInv'
<1> DEFINE a == job[w].alert
           k == Head(job[w].todo)
           p == job[w].path
           good == a.stamps[k] = "fits" /\ p.night \in dirs
           r0 == [alert |-> a, kind |-> k, path |-> IF good THEN p ELSE Nowhere]
<1>1. /\ p # Nowhere
      /\ records' = records \cup {r0}
      /\ job' = [job EXCEPT ![w].path = Nowhere, ![w].todo = Tail(@)]
      /\ UNCHANGED <<dirs, swept>>
  BY DEF Extract
<1>2. job = [v \in Writers |-> job[v]]
  BY DEF SavedInv
<1>3. /\ job'[w] = [alert |-> a, todo |-> Tail(job[w].todo), path |-> Nowhere]
      /\ \A v \in Writers \ {w} : job'[v] = job[v]
      /\ job' = [v \in Writers |-> job'[v]]
  <2>1. job[w] = [alert |-> a, todo |-> job[w].todo, path |-> p]
    BY DEF SavedInv
  <2>2. [[job[w] EXCEPT !.path = Nowhere] EXCEPT !.todo = Tail(job[w].todo)]
          = [alert |-> a, todo |-> Tail(job[w].todo), path |-> Nowhere]
    <3> DEFINE j == job[w]  t == job[w].todo  t2 == Tail(job[w].todo)
    <3>1. j = [alert |-> a, todo |-> t, path |-> p]
      BY <2>1
    <3> DEFINE m == [alert |-> a, todo |-> t, path |-> Nowhere]
    <3> HIDE DEF a, p, j, t, t2
    <3>2. [j EXCEPT !.path = Nowhere] = m
      BY <3>1
    <3>3. [m EXCEPT !.todo = t2] = [alert |-> a, todo |-> t2, path |-> Nowhere]
      OBVIOUS
    <3> HIDE DEF m
    <3>4. [[j EXCEPT !.path = Nowhere] EXCEPT !.todo = t2]
            = [alert |-> a, todo |-> t2, path |-> Nowhere]
      BY <3>2, <3>3
    <3> QED
      BY <3>4 DEF j, t2
  <2>3. job' = [job EXCEPT ![w] = [[@ EXCEPT !.path = Nowhere] EXCEPT !.todo = Tail(job[w].todo)]]
    BY <1>1, <2>1, <1>2
  <2> QED
    BY <2>2, <1>2, <2>3
<1>4. \A v \in Writers :
        /\ job'[v] = [alert |-> job'[v].alert, todo |-> job'[v].todo, path |-> job'[v].path]
        /\ ~ swept /\ job'[v].path # Nowhere => job'[v].path.night \in dirs
  BY <1>3 DEF SavedInv
<1>5. ~ swept => p.night \in dirs
  BY <1>1 DEF SavedInv
<1>6. ~ swept => \A r \in records' : (r.alert.stamps[r.kind] = "fits") = (r.path # Nowhere)
  <2> SUFFICES ASSUME ~ swept, NEW r \in records'
               PROVE  (r.alert.stamps[r.kind] = "fits") <=> (r.path # Nowhere)
    OBVIOUS
  <2>1. CASE r \in records
    BY <2>1 DEF SavedInv, GoodStampsSaved
  <2>2. CASE r = r0
    BY <2>2, <1>1, <1>5
  <2> QED
    BY <1>1, <2>1, <2>2
<1> QED
  BY <1>1, <1>3, <1>4, <1>6 DEF SavedInv, GoodStampsSaved

LEMMA SavedInvStep == SavedInv /\ [CutoutNext]_cutVars => SavedInv'
<1> SUFFICES ASSUME SavedInv, [CutoutNext]_cutVars
             PROVE  SavedInv'
  OBVIOUS
<1>1. CASE UNCHANGED <<job, records>> /\ (UNCHANGED <<dirs, swept>> \/ swept' = TRUE)
  BY <1>1 DEF SavedInv, GoodStampsSaved
<1>2. ASSUME NEW w \in Writers,
             (\E a \in CutAlerts : StartAlert(w, a)) \/ MakeDirectory(w) \/ Extract(w)
      PROVE  SavedInv'
  BY <1>2, SavedInvStart, SavedInvDirectory, SavedInvExtract
<1> QED
  BY <1>1, <1>2
     DEF CutoutNext, cutVars, RemoveOldFile, ListDirectories, LookInside, RemoveDirectory, Tick

(* What the cutouts preserve is preserved by the system they are a part of.*)
LEMMA CutoutSteps == [StoreNext]_storeVars => [CutoutNext]_cutVars
  BY DEF StoreNext, storeVars

(* A path that an extraction returned leads to the stamp of the same       *)
(* source and kind, or to nothing once it is old enough to be removed:     *)
(* cutouts/processor.py with writers and the cleanup side by side.         *)
THEOREM PathsLead == StoreSpec => []PathsHold
<1>1. StoreInit => CutInv
  BY CutInvInit DEF StoreInit
<1>2. CutInv /\ [StoreNext]_storeVars => CutInv'
  BY CutInvStep, CutoutSteps
<1>3. CutInv => PathsHold
  BY DEF CutInv
<1> QED
  BY <1>1, <1>2, <1>3, PTL DEF StoreSpec

(* A stamp gets a path exactly if its data are good, as long as the        *)
(* cleanup has removed no directory: _extract_cutout.                      *)
THEOREM StampsSaved == StoreSpec => []GoodStampsSaved
<1>1. StoreInit => SavedInv
  BY SavedInvInit DEF StoreInit
<1>2. SavedInv /\ [StoreNext]_storeVars => SavedInv'
  BY SavedInvStep, CutoutSteps
<1>3. SavedInv => GoodStampsSaved
  BY DEF SavedInv
<1> QED
  BY <1>1, <1>2, <1>3, PTL DEF StoreSpec
=============================================================================
