--------------------------- MODULE LegacyConsumer ---------------------------
(***************************************************************************)
(* lsst_alert_consumer.py and bin/run_lsst_consumer.sh: the CSV consumer,  *)
(* its state file, which is rewritten in place, the PID file its script    *)
(* uses as a lock, and the consumer group that hands the partition around. *)
(*                                                                         *)
(* Messages are named by their position in Stream.  One CSV file stands    *)
(* for the file of the day.                                                *)
(***************************************************************************)
EXTENDS Naturals, Sequences, FiniteSets, SequencesExt

CONSTANTS
    Procs,       \* processes that may run the consumer
    Stream,      \* the topic: [ok, source, sso, time], ok if it decodes
    None,
    BatchSize,   \* rows that trigger a save (100 in the code)
    MaxStarts,   \* bound: starts of the consumer
    MaxFaults    \* bound: kinds of failure in one behaviour

ASSUME LegacyAssumption ==
    /\ BatchSize \in Nat \ {0} /\ MaxStarts \in Nat /\ MaxFaults \in Nat /\ None \notin Procs
    /\ Len(Stream) \in Nat /\ DOMAIN Stream = 1 .. Len(Stream)
    /\ \A i \in DOMAIN Stream : Stream[i].ok \in BOOLEAN

VARIABLES
    pidfile,     \* temp/consumer.pid
    stateFile,   \* temp/consumer_state.json: torn between open("w") and the dump
    csv,         \* the rows of the CSV, pairs of a message and its reason
    csvEnd,      \* "none": no such file; "line": it ends with a line;
                 \* "torn": it ends inside of one, or has no header yet
    mixed,       \* the processes whose last save of rows has met another's
    recent,      \* the newest file of a failed batch: [by, ids]
    failed,      \* the messages in the older ones
    committed,   \* Kafka: messages below this are not delivered again
    owner,       \* Kafka: the group member that holds the partition, if alive
    proc,        \* the processes
    starts,      \* starts so far
    fault        \* history: the kinds of failure that have happened

saves == <<csv, csvEnd, mixed>>
batches == <<recent, failed>>
disk == <<pidfile, stateFile, saves, batches>>
broker == <<committed, owner>>
vars == <<disk, broker, proc, starts, fault>>

Sources == {Stream[i].source : i \in DOMAIN Stream}
Tracked(i) == [sso |-> Stream[i].sso, time |-> Stream[i].time]
Unknown == [s \in Sources |-> None]

(* pc of a process; "exit" is the script after the consumer has ended.     *)
Saves == {"create", "fill", "append"}
Consuming == {"boot", "loop", "csv", "truncate", "write", "close"} \cup Saves
Off == [pc |-> "off", script |-> FALSE, known |-> Unknown, buf |-> <<>>,
        pos |-> 0, ending |-> "no"]

(* Scripts that race, consumers that overlap and failures that fall into   *)
(* one second are not counted by the bound.                                *)
Meetings == {"race", "overlap", "second"}
Faults(kinds) ==
    /\ fault' = fault \cup kinds
    /\ Cardinality(fault' \ Meetings) <= MaxFaults
Faulty(f) == Faults({f})

Init ==
    /\ pidfile = None
    /\ stateFile = [torn |-> FALSE, known |-> Unknown]
    /\ csv = <<>> /\ csvEnd = "none" /\ mixed = {}
    /\ recent = [by |-> None, ids |-> {}] /\ failed = {}
    /\ committed = 0 /\ owner = None
    /\ proc = [p \in Procs |-> Off]
    /\ starts = 0 /\ fault = {}

-----------------------------------------------------------------------------
(* The script: $$ is written after a check of the PID that is there.       *)
ShellAlive(p) == proc[p].script /\ proc[p].pc # "off"

(* A defect: any PID file is taken for a stale one.                        *)
CheckLockStale(p) ==
    /\ proc[p].pc = "off" /\ starts < MaxStarts
    /\ pidfile' = None
    /\ proc' = [proc EXCEPT ![p] = [Off EXCEPT !.pc = "checked", !.script = TRUE]]
    /\ starts' = starts + 1
    /\ IF \E q \in Procs : proc[q].pc = "checked" THEN Faulty("race")
                                                  ELSE UNCHANGED fault
    /\ UNCHANGED <<stateFile, saves, batches, broker>>

(* It refuses if the PID is alive, and removes the file if it is not.  Two *)
(* scripts may both have passed this check.                                *)
CheckLock(p) ==
    /\ proc[p].pc = "off" /\ starts < MaxStarts
    /\ pidfile # None => ~ ShellAlive(pidfile)
    /\ pidfile' = None
    /\ proc' = [proc EXCEPT ![p] = [Off EXCEPT !.pc = "checked", !.script = TRUE]]
    /\ starts' = starts + 1
    /\ IF \E q \in Procs : proc[q].pc = "checked" THEN Faulty("race")
                                                  ELSE UNCHANGED fault
    /\ UNCHANGED <<stateFile, saves, batches, broker>>

WriteLock(p) ==
    /\ proc[p].pc = "checked"
    /\ pidfile' = p
    /\ proc' = [proc EXCEPT ![p].pc = "boot"]
    /\ UNCHANGED <<stateFile, saves, batches, broker, starts, fault>>

(* lsst-extendedness ingest --legacy, or python by hand: no lock.          *)
StartByHand(p) ==
    /\ proc[p].pc = "off" /\ starts < MaxStarts
    /\ proc' = [proc EXCEPT ![p] = [Off EXCEPT !.pc = "boot"]]
    /\ starts' = starts + 1
    /\ UNCHANGED <<disk, broker, fault>>

(* rm -f, whatever the file says by now.                                   *)
RemoveLock(p) ==
    /\ proc[p].pc = "exit"
    /\ pidfile' = None
    /\ proc' = [proc EXCEPT ![p] = Off]
    /\ UNCHANGED <<stateFile, saves, batches, broker, starts, fault>>

-----------------------------------------------------------------------------
(* A defect: the state file is not read.                                   *)
LoadStateFresh(p) ==
    /\ proc[p].pc = "boot"
    /\ proc' = [proc EXCEPT ![p].pc = "loop", ![p].known = Unknown]
    /\ recent' = [recent EXCEPT !.by = IF @ = p THEN None ELSE @]
    /\ IF \E q \in Procs \ {p} : proc[q].pc \in Consuming THEN Faulty("overlap")
                                                         ELSE UNCHANGED fault
    /\ UNCHANGED <<pidfile, stateFile, saves, failed, broker, starts>>

(* _load_state: what cannot be parsed is as good as no state.  (The newest *)
(* failed batch of an earlier run of p is now another one's.)              *)
LoadState(p) ==
    /\ proc[p].pc = "boot"
    /\ proc' = [proc EXCEPT ![p].pc = "loop",
                            ![p].known = IF stateFile.torn THEN Unknown
                                         ELSE stateFile.known]
    /\ recent' = [recent EXCEPT !.by = IF @ = p THEN None ELSE @]
    /\ IF \E q \in Procs \ {p} : proc[q].pc \in Consuming THEN Faulty("overlap")
                                                         ELSE UNCHANGED fault
    /\ UNCHANGED <<pidfile, stateFile, saves, failed, broker, starts>>

(* A defect: reading goes on one after the committed position.             *)
AssignPast(p) ==
    /\ proc[p].pc = "loop" /\ owner # p
    /\ owner # None => proc[owner].pc \notin Consuming \ {"loop"}
    /\ LET c == IF owner # None /\ proc[owner].pc = "loop"
                THEN proc[owner].pos ELSE committed
       IN /\ committed' = c
          /\ proc' = [proc EXCEPT ![p].pos = c + 1]
    /\ owner' = p
    /\ UNCHANGED <<disk, starts, fault>>

(* The group gives the partition to a member that polls; the one that had  *)
(* it, if it still polls, commits its position first.  Reading goes on     *)
(* where the group has committed.                                          *)
Assign(p) ==
    /\ proc[p].pc = "loop" /\ owner # p
    /\ owner # None => proc[owner].pc \notin Consuming \ {"loop"}
    /\ LET c == IF owner # None /\ proc[owner].pc = "loop"
                THEN proc[owner].pos ELSE committed
       IN /\ committed' = c
          /\ proc' = [proc EXCEPT ![p].pos = c]
    /\ owner' = p
    /\ UNCHANGED <<disk, starts, fault>>

(* enable.auto.commit: what poll has returned counts as consumed.          *)
AutoCommit(p) ==
    /\ owner = p /\ proc[p].pc \in Consuming
    /\ committed' = proc[p].pos
    /\ committed' # committed
    /\ UNCHANGED <<disk, owner, proc, starts, fault>>

(* The reassociation test of process_alert, by what is known of the source.*)
Reason(prev, now) ==
    IF prev = None THEN None
    ELSE IF now.sso # None /\ prev.sso = None THEN "new_association"
    ELSE IF now.sso # None /\ prev.sso # now.sso THEN "changed_association"
    ELSE IF {now.time, prev.time} \cap {None} = {} /\ now.time # prev.time
         THEN "updated_reassociation" ELSE None

(* One round of the loop: process_alert enters the source into the state   *)
(* in memory, the row is buffered, and a full buffer is saved.  A message  *)
(* that does not decode is counted and gone.                               *)
Consume(p) ==
    /\ proc[p].pc = "loop" /\ owner = p /\ proc[p].pos < Len(Stream)
    /\ LET i == proc[p].pos + 1
           s == Stream[i].source
           row == <<i, Reason(proc[p].known[s], Tracked(i))>>
           buf == IF Stream[i].ok THEN Append(proc[p].buf, row) ELSE proc[p].buf
       IN proc' = [proc EXCEPT
            ![p].pos = i,
            ![p].known = IF Stream[i].ok THEN [@ EXCEPT ![s] = Tracked(i)] ELSE @,
            ![p].buf = buf,
            ![p].pc = IF Stream[i].ok /\ Len(buf) >= BatchSize THEN "csv" ELSE "loop"]
    /\ UNCHANGED <<disk, broker, starts, fault>>

(* The duration or the limit is reached, or Ctrl-C comes between messages: *)
(* the finally clause saves the rest, then the state once more.            *)
Ending(p, r) ==
    IF r.buf # <<>> THEN [r EXCEPT !.pc = "csv", !.ending = "rest"]
                    ELSE [r EXCEPT !.pc = "truncate", !.ending = "state"]

LeaveLoop(p) ==
    /\ proc[p].pc = "loop"
    /\ proc' = [proc EXCEPT ![p] = Ending(p, @)]
    /\ UNCHANGED <<disk, broker, starts, fault>>

(* A defect: after a save that failed at the end the state is not saved.   *)
SaveFailedEnds(r) == IF r.ending = "no" THEN [r EXCEPT !.pc = "loop"]
                     ELSE [r EXCEPT !.pc = "close", !.ending = "state"]

(* Back from a save_to_csv that failed.                                    *)
SaveFailed(r) == IF r.ending = "no" THEN [r EXCEPT !.pc = "loop"]
                 ELSE [r EXCEPT !.pc = "truncate", !.ending = "state"]

(* save_to_csv looks whether the file is there.  A save that begins while  *)
(* another is under way clashes with it.                                   *)
LookForCsv(p) ==
    /\ proc[p].pc = "csv"
    /\ proc' = [proc EXCEPT ![p].pc = IF csvEnd = "none" THEN "create" ELSE "append"]
    /\ LET others == {q \in Procs \ {p} : proc[q].pc \in Saves}
       IN IF others = {} THEN mixed' = mixed \ {p} /\ UNCHANGED fault
          ELSE mixed' = mixed \cup {p} \cup others /\ Faulty("clash")
    /\ UNCHANGED <<pidfile, stateFile, csv, csvEnd, batches, broker, starts>>

(* to_csv in mode "w": whatever is there by now is gone.                   *)
CreateCsv(p) ==
    /\ proc[p].pc = "create"
    /\ csv' = <<>> /\ csvEnd' = "torn"
    /\ proc' = [proc EXCEPT ![p].pc = "fill"]
    /\ UNCHANGED <<pidfile, stateFile, mixed, batches, broker, starts, fault>>

(* Lines i .. j - 1 do not come out as lines of their own.                 *)
Without(lines, i, j) == SubSeq(lines, 1, i - 1) \o SubSeq(lines, j, Len(lines))

(* Rows reach the file: at its end, the first one of them on the line that *)
(* is torn there; or, in mode "w", from its start on, over what others     *)
(* have added.  Saves that meet spoil lines of each other.                 *)
Reach(p, rows) ==
    LET lines == IF proc[p].pc = "fill" THEN rows \o csv ELSE rows
        glued == proc[p].pc = "append" /\ csvEnd = "torn" /\ rows # <<>>
    IN \E i \in 1 .. Len(lines) + 1 : \E j \in i .. Len(lines) + 1 :
         /\ p \notin mixed => i = 1 /\ j = IF glued THEN 2 ELSE 1
         /\ csv' = IF proc[p].pc = "fill" THEN Without(lines, i, j)
                   ELSE csv \o Without(lines, i, j)

(* A defect: the buffer is not emptied.                                    *)
WriteRowsKeeps(p) ==
    /\ proc[p].pc \in {"fill", "append"}
    /\ Reach(p, proc[p].buf) /\ csvEnd' = "line"
    /\ proc' = [proc EXCEPT ![p].pc = "truncate"]
    /\ UNCHANGED <<pidfile, stateFile, mixed, batches, broker, starts, fault>>

(* The rows are written, the buffer is emptied, and _save_state opens the  *)
(* state file for writing.                                                 *)
WriteRows(p) ==
    /\ proc[p].pc \in {"fill", "append"}
    /\ Reach(p, proc[p].buf) /\ csvEnd' = "line"
    /\ proc' = [proc EXCEPT ![p].buf = <<>>, ![p].pc = "truncate"]
    /\ UNCHANGED <<pidfile, stateFile, mixed, batches, broker, starts, fault>>

(* What a save leaves that stops before its end: n rows, and a line that   *)
(* is torn or not; nothing, if it has not opened the file yet.             *)
Stops(p, n, end) ==
    IF proc[p].pc \in {"csv", "create"} THEN n = 0 /\ end = "line" /\ UNCHANGED saves
    ELSE /\ proc[p].pc \in {"fill", "append"}
         /\ proc[p].pc = "append" /\ csvEnd = "torn" /\ n = 0 => end = "torn"
         /\ Reach(p, SubSeq(proc[p].buf, 1, n)) /\ csvEnd' = end
         /\ UNCHANGED mixed

Batch(p) == {row[1] : row \in Range(proc[p].buf)}

(* A failed batch goes into a file that is named for the second: a new one *)
(* or, within the second, in the place of the last one.                    *)
KeepBatch(p, kinds) ==
    /\ recent' = [by |-> p, ids |-> Batch(p)]
    /\ \/ failed' = failed \cup recent.ids /\ Faults(kinds)
       \/ recent.by = p /\ UNCHANGED failed /\ Faults(kinds)
       \/ recent.by # p /\ recent.ids # {} /\ UNCHANGED failed
          /\ Faults(kinds \cup {"second"})

(* A defect: the buffer is emptied although the rows were not written.     *)
SaveFailsEmpties(p) ==
    /\ proc[p].pc = "csv"
    /\ Faulty("disk")
    /\ proc' = [proc EXCEPT ![p] = SaveFailed([@ EXCEPT !.buf = <<>>])]
    /\ UNCHANGED <<disk, broker, starts>>

(* It fails, some rows written or none: the buffer stays, to be tried      *)
(* again after the next message, and goes into a file of its own, if that  *)
(* works; if it does not, that file may be left empty.                     *)
SaveFails(p) ==
    /\ \E n \in 0 .. Len(proc[p].buf) - 1 : \E end \in {"line", "torn"} :
         /\ Stops(p, n, end)
         /\ \/ KeepBatch(p, {IF end = "torn" THEN "cut" ELSE "disk"})
            \/ /\ Faulty("recovery") /\ UNCHANGED failed
               /\ recent' \in {recent, [recent EXCEPT !.ids = {}]}
    /\ proc' = [proc EXCEPT ![p] = SaveFailed(@)]
    /\ UNCHANGED <<pidfile, stateFile, broker, starts>>

Truncate(p) ==
    /\ proc[p].pc = "truncate"
    /\ stateFile' = [stateFile EXCEPT !.torn = TRUE]
    /\ proc' = [proc EXCEPT ![p].pc = "write"]
    /\ UNCHANGED <<pidfile, saves, batches, broker, starts, fault>>

(* The state saved by the rest's save_to_csv is saved again right after.   *)
StateWritten(r) ==
    CASE r.ending = "no"    -> [r EXCEPT !.pc = "loop"]
      [] r.ending = "rest"  -> [r EXCEPT !.pc = "truncate", !.ending = "state"]
      [] r.ending = "state" -> [r EXCEPT !.pc = "close"]

WriteState(p) ==
    /\ proc[p].pc = "write"
    /\ stateFile' = [torn |-> FALSE, known |-> proc[p].known]
    /\ proc' = [proc EXCEPT ![p] = StateWritten(@)]
    /\ UNCHANGED <<pidfile, saves, batches, broker, starts, fault>>

(* An error of _save_state is logged.                                      *)
WriteStateFails(p) ==
    /\ proc[p].pc = "write"
    /\ Faulty("state")
    /\ proc' = [proc EXCEPT ![p] = StateWritten(@)]
    /\ UNCHANGED <<disk, broker, starts>>

(* consumer.close() commits and leaves the group.                          *)
Close(p) ==
    /\ proc[p].pc = "close"
    /\ IF owner = p THEN committed' = proc[p].pos /\ owner' = None
                    ELSE UNCHANGED broker
    /\ proc' = [proc EXCEPT ![p] = IF @.script THEN [Off EXCEPT !.pc = "exit", !.script = TRUE]
                                               ELSE Off]
    /\ UNCHANGED <<disk, starts, fault>>

-----------------------------------------------------------------------------
(* Ctrl-C inside process_alert: the source is in the state, the row is     *)
(* not in the buffer.  Inside a save of the loop: the finally saves again. *)
Interrupt(p) ==
    /\ Faulty("interrupt")
    /\ \/ /\ proc[p].pc = "loop" /\ owner = p /\ proc[p].pos < Len(Stream)
          /\ LET i == proc[p].pos + 1
                 k == IF Stream[i].ok
                      THEN [proc[p].known EXCEPT ![Stream[i].source] = Tracked(i)]
                      ELSE proc[p].known
             IN proc' = [proc EXCEPT ![p] = Ending(p, [@ EXCEPT !.pos = i, !.known = k])]
          /\ UNCHANGED saves
       \/ /\ proc[p].ending = "no"
          /\ \E n \in 0 .. Len(proc[p].buf) : \E end \in {"line", "torn"} :
               Stops(p, n, end)
          /\ proc' = [proc EXCEPT ![p] = Ending(p, @)]
       \/ /\ proc[p].pc \in {"truncate", "write"} /\ proc[p].ending = "no"
          /\ proc' = [proc EXCEPT ![p] = Ending(p, @)]
          /\ UNCHANGED saves
    /\ UNCHANGED <<pidfile, stateFile, batches, broker, starts>>

(* kill -9, or SIGTERM: of the Python process, whose script goes on; of    *)
(* the script, whose Python process goes on; of both.                      *)
Kill(p) ==
    /\ \/ /\ Faulty("orphan")
          /\ proc[p].pc \in Consuming /\ proc[p].script
          /\ proc' = [proc EXCEPT ![p].script = FALSE]
          /\ UNCHANGED saves
       \/ /\ Faulty("kill")
          /\ \/ /\ proc[p].pc \in Consuming /\ proc[p].script
                /\ proc' = [proc EXCEPT ![p] = [Off EXCEPT !.pc = "exit", !.script = TRUE]]
             \/ /\ proc[p].pc # "off"
                /\ proc' = [proc EXCEPT ![p] = Off]
          /\ IF proc[p].pc \in {"fill", "append"}
             THEN \E n \in 0 .. Len(proc[p].buf) : \E end \in {"line", "torn"} :
                    Stops(p, n, end)
             ELSE UNCHANGED saves
    /\ UNCHANGED <<pidfile, stateFile, batches, broker, starts>>

Step(p) ==
    \/ WriteLock(p) \/ RemoveLock(p) \/ LoadState(p) \/ LeaveLoop(p)
    \/ LookForCsv(p) \/ CreateCsv(p) \/ WriteRows(p) \/ SaveFails(p) \/ Truncate(p)
    \/ WriteState(p) \/ WriteStateFails(p) \/ Close(p)

Next ==
    \E p \in Procs :
        \/ CheckLock(p) \/ StartByHand(p) \/ Step(p)
        \/ Assign(p) \/ AutoCommit(p) \/ Consume(p)
        \/ Interrupt(p) \/ Kill(p)

Spec == Init /\ [][Next]_vars

-----------------------------------------------------------------------------
TypeOK ==
    /\ pidfile \in Procs \cup {None} /\ owner \in Procs \cup {None}
    /\ stateFile.torn \in BOOLEAN
    /\ committed \in 0 .. Len(Stream)
    /\ csvEnd \in {"none", "line", "torn"} /\ mixed \subseteq Procs
    /\ recent.by \in Procs \cup {None}
    /\ recent.ids \subseteq 1 .. Len(Stream) /\ failed \subseteq 1 .. Len(Stream)
    /\ \A p \in Procs :
        /\ proc[p].pc \in Consuming \cup {"off", "checked", "exit"}
        /\ proc[p].pos \in 0 .. Len(Stream)
        /\ proc[p].ending \in {"no", "rest", "state"}
    /\ starts \in 0 .. MaxStarts

Saved == {csv[j][1] : j \in DOMAIN csv}
Buffered == UNION {{proc[p].buf[j][1] : j \in DOMAIN proc[p].buf} : p \in Procs}
NoneRuns == \A p \in Procs : proc[p].pc \notin Consuming

(* A message that will not be delivered again is in the CSV, in the file   *)
(* of a failed batch, or in the buffer of a process.  What loses one: a    *)
(* kill, an interrupt, a save that fails inside of a line or whose batch   *)
(* cannot be kept either, two processes that save at the same time, and    *)
(* two whose failed batches fall into the same second.  Failed saves, ends *)
(* and restarts, and a partition that moves lose nothing.                  *)
NoSilentLoss ==
    fault \cap {"kill", "interrupt", "recovery", "cut", "clash", "second"} = {} =>
        \A i \in 1 .. committed :
            Stream[i].ok => i \in Saved \cup failed \cup recent.ids \cup Buffered

(* The message of the same source before message i, and what it says.      *)
Before(i) == {j \in 1 .. i - 1 : Stream[j].ok /\ Stream[j].source = Stream[i].source}
Expected(i) ==
    LET b == Before(i)
    IN Reason(IF b = {} THEN None ELSE Tracked(CHOOSE j \in b : \A k \in b : k <= j),
              Tracked(i))

(* Each row compares its source with the message before it in the stream,  *)
(* over batches, interrupts, ends and restarts, and over saves of rows     *)
(* that failed.                                                            *)
FlagsFollowStream ==
    fault \cap {"kill", "state", "overlap"} = {} =>
        \A j \in DOMAIN csv : csv[j][2] = Expected(csv[j][1])

(* Without a failure in the middle no message has two rows, not even when  *)
(* two consumers run and save at once and the partition moves between them.*)
RowsOnce ==
    fault \cap {"kill", "interrupt", "disk", "cut", "recovery"} = {} =>
        \A j, k \in DOMAIN csv : csv[j][1] = csv[k][1] => j = k

(* What the next run will load is what the last message of each source     *)
(* said, also if the last run ended by an interrupt or failed to write.    *)
StateIsCurrent ==
    (NoneRuns /\ fault \cap {"kill", "state", "overlap"} = {}) =>
        /\ ~ stateFile.torn
        /\ \A s \in Sources :
            LET seen == {j \in 1 .. committed : Stream[j].ok /\ Stream[j].source = s}
            IN stateFile.known[s] =
                 IF seen = {} THEN None
                 ELSE Tracked(CHOOSE j \in seen : \A k \in seen : k <= j)

(* Scripts that do not check at the same time never run two consumers,     *)
(* unless a script was killed and its consumer was not.                    *)
LockExcludes ==
    fault \cap {"race", "orphan"} = {} =>
        \A p, q \in Procs :
            (/\ proc[p].script /\ proc[p].pc \in Consuming
             /\ proc[q].script /\ proc[q].pc \in Consuming) => p = q
=============================================================================
