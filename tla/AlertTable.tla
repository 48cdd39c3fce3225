----------------------------- MODULE AlertTable -----------------------------
(***************************************************************************)
(* The database as the commands see it that run after ingestion: alerts    *)
(* are appended to alerts_raw by ingesting processes and never change, so  *)
(* a read snapshot is a prefix of the table.                               *)
(*                                                                         *)
(* rows is the length of alerts_raw in the order of its id.  busy says     *)
(* that an ingesting process is inside a write transaction.  conn has the  *)
(* connection of each process that reads and writes here: whether Python   *)
(* has opened a transaction on it that nothing has ended, the prefix that  *)
(* transaction has pinned, and whether somebody has committed since.       *)
(* created says that the tables exist, commands counts what the clients    *)
(* began.                                                                  *)
(***************************************************************************)
EXTENDS Naturals, Sequences, FiniteSets

CONSTANTS
    Arrivals,    \* the alerts in the order of their rows, each as the
                 \* columns that a query compares
    BatchEnds,   \* bound: the lengths the table has after a commit
    Clients,     \* processes with an SQLiteStorage of their own
    None,        \* SQL NULL, no snapshot
    MaxCommands  \* bound: commands of the clients

VARIABLES rows, busy, conn, created, commands

dbVars == <<rows, busy, conn, created>>
tableVars == <<dbVars, commands>>

Column == Nat \cup {None}
Observation == [mjd : Nat, ext : Column, snr : Column, sso : {0, 1},
                reassoc : {0, 1}, source : Nat, object : Column]

ASSUME ArrivalsAssumption ==
    /\ Arrivals \in Seq(Observation) /\ None \notin Nat /\ MaxCommands \in Nat
    /\ BatchEnds \subseteq 0 .. Len(Arrivals)

Connection == [txn : BOOLEAN, pinned : Nat \cup {None}, stale : BOOLEAN]
Fresh == [txn |-> FALSE, pinned |-> None, stale |-> FALSE]

TableInit ==
    /\ rows = 0
    /\ busy = FALSE
    /\ conn = [p \in Clients |-> Fresh]
    /\ created = FALSE
    /\ commands = 0

Ids == 1 .. rows
Row(i) == Arrivals[i]

Command == commands < MaxCommands /\ commands' = commands + 1

-----------------------------------------------------------------------------
(* Transactions of a client.                                               *)

(* The rows a SELECT of p returns: those of the pinned prefix, or all.     *)
Visible(p) == IF conn[p].pinned = None THEN Ids ELSE 1 .. conn[p].pinned

(* A SELECT pins the present state if a transaction is open.               *)
Reads(p) ==
    conn' = [conn EXCEPT ![p].pinned =
                IF conn[p].txn /\ @ = None THEN rows ELSE @]

(* A commit: whoever has a pinned snapshot is behind from now on.          *)
Overtaken == [q \in Clients |->
                [conn[q] EXCEPT !.stale = @ \/ conn[q].pinned # None]]

(* A defect: a write on a stale snapshot is let through.                   *)
CanWriteStale(p) == ~ busy

(* execute and commit of one statement: it needs the write lock, and a     *)
(* snapshot that nobody has committed after (else SQLITE_BUSY_SNAPSHOT).   *)
(* The commit ends the transaction.                                        *)
CanWrite(p) == ~ busy /\ ~ conn[p].stale

Commits(p) == CanWrite(p) /\ conn' = [Overtaken EXCEPT ![p] = Fresh]

(* "database is locked": after the timeout, or at once if the snapshot is  *)
(* stale.  Nothing rolls back, the transaction Python opened stays open.   *)
LockedOut(p) ==
    /\ busy \/ conn[p].stale
    /\ conn' = [conn EXCEPT ![p].txn = TRUE]

(* SQLiteStorage.close, or the end of the process.                         *)
Reconnects(p) ==
    /\ conn[p] # Fresh
    /\ conn' = [conn EXCEPT ![p] = Fresh]

-----------------------------------------------------------------------------
(* The ingesting processes, seen from outside.  One of them creates the    *)
(* schema; then they take the write lock, and commit alerts or roll back.  *)
CreateTables ==
    /\ ~ created /\ ~ busy
    /\ created' = TRUE
    /\ UNCHANGED <<rows, busy, conn, commands>>

IngestBegins ==
    /\ ~ busy
    /\ created
    /\ busy' = TRUE
    /\ UNCHANGED <<rows, conn, created, commands>>

IngestCommits ==
    /\ busy
    /\ rows' \in {n \in BatchEnds : n > rows}
    /\ busy' = FALSE
    /\ conn' = Overtaken
    /\ UNCHANGED <<created, commands>>

IngestAborts ==
    /\ busy
    /\ busy' = FALSE
    /\ UNCHANGED <<rows, conn, created, commands>>

TableNext == CreateTables \/ IngestBegins \/ IngestCommits \/ IngestAborts

-----------------------------------------------------------------------------
TableTypeOK ==
    /\ rows \in 0 .. Len(Arrivals)
    /\ busy \in BOOLEAN /\ created \in BOOLEAN
    /\ conn \in [Clients -> Connection]
    /\ commands \in 0 .. MaxCommands
=============================================================================
