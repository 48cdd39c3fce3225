--------------------------- MODULE PostIngest_proofs ---------------------------
(***************************************************************************)
(* Proofs about the commands that run after ingestion (PostIngest with     *)
(* AlertTable, FilterEngine and Processing): for every table of alerts,    *)
(* every set of clients, configurations, plugins and requests, and any     *)
(* number of commands.                                                     *)
(***************************************************************************)
EXTENDS PostIngest, FiniteSetTheorems, SequenceTheorems, TLAPS

(***************************************************************************)
(* The table.  A snapshot never shows more than the table has, and as long *)
(* as nobody has committed since it was pinned it shows all of it: this is *)
(* what lets a copy or a batch that may still write vouch for what it      *)
(* read.                                                                   *)
(***************************************************************************)
SnapshotInv ==
    \A p \in Clients : conn[p].pinned # None =>
        /\ conn[p].pinned <= rows
        /\ ~ conn[p].stale => conn[p].pinned = rows

TableInv == TableTypeOK /\ SnapshotInv

-----------------------------------------------------------------------------
(* What a step does to the table and to the connection of a process.       *)
(* Rows are only added; while the connection is not behind, no row has     *)
(* been.                                                                   *)
TableStep ==
    /\ rows <= rows'
    /\ rows' \in 0 .. Len(Arrivals)

(* What statements do to a connection: another process commits, a failed   *)
(* write leaves a transaction open, a read in it pins the present state.   *)
Behind(c) == [c EXCEPT !.stale = @ \/ c.pinned # None]
Opened(c) == [c EXCEPT !.txn = TRUE]
Pinned(c, n) == [c EXCEPT !.pinned = n]

(* The connection of p is its own, except that others overtake it.         *)
OthersConn(p) == conn'[p] = conn[p] \/ conn'[p] = Behind(conn[p])

(* What these make of the fields of a connection.                          *)
LEMMA ConnectionFields ==
    ASSUME NEW c \in Connection
    PROVE  /\ Opened(c) \in Connection
           /\ Opened(c).pinned = c.pinned
           /\ Opened(c).stale = c.stale
           /\ Behind(c) \in Connection
           /\ Behind(c).pinned = c.pinned
           /\ Behind(c).stale <=> c.stale \/ c.pinned # None
           /\ \A n \in Nat : /\ Pinned(c, n) \in Connection
                             /\ Pinned(c, n).pinned = n
                             /\ Pinned(c, n).stale = c.stale
BY DEF Connection, Opened, Behind, Pinned

LEMMA FreshConnection ==
    Fresh \in Connection /\ Fresh.pinned = None /\ Fresh.stale = FALSE
BY DEF Fresh, Connection

LEMMA TableInitInv == TableInit => TableInv
<1> SUFFICES ASSUME TableInit PROVE TableInv
  OBVIOUS
<1>1. TableTypeOK
  <2>1. Len(Arrivals) \in Nat /\ MaxCommands \in Nat
    BY ArrivalsAssumption
  <2>2. rows \in 0 .. Len(Arrivals) /\ commands \in 0 .. MaxCommands
    BY <2>1 DEF TableInit
  <2>3. conn \in [Clients -> Connection]
    BY FreshConnection DEF TableInit
  <2>4. busy \in BOOLEAN /\ created \in BOOLEAN
    BY DEF TableInit
  <2> QED BY <2>2, <2>3, <2>4 DEF TableTypeOK
<1>2. SnapshotInv
  BY FreshConnection DEF TableInit, SnapshotInv
<1> QED BY <1>1, <1>2 DEF TableInv

(* Ingestion beside the commands.                                          *)
LEMMA TableNextKeeps ==
    ASSUME TableInv, TableNext
    PROVE  /\ TableInv' /\ TableStep
           /\ \A p \in Clients : OthersConn(p)
<1>1. CASE CreateTables \/ IngestBegins \/ IngestAborts
  <2>1. rows' = rows /\ conn' = conn /\ commands' = commands
    BY <1>1 DEF CreateTables, IngestBegins, IngestAborts
  <2>2. busy' \in BOOLEAN /\ created' \in BOOLEAN
    BY <1>1 DEF CreateTables, IngestBegins, IngestAborts, TableInv, TableTypeOK
  <2> QED
    BY <2>1, <2>2
       DEF TableInv, TableTypeOK, SnapshotInv, TableStep, OthersConn
<1>2. CASE IngestCommits
  <2>1. /\ rows' \in 0 .. Len(Arrivals) /\ rows < rows' /\ busy' = FALSE
        /\ conn' = Overtaken /\ created' = created /\ commands' = commands
    BY <1>2, ArrivalsAssumption DEF IngestCommits
  <2>2. ASSUME NEW q \in Clients
        PROVE  /\ conn'[q] = Behind(conn[q])
               /\ conn'[q] \in Connection
               /\ conn'[q].pinned = conn[q].pinned
               /\ conn'[q].stale <=> conn[q].stale \/ conn[q].pinned # None
    <3>1. conn'[q] = Behind(conn[q])
      BY <2>1 DEF Overtaken, Behind
    <3>2. conn[q] \in Connection
      BY DEF TableInv, TableTypeOK
    <3> QED BY <3>1, <3>2, ConnectionFields
  <2>3. conn' \in [Clients -> Connection]
    BY <2>1, <2>2 DEF Overtaken
  <2>4. TableTypeOK'
    BY <2>1, <2>3 DEF TableInv, TableTypeOK
  <2>5. SnapshotInv'
    <3>1. SUFFICES ASSUME NEW q \in Clients, conn[q].pinned # None
                   PROVE  conn[q].pinned <= rows' /\ conn'[q].stale
      BY <2>2 DEF SnapshotInv
    <3>2. conn[q].pinned \in Nat /\ rows \in Nat
      BY <3>1 DEF TableInv, TableTypeOK, Connection
    <3> QED BY <2>1, <2>2, <3>1, <3>2 DEF TableInv, SnapshotInv
  <2>6. TableStep
    BY <2>1 DEF TableInv, TableTypeOK, TableStep
  <2> QED BY <2>2, <2>4, <2>5, <2>6 DEF TableInv, OthersConn
<1> QED BY <1>1, <1>2 DEF TableNext

(* What a client's statement does to the connections.                      *)
ClientStep(p) ==
    \/ Reads(p) \/ Commits(p) \/ LockedOut(p)
    \/ conn' = [conn EXCEPT ![p] = Fresh]
    \/ conn' = conn

(* A client's statement changes no row and nobody else's connection, but   *)
(* that a commit overtakes the others.                                     *)
LEMMA ClientStepKeeps ==
    ASSUME TableInv, NEW p \in Clients, ClientStep(p),
           UNCHANGED <<rows, busy, created>>, commands' \in 0 .. MaxCommands
    PROVE  /\ TableInv' /\ TableStep
           /\ \A q \in Clients : q # p => OthersConn(q)
<1>1. /\ conn \in [Clients -> Connection] /\ rows \in Nat
      /\ busy \in BOOLEAN /\ created \in BOOLEAN /\ rows \in 0 .. Len(Arrivals)
  BY DEF TableInv, TableTypeOK
<1> DEFINE Good(c) == /\ c \in Connection
                      /\ c.pinned # None => /\ c.pinned <= rows
                                            /\ ~ c.stale => c.pinned = rows
<1>2. \A q \in Clients : Good(conn[q])
  BY <1>1 DEF TableInv, SnapshotInv
<1>3. SUFFICES /\ conn' \in [Clients -> Connection]
               /\ \A q \in Clients : Good(conn'[q])
               /\ \A q \in Clients : q # p => OthersConn(q)
  BY <1>1, <1>3 DEF TableInv, TableTypeOK, SnapshotInv, TableStep
<1>4. Good(Fresh)
  BY FreshConnection
<1>5. CASE conn' = conn
  BY <1>1, <1>2, <1>5 DEF OthersConn
<1>6. CASE conn' = [conn EXCEPT ![p] = Fresh]
  <2> HIDE DEF Good
  <2>1. \A q \in Clients : conn'[q] = IF q = p THEN Fresh ELSE conn[q]
    BY <1>1, <1>6
  <2> QED BY <1>1, <1>2, <1>4, <1>6, <2>1, FreshConnection DEF OthersConn
<1>7. CASE LockedOut(p)
  <2>1. conn' = [conn EXCEPT ![p] = Opened(conn[p])]
    BY <1>7 DEF LockedOut, Opened
  <2>2. Good(Opened(conn[p]))
    BY <1>1, <1>2, ConnectionFields
  <2>3. \A q \in Clients :
           conn'[q] = IF q = p THEN Opened(conn[p]) ELSE conn[q]
    BY <1>1, <2>1
  <2>4. Opened(conn[p]) \in Connection
    BY <2>2
  <2> HIDE DEF Good
  <2> QED BY <1>1, <1>2, <2>1, <2>2, <2>3, <2>4 DEF OthersConn
<1>8. CASE Reads(p)
  <2>1. CASE conn[p].txn /\ conn[p].pinned = None
    <3>1. conn' = [conn EXCEPT ![p] = Pinned(conn[p], rows)]
      BY <1>8, <2>1 DEF Reads, Pinned
    <3>2. Good(Pinned(conn[p], rows))
      <4>1. conn[p] \in Connection
        BY <1>1
      <4> QED BY <1>1, <4>1, ConnectionFields
    <3>3. \A q \in Clients :
             conn'[q] = IF q = p THEN Pinned(conn[p], rows) ELSE conn[q]
      BY <1>1, <3>1
    <3>4. Pinned(conn[p], rows) \in Connection
      BY <3>2
    <3> HIDE DEF Good
    <3> QED BY <1>1, <1>2, <3>1, <3>2, <3>3, <3>4 DEF OthersConn
  <2>2. CASE ~ (conn[p].txn /\ conn[p].pinned = None)
    <3>1. conn' = [conn EXCEPT ![p] = [conn[p] EXCEPT !.pinned = conn[p].pinned]]
      BY <1>8, <2>2 DEF Reads
    <3>2. [conn[p] EXCEPT !.pinned = conn[p].pinned] = conn[p]
      BY <1>1 DEF Connection
    <3>3. conn' = conn
      BY <1>1, <3>1, <3>2
    <3> QED BY <1>5, <3>3
  <2> QED BY <2>1, <2>2
<1>9. CASE Commits(p)
  <2>1. conn' = [Overtaken EXCEPT ![p] = Fresh]
    BY <1>9 DEF Commits
  <2>2. ASSUME NEW q \in Clients, q # p
        PROVE  conn'[q] = Behind(conn[q])
    BY <2>1, <2>2 DEF Overtaken, Behind
  <2>3. conn'[p] = Fresh
    BY <2>1 DEF Overtaken
  <2>4. ASSUME NEW q \in Clients, q # p PROVE Good(conn'[q]) /\ OthersConn(q)
    <3>1. conn[q] \in Connection
      BY <1>1
    <3> QED BY <1>2, <2>2, <2>4, <3>1, ConnectionFields DEF OthersConn
  <2>5. \A q \in Clients : Good(conn'[q])
    BY <1>4, <2>3, <2>4
  <2>6. conn' \in [Clients -> Connection]
    BY <2>1, <2>5 DEF Overtaken
  <2> QED BY <2>4, <2>5, <2>6
<1> QED BY <1>5, <1>6, <1>7, <1>8, <1>9 DEF ClientStep

(* A command is counted within the bound.                                  *)
LEMMA CommandCounts == TableTypeOK /\ Command => commands' \in 0 .. MaxCommands
BY ArrivalsAssumption DEF TableTypeOK, Command

(***************************************************************************)
(* Copies.  CopyCovers speaks of a copy that has returned.  While it is    *)
(* under way the rows it has done with are in the table, and the rows it   *)
(* set out with are the answer to its query, unless others have committed  *)
(* since and it has not yet written: then it never will, because its first *)
(* INSERT fails.                                                           *)
(***************************************************************************)
CopyState == [pc : {"idle", "copying", "returned", "failed"},
              cfg : Configs \cup {None}, ids : SUBSET Nat, todo : SUBSET Nat,
              asked : Nat]

FilterTypes ==
    /\ saved \in [{c.name : c \in Configs} -> Configs \cup {None}]
    /\ filtered \subseteq Nat \X {Hash(c) : c \in Configs}
    /\ copy \in [Analysts -> CopyState]

(* ids is what the query of cfg may return from the first n rows.          *)
Answers(cfg, ids, n) ==
    LET there == {i \in 1 .. n : Matches(cfg, Row(i))}
    IN /\ Cardinality(ids) = Limited(cfg, Cardinality(there))
       /\ \A i \in ids, j \in there \ ids : ~ Ahead(cfg, j, i)

CopyInv(p) ==
    /\ copy[p].todo \subseteq copy[p].ids
    /\ copy[p].pc = "copying" => copy[p].ids # {}
    /\ copy[p].pc \in {"copying", "returned"} /\ copy[p].ids # {} =>
         /\ copy[p].cfg \in Configs
         /\ \A i \in copy[p].ids : i \in Ids /\ Matches(copy[p].cfg, Row(i))
         /\ \A i \in copy[p].ids \ copy[p].todo :
               <<i, Hash(copy[p].cfg)>> \in filtered
         /\ copy[p].pc = "returned" => copy[p].todo = {}
         /\ copy[p].todo # copy[p].ids \/ ~ conn[p].stale =>
               Answers(copy[p].cfg, copy[p].ids, copy[p].asked)

FilterInv == FilterTypes /\ FilteredMatches /\ \A p \in Analysts : CopyInv(p)

-----------------------------------------------------------------------------
LEMMA FilterInitInv == FilterInit => FilterInv
<1> SUFFICES ASSUME FilterInit PROVE FilterInv
  OBVIOUS
<1>1. Idle \in CopyState
  BY DEF Idle, CopyState
<1>2. FilterTypes
  BY <1>1 DEF FilterInit, FilterTypes
<1>3. FilteredMatches
  BY DEF FilterInit, FilteredMatches
<1>4. ASSUME NEW p \in Analysts PROVE CopyInv(p)
  BY DEF FilterInit, CopyInv, Idle
<1> QED BY <1>2, <1>3, <1>4 DEF FilterInv

(* An analyst whose copy does not change, while others copy and commit.    *)
LEMMA CopyUntouched ==
    ASSUME TableInv, NEW p \in Analysts, CopyInv(p), copy'[p] = copy[p],
           filtered \subseteq filtered', TableStep, OthersConn(p)
    PROVE  CopyInv(p)'
<1>1. p \in Clients /\ conn[p] \in Connection
  BY FilterAssumption DEF TableInv, TableTypeOK
<1>2. conn[p].stale => conn'[p].stale
  BY <1>1, ConnectionFields DEF OthersConn
<1>3. Ids \subseteq Ids'
  <2>1. rows \in Nat /\ rows' \in Nat /\ rows <= rows'
    BY DEF TableInv, TableTypeOK, TableStep
  <2> QED BY <2>1 DEF Ids
<1> QED BY <1>2, <1>3 DEF CopyInv

(* A step of the others keeps the filters.                                 *)
LEMMA FiltersUntouched ==
    ASSUME TableInv, FilterInv, UNCHANGED filterVars, TableStep,
           \A p \in Analysts : OthersConn(p)
    PROVE  FilterInv'
<1>1. Ids \subseteq Ids'
  <2>1. rows \in Nat /\ rows' \in Nat /\ rows <= rows'
    BY DEF TableInv, TableTypeOK, TableStep
  <2> QED BY <2>1 DEF Ids
<1>2. FilterTypes' /\ FilteredMatches'
  BY <1>1 DEF FilterInv, FilterTypes, FilteredMatches, filterVars
<1>3. \A p \in Analysts : CopyInv(p)'
  BY CopyUntouched DEF FilterInv, filterVars
<1> QED BY <1>2, <1>3 DEF FilterInv

(* save_filter and delete_filter.                                          *)
LEMMA SavingKeeps ==
    ASSUME TableInv, FilterInv, NEW p \in Analysts,
           \/ \E c \in Configs : SaveFilter(p, c)
           \/ \E n \in DOMAIN saved : DeleteFilter(p, n)
    PROVE  /\ Commits(p) /\ UNCHANGED <<rows, busy, created>> /\ Command
           /\ FilterTypes' /\ FilteredMatches'
           /\ copy' = copy /\ filtered' = filtered /\ copy[p].pc # "copying"
<1>1. /\ Commits(p) /\ UNCHANGED <<rows, busy, created>> /\ Command
      /\ copy' = copy /\ filtered' = filtered /\ copy[p].pc # "copying"
  BY DEF SaveFilter, DeleteFilter
<1>2. saved' \in [{c.name : c \in Configs} -> Configs \cup {None}]
  BY DEF SaveFilter, DeleteFilter, FilterInv, FilterTypes
<1> QED BY <1>1, <1>2 DEF FilterInv, FilterTypes, FilteredMatches, Ids

(* copy_to_filtered up to its query.                                       *)
LEMMA CopyQueryKeeps ==
    ASSUME TableInv, FilterInv, NEW p \in Analysts, NEW c \in Configs,
           CopyQuery(p, c)
    PROVE  /\ Reads(p) /\ UNCHANGED <<rows, busy, created>> /\ Command
           /\ FilterTypes' /\ FilteredMatches' /\ CopyInv(p)'
           /\ filtered' = filtered
           /\ \A q \in Analysts : q # p => copy'[q] = copy[q]
<1>1. /\ Reads(p) /\ UNCHANGED <<rows, busy, created>> /\ Command
      /\ saved' = saved /\ filtered' = filtered
  BY DEF CopyQuery
<1>3. PICK r \in Results(c, Visible(p)) :
         copy' = [copy EXCEPT ![p] =
                    [pc    |-> IF r = {} THEN "returned" ELSE "copying",
                     cfg   |-> c, ids |-> r, todo |-> r, asked |-> rows]]
  BY DEF CopyQuery
<1>4. p \in Clients /\ conn[p] \in Connection /\ rows \in Nat
  BY FilterAssumption DEF TableInv, TableTypeOK
<1>5. /\ Visible(p) \subseteq Ids
      /\ ~ conn[p].stale => Visible(p) = 1 .. rows
  <2>1. CASE conn[p].pinned = None
    BY <2>1 DEF Visible, Ids
  <2>2. CASE conn[p].pinned # None
    <3>1. /\ conn[p].pinned \in Nat /\ conn[p].pinned <= rows
          /\ ~ conn[p].stale => conn[p].pinned = rows
      BY <1>4, <2>2 DEF TableInv, SnapshotInv, Connection
    <3> QED BY <1>4, <2>2, <3>1 DEF Visible, Ids
  <2> QED BY <2>1, <2>2
<1>6. /\ r \subseteq Ids
      /\ \A i \in r : Matches(c, Row(i))
      /\ ~ conn[p].stale => Answers(c, r, rows)
  BY <1>5 DEF Results, Answers
<1>7. conn'[p].stale <=> conn[p].stale
  <2>1. conn \in [Clients -> Connection]
    BY DEF TableInv, TableTypeOK
  <2>2. CASE conn[p].txn /\ conn[p].pinned = None
    <3>1. conn' = [conn EXCEPT ![p] = Pinned(conn[p], rows)]
      BY <1>1, <2>2 DEF Reads, Pinned
    <3> QED BY <1>4, <2>1, <3>1, ConnectionFields
  <2>3. CASE ~ (conn[p].txn /\ conn[p].pinned = None)
    <3>1. conn' = [conn EXCEPT ![p] = Pinned(conn[p], conn[p].pinned)]
      BY <1>1, <2>3 DEF Reads, Pinned
    <3>2. Pinned(conn[p], conn[p].pinned) = conn[p]
      BY <1>4 DEF Pinned, Connection
    <3> QED BY <1>4, <2>1, <3>1, <3>2
  <2> QED BY <2>2, <2>3
<1>8. /\ copy'[p].pc = IF r = {} THEN "returned" ELSE "copying"
      /\ copy'[p].cfg = c /\ copy'[p].ids = r /\ copy'[p].todo = r
      /\ copy'[p].asked = rows
      /\ \A q \in Analysts : q # p => copy'[q] = copy[q]
  BY <1>3 DEF FilterInv, FilterTypes
<1>9. copy' \in [Analysts -> CopyState]
  <2>1. r \in SUBSET Nat
    BY <1>4, <1>6 DEF Ids
  <2>2. [pc    |-> IF r = {} THEN "returned" ELSE "copying",
         cfg   |-> c, ids |-> r, todo |-> r, asked |-> rows] \in CopyState
    BY <1>4, <2>1 DEF CopyState
  <2> QED BY <1>3, <2>2 DEF FilterInv, FilterTypes
<1>10. CopyInv(p)'
  BY <1>1, <1>6, <1>7, <1>8 DEF CopyInv, Ids
<1>11. FilterTypes' /\ FilteredMatches'
  BY <1>1, <1>9 DEF FilterInv, FilterTypes, FilteredMatches, Ids
<1> QED BY <1>1, <1>8, <1>10, <1>11

(* One row of a copy.  That it is written at all shows the snapshot to     *)
(* have been the present one, so that from now on the copy is vouched for. *)
LEMMA CopyRowKeeps ==
    ASSUME TableInv, FilterInv, NEW p \in Analysts, CopyRow(p)
    PROVE  /\ Commits(p) /\ UNCHANGED <<rows, busy, created, commands>>
           /\ FilterTypes' /\ FilteredMatches' /\ CopyInv(p)'
           /\ filtered \subseteq filtered'
           /\ \A q \in Analysts : q # p => copy'[q] = copy[q]
<1> DEFINE k == copy[p]
<1>1. /\ Commits(p) /\ UNCHANGED <<rows, busy, created, commands, saved>>
      /\ k.pc = "copying" /\ ~ conn[p].stale
  BY DEF CopyRow, Commits, CanWrite
<1>2. PICK i \in k.todo :
        /\ filtered' = filtered \cup {<<i, Hash(k.cfg)>>}
        /\ copy' = [copy EXCEPT
                     ![p].todo = @ \ {i},
                     ![p].pc = IF copy[p].todo = {i} THEN "returned" ELSE @]
  BY DEF CopyRow
<1>3. /\ copy \in [Analysts -> CopyState] /\ k \in CopyState /\ CopyInv(p)
      /\ FilteredMatches
  BY DEF FilterInv, FilterTypes
<1>4. /\ k.cfg \in Configs /\ k.todo \subseteq k.ids
      /\ i \in Ids /\ Matches(k.cfg, Row(i))
      /\ \A j \in k.ids : j \in Ids /\ Matches(k.cfg, Row(j))
      /\ \A j \in k.ids \ k.todo : <<j, Hash(k.cfg)>> \in filtered
      /\ Answers(k.cfg, k.ids, k.asked)
  BY <1>1, <1>2, <1>3 DEF CopyInv
<1>5. /\ copy'[p].pc = IF k.todo = {i} THEN "returned" ELSE "copying"
      /\ copy'[p].cfg = k.cfg /\ copy'[p].ids = k.ids
      /\ copy'[p].todo = k.todo \ {i} /\ copy'[p].asked = k.asked
      /\ copy'[p] \in CopyState
      /\ copy' \in [Analysts -> CopyState]
      /\ \A q \in Analysts : q # p => copy'[q] = copy[q]
  BY <1>1, <1>2, <1>3 DEF CopyState
<1>6. i \in Nat /\ filtered' \subseteq Nat \X {Hash(c) : c \in Configs}
  BY <1>2, <1>3, <1>4 DEF FilterInv, FilterTypes, CopyState
<1>7. FilterTypes'
  BY <1>1, <1>5, <1>6 DEF FilterInv, FilterTypes
<1>8. FilteredMatches'
  BY <1>1, <1>2, <1>3, <1>4 DEF FilteredMatches, Ids, Hash
<1>9. CopyInv(p)'
  <2> HIDE DEF k
  <2> QED BY <1>1, <1>2, <1>4, <1>5 DEF CopyInv, Ids
<1> QED BY <1>1, <1>2, <1>5, <1>7, <1>8, <1>9

(* A command that fails on a locked database, and a new connection.        *)
LEMMA FailureKeeps ==
    ASSUME TableInv, FilterInv, NEW p \in Analysts,
           FilterWriteFails(p) \/ CopyFails(p) \/ Reopen(p)
    PROVE  /\ ClientStep(p) /\ UNCHANGED <<rows, busy, created>>
           /\ commands' \in 0 .. MaxCommands
           /\ FilterTypes' /\ FilteredMatches' /\ CopyInv(p)'
           /\ filtered' = filtered
           /\ \A q \in Analysts : q # p => copy'[q] = copy[q]
<1>1. /\ ClientStep(p) /\ UNCHANGED <<rows, busy, created, saved, filtered>>
  BY DEF FilterWriteFails, CopyFails, Reopen, ClientStep, Reconnects
<1>2. commands' \in 0 .. MaxCommands
  BY CommandCounts DEF FilterWriteFails, CopyFails, Reopen, TableInv, TableTypeOK
<1>3. copy \in [Analysts -> CopyState] /\ CopyInv(p)
  BY DEF FilterInv, FilterTypes
<1>4. /\ copy' \in [Analysts -> CopyState] /\ copy'[p].pc = "failed"
      /\ copy'[p].todo \subseteq copy'[p].ids
      /\ \A q \in Analysts : q # p => copy'[q] = copy[q]
  <2>1. CASE FilterWriteFails(p)
    <3>1. copy' = [copy EXCEPT ![p] = [Idle EXCEPT !.pc = "failed"]]
      BY <2>1 DEF FilterWriteFails
    <3>2. /\ [Idle EXCEPT !.pc = "failed"] \in CopyState
          /\ [Idle EXCEPT !.pc = "failed"].pc = "failed"
          /\ [Idle EXCEPT !.pc = "failed"].todo = {}
      BY DEF Idle, CopyState
    <3> QED BY <1>3, <3>1, <3>2
  <2>2. CASE CopyFails(p)
    BY <1>3, <2>2 DEF CopyFails, CopyState, CopyInv
  <2>3. CASE Reopen(p)
    BY <1>3, <2>3 DEF Reopen, CopyInv
  <2> QED BY <2>1, <2>2, <2>3
<1>5. FilterTypes' /\ FilteredMatches'
  BY <1>1, <1>4 DEF FilterInv, FilterTypes, FilteredMatches, Ids
<1>6. CopyInv(p)'
  BY <1>4 DEF CopyInv
<1> QED BY <1>1, <1>2, <1>4, <1>5, <1>6

(* Every operation of the analysts.                                        *)
LEMMA FilterNextKeeps ==
    ASSUME TableInv, FilterInv, FilterNext
    PROVE  /\ TableInv' /\ TableStep /\ FilterInv'
           /\ \A q \in Clients \ Analysts : OthersConn(q)
<1>1. PICK p \in Analysts :
        \/ \E c \in Configs : SaveFilter(p, c) \/ CopyQuery(p, c)
        \/ \E n \in DOMAIN saved : DeleteFilter(p, n)
        \/ FilterWriteFails(p) \/ CopyStep(p) \/ Reopen(p)
  BY DEF FilterNext
<1>2. p \in Clients
  BY FilterAssumption
<1>3. /\ ClientStep(p) /\ UNCHANGED <<rows, busy, created>>
      /\ commands' \in 0 .. MaxCommands
      /\ FilterTypes' /\ FilteredMatches'
      /\ filtered \subseteq filtered'
      /\ \A q \in Analysts : q # p => copy'[q] = copy[q]
      /\ CopyInv(p)' \/ (copy' = copy /\ copy[p].pc # "copying")
  <2>1. CASE \/ \E c \in Configs : SaveFilter(p, c)
             \/ \E n \in DOMAIN saved : DeleteFilter(p, n)
    BY <2>1, SavingKeeps, CommandCounts DEF ClientStep, TableInv
  <2>2. CASE \E c \in Configs : CopyQuery(p, c)
    BY <2>2, CopyQueryKeeps, CommandCounts DEF ClientStep, TableInv
  <2>3. CASE CopyRow(p)
    BY <2>3, CopyRowKeeps DEF ClientStep, TableInv, TableTypeOK
  <2>4. CASE FilterWriteFails(p) \/ CopyFails(p) \/ Reopen(p)
    BY <2>4, FailureKeeps
  <2> QED BY <1>1, <2>1, <2>2, <2>3, <2>4 DEF CopyStep
<1>4. /\ TableInv' /\ TableStep
      /\ \A q \in Clients : q # p => OthersConn(q)
  BY <1>2, <1>3, ClientStepKeeps
<1>5. ASSUME NEW q \in Analysts PROVE CopyInv(q)'
  <2>1. CASE q # p
    BY <1>3, <1>4, <2>1, CopyUntouched, FilterAssumption DEF FilterInv
  <2>2. CASE copy' = copy /\ copy[p].pc # "copying" /\ q = p
    BY <1>3, <2>2 DEF FilterInv, CopyInv, Ids
  <2> QED BY <1>3, <2>1, <2>2
<1> QED BY <1>3, <1>4, <1>5 DEF FilterInv

(***************************************************************************)
(* Selections.  SelectionsAgree does not depend on what the commands do:   *)
(* it is proved of every table, condition by condition.                    *)
(***************************************************************************)
(* When a condition is true.                                               *)
LEMMA Comparisons ==
    ASSUME NEW row \in Observation, NEW v \in Nat
    PROVE  /\ \A f \in {"ext", "snr"} :
                 /\ IsTrue(Cond(f, "<", v), row) <=> row[f] # None /\ row[f] < v
                 /\ IsTrue(Cond(f, "<=", v), row) <=> row[f] # None /\ row[f] <= v
                 /\ IsTrue(Cond(f, ">", v), row) <=> row[f] # None /\ row[f] > v
                 /\ IsTrue(Cond(f, ">=", v), row) <=> row[f] # None /\ row[f] >= v
           /\ IsTrue(Cond("mjd", ">=", v), row) <=> row.mjd >= v
           /\ IsTrue(Cond("mjd", "<=", v), row) <=> row.mjd <= v
           /\ IsTrue(Cond("sso", "=", v), row) <=> row.sso = v
           /\ IsTrue(Cond("reassoc", "=", v), row) <=> row.reassoc = v
<1>1. /\ row.mjd \in Nat /\ row.sso \in {0, 1} /\ row.reassoc \in {0, 1}
      /\ row["mjd"] = row.mjd
      /\ row["sso"] = row.sso /\ row["reassoc"] = row.reassoc
  BY DEF Observation, Column
<1>2. None \notin Nat
  BY ArrivalsAssumption
<1>3. ASSUME NEW f \in {"ext", "snr"}
      PROVE  /\ IsTrue(Cond(f, "<", v), row) <=> row[f] # None /\ row[f] < v
             /\ IsTrue(Cond(f, "<=", v), row) <=> row[f] # None /\ row[f] <= v
             /\ IsTrue(Cond(f, ">", v), row) <=> row[f] # None /\ row[f] > v
             /\ IsTrue(Cond(f, ">=", v), row) <=> row[f] # None /\ row[f] >= v
  BY <1>2 DEF IsTrue, Cond
<1>4. /\ IsTrue(Cond("mjd", ">=", v), row) <=> row.mjd >= v
      /\ IsTrue(Cond("mjd", "<=", v), row) <=> row.mjd <= v
  BY <1>1, <1>2 DEF IsTrue, Cond
<1>5. /\ IsTrue(Cond("sso", "=", v), row) <=> row.sso = v
      /\ IsTrue(Cond("reassoc", "=", v), row) <=> row.reassoc = v
  BY <1>1, <1>2 DEF IsTrue, Cond
<1> QED BY <1>3, <1>4, <1>5

LEMMA Ranges ==
    ASSUME NEW row \in Observation, NEW lo \in Nat, NEW hi \in Nat
    PROVE  /\ IsTrue(Between("ext", lo, hi), row)
                <=> row.ext # None /\ row.ext \in lo .. hi
           /\ IsTrue(Between("mjd", lo, hi), row) <=> row.mjd \in lo .. hi
<1>1. row.ext \in Nat \cup {None} /\ row.mjd \in Nat /\ None \notin Nat
  BY ArrivalsAssumption DEF Observation, Column
<1>2. IsTrue(Between("ext", lo, hi), row)
        <=> row.ext # None /\ lo <= row.ext /\ row.ext <= hi
  <2>1. None \notin {lo, hi}
    BY <1>1
  <2> QED BY <2>1 DEF IsTrue, Between
<1>3. IsTrue(Between("mjd", lo, hi), row)
        <=> row.mjd # None /\ lo <= row.mjd /\ row.mjd <= hi
  <2>1. None \notin {lo, hi}
    BY <1>1
  <2> QED BY <2>1 DEF IsTrue, Between
<1> QED BY <1>1, <1>2, <1>3

(* A configuration that combines with AND selects the rows for which every *)
(* condition is true.                                                      *)
LEMMA Conjunction ==
    ASSUME NEW cs, NEW n, NEW row
    PROVE  Matches(Filter(n, cs), row) <=> \A c \in cs : IsTrue(c, row)
<1>1. Filter(n, cs).conds = cs /\ Filter(n, cs).combine = "AND"
  BY DEF Filter
<1> QED BY <1>1 DEF Matches

LEMMA OrderedConjunction ==
    ASSUME NEW cs, NEW n, NEW f, NEW d, NEW row
    PROVE  Matches(By(Filter(n, cs), f, d), row) <=> \A c \in cs : IsTrue(c, row)
<1>1. /\ By(Filter(n, cs), f, d).conds = cs
      /\ By(Filter(n, cs), f, d).combine = "AND"
  BY DEF Filter, By
<1> QED BY <1>1 DEF Matches

(* What each preset selects.                                               *)
LEMMA PresetsSelect ==
    ASSUME NEW row \in Observation
    PROVE  /\ Matches(MinimoonCandidates, row)
                <=> row.sso = 1 /\ row.ext # None /\ row.ext \in 3 .. 7
           /\ Matches(PointSources, row) <=> row.ext # None /\ row.ext < 3
           /\ Matches(ExtendedSources, row) <=> row.ext # None /\ row.ext > 7
           /\ Matches(ExtendednessRange(3, 7), row)
                <=> row.ext # None /\ row.ext \in 3 .. 7
           /\ Matches(SsoAlerts, row) <=> row.sso = 1
           /\ Matches(NonSso, row) <=> row.sso = 0
           /\ Matches(Reassociations, row) <=> row.reassoc = 1
           /\ \A v \in Nat :
                /\ Matches(RecentDays(v), row) <=> row.mjd >= v
                /\ Matches(HighSnr(v), row) <=> row.snr # None /\ row.snr >= v
           /\ \A lo, hi \in Nat :
                Matches(TimeWindow(lo, hi), row) <=> row.mjd \in lo .. hi
<1>1. 0 \in Nat /\ 1 \in Nat /\ 3 \in Nat /\ 7 \in Nat
  OBVIOUS
<1>2. Matches(MinimoonCandidates, row)
        <=> row.sso = 1 /\ row.ext # None /\ row.ext \in 3 .. 7
  <2>1. Matches(MinimoonCandidates, row)
          <=> \A c \in {Cond("sso", "=", 1), Cond("ext", ">=", 3),
                        Cond("ext", "<=", 7)} : IsTrue(c, row)
    BY Conjunction DEF MinimoonCandidates
  <2>2. row.ext \in Nat \cup {None}
    BY DEF Observation, Column
  <2>3. IsTrue(Cond("sso", "=", 1), row) <=> row.sso = 1
    BY <1>1, Comparisons
  <2>4. IsTrue(Cond("ext", ">=", 3), row) <=> row.ext # None /\ row.ext >= 3
    BY <1>1, Comparisons
  <2>5. IsTrue(Cond("ext", "<=", 7), row) <=> row.ext # None /\ row.ext <= 7
    BY <1>1, Comparisons
  <2> QED BY <2>1, <2>2, <2>3, <2>4, <2>5
<1>3. Matches(PointSources, row) <=> row.ext # None /\ row.ext < 3
  <2>1. Matches(PointSources, row)
          <=> \A c \in {Cond("ext", "<", 3), Cond("ext", "IS NOT NULL", None)} :
                 IsTrue(c, row)
    <3> DEFINE cs == {Cond("ext", "<", 3), Cond("ext", "IS NOT NULL", None)}
    <3>1. PointSources = By(Filter("point_sources", cs), "snr", TRUE)
      BY DEF PointSources
    <3> HIDE DEF cs
    <3>2. Matches(PointSources, row) <=> \A c \in cs : IsTrue(c, row)
      BY <3>1, OrderedConjunction
    <3> QED BY <3>2 DEF cs
  <2>2. IsTrue(Cond("ext", "<", 3), row) <=> row.ext # None /\ row.ext < 3
    BY <1>1, Comparisons
  <2>3. IsTrue(Cond("ext", "IS NOT NULL", None), row) <=> row.ext # None
    BY DEF IsTrue, Cond
  <2> QED BY <2>1, <2>2, <2>3
<1>4. Matches(ExtendedSources, row) <=> row.ext # None /\ row.ext > 7
  <2>1. Matches(ExtendedSources, row)
          <=> \A c \in {Cond("ext", ">", 7)} : IsTrue(c, row)
    BY OrderedConjunction DEF ExtendedSources
  <2>2. IsTrue(Cond("ext", ">", 7), row) <=> row.ext # None /\ row.ext > 7
    BY <1>1, Comparisons
  <2> QED BY <2>1, <2>2
<1>5. Matches(ExtendednessRange(3, 7), row)
        <=> row.ext # None /\ row.ext \in 3 .. 7
  <2>1. Matches(ExtendednessRange(3, 7), row)
          <=> \A c \in {Between("ext", 3, 7)} : IsTrue(c, row)
    BY OrderedConjunction DEF ExtendednessRange
  <2> QED BY <1>1, <2>1, Ranges
<1>6. Matches(SsoAlerts, row) <=> row.sso = 1
  <2>1. Matches(SsoAlerts, row) <=> \A c \in {Cond("sso", "=", 1)} : IsTrue(c, row)
    BY Conjunction DEF SsoAlerts
  <2>2. IsTrue(Cond("sso", "=", 1), row) <=> row.sso = 1
    BY <1>1, Comparisons
  <2> QED BY <2>1, <2>2
<1>7. Matches(NonSso, row) <=> row.sso = 0
  <2>1. Matches(NonSso, row) <=> \A c \in {Cond("sso", "=", 0)} : IsTrue(c, row)
    BY Conjunction DEF NonSso
  <2>2. IsTrue(Cond("sso", "=", 0), row) <=> row.sso = 0
    BY <1>1, Comparisons
  <2> QED BY <2>1, <2>2
<1>8. Matches(Reassociations, row) <=> row.reassoc = 1
  <2>1. Matches(Reassociations, row)
          <=> \A c \in {Cond("reassoc", "=", 1)} : IsTrue(c, row)
    BY Conjunction DEF Reassociations
  <2>2. IsTrue(Cond("reassoc", "=", 1), row) <=> row.reassoc = 1
    BY <1>1, Comparisons
  <2> QED BY <2>1, <2>2
<1>9. ASSUME NEW v \in Nat
      PROVE  /\ Matches(RecentDays(v), row) <=> row.mjd >= v
             /\ Matches(HighSnr(v), row) <=> row.snr # None /\ row.snr >= v
  <2>1. Matches(RecentDays(v), row)
          <=> \A c \in {Cond("mjd", ">=", v)} : IsTrue(c, row)
    BY Conjunction DEF RecentDays
  <2>2. Matches(HighSnr(v), row)
          <=> \A c \in {Cond("snr", ">=", v)} : IsTrue(c, row)
    BY OrderedConjunction DEF HighSnr
  <2> QED BY <2>1, <2>2, Comparisons
<1>10. ASSUME NEW lo \in Nat, NEW hi \in Nat
       PROVE  Matches(TimeWindow(lo, hi), row) <=> row.mjd \in lo .. hi
  <2>1. Matches(TimeWindow(lo, hi), row)
          <=> \A c \in {Between("mjd", lo, hi)} : IsTrue(c, row)
    BY OrderedConjunction DEF TimeWindow
  <2> QED BY <2>1, Ranges
<1> QED BY <1>2, <1>3, <1>4, <1>5, <1>6, <1>7, <1>8, <1>9, <1>10

(* The keyword arguments of FilterEngine.filter.                           *)
LEMMA KeywordsSelect ==
    ASSUME NEW row \in Observation, NEW lo \in Nat, NEW hi \in Nat
    PROVE  /\ Matches(QuickFilter(
                    [NoArguments EXCEPT !.extMin = 3, !.extMax = 7, !.sso = 1]), row)
                <=> Matches(MinimoonCandidates, row)
           /\ Matches(QuickFilter(
                    [NoArguments EXCEPT !.mjdMin = lo, !.mjdMax = hi]), row)
                <=> row.mjd \in lo .. hi
<1> DEFINE ofMinimoon == [NoArguments EXCEPT !.extMin = 3, !.extMax = 7, !.sso = 1]
           ofWindow == [NoArguments EXCEPT !.mjdMin = lo, !.mjdMax = hi]
<1>1. 3 # None /\ 7 # None /\ 1 # None /\ lo # None /\ hi # None
  BY ArrivalsAssumption
<1>2. /\ ofMinimoon["extMin"] = 3 /\ ofMinimoon["extMax"] = 7
      /\ ofMinimoon["sso"] = 1 /\ ofMinimoon["snrMin"] = None
      /\ ofMinimoon["reassoc"] = None /\ ofMinimoon["mjdMin"] = None
      /\ ofMinimoon["mjdMax"] = None
  BY DEF NoArguments
<1>3. /\ ofWindow["mjdMin"] = lo /\ ofWindow["mjdMax"] = hi
      /\ ofWindow["extMin"] = None /\ ofWindow["extMax"] = None
      /\ ofWindow["sso"] = None /\ ofWindow["snrMin"] = None
      /\ ofWindow["reassoc"] = None
  BY DEF NoArguments
<1> HIDE DEF ofMinimoon, ofWindow
<1>4. QuickFilter(ofMinimoon)
        = Filter("quick_filter", {Cond("ext", ">=", 3), Cond("ext", "<=", 7),
                                  Cond("sso", "=", 1)})
  BY <1>1, <1>2 DEF QuickFilter
<1>5. QuickFilter(ofWindow)
        = Filter("quick_filter", {Cond("mjd", ">=", lo), Cond("mjd", "<=", hi)})
  BY <1>1, <1>3 DEF QuickFilter
<1>6. Matches(QuickFilter(ofMinimoon), row) <=> Matches(MinimoonCandidates, row)
  <2>1. Matches(MinimoonCandidates, row)
          <=> \A c \in {Cond("sso", "=", 1), Cond("ext", ">=", 3),
                        Cond("ext", "<=", 7)} : IsTrue(c, row)
    BY Conjunction DEF MinimoonCandidates
  <2>2. Matches(QuickFilter(ofMinimoon), row)
          <=> \A c \in {Cond("ext", ">=", 3), Cond("ext", "<=", 7),
                        Cond("sso", "=", 1)} : IsTrue(c, row)
    BY <1>4, Conjunction
  <2> QED BY <2>1, <2>2
<1>7. Matches(QuickFilter(ofWindow), row) <=> row.mjd \in lo .. hi
  <2>1. Matches(QuickFilter(ofWindow), row)
          <=> \A c \in {Cond("mjd", ">=", lo), Cond("mjd", "<=", hi)} :
                 IsTrue(c, row)
    BY <1>5, Conjunction
  <2>2. row.mjd \in Nat
    BY DEF Observation
  <2>3. IsTrue(Cond("mjd", ">=", lo), row) <=> row.mjd >= lo
    BY Comparisons
  <2>4. IsTrue(Cond("mjd", "<=", hi), row) <=> row.mjd <= hi
    BY Comparisons
  <2> QED BY <2>1, <2>2, <2>3, <2>4
<1> QED BY <1>6, <1>7 DEF ofMinimoon, ofWindow

(* Presets, keyword arguments, views and shortcuts select the same rows of *)
(* any table.                                                              *)
LEMMA SelectionsOfTable == ASSUME TableTypeOK PROVE SelectionsAgree
<1> DEFINE Of(cfg) == {i \in Ids : Matches(cfg, Row(i))}
<1>1. \A i \in Ids : Row(i) \in Observation
  BY ArrivalsAssumption DEF TableTypeOK, Ids, Row
<1>2. \A i \in Ids : /\ Row(i).ext \in Nat \cup {None}
                     /\ Row(i).mjd \in Nat /\ Row(i).sso \in {0, 1}
                     /\ Row(i).snr \in Nat \cup {None}
  BY <1>1 DEF Observation, Column
<1>3. /\ Of(MinimoonCandidates) = ViewMinimoon(Ids)
      /\ Of(MinimoonCandidates) =
           Of(QuickFilter([NoArguments EXCEPT !.extMin = 3, !.extMax = 7, !.sso = 1]))
  <2>1. Of(MinimoonCandidates) = ViewMinimoon(Ids)
    BY <1>1, PresetsSelect DEF ViewMinimoon
  <2>2. \A i \in Ids :
          Matches(MinimoonCandidates, Row(i))
            <=> Matches(QuickFilter([NoArguments EXCEPT
                          !.extMin = 3, !.extMax = 7, !.sso = 1]), Row(i))
    BY <1>1, PresetsSelect, KeywordsSelect
  <2> QED BY <2>1, <2>2
<1>4. /\ Of(PointSources) = ViewPointSources(Ids)
      /\ Of(ExtendedSources) = ViewExtendedSources(Ids)
  BY <1>1, PresetsSelect DEF ViewPointSources, ViewExtendedSources
<1>5. Of(SsoAlerts) = ViewSso(Ids) /\ Of(Reassociations) = ViewReassociations(Ids)
  BY <1>1, PresetsSelect DEF ViewSso, ViewReassociations
<1>6. Of(NonSso) = Ids \ Of(SsoAlerts)
  BY <1>1, <1>2, PresetsSelect
<1>7. ASSUME NEW d \in {Row(i).mjd : i \in Ids}, NEW e \in {Row(i).mjd : i \in Ids}
      PROVE  /\ Of(RecentDays(d)) = Recent(Ids, d)
             /\ Of(TimeWindow(d, e)) = InTimeWindow(Ids, d, e)
             /\ Of(TimeWindow(d, e)) =
                  Of(QuickFilter([NoArguments EXCEPT !.mjdMin = d, !.mjdMax = e]))
  <2>1. d \in Nat /\ e \in Nat
    BY <1>2
  <2>2. /\ Of(RecentDays(d)) = Recent(Ids, d)
        /\ Of(TimeWindow(d, e)) = InTimeWindow(Ids, d, e)
    BY <1>1, <2>1, PresetsSelect DEF Recent, InTimeWindow
  <2>3. \A i \in Ids :
          Matches(TimeWindow(d, e), Row(i))
            <=> Matches(QuickFilter([NoArguments EXCEPT
                          !.mjdMin = d, !.mjdMax = e]), Row(i))
    BY <1>1, <2>1, PresetsSelect, KeywordsSelect
  <2> QED BY <2>2, <2>3
<1>8. ASSUME NEW i \in Ids, Row(i).snr # None
      PROVE  Of(HighSnr(Row(i).snr)) = AtLeastSnr(Ids, Row(i).snr)
  <2>1. Row(i).snr \in Nat
    BY <1>2, <1>8
  <2> QED BY <1>1, <2>1, PresetsSelect DEF AtLeastSnr
<1>9. LET point == Of(PointSources)
          mid == Of(ExtendednessRange(3, 7))
          extended == Of(ExtendedSources)
      IN /\ point \cap mid = {} /\ mid \cap extended = {} /\ point \cap extended = {}
         /\ point \cup mid \cup extended = {i \in Ids : Row(i).ext # None}
  <2>1. ASSUME NEW i \in Ids
        PROVE  /\ Matches(PointSources, Row(i)) <=> Row(i).ext # None /\ Row(i).ext < 3
               /\ Matches(ExtendednessRange(3, 7), Row(i))
                    <=> Row(i).ext # None /\ Row(i).ext \in 3 .. 7
               /\ Matches(ExtendedSources, Row(i))
                    <=> Row(i).ext # None /\ Row(i).ext > 7
    BY <1>1, PresetsSelect
  <2>2. ASSUME NEW i \in Ids
        PROVE  /\ ~ (Matches(PointSources, Row(i)) /\ Matches(ExtendednessRange(3, 7), Row(i)))
               /\ ~ (Matches(ExtendednessRange(3, 7), Row(i)) /\ Matches(ExtendedSources, Row(i)))
               /\ ~ (Matches(PointSources, Row(i)) /\ Matches(ExtendedSources, Row(i)))
               /\ Row(i).ext # None <=> \/ Matches(PointSources, Row(i))
                                        \/ Matches(ExtendednessRange(3, 7), Row(i))
                                        \/ Matches(ExtendedSources, Row(i))
    <3>1. Row(i).ext \in Nat \cup {None}
      BY <1>2
    <3>2. Row(i).ext # None =>
            /\ Row(i).ext < 3 \/ Row(i).ext \in 3 .. 7 \/ Row(i).ext > 7
            /\ ~ (Row(i).ext < 3 /\ Row(i).ext \in 3 .. 7)
            /\ ~ (Row(i).ext > 7 /\ Row(i).ext \in 3 .. 7)
            /\ ~ (Row(i).ext < 3 /\ Row(i).ext > 7)
      BY <3>1
    <3> QED BY <2>1, <3>2
  <2> QED BY <2>2
<1> HIDE DEF Of
<1> QED BY <1>3, <1>4, <1>5, <1>6, <1>7, <1>8, <1>9 DEF SelectionsAgree, Of

(***************************************************************************)
(* Post-processing.  First its operators: registering keeps names unique   *)
(* and loses none, removing keeps them unique, and what a processor        *)
(* computes from finitely many alerts is finite.                           *)
(***************************************************************************)
NamesOf(reg) == {reg[i].name : i \in DOMAIN reg}
Unique(reg) == \A i, j \in DOMAIN reg : reg[i].name = reg[j].name => i = j

LEMMA RegisterKeeps ==
    ASSUME NEW reg \in Seq(ProcessorEntry), Unique(reg), NEW e \in ProcessorEntry
    PROVE  /\ Register(reg, e) \in Seq(ProcessorEntry)
           /\ Unique(Register(reg, e))
           /\ NamesOf(Register(reg, e)) = NamesOf(reg) \cup {e.name}
<1>1. CASE \E i \in DOMAIN reg : reg[i].name = e.name
  <2>1. Register(reg, e)
          = [i \in DOMAIN reg |-> IF reg[i].name = e.name THEN e ELSE reg[i]]
    BY <1>1 DEF Register
  <2>2. Register(reg, e) \in Seq(ProcessorEntry)
    BY <2>1
  <2>3. /\ DOMAIN Register(reg, e) = DOMAIN reg
        /\ \A i \in DOMAIN reg : Register(reg, e)[i].name = reg[i].name
    BY <2>1
  <2> QED BY <1>1, <2>2, <2>3 DEF Unique, NamesOf
<1>2. CASE ~ \E i \in DOMAIN reg : reg[i].name = e.name
  <2>1. Register(reg, e) = Append(reg, e)
    BY <1>2 DEF Register
  <2>2. /\ Register(reg, e) \in Seq(ProcessorEntry)
        /\ Len(reg) \in Nat /\ DOMAIN reg = 1 .. Len(reg)
        /\ DOMAIN Register(reg, e) = 1 .. Len(reg) + 1
        /\ \A i \in 1 .. Len(reg) : Register(reg, e)[i] = reg[i]
        /\ Register(reg, e)[Len(reg) + 1] = e
    BY <2>1
  <2> QED BY <1>2, <2>2 DEF Unique, NamesOf
<1> QED BY <1>1, <1>2

LEMMA RemoveKeeps ==
    ASSUME NEW reg \in Seq(ProcessorEntry), Unique(reg), NEW i \in DOMAIN reg
    PROVE  RemoveAt(reg, i) \in Seq(ProcessorEntry) /\ Unique(RemoveAt(reg, i))
<1> DEFINE front == SubSeq(reg, 1, i - 1)
           back == SubSeq(reg, i + 1, Len(reg))
           n == Len(reg) - 1
<1>1. Len(reg) \in Nat /\ DOMAIN reg = 1 .. Len(reg) /\ i \in 1 .. Len(reg)
  OBVIOUS
<1>2. /\ front \in Seq(ProcessorEntry) /\ Len(front) = i - 1
      /\ \A j \in 1 .. i - 1 : front[j] = reg[j]
  BY <1>1
<1>3. /\ back \in Seq(ProcessorEntry) /\ Len(back) = Len(reg) - i
      /\ \A j \in 1 .. Len(reg) - i : back[j] = reg[i + j]
  BY <1>1
<1> HIDE DEF front, back
<1>4. /\ front \o back \in Seq(ProcessorEntry) /\ Len(front \o back) = n
      /\ \A j \in 1 .. n : (front \o back)[j] =
            IF j <= i - 1 THEN front[j] ELSE back[j - (i - 1)]
  <2>1. /\ front \o back \in Seq(ProcessorEntry)
        /\ Len(front \o back) = Len(front) + Len(back)
        /\ \A j \in 1 .. Len(front) + Len(back) : (front \o back)[j] =
              IF j <= Len(front) THEN front[j] ELSE back[j - Len(front)]
    <3>1. front \in Seq(ProcessorEntry) /\ back \in Seq(ProcessorEntry)
      BY <1>2, <1>3
    <3> QED BY <3>1
  <2>2. Len(front) + Len(back) = n
    BY <1>1, <1>2, <1>3
  <2> HIDE DEF n
  <2> QED BY <1>2, <2>1, <2>2
<1>5. ASSUME NEW j \in 1 .. n
      PROVE  /\ j < i => (front \o back)[j] = reg[j]
             /\ j >= i => (front \o back)[j] = reg[j + 1]
  <2>1. CASE j < i
    BY <1>1, <1>2, <1>4, <2>1
  <2>2. CASE j >= i
    <3>1. (front \o back)[j] = back[j - (i - 1)] /\ j - (i - 1) \in 1 .. Len(reg) - i
      BY <1>1, <1>4, <2>2
    <3>2. i + (j - (i - 1)) = j + 1
      BY <1>1
    <3> QED BY <1>3, <2>2, <3>1, <3>2
  <2> QED BY <2>1, <2>2
<1>6. DOMAIN (front \o back) = 1 .. n
  BY <1>4
<1>7. Unique(front \o back)
  <2> SUFFICES ASSUME NEW j \in 1 .. n, NEW m \in 1 .. n,
                      (front \o back)[j].name = (front \o back)[m].name
               PROVE  j = m
    BY <1>6 DEF Unique
  <2> DEFINE at(x) == IF x < i THEN x ELSE x + 1
  <2>1. reg[at(j)].name = reg[at(m)].name
    <3>1. ASSUME NEW x \in 1 .. n PROVE (front \o back)[x] = reg[at(x)]
      <4>1. x < i \/ x >= i
        BY <1>1
      <4> QED BY <1>1, <1>5, <4>1
    <3> HIDE DEF at
    <3> QED BY <3>1
  <2>2. at(j) \in DOMAIN reg /\ at(m) \in DOMAIN reg
    BY <1>1
  <2>3. at(j) = at(m)
    <3> HIDE DEF at
    <3> QED BY <2>1, <2>2 DEF Unique
  <2> QED BY <1>1, <2>3
<1>8. RemoveAt(reg, i) = front \o back
  BY DEF RemoveAt, front, back
<1> QED BY <1>4, <1>7, <1>8

LEMMA RecordsFinite ==
    ASSUME NEW k, NEW ids, IsFiniteSet(ids)
    PROVE  IsFiniteSet(Records(k, ids))
<1>1. CASE k = "example"
  BY <1>1, FS_Singleton DEF Records
<1>2. CASE k = "minimoon"
  BY <1>2, FS_Subset DEF Records
<1>3. CASE k = "summary"
  <2> DEFINE f == [i \in ids |-> [object |-> Row(i).object,
                     of |-> {j \in ids : Row(j).object = Row(i).object}]]
             T == {f[i] : i \in ids}
  <2>1. f \in Surjection(ids, T)
    BY DEF Surjection
  <2>2. IsFiniteSet(T)
    BY <2>1, FS_Surjection
  <2>3. Records(k, ids) \subseteq T
    BY <1>3 DEF Records
  <2> QED BY <2>2, <2>3, FS_Subset
<1>4. CASE k = "reassoc"
  <2> DEFINE f == [i \in ids |-> [source |-> Row(i).source,
                     of |-> {j \in ids : Row(j).source = Row(i).source}]]
             T == {f[i] : i \in ids}
  <2>1. f \in Surjection(ids, T)
    BY DEF Surjection
  <2>2. IsFiniteSet(T)
    BY <2>1, FS_Surjection
  <2>3. Records(k, ids) \subseteq T
    BY <1>4 DEF Records
  <2> QED BY <2>2, <2>3, FS_Subset
<1>5. CASE k \notin {"example", "minimoon", "summary", "reassoc"}
  BY <1>5 DEF Records
<1> QED BY <1>1, <1>2, <1>3, <1>4, <1>5

(***************************************************************************)
(* The invariant.  A batch is in step with its list (ListInv); what waits  *)
(* for its INSERT was computed from the present table unless that INSERT   *)
(* is bound to fail (SaveInv); what is stored is sound for good (ResultInv).*)
(***************************************************************************)
RunResult == [name : STRING, ok : BOOLEAN, own : STRING \cup {None}, n : Nat]
BatchState == [pc : {"idle", "next", "save", "done"}, names : Seq(STRING),
               todo : Seq(STRING), req : Requests \cup {None},
               out : Seq(RunResult), input : SUBSET Nat, base : Nat, asked : Nat]
ResultRow == [name : STRING, kind : STRING, window : Nat, input : SUBSET Nat,
              records : {Records(k, ids) : k \in STRING, ids \in SUBSET Nat},
              asked : Nat]

ProcTypes ==
    /\ registry \in Seq(ProcessorEntry)
    /\ imported \in BOOLEAN /\ pristine \in BOOLEAN
    /\ batch \in BatchState
    /\ results \in Seq(ResultRow)

BuiltinNames == {"example", "minimoon_candidates", "source_summary",
                 "reassociation_tracker"}

RegInv ==
    /\ Unique(registry)
    /\ imported /\ pristine => BuiltinNames \subseteq NamesOf(registry)

(* What has been reported and what is still to do make up the list.        *)
ListInv ==
    /\ Len(batch.out) + Len(batch.todo) = Len(batch.names)
    /\ \A i \in DOMAIN batch.out : batch.out[i].name = batch.names[i]
    /\ \A i \in DOMAIN batch.todo :
          batch.todo[i] = batch.names[Len(batch.out) + i]
    /\ Running => batch.todo # <<>> /\ batch.req \in Requests
    /\ Running /\ batch.req.stop => \A i \in DOMAIN batch.out : batch.out[i].ok
    /\ batch.pc = "done" /\ batch.todo # <<>> =>
          /\ batch.out # <<>>
          /\ batch.req.stop /\ ~ Last(batch.out).ok

(* What is about to be saved is what the class selects, and if it can be   *)
(* saved at all then it was computed from the present table.               *)
SaveInv ==
    batch.pc = "save" =>
        LET k == Lookup(Head(batch.todo)).kind
            w == batch.req.window
        IN /\ Head(batch.todo) \in Names
           /\ batch.req.save
           /\ batch.input = Selected(k, batch.input, w)
           /\ Records(k, batch.input) # {}
           /\ conn[Runner].stale
                \/ Selected(k, 1 .. batch.asked, w) \subseteq batch.input

Sound(r) ==
    /\ r.asked <= rows
    /\ r.input \subseteq Ids
    /\ r.records = Records(r.kind, r.input)
    /\ r.input = Selected(r.kind, r.input, r.window)
    /\ Selected(r.kind, 1 .. r.asked, r.window) \subseteq r.input

BoundInv ==
    /\ batch.base <= Len(results)
    /\ batch.asked <= rows
    /\ batch.input \subseteq Ids

ResultInv == \A i \in DOMAIN results : Sound(results[i])

ProcInv ==
    /\ ProcTypes /\ RegInv /\ ListInv /\ SaveInv /\ BoundInv /\ ResultInv
    /\ ReportMatchesTable

-----------------------------------------------------------------------------
(* Importing builtin.py over whatever is registered.                       *)
LEMMA BuiltinsOverKeeps ==
    ASSUME NEW reg \in Seq(ProcessorEntry), Unique(reg)
    PROVE  /\ BuiltinsOver(reg) \in Seq(ProcessorEntry)
           /\ Unique(BuiltinsOver(reg))
           /\ NamesOf(BuiltinsOver(reg)) = NamesOf(reg) \cup BuiltinNames
<1>1. /\ Builtins[1] \in ProcessorEntry /\ Builtins[1].name = "example"
      /\ Builtins[2] \in ProcessorEntry /\ Builtins[2].name = "minimoon_candidates"
      /\ Builtins[3] \in ProcessorEntry /\ Builtins[3].name = "source_summary"
      /\ Builtins[4] \in ProcessorEntry
      /\ Builtins[4].name = "reassociation_tracker"
  <2>1. /\ Builtins[1] = Entry("example", "example", "example")
        /\ Builtins[2]
             = Entry("minimoon_candidates", "minimoon", "minimoon_candidates")
        /\ Builtins[3] = Entry("source_summary", "summary", "source_summary")
        /\ Builtins[4]
             = Entry("reassociation_tracker", "reassoc", "reassociation_tracker")
    BY DEF Builtins
  <2>2. \A i \in 1 .. 4 : Builtins[i] \in ProcessorEntry
    BY BuiltinsAssumption
  <2>3. /\ Builtins[1].name = "example"
        /\ Builtins[2].name = "minimoon_candidates"
        /\ Builtins[3].name = "source_summary"
        /\ Builtins[4].name = "reassociation_tracker"
    BY <2>1 DEF Entry
  <2> HIDE DEF Builtins
  <2> QED BY <2>2, <2>3
<1> DEFINE r1 == Register(reg, Builtins[1])
           r2 == Register(r1, Builtins[2])
           r3 == Register(r2, Builtins[3])
           r4 == Register(r3, Builtins[4])
           Good(r, ns) == /\ r \in Seq(ProcessorEntry) /\ Unique(r)
                          /\ NamesOf(r) = NamesOf(reg) \cup ns
<1>2. BuiltinsOver(reg) = r4
  BY DEF BuiltinsOver
<1>3. Good(r1, {"example"})
  BY <1>1, RegisterKeeps
<1> HIDE DEF r1
<1>4. Good(r2, {"example", "minimoon_candidates"})
  <2>1. /\ r2 \in Seq(ProcessorEntry) /\ Unique(r2)
        /\ NamesOf(r2) = NamesOf(r1) \cup {"minimoon_candidates"}
    BY <1>1, <1>3, RegisterKeeps
  <2> QED BY <1>3, <2>1
<1> HIDE DEF r2
<1>5. Good(r3, {"example", "minimoon_candidates", "source_summary"})
  <2>1. /\ r3 \in Seq(ProcessorEntry) /\ Unique(r3)
        /\ NamesOf(r3) = NamesOf(r2) \cup {"source_summary"}
    BY <1>1, <1>4, RegisterKeeps
  <2> QED BY <1>4, <2>1
<1> HIDE DEF r3
<1>6. Good(r4, BuiltinNames)
  <2>1. /\ r4 \in Seq(ProcessorEntry) /\ Unique(r4)
        /\ NamesOf(r4) = NamesOf(r3) \cup {"reassociation_tracker"}
    BY <1>1, <1>5, RegisterKeeps
  <2> QED BY <1>5, <2>1 DEF BuiltinNames
<1> QED BY <1>2, <1>6

(* get_processor returns the class of that name.                           *)
LEMMA LookupFinds ==
    ASSUME registry \in Seq(ProcessorEntry), NEW n \in Names
    PROVE  Lookup(n) \in ProcessorEntry /\ Lookup(n).name = n
<1>1. PICK i \in DOMAIN registry : registry[i].name = n
  BY DEF Names
<1> DEFINE j == CHOOSE j \in DOMAIN registry : registry[j].name = n
<1>2. j \in DOMAIN registry /\ registry[j].name = n
  BY <1>1
<1> HIDE DEF j
<1>3. Lookup(n) = registry[j]
  BY DEF Lookup, j
<1> QED BY <1>2, <1>3

LEMMA NoBatchTyped ==
    /\ NoBatch \in BatchState
    /\ NoBatch.names = <<>> /\ NoBatch.todo = <<>> /\ NoBatch.out = <<>>
    /\ NoBatch.pc = "idle" /\ NoBatch.req = None /\ NoBatch.input = {}
    /\ NoBatch.base = 0 /\ NoBatch.asked = 0
BY DEF NoBatch, BatchState

(* The batch after run has returned.                                       *)
LEMMA ReturnedFields ==
    ASSUME ProcTypes, NEW success \in BOOLEAN, NEW n \in Nat,
           batch.todo # <<>>, success => Head(batch.todo) \in Names
    PROVE  LET b == Returned(success, n)
               own == IF success THEN Lookup(Head(batch.todo)).own ELSE None
               r == [name |-> Head(batch.todo), ok |-> success, own |-> own, n |-> n]
           IN /\ b \in BatchState /\ r \in RunResult
              /\ b.out = Append(batch.out, r)
              /\ b.todo = Tail(batch.todo) /\ b.names = batch.names
              /\ b.req = batch.req /\ b.base = batch.base
              /\ b.asked = batch.asked /\ b.input = {}
              /\ b.pc = IF (~ success /\ batch.req.stop) \/ b.todo = <<>>
                        THEN "done" ELSE "next"
<1> DEFINE own == IF success THEN Lookup(Head(batch.todo)).own ELSE None
           r == [name |-> Head(batch.todo), ok |-> success, own |-> own, n |-> n]
           rest == Tail(batch.todo)
           pc == IF (~ success /\ batch.req.stop) \/ rest = <<>>
                 THEN "done" ELSE "next"
           o == Append(batch.out, r)
<1>1. batch \in BatchState /\ batch.todo \in Seq(STRING) /\ batch.out \in Seq(RunResult)
  BY DEF ProcTypes, BatchState
<1>2. own \in STRING \cup {None}
  BY LookupFinds DEF ProcTypes, ProcessorEntry
<1>3. r \in RunResult
  <2>1. Head(batch.todo) \in STRING
    BY <1>1
  <2> HIDE DEF own
  <2> QED BY <1>2, <2>1 DEF RunResult
<1>4. rest \in Seq(STRING)
  BY <1>1, HeadTailProperties
<1>5. o \in Seq(RunResult)
  <2> HIDE DEF r
  <2> QED BY <1>1, <1>3
<1>6. pc \in {"idle", "next", "save", "done"}
  OBVIOUS
<1>7. Returned(success, n)
        = [batch EXCEPT !.out = o, !.todo = rest, !.input = {}, !.pc = pc]
  BY DEF Returned
<1> HIDE DEF pc, o, rest
<1>8. LET b == Returned(success, n)
      IN /\ b \in BatchState
         /\ b.out = o /\ b.todo = rest /\ b.names = batch.names
         /\ b.req = batch.req /\ b.base = batch.base
         /\ b.asked = batch.asked /\ b.input = {} /\ b.pc = pc
  BY <1>1, <1>4, <1>5, <1>6, <1>7 DEF BatchState
<1> QED BY <1>3, <1>8 DEF o, pc, rest

(* run returns: the list stays in step with what is reported.              *)
LEMMA ReturnedKeepsList ==
    ASSUME ProcTypes, ListInv, Running,
           NEW success \in BOOLEAN, NEW n \in Nat,
           success => Head(batch.todo) \in Names,
           batch' = Returned(success, n)
    PROVE  batch' \in BatchState /\ ListInv' /\ SaveInv'
<1> DEFINE own == IF success THEN Lookup(Head(batch.todo)).own ELSE None
           r == [name |-> Head(batch.todo), ok |-> success, own |-> own, n |-> n]
<1>1. /\ batch.todo # <<>> /\ batch.req \in Requests
      /\ batch.todo \in Seq(STRING) /\ batch.out \in Seq(RunResult)
      /\ batch.names \in Seq(STRING)
  BY DEF ListInv, ProcTypes, BatchState
<1>2. /\ batch' \in BatchState /\ r \in RunResult
      /\ batch'.out = Append(batch.out, r)
      /\ batch'.todo = Tail(batch.todo) /\ batch'.names = batch.names
      /\ batch'.req = batch.req
      /\ batch'.pc = IF (~ success /\ batch.req.stop) \/ batch'.todo = <<>>
                     THEN "done" ELSE "next"
  BY <1>1, ReturnedFields
<1>3. r.name = batch.todo[1] /\ r.ok = success
  BY <1>1
<1>4. batch.req.stop \in BOOLEAN
  BY <1>1, ProcessingAssumption
<1> HIDE DEF r
<1> DEFINE N == Len(batch.out)
           M == Len(batch.todo)
           out == batch'.out
           todo == batch'.todo
<1>5. /\ N \in Nat /\ M \in Nat /\ M > 0 /\ DOMAIN batch.out = 1 .. N
      /\ DOMAIN batch.todo = 1 .. M /\ N + M = Len(batch.names)
  <2>1. N + M = Len(batch.names)
    BY DEF ListInv
  <2>2. N \in Nat /\ DOMAIN batch.out = 1 .. N
    BY <1>1, LenProperties
  <2>3. M \in Nat /\ M > 0 /\ DOMAIN batch.todo = 1 .. M
    BY <1>1, EmptySeq, LenProperties
  <2> QED BY <2>1, <2>2, <2>3
<1>6. /\ Len(out) = N + 1 /\ DOMAIN out = 1 .. N + 1 /\ out[N + 1] = r
      /\ \A i \in 1 .. N : out[i] = batch.out[i]
  BY <1>1, <1>2
<1>7. /\ Len(todo) = M - 1 /\ DOMAIN todo = 1 .. M - 1
      /\ \A i \in 1 .. M - 1 : todo[i] = batch.todo[i + 1]
  BY <1>1, <1>2
<1>8. /\ \A i \in 1 .. N : batch.out[i].name = batch.names[i]
      /\ \A i \in 1 .. M : batch.todo[i] = batch.names[N + i]
      /\ batch.req.stop => \A i \in 1 .. N : batch.out[i].ok
  BY <1>5 DEF ListInv
<1> HIDE DEF N, M
<1>9. \A i \in 1 .. N + 1 : out[i].name = batch'.names[i]
  <2>1. batch.todo[1] = batch.names[N + 1]
    BY <1>5, <1>8
  <2>2. out[N + 1].name = batch'.names[N + 1]
    BY <1>2, <1>3, <1>6, <2>1
  <2> QED BY <1>2, <1>5, <1>6, <1>8, <2>2
<1>10. \A i \in 1 .. M - 1 : todo[i] = batch'.names[N + 1 + i]
  <2> SUFFICES ASSUME NEW i \in 1 .. M - 1
               PROVE  todo[i] = batch'.names[N + 1 + i]
    OBVIOUS
  <2>1. i + 1 \in 1 .. M /\ N + (i + 1) = N + 1 + i
    BY <1>5
  <2> QED BY <1>2, <1>7, <1>8, <2>1
<1>11. batch'.pc = "next" => todo # <<>> /\ (batch.req.stop => success)
  BY <1>2
<1>12. Last(out) = r
  BY <1>6 DEF Last
<1>13. batch'.pc \in {"next", "done"}
  BY <1>2
<1>14. Running' => batch'.pc = "next"
  BY <1>13 DEF Running
<1>15. batch'.pc = "next" /\ batch'.req.stop => \A i \in DOMAIN out : out[i].ok
  <2> SUFFICES ASSUME batch'.pc = "next", batch'.req.stop, NEW i \in 1 .. N + 1
               PROVE  out[i].ok
    BY <1>6
  <2>1. r.ok
    BY <1>2, <1>3, <1>11
  <2>2. i \in 1 .. N \/ i = N + 1
    BY <1>5
  <2> QED BY <1>2, <1>6, <1>8, <2>1, <2>2
<1>16. batch'.pc = "done" /\ todo # <<>> =>
          out # <<>> /\ batch'.req.stop /\ ~ Last(out).ok
  <2> SUFFICES ASSUME batch'.pc = "done", todo # <<>>
               PROVE  out # <<>> /\ batch'.req.stop /\ ~ Last(out).ok
    OBVIOUS
  <2>1. ~ success /\ batch.req.stop
    BY <1>2
  <2>2. out # <<>>
    BY <1>5, <1>6
  <2> QED BY <1>2, <1>3, <1>12, <2>1, <2>2
<1>17. ListInv'
  <2>1. Len(out) + Len(todo) = Len(batch'.names)
    <3>1. Len(out) + Len(todo) = (N + 1) + (M - 1)
      BY <1>6, <1>7
    <3>2. (N + 1) + (M - 1) = N + M
      BY <1>5
    <3> QED BY <1>2, <1>5, <3>1, <3>2
  <2>2. \A i \in DOMAIN todo : todo[i] = batch'.names[Len(out) + i]
    BY <1>6, <1>7, <1>10
  <2>3. \A i \in DOMAIN out : out[i].name = batch'.names[i]
    BY <1>6, <1>9
  <2>4. Running' => todo # <<>> /\ batch'.req \in Requests
    BY <1>1, <1>2, <1>11, <1>14
  <2>5. Running' /\ batch'.req.stop => \A i \in DOMAIN out : out[i].ok
    BY <1>14, <1>15
  <2> QED BY <1>16, <2>1, <2>2, <2>3, <2>4, <2>5 DEF ListInv
<1>18. SaveInv'
  BY <1>13 DEF SaveInv
<1> QED BY <1>2, <1>17, <1>18

LEMMA LongerTable ==
    ASSUME TableInv, TableStep
    PROVE  /\ rows \in Nat /\ rows' \in Nat /\ rows <= rows'
           /\ Ids \subseteq Ids'
<1>1. rows \in Nat /\ rows' \in Nat /\ rows <= rows'
  BY DEF TableInv, TableTypeOK, TableStep
<1> QED BY <1>1 DEF Ids

(* Results that are stored stay sound as the table grows.                  *)
LEMMA ResultsStaySound ==
    ASSUME TableInv, TableStep, ProcTypes, ResultInv, results' = results
    PROVE  ResultInv'
<1> SUFFICES ASSUME NEW i \in DOMAIN results
             PROVE  results[i].asked <= rows' /\ results[i].input \subseteq Ids'
  BY DEF ResultInv, Sound
<1>1. results[i] \in ResultRow
  BY DEF ProcTypes
<1>2. results[i].asked \in Nat
  BY <1>1 DEF ResultRow
<1> QED BY <1>2, LongerTable DEF ResultInv, Sound

LEMMA BoundsStay ==
    ASSUME TableInv, TableStep, ProcTypes, BoundInv, results' = results,
           batch'.base = batch.base, batch'.asked = batch.asked,
           batch'.input \in {{}, batch.input}
    PROVE  BoundInv'
<1>1. batch.asked \in Nat
  BY DEF ProcTypes, BatchState
<1> QED BY <1>1, LongerTable DEF BoundInv

(* The runner's connection is overtaken, never caught up, by others.       *)
LEMMA RunnerUntouched ==
    ASSUME TableInv, TableStep, OthersConn(Runner), ProcInv,
           UNCHANGED procVars
    PROVE  ProcInv'
<1>1. conn[Runner] \in Connection
  BY ProcessingAssumption DEF TableInv, TableTypeOK
<1>2. conn[Runner].stale => conn'[Runner].stale
  BY <1>1, ConnectionFields DEF OthersConn
<1>3. ProcTypes' /\ RegInv'
  BY DEF ProcInv, procVars, ProcTypes, RegInv
<1>4. ListInv'
  BY DEF ProcInv, procVars, ListInv, Running
<1>5. ReportMatchesTable'
  BY DEF ProcInv, procVars, ReportMatchesTable
<1>6. SaveInv'
  BY <1>2 DEF ProcInv, procVars, SaveInv, Lookup, Names
<1>7. BoundInv' /\ ResultInv'
  BY BoundsStay, ResultsStaySound DEF ProcInv, procVars
<1> QED BY <1>3, <1>4, <1>5, <1>6, <1>7 DEF ProcInv

-----------------------------------------------------------------------------
(* The report as a relation between a batch and a table of results.        *)
Saved(b) == {i \in DOMAIN b.out : b.out[i].ok /\ b.out[i].n > 0 /\ b.req.save}
Stored(b, res) == 1 .. Len(res) - b.base
Reports(f, b, res) ==
    /\ f \in [Stored(b, res) -> Saved(b)]
    /\ \A i, j \in Stored(b, res) : i < j => f[i] < f[j]
    /\ \A k \in Saved(b) : \E i \in Stored(b, res) : f[i] = k
    /\ \A i \in Stored(b, res) : res[b.base + i].name = b.out[f[i]].own

LEMMA ReportForm ==
    /\ ReportMatchesTable
         <=> (batch.req # None => \E f : Reports(f, batch, results))
    /\ ReportMatchesTable'
         <=> (batch'.req # None => \E f : Reports(f, batch', results'))
BY DEF ReportMatchesTable, Reports, Saved, Stored

(* run returns and nothing was stored for it.                              *)
LEMMA ReturnedKeepsReport ==
    ASSUME ProcTypes, ListInv, ReportMatchesTable, Running,
           NEW success \in BOOLEAN, NEW n \in Nat,
           success => Head(batch.todo) \in Names,
           success /\ batch.req.save => n = 0,
           batch' = Returned(success, n), results' = results
    PROVE  ReportMatchesTable'
<1> DEFINE own == IF success THEN Lookup(Head(batch.todo)).own ELSE None
           r == [name |-> Head(batch.todo), ok |-> success, own |-> own, n |-> n]
           N == Len(batch.out)
<1>1. /\ batch.todo # <<>> /\ batch.out \in Seq(RunResult)
  BY DEF ListInv, ProcTypes, BatchState
<1>2. /\ r \in RunResult /\ batch'.out = Append(batch.out, r)
      /\ batch'.req = batch.req /\ batch'.base = batch.base
  BY <1>1, ReturnedFields
<1>3. r.ok = success /\ r.n = n
  OBVIOUS
<1> HIDE DEF r
<1>4. /\ N \in Nat /\ DOMAIN batch.out = 1 .. N /\ DOMAIN batch'.out = 1 .. N + 1
      /\ batch'.out[N + 1] = r
      /\ \A i \in 1 .. N : batch'.out[i] = batch.out[i]
  BY <1>1, <1>2
<1> HIDE DEF N
<1>5. Saved(batch') = Saved(batch)
  <2>1. N + 1 \notin Saved(batch')
    BY <1>2, <1>3, <1>4 DEF Saved
  <2>2. \A i \in 1 .. N : i \in Saved(batch') <=> i \in Saved(batch)
    BY <1>2, <1>4 DEF Saved
  <2>3. 1 .. N + 1 = (1 .. N) \cup {N + 1} /\ N + 1 \notin 1 .. N
    BY <1>4
  <2>4. Saved(batch') \subseteq 1 .. N + 1 /\ Saved(batch) \subseteq 1 .. N
    BY <1>4 DEF Saved
  <2> QED BY <2>1, <2>2, <2>3, <2>4
<1>6. Stored(batch', results') = Stored(batch, results)
  BY <1>2 DEF Stored
<1>7. ASSUME batch.req # None PROVE \E f : Reports(f, batch', results')
  <2>1. PICK f : Reports(f, batch, results)
    BY <1>7, ReportForm
  <2>2. \A i \in Stored(batch, results) : batch'.out[f[i]] = batch.out[f[i]]
    <3>1. \A i \in Stored(batch, results) : f[i] \in Saved(batch)
      BY <2>1 DEF Reports
    <3>2. Saved(batch) \subseteq 1 .. N
      BY <1>4 DEF Saved
    <3> QED BY <3>1, <3>2, <1>4
  <2>3. Reports(f, batch', results')
    BY <1>2, <1>5, <1>6, <2>1, <2>2 DEF Reports
  <2> QED BY <2>3
<1> QED BY <1>2, <1>7, ReportForm

(* One result stored and one success reported: the report goes on by one.  *)
LEMMA ReportGrows ==
    ASSUME NEW b, NEW c, NEW res \in Seq(ResultRow), NEW x \in ResultRow,
           NEW r \in RunResult,
           b.out \in Seq(RunResult), b.base \in Nat, b.base <= Len(res),
           c.out = Append(b.out, r), c.req = b.req, c.base = b.base,
           r.ok, r.n > 0, b.req.save, r.own = x.name,
           NEW f, Reports(f, b, res)
    PROVE  \E g : Reports(g, c, Append(res, x))
<1> DEFINE N == Len(b.out)
           K == Len(res) - b.base
           more == Append(res, x)
<1>1. /\ N \in Nat /\ DOMAIN b.out = 1 .. N /\ DOMAIN c.out = 1 .. N + 1
      /\ c.out[N + 1] = r
      /\ \A i \in 1 .. N : c.out[i] = b.out[i]
  OBVIOUS
<1>2. /\ Len(res) \in Nat /\ Len(more) = Len(res) + 1
      /\ more[Len(res) + 1] = x
      /\ \A i \in 1 .. Len(res) : more[i] = res[i]
  OBVIOUS
<1> HIDE DEF N, more
<1>3. /\ 1 .. N + 1 = (1 .. N) \cup {N + 1} /\ N + 1 \notin 1 .. N
  BY <1>1
<1>4. Saved(b) \subseteq 1 .. N
  BY <1>1 DEF Saved
<1>5. Saved(c) = Saved(b) \cup {N + 1}
  <2>1. N + 1 \in Saved(c)
    <3>1. N + 1 \in DOMAIN c.out
      BY <1>1
    <3> QED BY <1>1, <3>1 DEF Saved
  <2>2. \A i \in 1 .. N : i \in Saved(c) <=> i \in Saved(b)
    BY <1>1 DEF Saved
  <2>3. Saved(c) \subseteq 1 .. N + 1
    BY <1>1 DEF Saved
  <2> QED BY <1>3, <1>4, <2>1, <2>2, <2>3
<1>6. K \in Nat /\ b.base + (K + 1) = Len(res) + 1 /\ Len(more) - c.base = K + 1
  BY <1>2
<1>7. Stored(b, res) = 1 .. K /\ Stored(c, more) = 1 .. K + 1
  BY <1>6 DEF Stored
<1>8. \A i \in 1 .. K : more[b.base + i] = res[b.base + i]
  <2> SUFFICES ASSUME NEW i \in 1 .. K
               PROVE  b.base + i \in 1 .. Len(res)
    BY <1>2
  <2> QED BY <1>2
<1> HIDE DEF K
<1>9. /\ \A i \in 1 .. K : f[i] \in Saved(b)
      /\ \A i, j \in 1 .. K : i < j => f[i] < f[j]
      /\ \A k \in Saved(b) : \E i \in 1 .. K : f[i] = k
      /\ \A i \in 1 .. K : res[b.base + i].name = b.out[f[i]].own
  BY <1>7 DEF Reports
<1> DEFINE g == [i \in 1 .. K + 1 |-> IF i = K + 1 THEN N + 1 ELSE f[i]]
<1>10. /\ g[K + 1] = N + 1
       /\ \A i \in 1 .. K : g[i] = f[i] /\ f[i] \in 1 .. N
       /\ 1 .. K + 1 = (1 .. K) \cup {K + 1} /\ K + 1 \notin 1 .. K
  BY <1>4, <1>6, <1>9
<1>11. g \in [1 .. K + 1 -> Saved(c)]
  BY <1>5, <1>9, <1>10
<1> HIDE DEF g
<1>12. \A i, j \in 1 .. K + 1 : i < j => g[i] < g[j]
  <2> SUFFICES ASSUME NEW i \in 1 .. K + 1, NEW j \in 1 .. K + 1, i < j
               PROVE  g[i] < g[j]
    OBVIOUS
  <2>1. i \in 1 .. K
    BY <1>6
  <2>2. CASE j = K + 1
    BY <1>1, <1>10, <2>1, <2>2
  <2>3. CASE j \in 1 .. K
    BY <1>9, <1>10, <2>1, <2>3
  <2> QED BY <1>10, <2>2, <2>3
<1>13. \A k \in Saved(c) : \E i \in 1 .. K + 1 : g[i] = k
  BY <1>5, <1>9, <1>10
<1>14. \A i \in 1 .. K + 1 : more[c.base + i].name = c.out[g[i]].own
  <2> SUFFICES ASSUME NEW i \in 1 .. K + 1
               PROVE  more[b.base + i].name = c.out[g[i]].own
    OBVIOUS
  <2>1. CASE i = K + 1
    BY <1>1, <1>2, <1>6, <1>10, <2>1
  <2>2. CASE i \in 1 .. K
    <3>1. c.out[g[i]] = b.out[f[i]]
      BY <1>1, <1>10, <2>2
    <3>2. more[b.base + i] = res[b.base + i]
      BY <1>8, <2>2
    <3> QED BY <1>9, <2>2, <3>1, <3>2
  <2> QED BY <1>10, <2>1, <2>2
<1>15. Reports(g, c, more)
  BY <1>7, <1>11, <1>12, <1>13, <1>14 DEF Reports
<1> QED BY <1>15 DEF more

(* run returns and its result was stored.                                  *)
LEMMA SavedKeepsReport ==
    ASSUME ProcTypes, ListInv, BoundInv, ReportMatchesTable, Running,
           NEW n \in Nat, n > 0,
           Head(batch.todo) \in Names, batch.req.save,
           NEW x \in ResultRow, x.name = Lookup(Head(batch.todo)).own,
           batch' = Returned(TRUE, n), results' = Append(results, x)
    PROVE  ReportMatchesTable'
<1> DEFINE own == Lookup(Head(batch.todo)).own
           r == [name |-> Head(batch.todo), ok |-> TRUE, own |-> own, n |-> n]
<1>1. /\ batch.todo # <<>> /\ batch.out \in Seq(RunResult) /\ batch.base \in Nat
      /\ results \in Seq(ResultRow) /\ batch.base <= Len(results)
  BY DEF ListInv, ProcTypes, BatchState, BoundInv
<1>2. /\ r \in RunResult /\ batch'.out = Append(batch.out, r)
      /\ batch'.req = batch.req /\ batch'.base = batch.base
  BY <1>1, ReturnedFields
<1>3. r.ok /\ r.n = n /\ r.own = x.name
  OBVIOUS
<1> HIDE DEF r
<1>4. ASSUME batch.req # None PROVE \E g : Reports(g, batch', results')
  <2>1. PICK f : Reports(f, batch, results)
    BY <1>4, ReportForm
  <2>2. r.n > 0
    BY <1>3
  <2> QED BY <1>1, <1>2, <1>3, <2>1, <2>2, ReportGrows
<1> QED BY <1>2, <1>4, ReportForm

-----------------------------------------------------------------------------
(* A registration, a removal: nothing but the registry changes.            *)
LEMMA RegistryKeeps ==
    ASSUME TableInv, ProcInv,
           \/ \E e \in Plugins : Discover(e)
           \/ \E m \in Names : Unregister(m)
           \/ ClearRegistry
    PROVE  /\ conn' = conn /\ UNCHANGED <<rows, busy, created>>
           /\ commands' \in 0 .. MaxCommands
           /\ ProcInv'
<1>1. /\ conn' = conn /\ UNCHANGED <<rows, busy, created, batch, results, imported>>
      /\ Command /\ ~ Running
  BY DEF Discover, Unregister, ClearRegistry, dbVars
<1>2. /\ registry \in Seq(ProcessorEntry) /\ Unique(registry)
      /\ imported \in BOOLEAN /\ pristine \in BOOLEAN
      /\ imported /\ pristine => BuiltinNames \subseteq NamesOf(registry)
  BY DEF ProcInv, ProcTypes, RegInv
<1>3. /\ registry' \in Seq(ProcessorEntry) /\ Unique(registry')
      /\ imported' \in BOOLEAN /\ pristine' \in BOOLEAN
      /\ imported' /\ pristine' => BuiltinNames \subseteq NamesOf(registry')
  <2>1. ASSUME NEW e \in Plugins, Discover(e)
        PROVE <1>3!:
    <3>1. registry' = Register(registry, e) /\ e \in ProcessorEntry
          /\ pristine' = pristine
      BY <2>1, ProcessingAssumption DEF Discover
    <3> QED BY <1>1, <1>2, <3>1, RegisterKeeps
  <2>2. ASSUME NEW m \in Names, Unregister(m)
        PROVE <1>3!:
    BY <1>1, <1>2, <2>2, RemoveKeeps DEF Unregister
  <2>3. CASE ClearRegistry
    <3>1. registry' = <<>> /\ pristine' = ~ imported
      BY <2>3 DEF ClearRegistry
    <3>2. <<>> \in Seq(ProcessorEntry) /\ DOMAIN <<>> = {}
      OBVIOUS
    <3>3. pristine' \in BOOLEAN /\ ~ (imported' /\ pristine')
      BY <1>1, <1>2, <3>1
    <3> QED BY <1>1, <1>2, <3>1, <3>2, <3>3 DEF Unique
  <2> QED BY <2>1, <2>2, <2>3
<1>4. ProcTypes' /\ RegInv'
  <2>1. batch' \in BatchState /\ results' \in Seq(ResultRow)
    BY <1>1 DEF ProcInv, ProcTypes
  <2> QED BY <1>3, <2>1 DEF ProcTypes, RegInv
<1>5. ListInv' /\ ReportMatchesTable'
  <2>1. ListInv'
    BY <1>1 DEF ProcInv, ListInv, Running
  <2>2. ReportMatchesTable'
    BY <1>1 DEF ProcInv, ReportMatchesTable
  <2> QED BY <2>1, <2>2
<1>6. SaveInv'
  BY <1>1 DEF SaveInv, Running
<1>7. BoundInv' /\ ResultInv'
  BY <1>1 DEF ProcInv, BoundInv, ResultInv, Sound, Ids
<1>8. commands' \in 0 .. MaxCommands
  BY <1>1, CommandCounts DEF TableInv
<1> QED BY <1>1, <1>4, <1>5, <1>6, <1>7, <1>8 DEF ProcInv

(* The start of run_all.                                                   *)
LEMMA StartKeeps ==
    ASSUME TableInv, ProcInv, NEW q \in Requests, StartBatch(q)
    PROVE  /\ conn' = conn /\ UNCHANGED <<rows, busy, created>>
           /\ commands' \in 0 .. MaxCommands
           /\ ProcInv'
<1> DEFINE all == [i \in DOMAIN registry' |-> registry'[i].name]
           names == IF q.names = None THEN all ELSE q.names
           pc == IF names = <<>> THEN "done" ELSE "next"
<1>1. /\ conn' = conn /\ UNCHANGED <<rows, busy, created, results>>
      /\ Command
      /\ registry' = LoadBuiltins /\ imported' = TRUE
      /\ pristine' = (pristine \/ ~ imported)
  BY DEF StartBatch, dbVars
<1>2. /\ registry \in Seq(ProcessorEntry) /\ Unique(registry)
      /\ imported \in BOOLEAN /\ pristine \in BOOLEAN
      /\ imported /\ pristine => BuiltinNames \subseteq NamesOf(registry)
  BY DEF ProcInv, ProcTypes, RegInv
<1>3. /\ registry' \in Seq(ProcessorEntry) /\ Unique(registry')
      /\ imported' \in BOOLEAN /\ pristine' \in BOOLEAN
      /\ imported' /\ pristine' => BuiltinNames \subseteq NamesOf(registry')
  <2>1. CASE imported
    BY <1>1, <1>2, <2>1 DEF LoadBuiltins
  <2>2. CASE ~ imported
    BY <1>1, <1>2, <2>2, BuiltinsOverKeeps DEF LoadBuiltins
  <2> QED BY <2>1, <2>2
<1>4. names \in Seq(STRING)
  <2>1. all \in Seq(STRING)
    <3>1. /\ Len(registry') \in Nat /\ DOMAIN registry' = 1 .. Len(registry')
          /\ \A i \in 1 .. Len(registry') : registry'[i] \in ProcessorEntry
      BY <1>3
    <3>2. \A i \in 1 .. Len(registry') : registry'[i].name \in STRING
      BY <3>1 DEF ProcessorEntry
    <3> QED BY <3>1, <3>2
  <2>2. q.names \in {None} \cup Seq(STRING)
    BY ProcessingAssumption
  <2> QED BY <2>1, <2>2
<1>5. batch' = [NoBatch EXCEPT !.pc = pc, !.names = names, !.todo = names,
                               !.req = q, !.base = Len(results), !.asked = rows]
  BY DEF StartBatch
<1> HIDE DEF names
<1>6. Len(results) \in Nat /\ rows \in Nat
  BY DEF ProcInv, ProcTypes, TableInv, TableTypeOK
<1>7. /\ batch' \in BatchState
      /\ batch'.pc = pc /\ batch'.names = names /\ batch'.todo = names
      /\ batch'.req = q /\ batch'.out = <<>> /\ batch'.input = {}
      /\ batch'.base = Len(results) /\ batch'.asked = rows
  <2>1. NoBatch \in BatchState /\ NoBatch.out = <<>> /\ NoBatch.input = {}
    BY NoBatchTyped
  <2>2. pc \in {"idle", "next", "save", "done"}
    OBVIOUS
  <2> HIDE DEF pc
  <2> QED BY <1>4, <1>5, <1>6, <2>1, <2>2 DEF BatchState
<1>8. ProcTypes' /\ RegInv'
  BY <1>1, <1>3, <1>7 DEF ProcInv, ProcTypes, RegInv
<1>9. ListInv'
  <2>1. /\ Len(<<>>) = 0 /\ DOMAIN <<>> = {} /\ Len(names) \in Nat
        /\ DOMAIN names = 1 .. Len(names)
    BY <1>4
  <2> QED BY <1>7, <2>1 DEF ListInv, Running
<1>10. ReportMatchesTable'
  <2>1. Saved(batch') = {}
    BY <1>7 DEF Saved
  <2>2. Stored(batch', results') = {}
    BY <1>1, <1>6, <1>7 DEF Stored
  <2>3. Reports([i \in {} |-> 0], batch', results')
    BY <2>1, <2>2 DEF Reports
  <2> QED BY <2>3, ReportForm
<1>11. SaveInv'
  BY <1>7 DEF SaveInv
<1>12. BoundInv' /\ ResultInv'
  BY <1>1, <1>6, <1>7 DEF ProcInv, BoundInv, ResultInv, Sound, Ids
<1>13. commands' \in 0 .. MaxCommands
  BY <1>1, CommandCounts DEF TableInv
<1> QED BY <1>1, <1>8, <1>9, <1>10, <1>11, <1>12, <1>13 DEF ProcInv

(* What the query of a processor sees, and that it changes no more than    *)
(* the runner's snapshot.                                                  *)
LEMMA QuerySees ==
    ASSUME TableInv, NEW p \in Clients
    PROVE  /\ Visible(p) \subseteq Ids
           /\ ~ conn[p].stale => Visible(p) = Ids
           /\ Reads(p) => (conn'[p].stale <=> conn[p].stale)
<1>1. conn \in [Clients -> Connection] /\ conn[p] \in Connection /\ rows \in Nat
  BY DEF TableInv, TableTypeOK
<1>2. /\ Visible(p) \subseteq Ids
      /\ ~ conn[p].stale => Visible(p) = Ids
  <2>1. CASE conn[p].pinned = None
    BY <2>1 DEF Visible
  <2>2. CASE conn[p].pinned # None
    <3>1. /\ conn[p].pinned \in Nat /\ conn[p].pinned <= rows
          /\ ~ conn[p].stale => conn[p].pinned = rows
      BY <1>1, <2>2 DEF TableInv, SnapshotInv, Connection
    <3> QED BY <1>1, <2>2, <3>1 DEF Visible, Ids
  <2> QED BY <2>1, <2>2
<1>3. ASSUME Reads(p) PROVE conn'[p].stale <=> conn[p].stale
  <2>1. CASE conn[p].txn /\ conn[p].pinned = None
    <3>1. conn' = [conn EXCEPT ![p] = Pinned(conn[p], rows)]
      BY <1>3, <2>1 DEF Reads, Pinned
    <3> QED BY <1>1, <3>1, ConnectionFields
  <2>2. CASE ~ (conn[p].txn /\ conn[p].pinned = None)
    <3>1. conn' = [conn EXCEPT ![p] = Pinned(conn[p], conn[p].pinned)]
      BY <1>3, <2>2 DEF Reads, Pinned
    <3>2. Pinned(conn[p], conn[p].pinned) = conn[p]
      BY <1>1 DEF Pinned, Connection
    <3> QED BY <1>1, <3>1, <3>2
  <2> QED BY <2>1, <2>2
<1> QED BY <1>2, <1>3

(* A processor returns and nothing is stored for it.                       *)
LEMMA NothingStored ==
    ASSUME TableInv, TableStep, ProcInv, Running,
           UNCHANGED <<sessionVars, results>>,
           NEW success \in BOOLEAN, NEW n \in Nat,
           success => Head(batch.todo) \in Names,
           success /\ batch.req.save => n = 0,
           batch' = Returned(success, n)
    PROVE  ProcInv'
<1>1. ProcTypes /\ ListInv /\ ReportMatchesTable
  BY DEF ProcInv
<1>2. batch' \in BatchState /\ ListInv' /\ SaveInv'
  BY <1>1, ReturnedKeepsList
<1>3. ReportMatchesTable'
  BY <1>1, ReturnedKeepsReport
<1>4. /\ batch'.base = batch.base /\ batch'.asked = batch.asked
      /\ batch'.input = {}
  BY <1>1, ReturnedFields DEF ListInv
<1>5. BoundInv' /\ ResultInv'
  BY <1>1, <1>4, BoundsStay, ResultsStaySound DEF ProcInv
<1>6. ProcTypes' /\ RegInv'
  BY <1>2 DEF ProcInv, ProcTypes, RegInv, sessionVars
<1> QED BY <1>2, <1>3, <1>5, <1>6 DEF ProcInv

LEMMA SameList ==
    ASSUME ListInv, Running, Running', batch'.pc # "done",
           batch'.names = batch.names, batch'.todo = batch.todo,
           batch'.out = batch.out, batch'.req = batch.req
    PROVE  ListInv'
BY DEF ListInv

(* The processor computed something that is going to be saved.             *)
LEMMA ToBeSaved ==
    ASSUME TableInv, TableStep, ProcInv, batch.pc = "next",
           Head(batch.todo) \in Names, batch.req.save, Reads(Runner),
           UNCHANGED <<rows, sessionVars, results>>,
           NEW ids, Records(Lookup(Head(batch.todo)).kind, ids) # {},
           ids = Selected(Lookup(Head(batch.todo)).kind, Visible(Runner),
                          batch.req.window),
           batch' = [batch EXCEPT !.pc = "save", !.input = ids]
    PROVE  ProcInv'
<1> DEFINE k == Lookup(Head(batch.todo)).kind
           w == batch.req.window
<1>1. batch \in BatchState /\ Running /\ Runner \in Clients
  BY ProcessingAssumption DEF ProcInv, ProcTypes, Running
<1>2. /\ ids \subseteq Ids /\ ids = Selected(k, ids, w)
      /\ ~ conn[Runner].stale => ids = Selected(k, Ids, w)
  BY <1>1, QuerySees DEF Selected
<1>3. ids \in SUBSET Nat
  BY <1>2, LongerTable DEF Ids
<1>4. /\ batch' \in BatchState
      /\ batch'.pc = "save" /\ batch'.input = ids
      /\ batch'.names = batch.names /\ batch'.todo = batch.todo
      /\ batch'.req = batch.req /\ batch'.out = batch.out
      /\ batch'.base = batch.base /\ batch'.asked = batch.asked
  BY <1>1, <1>3 DEF BatchState
<1>5. ProcTypes' /\ RegInv'
  BY <1>4 DEF ProcInv, ProcTypes, RegInv, sessionVars
<1>6. ListInv'
  BY <1>1, <1>4, SameList DEF ProcInv, Running
<1>7. Saved(batch') = Saved(batch) /\ Stored(batch', results') = Stored(batch, results)
  BY <1>4 DEF Saved, Stored
<1>8. ReportMatchesTable'
  <2>1. \A f : Reports(f, batch, results) => Reports(f, batch', results')
    BY <1>4, <1>7 DEF Reports
  <2> QED BY <1>4, <2>1, ReportForm DEF ProcInv
<1>9. BoundInv'
  BY <1>2, <1>4 DEF ProcInv, BoundInv, Ids
<1>10. ResultInv'
  BY ResultsStaySound DEF ProcInv
<1>11. registry' = registry
  BY DEF sessionVars
<1>12. conn'[Runner].stale \/ Selected(k, 1 .. batch.asked, w) \subseteq ids
  <2> SUFFICES ASSUME ~ conn[Runner].stale
               PROVE  Selected(k, 1 .. batch.asked, w) \subseteq ids
    BY <1>1, QuerySees
  <2>1. batch.asked \in Nat /\ batch.asked <= rows /\ rows \in Nat
    BY <1>1, LongerTable DEF ProcInv, BoundInv, BatchState
  <2>2. 1 .. batch.asked \subseteq Ids
    BY <2>1 DEF Ids
  <2> QED BY <1>2, <2>2 DEF Selected
<1>13. SaveInv'
  <2>1. Lookup(Head(batch.todo))' = Lookup(Head(batch.todo))
    BY <1>4, <1>11 DEF Lookup
  <2>2. Names' = Names
    BY <1>11 DEF Names
  <2>3. Records(k, ids) # {}
    OBVIOUS
  <2> HIDE DEF k, w
  <2> QED BY <1>2, <1>4, <1>12, <2>1, <2>2, <2>3 DEF SaveInv, k, w
<1> QED BY <1>5, <1>6, <1>8, <1>9, <1>10, <1>13 DEF ProcInv

(* The count reported is positive exactly when there are records.          *)
LEMMA RecordsCounted ==
    ASSUME NEW k, NEW ids, ids \subseteq Ids, rows \in Nat
    PROVE  /\ Cardinality(Records(k, ids)) \in Nat
           /\ Records(k, ids) # {} => Cardinality(Records(k, ids)) > 0
<1>1. IsFiniteSet(Ids)
  BY FS_Interval DEF Ids
<1>2. IsFiniteSet(ids)
  BY <1>1, FS_Subset
<1>3. IsFiniteSet(Records(k, ids))
  BY <1>2, RecordsFinite
<1> QED BY <1>3, FS_CardinalityType, FS_EmptySet

(* BaseProcessor.run up to the records.                                    *)
LEMMA ProcessKeeps ==
    ASSUME TableInv, TableStep, ProcInv, Process
    PROVE  ProcInv'
<1> DEFINE k == Lookup(Head(batch.todo)).kind
           ids == Selected(k, Visible(Runner), batch.req.window)
           records == IF ids = {} THEN {} ELSE Records(k, ids)
<1>1. /\ batch.pc = "next" /\ Head(batch.todo) \in Names /\ Reads(Runner)
      /\ UNCHANGED <<rows, sessionVars, results>>
      /\ batch' = IF records # {} /\ batch.req.save
                  THEN [batch EXCEPT !.pc = "save", !.input = ids]
                  ELSE Returned(TRUE, Cardinality(records))
  BY DEF Process
<1>2. Running /\ rows \in Nat
  BY <1>1, LongerTable DEF Running
<1>3. ids \subseteq Ids
  BY QuerySees, ProcessingAssumption DEF Selected
<1> HIDE DEF ids
<1>4. Cardinality(records) \in Nat /\ (records = {} => Cardinality(records) = 0)
  <2>1. Cardinality({}) = 0
    BY FS_EmptySet
  <2>2. CASE ids = {}
    BY <2>1, <2>2
  <2>3. CASE ids # {}
    BY <1>2, <1>3, <2>1, <2>3, RecordsCounted
  <2> QED BY <2>2, <2>3
<1>5. CASE records # {} /\ batch.req.save
  <2>1. Records(k, ids) # {}
    BY <1>5
  <2> QED BY <1>1, <1>5, <2>1, ToBeSaved DEF ids
<1>6. CASE ~ (records # {} /\ batch.req.save)
  <2> HIDE DEF records
  <2>1. batch' = Returned(TRUE, Cardinality(records))
    BY <1>1, <1>6
  <2>2. batch.req.save => Cardinality(records) = 0
    BY <1>4, <1>6
  <2> QED BY <1>1, <1>2, <1>4, <2>1, <2>2, NothingStored
<1> QED BY <1>5, <1>6

(* save_result.                                                            *)
LEMMA SaveKeeps ==
    ASSUME TableInv, TableStep, ProcInv, SaveResult
    PROVE  ProcInv'
<1> DEFINE e == Lookup(Head(batch.todo))
           recs == Records(e.kind, batch.input)
           w == batch.req.window
           x == [name |-> e.own, kind |-> e.kind, window |-> w,
                 input |-> batch.input, records |-> recs, asked |-> batch.asked]
           n == Cardinality(recs)
<1>1. /\ batch.pc = "save" /\ ~ conn[Runner].stale
      /\ results' = Append(results, x)
      /\ batch' = Returned(TRUE, n)
      /\ UNCHANGED <<rows, sessionVars>>
  BY DEF SaveResult, Commits, CanWrite
<1>2. /\ ProcTypes /\ ListInv /\ BoundInv /\ ReportMatchesTable /\ Running
      /\ batch \in BatchState /\ results \in Seq(ResultRow)
  BY <1>1 DEF ProcInv, ProcTypes, Running
<1>3. /\ Head(batch.todo) \in Names /\ batch.req.save
      /\ batch.input = Selected(e.kind, batch.input, w)
      /\ recs # {}
      /\ Selected(e.kind, 1 .. batch.asked, w) \subseteq batch.input
  BY <1>1 DEF ProcInv, SaveInv
<1>4. e \in ProcessorEntry
  BY <1>2, <1>3, LookupFinds DEF ProcTypes
<1>5. /\ batch.input \in SUBSET Nat /\ batch.asked \in Nat /\ w \in Nat
      /\ batch.input \subseteq Ids /\ batch.asked <= rows /\ rows \in Nat
  <2>1. batch.req \in Requests
    BY <1>2 DEF ListInv
  <2>2. w \in Nat
    BY <2>1, ProcessingAssumption
  <2> QED BY <1>2, <2>2, LongerTable DEF BatchState, BoundInv
<1>6. n \in Nat /\ n > 0
  BY <1>3, <1>5, RecordsCounted
<1>7. x \in ResultRow
  <2>1. e.own \in STRING /\ e.kind \in STRING
    BY <1>4 DEF ProcessorEntry
  <2>2. recs \in {Records(k, ids) : k \in STRING, ids \in SUBSET Nat}
    BY <1>5, <2>1
  <2> HIDE DEF e, recs, w
  <2> QED BY <1>5, <2>1, <2>2 DEF ResultRow
<1>8. /\ x.name = e.own /\ x.kind = e.kind /\ x.window = w
      /\ x.input = batch.input /\ x.records = recs /\ x.asked = batch.asked
  OBVIOUS
<1> HIDE DEF x, n
<1>9. batch' \in BatchState /\ ListInv' /\ SaveInv'
  BY <1>1, <1>2, <1>3, <1>6, ReturnedKeepsList
<1>10. ReportMatchesTable'
  BY <1>1, <1>2, <1>3, <1>6, <1>7, <1>8, SavedKeepsReport
<1>11. /\ batch'.base = batch.base /\ batch'.asked = batch.asked
       /\ batch'.input = {}
  BY <1>1, <1>2, <1>3, <1>6, ReturnedFields DEF ListInv
<1>12. /\ results' \in Seq(ResultRow) /\ Len(results') = Len(results) + 1
       /\ DOMAIN results = 1 .. Len(results)
       /\ DOMAIN results' = 1 .. Len(results) + 1
       /\ results'[Len(results) + 1] = x
       /\ \A i \in 1 .. Len(results) : results'[i] = results[i]
       /\ Len(results) \in Nat
  BY <1>1, <1>2, <1>7
<1>13. BoundInv'
  <2>1. batch.base \in Nat
    BY <1>2 DEF BatchState
  <2>2. batch'.base <= Len(results')
    BY <1>2, <1>11, <1>12, <2>1 DEF BoundInv
  <2>3. batch'.asked <= rows'
    BY <1>1, <1>2, <1>11 DEF BoundInv
  <2> QED BY <1>11, <2>2, <2>3 DEF BoundInv
<1>14. ResultInv'
  <2>1. Sound(x)
    BY <1>3, <1>5, <1>8 DEF Sound
  <2>2. ASSUME NEW i \in 1 .. Len(results) + 1 PROVE Sound(results'[i])
    <3>1. CASE i = Len(results) + 1
      BY <1>12, <2>1, <3>1
    <3>2. CASE i \in 1 .. Len(results)
      BY <1>12, <3>2 DEF ProcInv, ResultInv
    <3> QED BY <1>12, <3>1, <3>2
  <2> QED BY <1>1, <1>12, <2>2 DEF ResultInv, Sound, Ids
<1>15. ProcTypes' /\ RegInv'
  BY <1>1, <1>9, <1>12 DEF ProcInv, ProcTypes, RegInv, sessionVars
<1> QED BY <1>9, <1>10, <1>13, <1>14, <1>15 DEF ProcInv

(* The process ends.                                                       *)
LEMMA ExitKeeps ==
    ASSUME TableInv, TableStep, ProcInv, ExitSession
    PROVE  ProcInv'
<1>1. /\ registry' = <<>> /\ imported' = FALSE /\ pristine' = TRUE
      /\ batch' = NoBatch /\ results' = results /\ rows' = rows
  BY DEF ExitSession
<1>2. /\ NoBatch \in BatchState
      /\ NoBatch.names = <<>> /\ NoBatch.todo = <<>> /\ NoBatch.out = <<>>
      /\ NoBatch.pc = "idle" /\ NoBatch.req = None /\ NoBatch.input = {}
      /\ NoBatch.base = 0 /\ NoBatch.asked = 0
  BY NoBatchTyped
<1>3. <<>> \in Seq(ProcessorEntry) /\ Len(<<>>) = 0 /\ DOMAIN <<>> = {}
  OBVIOUS
<1>4. ProcTypes' /\ RegInv'
  BY <1>1, <1>2, <1>3 DEF ProcInv, ProcTypes, RegInv, Unique
<1>5. ListInv' /\ SaveInv'
  BY <1>1, <1>2, <1>3 DEF ListInv, SaveInv, Running
<1>6. ReportMatchesTable'
  BY <1>1, <1>2 DEF ReportMatchesTable
<1>7. BoundInv'
  BY <1>1, <1>2, LongerTable DEF ProcInv, BoundInv, ProcTypes
<1>8. ResultInv'
  BY <1>1, ResultsStaySound DEF ProcInv
<1> QED BY <1>4, <1>5, <1>6, <1>7, <1>8 DEF ProcInv

LEMMA ProcInitInv == TableInit /\ ProcessingInit => ProcInv
<1> SUFFICES ASSUME TableInit, ProcessingInit PROVE ProcInv
  OBVIOUS
<1>1. /\ registry = <<>> /\ imported = FALSE /\ pristine = TRUE
      /\ batch = NoBatch /\ results = <<>> /\ rows = 0
  BY DEF ProcessingInit, TableInit
<1>2. /\ NoBatch \in BatchState
      /\ NoBatch.names = <<>> /\ NoBatch.todo = <<>> /\ NoBatch.out = <<>>
      /\ NoBatch.pc = "idle" /\ NoBatch.req = None /\ NoBatch.input = {}
      /\ NoBatch.base = 0 /\ NoBatch.asked = 0
  BY NoBatchTyped
<1>3. /\ <<>> \in Seq(ProcessorEntry) /\ Len(<<>>) = 0 /\ DOMAIN <<>> = {}
      /\ <<>> \in Seq(ResultRow)
  OBVIOUS
<1>4. ProcTypes /\ RegInv
  BY <1>1, <1>2, <1>3 DEF ProcTypes, RegInv, Unique
<1>5. ListInv /\ SaveInv
  BY <1>1, <1>2, <1>3 DEF ListInv, SaveInv, Running
<1>6. ReportMatchesTable
  BY <1>1, <1>2 DEF ReportMatchesTable
<1>7. BoundInv /\ ResultInv
  BY <1>1, <1>2, <1>3 DEF BoundInv, ResultInv
<1> QED BY <1>4, <1>5, <1>6, <1>7 DEF ProcInv

(* Every operation of the post-processing.                                 *)
LEMMA ProcessingNextKeeps ==
    ASSUME TableInv, ProcInv, ProcessingNext
    PROVE  /\ TableInv' /\ TableStep /\ ProcInv'
           /\ \A q \in Clients : q # Runner => OthersConn(q)
<1>1. Runner \in Clients
  BY ProcessingAssumption
<1>2. commands \in 0 .. MaxCommands
  BY DEF TableInv, TableTypeOK
<1>3. CASE \/ \E e \in Plugins : Discover(e)
           \/ \E m \in Names : Unregister(m)
           \/ ClearRegistry
           \/ \E q \in Requests : StartBatch(q)
  <2>1. /\ conn' = conn /\ UNCHANGED <<rows, busy, created>>
        /\ commands' \in 0 .. MaxCommands /\ ProcInv'
    BY <1>3, RegistryKeeps, StartKeeps
  <2> QED BY <1>1, <2>1, ClientStepKeeps DEF ClientStep
<1>4. CASE BatchStep \/ ExitSession
  <2>1. /\ ClientStep(Runner)
        /\ UNCHANGED <<rows, busy, created>>
        /\ commands' \in 0 .. MaxCommands
    <3>1. CASE ProcessorNotFound
      BY <1>2, <3>1 DEF ProcessorNotFound, ClientStep, tableVars, dbVars
    <3>2. CASE Process \/ ProcessRaises
      BY <1>2, <3>2 DEF Process, ProcessRaises, ClientStep
    <3>3. CASE SaveResult \/ SaveFails
      BY <1>2, <3>3 DEF SaveResult, SaveFails, ClientStep
    <3>4. CASE ExitSession
      BY <1>2, <3>4 DEF ExitSession, ClientStep
    <3> QED BY <1>4, <3>1, <3>2, <3>3, <3>4 DEF BatchStep
  <2>2. /\ TableInv' /\ TableStep
        /\ \A q \in Clients : q # Runner => OthersConn(q)
    BY <1>1, <2>1, ClientStepKeeps
  <2>3. ProcInv'
    <3>1. CASE ProcessorNotFound
      BY <2>2, <3>1, NothingStored DEF ProcessorNotFound, Running
    <3>2. CASE Process
      BY <2>2, <3>2, ProcessKeeps
    <3>3. CASE ProcessRaises
      BY <2>2, <3>3, NothingStored DEF ProcessRaises, Running
    <3>4. CASE SaveResult
      BY <2>2, <3>4, SaveKeeps
    <3>5. CASE SaveFails
      BY <2>2, <3>5, NothingStored DEF SaveFails, Running
    <3>6. CASE ExitSession
      BY <2>2, <3>6, ExitKeeps
    <3> QED BY <1>4, <3>1, <3>2, <3>3, <3>4, <3>5, <3>6 DEF BatchStep
  <2> QED BY <2>2, <2>3
<1> QED BY <1>3, <1>4 DEF ProcessingNext

-----------------------------------------------------------------------------
(* Everything together.                                                    *)
PostInv == TableInv /\ FilterInv /\ ProcInv

(* PostInv holds in every state, whatever the analysts, the runner and the *)
(* ingesting processes do, in any order.                                   *)
THEOREM PostInvariant == Spec => []PostInv
<1>1. Init => PostInv
  BY TableInitInv, FilterInitInv, ProcInitInv DEF Init, PostInv
<1>2. PostInv /\ [Next]_vars => PostInv'
  <2> SUFFICES ASSUME PostInv, [Next]_vars PROVE PostInv'
    OBVIOUS
  <2> USE DEF PostInv
  <2>1. Runner \in Clients /\ Runner \notin Analysts /\ Analysts \subseteq Clients
    BY ProcessingAssumption, SeparateProcesses, FilterAssumption
  <2>2. CASE TableNext /\ UNCHANGED <<filterVars, procVars>>
    <3>1. /\ TableInv' /\ TableStep
          /\ \A p \in Clients : OthersConn(p)
      BY <2>2, TableNextKeeps
    <3>2. UNCHANGED filterVars /\ UNCHANGED procVars
      BY <2>2
    <3>3. \A p \in Analysts : OthersConn(p)
      BY <2>1, <3>1
    <3>4. FilterInv'
      BY <3>1, <3>2, <3>3, FiltersUntouched
    <3>5. ProcInv'
      BY <2>1, <3>1, <3>2, RunnerUntouched
    <3> QED BY <3>1, <3>4, <3>5
  <2>3. CASE FilterNext /\ UNCHANGED procVars
    BY <2>1, <2>3, FilterNextKeeps, RunnerUntouched
  <2>4. CASE ProcessingNext /\ UNCHANGED filterVars
    <3>1. /\ TableInv' /\ TableStep /\ ProcInv'
          /\ \A q \in Clients : q # Runner => OthersConn(q)
      BY <2>4, ProcessingNextKeeps
    <3>2. \A p \in Analysts : OthersConn(p)
      BY <2>1, <3>1
    <3> QED BY <2>4, <3>1, <3>2, FiltersUntouched
  <2>5. CASE UNCHANGED vars
    <3>1. UNCHANGED <<rows, busy, conn, created, commands>>
          /\ UNCHANGED filterVars /\ UNCHANGED procVars
      BY <2>5 DEF vars, tableVars, dbVars
    <3>2. TableInv' /\ TableStep /\ \A p \in Clients : OthersConn(p)
      BY <3>1 DEF TableInv, TableTypeOK, SnapshotInv, TableStep, OthersConn
    <3>3. \A p \in Analysts : OthersConn(p)
      BY <2>1, <3>2
    <3> QED BY <2>1, <3>1, <3>2, <3>3, FiltersUntouched, RunnerUntouched
  <2> QED BY <2>2, <2>3, <2>4, <2>5 DEF Next
<1> QED BY <1>1, <1>2, PTL DEF Spec

(* The type invariant: among the rest, a copy never has to do what its     *)
(* query did not return, and a batch that goes on has something to do.     *)
THEOREM PostTypes == Spec => []TypeOK
<1>1. PostInv => TypeOK
  <2> SUFFICES ASSUME PostInv PROVE TypeOK
    OBVIOUS
  <2>1. TableTypeOK
    BY DEF PostInv, TableInv
  <2>2. FilterTypeOK
    BY DEF PostInv, FilterInv, FilterTypes, CopyInv, CopyState, FilterTypeOK
  <2>3. ProcessingTypeOK
    <3>1. \A i \in DOMAIN registry : registry[i].name \in STRING
      <4>1. \A i \in DOMAIN registry : registry[i] \in ProcessorEntry
        BY DEF PostInv, ProcInv, ProcTypes
      <4> QED BY <4>1 DEF ProcessorEntry
    <3>2. \A i \in DOMAIN results : results[i].input \subseteq Ids
      BY DEF PostInv, ProcInv, ResultInv, Sound
    <3> QED BY <3>1, <3>2
            DEF PostInv, ProcInv, ProcTypes, BatchState, ListInv, BoundInv,
                ProcessingTypeOK
  <2> QED BY <2>1, <2>2, <2>3 DEF TypeOK
<1> QED BY <1>1, PostInvariant, PTL

(* A row of alerts_filtered satisfies the configuration it is tagged with. *)
THEOREM FilteredRowsMatch == Spec => []FilteredMatches
<1>1. PostInv => FilteredMatches
  BY DEF PostInv, FilterInv
<1> QED BY <1>1, PostInvariant, PTL

(* copy_to_filtered, once it has returned a number of rows, has stored     *)
(* everything its configuration selected from the alerts that were         *)
(* committed when it was called.                                           *)
THEOREM CopiesComplete == Spec => []CopyCovers
<1>1. PostInv => CopyCovers
  <2> SUFFICES ASSUME PostInv, NEW p \in Analysts,
                      copy[p].pc = "returned", copy[p].ids # {}
               PROVE  LET c == copy[p].cfg
                          there == {i \in 1 .. copy[p].asked : Matches(c, Row(i))}
                      IN /\ \A i \in copy[p].ids : <<i, Hash(c)>> \in filtered
                         /\ Cardinality(copy[p].ids) = Limited(c, Cardinality(there))
                         /\ \A i \in copy[p].ids, j \in there \ copy[p].ids :
                               ~ Ahead(c, j, i)
    BY DEF CopyCovers
  <2>1. CopyInv(p)
    BY DEF PostInv, FilterInv
  <2>2. copy[p].todo = {}
    BY <2>1 DEF CopyInv
  <2>3. \A i \in copy[p].ids : <<i, Hash(copy[p].cfg)>> \in filtered
    BY <2>1, <2>2 DEF CopyInv
  <2>4. Answers(copy[p].cfg, copy[p].ids, copy[p].asked)
    BY <2>1, <2>2 DEF CopyInv
  <2> QED BY <2>3, <2>4 DEF Answers
<1> QED BY <1>1, PostInvariant, PTL

(* The registry of a process has each name once, and the built-in          *)
(* processors from the first batch on, unless they were unregistered.      *)
THEOREM BuiltinsStay == Spec => []BuiltinsAvailable
<1>1. PostInv => BuiltinsAvailable
  <2> SUFFICES ASSUME PostInv PROVE BuiltinsAvailable
    OBVIOUS
  <2>1. RegInv
    BY DEF PostInv, ProcInv
  <2>2. \A i, j \in DOMAIN registry : registry[i].name = registry[j].name => i = j
    BY <2>1 DEF RegInv, Unique
  <2>3. NamesOf(registry) = Names
    BY DEF NamesOf, Names
  <2>4. \A i \in DOMAIN Builtins : Builtins[i].name \in BuiltinNames
    BY DEF Builtins, Entry, BuiltinNames
  <2> QED BY <2>1, <2>2, <2>3, <2>4 DEF RegInv, BuiltinsAvailable
<1> QED BY <1>1, PostInvariant, PTL

(* run_all reports on its list in order and to the end, or to the first    *)
(* failure with stop_on_error.                                             *)
THEOREM BatchesFollowLists == Spec => []BatchFollowsList
<1>1. PostInv => BatchFollowsList
  <2> SUFFICES ASSUME PostInv PROVE BatchFollowsList
    OBVIOUS
  <2>1. ListInv /\ batch.todo \in Seq(STRING) /\ batch.out \in Seq(RunResult)
    BY DEF PostInv, ProcInv, ProcTypes, BatchState
  <2>2. Len(batch.out) < Len(batch.names) => batch.todo # <<>>
    <3>1. Len(batch.out) \in Nat
      BY <2>1
    <3>2. Len(batch.out) + Len(batch.todo) = Len(batch.names)
      BY <2>1 DEF ListInv
    <3>3. ASSUME batch.todo = <<>>
          PROVE  ~ (Len(batch.out) < Len(batch.names))
      <4>1. Len(batch.todo) = 0
        BY <3>3
      <4>2. Len(batch.names) = Len(batch.out)
        BY <3>1, <3>2, <4>1
      <4> QED BY <3>1, <4>2
    <3> QED BY <3>3
  <2> QED BY <2>1, <2>2 DEF ListInv, BatchFollowsList
<1> QED BY <1>1, PostInvariant, PTL

(* What run_all reports as saved is what save_result has stored.           *)
THEOREM ReportsTrue == Spec => []ReportMatchesTable
<1>1. PostInv => ReportMatchesTable
  BY DEF PostInv, ProcInv
<1> QED BY <1>1, PostInvariant, PTL

(* No stored result misses an alert that was there when its batch began.   *)
THEOREM ResultsCurrent == Spec => []ResultsAreCurrent
<1>1. PostInv => ResultsAreCurrent
  BY DEF PostInv, ProcInv, ResultInv, Sound, ResultsAreCurrent
<1> QED BY <1>1, PostInvariant, PTL

(* The presets, the keyword arguments, the views and the shortcuts never   *)
(* disagree about a row.                                                   *)
THEOREM SelectionsConsistent == Spec => []SelectionsAgree
<1>1. PostInv => SelectionsAgree
  BY SelectionsOfTable DEF PostInv, TableInv
<1> QED BY <1>1, PostInvariant, PTL

(* What the minimoon processor saves is what the preset selects, less the  *)
(* alerts of low SNR.                                                      *)
THEOREM MinimoonDefinitionsAgree == Spec => []MinimoonProcessorAgrees
<1>1. PostInv => MinimoonProcessorAgrees
  <2> SUFFICES ASSUME PostInv, NEW n \in DOMAIN results,
                      results[n].kind = "minimoon"
               PROVE  LET r == results[n]
                          preset == {i \in r.input : Matches(MinimoonCandidates, Row(i))}
                      IN /\ r.records \subseteq preset
                         /\ \A i \in preset \ r.records :
                               Row(i).snr # None /\ Row(i).snr < 5
    BY DEF MinimoonProcessorAgrees
  <2> DEFINE r == results[n]
  <2>1. /\ r.input \subseteq Ids
        /\ r.records = {i \in r.input : KeepsMinimoon(i)}
        /\ \A i \in r.input : Row(i).sso = 1
    BY DEF PostInv, ProcInv, ResultInv, Sound, Records, Selected
  <2> HIDE DEF r
  <2>2. ASSUME NEW i \in Ids, Row(i).sso = 1
        PROVE  /\ Matches(MinimoonCandidates, Row(i))
                     <=> Row(i).ext # None /\ Row(i).ext \in 3 .. 7
               /\ Row(i).ext \in Nat \cup {None} /\ Row(i).snr \in Nat \cup {None}
    <3>1. Row(i) \in Observation
      <4>1. i \in 1 .. Len(Arrivals)
        BY DEF PostInv, TableInv, TableTypeOK, Ids
      <4> QED BY <4>1, ArrivalsAssumption DEF Row
    <3>2. Row(i).ext \in Nat \cup {None} /\ Row(i).snr \in Nat \cup {None}
      BY <3>1 DEF Observation, Column
    <3> QED BY <2>2, <3>1, <3>2, PresetsSelect
  <2>3. ASSUME NEW i \in r.input
        PROVE  /\ i \in r.records => Matches(MinimoonCandidates, Row(i))
               /\ i \notin r.records /\ Matches(MinimoonCandidates, Row(i))
                     => Row(i).snr # None /\ Row(i).snr < 5
    <3>1. /\ Matches(MinimoonCandidates, Row(i))
                <=> Row(i).ext # None /\ Row(i).ext \in 3 .. 7
          /\ Row(i).snr \in Nat \cup {None}
      BY <2>1, <2>2
    <3> QED BY <2>1, <3>1 DEF KeepsMinimoon
  <2> QED BY <2>1, <2>3 DEF r
<1> QED BY <1>1, PostInvariant, PTL
=============================================================================
