--------------------------- MODULE SchemaCreation ---------------------------
(***************************************************************************)
(* SQLiteStorage.initialize: every command calls it first, and a file that *)
(* has no version yet gets the schema from whoever comes.  The scripts run *)
(* statement by statement, each committed on its own, and the version is   *)
(* written before the indexes, the views and the trigger are there.        *)
(***************************************************************************)
EXTENDS Naturals, Sequences, FiniteSets

CONSTANTS
    Creators,      \* processes that open the database
    MaxOpenings    \* bound: calls of initialize

ASSUME SchemaAssumption == MaxOpenings \in Nat

VARIABLES
    made,          \* the statements that have been committed
    opener,        \* per process: [pc, next], the statement it runs next
    openings,      \* calls of initialize so far
    cutOff         \* history: a creator died or was locked out in the middle

schemaVars == <<made, opener, openings, cutOff>>

(* TABLES_SQL, which ends with the version; INDEXES_SQL; VIEWS_SQL;        *)
(* TRIGGERS_SQL.                                                           *)
Scripts == <<"tables", "version", "indexes", "views", "trigger">>
Complete == {Scripts[k] : k \in DOMAIN Scripts}

Creating(p) == opener[p].pc = "creating"
Away == [pc |-> "away", next |-> 1]

SchemaInit ==
    /\ made = {}
    /\ opener = [p \in Creators |-> Away]
    /\ openings = 0
    /\ cutOff = FALSE

(* No version: create all of it.  Else nothing, there is one version.      *)
Initialize(p) ==
    /\ opener[p].pc = "away" /\ openings < MaxOpenings
    /\ opener' = [opener EXCEPT ![p].pc = IF "version" \in made THEN "ready" ELSE "creating"]
    /\ openings' = openings + 1
    /\ UNCHANGED <<made, cutOff>>

After(o) == IF o.next = Len(Scripts) THEN [o EXCEPT !.pc = "ready"]
            ELSE [o EXCEPT !.next = @ + 1]

(* A defect: a locked database is taken for a statement already done.      *)
RunScriptIfFree(p) ==
    /\ Creating(p)
    /\ \/ made' = made \cup {Scripts[opener[p].next]}
       \/ /\ \E q \in Creators \ {p} : Creating(q)
          /\ UNCHANGED made
    /\ opener' = [opener EXCEPT ![p] = After(@)]
    /\ UNCHANGED <<openings, cutOff>>

(* The next statement; all say IF NOT EXISTS or INSERT OR REPLACE.         *)
RunScript(p) ==
    /\ Creating(p)
    /\ made' = made \cup {Scripts[opener[p].next]}
    /\ opener' = [opener EXCEPT ![p] = After(@)]
    /\ UNCHANGED <<openings, cutOff>>

(* Killed, or "database is locked", which initialize lets through.         *)
CreatorFails(p) ==
    /\ Creating(p)
    /\ opener' = [opener EXCEPT ![p] = Away]
    /\ cutOff' = TRUE
    /\ UNCHANGED <<made, openings>>

Leave(p) ==
    /\ opener[p].pc = "ready"
    /\ opener' = [opener EXCEPT ![p] = Away]
    /\ UNCHANGED <<made, openings, cutOff>>

SchemaNext ==
    \E p \in Creators : Initialize(p) \/ RunScript(p) \/ CreatorFails(p) \/ Leave(p)

-----------------------------------------------------------------------------
SchemaTypeOK ==
    /\ made \subseteq Complete
    /\ opener \in [Creators -> [pc : {"away", "creating", "ready"}, next : DOMAIN Scripts]]
    /\ openings \in 0 .. MaxOpenings
    /\ cutOff \in BOOLEAN

(* A process that works on a schema without its views or its trigger does  *)
(* so only while another one is still creating it, or after a creator has  *)
(* been cut off; that gap nobody closes, as the version is there.          *)
SchemaComplete ==
    /\ ((\E p \in Creators : opener[p].pc = "ready") /\ made # Complete) =>
          "version" \in made /\ (cutOff \/ \E q \in Creators : Creating(q))
    /\ "trigger" \in made => Complete = made
=============================================================================
