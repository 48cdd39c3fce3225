----------------------------- MODULE Processing -----------------------------
(***************************************************************************)
(* processing/: the registry of post-processors in one Python process, the *)
(* built-in processors, and ProcessingRunner.run_all: per processor one    *)
(* query, the computation in memory, and one INSERT into                   *)
(* processing_results, on one connection.                                  *)
(***************************************************************************)
EXTENDS AlertTable, Integers, SequencesExt

CONSTANTS
    Runner,      \* the client that runs post-processing
    Plugins,     \* what the files of a plugin directory register
    Requests,    \* the arguments run_all is called with
    Now          \* the MJD of the present

(* What one decorated class registers: the name, which class it is, and    *)
(* the class attribute name, which its results carry.                      *)
ProcessorEntry == [name : STRING, kind : STRING, own : STRING]

ASSUME ProcessingAssumption ==
    /\ Runner \in Clients
    /\ Now \in Nat
    /\ Plugins \subseteq ProcessorEntry
    /\ Requests \subseteq [names : {None} \cup Seq(STRING), window : Nat,
                         save : BOOLEAN, stop : BOOLEAN]

VARIABLES
    registry,    \* _PROCESSORS in insertion order: pairs of a name and a class
    imported,    \* builtin is in sys.modules
    pristine,    \* history: nothing was unregistered since the import
    batch,       \* the run_all in progress, or the last one
    results      \* processing_results

procVars == <<registry, imported, pristine, batch, results>>
sessionVars == <<registry, imported, pristine>>

(* The built-in classes, in the order of their decorators.                 *)
Entry(n, k, own) == [name |-> n, kind |-> k, own |-> own]
Builtins == <<Entry("example", "example", "example"),
              Entry("minimoon_candidates", "minimoon", "minimoon_candidates"),
              Entry("source_summary", "summary", "source_summary"),
              Entry("reassociation_tracker", "reassoc", "reassociation_tracker")>>

(* True of any literals; stated for the provers, which do not know that a  *)
(* literal is a string.                                                    *)
ASSUME BuiltinsAssumption == \A i \in 1 .. 4 : Builtins[i] \in ProcessorEntry

(* get_processor *)
Names == {registry[i].name : i \in DOMAIN registry}
Lookup(n) == registry[CHOOSE i \in DOMAIN registry : registry[i].name = n]

(* register_processor: a known name keeps its place and takes the new      *)
(* class; a new one comes last.                                            *)
Register(reg, e) ==
    IF \E i \in DOMAIN reg : reg[i].name = e.name
    THEN [i \in DOMAIN reg |-> IF reg[i].name = e.name THEN e ELSE reg[i]]
    ELSE Append(reg, e)

(* The four decorators of builtin.py, one after the other.                 *)
BuiltinsOver(reg) ==
    Register(Register(Register(Register(reg,
        Builtins[1]), Builtins[2]), Builtins[3]), Builtins[4])

-----------------------------------------------------------------------------
(* get_query of each class: the rows of the window, the minimoon and       *)
(* reassociation classes with a condition more.                            *)
Selected(k, ids, window) ==
    {i \in ids :
        /\ Row(i).mjd + window >= Now /\ Row(i).mjd <= Now
        /\ k = "minimoon" => Row(i).sso = 1
        /\ k = "reassoc" => Row(i).reassoc = 1}

With(ids, c) == Cardinality({i \in ids : Row(i)[c] = 1})

(* A defect: the SNR is required.                                          *)
KeepsMeasured(i) ==
    /\ Row(i).ext # None /\ Row(i).ext \in 3 .. 7
    /\ Row(i).snr # None /\ Row(i).snr >= 5

(* MiniMoonCandidateProcessor.filter_condition. *)
KeepsMinimoon(i) ==
    /\ Row(i).ext # None /\ Row(i).ext \in 3 .. 7
    /\ Row(i).snr # None => Row(i).snr >= 5

(* The records of each class.  groupby leaves out NULL, aggregate groups   *)
(* of one.  The bitwise complement of a column of 0 and 1 is -1 and -2,    *)
(* and that is what the example class sums up as without_sso.              *)
Records(k, ids) ==
    CASE k = "example" ->
            {[total |-> Cardinality(ids), sso |-> With(ids, "sso"),
              notSso |-> 0 - Cardinality(ids) - With(ids, "sso")]}
      [] k = "minimoon" -> {i \in ids : KeepsMinimoon(i)}
      [] k = "summary" ->
            {r \in {[object |-> Row(i).object,
                     of |-> {j \in ids : Row(j).object = Row(i).object}] : i \in ids} :
                r.object # None /\ Cardinality(r.of) >= 2}
      [] k = "reassoc" ->
            {[source |-> Row(i).source,
              of |-> {j \in ids : Row(j).source = Row(i).source}] : i \in ids}
      [] OTHER -> ids

-----------------------------------------------------------------------------
NoBatch == [pc |-> "idle", names |-> <<>>, todo |-> <<>>, req |-> None,
            out |-> <<>>, input |-> {}, base |-> 0, asked |-> 0]

Running == batch.pc \in {"next", "save"}

ProcessingInit ==
    /\ registry = <<>> /\ imported = FALSE /\ pristine = TRUE
    /\ batch = NoBatch
    /\ results = <<>>

(* discover_processors executes a plugin file again on every call.         *)
Discover(e) ==
    /\ ~ Running
    /\ Command
    /\ registry' = Register(registry, e)
    /\ registry' # registry
    /\ UNCHANGED <<dbVars, imported, pristine, batch, results>>

(* unregister_processor and clear_registry.                                *)
Unregister(n) ==
    /\ ~ Running
    /\ Command
    /\ \E i \in DOMAIN registry :
          registry[i].name = n /\ registry' = RemoveAt(registry, i)
    /\ pristine' = FALSE
    /\ UNCHANGED <<dbVars, imported, batch, results>>

ClearRegistry ==
    /\ ~ Running
    /\ Command
    /\ registry # <<>>
    /\ registry' = <<>>
    /\ pristine' = ~ imported
    /\ UNCHANGED <<dbVars, imported, batch, results>>

(* A defect: the import is skipped when anything is registered.            *)
LoadUnlessRegistered ==
    IF imported \/ registry # <<>> THEN registry
    ELSE BuiltinsOver(registry)

(* load_builtin_processors: Python runs the module at the first import of  *)
(* the process and never again.                                            *)
LoadBuiltins == IF imported THEN registry ELSE BuiltinsOver(registry)

(* ProcessingRunner(storage).run_all(...); processors=None stands for      *)
(* whatever is registered now.                                             *)
StartBatch(req) ==
    /\ ~ Running
    /\ Command
    /\ registry' = LoadBuiltins
    /\ imported' = TRUE
    /\ pristine' = (pristine \/ ~ imported)
    /\ LET all == [i \in DOMAIN registry' |-> registry'[i].name]
           names == IF req.names = None THEN all ELSE req.names
       IN batch' = [NoBatch EXCEPT !.pc = IF names = <<>> THEN "done" ELSE "next",
                                   !.names = names, !.todo = names,
                                   !.req = req, !.base = Len(results),
                                   !.asked = rows]
    /\ UNCHANGED <<dbVars, results>>

(* A defect: the end of the list is not noticed.                           *)
ReturnedGoesOn(success, n) ==
    [batch EXCEPT
       !.out = Append(@, [name |-> Head(batch.todo), ok |-> success,
                          own |-> None, n |-> n]),
       !.todo = Tail(@),
       !.pc = IF ~ success /\ batch.req.stop THEN "done" ELSE "next"]

(* A defect: the loop breaks after the first result with stop_on_error.    *)
ReturnedBreaks(success, n) ==
    LET rest == Tail(batch.todo)
        own == IF success THEN Lookup(Head(batch.todo)).own ELSE None
    IN [batch EXCEPT
          !.out = Append(@, [name |-> Head(batch.todo), ok |-> success,
                             own |-> own, n |-> n]),
          !.todo = rest,
          !.input = {},
          !.pc = IF batch.req.stop \/ rest = <<>> THEN "done" ELSE "next"]

(* run returns for the processor at the head: its RunResult is appended,   *)
(* and the loop goes on or breaks.                                         *)
Returned(success, n) ==
    LET rest == Tail(batch.todo)
        stop == ~ success /\ batch.req.stop
        own == IF success THEN Lookup(Head(batch.todo)).own ELSE None
    IN [batch EXCEPT
          !.out = Append(@, [name |-> Head(batch.todo), ok |-> success,
                             own |-> own, n |-> n]),
          !.todo = rest,
          !.input = {},
          !.pc = IF stop \/ rest = <<>> THEN "done" ELSE "next"]

(* get_processor returns None.                                             *)
ProcessorNotFound ==
    /\ batch.pc = "next"
    /\ Head(batch.todo) \notin Names
    /\ batch' = Returned(FALSE, 0)
    /\ UNCHANGED <<tableVars, sessionVars, results>>

(* BaseProcessor.run: the query and the computation.  Too few rows or no   *)
(* records: success, and nothing is saved.                                 *)
Process ==
    /\ batch.pc = "next"
    /\ Head(batch.todo) \in Names
    /\ created
    /\ LET k == Lookup(Head(batch.todo)).kind
           ids == Selected(k, Visible(Runner), batch.req.window)
           records == IF ids = {} THEN {} ELSE Records(k, ids)
       IN batch' = IF records # {} /\ batch.req.save
                   THEN [batch EXCEPT !.pc = "save", !.input = ids]
                   ELSE Returned(TRUE, Cardinality(records))
    /\ Reads(Runner)
    /\ UNCHANGED <<rows, busy, created, commands, sessionVars, results>>

(* The query raises without a table, the process method of a plugin for    *)
(* any reason of its own.                                                  *)
ProcessRaises ==
    /\ batch.pc = "next"
    /\ Head(batch.todo) \in Names
    /\ \/ ~ created /\ UNCHANGED conn
       \/ /\ created
          /\ Lookup(Head(batch.todo)).kind = "plugin"
          /\ Selected("plugin", Visible(Runner), batch.req.window) # {}
          /\ Reads(Runner)
    /\ batch' = Returned(FALSE, 0)
    /\ UNCHANGED <<rows, busy, created, commands, sessionVars, results>>

(* save_result: one INSERT and its commit.                                 *)
SaveResult ==
    /\ batch.pc = "save"
    /\ Commits(Runner)
    /\ LET e == Lookup(Head(batch.todo))
           r == Records(e.kind, batch.input)
       IN /\ results' = Append(results,
                [name |-> e.own, kind |-> e.kind, window |-> batch.req.window,
                 input |-> batch.input, records |-> r, asked |-> batch.asked])
          /\ batch' = Returned(TRUE, Cardinality(r))
    /\ UNCHANGED <<rows, busy, created, commands, sessionVars>>

(* A defect: an error of save_result is logged and swallowed.              *)
SaveFailsQuietly ==
    /\ batch.pc = "save"
    /\ LockedOut(Runner)
    /\ batch' = Returned(TRUE, 1)
    /\ UNCHANGED <<rows, busy, created, commands, sessionVars, results>>

(* The exception of save_result makes the run a failure.                   *)
SaveFails ==
    /\ batch.pc = "save"
    /\ LockedOut(Runner)
    /\ batch' = Returned(FALSE, 0)
    /\ UNCHANGED <<rows, busy, created, commands, sessionVars, results>>

(* The process ends, or is killed: registry, connection and batch are gone. *)
ExitSession ==
    /\ registry # <<>>
    /\ registry' = <<>> /\ imported' = FALSE /\ pristine' = TRUE
    /\ batch' = NoBatch
    /\ conn' = [conn EXCEPT ![Runner] = Fresh]
    /\ UNCHANGED <<rows, busy, created, commands, results>>

BatchStep ==
    ProcessorNotFound \/ Process \/ ProcessRaises \/ SaveResult \/ SaveFails

ProcessingNext ==
    \/ \E e \in Plugins : Discover(e)
    \/ \E n \in Names : Unregister(n)
    \/ ClearRegistry
    \/ \E r \in Requests : StartBatch(r)
    \/ BatchStep \/ ExitSession

-----------------------------------------------------------------------------
ProcessingTypeOK ==
    /\ \A i \in DOMAIN registry : registry[i].name \in STRING
    /\ imported \in BOOLEAN /\ pristine \in BOOLEAN
    /\ batch.pc \in {"idle", "next", "save", "done"}
    /\ batch.input \subseteq Ids
    /\ Running => batch.todo # <<>>
    /\ \A i \in DOMAIN results : results[i].input \subseteq Ids

(* No name is registered twice, and a runner finds the built-in processors *)
(* unless something was unregistered after Python had imported them.       *)
BuiltinsAvailable ==
    /\ \A i, j \in DOMAIN registry : registry[i].name = registry[j].name => i = j
    /\ (imported /\ pristine) => \A i \in DOMAIN Builtins : Builtins[i].name \in Names

(* The results of a batch follow its list; after a failure it goes on,     *)
(* unless stop_on_error is set; it ends early for no other reason.         *)
BatchFollowsList ==
    /\ \A i \in DOMAIN batch.out : batch.out[i].name = batch.names[i]
    /\ Running /\ batch.req.stop => \A i \in DOMAIN batch.out : batch.out[i].ok
    /\ (batch.pc = "done" /\ Len(batch.out) < Len(batch.names)) =>
          (batch.req.stop /\ ~ Last(batch.out).ok)

(* What a batch reports is what is in the table: its rows are, one by one  *)
(* and in order, those of the processors reported successful with records. *)
ReportMatchesTable ==
    batch.req # None =>
        LET saved == {i \in DOMAIN batch.out :
                        batch.out[i].ok /\ batch.out[i].n > 0 /\ batch.req.save}
            stored == 1 .. Len(results) - batch.base
        IN \E report \in [stored -> saved] :
              /\ \A i, j \in stored : i < j => report[i] < report[j]
              /\ \A k \in saved : \E i \in stored : report[i] = k
              /\ \A i \in stored :
                    results[batch.base + i].name = batch.out[report[i]].own

(* A stored result has seen every alert of its window that was committed   *)
(* before its batch began.  A query may be answered from the snapshot that *)
(* a failed save of an earlier batch has left open; what was computed from *)
(* it is then never stored.  (A batch is no single snapshot: each          *)
(* processor queries by itself.)                                           *)
ResultsAreCurrent ==
    \A i \in DOMAIN results :
        LET r == results[i]
        IN Selected(r.kind, 1 .. r.asked, r.window) \subseteq r.input
=============================================================================
