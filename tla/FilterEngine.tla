---------------------------- MODULE FilterEngine ----------------------------
(***************************************************************************)
(* filter/engine.py and filter/presets.py: a filter configuration as the   *)
(* set of rows its SQL selects, the table saved_filters, and the copy of   *)
(* a filter's rows to alerts_filtered, which is one query followed by one  *)
(* transaction per row.                                                    *)
(*                                                                         *)
(* Numbers of the code are scaled: extendedness is in tenths.              *)
(***************************************************************************)
EXTENDS AlertTable, FiniteSetsExt

CONSTANTS
    Analysts,    \* the clients that use the FilterEngine
    Configs      \* the configurations they save and copy

ASSUME FilterAssumption == Analysts \subseteq Clients

VARIABLES
    saved,       \* saved_filters: name -> configuration, or None
    filtered,    \* alerts_filtered: pairs of raw_alert_id and filter_config_hash
    copy         \* per analyst, the copy_to_filtered in progress or the last one

filterVars == <<saved, filtered, copy>>

-----------------------------------------------------------------------------
(* FilterCondition.to_sql and what SQL makes of it.                        *)
Cond(f, o, v) == [field |-> f, op |-> o, value |-> v]
Between(f, lo, hi) == [field |-> f, op |-> "BETWEEN", value |-> <<lo, hi>>]

(* The comparison is true: neither false nor unknown, as it is for NULL    *)
(* on either side.  NOT IN () is true even of NULL.                        *)
IsTrue(c, row) ==
    LET x == row[c.field]
        known == x # None /\ c.value # None
    IN
    CASE c.op = "IS NULL"     -> x = None
      [] c.op = "IS NOT NULL" -> x # None
      [] c.op = "IN"          -> x # None /\ x \in c.value
      [] c.op = "NOT IN"      -> \/ c.value = {}
                                 \/ x # None /\ x \notin c.value /\ None \notin c.value
      [] c.op = "BETWEEN"     -> /\ x # None /\ None \notin {c.value[1], c.value[2]}
                                 /\ c.value[1] <= x /\ x <= c.value[2]
      [] c.op = "="           -> known /\ x = c.value
      [] c.op = "!="          -> known /\ x # c.value
      [] c.op = "<"           -> known /\ x < c.value
      [] c.op = "<="          -> known /\ x <= c.value
      [] c.op = ">"           -> known /\ x > c.value
      [] c.op = ">="          -> known /\ x >= c.value

(* FilterConfig; the conditions as a set.                                  *)
Filter(n, cs) == [name |-> n, conds |-> cs, combine |-> "AND",
                  order |-> "mjd", desc |-> TRUE, limit |-> None]

(* The WHERE clause of FilterConfig.to_sql: none without conditions.       *)
Matches(cfg, row) ==
    \/ cfg.conds = {}
    \/ cfg.combine = "AND" /\ \A c \in cfg.conds : IsTrue(c, row)
    \/ cfg.combine = "OR"  /\ \E c \in cfg.conds : IsTrue(c, row)

(* ORDER BY: NULL is smaller than every number.                            *)
Smaller(x, y) == IF x = None THEN y # None ELSE y # None /\ x < y
Ahead(cfg, i, j) ==
    IF cfg.desc THEN Smaller(Row(j)[cfg.order], Row(i)[cfg.order])
                ELSE Smaller(Row(i)[cfg.order], Row(j)[cfg.order])

(* LIMIT is left out for None and, as "if self.limit" is false, for 0.     *)
Limited(cfg, n) ==
    IF cfg.limit \in {None, 0} THEN n ELSE Min({cfg.limit, n})

(* The results SQL may return for the rows ids: the first ones in the      *)
(* order, which leaves ties open.                                          *)
Results(cfg, ids) ==
    LET all == {i \in ids : Matches(cfg, Row(i))}
    IN {r \in SUBSET all :
          /\ Cardinality(r) = Limited(cfg, Cardinality(all))
          /\ \A i \in r, j \in all \ r : ~ Ahead(cfg, j, i)}

-----------------------------------------------------------------------------
(* presets.py: the conditions, and the order a limit cuts.                 *)
By(cfg, f, d) == [cfg EXCEPT !.order = f, !.desc = d]

PointSources == By(Filter("point_sources",
    {Cond("ext", "<", 3), Cond("ext", "IS NOT NULL", None)}), "snr", TRUE)
ExtendedSources ==
    By(Filter("extended_sources", {Cond("ext", ">", 7)}), "ext", TRUE)
ExtendednessRange(lo, hi) ==
    By(Filter("extendedness_range", {Between("ext", lo, hi)}), "ext", FALSE)
SsoAlerts == Filter("sso_alerts", {Cond("sso", "=", 1)})
NonSso == Filter("non_sso", {Cond("sso", "=", 0)})
Reassociations == Filter("reassociations", {Cond("reassoc", "=", 1)})
HighSnr(m) == By(Filter("high_snr", {Cond("snr", ">=", m)}), "snr", TRUE)
RecentDays(from) == Filter("recent", {Cond("mjd", ">=", from)})
TimeWindow(lo, hi) == By(Filter("time_window", {Between("mjd", lo, hi)}), "mjd", FALSE)

(* A defect: a strict bound.                                               *)
MinimoonStrict == Filter("minimoon_candidates",
    {Cond("sso", "=", 1), Cond("ext", ">=", 3), Cond("ext", "<", 7)})

MinimoonCandidates == Filter("minimoon_candidates",
    {Cond("sso", "=", 1), Cond("ext", ">=", 3), Cond("ext", "<=", 7)})

(* FilterEngine.filter: its keyword arguments as a record.  One that is    *)
(* None adds no condition; the booleans become 0 and 1.                    *)
NoArguments == [extMin |-> None, extMax |-> None, snrMin |-> None, sso |-> None,
                reassoc |-> None, mjdMin |-> None, mjdMax |-> None]
QuickFilter(args) ==
    LET given(f, o, k) == IF args[k] = None THEN {} ELSE {Cond(f, o, args[k])}
    IN Filter("quick_filter",
         given("ext", ">=", "extMin") \cup given("ext", "<=", "extMax")
           \cup given("snr", ">=", "snrMin") \cup given("sso", "=", "sso")
           \cup given("reassoc", "=", "reassoc")
           \cup given("mjd", ">=", "mjdMin") \cup given("mjd", "<=", "mjdMax"))

(* The rows of the views of schema.py and of the statements of             *)
(* query/shortcuts.py.                                                     *)
ViewPointSources(ids) == {i \in ids : Row(i).ext # None /\ Row(i).ext < 3}
ViewExtendedSources(ids) == {i \in ids : Row(i).ext # None /\ Row(i).ext > 7}
ViewMinimoon(ids) ==
    {i \in ids : Row(i).sso = 1 /\ Row(i).ext # None /\ Row(i).ext \in 3 .. 7}
ViewSso(ids) == {i \in ids : Row(i).sso = 1}
ViewReassociations(ids) == {i \in ids : Row(i).reassoc = 1}
Recent(ids, from) == {i \in ids : Row(i).mjd >= from}
InTimeWindow(ids, lo, hi) == {i \in ids : Row(i).mjd \in lo .. hi}
AtLeastSnr(ids, m) == {i \in ids : Row(i).snr # None /\ Row(i).snr >= m}

-----------------------------------------------------------------------------
(* A defect: the rows are tagged with the filter's name only.              *)
HashOfName(cfg) == [cfg EXCEPT !.conds = {}, !.limit = None, !.combine = "AND"]

(* filter_config_hash stands for the whole configuration: an MD5 of its    *)
(* JSON with sorted keys, taken to be free of collisions.                  *)
Hash(cfg) == cfg

Idle == [pc |-> "idle", cfg |-> None, ids |-> {}, todo |-> {}, asked |-> 0]

FilterInit ==
    /\ saved = [n \in {c.name : c \in Configs} |-> None]
    /\ filtered = {}
    /\ copy = [p \in Analysts |-> Idle]

(* save_filter and delete_filter: one upsert, one delete.                  *)
SaveFilter(p, cfg) ==
    /\ created /\ copy[p].pc # "copying"
    /\ Command
    /\ saved[cfg.name] # cfg
    /\ Commits(p)
    /\ saved' = [saved EXCEPT ![cfg.name] = cfg]
    /\ UNCHANGED <<rows, busy, created, filtered, copy>>

DeleteFilter(p, n) ==
    /\ created /\ copy[p].pc # "copying"
    /\ Command
    /\ saved[n] # None
    /\ Commits(p)
    /\ saved' = [saved EXCEPT ![n] = None]
    /\ UNCHANGED <<rows, busy, created, filtered, copy>>

(* Either of them on a locked database.                                    *)
FilterWriteFails(p) ==
    /\ created /\ copy[p].pc # "copying"
    /\ Command
    /\ LockedOut(p)
    /\ copy' = [copy EXCEPT ![p] = [Idle EXCEPT !.pc = "failed"]]
    /\ UNCHANGED <<rows, busy, created, saved, filtered>>

(* copy_to_filtered up to the query.  Without rows it returns 0 before it  *)
(* writes anything.  The configuration is an argument: one in hand, or one *)
(* that load_filter returned, now or long ago, from whichever snapshot.    *)
CopyQuery(p, cfg) ==
    /\ created /\ copy[p].pc # "copying"
    /\ Command
    /\ \E r \in Results(cfg, Visible(p)) :
         copy' = [copy EXCEPT ![p] =
                    [pc    |-> IF r = {} THEN "returned" ELSE "copying",
                     cfg   |-> cfg, ids |-> r, todo |-> r,
                     asked |-> rows]]
    /\ Reads(p)
    /\ UNCHANGED <<rows, busy, created, saved, filtered>>

(* One INSERT OR IGNORE, with its commit, in the order of the query.       *)
CopyRow(p) ==
    /\ copy[p].pc = "copying"
    /\ \E i \in copy[p].todo :
        /\ \A j \in copy[p].todo : ~ Ahead(copy[p].cfg, j, i)
        /\ filtered' = filtered \cup {<<i, Hash(copy[p].cfg)>>}
        /\ copy' = [copy EXCEPT
                     ![p].todo = @ \ {i},
                     ![p].pc = IF copy[p].todo = {i} THEN "returned" ELSE @]
    /\ Commits(p)
    /\ UNCHANGED <<rows, busy, created, commands, saved>>

(* A defect: an INSERT that fails is skipped.                              *)
CopySkipsRow(p) ==
    /\ copy[p].pc = "copying"
    /\ LockedOut(p)
    /\ \E i \in copy[p].todo :
         copy' = [copy EXCEPT
                   ![p].todo = @ \ {i},
                   ![p].pc = IF copy[p].todo = {i} THEN "returned" ELSE @]
    /\ UNCHANGED <<rows, busy, created, commands, saved, filtered>>

(* A defect: no timeout, a busy database is waited for.                    *)
CopyFailsIfStale(p) ==
    /\ copy[p].pc = "copying"
    /\ conn[p].stale
    /\ LockedOut(p)
    /\ copy' = [copy EXCEPT ![p].pc = "failed"]
    /\ UNCHANGED <<rows, busy, created, commands, saved, filtered>>

(* The exception leaves copy_to_filtered; the rows copied so far stay.     *)
CopyFails(p) ==
    /\ copy[p].pc = "copying"
    /\ LockedOut(p)
    /\ copy' = [copy EXCEPT ![p].pc = "failed"]
    /\ UNCHANGED <<rows, busy, created, commands, saved, filtered>>

(* The analyst opens the database again after an exception.                *)
Reopen(p) ==
    /\ copy[p].pc = "failed"
    /\ Reconnects(p)
    /\ UNCHANGED <<rows, busy, created, commands, saved, filtered, copy>>

CopyStep(p) == CopyRow(p) \/ CopyFails(p)

FilterNext ==
    \E p \in Analysts :
        \/ \E c \in Configs : SaveFilter(p, c) \/ CopyQuery(p, c)
        \/ \E n \in DOMAIN saved : DeleteFilter(p, n)
        \/ FilterWriteFails(p) \/ CopyStep(p) \/ Reopen(p)

-----------------------------------------------------------------------------
FilterTypeOK ==
    /\ saved \in [{c.name : c \in Configs} -> Configs \cup {None}]
    /\ \A x \in filtered : x[1] \in Nat /\ x[2] \in {Hash(c) : c \in Configs}
    /\ \A p \in Analysts :
        /\ copy[p].pc \in {"idle", "copying", "returned", "failed"}
        /\ copy[p].cfg \in Configs \cup {None}
        /\ copy[p].todo \subseteq copy[p].ids
        /\ copy[p].asked \in Nat

(* Every row of alerts_filtered refers to a stored alert that satisfies    *)
(* every configuration with the row's hash, whoever copied it and whatever *)
(* was saved under the filter's name since.                                *)
FilteredMatches ==
    \A x \in filtered :
        /\ x[1] \in Ids
        /\ \A c \in Configs : Hash(c) = x[2] => Matches(c, Row(x[1]))

(* A copy that returned and found something has in the table whatever      *)
(* matched when it asked, up to the limit: no row was lost to a failure in *)
(* the middle, nor to a snapshot left over from an earlier failed command. *)
(* (A copy that finds nothing may have asked an old snapshot.)             *)
CopyCovers ==
    \A p \in Analysts :
        copy[p].pc = "returned" /\ copy[p].ids # {} =>
            LET c == copy[p].cfg
                there == {i \in 1 .. copy[p].asked : Matches(c, Row(i))}
            IN /\ \A i \in copy[p].ids : <<i, Hash(c)>> \in filtered
               /\ Cardinality(copy[p].ids) = Limited(c, Cardinality(there))
               /\ \A i \in copy[p].ids, j \in there \ copy[p].ids : ~ Ahead(c, j, i)

(* Presets, keyword filter, views and shortcuts select the same rows; the  *)
(* extendedness classes are disjoint and leave out only the unmeasured.    *)
(* It depends on the table only, so it is evaluated before any command.    *)
SelectionsAgree ==
    commands = 0 =>
    LET Of(cfg) == {i \in Ids : Matches(cfg, Row(i))}
        point == Of(PointSources)
        mid == Of(ExtendednessRange(3, 7))
        extended == Of(ExtendedSources)
        dates == {Row(i).mjd : i \in Ids}
    IN /\ Of(MinimoonCandidates) = ViewMinimoon(Ids)
       /\ Of(MinimoonCandidates) =
            Of(QuickFilter([NoArguments EXCEPT !.extMin = 3, !.extMax = 7, !.sso = 1]))
       /\ point = ViewPointSources(Ids) /\ extended = ViewExtendedSources(Ids)
       /\ Of(SsoAlerts) = ViewSso(Ids) /\ Of(NonSso) = Ids \ Of(SsoAlerts)
       /\ Of(Reassociations) = ViewReassociations(Ids)
       /\ \A d, e \in dates :
            /\ Of(RecentDays(d)) = Recent(Ids, d)
            /\ Of(TimeWindow(d, e)) = InTimeWindow(Ids, d, e)
            /\ Of(TimeWindow(d, e)) =
                 Of(QuickFilter([NoArguments EXCEPT !.mjdMin = d, !.mjdMax = e]))
       /\ \A i \in Ids : Row(i).snr # None =>
            Of(HighSnr(Row(i).snr)) = AtLeastSnr(Ids, Row(i).snr)
       /\ point \cap mid = {} /\ mid \cap extended = {} /\ point \cap extended = {}
       /\ point \cup mid \cup extended = {i \in Ids : Row(i).ext # None}
=============================================================================
