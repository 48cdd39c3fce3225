------------------------------ MODULE Exports ------------------------------
(***************************************************************************)
(* scripts/export_to_pumalink.py and export_to_thor.py, which write the    *)
(* same detections for two programs and share no code, and the CSV export  *)
(* of query/export.py that both can read instead of the database.  The     *)
(* database grows meanwhile.                                               *)
(*                                                                         *)
(* Errors of a position are in 1/100 arcsec; along a trail the one in Dec  *)
(* is some times as large.                                                 *)
(***************************************************************************)
EXTENDS OrderedSets, SequencesExt

CONSTANTS
    Table,        \* alerts_raw in the order of its id: [id, mjd, snr, stretch,
                  \* sso, copies], stretch being 1 if there is no trail, copies
                  \* its rows in alerts_filtered
    Listing,      \* the lines of a file of MPC80 or ADES observations:
                  \* [code, name, mjd, rmsRA, rmsDec]; code is Blank if there is
                  \* none, mjd is Blank if the line cannot be parsed
    Blank,
    KnownCodes,   \* the observatories in the ObsCodes file
    Options,      \* [sso, filtered, from, sigma]: --sso-only, --filtered-only,
                  \* --mjd-min or Blank, --default-xerr or --default-sigma
    Fwhm,         \* --psf-fwhm
    DefaultError, \* 0.2 arcsec
    Exact         \* 2^53, up to which a double has every integer

ASSUME ExportsAssumption ==
    /\ Fwhm \in Nat /\ DefaultError \in Nat /\ Exact \in Nat /\ Exact % 4 = 0
    /\ Table \in Seq([id : Nat, mjd : Nat, snr : Nat \cup {Blank}, stretch : Nat \ {0},
                      sso : {0, 1}, copies : Nat])
    /\ Len(Listing) \in Nat /\ DOMAIN Listing = 1 .. Len(Listing)
    /\ \A i \in DOMAIN Listing :
         Listing[i].mjd \in Nat \cup {Blank} /\ Listing[i].code # "option"
    /\ Blank \notin Nat \cup KnownCodes
    /\ \A opt \in Options : /\ opt.filtered \in BOOLEAN /\ opt.sigma \in Nat
                            /\ opt = [sso |-> opt.sso, filtered |-> opt.filtered,
                                      from |-> opt.from, sigma |-> opt.sigma]

VARIABLES
    stored,       \* the rows in the table
    exported,     \* the rows in the CSV, 0 if there is none
    files         \* per program the file: what it was made from, and its rows

exportVars == <<stored, exported, files>>

Programs == {"pumalink", "thor"}
NoFile == [from |-> "nothing", opt |-> Blank, seen |-> 0, rows |-> <<>>]

ExportInit ==
    /\ stored = 0 /\ exported = 0
    /\ files = [p \in Programs |-> NoFile]

-----------------------------------------------------------------------------
InWindow(mjd, opt) == opt.from = Blank \/ mjd >= opt.from
Wanted(r, opt) == (opt.sso => r.sso = 1) /\ InWindow(r.mjd, opt)

(* Positions by the time of what is there, those of one time as they come. *)
Sooner(mjd) ==
    {p \in (Nat \X Nat) \X (Nat \X Nat) :
        \/ mjd[p[1][1]] < mjd[p[2][1]]
        \/ mjd[p[1][1]] = mjd[p[2][1]] /\ p \in Earlier}
ByTime(S, mjd) == InOrder(S, Sooner(mjd))

(* The join with alerts_filtered has a row for each filter that took it.   *)
JoinedRows(n, opt) ==
    UNION {{i} \X (1 .. IF opt.filtered THEN Table[i].copies ELSE 1) :
             i \in {j \in 1 .. n : Wanted(Table[j], opt)}}
Selected(n, opt) == ByTime(JoinedRows(n, opt), [i \in DOMAIN Table |-> Table[i].mjd])

(* An integer written as a double and read back: ties to even.             *)
AsDouble(n) == IF n <= Exact THEN n
               ELSE CASE n % 4 = 1 -> n - 1 [] n % 4 = 3 -> n + 1 [] OTHER -> n

(* _estimate_xerr, _estimate_pos_sigma_arcsec.                             *)
Estimated(snr, default) == IF snr = Blank \/ snr = 0 THEN default ELSE Fwhm \div snr

(* A defect: the option is not given to the estimates.                     *)
PumalinkErrorsFixed(r, opt) ==
    LET e == Estimated(r.snr, DefaultError) IN [ra |-> e, dec |-> e * r.stretch]

(* Pumalink's option replaces the default before anything is estimated.    *)
PumalinkErrors(r, opt) ==
    LET e == Estimated(r.snr, opt.sigma) IN [ra |-> e, dec |-> e * r.stretch]

(* THOR's replaces, when all is read, what is equal to the default, each   *)
(* error for itself.                                                       *)
Replaced(e, opt) == IF e = DefaultError THEN opt.sigma ELSE e

ThorErrors(r, opt) ==
    LET e == Estimated(r.snr, DefaultError)
    IN [ra |-> Replaced(e, opt), dec |-> Replaced(e * r.stretch, opt)]

(* What its errors come from, which is not written: measured, or the       *)
(* default, or that one stretched.                                         *)
Origins(measured, stretched) ==
    [ra |-> IF measured THEN "measured" ELSE "default",
     dec |-> IF measured THEN "measured" ELSE IF stretched THEN "stretched" ELSE "default"]

OriginsOfRow(r) == Origins(r.snr \notin {Blank, 0}, r.stretch # 1)

Detection(id, mjd, site, origins, errors) ==
    [id |-> id, mjd |-> mjd, site |-> site, origins |-> origins, errors |-> errors]

(* read_from_sqlite.                                                       *)
PumalinkDb(n, opt) ==
    LET rows == Selected(n, opt)
    IN [j \in DOMAIN rows |->
          LET r == Table[rows[j][1]]
          IN Detection(r.id, r.mjd, "option", OriginsOfRow(r), PumalinkErrors(r, opt))]

ThorDb(n, opt) ==
    LET rows == Selected(n, opt)
    IN [j \in DOMAIN rows |->
          LET r == Table[rows[j][1]]
          IN Detection(r.id, r.mjd, "option", OriginsOfRow(r), ThorErrors(r, opt))]

(* read_from_csv: THOR reads an id as a float.  It says nothing if told to *)
(* leave out what no filter took, which a CSV does not have.               *)
PumalinkCsv(n, opt) == PumalinkDb(n, opt)

ThorCsv(n, opt) ==
    LET rows == ThorDb(n, [opt EXCEPT !.filtered = FALSE])
    IN [j \in DOMAIN rows |-> [rows[j] EXCEPT !.id = AsDouble(@)]]

(* read_mpc80, read_ades_psv.  An observation without a name is numbered   *)
(* by its place among those that are kept, and one without both errors has *)
(* the default twice.  MPC80 has neither names nor errors.                 *)
Kept(codes, opt) ==
    {i \in DOMAIN Listing : /\ Listing[i].code \in codes /\ Listing[i].mjd # Blank
                            /\ InWindow(Listing[i].mjd, opt)}

Codes == {Listing[i].code : i \in DOMAIN Listing} \ {Blank}
Rms == {Listing[i].rmsRA : i \in DOMAIN Listing}
       \cup {Listing[i].rmsDec : i \in DOMAIN Listing} \cup {Blank}

Observation(i, kept, format, error) ==
    LET o == Listing[i]
        measured == format = "ades" /\ o.rmsRA # Blank /\ o.rmsDec # Blank
        number == Cardinality({k \in kept : k <= i})
    IN Detection(IF format = "ades" /\ o.name # Blank THEN o.name ELSE number,
                 o.mjd, o.code, Origins(measured, FALSE),
                 [ra |-> error[IF measured THEN o.rmsRA ELSE Blank],
                  dec |-> error[IF measured THEN o.rmsDec ELSE Blank]])

Numbered(kept, format, error) ==
    LET order == ByTime(kept \X {1}, [i \in DOMAIN Listing |-> Listing[i].mjd])
    IN [n \in DOMAIN order |-> Observation(order[n][1], kept, format, error)]

(* Pumalink needs the coordinates of the site and skips what is unknown.   *)
PumalinkListing(format, opt) ==
    Numbered(Kept(KnownCodes, opt), format,
             [rms \in Rms |-> IF rms = Blank THEN opt.sigma ELSE rms])

ThorListing(format, opt) ==
    Numbered(Kept(Codes, opt), format,
             [rms \in Rms |-> Replaced(IF rms = Blank THEN DefaultError ELSE rms, opt)])

-----------------------------------------------------------------------------
Inputs == {"db", "mpc80", "ades"} \cup (IF exported = 0 THEN {} ELSE {"csv"})

(* The rows of the table that an input has, if it has any.                 *)
Seen(from) == CASE from = "db" -> stored [] from = "csv" -> exported [] OTHER -> 0

PumalinkRows(from, opt, n) ==
    CASE from = "db" -> PumalinkDb(n, opt)
      [] from = "csv" -> PumalinkCsv(n, opt)
      [] OTHER -> PumalinkListing(from, opt)

ThorRows(from, opt, n) ==
    CASE from = "db" -> ThorDb(n, opt)
      [] from = "csv" -> ThorCsv(n, opt)
      [] OTHER -> ThorListing(from, opt)

(* Bound: nothing more is stored once a file is there, which no later row  *)
(* changes.                                                                *)
Store ==
    /\ stored < Len(Table) /\ \A p \in Programs : files[p] = NoFile
    /\ stored' = stored + 1
    /\ UNCHANGED <<exported, files>>

(* export_query of the alerts: the file is replaced.                       *)
ExportCsv ==
    /\ stored > 0
    /\ exported' = stored
    /\ UNCHANGED <<stored, files>>

Written(program, from, opt, rows) ==
    /\ files' = [files EXCEPT ![program] =
                    [from |-> from, opt |-> opt, seen |-> Seen(from), rows |-> rows]]
    /\ UNCHANGED <<stored, exported>>

(* Nothing is written when nothing was found; a file of before stays.      *)
ExportToPumalink(from, opt) ==
    LET rows == PumalinkRows(from, opt, Seen(from))
    IN /\ ~ (from = "csv" /\ opt.filtered)
       /\ rows # <<>>
       /\ Written("pumalink", from, opt, rows)

ExportToThor(from, opt) ==
    Written("thor", from, opt, ThorRows(from, opt, Seen(from)))

ExportNext ==
    \/ Store \/ ExportCsv
    \/ \E from \in Inputs, opt \in Options :
          ExportToPumalink(from, opt) \/ ExportToThor(from, opt)

-----------------------------------------------------------------------------
ExportTypeOK ==
    /\ stored \in 0 .. Len(Table) /\ exported \in 0 .. stored
    /\ \A p \in Programs : files[p].from \in Inputs \cup {"nothing"}
                           /\ files[p].opt \in Options \cup {Blank}

(* An error of which THOR cannot tell any more whether it is the default:  *)
(* a measured one that equals it, and a default that has been stretched.   *)
Untold(d, c) == \/ d.origins[c] = "measured" /\ d.errors[c] = DefaultError
                \/ d.origins[c] = "stretched"

SameErrors(d, e, opt) ==
    opt.sigma = DefaultError
        \/ \A c \in {"ra", "dec"} : d.errors[c] = e.errors[c] \/ Untold(d, c)

(* Lines whose site pumalink knows, or that come from the table.           *)
Known(rows) ==
    Picked(rows, {j \in DOMAIN rows : rows[j].site \in KnownCodes \cup {"option"}})

(* The same detections in the same order, with the same errors, except for *)
(* errors THOR cannot tell, ids too long for a double in a CSV, and        *)
(* unknown sites, after which numbered ids go apart.                       *)
SameDetections(rows, others, from, opt) ==
    /\ Len(rows) = Len(Known(others))
    /\ \A j \in DOMAIN rows :
          LET d == rows[j]
              e == Known(others)[j]
          IN /\ d.mjd = e.mjd /\ d.site = e.site
             /\ SameErrors(d, e, opt)
             /\ d.id = e.id \/ Known(others) # others \/ (from = "csv" /\ d.id > Exact)

(* Files of both programs made from the same input with the same options   *)
(* have the same detections.                                               *)
ExportsAgree ==
    LET p == files["pumalink"]
        t == files["thor"]
    IN p.from = t.from /\ p.opt = t.opt /\ p.seen = t.seen =>
          SameDetections(p.rows, t.rows, p.from, p.opt)
=============================================================================
