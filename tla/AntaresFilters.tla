--------------------------- MODULE AntaresFilters ---------------------------
(***************************************************************************)
(* The filters that run at the ANTARES broker, of which the repository has *)
(* three, and what ANTARESSource makes of the same locus when it comes in: *)
(* two of the filters are copies, one returns a verdict and one tags; the  *)
(* third is wider.  They run once per alert that arrives at a locus, whose *)
(* tags stay.                                                              *)
(***************************************************************************)
EXTENDS Naturals, FiniteSets

CONSTANTS
    Values,      \* extendedness, in units of 0.25
    Times,       \* MJDs of reassociations and observations
    Absent,      \* a field that is None or missing
    BrokerTags   \* what else tags a locus

ASSUME FiltersAssumption ==
    Values \subseteq 0 .. 4 /\ Times \subseteq Nat \ {0} /\ Absent \notin Values \cup Times

VARIABLES
    alert,       \* the alert that has arrived, Absent in between
    tags         \* the tags of the locus

locusVars == <<alert, tags>>

Candidate == "extendedness_sso_candidate"

(* Its extendedness, the median being Absent if one of the three is, and   *)
(* the max left out, which passes every filter; ssObjectId and ssObject    *)
(* among the properties; the ssObject of the packet, which may be there    *)
(* and empty; the times of both; midPointTai, and the mjd.                 *)
Alerts ==
    [median : Values \cup {Absent}, low : Values,
     id : BOOLEAN, object : BOOLEAN, packet : {"no", "empty", "full"},
     propTime : Times \cup {Absent}, packetTime : Times \cup {Absent},
     tai : Times \cup {Absent}, mjd : Times]

LocusInit == alert = Absent /\ tags = {}

-----------------------------------------------------------------------------
(* _check_extendedness with a lower threshold, and the same test in run.   *)
PassesExtendedness(a, least) ==
    a.median # Absent /\ a.median >= least /\ a.low >= least

(* _check_sssource, the same in all three.                                 *)
HasSSSource(a, t) ==
    \/ a.id \/ a.object
    \/ a.packet # "no"
    \/ t \cap {"solar_system", "sso", "asteroid", "comet"} # {}

Within(x, y) == x # Absent /\ y # Absent /\ x <= y + 1 /\ y <= x + 1

(* A defect: an alert without SSSource passes as well.                     *)
VerdictWithoutSource(a, t) == PassesExtendedness(a, 1)

(* The filter that returns a verdict.                                      *)
Verdict(a, t) == PassesExtendedness(a, 1) /\ HasSSSource(a, t)

(* The one in src/: thresholds that let all values pass, or a recent       *)
(* reassociation, but no alert whose extendedness is missing.              *)
WideVerdict(a, t) ==
    LET time == IF ~ (a.id \/ a.object) /\ a.packet # "no" /\ a.propTime = Absent
                THEN IF a.packet = "full" THEN a.packetTime ELSE Absent
                ELSE a.propTime
    IN /\ a.median # Absent
       /\ HasSSSource(a, t)
       /\ PassesExtendedness(a, 0) \/ Within(time, a.tai)

(* An alert arrives, the filters have been run on it, somebody tags.       *)
Observe ==
    /\ alert = Absent
    /\ alert' \in Alerts
    /\ UNCHANGED tags

Handled ==
    /\ alert # Absent
    /\ alert' = Absent
    /\ UNCHANGED tags

Tag ==
    /\ \E t \in BrokerTags : tags' = tags \cup {t}
    /\ UNCHANGED alert

(* The filter that tags.                                                   *)
RunTagging ==
    /\ alert # Absent
    /\ PassesExtendedness(alert, 1) /\ HasSSSource(alert, tags)
    /\ tags' = tags \cup {Candidate}
    /\ UNCHANGED alert

LocusNext == Observe \/ Handled \/ Tag \/ RunTagging

-----------------------------------------------------------------------------
(* ANTARESSource._extract_ss_info and the reassociation test.              *)
Extracted(a, t) ==
    CASE a.id -> [has |-> TRUE, time |-> a.propTime]
      [] ~ a.id /\ a.packet = "full" -> [has |-> TRUE, time |-> a.packetTime]
      [] OTHER -> [has |-> t \cap {"solar_system", "sso", "asteroid", "comet",
                                   "neo", "mba"} # {}, time |-> Absent]

IsReassociation(a, t) ==
    Extracted(a, t).has
    /\ Within(Extracted(a, t).time, IF a.tai # Absent THEN a.tai ELSE a.mjd)

-----------------------------------------------------------------------------
LocusTypeOK == alert \in Alerts \cup {Absent} /\ tags \subseteq BrokerTags \cup {Candidate}

(* What the narrow filter passes the wide one passes too, and comes into   *)
(* the database as associated, unless its only sign of that is an ssObject *)
(* among the properties or an empty one in the packet.  What comes in as   *)
(* reassociated the wide filter has passed, if it has its extendedness.    *)
FiltersAgree ==
    alert # Absent =>
        LET narrow == Verdict(alert, tags)
        IN /\ narrow => WideVerdict(alert, tags)
           /\ narrow /\ ~ Extracted(alert, tags).has =>
                ~ alert.id /\ (alert.object \/ alert.packet = "empty")
           /\ IsReassociation(alert, tags) /\ alert.median # Absent =>
                WideVerdict(alert, tags)
=============================================================================
