------------------------------ MODULE AuditLog ------------------------------
(***************************************************************************)
(* What the database promises to the people who query it, whatever         *)
(* process wrote it and whichever processes died while writing: alerts_raw *)
(* is an append-only log in which no (alert_id, dia_source_id) appears     *)
(* twice, and processed_sources tracks the sources of that log: a source   *)
(* is known from the same instant its first alert is, no other source is   *)
(* ever known, and a source is forgotten only by the retention of tracking *)
(* state, which spares every source with an alert at or after its horizon. *)
(***************************************************************************)
EXTENDS AlertDatabase

CONSTANT Thresholds    \* the MJDs before which retention may forget

VARIABLES
    log,       \* the alerts of the audit trail
    known,     \* the sources with tracking state
    horizon    \* the latest threshold retention has used

Init ==
    /\ log = {}
    /\ known = {}
    /\ horizon = 0

(* A set of alerts joins the log at once, under keys that are all new.     *)
Append(new) ==
    /\ \A a \in new, b \in log \cup new : SameKey(a, b) => a = b
    /\ log' = log \cup new
    /\ known' = known \cup {SourceOf[a] : a \in new}
    /\ UNCHANGED horizon

(* A forgotten source of the log becomes known again.                      *)
Recall(s) ==
    /\ \E a \in log : SourceOf[a] = s
    /\ known' = known \cup {s}
    /\ UNCHANGED <<log, horizon>>

(* Retention with threshold t forgets sources without an alert at or after *)
(* the horizon this leaves.                                                *)
Forget(old, t) ==
    /\ horizon' = IF horizon < t THEN t ELSE horizon
    /\ \A a \in log : SourceOf[a] \in old => MjdOf[a] < horizon'
    /\ known' = known \ old
    /\ UNCHANGED log

Next ==
    \/ \E new \in SUBSET (Alerts \ log) : Append(new)
    \/ \E s \in Sources : Recall(s)
    \/ \E old \in SUBSET Sources, t \in Thresholds : Forget(old, t)

Spec == Init /\ [][Next]_<<log, known, horizon>>
=============================================================================
