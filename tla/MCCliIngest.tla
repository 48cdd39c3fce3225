------------------------------ MODULE MCCliIngest ------------------------------
(***************************************************************************)
(* Values for the constants of CliIngest that a cfg cannot write.          *)
(***************************************************************************)
EXTENDS CliIngest, TLC

CONSTANTS p1, p2, a1, a2, a3, a4, a5, a6, s1, s2

(* a1 and a2 are two observations of source s1; a3 has the alert_id of a1  *)
(* but another source; a4 has the key of a1 with another payload; a5 is    *)
(* the second observation of source s2; a6 is malformed.                   *)
MCIdOf == a1 :> 1 @@ a2 :> 2 @@ a3 :> 1 @@ a4 :> 1 @@ a5 :> 3 @@ a6 :> 4
MCSourceOf ==
    a1 :> s1 @@ a2 :> s1 @@ a3 :> s2 @@ a4 :> s1 @@ a5 :> s2 @@ a6 :> s1
MCMjdOf == a1 :> 5 @@ a2 :> 3 @@ a3 :> 4 @@ a4 :> 6 @@ a5 :> 4 @@ a6 :> 1

(* A backfill with a batch that fails after its first row beside a daily   *)
(* ingest from Kafka; both have the key of a1.                             *)
TwoFeeds == p1 :> <<a1, a3, a2, a5>> @@ p2 :> <<a4, a6, a2>>
=============================================================================
