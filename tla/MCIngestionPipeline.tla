------------------------- MODULE MCIngestionPipeline -------------------------
(***************************************************************************)
(* Values for the constants of IngestionPipeline that a cfg cannot write.  *)
(***************************************************************************)
EXTENDS IngestionPipeline, TLC

CONSTANTS p1, p2, a1, a2, a3, a4, a5, s1, s2

(* a1 and a2 are two observations of source s1, a2 the earlier one; a3 has *)
(* the alert_id of a1 but another source; a4 has the key of a1 with another *)
(* payload; a5 is an alert with nothing in common with them but its source. *)
MCIdOf == a1 :> 1 @@ a2 :> 2 @@ a3 :> 1 @@ a4 :> 1 @@ a5 :> 3
MCSourceOf == a1 :> s1 @@ a2 :> s1 @@ a3 :> s2 @@ a4 :> s1 @@ a5 :> s2
MCMjdOf == a1 :> 5 @@ a2 :> 3 @@ a3 :> 4 @@ a4 :> 6 @@ a5 :> 4

Options_(sizes, limits, dups, tracks, dries) ==
    [batch_size : sizes, max_alerts : limits, skip_duplicates : dups,
     track_state : tracks, dry_run : dries]

DefaultOptions == Options_({2}, {None}, {TRUE}, {TRUE}, {FALSE})

(* A file process and a Kafka process that race for a key (a1 and a4) and  *)
(* for an alert (a2), with two batches each, limited so that both complete. *)
TwoFeeds == p1 :> <<a2, a5, a4>> @@ p2 :> <<a1, a3, a2>>
LimitedOptions == Options_({2}, {3}, {TRUE}, {TRUE}, {FALSE})

(* One file: an out-of-order observation, an alert twice, an alert_id      *)
(* shared by two sources, and a key that comes back with other values.     *)
LongFeed == p1 :> <<a1, a2, a1, a3, a4>>

(* One file for every combination of options: a malformed record, a shared *)
(* alert_id, a new alert that may be the remainder, and one that cannot be *)
(* stored.                                                                 *)
OptionsFeed == p1 :> <<a1, a5, a3, a2, a4>>
AllOptions ==
    Options_({1, 2, 3}, {None, 3}, BOOLEAN, BOOLEAN, BOOLEAN)

(* A writer that never needs a second batch beside one that does.          *)
LockFeeds == p1 :> <<a1>> @@ p2 :> <<a2, a3, a1>>

(* One Kafka topic and restarts.                                           *)
KafkaFeed == p1 :> <<a1, a2, a3>>
=============================================================================
