----------------------------- MODULE PostIngest -----------------------------
(***************************************************************************)
(* The commands that run after ingestion, on one database: an analyst      *)
(* copying filters, the daily post-processing, and ingestion going on      *)
(* beside them.                                                            *)
(***************************************************************************)
EXTENDS FilterEngine, Processing

(* The post-processing is a process of its own.                            *)
ASSUME SeparateProcesses == Runner \notin Analysts

vars == <<tableVars, filterVars, procVars>>

Init == TableInit /\ FilterInit /\ ProcessingInit

Next ==
    \/ TableNext /\ UNCHANGED <<filterVars, procVars>>
    \/ FilterNext /\ UNCHANGED procVars
    \/ ProcessingNext /\ UNCHANGED filterVars

Spec == Init /\ [][Next]_vars

(* A process that is in a loop of its own goes on; nothing is assumed of   *)
(* the ingesting processes, least of all that they release the lock.       *)
FairSpec ==
    /\ Spec
    /\ \A p \in Analysts : WF_vars(CopyStep(p) /\ UNCHANGED procVars)
    /\ WF_vars(BatchStep /\ UNCHANGED filterVars)

-----------------------------------------------------------------------------
TypeOK == TableTypeOK /\ FilterTypeOK /\ ProcessingTypeOK

(* The three definitions of a minimoon candidate: what the processor saves *)
(* is among what the preset (and the view) selects, and of the alerts it   *)
(* saw it leaves out only those with a low SNR.                            *)
MinimoonProcessorAgrees ==
    \A n \in DOMAIN results :
        results[n].kind = "minimoon" =>
            LET r == results[n]
                preset == {i \in r.input : Matches(MinimoonCandidates, Row(i))}
            IN /\ r.records \subseteq preset
               /\ \A i \in preset \ r.records : Row(i).snr # None /\ Row(i).snr < 5

(* A copy ends and a batch ends, whoever holds the lock: by the timeout.   *)
CommandsEnd ==
    /\ \A p \in Analysts : copy[p].pc = "copying" ~> copy[p].pc # "copying"
    /\ Running ~> ~ Running
=============================================================================
