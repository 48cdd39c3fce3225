----------------------------- MODULE FileStores -----------------------------
(***************************************************************************)
(* The parts that keep their data in files: the CSV consumer, the CSV      *)
(* writers, and the cutouts.  They share no file, so their steps commute,  *)
(* and a behaviour that looks at one of them at a time shows all that an   *)
(* interleaving of them would; part says which one it looks at.            *)
(***************************************************************************)
EXTENDS LegacyConsumer, CsvWriters, Cutouts

VARIABLE part

storeVars == <<vars, csvVars, cutVars, part>>

StoreInit ==
    /\ Init /\ CsvInit /\ CutoutInit
    /\ part \in {"consumer", "writers", "cutouts"}

StoreNext ==
    /\ UNCHANGED part
    /\ \/ part = "consumer" /\ Next /\ UNCHANGED <<csvVars, cutVars>>
       \/ part = "writers" /\ CsvNext /\ UNCHANGED <<vars, cutVars>>
       \/ part = "cutouts" /\ CutoutNext /\ UNCHANGED <<vars, csvVars>>

StoreSpec == StoreInit /\ [][StoreNext]_storeVars
=============================================================================
