------------------------------ MODULE Cutouts ------------------------------
(***************************************************************************)
(* cutouts/processor.py: the stamps of an alert as files whose names are   *)
(* made of the source, the kind, and the second of writing, in directories *)
(* by night; and the removal of old files and empty directories beside it. *)
(***************************************************************************)
EXTENDS Naturals, Sequences, FiniteSets

CONSTANTS
    CutAlerts,   \* alerts: [source, night, stamps: kind -> "fits", "bad", or "none"]
    Kinds,       \* the kinds the configuration saves, in order
    Writers,     \* processes that extract cutouts
    Days,        \* age at which a file is removed, in the unit of the clock
    MaxClock,    \* bound
    Nowhere      \* no path, no directory list

ASSUME CutoutAssumption == Days \in Nat

VARIABLES
    clock,
    dirs,        \* directories of nights that exist
    files,       \* pairs of a path and [alert, mtime]
    job,         \* per writer, the alert in hand
    records,     \* history: alert, kind, and the path that was returned
    sweep,       \* the cleanup: directories left to look at, the empty one it found
    swept        \* history: a directory was removed

cutVars == <<clock, dirs, files, job, records, sweep, swept>>

NoJob == [alert |-> Nowhere, todo |-> <<>>, path |-> Nowhere]
NoSweep == [dirs |-> Nowhere, found |-> Nowhere]

CutoutInit ==
    /\ clock = 0 /\ dirs = {} /\ files = {}
    /\ job = [w \in Writers |-> NoJob]
    /\ records = {}
    /\ sweep = NoSweep /\ swept = FALSE

-----------------------------------------------------------------------------
(* A defect: the kind is not part of the name.                             *)
PathWithoutKind(a, k, second) ==
    [night |-> a.night, source |-> a.source, kind |-> "cutout", second |-> second]

(* _get_output_path                                                        *)
Path(a, k, second) ==
    [night |-> a.night, source |-> a.source, kind |-> k, second |-> second]

At(path) == {f \in files : f.path = path}

StartAlert(w, a) ==
    /\ job[w].todo = <<>>
    /\ \A r \in records : r.alert # a
    /\ \A v \in Writers : job[v].alert # a
    /\ job' = [job EXCEPT ![w] = [alert |-> a, path |-> Nowhere,
                 todo |-> SelectSeq(Kinds, LAMBDA k : a.stamps[k] # "none")]]
    /\ UNCHANGED <<clock, dirs, files, records, sweep, swept>>

(* The path is made, and its directory.                                    *)
MakeDirectory(w) ==
    /\ job[w].todo # <<>> /\ job[w].path = Nowhere
    /\ LET p == Path(job[w].alert, Head(job[w].todo), clock)
       IN /\ dirs' = dirs \cup {p.night}
          /\ job' = [job EXCEPT ![w].path = p]
    /\ UNCHANGED <<clock, files, records, sweep, swept>>

(* A defect: a file that is there is not overwritten.                      *)
ExtractNew(w) ==
    /\ job[w].todo # <<>> /\ job[w].path # Nowhere
    /\ LET a == job[w].alert
           k == Head(job[w].todo)
           p == job[w].path
           good == a.stamps[k] = "fits" /\ p.night \in dirs /\ At(p) = {}
       IN /\ files' = IF good
                      THEN files \cup {[path |-> p, alert |-> a, kind |-> k, mtime |-> clock]}
                      ELSE files
          /\ records' = records \cup
               {[alert |-> a, kind |-> k, path |-> IF good THEN p ELSE Nowhere]}
    /\ job' = [job EXCEPT ![w].path = Nowhere, ![w].todo = Tail(@)]
    /\ UNCHANGED <<clock, dirs, sweep, swept>>

(* _extract_cutout: bad data and a directory that is gone make it return   *)
(* False, and the path stays None; a file of the name is overwritten.      *)
Extract(w) ==
    /\ job[w].todo # <<>> /\ job[w].path # Nowhere
    /\ LET a == job[w].alert
           k == Head(job[w].todo)
           p == job[w].path
           good == a.stamps[k] = "fits" /\ p.night \in dirs
       IN /\ files' = IF good
                      THEN (files \ At(p)) \cup {[path |-> p, alert |-> a, kind |-> k, mtime |-> clock]}
                      ELSE files
          /\ records' = records \cup
               {[alert |-> a, kind |-> k, path |-> IF good THEN p ELSE Nowhere]}
    /\ job' = [job EXCEPT ![w].path = Nowhere, ![w].todo = Tail(@)]
    /\ UNCHANGED <<clock, dirs, sweep, swept>>

-----------------------------------------------------------------------------
(* cleanup_old_cutouts: old files, each one unlinked by itself.            *)
RemoveOldFile ==
    /\ sweep = NoSweep
    /\ \E f \in files : f.mtime + Days < clock /\ files' = files \ {f}
    /\ UNCHANGED <<clock, dirs, job, records, sweep, swept>>

(* Then the directories there are by now, one after another.               *)
ListDirectories ==
    /\ sweep = NoSweep
    /\ dirs # {}
    /\ sweep' = [sweep EXCEPT !.dirs = dirs]
    /\ UNCHANGED <<clock, dirs, files, job, records, swept>>

LookInside ==
    /\ sweep.dirs # Nowhere /\ sweep.found = Nowhere
    /\ \E d \in sweep.dirs :
         sweep' = IF \A f \in files : f.path.night # d
                  THEN [sweep EXCEPT !.found = d]
                  ELSE IF sweep.dirs = {d} THEN NoSweep
                       ELSE [sweep EXCEPT !.dirs = @ \ {d}]
    /\ UNCHANGED <<clock, dirs, files, job, records, swept>>

(* rmdir of a directory that was empty.  If a file has come in between it  *)
(* raises, and the cleanup ends there.                                     *)
RemoveDirectory ==
    /\ sweep.found # Nowhere
    /\ IF \E f \in files : f.path.night = sweep.found
       THEN sweep' = NoSweep /\ UNCHANGED <<dirs, swept>>
       ELSE /\ dirs' = dirs \ {sweep.found}
            /\ swept' = TRUE
            /\ sweep' = IF sweep.dirs = {sweep.found} THEN NoSweep
                        ELSE [dirs |-> sweep.dirs \ {sweep.found}, found |-> Nowhere]
    /\ UNCHANGED <<clock, files, job, records>>

Tick ==
    /\ clock < MaxClock
    /\ clock' = clock + 1
    /\ UNCHANGED <<dirs, files, job, records, sweep, swept>>

CutoutNext ==
    \/ \E w \in Writers :
         \/ \E a \in CutAlerts : StartAlert(w, a)
         \/ MakeDirectory(w) \/ Extract(w)
    \/ RemoveOldFile \/ ListDirectories \/ LookInside \/ RemoveDirectory
    \/ Tick

-----------------------------------------------------------------------------
(* A path that was returned leads to the stamp it was returned for, or to  *)
(* one of the same kind of a later alert of the same source and second, or *)
(* to nothing if it is old: writers side by side and the cleanup neither   *)
(* mix up nor remove anything else.                                        *)
PathsHold ==
    \A r \in records :
        r.path # Nowhere =>
            \/ \E f \in At(r.path) : f.alert.source = r.alert.source /\ f.kind = r.kind
            \/ At(r.path) = {} /\ r.path.second + Days < clock

(* A good stamp gets a path, unless the cleanup took its directory away    *)
(* between mkdir and write.                                                *)
GoodStampsSaved ==
    ~ swept => \A r \in records :
        (r.alert.stamps[r.kind] = "fits") = (r.path # Nowhere)
=============================================================================
