----------------------------- MODULE Interfaces -----------------------------
(***************************************************************************)
(* What surrounds the database: the sources that feed it, the broker's     *)
(* filters in front of one of them, the creation of the schema, and the    *)
(* exports.  They meet only in the tables, of which each looks at a part   *)
(* that no other writes here, so that their steps commute; part says which *)
(* of them a behaviour looks at.                                           *)
(***************************************************************************)
EXTENDS AlertSources, AntaresFilters, SchemaCreation, Exports

VARIABLE part

vars == <<sourceVars, locusVars, schemaVars, exportVars, part>>

Init ==
    /\ SourcesInit /\ LocusInit /\ SchemaInit /\ ExportInit
    /\ part \in {"sources", "locus", "schema", "exports"}

Next ==
    /\ UNCHANGED part
    /\ \/ /\ part = "sources" /\ SourcesNext
          /\ UNCHANGED <<locusVars, schemaVars, exportVars>>
       \/ /\ part = "locus" /\ LocusNext
          /\ UNCHANGED <<sourceVars, schemaVars, exportVars>>
       \/ /\ part = "schema" /\ SchemaNext
          /\ UNCHANGED <<sourceVars, locusVars, exportVars>>
       \/ /\ part = "exports" /\ ExportNext
          /\ UNCHANGED <<sourceVars, locusVars, schemaVars>>

Spec == Init /\ [][Next]_vars

TypeOK == SourcesTypeOK /\ LocusTypeOK /\ SchemaTypeOK /\ ExportTypeOK
=============================================================================
