----------------------------- MODULE MCDagQueries -----------------------------
(***************************************************************************)
(* Instances of DagQueries for TLC.                                        *)
(***************************************************************************)
EXTENDS DagQueries, MCGraphs
===============================================================================
