---------------------------- MODULE MCDataTable ----------------------------
(***************************************************************************)
(* DataTable for TLC.  Resources and bodies are interchangeable: nothing   *)
(* but their equality is looked at.                                        *)
(***************************************************************************)
EXTENDS DataTable, TLC

Interchangeable == Permutations(Resource) \cup Permutations(Body)
=============================================================================
