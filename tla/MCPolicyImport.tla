--------------------------- MODULE MCPolicyImport ---------------------------
(***************************************************************************)
(* Objects and bodies are only compared for equality, so their names can   *)
(* be exchanged.  The top-level data policies about a role are about the   *)
(* one an operator created.                                                *)
(***************************************************************************)
EXTENDS PolicyImport, TLC

MCStrayRole == {"plain"} \X Key

MCSymmetry == Permutations(Object) \cup Permutations(Body)
=============================================================================
