----------------------------- MODULE MCConsole -----------------------------
(* Console for TLC: two ids, so that path and body may disagree, and one   *)
(* session that is created, logged out or expires under the request.       *)
EXTENDS Console, TLC

CONSTANTS a1, a2

Symmetry == Permutations({a1, a2})
=============================================================================
