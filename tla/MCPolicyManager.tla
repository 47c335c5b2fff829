--------------------------- MODULE MCPolicyManager ---------------------------
(***************************************************************************)
(* Small instances of PolicyManager for TLC.                               *)
(***************************************************************************)
EXTENDS PolicyManager, TLC

CONSTANTS r1, r2, r3, p1, p2, o1, o2, s1, w1, w2

MCDataBody == {[subject |-> r1, scope |-> s1], [subject |-> r2, scope |-> s1]}

(* A template with one permission point and one role that seeds a scope. *)
MCTemplate ==
  {[points |-> p1 :> o1,
    roles  |-> {[code |-> r1, perms |-> {p1},
                 scopes |-> {[subject |-> r1, scope |-> s1]}]}]}
=============================================================================
