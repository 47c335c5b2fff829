------------------------------ MODULE MCEffPerm ------------------------------
(***************************************************************************)
(* Two users, one of them named like a role, two roles, two permissions    *)
(* that stand for one pair, a data policy of a role and a poisoned one of  *)
(* a user.                                                                 *)
(***************************************************************************)
EXTENDS EffPerm

CONSTANTS u1, r1, r2, p1, o1

D(type, subject, effect, bad) ==
  [type |-> type, subject |-> subject, resource |-> o1, effect |-> effect,
   cond |-> <<subject, effect>>, poisoned |-> bad]

MCDataPolicy == {D("role", r2, "allow", FALSE), D("user", u1, "deny", TRUE)}

MCTarget == [c \in Perm |-> p1]
=============================================================================
