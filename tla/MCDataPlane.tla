----------------------------- MODULE MCDataPlane -----------------------------
(* One user with or without one role, a row field f and a tenant field t. *)
EXTENDS DataPlane

CONSTANTS u1, r1, x

MCField == {"f", "t"}
MCUser == {u1}

P(stype, sid, effect, cond) == [stype |-> stype, sid |-> sid, effect |-> effect, cond |-> cond]

Candidates == {
  P("role", r1, "allow", Leaf("EQ", "f", <<Var(x)>>)),
  P("user", u1, "", Node("OR", <<Leaf("IN", "f", <<Lit(0), Lit(Null)>>), Leaf("BETWEEN", "f", <<Lit(1), Var(x)>>)>>)),
  P("role", r1, "deny", Node("AND", <<Node("NOT", <<Leaf("GT", "f", <<Lit(1)>>)>>), Leaf("IS_NOT_NULL", "f", << >>)>>)),
  P("user", u1, "deny", Leaf("NOT_IN", "f", <<Lit(1), Var(x)>>)),
  P("role", r1, "deny", Node("NOT", << >>)),
  P("group", r1, "deny", Leaf("IS_NULL", "f", << >>)) }

MCSnapshots ==
  {[g |-> gs, policies |-> SetToSeq(ps)] :
     gs \in {{}, {<<u1, r1>>}}, ps \in {q \in SUBSET Candidates : Cardinality(q) <= 3}}

MCRows == {[f |-> f, t |-> t] : f \in {0, 1, 2, Null}, t \in {1, 2}}

MCAttrs == {[y \in {} |-> 0]} \cup {[y \in {x} |-> v] : v \in {2, Null, 5}}

MCBases == {[where |-> Node("AND", << >>), args |-> << >>],
            [where |-> Leaf("EQ", "t", <<Hole(1)>>), args |-> <<1>>]}
=============================================================================
