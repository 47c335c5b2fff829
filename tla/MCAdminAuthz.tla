--------------------------- MODULE MCAdminAuthz ---------------------------
(* AdminAuthz for TLC: two tenants, two applications and replicas; a free  *)
(* plan that one application and two members fill, and one that allows a   *)
(* third member; an operator that is called like the platform's own role;  *)
(* a grant and a binding that can be revoked and come back, and a grant of *)
(* every domain that the role of a tenant gets by hand.                    *)
EXTENDS AdminAuthz, TLC

CONSTANTS root, o1, t1, t2, a1, a2, free, pro, r1, r2

MCOperators == {root, o1, SuperAdmin}
MCApplications == free :> 1 @@ pro :> 1
MCMembers == free :> 2 @@ pro :> 3

MCGrants == {<<TenantAdmin(t1), d, "*", "*">> : d \in {t1, "*"}}
MCBindings == {<<root, SuperAdmin, "*">>}

MCCalls ==
  {<<root, m, "*">> : m \in {"CreateOperator", "BindOperatorRole", "ChangeTenantPlan"}}
  \cup {<<o1, m, t1>> : m \in {"InviteMember", "CreateApplication"}}
  \cup {<<o1, m, a1>> : m \in {"CreateRole", "SetApplicationStatus"}}

Symmetry == Permutations({r1, r2})
=============================================================================
