---------------------------- MODULE AdminRules ----------------------------
(***************************************************************************)
(* What administrator authorization decides from: the table that gives     *)
(* each management RPC its resource, action and scope                      *)
(* (controlplane/mgmt/authz.go), and the matcher of the admin enforcer     *)
(* (controlplane/adminauthz/enforcer.go).  Pure definitions, used by       *)
(* AdminAuthz and by the front ends in Console.                            *)
(***************************************************************************)
EXTENDS Naturals

(* One row of the rule table: isWrite marks the writes of an application's *)
(* policy, which a disabled application refuses.                           *)
Rule(res, act, isWrite, scope) ==
  [res |-> res, act |-> act, isWrite |-> isWrite, scope |-> scope]

(* The rule of a set of methods. *)
Row(rule, methods) == [rule |-> rule, methods |-> methods]

AppWriteRules ==
  {Row(Rule("role", "create", TRUE, "app"), {"CreateRole", "CreateBusinessRole"}),
   Row(Rule("role", "delete", TRUE, "app"), {"DeleteRole", "BatchDeleteRole"}),
   Row(Rule("template", "apply", TRUE, "app"), {"ApplyTemplate", "ApplyTenantTemplate"}),
   Row(Rule("permission", "update", TRUE, "app"), {"UpsertPermission"}),
   Row(Rule("grant", "create", TRUE, "app"), {"GrantPermission"}),
   Row(Rule("grant", "delete", TRUE, "app"), {"RevokePermission", "BatchRevokePermission"}),
   Row(Rule("inheritance", "create", TRUE, "app"), {"AddRoleInheritance"}),
   Row(Rule("inheritance", "delete", TRUE, "app"),
     {"RemoveRoleInheritance", "BatchRemoveRoleInheritance"}),
   Row(Rule("binding", "create", TRUE, "app"), {"BindUserRole"}),
   Row(Rule("binding", "delete", TRUE, "app"), {"UnbindUserRole", "BatchUnbindUserRole"}),
   Row(Rule("data_policy", "update", TRUE, "app"), {"UpsertDataPolicy"}),
   Row(Rule("data_policy", "delete", TRUE, "app"),
     {"DeleteDataPolicy", "BatchDeleteDataPolicy"}),
   Row(Rule("policy/import", "update", TRUE, "app"), {"ImportAppPolicy"})}

AppOtherRules ==
  {Row(Rule("application", "update", FALSE, "app"),
     {"SetApplicationStatus", "RotateApplicationSecret"}),
   Row(Rule("application", "read", FALSE, "app"), {"GetApplication"}),
   Row(Rule("template", "create", FALSE, "app"), {"SaveAppAsTemplate"}),
   Row(Rule("template", "read", FALSE, "app"), {"ListTemplates"}),
   Row(Rule("role", "read", FALSE, "app"), {"GetRoleGraph", "ListRoles"}),
   Row(Rule("permission", "read", FALSE, "app"), {"ListPermissions"}),
   Row(Rule("grant", "read", FALSE, "app"), {"ListGrants"}),
   Row(Rule("inheritance", "read", FALSE, "app"), {"ListRoleInheritances"}),
   Row(Rule("binding", "read", FALSE, "app"), {"ListUserBindings"}),
   Row(Rule("data_policy", "read", FALSE, "app"), {"ListDataPolicies"}),
   Row(Rule("effective_permission", "read", FALSE, "app"),
     {"GetEffectivePermissions", "ExplainDecision", "SimulateRoleChange",
      "PreviewDataFilter"}),
   Row(Rule("audit", "read", FALSE, "app"), {"QueryAuditLog"}),
   Row(Rule("policy/export", "read", FALSE, "app"), {"ExportAppPolicy"})}

TenantRules ==
  {Row(Rule("application", "create", FALSE, "tenant"), {"CreateApplication"}),
   Row(Rule("application", "read", FALSE, "tenant"), {"ListApplications", "GetTenantUsage"}),
   Row(Rule("member", "create", FALSE, "tenant"), {"InviteMember"}),
   Row(Rule("member", "read", FALSE, "tenant"), {"ListMembers"}),
   Row(Rule("template", "read", FALSE, "tenant"),
     {"ListTenantTemplates", "GetTenantTemplate"}),
   Row(Rule("template", "delete", FALSE, "tenant"), {"DeleteTenantTemplate"}),
   Row(Rule("sso", "update", FALSE, "tenant"), {"ConfigureTenantIdp"}),
   Row(Rule("sso", "read", FALSE, "tenant"), {"GetTenantIdp"}),
   Row(Rule("sso", "delete", FALSE, "tenant"), {"DeleteTenantIdp"}),
   Row(Rule("audit", "read", FALSE, "tenant"), {"QueryAdminAuditLog"})}

SystemRules ==
  {Row(Rule("admin", "create", FALSE, "system"), {"CreateOperator", "CreateAdminRole"}),
   Row(Rule("admin", "update", FALSE, "system"),
     {"SetOperatorStatus", "SetOperatorEmail", "ResetOperatorSecret", "GrantAdminRole",
      "BindOperatorRole", "RevokeAdminGrant", "UnbindOperatorRole"}),
   Row(Rule("admin", "read", FALSE, "system"), {"ListOperators", "ListAdminRoles"}),
   Row(Rule("billing", "update", FALSE, "system"), {"ChangeTenantPlan"})}

SelfRules == {Row(Rule("", "", FALSE, "self"), {"ListMyTenants"})}

RuleRows == AppWriteRules \cup AppOtherRules \cup TenantRules \cup SystemRules \cup SelfRules

Rules == {row.rule : row \in RuleRows}

(* Called without a principal and without a rule. *)
UnauthenticatedMethods == {"RegisterTenant"}

KnownMethods == UNION {row.methods : row \in RuleRows}

RuleTable == [m \in KnownMethods |-> (CHOOSE row \in RuleRows : m \in row.methods).rule]

-----------------------------------------------------------------------------

(* Casbin's g(s, t, d): t is s itself, whether or not s is bound to        *)
(* anything, or is reached from it over the rows of domain d, that is, it  *)
(* lies in every set that holds s and is closed under those rows.          *)
Leads(g, d, s, t) ==
  LET rows == {b \in g : b[3] = d}
  IN  \A S \in SUBSET ({s} \cup {b[2] : b \in rows}) :
        s \in S /\ (\A b \in rows : b[1] \in S => b[2] \in S) => t \in S

(* The matcher: operator sub, asking for action act on resource res in     *)
(* domain dom, whose tenant's domain is tdom, over the grant rows p (role, *)
(* dom, res, act) and the binding rows g (operator, role, dom).  A         *)
(* principal that is spelled like the code of a role matches the grants of *)
(* that role without any binding.                                          *)
Matches(p, g, sub, dom, tdom, res, act) ==
  LET Doms == {dom, tdom, "*"}
  IN  \E row \in p :
        /\ row.dom \in Doms
        /\ row.res \in {res, "*"}
        /\ row.act \in {act, "*"}
        /\ \E d \in Doms : Leads(g, d, sub, row.role)
=============================================================================
