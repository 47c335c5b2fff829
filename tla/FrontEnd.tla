----------------------------- MODULE FrontEnd -----------------------------
(***************************************************************************)
(* The handlers of the three front ends of the management service: the     *)
(* web console (controlplane/console/routes_*.go), the REST gateway        *)
(* (controlplane/restgw/routes*.go) and the gRPC server.  A handler is the *)
(* sequence of its stages, each with the RPC it names: what it asks        *)
(* AuthorizeRule for and what it calls on the server are two separate      *)
(* mentions in the code, and here too.  The handlers keep the names of     *)
(* their functions.  Pure definitions, used by Console.                    *)
(***************************************************************************)
EXTENDS AdminRules, Sequences

Do(stage) == [do |-> stage, rpc |-> ""]
Of(stage, rpc) == [do |-> stage, rpc |-> rpc]

Session == <<Do("session")>>
Csrf == <<Do("session"), Do("csrf")>>
(* Mutant: the confirmation checks the token only. *)
ConfirmTokenOnly(rpc) == Csrf

Confirm(rpc) == Csrf \o <<Of("confirm", rpc)>>

(* A read, and one whose failure the page survives. *)
Ask(rpc, call) == <<Of("authz", rpc), Of("call", call)>>
Try(rpc, call) == <<Of("try", rpc), Of("call", call)>>

(* Mutant: the status is looked up first. *)
DoWriteStatusFirst(rpc, invoke) ==
  Csrf \o <<Of("status", rpc), Of("authz", rpc), Of("call", invoke), Do("flash")>>

(* doWrite: fullMethod is authorized and checked, invoke is called; what   *)
(* its decode function reads from the database comes before both.          *)
Write(rpc, invoke) ==
  <<Of("authz", rpc), Of("status", rpc), Of("call", invoke), Do("flash")>>
DoWrite(rpc, invoke) == Csrf \o Write(rpc, invoke)

(* The handlers that show what the call returns once, and set no flash. *)
Show(rpc, call) == Csrf \o Ask(rpc, call)
(* Mutant: a pipeline of its own that forgets the status. *)
ApplyUnchecked(rpc, call) == Csrf \o Ask(rpc, call)

Apply(rpc, call) == Csrf \o <<Of("authz", rpc), Of("status", rpc), Of("call", call)>>

-----------------------------------------------------------------------------
(* The console: reads that several handlers share. *)

(* tenantOfApp: the tenant of the application in the path, read from its   *)
(* row; the page that survives its failure goes on without the attempt     *)
(* that follows.                                                           *)
TenantOfApp == <<Do("lookup")>>
TryTenantOfApp == <<Do("peek")>>

TenantUsage == Try("GetTenantUsage", "GetTenantUsage")
PermNameMap == Ask("ListPermissions", "ListPermissions")
RoleNameMap == Ask("ListRoles", "ListRoles")
DataScopeNotes == Try("ListDataPolicies", "ListDataPolicies")
AppHasNoBizRoles == Try("ListRoles", "ListRoles")

(* The handlers of the console. *)

Route(name, stages) == [name |-> name, stages |-> stages]

(* setAppStatus, by what its form says: the gate compares the text of the  *)
(* field in the body with "2", the message gets the number that the field, *)
(* of the body or else of the query, reads as.                             *)
StatusForms ==
  {[name |-> "setAppStatusOn", text |-> "1", status |-> 1],
   [name |-> "setAppStatusOff", text |-> "2", status |-> 2],
   [name |-> "setAppStatusOffSpelled", text |-> "02", status |-> 2]}

SetAppStatus(text) ==
  IF text = "2"
  THEN Confirm("SetApplicationStatus") \o DoWrite("SetApplicationStatus", "SetApplicationStatus")
  ELSE DoWrite("SetApplicationStatus", "SetApplicationStatus")

StatusRoutes == {Route(f.name, SetAppStatus(f.text)) : f \in StatusForms}

HomeRoutes ==
  {Route("appNewForm", Session),
   Route("createApp", Show("CreateApplication", "CreateApplication")),
   Route("appRedirect", Session)}

HomePages ==
  {Route("rotateAppSecret", Confirm("RotateApplicationSecret")
                         \o Show("RotateApplicationSecret", "RotateApplicationSecret")),
   Route("dashboard", Session \o <<Of("self", "ListMyTenants"), Of("call", "ListMyTenants")>>
                   \o Ask("ListApplications", "ListApplications") \o TenantUsage)}

RoleRoutes ==
  {Route("listRoles", Session \o Ask("ListRoles", "ListRoles")),
   Route("createRole", DoWrite("CreateRole", "CreateRole")),
   Route("deleteRole", Confirm("DeleteRole") \o DoWrite("DeleteRole", "DeleteRole"))}

PermissionRoutes ==
  {Route("listPermissions", Session \o Ask("ListPermissions", "ListPermissions")),
   Route("upsertPermission", DoWrite("UpsertPermission", "UpsertPermission"))}

GrantRoutes ==
  {Route("listGrants", Session \o Ask("ListGrants", "ListGrants")),
   Route("grantPermission", DoWrite("GrantPermission", "GrantPermission")),
   Route("revokePermission", DoWrite("RevokePermission", "RevokePermission"))}

InheritanceRoutes ==
  {Route("listInheritances", Session \o Ask("ListRoleInheritances", "ListRoleInheritances")),
   Route("addInheritance", DoWrite("AddRoleInheritance", "AddRoleInheritance")),
   Route("removeInheritance", Confirm("RemoveRoleInheritance")
                           \o DoWrite("RemoveRoleInheritance", "RemoveRoleInheritance"))}

BindingRoutes ==
  {Route("listBindings", Session \o Ask("ListUserBindings", "ListUserBindings")),
   Route("bindUser", DoWrite("BindUserRole", "BindUserRole")),
   Route("unbindUser", DoWrite("UnbindUserRole", "UnbindUserRole"))}

BatchRoutes ==
  {Route("batchDeleteRole", Confirm("BatchDeleteRole")
                         \o DoWrite("BatchDeleteRole", "BatchDeleteRole")),
   Route("batchRevokePermission", Confirm("BatchRevokePermission")
                         \o DoWrite("BatchRevokePermission", "BatchRevokePermission")),
   Route("batchRemoveInheritance", Confirm("BatchRemoveRoleInheritance")
                         \o DoWrite("BatchRemoveRoleInheritance", "BatchRemoveRoleInheritance")),
   Route("batchUnbindUser", Confirm("BatchUnbindUserRole")
                         \o DoWrite("BatchUnbindUserRole", "BatchUnbindUserRole"))}

EffectiveRoutes ==
  {Route("effectivePermissions", Session \o Ask("ListRoles", "ListRoles")
                              \o Ask("ListUserBindings", "ListUserBindings")
                              \o Ask("GetEffectivePermissions", "GetEffectivePermissions")),
   Route("bindUserOnEffective", DoWrite("BindUserRole", "BindUserRole")),
   Route("unbindUserOnEffective", DoWrite("UnbindUserRole", "UnbindUserRole"))}

DecisionRoutes ==
  {Route("decisionExplainer", Session \o Ask("ExplainDecision", "ExplainDecision"))}

DataPolicyRoutes ==
  {Route("listDataPolicies", Session \o Ask("ListDataPolicies", "ListDataPolicies")),
   Route("upsertDataPolicy", DoWrite("UpsertDataPolicy", "UpsertDataPolicy")),
   Route("deleteDataPolicy", Confirm("DeleteDataPolicy")
                          \o DoWrite("DeleteDataPolicy", "DeleteDataPolicy")),
   Route("batchDeleteDataPolicy", Confirm("BatchDeleteDataPolicy")
                          \o DoWrite("BatchDeleteDataPolicy", "BatchDeleteDataPolicy")),
   Route("previewCondition", Csrf)}

(* The import has no confirmation page of its own: without the confirmed   *)
(* field it is a dry run, whose diff is the page that asks.                *)
PolicyCodeRoutes ==
  {Route("policyCodePage", Session),
   Route("exportPolicyCode", Session \o Ask("ExportAppPolicy", "ExportAppPolicy")),
   Route("importPolicyCode", Csrf \o <<Of("authz", "ImportAppPolicy"),
                                   Of("status", "ImportAppPolicy"),
                                   Of("dry", "ImportAppPolicy"),
                                   Of("call", "ImportAppPolicy"), Do("flash")>>)}

SandboxRoutes == {Route("dataSandbox", Session \o Ask("PreviewDataFilter", "PreviewDataFilter"))}
DeveloperRoutes == {Route("developer", Session \o Ask("GetApplication", "GetApplication"))}
AuditRoutes ==
  {Route("appAudit", Session \o Ask("QueryAuditLog", "QueryAuditLog")),
   Route("adminAudit", Session \o Ask("QueryAdminAuditLog", "QueryAdminAuditLog"))}
UsageRoutes == {Route("usage", Session \o Ask("GetTenantUsage", "GetTenantUsage"))}

OperatorRoutes ==
  {Route("listOperators", Session \o Ask("ListOperators", "ListOperators")),
   Route("operatorNewForm", Session),
   Route("createOperator", Show("CreateOperator", "CreateOperator")),
   Route("setOperatorStatus", DoWrite("SetOperatorStatus", "SetOperatorStatus")),
   Route("bindOperatorRole", DoWrite("BindOperatorRole", "BindOperatorRole"))}

AdminRoleRoutes ==
  {Route("listAdminRoles", Session \o Ask("ListAdminRoles", "ListAdminRoles")),
   Route("createAdminRole", DoWrite("CreateAdminRole", "CreateAdminRole")),
   Route("grantAdminRole", DoWrite("GrantAdminRole", "GrantAdminRole")),
   Route("revokeAdminGrant", Confirm("RevokeAdminGrant")
                          \o DoWrite("RevokeAdminGrant", "RevokeAdminGrant")),
   Route("unbindOperatorRole", Confirm("UnbindOperatorRole")
                          \o DoWrite("UnbindOperatorRole", "UnbindOperatorRole")),
   Route("resetOperatorSecret", Confirm("ResetOperatorSecret")
                          \o Show("ResetOperatorSecret", "ResetOperatorSecret"))}

AccountRoutes ==
  {Route("registerForm", <<>>),
   Route("registerPost", <<Of("call", "RegisterTenant")>>),
   Route("tenantsList", Session \o <<Of("self", "ListMyTenants"), Of("call", "ListMyTenants")>>),
   Route("membersList", Session \o Ask("ListMembers", "ListMembers") \o TenantUsage),
   Route("memberInvite", Show("InviteMember", "InviteMember"))}

IdpRoutes ==
  {Route("idpConfig", Session \o Ask("GetTenantIdp", "GetTenantIdp")),
   Route("idpSave", DoWrite("ConfigureTenantIdp", "ConfigureTenantIdp")),
   Route("idpDelete", Confirm("DeleteTenantIdp") \o DoWrite("DeleteTenantIdp", "DeleteTenantIdp")),
   Route("idpTest", Csrf \o Ask("GetTenantIdp", "GetTenantIdp") \o <<Do("flash")>>)}

PeopleRoutes ==
  {Route("opsPeople", Session \o Ask("ListUserBindings", "ListUserBindings")
                   \o AppHasNoBizRoles),
   Route("opsPersonView", Session \o PermNameMap \o RoleNameMap
                       \o Ask("GetEffectivePermissions", "GetEffectivePermissions")
                       \o DataScopeNotes
                       \o Ask("ListUserBindings", "ListUserBindings"))}

OpsRoutes ==
  {Route("opsRoles", Session \o Ask("ListRoles", "ListRoles")),
   Route("opsRoleNewForm", Session \o Ask("ListPermissions", "ListPermissions")),
   Route("opsCreateRole", DoWrite("CreateBusinessRole", "CreateBusinessRole")),
   Route("opsAssignRole", DoWrite("BindUserRole", "BindUserRole")),
   Route("opsUnassignRole", DoWrite("UnbindUserRole", "UnbindUserRole"))}

TemplateRoutes ==
  {Route("opsTemplates", Session \o Ask("ListTemplates", "ListTemplates")
                      \o TryTenantOfApp
                      \o Try("ListTenantTemplates", "ListTenantTemplates")
                      \o AppHasNoBizRoles),
   Route("opsApplyTemplate", Apply("ApplyTemplate", "ApplyTemplate"))}

TenantTemplateRoutes ==
  {Route("opsSaveTemplate", DoWrite("SaveAppAsTemplate", "SaveAppAsTemplate")),
   Route("opsTenantTemplate", Session \o TenantOfApp
                           \o Ask("GetTenantTemplate", "GetTenantTemplate")),
   Route("opsApplyTenantTemplate", Apply("ApplyTenantTemplate", "ApplyTenantTemplate")),
   Route("opsDeleteTenantTemplate", Confirm("DeleteTenantTemplate")
     \o (Csrf \o TenantOfApp \o Write("DeleteTenantTemplate", "DeleteTenantTemplate")))}

OnboardingRoutes ==
  {Route("onboardingSelect", Session \o Ask("ListTemplates", "ListTemplates")),
   Route("onboardingApply", Apply("ApplyTemplate", "ApplyTemplate")),
   Route("onboardingDone", Session),
   Route("onboardingAssignForm", Session \o Ask("ListRoles", "ListRoles")),
   Route("onboardingAssign", DoWrite("BindUserRole", "BindUserRole"))}

RoleGraphRoutes ==
  {Route("roleGraph", Session \o Ask("GetRoleGraph", "GetRoleGraph")),
   Route("roleSimulate", Session \o Ask("SimulateRoleChange", "SimulateRoleChange")
                      \o Ask("ListPermissions", "ListPermissions"))}

ConsoleRoutes ==
  HomeRoutes \cup StatusRoutes \cup HomePages \cup RoleRoutes \cup PermissionRoutes \cup GrantRoutes
    \cup InheritanceRoutes \cup BindingRoutes \cup BatchRoutes \cup EffectiveRoutes
    \cup DecisionRoutes \cup DataPolicyRoutes \cup PolicyCodeRoutes \cup SandboxRoutes
    \cup DeveloperRoutes \cup AuditRoutes \cup UsageRoutes \cup OperatorRoutes
    \cup AdminRoleRoutes \cup AccountRoutes \cup IdpRoutes \cup PeopleRoutes \cup OpsRoutes
    \cup TemplateRoutes \cup TenantTemplateRoutes \cup OnboardingRoutes \cup RoleGraphRoutes

(* What the console says must be confirmed: the keys of confirmPrompts.    *)
(* SetApplicationStatus is asked about only when it disables.              *)
ConfirmPrompts ==
  {"DeleteRole", "RemoveRoleInheritance", "RevokeAdminGrant", "UnbindOperatorRole",
   "RotateApplicationSecret", "ResetOperatorSecret", "DeleteDataPolicy", "DeleteTenantIdp",
   "DeleteTenantTemplate", "SetApplicationStatus", "BatchDeleteRole",
   "BatchRevokePermission", "BatchRemoveRoleInheritance", "BatchUnbindUserRole",
   "BatchDeleteDataPolicy"}

-----------------------------------------------------------------------------
(* The REST gateway.  A route decodes its message from the body, or makes  *)
(* it from the path and the query: the last source to set the id of the    *)
(* application or tenant is the one that counts.                           *)

Path == <<"path">>               \* the message is built from the path
BodyThenPath == <<"body", "path">>
Body == <<"body">>               \* an id, if it has one, comes from the body
Query == <<"path">>              \* a query parameter is as visible as the path
NoId == <<>>

Rest(rpc, invoke, from) == [rpc |-> rpc, invoke |-> invoke, from |-> from]

RestRoleRoutes ==
  {Rest("ListRoles", "ListRoles", Path),
   Rest("CreateRole", "CreateRole", BodyThenPath),
   Rest("CreateBusinessRole", "CreateBusinessRole", BodyThenPath),
   Rest("DeleteRole", "DeleteRole", Path),
   Rest("ListPermissions", "ListPermissions", Path),
   Rest("UpsertPermission", "UpsertPermission", BodyThenPath),
   Rest("ListGrants", "ListGrants", Path),
   Rest("GrantPermission", "GrantPermission", BodyThenPath)}

RestGraphRoutes ==
  {Rest("RevokePermission", "RevokePermission", Path),
   Rest("ListRoleInheritances", "ListRoleInheritances", Path),
   Rest("AddRoleInheritance", "AddRoleInheritance", BodyThenPath),
   Rest("RemoveRoleInheritance", "RemoveRoleInheritance", Path),
   Rest("ListUserBindings", "ListUserBindings", Path),
   Rest("GetEffectivePermissions", "GetEffectivePermissions", Path),
   Rest("QueryAuditLog", "QueryAuditLog", Path),
   Rest("BindUserRole", "BindUserRole", BodyThenPath)}

RestDataRoutes ==
  {Rest("UnbindUserRole", "UnbindUserRole", Path),
   Rest("ListDataPolicies", "ListDataPolicies", Path),
   Rest("UpsertDataPolicy", "UpsertDataPolicy", BodyThenPath),
   Rest("DeleteDataPolicy", "DeleteDataPolicy", Path),
   Rest("ExplainDecision", "ExplainDecision", Path),
   Rest("ListTemplates", "ListTemplates", Path),
   Rest("ApplyTemplate", "ApplyTemplate", Path),
   Rest("ExportAppPolicy", "ExportAppPolicy", Path)}

RestBatchRoutes ==
  {Rest("ImportAppPolicy", "ImportAppPolicy", Path),
   Rest("BatchUnbindUserRole", "BatchUnbindUserRole", BodyThenPath),
   Rest("BatchRevokePermission", "BatchRevokePermission", BodyThenPath),
   Rest("BatchRemoveRoleInheritance", "BatchRemoveRoleInheritance", BodyThenPath),
   Rest("BatchDeleteRole", "BatchDeleteRole", BodyThenPath),
   Rest("BatchDeleteDataPolicy", "BatchDeleteDataPolicy", BodyThenPath),
   Rest("PreviewDataFilter", "PreviewDataFilter", BodyThenPath)}

RestApplicationRoutes ==
  {Rest("ListApplications", "ListApplications", Query),
   Rest("CreateApplication", "CreateApplication", Body),
   Rest("SetApplicationStatus", "SetApplicationStatus", BodyThenPath),
   Rest("RotateApplicationSecret", "RotateApplicationSecret", Path),
   Rest("GetApplication", "GetApplication", Path),
   Rest("GetTenantUsage", "GetTenantUsage", Query)}

RestOperatorRoutes ==
  {Rest("ListOperators", "ListOperators", NoId),
   Rest("CreateOperator", "CreateOperator", NoId),
   Rest("SetOperatorStatus", "SetOperatorStatus", NoId),
   Rest("SetOperatorEmail", "SetOperatorEmail", NoId),
   Rest("BindOperatorRole", "BindOperatorRole", NoId),
   Rest("ListAdminRoles", "ListAdminRoles", NoId)}

RestAdminRoleRoutes ==
  {Rest("CreateAdminRole", "CreateAdminRole", NoId),
   Rest("GrantAdminRole", "GrantAdminRole", NoId),
   Rest("RevokeAdminGrant", "RevokeAdminGrant", NoId),
   Rest("UnbindOperatorRole", "UnbindOperatorRole", NoId),
   Rest("ResetOperatorSecret", "ResetOperatorSecret", NoId),
   Rest("QueryAdminAuditLog", "QueryAdminAuditLog", Query)}

RestAccountRoutes ==
  {Rest("RegisterTenant", "RegisterTenant", NoId),
   Rest("ChangeTenantPlan", "ChangeTenantPlan", BodyThenPath),
   Rest("ListMyTenants", "ListMyTenants", NoId),
   Rest("InviteMember", "InviteMember", BodyThenPath),
   Rest("ListMembers", "ListMembers", Path),
   Rest("ConfigureTenantIdp", "ConfigureTenantIdp", BodyThenPath),
   Rest("GetTenantIdp", "GetTenantIdp", Path),
   Rest("DeleteTenantIdp", "DeleteTenantIdp", Path)}

RestTemplateRoutes ==
  {Rest("SaveAppAsTemplate", "SaveAppAsTemplate", BodyThenPath),
   Rest("ListTenantTemplates", "ListTenantTemplates", Path),
   Rest("GetTenantTemplate", "GetTenantTemplate", Path),
   Rest("ApplyTenantTemplate", "ApplyTenantTemplate", Path),
   Rest("DeleteTenantTemplate", "DeleteTenantTemplate", Path)}

RestGraphReadRoutes ==
  {Rest("GetRoleGraph", "GetRoleGraph", Path),
   Rest("SimulateRoleChange", "SimulateRoleChange", Path)}

RestRoutes ==
  RestRoleRoutes \cup RestGraphRoutes \cup RestDataRoutes \cup RestBatchRoutes
    \cup RestApplicationRoutes \cup RestOperatorRoutes \cup RestAdminRoleRoutes
    \cup RestAccountRoutes \cup RestTemplateRoutes \cup RestGraphReadRoutes

(* serve: the methods exempt from authentication skip the three checks. *)
RestStages(route) ==
  IF route.rpc \in UnauthenticatedMethods
  THEN <<Do("decode"), Of("call", route.invoke)>>
  ELSE <<Do("authn"), Do("decode"), Of("authz", route.rpc), Of("status", route.rpc),
         Of("call", route.invoke)>>

-----------------------------------------------------------------------------
(* The gRPC service: a handler gives the interceptors its full method and  *)
(* calls the method of the server, two mentions here as well.              *)

Grpc(rpc, invoke) == [rpc |-> rpc, invoke |-> invoke]

GrpcRoleHandlers ==
  {Grpc("CreateRole", "CreateRole"),
   Grpc("DeleteRole", "DeleteRole"),
   Grpc("UpsertPermission", "UpsertPermission"),
   Grpc("GrantPermission", "GrantPermission"),
   Grpc("RevokePermission", "RevokePermission"),
   Grpc("AddRoleInheritance", "AddRoleInheritance"),
   Grpc("RemoveRoleInheritance", "RemoveRoleInheritance"),
   Grpc("BindUserRole", "BindUserRole")}

GrpcDataHandlers ==
  {Grpc("UnbindUserRole", "UnbindUserRole"),
   Grpc("UpsertDataPolicy", "UpsertDataPolicy"),
   Grpc("DeleteDataPolicy", "DeleteDataPolicy"),
   Grpc("CreateApplication", "CreateApplication"),
   Grpc("SetApplicationStatus", "SetApplicationStatus"),
   Grpc("ListApplications", "ListApplications"),
   Grpc("GetApplication", "GetApplication"),
   Grpc("GetTenantUsage", "GetTenantUsage")}

GrpcTenantHandlers ==
  {Grpc("ChangeTenantPlan", "ChangeTenantPlan"),
   Grpc("ConfigureTenantIdp", "ConfigureTenantIdp"),
   Grpc("GetTenantIdp", "GetTenantIdp"),
   Grpc("DeleteTenantIdp", "DeleteTenantIdp"),
   Grpc("CreateOperator", "CreateOperator"),
   Grpc("SetOperatorStatus", "SetOperatorStatus"),
   Grpc("SetOperatorEmail", "SetOperatorEmail"),
   Grpc("CreateAdminRole", "CreateAdminRole")}

GrpcOperatorHandlers ==
  {Grpc("GrantAdminRole", "GrantAdminRole"),
   Grpc("BindOperatorRole", "BindOperatorRole"),
   Grpc("RevokeAdminGrant", "RevokeAdminGrant"),
   Grpc("UnbindOperatorRole", "UnbindOperatorRole"),
   Grpc("RotateApplicationSecret", "RotateApplicationSecret"),
   Grpc("ResetOperatorSecret", "ResetOperatorSecret"),
   Grpc("CreateBusinessRole", "CreateBusinessRole"),
   Grpc("ListRoles", "ListRoles")}

GrpcReadHandlers ==
  {Grpc("ListPermissions", "ListPermissions"),
   Grpc("ListGrants", "ListGrants"),
   Grpc("ListRoleInheritances", "ListRoleInheritances"),
   Grpc("ListUserBindings", "ListUserBindings"),
   Grpc("ListDataPolicies", "ListDataPolicies"),
   Grpc("ListOperators", "ListOperators"),
   Grpc("ListAdminRoles", "ListAdminRoles"),
   Grpc("GetEffectivePermissions", "GetEffectivePermissions")}

GrpcGraphHandlers ==
  {Grpc("ExplainDecision", "ExplainDecision"),
   Grpc("PreviewDataFilter", "PreviewDataFilter"),
   Grpc("GetRoleGraph", "GetRoleGraph"),
   Grpc("SimulateRoleChange", "SimulateRoleChange"),
   Grpc("RegisterTenant", "RegisterTenant"),
   Grpc("ListMyTenants", "ListMyTenants"),
   Grpc("InviteMember", "InviteMember"),
   Grpc("ListMembers", "ListMembers")}

GrpcAuditHandlers ==
  {Grpc("QueryAuditLog", "QueryAuditLog"),
   Grpc("QueryAdminAuditLog", "QueryAdminAuditLog"),
   Grpc("ListTemplates", "ListTemplates"),
   Grpc("ApplyTemplate", "ApplyTemplate"),
   Grpc("SaveAppAsTemplate", "SaveAppAsTemplate"),
   Grpc("ListTenantTemplates", "ListTenantTemplates"),
   Grpc("GetTenantTemplate", "GetTenantTemplate"),
   Grpc("ApplyTenantTemplate", "ApplyTenantTemplate")}

GrpcBatchHandlers ==
  {Grpc("DeleteTenantTemplate", "DeleteTenantTemplate"),
   Grpc("ExportAppPolicy", "ExportAppPolicy"),
   Grpc("ImportAppPolicy", "ImportAppPolicy"),
   Grpc("BatchUnbindUserRole", "BatchUnbindUserRole"),
   Grpc("BatchRevokePermission", "BatchRevokePermission"),
   Grpc("BatchRemoveRoleInheritance", "BatchRemoveRoleInheritance"),
   Grpc("BatchDeleteRole", "BatchDeleteRole"),
   Grpc("BatchDeleteDataPolicy", "BatchDeleteDataPolicy")}

GrpcHandlers ==
  GrpcRoleHandlers \cup GrpcDataHandlers \cup GrpcTenantHandlers \cup GrpcOperatorHandlers
    \cup GrpcReadHandlers \cup GrpcGraphHandlers \cup GrpcAuditHandlers \cup GrpcBatchHandlers

(* The interceptors of the gRPC server, in the order they are chained. *)
GrpcStages(handler) ==
  IF handler.rpc \in UnauthenticatedMethods
  THEN <<Of("status", handler.rpc), Of("call", handler.invoke)>>
  ELSE <<Do("authn"), Of("authz", handler.rpc), Of("status", handler.rpc),
         Of("call", handler.invoke)>>
=============================================================================
