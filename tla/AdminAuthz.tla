---------------------------- MODULE AdminAuthz ----------------------------
(***************************************************************************)
(* Administrator authorization and the accounts it protects: the replicas  *)
(* of the control plane, each with an in-memory enforcer that it reloads   *)
(* from the database when admin_policy_version has moved, authorize the    *)
(* management RPCs and run their handlers.                                 *)
(*                                                                         *)
(* A request is authenticated, then authorized under the enforcer's mutex  *)
(* (version read, reload of the p rows and then of the g rows, decision),  *)
(* then checked against the status of its application, and only then runs  *)
(* its handler; other replicas commit in between.  Handlers that check a   *)
(* quota hold the lock of the tenant's row.  Each replica has one request  *)
(* in progress: after the mutex requests of one replica are as independent *)
(* as those of two.  E-mail addresses and identity providers are modelled  *)
(* in SingleSignOn, the writes of an application's policy in               *)
(* PolicyManager.                                                          *)
(***************************************************************************)
EXTENDS AdminRules, FiniteSets

CONSTANTS
  Operators,     \* principals an operator can have, also the codes of roles
  Root,          \* the one of the bootstrap configuration
  Tenants, Apps,
  CustomRoles,   \* roles of no tenant that CreateAdminRole makes
  CustomGrants,  \* the <<role, domain, resource, action>> GrantAdminRole is called with
  CustomBindings,\* the <<operator, role, domain>> BindOperatorRole is called with
  Plans, DefaultPlan, MaxApplications, MaxMembers,   \* the limits of each plan
  Replicas,
  Calls,         \* the <<operator, method, target>> of the requests made
  MaxVersion     \* bound: the highest admin_policy_version

VARIABLES
  db,        \* the tables
  lock,      \* lock[t]: the replica holding the row lock of tenant t, or "none"
  enforcer,  \* enforcer[r]: the in-memory policy of replica r
  req        \* req[r]: the request replica r is serving

vars == <<db, lock, enforcer, req>>

SuperAdmin == <<"super-admin">>
TenantAdmin(t) == <<"tenant-admin", t>>
Custom(c) == <<"custom", c>>
Roles == {SuperAdmin} \cup {TenantAdmin(t) : t \in Tenants} \cup {Custom(c) : c \in CustomRoles}

Domains == Tenants \cup Apps \cup {"*"}

(* A p row and a g row of the enforcer. *)
GrantRow(role, dom, res, act) == [role |-> role, dom |-> dom, res |-> res, act |-> act]
Grants ==
  {GrantRow(SuperAdmin, "*", "*", "*")}
    \cup {GrantRow(TenantAdmin(t), t, "*", "*") : t \in Tenants}
    \cup {GrantRow(c[1], c[2], c[3], c[4]) : c \in CustomGrants}
Bindings == Operators \X Roles \X Domains

ASSUME AdminAssumptions ==
  /\ Root \in Operators
  /\ DefaultPlan \in Plans
  /\ MaxApplications \in [Plans -> Nat] /\ MaxMembers \in [Plans -> Nat]
  /\ Calls \subseteq (Operators \X KnownMethods \X Domains)
  /\ MaxVersion \in Nat
  /\ CustomBindings \subseteq Bindings
  /\ "*" \notin Tenants \cup Apps
  /\ Tenants \cap Apps = {}         \* "t:" and an id against an id alone
  /\ \A x \in {"none"} : x \notin Tenants \cup Plans \cup Replicas
  /\ \A c \in CustomGrants : c[1] \in Roles

Idle == [phase |-> "idle", rule |-> RuleTable["ListMyTenants"], target |-> "*",
         version |-> 0, p |-> {}, count |-> 0,
         lostGrants |-> {}, lostBindings |-> {}, lostApps |-> {}]

Down == [state |-> "down", p |-> {}, g |-> {}, loadedV |-> 0, reloaded |-> FALSE]

(* After the migrations, which seed the super-admin role and its grant,    *)
(* and after EnsureRootOperator, which creates and binds the bootstrap     *)
(* operator in a transaction that bumps the version.                       *)
Init ==
  /\ db = [version |-> 1,
           ops |-> [o \in Operators |-> IF o = Root THEN "active" ELSE "none"],
           roles |-> {SuperAdmin},
           grants |-> {GrantRow(SuperAdmin, "*", "*", "*")},
           bindings |-> {<<Root, SuperAdmin, "*">>},
           plan |-> [t \in Tenants |-> "none"],
           members |-> [t \in Tenants |-> [o \in Operators |-> "none"]],
           apps |-> [a \in Apps |-> "none"],
           enabled |-> {},
           audited |-> {}]
  /\ lock = [t \in Tenants |-> "none"]
  /\ enforcer = [r \in Replicas |-> Down]
  /\ req = [r \in Replicas |-> Idle]

TenantExists(t) == db.plan[t] # "none"
Members(d, t) == {o \in Operators : d.members[t][o] # "none"}
AppsOf(d, t) == {a \in Apps : d.apps[a] = t}

-----------------------------------------------------------------------------
(* Committing.  lostGrants, lostBindings and lostApps record what has been *)
(* deleted or disabled since a request began; they are history.            *)

WithLost(q, new) ==
  IF q.phase = "idle" THEN q
  ELSE [q EXCEPT !.lostGrants = @ \cup (db.grants \ new.grants),
                 !.lostBindings = @ \cup (db.bindings \ new.bindings),
                 !.lostApps = @ \cup (db.enabled \ new.enabled)]

Commit(r, new) ==
  /\ db' = new
  /\ req' = [x \in Replicas |-> IF x = r THEN Idle ELSE WithLost(req[x], new)]
  /\ lock' = [t \in Tenants |-> IF lock[t] = r THEN "none" ELSE lock[t]]
  /\ UNCHANGED enforcer

(* The statements of the data access layer, on the tables d. *)
InsertOperator(d, o) == [d EXCEPT !.ops[o] = "active"]
EnsureOperator(d, o) == IF d.ops[o] = "none" THEN InsertOperator(d, o) ELSE d
InsertMembership(d, t, o, tier) == [d EXCEPT !.members[t][o] = tier]
InsertRole(d, role) == [d EXCEPT !.roles = @ \cup {role}]
InsertRoleGrant(d, row) == [d EXCEPT !.grants = @ \cup {row}]
DeleteRoleGrant(d, row) == [d EXCEPT !.grants = @ \ {row}]
InsertSubjectRole(d, b) == [d EXCEPT !.bindings = @ \cup {b}]
DeleteSubjectRole(d, b) == [d EXCEPT !.bindings = @ \ {b}]
BumpPolicyVersion(d) == [d EXCEPT !.version = @ + 1]
InsertAdminAudit(d) == [d EXCEPT !.audited = @ \cup {d.version}]

(* Every write that bumps also leaves an audit row with the new version. *)
Bump(d) == InsertAdminAudit(BumpPolicyVersion(d))

CanBump == db.version < MaxVersion

-----------------------------------------------------------------------------
(* A replica starts, loading the policy and only then reading its version, *)
(* and stops.  The p and the g rows are one read here: whatever commits    *)
(* between the two commits before the version is read as well.             *)

BootLoad(r) ==
  /\ enforcer[r].state = "down"
  /\ enforcer' = [enforcer EXCEPT ![r] =
       [Down EXCEPT !.state = "bootV", !.p = db.grants, !.g = db.bindings]]
  /\ UNCHANGED <<db, lock, req>>

BootVersion(r) ==
  /\ enforcer[r].state = "bootV"
  /\ enforcer' = [enforcer EXCEPT ![r].state = "up", ![r].loadedV = db.version]
  /\ UNCHANGED <<db, lock, req>>

(* The process ends: PostgreSQL rolls its transaction back. *)
Stop(r) ==
  /\ enforcer[r].state # "down"
  /\ enforcer' = [enforcer EXCEPT ![r] = Down]
  /\ req' = [req EXCEPT ![r] = Idle]
  /\ lock' = [t \in Tenants |-> IF lock[t] = r THEN "none" ELSE lock[t]]
  /\ UNCHANGED db

-----------------------------------------------------------------------------
(* Authentication and authorization.                                       *)

(* The domain of the application's tenant, for a request on one.           *)
TenantDomain(x) == IF x \in Apps THEN db.apps[x] ELSE x

(* What a request of each scope is asked of: the application of its        *)
(* app_id, the tenant of its tenant_id (0 stands for the whole platform).  *)
Targets(rule) ==
  CASE rule.scope = "app" -> {a \in Apps : db.apps[a] # "none"}
    [] rule.scope = "tenant" -> Tenants \cup {"*"}
    [] OTHER -> {"*"}

Allows(p, g, o, rule, x) == Matches(p, g, o, x, TenantDomain(x), rule.res, rule.act)

(* The request of operator o under rule on target x.  An active operator   *)
(* has signed it, or its console session was opened by one that was active *)
(* then.  A request on an application that does not exist is denied, and   *)
(* never made here; the one method of scope self is not authorized, and    *)
(* only reads.                                                             *)
Asks(o, rule, x) == db.ops[o] # "none" /\ x \in Targets(rule) /\ rule.scope # "self"

(* What becomes of it once it is decided: denied, it ends; who asked does  *)
(* not matter to what follows, nor does what was read on the way.          *)
Decided(p, g, q, o, rule, x) ==
  IF Allows(p, g, o, rule, x)
  THEN [q EXCEPT !.phase = IF rule.isWrite THEN "allowed" ELSE "ready",
                 !.rule = rule, !.target = x, !.version = 0, !.p = {}]
  ELSE Idle

CanBegin(r) == enforcer[r].state = "up" /\ req[r].phase = "idle"

(* Enforce, when the version read is the one loaded. *)
EnforceLoaded(r, o, rule, x) ==
  /\ CanBegin(r) /\ Asks(o, rule, x)
  /\ db.version = enforcer[r].loadedV
  /\ req' = [req EXCEPT ![r] = Decided(enforcer[r].p, enforcer[r].g, Idle, o, rule, x)]
  /\ UNCHANGED <<db, lock, enforcer>>

(* Enforce, when it is not: LoadPolicy reads the p rows and then the g     *)
(* rows, and the version read before them is remembered.  Which request    *)
(* it is only matters to the decision, and is chosen there.                *)
ReadVersion(r) ==
  /\ CanBegin(r)
  /\ db.version # enforcer[r].loadedV
  /\ req' = [req EXCEPT ![r].phase = "loadP", ![r].version = db.version]
  /\ UNCHANGED <<db, lock, enforcer>>

LoadP(r) ==
  /\ req[r].phase = "loadP"
  /\ req' = [req EXCEPT ![r].phase = "loadG", ![r].p = db.grants]
  /\ UNCHANGED <<db, lock, enforcer>>

(* Mutant: the version is read after the rows, as it is at the start. *)
LoadGVersionLast(r, o, rule, x) ==
  /\ req[r].phase = "loadG" /\ Asks(o, rule, x)
  /\ enforcer' = [enforcer EXCEPT ![r].p = req[r].p, ![r].g = db.bindings,
                                  ![r].loadedV = db.version, ![r].reloaded = TRUE]
  /\ req' = [req EXCEPT ![r] = Decided(req[r].p, db.bindings, @, o, rule, x)]
  /\ UNCHANGED <<db, lock>>

LoadG(r, o, rule, x) ==
  /\ req[r].phase = "loadG" /\ Asks(o, rule, x)
  /\ enforcer' = [enforcer EXCEPT ![r].p = req[r].p, ![r].g = db.bindings,
                                  ![r].loadedV = req[r].version, ![r].reloaded = TRUE]
  /\ req' = [req EXCEPT ![r] = Decided(req[r].p, db.bindings, @, o, rule, x)]
  /\ UNCHANGED <<db, lock>>

(* Mutant: the status is not looked at. *)
CheckStatusNever(r) ==
  /\ req[r].phase = "allowed"
  /\ req' = [req EXCEPT ![r].phase = "ready"]
  /\ UNCHANGED <<db, lock, enforcer>>

(* The status check, which only the writes of an application's policy have. *)
CheckStatusWrite(r) ==
  /\ req[r].phase = "allowed"
  /\ req' = [req EXCEPT ![r] =
       IF req[r].target \in db.enabled THEN [@ EXCEPT !.phase = "ready"] ELSE Idle]
  /\ UNCHANGED <<db, lock, enforcer>>

(* Any step fails, is cancelled or finds its argument wrong, or a read has *)
(* answered: the transaction is rolled back and the policy in memory kept. *)
Finish(r) ==
  /\ req[r].phase # "idle"
  /\ req' = [req EXCEPT ![r] = Idle]
  /\ lock' = [t \in Tenants |-> IF lock[t] = r THEN "none" ELSE lock[t]]
  /\ UNCHANGED <<db, enforcer>>

-----------------------------------------------------------------------------
(* The handlers: each commits one transaction.                             *)

Serves(r, m) == req[r].phase = "ready" /\ req[r].rule = RuleTable[m]

(* Mutant: the platform's role is bound instead of the tenant's. *)
BindEverywhere(d, t, o) ==
  InsertSubjectRole(InsertRole(d, TenantAdmin(t)), <<o, SuperAdmin, "*">>)

(* The role, its grant and the binding of a tenant's administrator. *)
BindTenantAdminTx(d, t, o) ==
  InsertSubjectRole(
    InsertRoleGrant(InsertRole(d, TenantAdmin(t)), GrantRow(TenantAdmin(t), t, "*", "*")),
    <<o, TenantAdmin(t), t>>)

(* Self-service registration, by a request without a principal. *)
RegisterTenant(r, t, o) ==
  /\ enforcer[r].state = "up" /\ req[r].phase = "idle"
  /\ CanBump
  /\ ~TenantExists(t) /\ db.ops[o] = "none"
  /\ LET created == InsertOperator([db EXCEPT !.plan[t] = DefaultPlan], o)
     IN  Commit(r, Bump(BindTenantAdminTx(InsertMembership(created, t, o, "owner"), t, o)))

(* Mutant: the limits are read without FOR UPDATE. *)
TenantPlanLimitsUnlocked(r) ==
  /\ \/ Serves(r, "CreateApplication")
     \/ Serves(r, "InviteMember")
  /\ req[r].target \in Tenants /\ TenantExists(req[r].target)
  /\ req' = [req EXCEPT ![r].phase = "locked"]
  /\ UNCHANGED <<db, lock, enforcer>>

(* CreateApplication and InviteMember first lock the row of the tenant,    *)
(* which also gives them its plan, ...                                     *)
TenantPlanLimits(r) ==
  /\ \/ Serves(r, "CreateApplication")
     \/ Serves(r, "InviteMember")
  /\ req[r].target \in Tenants /\ TenantExists(req[r].target)
  /\ lock[req[r].target] = "none"
  /\ lock' = [lock EXCEPT ![req[r].target] = r]
  /\ req' = [req EXCEPT ![r].phase = "locked"]
  /\ UNCHANGED <<db, enforcer>>

(* ... then count ... *)
CountApplications(r) ==
  /\ req[r].phase = "locked" /\ req[r].rule = RuleTable["CreateApplication"]
  /\ req' = [req EXCEPT ![r].phase = "counted",
                        ![r].count = Cardinality(AppsOf(db, req[r].target))]
  /\ UNCHANGED <<db, lock, enforcer>>

CountMembers(r) ==
  /\ req[r].phase = "locked" /\ req[r].rule = RuleTable["InviteMember"]
  /\ req' = [req EXCEPT ![r].phase = "counted",
                        ![r].count = Cardinality(Members(db, req[r].target))]
  /\ UNCHANGED <<db, lock, enforcer>>

(* ... and insert when the count is below the limit of the plan.  The      *)
(* invitation creates the operator if there is none; it loses a race to    *)
(* create it to the unique constraint, and ends.                           *)
CreateApplication(r, a) ==
  LET t == req[r].target
  IN  /\ req[r].phase = "counted" /\ req[r].rule = RuleTable["CreateApplication"]
      /\ req[r].count < MaxApplications[db.plan[t]]
      /\ db.apps[a] = "none"
      /\ Commit(r, [db EXCEPT !.apps[a] = t, !.enabled = @ \cup {a}])

InviteMember(r, o) ==
  LET t == req[r].target
  IN  /\ req[r].phase = "counted" /\ req[r].rule = RuleTable["InviteMember"]
      /\ CanBump
      /\ db.members[t][o] = "none"
      /\ req[r].count < MaxMembers[db.plan[t]]
      /\ Commit(r, Bump(BindTenantAdminTx(
           InsertMembership(EnsureOperator(db, o), t, o, "admin"), t, o)))

(* The dates of the subscription, which no decision reads, are left out. *)
ChangeTenantPlanTx(d, t, plan) == [d EXCEPT !.plan[t] = plan]

ChangeTenantPlan(r, t, plan) ==
  /\ Serves(r, "ChangeTenantPlan")
  /\ TenantExists(t) /\ lock[t] = "none"
  /\ Commit(r, ChangeTenantPlanTx(db, t, plan))

SetApplicationStatus(r) ==
  /\ Serves(r, "SetApplicationStatus")
  /\ \/ Commit(r, [db EXCEPT !.enabled = @ \cup {req[r].target}])
     \/ Commit(r, [db EXCEPT !.enabled = @ \ {req[r].target}])

CreateOperator(r, o) ==
  /\ Serves(r, "CreateOperator") /\ CanBump
  /\ db.ops[o] = "none"
  /\ Commit(r, Bump(InsertOperator(db, o)))

SetOperatorStatus(r, o, status) ==
  /\ Serves(r, "SetOperatorStatus") /\ CanBump
  /\ db.ops[o] # "none"
  /\ Commit(r, Bump([db EXCEPT !.ops[o] = status]))

(* The code of the role is the caller's choice, also one that              *)
(* BindTenantAdminTx will look for.                                        *)
CreateAdminRole(r, role) ==
  /\ Serves(r, "CreateAdminRole")
  /\ role \notin db.roles
  /\ Commit(r, InsertRole(db, role))

GrantAdminRole(r, c) ==
  /\ Serves(r, "GrantAdminRole") /\ CanBump
  /\ c[1] \in db.roles
  /\ Commit(r, Bump(InsertRoleGrant(db, GrantRow(c[1], c[2], c[3], c[4]))))

RevokeAdminGrant(r, row) ==
  /\ Serves(r, "RevokeAdminGrant") /\ CanBump
  /\ row \in db.grants
  /\ Commit(r, Bump(DeleteRoleGrant(db, row)))

BindOperatorRole(r, b) ==
  /\ Serves(r, "BindOperatorRole") /\ CanBump
  /\ db.ops[b[1]] # "none" /\ b[2] \in db.roles
  /\ Commit(r, Bump(InsertSubjectRole(db, b)))

UnbindOperatorRole(r, b) ==
  /\ Serves(r, "UnbindOperatorRole") /\ CanBump
  /\ b \in db.bindings
  /\ Commit(r, Bump(DeleteSubjectRole(db, b)))

(* A write of an application's policy: PolicyManager models what it does. *)
PolicyWrite(r) ==
  /\ req[r].phase = "ready" /\ req[r].rule.isWrite
  /\ req' = [req EXCEPT ![r] = Idle]
  /\ UNCHANGED <<db, lock, enforcer>>

(* A first single sign-on login: the operator and a membership without any *)
(* binding, with neither a quota nor a bump; the foreign key of the        *)
(* membership waits for the lock of the tenant's row.                      *)
ProvisionOperatorForLogin(r, t, o) ==
  /\ enforcer[r].state = "up" /\ req[r].phase = "idle"
  /\ TenantExists(t) /\ lock[t] = "none"
  /\ db.ops[o] = "none"
  /\ Commit(r, InsertMembership(InsertOperator(db, o), t, o, "member"))

Authorization(r) ==
  \/ \E c \in Calls :
       \/ EnforceLoaded(r, c[1], RuleTable[c[2]], c[3])
       \/ LoadG(r, c[1], RuleTable[c[2]], c[3])
  \/ ReadVersion(r) \/ LoadP(r) \/ CheckStatusWrite(r)

QuotaHandler(r) ==
  \/ TenantPlanLimits(r) \/ CountApplications(r) \/ CountMembers(r)
  \/ \E o \in Operators : InviteMember(r, o)
  \/ \E a \in Apps : CreateApplication(r, a)

Handler(r) ==
  /\ req[r].phase = "ready"
  /\ \/ PolicyWrite(r) \/ SetApplicationStatus(r)
     \/ \E o \in Operators : CreateOperator(r, o)
     \/ \E o \in Operators, s \in {"active", "disabled"} : SetOperatorStatus(r, o, s)
     \/ \E t \in Tenants, plan \in Plans : ChangeTenantPlan(r, t, plan)
     \/ \E role \in Roles : CreateAdminRole(r, role)
     \/ \E c \in CustomGrants : GrantAdminRole(r, c)
     \/ \E row \in db.grants : RevokeAdminGrant(r, row)
     \/ \E b \in CustomBindings : BindOperatorRole(r, b)
     \/ \E b \in db.bindings : UnbindOperatorRole(r, b)

SelfService(r) ==
  \E t \in Tenants, o \in Operators :
    RegisterTenant(r, t, o) \/ ProvisionOperatorForLogin(r, t, o)

Next == \E r \in Replicas :
  \/ BootLoad(r) \/ BootVersion(r) \/ Stop(r)
  \/ Authorization(r) \/ QuotaHandler(r) \/ Handler(r) \/ SelfService(r)
  \/ Finish(r)

Spec == Init /\ [][Next]_vars

-----------------------------------------------------------------------------
(* Properties.                                                             *)

(* A replica that has reloaded its policy once and whose version is the    *)
(* database's decides from exactly the rows of the tables: every write of  *)
(* a grant or of a binding bumps the version in its own transaction, and   *)
(* the version is read before the rows.                                    *)
ReloadedIsCurrent ==
  \A r \in Replicas :
    enforcer[r].reloaded /\ enforcer[r].loadedV = db.version =>
      enforcer[r].p = db.grants /\ enforcer[r].g = db.bindings

Authorized(r) == req[r].phase \in {"allowed", "ready", "locked", "counted"}

(* Revocation is immediate: the rows that a replica, after its first       *)
(* reload, authorized a request from were each in the tables at some       *)
(* moment since the request began, and a write of an application's policy  *)
(* reaches its handler only on an application that was enabled at one.     *)
NothingStale ==
  \A r \in Replicas :
    Authorized(r) /\ enforcer[r].reloaded =>
      /\ enforcer[r].p \subseteq db.grants \cup req[r].lostGrants
      /\ enforcer[r].g \subseteq db.bindings \cup req[r].lostBindings
      /\ req[r].rule.isWrite /\ req[r].phase = "ready" =>
           req[r].target \in db.enabled \cup req[r].lostApps

(* Tenants are isolated: over the whole rule table, an operator that       *)
(* nobody bound by hand, and whose principal is not spelled like the code  *)
(* of a role, is allowed nothing but on a tenant it owns or administers,   *)
(* and on that tenant's applications, whatever its role was granted by     *)
(* hand and whatever the other principals are called; a member provisioned *)
(* by single sign-on is allowed nothing.  It is about the tables alone,    *)
(* and stated between requests, where every content of the tables is found *)
(* as well.                                                                *)
MembersStayInTenant ==
  (\A r \in Replicas : req[r].phase = "idle") =>
  \A o \in Operators \ ({Root} \cup Roles \cup {b[1] : b \in CustomBindings}) :
    \A rule \in {ru \in Rules : ru.scope # "self"} : \A x \in Targets(rule) :
      Allows(db.grants, db.bindings, o, rule, x) =>
        /\ TenantDomain(x) \in Tenants
        /\ db.members[TenantDomain(x)][o] \in {"owner", "admin"}

(* Quotas hold under concurrency: a step that adds an application or an    *)
(* invited member leaves the tenant within the limits of the plan it then  *)
(* has, although the count and the insert are separate statements.         *)
WithinQuota ==
  [][\A t \in Tenants :
       /\ AppsOf(db', t) # AppsOf(db, t) =>
            Cardinality(AppsOf(db', t)) <= MaxApplications[db'.plan[t]]
       /\ (\E o \in Operators : db.members[t][o] = "none" /\ db'.members[t][o] = "admin") =>
            Cardinality(Members(db', t)) <= MaxMembers[db'.plan[t]]]_vars
=============================================================================
