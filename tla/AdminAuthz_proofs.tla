-------------------------- MODULE AdminAuthz_proofs --------------------------
(***************************************************************************)
(* Proofs about AdminAuthz, for every set of operators, tenants,           *)
(* applications and replicas, whatever roles, grants and bindings are made *)
(* by hand, whatever the limits of the plans.                              *)
(***************************************************************************)
EXTENDS AdminAuthz, FiniteSetTheorems, TLAPS

Tables ==
  [version : Nat,
   ops : [Operators -> {"none", "active", "disabled"}],
   roles : SUBSET Roles,
   grants : SUBSET Grants,
   bindings : SUBSET Bindings,
   plan : [Tenants -> Plans \cup {"none"}],
   members : [Tenants -> [Operators -> {"none", "owner", "admin", "member"}]],
   apps : [Apps -> Tenants \cup {"none"}],
   enabled : SUBSET Apps,
   audited : SUBSET Nat]

Enforcer ==
  [state : {"down", "bootV", "up"}, p : SUBSET Grants, g : SUBSET Bindings,
   loadedV : Nat, reloaded : BOOLEAN]

Phases == {"idle", "loadP", "loadG", "allowed", "ready", "locked", "counted"}

Request ==
  [phase : Phases, rule : Rules, target : Domains, version : Nat, p : SUBSET Grants,
   count : Nat, lostGrants : SUBSET Grants, lostBindings : SUBSET Bindings,
   lostApps : SUBSET Apps]

TypeOK ==
  /\ db \in Tables
  /\ lock \in [Tenants -> Replicas \cup {"none"}]
  /\ enforcer \in [Replicas -> Enforcer]
  /\ req \in [Replicas -> Request]

(***************************************************************************)
(* A request that was authorized under a rule for applications is on one.  *)
(***************************************************************************)
OnApplication ==
  \A r \in Replicas :
    Authorized(r) /\ req[r].rule.scope = "app" => req[r].target \in Apps

(***************************************************************************)
(* No version is known before it is committed, and a replica that has not  *)
(* finished its start has neither reloaded nor any request.                *)
(***************************************************************************)
VersionsSeen ==
  \A r \in Replicas :
    /\ enforcer[r].loadedV <= db.version
    /\ req[r].version <= db.version
    /\ enforcer[r].reloaded => enforcer[r].state = "up"
    /\ req[r].phase # "idle" => enforcer[r].state = "up"

(***************************************************************************)
(* The p rows of a reload under way are those of the version it began at   *)
(* unless the version has moved, and none is older than the request.       *)
(***************************************************************************)
ReloadSound ==
  \A r \in Replicas :
    req[r].phase = "loadG" =>
      /\ req[r].version = db.version => req[r].p = db.grants
      /\ req[r].p \subseteq db.grants \cup req[r].lostGrants

(***************************************************************************)
(* A request that counts holds the lock of its tenant's row, and what it   *)
(* counted is still there.                                                 *)
(***************************************************************************)
Counts(t) ==
  IsFiniteSet(AppsOf(db, t)) /\ IsFiniteSet(Members(db, t))

LockSound ==
  /\ \A t \in Tenants : Counts(t) /\ (lock[t] # "none" => TenantExists(t))
  /\ \A r \in Replicas :
       req[r].phase \in {"locked", "counted"} =>
         req[r].target \in Tenants /\ lock[req[r].target] = r
  /\ \A r \in Replicas :
       req[r].phase = "counted" =>
         /\ req[r].rule = RuleTable["CreateApplication"] =>
              req[r].count = Cardinality(AppsOf(db, req[r].target))
         /\ req[r].rule = RuleTable["InviteMember"] =>
              req[r].count = Cardinality(Members(db, req[r].target))

(***************************************************************************)
(* An operator that nobody bound by hand is bound only as the              *)
(* administrator of tenants it owns or administers, in their domains.      *)
(***************************************************************************)
Ordinary == Operators \ ({Root} \cup {b[1] : b \in CustomBindings})

TenantGrant(t) == GrantRow(TenantAdmin(t), t, "*", "*")

RowsSound ==
  /\ \A o \in Operators, t \in Tenants : db.ops[o] = "none" => db.members[t][o] = "none"
  /\ \A b \in db.bindings :
       b[1] \in Ordinary =>
         \E t \in Tenants : /\ b[2] = TenantAdmin(t) /\ b[3] = t
                            /\ db.members[t][b[1]] \in {"owner", "admin"}

IInv ==
  /\ TypeOK
  /\ OnApplication
  /\ VersionsSeen
  /\ ReloadSound
  /\ ReloadedIsCurrent
  /\ NothingStale
  /\ LockSound
  /\ RowsSound

-----------------------------------------------------------------------------
(* The rule table. *)

(***************************************************************************)
(* Every method of the table has one of its rules.                         *)
(***************************************************************************)
LEMMA RuleOfMethod ==
  ASSUME NEW m \in KnownMethods
  PROVE  \E row \in RuleRows : m \in row.methods /\ RuleTable[m] = row.rule
<1>1. \E row \in RuleRows : m \in row.methods
  BY DEF KnownMethods
<1> QED
  BY <1>1 DEF RuleTable

(***************************************************************************)
(* SetApplicationStatus is a request on an application.                    *)
(***************************************************************************)
LEMMA StatusRule == RuleTable["SetApplicationStatus"].scope = "app"
<1> DEFINE m == "SetApplicationStatus"
<1>1. m \in KnownMethods
  <2>1. \E row \in AppOtherRules : m \in row.methods
    BY DEF AppOtherRules, Row
  <2> QED
    BY <2>1 DEF KnownMethods, RuleRows
<1>2. PICK row \in RuleRows : m \in row.methods /\ RuleTable[m] = row.rule
  BY <1>1, RuleOfMethod
<1>3. row \notin AppWriteRules
  BY <1>2 DEF AppWriteRules, Row, Rule
<1>4. row \notin TenantRules
  BY <1>2 DEF TenantRules, Row, Rule
<1>5. row \notin SystemRules
  BY <1>2 DEF SystemRules, Row, Rule
<1>6. row \notin SelfRules
  <2>1. row \in SelfRules => row = Row(Rule("", "", FALSE, "self"), {"ListMyTenants"})
    BY DEF SelfRules
  <2>2. Row(Rule("", "", FALSE, "self"), {"ListMyTenants"}).methods = {"ListMyTenants"}
    BY DEF Row
  <2>3. m \notin {"ListMyTenants"}
    OBVIOUS
  <2> QED
    BY <1>2, <2>1, <2>2, <2>3, Zenon
<1>7. row \in AppOtherRules
  BY <1>2, <1>3, <1>4, <1>5, <1>6 DEF RuleRows
<1>8. row.rule.scope = "app"
  BY <1>7 DEF AppOtherRules, Row, Rule
<1> QED
  BY <1>2, <1>8

(***************************************************************************)
(* CreateApplication and InviteMember are authorized under two rules, so   *)
(* that a request counts what it then inserts.                             *)
(***************************************************************************)
LEMMA TenantRuleOf ==
  ASSUME NEW m \in {"CreateApplication", "InviteMember"}
  PROVE  \E row \in TenantRules : m \in row.methods /\ RuleTable[m] = row.rule
<1>1. m \in KnownMethods
  <2>1. \E row \in TenantRules : m \in row.methods
    BY DEF TenantRules, Row
  <2> QED
    BY <2>1 DEF KnownMethods, RuleRows
<1>2. PICK row \in RuleRows : m \in row.methods /\ RuleTable[m] = row.rule
  BY <1>1, RuleOfMethod
<1>3. row \notin AppWriteRules
  BY <1>2 DEF AppWriteRules, Row, Rule
<1>4. row \notin AppOtherRules
  BY <1>2 DEF AppOtherRules, Row, Rule
<1>5. row \notin SystemRules
  BY <1>2 DEF SystemRules, Row, Rule
<1>6. row \notin SelfRules
  <2>1. row \in SelfRules => row = Row(Rule("", "", FALSE, "self"), {"ListMyTenants"})
    BY DEF SelfRules
  <2>2. Row(Rule("", "", FALSE, "self"), {"ListMyTenants"}).methods = {"ListMyTenants"}
    BY DEF Row
  <2> QED
    BY <1>2, <2>1, <2>2
<1> QED
  BY <1>2, <1>3, <1>4, <1>5, <1>6 DEF RuleRows

(***************************************************************************)
(* The two RPCs that count against a quota have different rules, so a      *)
(* request under one cannot be taken for one under the other.              *)
(***************************************************************************)
LEMMA QuotaRules == RuleTable["CreateApplication"] # RuleTable["InviteMember"]
<1>1. PICK c \in TenantRules :
        "CreateApplication" \in c.methods /\ RuleTable["CreateApplication"] = c.rule
  BY TenantRuleOf
<1>2. PICK i \in TenantRules :
        "InviteMember" \in i.methods /\ RuleTable["InviteMember"] = i.rule
  BY TenantRuleOf
<1>3. c.rule.res = "application"
  BY <1>1 DEF TenantRules, Row, Rule
<1>4. i.rule.res = "member"
  BY <1>2 DEF TenantRules, Row, Rule
<1> QED
  BY <1>1, <1>2, <1>3, <1>4

(***************************************************************************)
(* A call names a rule of the table and a domain.                          *)
(***************************************************************************)
LEMMA CallOK ==
  ASSUME NEW c \in Calls
  PROVE  c[1] \in Operators /\ RuleTable[c[2]] \in Rules /\ c[3] \in Domains
<1>1. c[1] \in Operators /\ c[2] \in KnownMethods /\ c[3] \in Domains
  BY AdminAssumptions
<1>2. \E row \in RuleRows : RuleTable[c[2]] = row.rule
  BY <1>1, RuleOfMethod
<1> QED
  BY <1>1, <1>2 DEF Rules

(***************************************************************************)
(* The request at rest.                                                    *)
(***************************************************************************)
LEMMA IdleOK ==
  /\ Idle \in Request /\ Idle.phase = "idle" /\ Idle.version = 0
  /\ Idle.lostGrants = {} /\ Idle.lostBindings = {} /\ Idle.lostApps = {}
<1>1. "ListMyTenants" \in KnownMethods
  <2>1. \E row \in SelfRules : "ListMyTenants" \in row.methods
    BY DEF SelfRules, Row
  <2> QED
    BY <2>1 DEF KnownMethods, RuleRows
<1>2. RuleTable["ListMyTenants"] \in Rules
  BY <1>1, RuleOfMethod DEF Rules
<1> QED
  BY <1>2 DEF Idle, Request, Phases, Domains

-----------------------------------------------------------------------------
(* The statements of the data access layer. *)

(***************************************************************************)
(* A bump changes the version, and the audit log.                          *)
(***************************************************************************)
LEMMA BumpOK ==
  ASSUME NEW d \in Tables
  PROVE  /\ Bump(d) \in Tables
         /\ Bump(d).version = d.version + 1
         /\ Bump(d).ops = d.ops /\ Bump(d).grants = d.grants /\ Bump(d).bindings = d.bindings
         /\ Bump(d).plan = d.plan /\ Bump(d).members = d.members /\ Bump(d).apps = d.apps
         /\ Bump(d).enabled = d.enabled
<1> DEFINE e == BumpPolicyVersion(d)
<1>1. /\ e \in Tables /\ e.version = d.version + 1
      /\ e.ops = d.ops /\ e.grants = d.grants /\ e.bindings = d.bindings
      /\ e.plan = d.plan /\ e.members = d.members /\ e.apps = d.apps /\ e.enabled = d.enabled
  BY DEF BumpPolicyVersion, Tables
<1> HIDE DEF e
<1>2. LET f == InsertAdminAudit(e)
      IN  /\ f \in Tables /\ f.version = e.version
          /\ f.ops = e.ops /\ f.grants = e.grants /\ f.bindings = e.bindings
          /\ f.plan = e.plan /\ f.members = e.members /\ f.apps = e.apps /\ f.enabled = e.enabled
  <2>1. e \in Tables
    BY <1>1
  <2> QED
    BY <2>1 DEF InsertAdminAudit, Tables
<1> QED
  BY <1>1, <1>2 DEF Bump, e

(***************************************************************************)
(* Inserting an operator and a membership.                                 *)
(***************************************************************************)
LEMMA InsertOperatorOK ==
  ASSUME NEW d \in Tables, NEW o \in Operators
  PROVE  /\ InsertOperator(d, o) \in Tables
         /\ InsertOperator(d, o).ops = [d.ops EXCEPT ![o] = "active"]
         /\ InsertOperator(d, o).version = d.version
         /\ InsertOperator(d, o).grants = d.grants /\ InsertOperator(d, o).bindings = d.bindings
         /\ InsertOperator(d, o).plan = d.plan /\ InsertOperator(d, o).members = d.members
         /\ InsertOperator(d, o).apps = d.apps /\ InsertOperator(d, o).enabled = d.enabled
BY DEF InsertOperator, Tables

(***************************************************************************)
(* EnsureOperator leaves an operator with that id and touches no other     *)
(* row.                                                                    *)
(***************************************************************************)
LEMMA EnsureOperatorOK ==
  ASSUME NEW d \in Tables, NEW o \in Operators
  PROVE  /\ EnsureOperator(d, o) \in Tables
         /\ EnsureOperator(d, o).ops[o] # "none"
         /\ \A x \in Operators \ {o} : EnsureOperator(d, o).ops[x] = d.ops[x]
         /\ EnsureOperator(d, o).version = d.version
         /\ EnsureOperator(d, o).grants = d.grants /\ EnsureOperator(d, o).bindings = d.bindings
         /\ EnsureOperator(d, o).plan = d.plan /\ EnsureOperator(d, o).members = d.members
         /\ EnsureOperator(d, o).apps = d.apps /\ EnsureOperator(d, o).enabled = d.enabled
<1>1. CASE d.ops[o] = "none"
  <2>1. EnsureOperator(d, o) = InsertOperator(d, o)
    BY <1>1 DEF EnsureOperator
  <2>2. d.ops \in [Operators -> {"none", "active", "disabled"}]
    BY DEF Tables
  <2>3. [d.ops EXCEPT ![o] = "active"][o] # "none"
    BY <2>2
  <2>4. \A x \in Operators \ {o} : [d.ops EXCEPT ![o] = "active"][x] = d.ops[x]
    BY <2>2
  <2> DEFINE e == InsertOperator(d, o)
  <2>5. /\ e \in Tables /\ e.ops = [d.ops EXCEPT ![o] = "active"] /\ e.version = d.version
        /\ e.grants = d.grants /\ e.bindings = d.bindings /\ e.plan = d.plan
        /\ e.members = d.members /\ e.apps = d.apps /\ e.enabled = d.enabled
    BY InsertOperatorOK
  <2> HIDE DEF e
  <2>6. e.ops[o] # "none" /\ \A x \in Operators \ {o} : e.ops[x] = d.ops[x]
    BY <2>3, <2>4, <2>5, Zenon
  <2>7. EnsureOperator(d, o) = e
    BY <2>1 DEF e
  <2> QED
    BY <2>5, <2>6, <2>7
<1>2. CASE d.ops[o] # "none"
  <2>1. EnsureOperator(d, o) = d
    BY <1>2 DEF EnsureOperator
  <2> QED
    BY <1>2, <2>1
<1> QED
  BY <1>1, <1>2

(***************************************************************************)
(* InsertMembership sets the tier of one member of one tenant and nothing  *)
(* else.                                                                   *)
(***************************************************************************)
LEMMA InsertMembershipOK ==
  ASSUME NEW d \in Tables, NEW t \in Tenants, NEW o \in Operators,
         NEW tier \in {"owner", "admin", "member"}
  PROVE  LET e == InsertMembership(d, t, o, tier)
         IN  /\ e \in Tables
             /\ e.members[t][o] = tier
             /\ \A u \in Tenants, x \in Operators :
                  u # t \/ x # o => e.members[u][x] = d.members[u][x]
             /\ e.version = d.version /\ e.ops = d.ops /\ e.grants = d.grants
             /\ e.bindings = d.bindings /\ e.plan = d.plan /\ e.apps = d.apps
             /\ e.enabled = d.enabled
BY DEF InsertMembership, Tables

(***************************************************************************)
(* Inserting and deleting the rows of roles, grants and bindings.          *)
(***************************************************************************)
LEMMA RoleRowOK ==
  ASSUME NEW d \in Tables, NEW role \in Roles
  PROVE  LET e == InsertRole(d, role)
         IN  /\ e \in Tables
             /\ e.version = d.version /\ e.ops = d.ops /\ e.grants = d.grants
             /\ e.bindings = d.bindings /\ e.members = d.members /\ e.plan = d.plan
             /\ e.apps = d.apps /\ e.enabled = d.enabled
BY DEF InsertRole, Tables

(***************************************************************************)
(* Inserting or deleting a role grant changes that row of the grants       *)
(* alone.                                                                  *)
(***************************************************************************)
LEMMA GrantRowOK ==
  ASSUME NEW d \in Tables, NEW row \in Grants,
         NEW e \in {InsertRoleGrant(d, row), DeleteRoleGrant(d, row)}
  PROVE  /\ e \in Tables
         /\ e = InsertRoleGrant(d, row) => e.grants = d.grants \cup {row}
         /\ e = DeleteRoleGrant(d, row) => e.grants = d.grants \ {row}
         /\ e.version = d.version /\ e.ops = d.ops /\ e.bindings = d.bindings
         /\ e.members = d.members /\ e.plan = d.plan /\ e.apps = d.apps /\ e.enabled = d.enabled
<1>1. CASE e = InsertRoleGrant(d, row)
  BY <1>1 DEF InsertRoleGrant, DeleteRoleGrant, Tables
<1>2. CASE e = DeleteRoleGrant(d, row)
  BY <1>2 DEF InsertRoleGrant, DeleteRoleGrant, Tables
<1> QED
  BY <1>1, <1>2

(***************************************************************************)
(* Inserting or deleting a subject's role changes that binding alone.      *)
(***************************************************************************)
LEMMA BindingRowOK ==
  ASSUME NEW d \in Tables, NEW b \in Bindings,
         NEW e \in {InsertSubjectRole(d, b), DeleteSubjectRole(d, b)}
  PROVE  /\ e \in Tables
         /\ e = InsertSubjectRole(d, b) => e.bindings = d.bindings \cup {b}
         /\ e = DeleteSubjectRole(d, b) => e.bindings = d.bindings \ {b}
         /\ e.version = d.version /\ e.ops = d.ops /\ e.grants = d.grants
         /\ e.members = d.members /\ e.plan = d.plan /\ e.apps = d.apps /\ e.enabled = d.enabled
<1>1. CASE e = InsertSubjectRole(d, b)
  BY <1>1 DEF InsertSubjectRole, DeleteSubjectRole, Tables
<1>2. CASE e = DeleteSubjectRole(d, b)
  BY <1>2 DEF InsertSubjectRole, DeleteSubjectRole, Tables
<1> QED
  BY <1>1, <1>2

(***************************************************************************)
(* The role, the grant and the binding of a tenant's administrator.        *)
(***************************************************************************)
LEMMA BindTenantAdminOK ==
  ASSUME NEW d \in Tables, NEW t \in Tenants, NEW o \in Operators
  PROVE  LET e == BindTenantAdminTx(d, t, o)
         IN  /\ e \in Tables
             /\ e.grants = d.grants \cup {TenantGrant(t)}
             /\ e.bindings = d.bindings \cup {<<o, TenantAdmin(t), t>>}
             /\ e.version = d.version /\ e.ops = d.ops /\ e.members = d.members
             /\ e.plan = d.plan /\ e.apps = d.apps /\ e.enabled = d.enabled
<1>1. TenantAdmin(t) \in Roles /\ TenantGrant(t) \in Grants
      /\ <<o, TenantAdmin(t), t>> \in Bindings
  BY DEF Roles, Grants, Bindings, Domains, TenantGrant
<1> DEFINE e1 == InsertRole(d, TenantAdmin(t))
           e2 == InsertRoleGrant(e1, TenantGrant(t))
           e3 == InsertSubjectRole(e2, <<o, TenantAdmin(t), t>>)
<1>2. /\ e1 \in Tables /\ e1.version = d.version /\ e1.ops = d.ops /\ e1.members = d.members
      /\ e1.grants = d.grants /\ e1.bindings = d.bindings
      /\ e1.plan = d.plan /\ e1.apps = d.apps /\ e1.enabled = d.enabled
  BY <1>1, RoleRowOK
<1> HIDE DEF e1
<1>3. /\ e2 \in Tables /\ e2.version = e1.version /\ e2.ops = e1.ops /\ e2.members = e1.members
      /\ e2.grants = e1.grants \cup {TenantGrant(t)} /\ e2.bindings = e1.bindings
      /\ e2.plan = e1.plan /\ e2.apps = e1.apps /\ e2.enabled = e1.enabled
  BY <1>1, <1>2, GrantRowOK
<1> HIDE DEF e2
<1>4. /\ e3 \in Tables /\ e3.version = e2.version /\ e3.ops = e2.ops /\ e3.members = e2.members
      /\ e3.grants = e2.grants /\ e3.bindings = e2.bindings \cup {<<o, TenantAdmin(t), t>>}
      /\ e3.plan = e2.plan /\ e3.apps = e2.apps /\ e3.enabled = e2.enabled
  BY <1>1, <1>3, BindingRowOK
<1>5. BindTenantAdminTx(d, t, o) = e3
  BY DEF BindTenantAdminTx, TenantGrant, e1, e2
<1> HIDE DEF e3
<1> QED
  BY <1>2, <1>3, <1>4, <1>5

-----------------------------------------------------------------------------
(* What a commit does to the requests of the other replicas. *)

(***************************************************************************)
(* The history of a request keeps covering what was in the tables.         *)
(***************************************************************************)
LEMMA WithLostOK ==
  ASSUME TypeOK, NEW q \in Request, NEW new \in Tables
  PROVE  LET w == WithLost(q, new)
         IN  /\ w \in Request
             /\ w.phase = q.phase /\ w.rule = q.rule /\ w.target = q.target
             /\ w.version = q.version /\ w.p = q.p /\ w.count = q.count
             /\ q.phase # "idle" =>
                  /\ db.grants \cup q.lostGrants \subseteq new.grants \cup w.lostGrants
                  /\ db.bindings \cup q.lostBindings \subseteq new.bindings \cup w.lostBindings
                  /\ db.enabled \cup q.lostApps \subseteq new.enabled \cup w.lostApps
<1>1. db.grants \subseteq Grants /\ db.bindings \subseteq Bindings /\ db.enabled \subseteq Apps
  BY DEF TypeOK, Tables
<1>2. CASE q.phase = "idle"
  BY <1>2 DEF WithLost
<1>3. CASE q.phase # "idle"
  <2> DEFINE G == q.lostGrants \cup (db.grants \ new.grants)
             B == q.lostBindings \cup (db.bindings \ new.bindings)
             A == q.lostApps \cup (db.enabled \ new.enabled)
  <2>1. G \in SUBSET Grants /\ B \in SUBSET Bindings /\ A \in SUBSET Apps
    BY <1>1 DEF Request
  <2>2. /\ db.grants \cup q.lostGrants \subseteq new.grants \cup G
        /\ db.bindings \cup q.lostBindings \subseteq new.bindings \cup B
        /\ db.enabled \cup q.lostApps \subseteq new.enabled \cup A
    OBVIOUS
  <2>3. WithLost(q, new) = [q EXCEPT !.lostGrants = G, !.lostBindings = B, !.lostApps = A]
    BY <1>3 DEF WithLost
  <2> HIDE DEF G, B, A
  <2> QED
    BY <2>1, <2>2, <2>3 DEF Request
<1> QED
  BY <1>2, <1>3

(***************************************************************************)
(* A commit installs its tables, ends the request, tells the other         *)
(* requests what they lost, and frees the locks its transaction held.      *)
(***************************************************************************)
LEMMA CommitFrame ==
  ASSUME TypeOK, NEW r \in Replicas, NEW new \in Tables, Commit(r, new)
  PROVE  /\ TypeOK' /\ db' = new /\ enforcer' = enforcer
         /\ req'[r] = Idle
         /\ \A x \in Replicas \ {r} : req'[x] = WithLost(req[x], new)
         /\ \A t \in Tenants : lock'[t] = IF lock[t] = r THEN "none" ELSE lock[t]
<1>1. /\ db' = new /\ enforcer' = enforcer
      /\ req' = [x \in Replicas |-> IF x = r THEN Idle ELSE WithLost(req[x], new)]
      /\ lock' = [t \in Tenants |-> IF lock[t] = r THEN "none" ELSE lock[t]]
  BY DEF Commit
<1>2. \A x \in Replicas : req[x] \in Request
  BY DEF TypeOK
<1>3. \A x \in Replicas : WithLost(req[x], new) \in Request
  BY <1>2, WithLostOK
<1>4. req' \in [Replicas -> Request]
  BY <1>1, <1>3, IdleOK
<1>5. lock' \in [Tenants -> Replicas \cup {"none"}]
  BY <1>1 DEF TypeOK
<1>6. TypeOK'
  BY <1>1, <1>4, <1>5 DEF TypeOK
<1> QED
  BY <1>1, <1>6

(***************************************************************************)
(* Every write of a grant or of a binding bumps the version.               *)
(***************************************************************************)
Bumped(new) ==
  \/ new.version = db.version + 1
  \/ new.version = db.version /\ new.grants = db.grants /\ new.bindings = db.bindings

(***************************************************************************)
(* A commit that bumps policy_version whenever it touches grants or        *)
(* bindings leaves no enforcer believing it is current when it is not.     *)
(***************************************************************************)
LEMMA CommitKeepsReloads ==
  ASSUME IInv, NEW r \in Replicas, NEW new \in Tables, Commit(r, new), Bumped(new)
  PROVE  OnApplication' /\ VersionsSeen' /\ ReloadSound' /\ ReloadedIsCurrent' /\ NothingStale'
<1>1. TypeOK
  BY DEF IInv
<1>2. /\ db' = new /\ enforcer' = enforcer /\ req'[r] = Idle
      /\ \A x \in Replicas \ {r} : req'[x] = WithLost(req[x], new)
  BY <1>1, CommitFrame
<1>3. db.version \in Nat /\ db.version <= new.version
  BY <1>1 DEF TypeOK, Tables, Bumped
<1> SUFFICES ASSUME NEW x \in Replicas
             PROVE  /\ (Authorized(x) /\ req[x].rule.scope = "app" => req[x].target \in Apps)'
                    /\ enforcer[x].loadedV <= new.version /\ req'[x].version <= new.version
                    /\ enforcer[x].reloaded => enforcer[x].state = "up"
                    /\ req'[x].phase # "idle" => enforcer[x].state = "up"
                    /\ req'[x].phase = "loadG" =>
                         /\ req'[x].version = new.version => req'[x].p = new.grants
                         /\ req'[x].p \subseteq new.grants \cup req'[x].lostGrants
                    /\ enforcer[x].reloaded /\ enforcer[x].loadedV = new.version =>
                         enforcer[x].p = new.grants /\ enforcer[x].g = new.bindings
                    /\ Authorized(x)' /\ enforcer[x].reloaded =>
                         /\ enforcer[x].p \subseteq new.grants \cup req'[x].lostGrants
                         /\ enforcer[x].g \subseteq new.bindings \cup req'[x].lostBindings
                         /\ req'[x].rule.isWrite /\ req'[x].phase = "ready" =>
                              req'[x].target \in new.enabled \cup req'[x].lostApps
  BY <1>2 DEF OnApplication, VersionsSeen, ReloadSound, ReloadedIsCurrent, NothingStale
<1>4. enforcer[x].loadedV \in Nat /\ enforcer[x].loadedV <= db.version
  BY <1>1 DEF TypeOK, Enforcer, IInv, VersionsSeen
<1>5. enforcer[x].loadedV <= new.version /\ (enforcer[x].reloaded => enforcer[x].state = "up")
  BY <1>3, <1>4, <1>1 DEF IInv, VersionsSeen, TypeOK, Tables
<1>6. enforcer[x].reloaded /\ enforcer[x].loadedV = new.version =>
        enforcer[x].p = new.grants /\ enforcer[x].g = new.bindings
  <2>1. enforcer[x].loadedV = new.version => new.version # db.version + 1
    BY <1>3, <1>4
  <2> QED
    BY <2>1 DEF Bumped, IInv, ReloadedIsCurrent
<1>7. CASE x = r
  BY <1>2, <1>3, <1>5, <1>6, <1>7, IdleOK DEF Authorized, Tables
<1>8. CASE x # r
  <2> DEFINE q == req[x]
             w == req'[x]
  <2>1. q \in Request /\ w = WithLost(q, new)
    BY <1>1, <1>2, <1>8 DEF TypeOK
  <2>2. /\ w.phase = q.phase /\ w.rule = q.rule /\ w.target = q.target
        /\ w.version = q.version /\ w.p = q.p
        /\ q.phase # "idle" =>
             /\ db.grants \cup q.lostGrants \subseteq new.grants \cup w.lostGrants
             /\ db.bindings \cup q.lostBindings \subseteq new.bindings \cup w.lostBindings
             /\ db.enabled \cup q.lostApps \subseteq new.enabled \cup w.lostApps
    BY <1>1, <2>1, WithLostOK
  <2>3. q.version \in Nat /\ q.version <= db.version
    BY <2>1 DEF Request, IInv, VersionsSeen
  <2>4. w.version <= new.version /\ (q.version = new.version => new.version # db.version + 1)
    BY <1>3, <2>2, <2>3 DEF Tables
  <2>5. q.phase = "loadG" =>
          /\ q.version = new.version => q.p = new.grants
          /\ q.p \subseteq new.grants \cup w.lostGrants
    <3>1. q.phase = "loadG" /\ q.version = new.version => q.p = new.grants
      BY <2>4 DEF Bumped, IInv, ReloadSound
    <3>2. q.phase = "loadG" => q.p \subseteq db.grants \cup q.lostGrants
      BY DEF IInv, ReloadSound
    <3> QED
      BY <2>2, <3>1, <3>2
  <2>6. /\ Authorized(x)' <=> Authorized(x)
        /\ Authorized(x) => q.phase # "idle"
    BY <2>2 DEF Authorized
  <2>7. Authorized(x) /\ enforcer[x].reloaded =>
          /\ enforcer[x].p \subseteq new.grants \cup w.lostGrants
          /\ enforcer[x].g \subseteq new.bindings \cup w.lostBindings
          /\ q.rule.isWrite /\ q.phase = "ready" => q.target \in new.enabled \cup w.lostApps
    BY <2>2, <2>6 DEF IInv, NothingStale
  <2>8. (Authorized(x) /\ req[x].rule.scope = "app" => req[x].target \in Apps)'
    BY <2>2, <2>6 DEF IInv, OnApplication
  <2>9. q.phase # "idle" => enforcer[x].state = "up"
    BY DEF IInv, VersionsSeen
  <2> QED
    BY <1>5, <1>6, <2>2, <2>4, <2>5, <2>6, <2>7, <2>8, <2>9
<1> QED
  BY <1>7, <1>8

(***************************************************************************)
(* What a committed transaction of replica r may do to the applications    *)
(* and the members of a tenant: nothing while another holds the lock.      *)
(***************************************************************************)
Undisturbed(r, new) ==
  \A t \in Tenants :
    /\ IsFiniteSet(AppsOf(new, t)) /\ IsFiniteSet(Members(new, t))
    /\ db.plan[t] # "none" => new.plan[t] # "none"
    /\ lock[t] \notin {r, "none"} =>
         AppsOf(new, t) = AppsOf(db, t) /\ Members(new, t) = Members(db, t)

(***************************************************************************)
(* A commit that leaves alone the tenants whose lock another request holds *)
(* also leaves true what those requests counted.                           *)
(***************************************************************************)
LEMMA CommitKeepsLocks ==
  ASSUME IInv, NEW r \in Replicas, NEW new \in Tables, Commit(r, new), Undisturbed(r, new)
  PROVE  LockSound'
<1>1. TypeOK /\ LockSound
  BY DEF IInv
<1>2. /\ db' = new /\ req'[r] = Idle
      /\ \A x \in Replicas \ {r} : req'[x] = WithLost(req[x], new)
      /\ \A t \in Tenants : lock'[t] = IF lock[t] = r THEN "none" ELSE lock[t]
  BY <1>1, CommitFrame
<1>3. r # "none" /\ \A x \in Replicas : x # "none"
  BY AdminAssumptions
<1>4. ASSUME NEW t \in Tenants
      PROVE  Counts(t)' /\ (lock'[t] # "none" => TenantExists(t)')
  BY <1>1, <1>2 DEF Undisturbed, Counts, LockSound, TenantExists, AppsOf, Members
<1>5. ASSUME NEW x \in Replicas, req'[x].phase \in {"locked", "counted"}
      PROVE  /\ x # r /\ req'[x].phase = req[x].phase /\ req'[x].target = req[x].target
             /\ req'[x].rule = req[x].rule /\ req'[x].count = req[x].count
             /\ req[x].target \in Tenants /\ lock[req[x].target] = x
             /\ lock'[req[x].target] = x
             /\ AppsOf(new, req[x].target) = AppsOf(db, req[x].target)
             /\ Members(new, req[x].target) = Members(db, req[x].target)
  <2>1. x # r
    BY <1>2, <1>5, IdleOK
  <2>2. req[x] \in Request /\ req'[x] = WithLost(req[x], new)
    BY <1>1, <1>2, <2>1 DEF TypeOK
  <2>3. /\ req'[x].phase = req[x].phase /\ req'[x].target = req[x].target
        /\ req'[x].rule = req[x].rule /\ req'[x].count = req[x].count
    BY <1>1, <2>2, WithLostOK
  <2>4. req[x].target \in Tenants /\ lock[req[x].target] = x
    BY <1>1, <1>5, <2>3 DEF LockSound
  <2>5. lock[req[x].target] \notin {r, "none"}
    BY <1>3, <2>1, <2>4
  <2> QED
    BY <1>2, <2>1, <2>3, <2>4, <2>5 DEF Undisturbed
<1>6. ASSUME NEW x \in Replicas, req'[x].phase = "counted"
      PROVE  /\ req'[x].rule = RuleTable["CreateApplication"] =>
                  req'[x].count = Cardinality(AppsOf(new, req'[x].target))
             /\ req'[x].rule = RuleTable["InviteMember"] =>
                  req'[x].count = Cardinality(Members(new, req'[x].target))
  <2>1. /\ req'[x].phase = req[x].phase /\ req'[x].target = req[x].target
        /\ req'[x].rule = req[x].rule /\ req'[x].count = req[x].count
        /\ AppsOf(new, req[x].target) = AppsOf(db, req[x].target)
        /\ Members(new, req[x].target) = Members(db, req[x].target)
    BY <1>5, <1>6
  <2> QED
    BY <1>1, <1>6, <2>1 DEF LockSound
<1>7. \A x \in Replicas :
        req'[x].phase \in {"locked", "counted"} =>
          req'[x].target \in Tenants /\ lock'[req'[x].target] = x
  BY <1>5
<1> QED
  BY <1>2, <1>4, <1>6, <1>7 DEF LockSound

(***************************************************************************)
(* The quotas, as a relation between the tables before and after.          *)
(***************************************************************************)
QuotaKept(new) ==
  \A t \in Tenants :
    /\ AppsOf(new, t) # AppsOf(db, t) =>
         Cardinality(AppsOf(new, t)) <= MaxApplications[new.plan[t]]
    /\ (\E o \in Operators : db.members[t][o] = "none" /\ new.members[t][o] = "admin") =>
         Cardinality(Members(new, t)) <= MaxMembers[new.plan[t]]

Legal(r, new) ==
  Commit(r, new) /\ Bumped(new) /\ Undisturbed(r, new) /\ QuotaKept(new) /\ RowsSound'

(***************************************************************************)
(* A commit that leaves the applications and the members alone.            *)
(***************************************************************************)
LEMMA Uncounted ==
  ASSUME IInv, NEW r \in Replicas, NEW new \in Tables,
         new.apps = db.apps, new.members = db.members,
         \A t \in Tenants : db.plan[t] # "none" => new.plan[t] # "none"
  PROVE  Undisturbed(r, new) /\ QuotaKept(new)
<1>1. \A t : AppsOf(new, t) = AppsOf(db, t) /\ Members(new, t) = Members(db, t)
  BY DEF AppsOf, Members
<1>2. Undisturbed(r, new)
  BY <1>1 DEF Undisturbed, IInv, LockSound, Counts
<1>3. QuotaKept(new)
  BY <1>1 DEF QuotaKept
<1> QED
  BY <1>2, <1>3

(***************************************************************************)
(* A commit that leaves the bindings and memberships alone, or takes       *)
(* bindings away, and deletes no operator.                                 *)
(***************************************************************************)
LEMMA RowsKept ==
  ASSUME RowsSound, db'.bindings \subseteq db.bindings, db'.members = db.members,
         \A o \in Operators : db'.ops[o] = "none" => db.ops[o] = "none"
  PROVE  RowsSound'
BY DEF RowsSound

-----------------------------------------------------------------------------
(* The handlers, one by one. *)

(***************************************************************************)
(* Status and plan changes, and the creation of operators and roles.       *)
(***************************************************************************)
LEMMA AccountHandlers ==
  ASSUME IInv, NEW r \in Replicas,
         \/ SetApplicationStatus(r)
         \/ \E o \in Operators : CreateOperator(r, o)
         \/ \E o \in Operators, s \in {"active", "disabled"} : SetOperatorStatus(r, o, s)
         \/ \E t \in Tenants, plan \in Plans : ChangeTenantPlan(r, t, plan)
         \/ \E role \in Roles : CreateAdminRole(r, role)
  PROVE  \E new \in Tables : Legal(r, new)
<1>1. TypeOK /\ db \in Tables /\ RowsSound
  BY DEF IInv, TypeOK
<1>2. ASSUME NEW new \in Tables, Commit(r, new), Bumped(new),
             new.apps = db.apps, new.members = db.members,
             new.bindings = db.bindings, new.grants = db.grants,
             \A t \in Tenants : db.plan[t] # "none" => new.plan[t] # "none",
             \A o \in Operators : new.ops[o] = "none" => db.ops[o] = "none"
      PROVE  \E x \in Tables : Legal(r, x)
  <2>1. db' = new
    BY <1>2 DEF Commit
  <2>2. RowsSound'
    BY <1>1, <1>2, <2>1, RowsKept
  <2> QED
    BY <1>2, <2>2, Uncounted DEF Legal
<1>3. CASE SetApplicationStatus(r)
  <2>1. req[r].target \in Apps
    BY <1>3, StatusRule DEF SetApplicationStatus, Serves, IInv, OnApplication, Authorized
  <2>2. PICK S \in SUBSET Apps : Commit(r, [db EXCEPT !.enabled = S])
    <3>1. db.enabled \subseteq Apps
      BY <1>1 DEF Tables
    <3>2. \/ Commit(r, [db EXCEPT !.enabled = db.enabled \cup {req[r].target}])
          \/ Commit(r, [db EXCEPT !.enabled = db.enabled \ {req[r].target}])
      BY <1>3 DEF SetApplicationStatus
    <3>3. db.enabled \cup {req[r].target} \in SUBSET Apps
          /\ db.enabled \ {req[r].target} \in SUBSET Apps
      BY <2>1, <3>1
    <3> QED
      BY <3>2, <3>3
  <2> DEFINE new == [db EXCEPT !.enabled = S]
  <2>3. /\ new \in Tables /\ new.version = db.version /\ new.grants = db.grants
        /\ new.bindings = db.bindings /\ new.apps = db.apps /\ new.members = db.members
        /\ new.plan = db.plan /\ new.ops = db.ops
    BY <1>1 DEF Tables
  <2> HIDE DEF new
  <2>4. Commit(r, new) /\ Bumped(new)
    BY <2>2, <2>3 DEF new, Bumped
  <2> QED
    BY <1>2, <2>3, <2>4
<1>4. ASSUME NEW o \in Operators, CreateOperator(r, o)
      PROVE  \E x \in Tables : Legal(r, x)
  <2> DEFINE e == InsertOperator(db, o)
             new == Bump(e)
  <2>1. /\ e \in Tables /\ e.ops = [db.ops EXCEPT ![o] = "active"] /\ e.version = db.version
        /\ e.grants = db.grants /\ e.bindings = db.bindings /\ e.plan = db.plan
        /\ e.members = db.members /\ e.apps = db.apps
    BY <1>1, InsertOperatorOK
  <2>2. \A x \in Operators : e.ops[x] = "none" => db.ops[x] = "none"
    <3>1. db.ops \in [Operators -> {"none", "active", "disabled"}]
      BY <1>1 DEF Tables
    <3>2. \A x \in Operators : [db.ops EXCEPT ![o] = "active"][x] = "none" => db.ops[x] = "none"
      BY <3>1
    <3> QED
      BY <2>1, <3>2
  <2> HIDE DEF e
  <2>3. /\ new \in Tables /\ new.version = e.version + 1 /\ new.ops = e.ops
        /\ new.grants = e.grants /\ new.bindings = e.bindings /\ new.plan = e.plan
        /\ new.members = e.members /\ new.apps = e.apps
    BY <2>1, BumpOK
  <2>4. Commit(r, new)
    BY <1>4 DEF CreateOperator, e
  <2> HIDE DEF new
  <2>5. Bumped(new)
    BY <2>1, <2>3 DEF Bumped
  <2> QED
    BY <1>2, <2>1, <2>2, <2>3, <2>4, <2>5
<1>5. ASSUME NEW o \in Operators, NEW status \in {"active", "disabled"},
             SetOperatorStatus(r, o, status)
      PROVE  \E x \in Tables : Legal(r, x)
  <2> DEFINE e == [db EXCEPT !.ops[o] = status]
             new == Bump(e)
  <2>1. /\ e \in Tables /\ e.version = db.version
        /\ e.grants = db.grants /\ e.bindings = db.bindings /\ e.plan = db.plan
        /\ e.members = db.members /\ e.apps = db.apps
    BY <1>1 DEF Tables
  <2>2. \A x \in Operators : e.ops[x] = "none" => db.ops[x] = "none"
    BY <1>1 DEF Tables
  <2> HIDE DEF e
  <2>3. /\ new \in Tables /\ new.version = e.version + 1 /\ new.ops = e.ops
        /\ new.grants = e.grants /\ new.bindings = e.bindings /\ new.plan = e.plan
        /\ new.members = e.members /\ new.apps = e.apps
    BY <2>1, BumpOK
  <2>4. Commit(r, new)
    BY <1>5 DEF SetOperatorStatus, e
  <2> HIDE DEF new
  <2>5. Bumped(new)
    BY <2>1, <2>3 DEF Bumped
  <2> QED
    BY <1>2, <2>1, <2>2, <2>3, <2>4, <2>5
<1>6. ASSUME NEW t \in Tenants, NEW plan \in Plans, ChangeTenantPlan(r, t, plan)
      PROVE  \E x \in Tables : Legal(r, x)
  <2> DEFINE new == [db EXCEPT !.plan[t] = plan]
  <2>1. plan # "none"
    BY AdminAssumptions
  <2>2. /\ new \in Tables /\ new.version = db.version /\ new.grants = db.grants
        /\ new.bindings = db.bindings /\ new.apps = db.apps /\ new.members = db.members
        /\ new.ops = db.ops
    BY <1>1 DEF Tables
  <2>3. \A u \in Tenants : db.plan[u] # "none" => new.plan[u] # "none"
    BY <1>1, <2>1 DEF Tables
  <2>4. Commit(r, new)
    BY <1>6 DEF ChangeTenantPlan, ChangeTenantPlanTx
  <2> HIDE DEF new
  <2>5. Bumped(new)
    BY <2>2 DEF Bumped
  <2> QED
    BY <1>2, <2>2, <2>3, <2>4, <2>5
<1>7. ASSUME NEW role \in Roles, CreateAdminRole(r, role)
      PROVE  \E x \in Tables : Legal(r, x)
  <2> DEFINE new == InsertRole(db, role)
  <2>1. /\ new \in Tables /\ new.version = db.version /\ new.grants = db.grants
        /\ new.bindings = db.bindings /\ new.apps = db.apps /\ new.members = db.members
        /\ new.plan = db.plan /\ new.ops = db.ops
    BY <1>1, RoleRowOK
  <2>2. Commit(r, new)
    BY <1>7 DEF CreateAdminRole
  <2> HIDE DEF new
  <2>3. Bumped(new)
    BY <2>1 DEF Bumped
  <2> QED
    BY <1>2, <2>1, <2>2, <2>3
<1> QED
  BY <1>3, <1>4, <1>5, <1>6, <1>7

(***************************************************************************)
(* Grants and bindings made and taken away by hand: a binding makes its    *)
(* operator one bound by hand.                                             *)
(***************************************************************************)
LEMMA PolicyHandlers ==
  ASSUME IInv, NEW r \in Replicas,
         \/ \E c \in CustomGrants : GrantAdminRole(r, c)
         \/ \E row \in db.grants : RevokeAdminGrant(r, row)
         \/ \E b \in CustomBindings : BindOperatorRole(r, b)
         \/ \E b \in db.bindings : UnbindOperatorRole(r, b)
  PROVE  \E new \in Tables : Legal(r, new)
<1>1. TypeOK /\ db \in Tables /\ RowsSound
  BY DEF IInv, TypeOK
<1>2. ASSUME NEW e \in Tables, Commit(r, Bump(e)), e.version = db.version,
             e.ops = db.ops, e.apps = db.apps, e.members = db.members, e.plan = db.plan,
             \A b \in e.bindings : b \in db.bindings \/ b[1] \notin Ordinary
      PROVE  \E x \in Tables : Legal(r, x)
  <2> DEFINE new == Bump(e)
  <2>1. /\ new \in Tables /\ new.version = e.version + 1 /\ new.ops = e.ops
        /\ new.grants = e.grants /\ new.bindings = e.bindings /\ new.plan = e.plan
        /\ new.members = e.members /\ new.apps = e.apps
    BY <1>2, BumpOK
  <2>2. Commit(r, new)
    BY <1>2
  <2> HIDE DEF new
  <2>3. Bumped(new) /\ db' = new
    BY <1>2, <2>1, <2>2 DEF Bumped, Commit
  <2>4. Undisturbed(r, new) /\ QuotaKept(new)
    BY <1>2, <2>1, Uncounted
  <2>5. /\ db'.ops = db.ops /\ db'.members = db.members
        /\ \A b \in db'.bindings : b \in db.bindings \/ b[1] \notin Ordinary
    BY <1>2, <2>1, <2>3
  <2>6. RowsSound'
    BY <1>1, <2>5 DEF RowsSound
  <2> QED
    BY <2>1, <2>2, <2>3, <2>4, <2>6 DEF Legal
<1>3. ASSUME NEW c \in CustomGrants, GrantAdminRole(r, c)
      PROVE  \E x \in Tables : Legal(r, x)
  <2> DEFINE row == GrantRow(c[1], c[2], c[3], c[4])
             e == InsertRoleGrant(db, row)
  <2>1. row \in Grants
    BY DEF Grants
  <2>3. Commit(r, Bump(e))
    BY <1>3 DEF GrantAdminRole
  <2> HIDE DEF row
  <2>4. /\ e \in Tables /\ e.grants = db.grants \cup {row} /\ e.version = db.version
        /\ e.ops = db.ops /\ e.bindings = db.bindings /\ e.members = db.members
        /\ e.plan = db.plan /\ e.apps = db.apps
    BY <1>1, <2>1, GrantRowOK
  <2> HIDE DEF e
  <2> QED
    BY <1>2, <2>3, <2>4
<1>4. ASSUME NEW row \in db.grants, RevokeAdminGrant(r, row)
      PROVE  \E x \in Tables : Legal(r, x)
  <2> DEFINE e == DeleteRoleGrant(db, row)
  <2>1. row \in Grants
    BY <1>1 DEF Tables
  <2>2. Commit(r, Bump(e))
    BY <1>4 DEF RevokeAdminGrant
  <2>3. /\ e \in Tables /\ e.grants = db.grants \ {row} /\ e.version = db.version
        /\ e.ops = db.ops /\ e.bindings = db.bindings /\ e.members = db.members
        /\ e.plan = db.plan /\ e.apps = db.apps
    BY <1>1, <2>1, GrantRowOK
  <2> HIDE DEF e
  <2> QED
    BY <1>2, <2>2, <2>3
<1>5. ASSUME NEW b \in CustomBindings, BindOperatorRole(r, b)
      PROVE  \E x \in Tables : Legal(r, x)
  <2> DEFINE e == InsertSubjectRole(db, b)
  <2>1. b \in Bindings /\ b[1] \notin Ordinary
    BY AdminAssumptions DEF Ordinary
  <2>2. Commit(r, Bump(e))
    BY <1>5 DEF BindOperatorRole
  <2>3. /\ e \in Tables /\ e.bindings = db.bindings \cup {b} /\ e.version = db.version
        /\ e.ops = db.ops /\ e.grants = db.grants /\ e.members = db.members
        /\ e.plan = db.plan /\ e.apps = db.apps
    BY <1>1, <2>1, BindingRowOK
  <2> HIDE DEF e
  <2> QED
    BY <1>2, <2>1, <2>2, <2>3
<1>6. ASSUME NEW b \in db.bindings, UnbindOperatorRole(r, b)
      PROVE  \E x \in Tables : Legal(r, x)
  <2> DEFINE e == DeleteSubjectRole(db, b)
  <2>1. b \in Bindings
    BY <1>1 DEF Tables
  <2>2. Commit(r, Bump(e))
    BY <1>6 DEF UnbindOperatorRole
  <2>3. /\ e \in Tables /\ e.bindings = db.bindings \ {b} /\ e.version = db.version
        /\ e.ops = db.ops /\ e.grants = db.grants /\ e.members = db.members
        /\ e.plan = db.plan /\ e.apps = db.apps
    BY <1>1, <2>1, BindingRowOK
  <2> HIDE DEF e
  <2> QED
    BY <1>2, <2>2, <2>3
<1> QED
  BY <1>3, <1>4, <1>5, <1>6

(***************************************************************************)
(* CreateApplication: the count it made under the lock still stands, so    *)
(* one more is within the limit of the plan.                               *)
(***************************************************************************)
LEMMA CreateApplicationStep ==
  ASSUME IInv, NEW r \in Replicas, NEW a \in Apps, CreateApplication(r, a)
  PROVE  \E new \in Tables : Legal(r, new)
<1> DEFINE t == req[r].target
           new == [db EXCEPT !.apps[a] = t, !.enabled = @ \cup {a}]
<1>1. TypeOK /\ db \in Tables /\ RowsSound /\ LockSound
  BY DEF IInv, TypeOK
<1>2. /\ req[r].phase = "counted" /\ req[r].rule = RuleTable["CreateApplication"]
      /\ req[r].count < MaxApplications[db.plan[t]]
      /\ db.apps[a] = "none" /\ Commit(r, new)
  BY DEF CreateApplication
<1>3. t \in Tenants /\ lock[t] = r /\ req[r].count = Cardinality(AppsOf(db, t))
  BY <1>1, <1>2 DEF LockSound
<1>4. t # "none" /\ r # "none"
  BY <1>3, AdminAssumptions
<1> HIDE DEF t
<1>5. /\ new \in Tables /\ new.version = db.version /\ new.grants = db.grants
      /\ new.bindings = db.bindings /\ new.members = db.members
      /\ new.plan = db.plan /\ new.ops = db.ops /\ new.apps = [db.apps EXCEPT ![a] = t]
  BY <1>1, <1>3 DEF Tables
<1> HIDE DEF new
<1>6. \A u : Members(new, u) = Members(db, u)
  BY <1>5 DEF Members
<1>7. /\ AppsOf(new, t) = AppsOf(db, t) \cup {a} /\ a \notin AppsOf(db, t)
      /\ \A u \in Tenants \ {t} : AppsOf(new, u) = AppsOf(db, u)
  <2>1. db.apps \in [Apps -> Tenants \cup {"none"}]
    BY <1>1 DEF Tables
  <2>2. \A x \in Apps : new.apps[x] = IF x = a THEN t ELSE db.apps[x]
    BY <1>5, <2>1
  <2>3. \A u \in Tenants : u # "none"
    BY AdminAssumptions
  <2> QED
    BY <1>2, <1>3, <1>4, <2>2, <2>3 DEF AppsOf
<1>8. \A u \in Tenants : IsFiniteSet(AppsOf(db, u)) /\ IsFiniteSet(Members(db, u))
  BY <1>1 DEF LockSound, Counts
<1>9. IsFiniteSet(AppsOf(new, t)) /\ Cardinality(AppsOf(new, t)) = Cardinality(AppsOf(db, t)) + 1
  BY <1>3, <1>7, <1>8, FS_AddElement
<1>10. Undisturbed(r, new)
  <2>1. \A u \in Tenants : lock[u] \notin {r, "none"} => u # t
    BY <1>3
  <2> QED
    BY <1>5, <1>6, <1>7, <1>8, <1>9, <2>1 DEF Undisturbed
<1>11. QuotaKept(new)
  <2>1. Cardinality(AppsOf(new, t)) <= MaxApplications[new.plan[t]]
    <3>1. db.plan[t] \in Plans
      <4>1. TenantExists(t) /\ db.plan[t] \in Plans \cup {"none"}
        BY <1>1, <1>3, <1>4 DEF LockSound, Tables
      <4> QED
        BY <4>1 DEF TenantExists
    <3>2. MaxApplications[db.plan[t]] \in Nat
      BY <3>1, AdminAssumptions
    <3>3. Cardinality(AppsOf(db, t)) \in Nat
      BY <1>3, <1>8, FS_CardinalityType
    <3> QED
      BY <1>2, <1>3, <1>5, <1>9, <3>2, <3>3
  <2>2. \A u \in Tenants, o \in Operators :
          ~(db.members[u][o] = "none" /\ new.members[u][o] = "admin")
    BY <1>5
  <2> QED
    BY <1>7, <2>1, <2>2 DEF QuotaKept
<1>12. Bumped(new) /\ Commit(r, new) /\ RowsSound'
  <2>1. Bumped(new) /\ Commit(r, new)
    BY <1>2, <1>5 DEF Bumped, new
  <2>2. db' = new
    BY <2>1 DEF Commit
  <2> QED
    BY <1>1, <1>5, <2>1, <2>2, RowsKept
<1> QED
  BY <1>5, <1>10, <1>11, <1>12 DEF Legal

(***************************************************************************)
(* An operator joins a tenant whose row nobody else has locked, as its     *)
(* administrator with the binding of one, or without any binding.          *)
(***************************************************************************)
Joins(r, new, t, o) ==
  /\ db.members[t][o] = "none"
  /\ new.members[t][o] \in {"owner", "admin", "member"}
  /\ \A u \in Tenants, x \in Operators :
       u # t \/ x # o => new.members[u][x] = db.members[u][x]
  /\ new.ops[o] # "none"
  /\ \A x \in Operators \ {o} : new.ops[x] = db.ops[x]
  /\ new.apps = db.apps
  /\ \A u \in Tenants : db.plan[u] # "none" => new.plan[u] # "none"
  /\ lock[t] \in {r, "none"}
  /\ \/ /\ new.version = db.version + 1
        /\ new.grants = db.grants \cup {TenantGrant(t)}
        /\ new.bindings = db.bindings \cup {<<o, TenantAdmin(t), t>>}
        /\ new.members[t][o] # "member"
     \/ /\ new.version = db.version
        /\ new.grants = db.grants /\ new.bindings = db.bindings
  /\ new.members[t][o] = "admin" =>
       /\ new.plan[t] \in Plans
       /\ Cardinality(Members(db, t)) < MaxMembers[new.plan[t]]

(***************************************************************************)
(* The commit of a transaction by which an operator joins a tenant, as     *)
(* Joins describes it, is legal.                                           *)
(***************************************************************************)
LEMMA JoinStep ==
  ASSUME IInv, NEW r \in Replicas, NEW new \in Tables, Commit(r, new),
         NEW t \in Tenants, NEW o \in Operators, Joins(r, new, t, o)
  PROVE  Legal(r, new)
<1>1. TypeOK /\ db \in Tables /\ RowsSound /\ LockSound /\ db' = new
  BY DEF IInv, TypeOK, Commit
<1>2. \A u : AppsOf(new, u) = AppsOf(db, u)
  BY DEF AppsOf, Joins
<1>3. /\ Members(new, t) = Members(db, t) \cup {o} /\ o \notin Members(db, t)
      /\ \A u \in Tenants \ {t} : Members(new, u) = Members(db, u)
  BY DEF Members, Joins
<1>4. \A u \in Tenants : IsFiniteSet(AppsOf(db, u)) /\ IsFiniteSet(Members(db, u))
  BY <1>1 DEF LockSound, Counts
<1>5. IsFiniteSet(Members(new, t)) /\ Cardinality(Members(new, t)) = Cardinality(Members(db, t)) + 1
  BY <1>3, <1>4, FS_AddElement
<1>6. Undisturbed(r, new)
  BY <1>2, <1>3, <1>4, <1>5 DEF Undisturbed, Joins
<1>7. QuotaKept(new)
  <2>1. new.members[t][o] = "admin" => Cardinality(Members(new, t)) <= MaxMembers[new.plan[t]]
    <3>1. SUFFICES ASSUME new.members[t][o] = "admin"
                   PROVE  Cardinality(Members(new, t)) <= MaxMembers[new.plan[t]]
      OBVIOUS
    <3>2. new.plan[t] \in Plans /\ Cardinality(Members(db, t)) < MaxMembers[new.plan[t]]
      BY <3>1 DEF Joins
    <3>3. MaxMembers[new.plan[t]] \in Nat
      BY <3>2, AdminAssumptions
    <3>4. Cardinality(Members(db, t)) \in Nat
      BY <1>4, FS_CardinalityType
    <3> QED
      BY <1>5, <3>2, <3>3, <3>4
  <2>2. \A u \in Tenants, x \in Operators :
          db.members[u][x] = "none" /\ new.members[u][x] = "admin" => u = t /\ x = o
    BY DEF Joins
  <2> QED
    BY <1>2, <2>1, <2>2 DEF QuotaKept
<1>8. Bumped(new)
  BY DEF Bumped, Joins
<1>9. RowsSound'
  <2>1. ASSUME NEW x \in Operators, NEW u \in Tenants, new.ops[x] = "none"
        PROVE  new.members[u][x] = "none"
    BY <1>1, <2>1 DEF RowsSound, Joins
  <2>2. ASSUME NEW b \in new.bindings, b[1] \in Ordinary
        PROVE  \E u \in Tenants : /\ b[2] = TenantAdmin(u) /\ b[3] = u
                                  /\ new.members[u][b[1]] \in {"owner", "admin"}
    <3>1. CASE b \in db.bindings
      <4>1. PICK u \in Tenants : /\ b[2] = TenantAdmin(u) /\ b[3] = u
                                 /\ db.members[u][b[1]] \in {"owner", "admin"}
        BY <1>1, <2>2, <3>1 DEF RowsSound
      <4>2. b[1] \in Operators
        BY <2>2 DEF Ordinary
      <4>3. new.members[u][b[1]] = db.members[u][b[1]]
        BY <4>1, <4>2 DEF Joins
      <4> QED
        BY <4>1, <4>3
    <3>2. CASE b \notin db.bindings
      <4>1. b = <<o, TenantAdmin(t), t>> /\ new.members[t][o] \in {"owner", "admin"}
        BY <2>2, <3>2 DEF Joins
      <4> QED
        BY <4>1
    <3> QED
      BY <3>1, <3>2
  <2> QED
    BY <1>1, <2>1, <2>2 DEF RowsSound
<1> QED
  BY <1>6, <1>7, <1>8, <1>9 DEF Legal

(***************************************************************************)
(* The three ways to join: by invitation, whose count still stands, by     *)
(* registering a tenant, which nobody can have locked before it exists,    *)
(* and by a first single sign-on login.                                    *)
(***************************************************************************)
LEMMA InviteMemberStep ==
  ASSUME IInv, NEW r \in Replicas, NEW o \in Operators, InviteMember(r, o)
  PROVE  \E new \in Tables : Legal(r, new)
<1> DEFINE t == req[r].target
           e1 == EnsureOperator(db, o)
           e2 == InsertMembership(e1, t, o, "admin")
           e3 == BindTenantAdminTx(e2, t, o)
           new == Bump(e3)
<1>1. TypeOK /\ db \in Tables /\ LockSound
  BY DEF IInv, TypeOK
<1>2. /\ req[r].phase = "counted" /\ req[r].rule = RuleTable["InviteMember"]
      /\ db.members[t][o] = "none" /\ req[r].count < MaxMembers[db.plan[t]]
      /\ Commit(r, new)
  BY DEF InviteMember
<1>3. t \in Tenants /\ lock[t] = r /\ req[r].count = Cardinality(Members(db, t))
  BY <1>1, <1>2 DEF LockSound
<1> HIDE DEF t
<1>4. /\ e1 \in Tables /\ e1.ops[o] # "none" /\ e1.version = db.version
      /\ \A x \in Operators \ {o} : e1.ops[x] = db.ops[x]
      /\ e1.grants = db.grants /\ e1.bindings = db.bindings /\ e1.plan = db.plan
      /\ e1.members = db.members /\ e1.apps = db.apps
  BY <1>1, EnsureOperatorOK
<1> HIDE DEF e1
<1>5. /\ e2 \in Tables /\ e2.members[t][o] = "admin"
      /\ \A u \in Tenants, x \in Operators :
           u # t \/ x # o => e2.members[u][x] = e1.members[u][x]
      /\ e2.version = e1.version /\ e2.ops = e1.ops /\ e2.grants = e1.grants
      /\ e2.bindings = e1.bindings /\ e2.plan = e1.plan /\ e2.apps = e1.apps
  <2>1. e1 \in Tables /\ t \in Tenants /\ "admin" \in {"owner", "admin", "member"}
    BY <1>3, <1>4
  <2> QED
    BY <2>1, InsertMembershipOK
<1> HIDE DEF e2
<1>6. /\ e3 \in Tables /\ e3.grants = e2.grants \cup {TenantGrant(t)}
      /\ e3.bindings = e2.bindings \cup {<<o, TenantAdmin(t), t>>}
      /\ e3.version = e2.version /\ e3.ops = e2.ops /\ e3.members = e2.members
      /\ e3.plan = e2.plan /\ e3.apps = e2.apps
  BY <1>3, <1>5, BindTenantAdminOK
<1> HIDE DEF e3
<1>7. /\ new \in Tables /\ new.version = e3.version + 1 /\ new.ops = e3.ops
      /\ new.grants = e3.grants /\ new.bindings = e3.bindings /\ new.plan = e3.plan
      /\ new.members = e3.members /\ new.apps = e3.apps
  BY <1>6, BumpOK
<1>8. Commit(r, new)
  BY <1>2 DEF t, e1, e2, e3
<1> HIDE DEF new
<1>9. db.plan[t] \in Plans
  <2>1. r # "none"
    BY AdminAssumptions
  <2>2. TenantExists(t) /\ db.plan[t] \in Plans \cup {"none"}
    BY <1>1, <1>3, <2>1 DEF LockSound, Tables
  <2> QED
    BY <2>2 DEF TenantExists
<1>10. Joins(r, new, t, o)
  <2>1. new.version = db.version + 1 /\ new.plan = db.plan /\ new.apps = db.apps
    BY <1>4, <1>5, <1>6, <1>7
  <2>2. /\ new.grants = db.grants \cup {TenantGrant(t)}
        /\ new.bindings = db.bindings \cup {<<o, TenantAdmin(t), t>>}
    BY <1>4, <1>5, <1>6, <1>7
  <2>3. /\ new.ops[o] # "none" /\ \A x \in Operators \ {o} : new.ops[x] = db.ops[x]
    BY <1>4, <1>5, <1>6, <1>7
  <2>4. /\ new.members[t][o] = "admin"
        /\ \A u \in Tenants, x \in Operators :
             u # t \/ x # o => new.members[u][x] = db.members[u][x]
    BY <1>4, <1>5, <1>6, <1>7
  <2> QED
    BY <1>2, <1>3, <1>9, <2>1, <2>2, <2>3, <2>4 DEF Joins, t
<1> QED
  BY <1>3, <1>7, <1>8, <1>10, JoinStep

(***************************************************************************)
(* RegisterTenant commits such tables: the tenant is new and the operator  *)
(* its first member.                                                       *)
(***************************************************************************)
LEMMA RegisterTenantStep ==
  ASSUME IInv, NEW r \in Replicas, NEW t \in Tenants, NEW o \in Operators, RegisterTenant(r, t, o)
  PROVE  \E new \in Tables : Legal(r, new)
<1> DEFINE e0 == [db EXCEPT !.plan[t] = DefaultPlan]
           e1 == InsertOperator(e0, o)
           e2 == InsertMembership(e1, t, o, "owner")
           e3 == BindTenantAdminTx(e2, t, o)
           new == Bump(e3)
<1>1. TypeOK /\ db \in Tables /\ LockSound /\ RowsSound
  BY DEF IInv, TypeOK
<1>2. ~TenantExists(t) /\ db.ops[o] = "none" /\ Commit(r, new)
  BY DEF RegisterTenant
<1>3. db.members[t][o] = "none" /\ lock[t] = "none"
  BY <1>1, <1>2 DEF RowsSound, LockSound
<1>4. DefaultPlan \in Plans /\ DefaultPlan # "none"
  BY AdminAssumptions
<1>5. /\ e0 \in Tables /\ e0.ops = db.ops /\ e0.version = db.version
      /\ e0.grants = db.grants /\ e0.bindings = db.bindings
      /\ e0.members = db.members /\ e0.apps = db.apps
      /\ \A u \in Tenants : db.plan[u] # "none" => e0.plan[u] # "none"
  BY <1>1, <1>4 DEF Tables
<1> HIDE DEF e0
<1>6. /\ e1 \in Tables /\ e1.ops = [e0.ops EXCEPT ![o] = "active"] /\ e1.version = e0.version
      /\ e1.grants = e0.grants /\ e1.bindings = e0.bindings /\ e1.plan = e0.plan
      /\ e1.members = e0.members /\ e1.apps = e0.apps
  <2>1. e0 \in Tables
    BY <1>5
  <2> QED
    BY <2>1, InsertOperatorOK
<1> HIDE DEF e1
<1>7. /\ e2 \in Tables /\ e2.members[t][o] = "owner"
      /\ \A u \in Tenants, x \in Operators :
           u # t \/ x # o => e2.members[u][x] = e1.members[u][x]
      /\ e2.version = e1.version /\ e2.ops = e1.ops /\ e2.grants = e1.grants
      /\ e2.bindings = e1.bindings /\ e2.plan = e1.plan /\ e2.apps = e1.apps
  <2>1. e1 \in Tables /\ t \in Tenants /\ "owner" \in {"owner", "admin", "member"}
    BY <1>6
  <2> QED
    BY <2>1, InsertMembershipOK
<1> HIDE DEF e2
<1>8. /\ e3 \in Tables /\ e3.grants = e2.grants \cup {TenantGrant(t)}
      /\ e3.bindings = e2.bindings \cup {<<o, TenantAdmin(t), t>>}
      /\ e3.version = e2.version /\ e3.ops = e2.ops /\ e3.members = e2.members
      /\ e3.plan = e2.plan /\ e3.apps = e2.apps
  BY <1>7, BindTenantAdminOK
<1> HIDE DEF e3
<1>9. /\ new \in Tables /\ new.version = e3.version + 1 /\ new.ops = e3.ops
      /\ new.grants = e3.grants /\ new.bindings = e3.bindings /\ new.plan = e3.plan
      /\ new.members = e3.members /\ new.apps = e3.apps
  BY <1>8, BumpOK
<1>10. Commit(r, new)
  BY <1>2 DEF e0, e1, e2, e3
<1> HIDE DEF new
<1>11. Joins(r, new, t, o)
  <2>1. /\ new.version = db.version + 1 /\ new.apps = db.apps
        /\ \A u \in Tenants : db.plan[u] # "none" => new.plan[u] # "none"
    BY <1>5, <1>6, <1>7, <1>8, <1>9
  <2>2. /\ new.grants = db.grants \cup {TenantGrant(t)}
        /\ new.bindings = db.bindings \cup {<<o, TenantAdmin(t), t>>}
    BY <1>5, <1>6, <1>7, <1>8, <1>9
  <2>3. /\ new.ops[o] # "none" /\ \A x \in Operators \ {o} : new.ops[x] = db.ops[x]
    <3>1. new.ops = [db.ops EXCEPT ![o] = "active"]
      BY <1>5, <1>6, <1>7, <1>8, <1>9
    <3>2. db.ops \in [Operators -> {"none", "active", "disabled"}]
      BY <1>1 DEF Tables
    <3> QED
      BY <3>1, <3>2
  <2>4. /\ new.members[t][o] = "owner"
        /\ \A u \in Tenants, x \in Operators :
             u # t \/ x # o => new.members[u][x] = db.members[u][x]
    BY <1>5, <1>6, <1>7, <1>8, <1>9
  <2> QED
    BY <1>3, <2>1, <2>2, <2>3, <2>4 DEF Joins
<1> QED
  BY <1>9, <1>10, <1>11, JoinStep

(***************************************************************************)
(* So does the provisioning of a member at its first single sign-on.       *)
(***************************************************************************)
LEMMA ProvisionStep ==
  ASSUME IInv, NEW r \in Replicas, NEW t \in Tenants, NEW o \in Operators,
         ProvisionOperatorForLogin(r, t, o)
  PROVE  \E new \in Tables : Legal(r, new)
<1> DEFINE e1 == InsertOperator(db, o)
           new == InsertMembership(e1, t, o, "member")
<1>1. TypeOK /\ db \in Tables /\ RowsSound
  BY DEF IInv, TypeOK
<1>2. lock[t] = "none" /\ db.ops[o] = "none" /\ Commit(r, new)
  BY DEF ProvisionOperatorForLogin
<1>3. db.members[t][o] = "none"
  BY <1>1, <1>2 DEF RowsSound
<1>4. /\ e1 \in Tables /\ e1.ops = [db.ops EXCEPT ![o] = "active"] /\ e1.version = db.version
      /\ e1.grants = db.grants /\ e1.bindings = db.bindings /\ e1.plan = db.plan
      /\ e1.members = db.members /\ e1.apps = db.apps
  BY <1>1, InsertOperatorOK
<1> HIDE DEF e1
<1>5. /\ new \in Tables /\ new.members[t][o] = "member"
      /\ \A u \in Tenants, x \in Operators :
           u # t \/ x # o => new.members[u][x] = e1.members[u][x]
      /\ new.version = e1.version /\ new.ops = e1.ops /\ new.grants = e1.grants
      /\ new.bindings = e1.bindings /\ new.plan = e1.plan /\ new.apps = e1.apps
  <2>1. e1 \in Tables /\ t \in Tenants /\ "member" \in {"owner", "admin", "member"}
    BY <1>4
  <2> QED
    BY <2>1, InsertMembershipOK
<1>6. Commit(r, new)
  BY <1>2 DEF e1
<1> HIDE DEF new
<1>7. /\ new.ops[o] # "none" /\ \A x \in Operators \ {o} : new.ops[x] = db.ops[x]
  <2>1. db.ops \in [Operators -> {"none", "active", "disabled"}]
    BY <1>1 DEF Tables
  <2>2. new.ops = [db.ops EXCEPT ![o] = "active"]
    BY <1>4, <1>5
  <2> QED
    BY <2>1, <2>2
<1>8. Joins(r, new, t, o)
  <2>1. /\ new.version = db.version /\ new.grants = db.grants /\ new.bindings = db.bindings
        /\ new.plan = db.plan /\ new.apps = db.apps
        /\ \A u \in Tenants, x \in Operators :
             u # t \/ x # o => new.members[u][x] = db.members[u][x]
    BY <1>4, <1>5
  <2> QED
    BY <1>2, <1>3, <1>5, <1>7, <2>1 DEF Joins
<1> QED
  BY <1>5, <1>6, <1>8, JoinStep

(***************************************************************************)
(* Every commit is that of a handler, and legal.                           *)
(***************************************************************************)
LEMMA CommitStep ==
  ASSUME IInv, NEW r \in Replicas, NEW new \in Tables, Legal(r, new)
  PROVE  IInv'
BY CommitFrame, CommitKeepsReloads, CommitKeepsLocks DEF Legal, IInv

-----------------------------------------------------------------------------
(* Steps that leave the tables alone. *)

(***************************************************************************)
(* What the invariant says of one replica, with request q and enforcer e.  *)
(***************************************************************************)
Decides(q) == q.phase \in {"allowed", "ready", "locked", "counted"}

ReplicaSound(q, e) ==
  /\ Decides(q) /\ q.rule.scope = "app" => q.target \in Apps
  /\ e.loadedV <= db.version /\ q.version <= db.version
  /\ e.reloaded => e.state = "up"
  /\ q.phase # "idle" => e.state = "up"
  /\ q.phase = "loadG" =>
       /\ q.version = db.version => q.p = db.grants
       /\ q.p \subseteq db.grants \cup q.lostGrants
  /\ e.reloaded /\ e.loadedV = db.version => e.p = db.grants /\ e.g = db.bindings
  /\ Decides(q) /\ e.reloaded =>
       /\ e.p \subseteq db.grants \cup q.lostGrants
       /\ e.g \subseteq db.bindings \cup q.lostBindings
       /\ q.rule.isWrite /\ q.phase = "ready" => q.target \in db.enabled \cup q.lostApps

(***************************************************************************)
(* What the inductive invariant says of one replica.                       *)
(***************************************************************************)
LEMMA ReplicaSoundOf ==
  ASSUME IInv, NEW r \in Replicas
  PROVE  req[r] \in Request /\ enforcer[r] \in Enforcer /\ ReplicaSound(req[r], enforcer[r])
<1>1. req[r] \in Request /\ enforcer[r] \in Enforcer
  BY DEF IInv, TypeOK
<1>2. Decides(req[r]) <=> Authorized(r)
  BY DEF Decides, Authorized
<1> QED
  BY <1>1, <1>2 DEF IInv, OnApplication, VersionsSeen, ReloadSound, ReloadedIsCurrent, NothingStale,
                    ReplicaSound

(***************************************************************************)
(* The locks after a step of replica r that leaves it with request q:      *)
(* others' are untouched, and it has the one it counts under.              *)
(***************************************************************************)
LocksAfter(r, q) ==
  /\ lock' \in [Tenants -> Replicas \cup {"none"}]
  /\ \A t \in Tenants :
       \/ lock'[t] = lock[t]
       \/ lock[t] = r /\ lock'[t] = "none"
       \/ lock[t] = "none" /\ TenantExists(t)
  /\ q.phase \in {"locked", "counted"} => q.target \in Tenants /\ lock'[q.target] = r
  /\ q.phase = "counted" =>
       /\ q.rule = RuleTable["CreateApplication"] =>
            q.count = Cardinality(AppsOf(db, q.target))
       /\ q.rule = RuleTable["InviteMember"] => q.count = Cardinality(Members(db, q.target))

(***************************************************************************)
(* A step of one replica that leaves the tables alone preserves the        *)
(* inductive invariant if the replica stays sound and the locks follow its *)
(* request.                                                                *)
(***************************************************************************)
LEMMA LocalStep ==
  ASSUME IInv, NEW r \in Replicas, NEW q \in Request, NEW e \in Enforcer, db' = db,
         req' = [req EXCEPT ![r] = q], enforcer' = [enforcer EXCEPT ![r] = e],
         ReplicaSound(q, e), LocksAfter(r, q)
  PROVE  IInv'
<1>1. TypeOK /\ LockSound /\ RowsSound
  BY DEF IInv
<1>2. /\ req'[r] = q /\ enforcer'[r] = e
      /\ \A x \in Replicas \ {r} : req'[x] = req[x] /\ enforcer'[x] = enforcer[x]
  BY <1>1 DEF TypeOK
<1>3. TypeOK'
  BY <1>1 DEF TypeOK, LocksAfter
<1>4. ASSUME NEW x \in Replicas
      PROVE  ReplicaSound(req'[x], enforcer'[x])
  BY <1>2, ReplicaSoundOf
<1>5. \A x \in Replicas : Authorized(x)' <=> Decides(req'[x])
  BY DEF Authorized, Decides
<1>6. OnApplication' /\ VersionsSeen' /\ ReloadSound' /\ ReloadedIsCurrent' /\ NothingStale'
  BY <1>4, <1>5 DEF ReplicaSound, OnApplication, VersionsSeen, ReloadSound, ReloadedIsCurrent,
                    NothingStale
<1>7. LockSound'
  <2>1. \A t : AppsOf(db', t) = AppsOf(db, t) /\ Members(db', t) = Members(db, t)
    OBVIOUS
  <2>2. ASSUME NEW t \in Tenants
        PROVE  Counts(t)' /\ (lock'[t] # "none" => TenantExists(t)')
    BY <1>1, <2>1 DEF LockSound, LocksAfter, Counts, TenantExists
  <2>3. ASSUME NEW x \in Replicas, req'[x].phase \in {"locked", "counted"}
        PROVE  req'[x].target \in Tenants /\ lock'[req'[x].target] = x
    <3>1. CASE x = r
      BY <1>2, <2>3, <3>1 DEF LocksAfter
    <3>2. CASE x # r
      <4>1. req[x].target \in Tenants /\ lock[req[x].target] = x /\ req'[x] = req[x]
        BY <1>1, <1>2, <2>3, <3>2 DEF LockSound
      <4>2. x # "none"
        BY AdminAssumptions
      <4> QED
        BY <3>2, <4>1, <4>2 DEF LocksAfter
    <3> QED
      BY <3>1, <3>2
  <2>4. ASSUME NEW x \in Replicas, req'[x].phase = "counted"
        PROVE  /\ req'[x].rule = RuleTable["CreateApplication"] =>
                    req'[x].count = Cardinality(AppsOf(db', req'[x].target))
               /\ req'[x].rule = RuleTable["InviteMember"] =>
                    req'[x].count = Cardinality(Members(db', req'[x].target))
    BY <1>1, <1>2, <2>1, <2>4 DEF LockSound, LocksAfter
  <2> QED
    BY <2>2, <2>3, <2>4 DEF LockSound
<1>8. RowsSound'
  BY <1>1 DEF RowsSound
<1> QED
  BY <1>3, <1>6, <1>7, <1>8 DEF IInv

(***************************************************************************)
(* A step that leaves the locks alone, or gives those of r back, and ends  *)
(* outside of the counting.                                                *)
(***************************************************************************)
LEMMA LocksGiven ==
  ASSUME IInv, NEW r \in Replicas, NEW q \in Request,
         \/ lock' = lock
         \/ lock' = [t \in Tenants |-> IF lock[t] = r THEN "none" ELSE lock[t]],
         q.phase \notin {"locked", "counted"}
  PROVE  LocksAfter(r, q)
BY DEF LocksAfter, IInv, TypeOK

(***************************************************************************)
(* A replica without a request is sound if its enforcer is.                *)
(***************************************************************************)
LEMMA IdleSound ==
  ASSUME IInv, NEW e, e.loadedV <= db.version, e.reloaded => e.state = "up",
         e.reloaded /\ e.loadedV = db.version => e.p = db.grants /\ e.g = db.bindings
  PROVE  ReplicaSound(Idle, e)
<1>1. db.version \in Nat
  BY DEF IInv, TypeOK, Tables
<1> QED
  BY <1>1, IdleOK DEF ReplicaSound, Decides

(***************************************************************************)
(* Starting and stopping a replica, and a request that ends.               *)
(***************************************************************************)
LEMMA LifeStep ==
  ASSUME IInv, NEW r \in Replicas,
         BootLoad(r) \/ BootVersion(r) \/ Stop(r) \/ Finish(r) \/ PolicyWrite(r)
  PROVE  IInv'
<1> DEFINE q == req[r]
           e == enforcer[r]
<1>1. TypeOK /\ q \in Request /\ e \in Enforcer /\ ReplicaSound(q, e)
  BY ReplicaSoundOf DEF IInv
<1>2. db \in Tables /\ db.version \in Nat /\ db.grants \subseteq Grants /\ db.bindings \subseteq Bindings
  BY <1>1 DEF TypeOK, Tables
<1>3. req = [req EXCEPT ![r] = q] /\ enforcer = [enforcer EXCEPT ![r] = e]
  BY <1>1 DEF TypeOK
<1>4. CASE BootLoad(r)
  <2> DEFINE f == [Down EXCEPT !.state = "bootV", !.p = db.grants, !.g = db.bindings]
  <2>1. f \in Enforcer /\ f.reloaded = FALSE /\ f.loadedV = 0
    BY <1>2 DEF Down, Enforcer
  <2>2. /\ db' = db /\ req' = [req EXCEPT ![r] = q] /\ enforcer' = [enforcer EXCEPT ![r] = f]
        /\ lock' = lock /\ e.state = "down"
    BY <1>3, <1>4 DEF BootLoad
  <2>3. q.phase = "idle"
    BY <1>1, <2>2 DEF ReplicaSound
  <2> HIDE DEF f
  <2>4. ReplicaSound(q, f)
    BY <1>1, <1>2, <2>1, <2>3 DEF ReplicaSound, Decides
  <2>5. LocksAfter(r, q)
    BY <1>1, <2>2, <2>3, LocksGiven
  <2> QED
    BY <1>1, <2>1, <2>2, <2>4, <2>5, LocalStep
<1>5. CASE BootVersion(r)
  <2> DEFINE f == [e EXCEPT !.state = "up", !.loadedV = db.version]
  <2>1. e.state = "bootV" /\ ~e.reloaded /\ q.phase = "idle"
    BY <1>1, <1>5 DEF BootVersion, ReplicaSound
  <2>2. f \in Enforcer /\ ~f.reloaded /\ f.loadedV = db.version
    BY <1>1, <1>2, <2>1 DEF Enforcer
  <2>3. /\ db' = db /\ req' = [req EXCEPT ![r] = q] /\ enforcer' = [enforcer EXCEPT ![r] = f]
        /\ lock' = lock
    BY <1>1, <1>3, <1>5 DEF BootVersion, TypeOK, Enforcer
  <2> HIDE DEF f
  <2>4. ReplicaSound(q, f)
    BY <1>1, <1>2, <2>1, <2>2 DEF ReplicaSound, Decides
  <2>5. LocksAfter(r, q)
    BY <1>1, <2>1, <2>3, LocksGiven
  <2> QED
    BY <1>1, <2>2, <2>3, <2>4, <2>5, LocalStep
<1>6. CASE Stop(r) \/ Finish(r) \/ PolicyWrite(r)
  <2>1. Down \in Enforcer /\ Down.reloaded = FALSE /\ Down.loadedV = 0
    BY DEF Down, Enforcer
  <2>2. PICK f \in {e, Down} : enforcer' = [enforcer EXCEPT ![r] = f]
    BY <1>3, <1>6 DEF Stop, Finish, PolicyWrite
  <2>3. /\ db' = db /\ req' = [req EXCEPT ![r] = Idle]
        /\ \/ lock' = lock
           \/ lock' = [t \in Tenants |-> IF lock[t] = r THEN "none" ELSE lock[t]]
    BY <1>6 DEF Stop, Finish, PolicyWrite
  <2>4. f \in Enforcer /\ ReplicaSound(Idle, f)
    <3>1. CASE f = e
      BY <1>1, <3>1, IdleSound DEF ReplicaSound
    <3>2. CASE f = Down
      BY <1>2, <2>1, <3>2, IdleSound
    <3> QED
      BY <2>2, <3>1, <3>2
  <2>5. Idle \in Request /\ LocksAfter(r, Idle)
    BY <2>3, IdleOK, LocksGiven
  <2> QED
    BY <2>2, <2>3, <2>4, <2>5, LocalStep
<1> QED
  BY <1>4, <1>5, <1>6

(***************************************************************************)
(* What becomes of a request that is decided.                              *)
(***************************************************************************)
LEMMA DecidedOK ==
  ASSUME NEW p, NEW g, NEW q \in Request, NEW o, NEW rule \in Rules, NEW x \in Domains,
         Asks(o, rule, x)
  PROVE  LET d == Decided(p, g, q, o, rule, x)
         IN  /\ d \in Request
             /\ d = Idle \/ ( /\ d.phase = IF rule.isWrite THEN "allowed" ELSE "ready"
                              /\ d.rule = rule /\ d.target = x /\ d.version = 0 /\ d.p = {}
                              /\ d.lostGrants = q.lostGrants /\ d.lostBindings = q.lostBindings
                              /\ d.lostApps = q.lostApps
                              /\ rule.scope = "app" => x \in Apps )
<1>1. rule.scope = "app" => x \in Apps
  BY DEF Asks, Targets
<1> DEFINE ph == IF rule.isWrite THEN "allowed" ELSE "ready"
           n == [q EXCEPT !.phase = ph, !.rule = rule, !.target = x, !.version = 0, !.p = {}]
<1>2. ph \in Phases
  BY DEF Phases
<1> HIDE DEF ph
<1>3. /\ n \in Request /\ n.phase = ph /\ n.rule = rule /\ n.target = x /\ n.version = 0 /\ n.p = {}
      /\ n.lostGrants = q.lostGrants /\ n.lostBindings = q.lostBindings
      /\ n.lostApps = q.lostApps
  BY <1>2 DEF Request
<1>4. Decided(p, g, q, o, rule, x) = n \/ Decided(p, g, q, o, rule, x) = Idle
  BY DEF Decided, ph
<1> HIDE DEF n
<1> QED
  BY <1>1, <1>3, <1>4, IdleOK DEF ph

(***************************************************************************)
(* A decided request is sound when the rows it was decided from, if they   *)
(* were ever reloaded, are not older than it is.                           *)
(***************************************************************************)
LEMMA DecidedSound ==
  ASSUME IInv, NEW q \in Request, NEW e \in Enforcer, NEW o, NEW rule \in Rules, NEW x \in Domains,
         NEW p, NEW g, Asks(o, rule, x), e.state = "up", e.loadedV <= db.version,
         e.reloaded /\ e.loadedV = db.version => e.p = db.grants /\ e.g = db.bindings,
         e.reloaded => /\ e.p \subseteq db.grants \cup q.lostGrants
                       /\ e.g \subseteq db.bindings \cup q.lostBindings
  PROVE  LET d == Decided(p, g, q, o, rule, x)
         IN  d \in Request /\ ReplicaSound(d, e) /\ d.phase \notin {"locked", "counted"}
<1> DEFINE d == Decided(p, g, q, o, rule, x)
<1>1. /\ d \in Request
      /\ d = Idle \/ ( /\ d.phase = IF rule.isWrite THEN "allowed" ELSE "ready"
                       /\ d.rule = rule /\ d.target = x /\ d.version = 0 /\ d.p = {}
                       /\ d.lostGrants = q.lostGrants /\ d.lostBindings = q.lostBindings
                       /\ d.lostApps = q.lostApps
                       /\ rule.scope = "app" => x \in Apps )
  BY DecidedOK
<1> HIDE DEF d
<1>2. db.version \in Nat
  BY DEF IInv, TypeOK, Tables
<1>3. CASE d = Idle
  BY <1>1, <1>3, IdleOK, IdleSound DEF d
<1>4. CASE d # Idle
  <2>1. d.phase \in {"allowed", "ready"} /\ (d.rule.isWrite => d.phase # "ready")
    BY <1>1, <1>4
  <2>2. ReplicaSound(d, e)
    BY <1>1, <1>2, <1>4, <2>1 DEF ReplicaSound
  <2> QED
    BY <1>1, <2>1, <2>2 DEF d
<1> QED
  BY <1>3, <1>4

(***************************************************************************)
(* Enforce, on the policy that is loaded and on one it reloads, and the    *)
(* status check that follows it.                                           *)
(***************************************************************************)
LEMMA AuthorizationStep ==
  ASSUME IInv, NEW r \in Replicas, Authorization(r)
  PROVE  IInv'
<1> DEFINE q == req[r]
           e == enforcer[r]
<1>1. TypeOK /\ q \in Request /\ e \in Enforcer /\ ReplicaSound(q, e)
  BY ReplicaSoundOf DEF IInv
<1>2. db \in Tables /\ db.version \in Nat /\ db.grants \subseteq Grants /\ db.bindings \subseteq Bindings
  BY <1>1 DEF TypeOK, Tables
<1>3. req = [req EXCEPT ![r] = q] /\ enforcer = [enforcer EXCEPT ![r] = e]
  BY <1>1 DEF TypeOK
<1>4. ASSUME NEW c \in Calls, EnforceLoaded(r, c[1], RuleTable[c[2]], c[3])
      PROVE  IInv'
  <2> DEFINE d == Decided(e.p, e.g, Idle, c[1], RuleTable[c[2]], c[3])
  <2>1. /\ e.state = "up" /\ db.version = e.loadedV /\ Asks(c[1], RuleTable[c[2]], c[3])
        /\ db' = db /\ lock' = lock /\ req' = [req EXCEPT ![r] = d]
        /\ enforcer' = [enforcer EXCEPT ![r] = e]
    BY <1>3, <1>4 DEF EnforceLoaded, CanBegin
  <2>2. e.reloaded => e.p = db.grants /\ e.g = db.bindings
    BY <1>1, <2>1 DEF ReplicaSound
  <2>3. e.loadedV <= db.version /\ Idle \in Request
    BY <1>2, <2>1, IdleOK
  <2>4. d \in Request /\ ReplicaSound(d, e) /\ d.phase \notin {"locked", "counted"}
    BY <1>1, <2>1, <2>2, <2>3, CallOK, IdleOK, DecidedSound
  <2> HIDE DEF d
  <2>5. LocksAfter(r, d)
    BY <2>1, <2>4, LocksGiven
  <2> QED
    BY <1>1, <2>1, <2>4, <2>5, LocalStep
<1>5. ASSUME NEW c \in Calls, LoadG(r, c[1], RuleTable[c[2]], c[3])
      PROVE  IInv'
  <2> DEFINE d == Decided(q.p, db.bindings, q, c[1], RuleTable[c[2]], c[3])
             f == [e EXCEPT !.p = q.p, !.g = db.bindings, !.loadedV = q.version, !.reloaded = TRUE]
  <2>1. /\ q.phase = "loadG" /\ Asks(c[1], RuleTable[c[2]], c[3])
        /\ db' = db /\ lock' = lock /\ req' = [req EXCEPT ![r] = d]
    BY <1>5 DEF LoadG
  <2>2. enforcer' = [enforcer EXCEPT ![r] = f]
    BY <1>1, <1>5 DEF LoadG, TypeOK, Enforcer
  <2>3. /\ f \in Enforcer /\ f.state = e.state /\ f.p = q.p /\ f.g = db.bindings
        /\ f.loadedV = q.version /\ f.reloaded
    BY <1>1, <1>2 DEF Enforcer, Request
  <2> HIDE DEF f
  <2>4. /\ f.state = "up" /\ f.loadedV <= db.version
        /\ f.loadedV = db.version => f.p = db.grants /\ f.g = db.bindings
        /\ f.p \subseteq db.grants \cup q.lostGrants
        /\ f.g \subseteq db.bindings \cup q.lostBindings
    BY <1>1, <2>1, <2>3 DEF ReplicaSound
  <2>5. d \in Request /\ ReplicaSound(d, f) /\ d.phase \notin {"locked", "counted"}
    BY <1>1, <2>1, <2>3, <2>4, CallOK, DecidedSound
  <2> HIDE DEF d
  <2>6. LocksAfter(r, d)
    BY <2>1, <2>5, LocksGiven
  <2> QED
    BY <2>1, <2>2, <2>3, <2>5, <2>6, LocalStep
<1>6. CASE ReadVersion(r)
  <2> DEFINE d == [q EXCEPT !.phase = "loadP", !.version = db.version]
  <2>1. /\ e.state = "up" /\ db' = db /\ lock' = lock /\ req' = [req EXCEPT ![r] = d]
        /\ enforcer' = [enforcer EXCEPT ![r] = e]
    BY <1>1, <1>3, <1>6 DEF ReadVersion, CanBegin, TypeOK, Request
  <2>2. d \in Request /\ d.phase = "loadP" /\ d.version = db.version
    BY <1>1, <1>2 DEF Request, Phases
  <2> HIDE DEF d
  <2>3. ReplicaSound(d, e)
    BY <1>1, <1>2, <2>1, <2>2 DEF ReplicaSound, Decides
  <2>4. LocksAfter(r, d)
    BY <2>1, <2>2, LocksGiven
  <2> QED
    BY <1>1, <2>1, <2>2, <2>3, <2>4, LocalStep
<1>7. CASE LoadP(r)
  <2> DEFINE d == [q EXCEPT !.phase = "loadG", !.p = db.grants]
  <2>1. /\ q.phase = "loadP" /\ db' = db /\ lock' = lock /\ req' = [req EXCEPT ![r] = d]
        /\ enforcer' = [enforcer EXCEPT ![r] = e]
    BY <1>1, <1>3, <1>7 DEF LoadP, TypeOK, Request
  <2>2. d \in Request /\ d.phase = "loadG" /\ d.version = q.version /\ d.p = db.grants
    BY <1>1, <1>2 DEF Request, Phases
  <2> HIDE DEF d
  <2>3. ReplicaSound(d, e)
    BY <1>1, <1>2, <2>1, <2>2 DEF ReplicaSound, Decides
  <2>4. LocksAfter(r, d)
    BY <2>1, <2>2, LocksGiven
  <2> QED
    BY <1>1, <2>1, <2>2, <2>3, <2>4, LocalStep
<1>8. CASE CheckStatusWrite(r)
  <2> DEFINE n == [q EXCEPT !.phase = "ready"]
  <2>1. n \in Request /\ n.phase = "ready" /\ n.rule = q.rule /\ n.target = q.target
        /\ n.version = q.version /\ n.lostGrants = q.lostGrants
        /\ n.lostBindings = q.lostBindings
    BY <1>1 DEF Request, Phases
  <2>2. q.phase = "allowed" /\ db' = db /\ lock' = lock /\ enforcer' = [enforcer EXCEPT ![r] = e]
    BY <1>3, <1>8 DEF CheckStatusWrite
  <2>3. \/ q.target \in db.enabled /\ req' = [req EXCEPT ![r] = n]
        \/ req' = [req EXCEPT ![r] = Idle]
    BY <1>1, <1>8 DEF CheckStatusWrite, TypeOK, Request
  <2> HIDE DEF n
  <2>4. CASE q.target \in db.enabled /\ req' = [req EXCEPT ![r] = n]
    <3>1. ReplicaSound(n, e)
      BY <1>1, <2>1, <2>2, <2>4 DEF ReplicaSound, Decides
    <3>2. LocksAfter(r, n)
      BY <2>1, <2>2, LocksGiven
    <3> QED
      BY <1>1, <2>1, <2>2, <2>4, <3>1, <3>2, LocalStep
  <2>5. CASE req' = [req EXCEPT ![r] = Idle]
    <3>1. ReplicaSound(Idle, e)
      BY <1>1, IdleSound DEF ReplicaSound
    <3>2. Idle \in Request /\ LocksAfter(r, Idle)
      BY <2>2, IdleOK, LocksGiven
    <3> QED
      BY <1>1, <2>2, <2>5, <3>1, <3>2, LocalStep
  <2> QED
    BY <2>3, <2>4, <2>5
<1> QED
  BY <1>4, <1>5, <1>6, <1>7, <1>8 DEF Authorization

(***************************************************************************)
(* Locking the row of the tenant, and counting under that lock.            *)
(***************************************************************************)
LEMMA CountingStep ==
  ASSUME IInv, NEW r \in Replicas, TenantPlanLimits(r) \/ CountApplications(r) \/ CountMembers(r)
  PROVE  IInv'
<1> DEFINE q == req[r]
           e == enforcer[r]
           t == q.target
<1>1. TypeOK /\ q \in Request /\ e \in Enforcer /\ ReplicaSound(q, e) /\ LockSound
  BY ReplicaSoundOf DEF IInv
<1>2. /\ db' = db /\ enforcer' = [enforcer EXCEPT ![r] = e]
      /\ q.phase \in {"ready", "locked"}
  BY <1>1 DEF TenantPlanLimits, Serves, CountApplications, CountMembers, TypeOK
<1>3. ASSUME NEW d \in Request, d.phase \in {"locked", "counted"},
             d.rule = q.rule, d.target = q.target, d.version = q.version,
             d.lostGrants = q.lostGrants, d.lostBindings = q.lostBindings
      PROVE  ReplicaSound(d, e)
  BY <1>1, <1>2, <1>3 DEF ReplicaSound, Decides
<1>4. CASE TenantPlanLimits(r)
  <2> DEFINE d == [q EXCEPT !.phase = "locked"]
  <2>1. /\ t \in Tenants /\ TenantExists(t) /\ lock[t] = "none" /\ lock' = [lock EXCEPT ![t] = r]
        /\ req' = [req EXCEPT ![r] = d]
    BY <1>1, <1>4 DEF TenantPlanLimits, TypeOK, Request
  <2>2. /\ d \in Request /\ d.phase = "locked" /\ d.rule = q.rule /\ d.target = q.target
        /\ d.version = q.version /\ d.lostGrants = q.lostGrants
        /\ d.lostBindings = q.lostBindings
    BY <1>1 DEF Request, Phases
  <2> HIDE DEF d
  <2>3. LocksAfter(r, d)
    BY <1>1, <2>1, <2>2 DEF LocksAfter, TypeOK
  <2> QED
    BY <1>1, <1>2, <1>3, <2>1, <2>2, <2>3, LocalStep
<1>5. ASSUME NEW n \in Nat, lock' = lock, q.phase = "locked",
             req' = [req EXCEPT ![r].phase = "counted", ![r].count = n],
             q.rule = RuleTable["CreateApplication"] => n = Cardinality(AppsOf(db, t)),
             q.rule = RuleTable["InviteMember"] => n = Cardinality(Members(db, t))
      PROVE  IInv'
  <2> DEFINE d == [q EXCEPT !.phase = "counted", !.count = n]
  <2>1. req' = [req EXCEPT ![r] = d]
    BY <1>1, <1>5 DEF TypeOK, Request
  <2>2. /\ d \in Request /\ d.phase = "counted" /\ d.rule = q.rule /\ d.target = q.target
        /\ d.version = q.version /\ d.lostGrants = q.lostGrants
        /\ d.lostBindings = q.lostBindings /\ d.count = n
    BY <1>1 DEF Request, Phases
  <2> HIDE DEF d
  <2>3. LocksAfter(r, d)
    <3>1. t \in Tenants /\ lock[t] = r
      BY <1>1, <1>5 DEF LockSound
    <3> QED
      BY <1>1, <1>5, <2>2, <3>1 DEF LocksAfter, TypeOK
  <2> QED
    BY <1>1, <1>2, <1>3, <2>1, <2>2, <2>3, LocalStep
<1>6. CASE CountApplications(r)
  <2>1. t \in Tenants
    BY <1>1, <1>6 DEF CountApplications, LockSound
  <2>2. Cardinality(AppsOf(db, t)) \in Nat
    BY <1>1, <2>1, FS_CardinalityType DEF LockSound, Counts
  <2>3. q.rule # RuleTable["InviteMember"]
    BY <1>6, QuotaRules DEF CountApplications
  <2> QED
    BY <1>5, <1>6, <2>2, <2>3 DEF CountApplications
<1>7. CASE CountMembers(r)
  <2>1. t \in Tenants
    BY <1>1, <1>7 DEF CountMembers, LockSound
  <2>2. Cardinality(Members(db, t)) \in Nat
    BY <1>1, <2>1, FS_CardinalityType DEF LockSound, Counts
  <2>3. q.rule # RuleTable["CreateApplication"]
    BY <1>7, QuotaRules DEF CountMembers
  <2> QED
    BY <1>5, <1>7, <2>2, <2>3 DEF CountMembers
<1> QED
  BY <1>4, <1>6, <1>7

-----------------------------------------------------------------------------
(***************************************************************************)
(* A step either leaves the tables alone or is one legal commit.           *)
(***************************************************************************)
LEMMA Steps ==
  ASSUME IInv, NEW r \in Replicas,
         \/ BootLoad(r) \/ BootVersion(r) \/ Stop(r)
         \/ Authorization(r) \/ QuotaHandler(r) \/ Handler(r) \/ SelfService(r)
         \/ Finish(r)
  PROVE  \/ IInv' /\ db' = db
         \/ \E new \in Tables : Legal(r, new)
<1>1. CASE BootLoad(r) \/ BootVersion(r) \/ Stop(r) \/ Finish(r) \/ PolicyWrite(r)
  BY <1>1, LifeStep DEF BootLoad, BootVersion, Stop, Finish, PolicyWrite
<1>2. CASE Authorization(r)
  BY <1>2, AuthorizationStep
     DEF Authorization, EnforceLoaded, LoadG, ReadVersion, LoadP, CheckStatusWrite
<1>3. CASE QuotaHandler(r)
  <2>1. CASE TenantPlanLimits(r) \/ CountApplications(r) \/ CountMembers(r)
    BY <2>1, CountingStep DEF TenantPlanLimits, CountApplications, CountMembers
  <2> QED
    BY <1>3, <2>1, InviteMemberStep, CreateApplicationStep DEF QuotaHandler
<1>4. CASE Handler(r)
  BY <1>1, <1>4, AccountHandlers, PolicyHandlers DEF Handler
<1>5. CASE SelfService(r)
  BY <1>5, RegisterTenantStep, ProvisionStep DEF SelfService
<1> QED
  BY <1>1, <1>2, <1>3, <1>4, <1>5

(***************************************************************************)
(* The invariant holds at the start and through the steps of every         *)
(* replica, whatever the others commit in between.                         *)
(***************************************************************************)
THEOREM Invariance == Spec => []IInv
<1>1. Init => IInv
  <2> SUFFICES ASSUME Init PROVE IInv
    OBVIOUS
  <2> DEFINE g0 == GrantRow(SuperAdmin, "*", "*", "*")
             b0 == <<Root, SuperAdmin, "*">>
  <2>1. /\ db.version = 1 /\ db.grants = {g0} /\ db.bindings = {b0} /\ db.enabled = {}
        /\ db.plan = [t \in Tenants |-> "none"]
        /\ db.members = [t \in Tenants |-> [o \in Operators |-> "none"]]
        /\ db.apps = [a \in Apps |-> "none"]
        /\ lock = [t \in Tenants |-> "none"]
        /\ enforcer = [r \in Replicas |-> Down]
        /\ req = [r \in Replicas |-> Idle]
    BY DEF Init
  <2>2. g0 \in Grants /\ b0 \in Bindings /\ SuperAdmin \in Roles /\ Root \in Operators
    BY AdminAssumptions DEF Grants, Bindings, Roles, Domains
  <2>3. Down \in Enforcer /\ Down.reloaded = FALSE /\ Down.loadedV = 0
    BY DEF Down, Enforcer
  <2>4. TypeOK
    <3>1. db \in Tables
      <4>1. [o \in Operators |-> IF o = Root THEN "active" ELSE "none"]
              \in [Operators -> {"none", "active", "disabled"}]
        OBVIOUS
      <4> QED
        BY <2>2, <4>1 DEF Init, Tables
    <3> QED
      BY <2>1, <2>3, <3>1, IdleOK DEF TypeOK
  <2>5. OnApplication /\ VersionsSeen /\ ReloadSound /\ ReloadedIsCurrent /\ NothingStale
    BY <2>1, <2>3, IdleOK
       DEF OnApplication, VersionsSeen, ReloadSound, ReloadedIsCurrent, NothingStale, Authorized
  <2>6. LockSound
    <3>1. ASSUME NEW t \in Tenants
          PROVE  AppsOf(db, t) = {} /\ Members(db, t) = {}
      BY <2>1, AdminAssumptions DEF AppsOf, Members
    <3>2. \A t \in Tenants : Counts(t)
      BY <3>1, FS_EmptySet DEF Counts
    <3> QED
      BY <2>1, <3>2, IdleOK DEF LockSound
  <2>7. RowsSound
    <3>1. b0[1] \notin Ordinary
      BY DEF Ordinary
    <3>2. \A t \in Tenants, o \in Operators : db.members[t][o] = "none"
      BY <2>1
    <3> QED
      BY <2>1, <3>1, <3>2 DEF RowsSound
  <2> QED
    BY <2>4, <2>5, <2>6, <2>7 DEF IInv
<1>2. IInv /\ [Next]_vars => IInv'
  <2> SUFFICES ASSUME IInv, [Next]_vars PROVE IInv'
    OBVIOUS
  <2>1. CASE UNCHANGED vars
    BY <2>1 DEF vars, IInv, TypeOK, OnApplication, Authorized, VersionsSeen, ReloadSound,
                ReloadedIsCurrent, NothingStale, LockSound, Counts, TenantExists, RowsSound
  <2>2. CASE Next
    <3>1. PICK r \in Replicas :
            \/ BootLoad(r) \/ BootVersion(r) \/ Stop(r)
            \/ Authorization(r) \/ QuotaHandler(r) \/ Handler(r) \/ SelfService(r)
            \/ Finish(r)
      BY <2>2 DEF Next
    <3> QED
      BY <3>1, Steps, CommitStep
  <2> QED
    BY <2>1, <2>2
<1> QED
  BY <1>1, <1>2, PTL DEF Spec

(***************************************************************************)
(* A replica that has reloaded and whose version is the database's decides *)
(* from exactly the rows of the tables (Enforcer.Enforce and Reload).      *)
(***************************************************************************)
THEOREM ReloadedTheorem == Spec => []ReloadedIsCurrent
BY Invariance, PTL DEF IInv

(***************************************************************************)
(* Revocation is immediate: no request is authorized from a row that was   *)
(* gone before it began, nor a policy write on an application that was     *)
(* disabled all along.                                                     *)
(***************************************************************************)
THEOREM NothingStaleTheorem == Spec => []NothingStale
BY Invariance, PTL DEF IInv

(***************************************************************************)
(* Quotas hold under concurrency (TenantPlanLimits FOR UPDATE, count,      *)
(* insert): a step that adds an application or an invited member leaves    *)
(* the tenant within the limits of its plan.                               *)
(***************************************************************************)
THEOREM QuotaTheorem == Spec => WithinQuota
<1> DEFINE Within ==
      \A t \in Tenants :
        /\ AppsOf(db', t) # AppsOf(db, t) =>
             Cardinality(AppsOf(db', t)) <= MaxApplications[db'.plan[t]]
        /\ (\E o \in Operators : db.members[t][o] = "none" /\ db'.members[t][o] = "admin") =>
             Cardinality(Members(db', t)) <= MaxMembers[db'.plan[t]]
<1>1. IInv /\ [Next]_vars => [Within]_vars
  <2> SUFFICES ASSUME IInv, Next PROVE Within
    OBVIOUS
  <2>1. PICK r \in Replicas :
          \/ BootLoad(r) \/ BootVersion(r) \/ Stop(r)
          \/ Authorization(r) \/ QuotaHandler(r) \/ Handler(r) \/ SelfService(r)
          \/ Finish(r)
    BY DEF Next
  <2>2. CASE db' = db
    BY <2>2
  <2>3. ASSUME NEW new \in Tables, Legal(r, new)
        PROVE  Within
    <3>1. db' = new
      BY <2>3 DEF Legal, Commit
    <3> QED
      BY <2>3, <3>1 DEF Legal, QuotaKept
  <2> QED
    BY <2>1, <2>2, <2>3, Steps
<1> QED
  BY <1>1, Invariance, PTL DEF Spec, WithinQuota

(***************************************************************************)
(* Tenants are isolated: an operator that nobody bound by hand and that is *)
(* not called like a role is allowed nothing but on a tenant it owns or    *)
(* administers, and on that tenant's applications (BindTenantAdminTx and   *)
(* the matcher of the enforcer).  What its role was granted by hand does   *)
(* not matter: the matcher also asks for a binding in the domain of the    *)
(* request, since without one only the principal itself is reached there.  *)
(***************************************************************************)
THEOREM IsolationTheorem == Spec => []MembersStayInTenant
<1>1. IInv => MembersStayInTenant
  <2> SUFFICES ASSUME IInv, NEW o \in Ordinary, o \notin Roles,
                      NEW rule, NEW x,
                      Allows(db.grants, db.bindings, o, rule, x)
               PROVE  /\ TenantDomain(x) \in Tenants
                      /\ db.members[TenantDomain(x)][o] \in {"owner", "admin"}
    BY DEF MembersStayInTenant, Ordinary
  <2>1. PICK b \in db.bindings :
          b[1] = o /\ b[3] \in {x, TenantDomain(x), "*"}
    <3>1. PICK row \in db.grants, d \in {x, TenantDomain(x), "*"} :
            Leads(db.bindings, d, o, row.role)
      BY DEF Allows, Matches
    <3>2. row.role \in Roles
      <4>1. row \in Grants
        BY DEF IInv, TypeOK, Tables
      <4>2. CASE row = GrantRow(SuperAdmin, "*", "*", "*")
        BY <4>2 DEF GrantRow, Roles
      <4>3. CASE \E t \in Tenants : row = GrantRow(TenantAdmin(t), t, "*", "*")
        BY <4>3 DEF GrantRow, Roles
      <4>4. CASE \E c \in CustomGrants : row = GrantRow(c[1], c[2], c[3], c[4])
        BY <4>4, AdminAssumptions DEF GrantRow
      <4> QED
        BY <4>1, <4>2, <4>3, <4>4 DEF Grants
    <3> DEFINE rows == {b \in db.bindings : b[3] = d}
    <3>3. ASSUME \A b \in rows : b[1] # o
          PROVE  FALSE
      <4>1. {o} \in SUBSET ({o} \cup {b[2] : b \in rows})
        OBVIOUS
      <4>2. \A b \in rows : b[1] \in {o} => b[2] \in {o}
        BY <3>3
      <4>3. row.role \in {o}
        BY <3>1, <4>1, <4>2 DEF Leads
      <4> QED
        BY <3>2, <4>3
    <3> QED
      BY <3>3
  <2>2. PICK t \in Tenants : /\ b[2] = TenantAdmin(t) /\ b[3] = t
                             /\ db.members[t][o] \in {"owner", "admin"}
    BY <2>1 DEF IInv, RowsSound
  <2>3. t # "*" /\ t \notin Apps
    BY AdminAssumptions
  <2>4. t = x => TenantDomain(x) = x
    BY <2>3 DEF TenantDomain
  <2>5. TenantDomain(x) = t
    BY <2>1, <2>2, <2>3, <2>4
  <2> QED
    BY <2>2, <2>5
<1> QED
  BY <1>1, Invariance, PTL
=============================================================================
