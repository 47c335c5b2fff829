------------------------ MODULE PolicyManager_proofs ------------------------
(***************************************************************************)
(* Proofs about PolicyManager, for every set of roles, permissions, users, *)
(* data policies, templates and concurrent writers.                        *)
(***************************************************************************)
EXTENDS PolicyManager, FiniteSetTheorems, TLAPS

(***************************************************************************)
(* Grants, bindings and inheritance edges name roles and permissions that  *)
(* exist.                                                                  *)
(***************************************************************************)
References(d) ==
  /\ \A rp \in Granted(d) : rp[1] \in d.role /\ d.permission[rp[2]] # Absent
  /\ \A b \in d.binding : b[2] \in d.role
  /\ \A e \in d.inherit : e[1] \in d.role /\ e[2] \in d.role

(***************************************************************************)
(* The inductive invariant.  What holds of the committed tables must hold  *)
(* of the tables a transaction has staged, because Commit installs them;   *)
(* and the staged tables must be one step of PolicyLog away from the       *)
(* committed ones, which is so as long as the row lock admits one          *)
(* transaction at a time.                                                  *)
(***************************************************************************)
Consistent(d) ==
  /\ References(d)
  /\ d.rule = ProjectApp(d)
  /\ Acyclic(d.inherit)
  /\ OneDelta(d)

SamePolicy(d, n) ==
  /\ n.version = d.version
  /\ n.rule = d.rule
  /\ n.data = d.data
  /\ n.outbox = d.outbox
  /\ n.audit = d.audit

Published(d, n, e) ==
  /\ e \in Log!Delta
  /\ e.version = d.version + 1
  /\ e.adds \cap d.rule = {}
  /\ e.removes \subseteq d.rule
  /\ n.version = e.version
  /\ n.rule = Log!ApplyRules(d.rule, e)
  /\ n.data = Log!ApplyData(d.data, e)
  /\ n.outbox = Append(d.outbox, e)

LogStep(d, n) == SamePolicy(d, n) \/ \E e \in Log!Delta : Published(d, n, e)

OneTransaction ==
  \A v, w \in Writer : phase[v] # "idle" /\ phase[w] # "idle" => v = w

StagedConsistent ==
  \A w \in Writer :
    phase[w] = "staged" => Consistent(staged[w]) /\ LogStep(db, staged[w])

IInv ==
  /\ TypeOK
  /\ Consistent(db)
  /\ OneTransaction
  /\ StagedConsistent

-----------------------------------------------------------------------------
(***************************************************************************)
(* Adding an edge that passes CheckNoCycle keeps the role graph acyclic.   *)
(* Were there a set S in which every role has a successor, then so would   *)
(* be the part of S inside a closed set T that contains the parent and not *)
(* the child, and that part does not use the new edge.                     *)
(***************************************************************************)
LEMMA CheckNoCycleSound ==
  ASSUME NEW E \in SUBSET (RoleCode \X RoleCode),
         NEW child \in RoleCode, NEW parent \in RoleCode,
         Acyclic(E), CheckNoCycle(E, child, parent)
  PROVE  Acyclic(E \cup {<<child, parent>>})
<1> DEFINE F == E \cup {<<child, parent>>}
<1>1. PICK T \in SUBSET RoleCode :
        /\ parent \in T
        /\ child \notin T
        /\ \A e \in E : e[1] \in T => e[2] \in T
  BY DEF CheckNoCycle, Reaches
<1>2. SUFFICES ASSUME NEW S \in (SUBSET RoleCode) \ {{}},
                      \A r \in S : \E s \in S : <<r, s>> \in F
               PROVE  FALSE
  BY DEF Acyclic
<1>3. PICK r \in S : \A s \in S : <<r, s>> \notin E
  BY DEF Acyclic
<1>4. PICK s \in S : <<r, s>> \in F
  BY <1>2
<1>5. s = parent
  BY <1>3, <1>4
<1>6. S \cap T \in (SUBSET RoleCode) \ {{}}
  BY <1>1, <1>5
<1>7. PICK q \in S \cap T : \A t \in S \cap T : <<q, t>> \notin E
  BY <1>6 DEF Acyclic
<1>8. PICK t \in S : <<q, t>> \in F
  BY <1>2
<1>9. <<q, t>> \in E
  BY <1>8, <1>1
<1>10. t \in T
  BY <1>9, <1>1
<1> QED
  BY <1>7, <1>9, <1>10

(***************************************************************************)
(* A role graph with fewer edges has no more cycles.                       *)
(***************************************************************************)
LEMMA AcyclicSubset ==
  ASSUME NEW E, NEW F, Acyclic(E), F \subseteq E
  PROVE  Acyclic(F)
BY DEF Acyclic

(***************************************************************************)
(* The projection of tables whose references resolve consists of rules.    *)
(***************************************************************************)
LEMMA ProjectionType ==
  ASSUME NEW d \in Tables, References(d)
  PROVE  ProjectApp(d) \subseteq Rule
<1>1. ASSUME NEW rp \in Granted(d)
      PROVE  <<"p", rp[1], d.permission[rp[2]].object, d.grant[rp]>> \in PRule
  <2>1. /\ rp \in RoleCode \X PermCode
        /\ d.grant[rp] \in Effect
        /\ d.permission[rp[2]] \in Permission
    BY <1>1 DEF Granted, References, Tables
  <2> QED
    BY <2>1 DEF PRule, Permission
<1>2. ASSUME NEW b \in d.binding
      PROVE  <<"g", b[1], b[2]>> \in GRule
  BY DEF Tables, GRule
<1>3. ASSUME NEW e \in d.inherit
      PROVE  <<"g", e[1], e[2]>> \in GRule
  BY DEF Tables, GRule
<1> QED
  BY <1>1, <1>2, <1>3 DEF ProjectApp, Rule

-----------------------------------------------------------------------------
(***************************************************************************)
(* PublishDelta installs the delta it is given: when the delta takes the   *)
(* rules of the tables to their projection, the published tables are       *)
(* consistent, and one step of PolicyLog away from the tables before.      *)
(***************************************************************************)
LEMMA PublishOK ==
  ASSUME NEW d \in Tables, Consistent(d),
         NEW m \in Tables, SamePolicy(d, m), References(m), Acyclic(m.inherit),
         NEW adds \in SUBSET Rule, NEW removes \in SUBSET Rule,
         adds \cap m.rule = {}, removes \subseteq m.rule,
         (m.rule \ removes) \cup adds = ProjectApp(m),
         NEW changes \in Log!DataChange
  PROVE  /\ PublishDelta(m, adds, removes, changes) \in Tables
         /\ Consistent(PublishDelta(m, adds, removes, changes))
         /\ LogStep(d, PublishDelta(m, adds, removes, changes))
<1> DEFINE e == [version |-> m.version + 1, adds |-> adds,
                 removes |-> removes, data |-> changes]
           n == PublishDelta(m, adds, removes, changes)
<1>1. m.version \in Nat /\ m.outbox \in Seq(Log!Delta) /\ m.audit \in Seq(Nat)
  BY DEF Tables
<1>2. e \in Log!Delta
  BY <1>1 DEF Log!Delta
<1>3. /\ n.role = m.role /\ n.permission = m.permission /\ n.grant = m.grant
      /\ n.inherit = m.inherit /\ n.binding = m.binding
      /\ n.rule = Log!ApplyRules(m.rule, e)
      /\ n.data = Log!ApplyData(m.data, e)
      /\ n.version = m.version + 1
      /\ n.audit = Append(m.audit, m.version + 1)
      /\ n.outbox = Append(m.outbox, e)
  BY DEF PublishDelta, Tables
<1>4. n.data \in [DataId -> DataBody \cup {Absent}]
  <2>1. \A i \in DataId : i \in DOMAIN changes => changes[i] \in DataBody \cup {Absent}
    BY DEF Log!DataChange
  <2>2. m.data \in [DataId -> DataBody \cup {Absent}]
    BY DEF Tables
  <2> QED
    BY <1>3, <2>1, <2>2 DEF Log!ApplyData
<1>5. n.rule \in SUBSET Rule
  BY <1>3 DEF Log!ApplyRules, Tables
<1>6. n \in Tables
  <2>1. n.audit \in Seq(Nat) /\ n.outbox \in Seq(Log!Delta) /\ n.version \in Nat
    BY <1>1, <1>2, <1>3
  <2> HIDE DEF e
  <2> QED
    BY <2>1, <1>4, <1>5 DEF PublishDelta, Tables
<1>7. Consistent(n)
  <2>1. Granted(n) = Granted(m)
    BY <1>3 DEF Granted
  <2>2. References(n)
    BY <1>3, <2>1 DEF References
  <2>3. ProjectApp(n) = ProjectApp(m)
    BY <1>3, <2>1 DEF ProjectApp
  <2>4. n.rule = ProjectApp(n)
    BY <1>3, <2>3 DEF Log!ApplyRules
  <2>5. OneDelta(m)
    BY DEF Consistent, SamePolicy, OneDelta
  <2>6. Len(n.outbox) = n.version /\ Len(n.audit) = n.version
    BY <1>1, <1>2, <1>3, <2>5 DEF OneDelta
  <2>7. ASSUME NEW k \in 1 .. n.version
        PROVE  n.outbox[k].version = k /\ n.audit[k] = k
    <3>1. CASE k \in 1 .. m.version
      BY <1>1, <1>2, <1>3, <2>5, <3>1 DEF OneDelta
    <3>2. CASE k = m.version + 1
      BY <1>1, <1>2, <1>3, <2>5, <3>2 DEF OneDelta
    <3>3. k \in 1 .. m.version + 1
      BY <1>3, <2>7
    <3>4. k \in 1 .. m.version \/ k = m.version + 1
      BY <1>1, <3>3
    <3> QED
      BY <3>1, <3>2, <3>4
  <2>8. OneDelta(n)
    BY <2>6, <2>7 DEF OneDelta
  <2> QED
    BY <1>3, <2>2, <2>4, <2>8 DEF Consistent
<1>8. Published(d, n, e)
  BY <1>2, <1>3 DEF Published, SamePolicy
<1> QED
  BY <1>2, <1>6, <1>7, <1>8 DEF LogStep

(***************************************************************************)
(* runVersionedWrite commits consistent tables one step of PolicyLog on,   *)
(* whatever the mutation of the business tables was, as long as it left    *)
(* references that resolve and an acyclic role graph.                      *)
(***************************************************************************)
LEMMA WriteOK ==
  ASSUME NEW d \in Tables, Consistent(d),
         NEW m \in Tables, SamePolicy(d, m), References(m), Acyclic(m.inherit),
         NEW changes \in Log!DataChange
  PROVE  /\ RunVersionedWrite(m, changes) \in Tables
         /\ Consistent(RunVersionedWrite(m, changes))
         /\ LogStep(d, RunVersionedWrite(m, changes))
<1> DEFINE desired == ProjectApp(m)
           adds    == desired \ m.rule
           removes == m.rule \ desired
<1>1. desired \subseteq Rule /\ m.rule \subseteq Rule
  BY ProjectionType DEF Tables
<1>2. CASE adds = {} /\ removes = {} /\ DOMAIN changes = {}
  <2>1. RunVersionedWrite(m, changes) = m
    BY <1>2 DEF RunVersionedWrite
  <2>2. m.rule = ProjectApp(m)
    BY <1>2
  <2>3. OneDelta(m)
    BY DEF Consistent, SamePolicy, OneDelta
  <2> QED
    BY <2>1, <2>2, <2>3 DEF Consistent, LogStep
<1>3. CASE ~(adds = {} /\ removes = {} /\ DOMAIN changes = {})
  <2>1. RunVersionedWrite(m, changes) = PublishDelta(m, adds, removes, changes)
    BY <1>3 DEF RunVersionedWrite
  <2>2. /\ adds \in SUBSET Rule /\ removes \in SUBSET Rule
        /\ adds \cap m.rule = {} /\ removes \subseteq m.rule
        /\ (m.rule \ removes) \cup adds = desired
    BY <1>1
  <2> HIDE DEF desired, adds, removes
  <2>3. desired = ProjectApp(m)
    BY DEF desired
  <2> QED
    BY <2>1, <2>2, <2>3, PublishOK
<1> QED
  BY <1>2, <1>3

(***************************************************************************)
(* runVersionedWriteData publishes the change of the data policies alone.  *)
(***************************************************************************)
LEMMA WriteDataOK ==
  ASSUME NEW d \in Tables, Consistent(d), NEW changes \in Log!DataChange
  PROVE  /\ RunVersionedWriteData(d, changes) \in Tables
         /\ Consistent(RunVersionedWriteData(d, changes))
         /\ LogStep(d, RunVersionedWriteData(d, changes))
<1>1. SamePolicy(d, d) /\ References(d) /\ Acyclic(d.inherit)
  BY DEF SamePolicy, Consistent
<1>2. (d.rule \ {}) \cup {} = ProjectApp(d)
  BY DEF Consistent
<1> QED
  BY <1>1, <1>2, PublishOK DEF RunVersionedWriteData

-----------------------------------------------------------------------------
(***************************************************************************)
(* What an operation may do to the business tables d before                *)
(* runVersionedWrite takes over.                                           *)
(***************************************************************************)
Mutation(d, m) ==
  /\ m \in Tables
  /\ SamePolicy(d, m)
  /\ References(m)
  /\ Acyclic(m.inherit)

(***************************************************************************)
(* store.InsertRole: a role that nothing refers to yet leaves the          *)
(* references in order.                                                    *)
(***************************************************************************)
LEMMA CreateRoleOK ==
  ASSUME NEW d \in Tables, Consistent(d), NEW r \in RoleCode
  PROVE  Mutation(d, [d EXCEPT !.role = @ \cup {r}])
BY DEF Mutation, Tables, SamePolicy, Consistent, References, Granted

(***************************************************************************)
(* The cascade of DeleteRole leaves no reference to the roles deleted.     *)
(***************************************************************************)
LEMMA WithoutRolesOK ==
  ASSUME NEW d \in Tables, Consistent(d), NEW R \in SUBSET RoleCode
  PROVE  Mutation(d, WithoutRoles(d, R))
<1> DEFINE m == WithoutRoles(d, R)
<1>1. m \in Tables /\ SamePolicy(d, m)
  BY DEF WithoutRoles, Tables, SamePolicy
<1>2. References(m)
  BY DEF WithoutRoles, Tables, Consistent, References, Granted
<1>3. m.inherit \subseteq d.inherit
  BY DEF WithoutRoles, Tables
<1>4. Acyclic(m.inherit)
  BY <1>3, AcyclicSubset DEF Consistent
<1> QED
  BY <1>1, <1>2, <1>4 DEF Mutation

(***************************************************************************)
(* Setting permission rows keeps references, as no row goes away.          *)
(***************************************************************************)
LEMMA SetPermissionsOK ==
  ASSUME NEW d \in Tables, Consistent(d),
         NEW perm \in [PermCode -> Permission \cup {Absent}],
         \A p \in PermCode : PermExists(d, p) => perm[p] # Absent
  PROVE  Mutation(d, [d EXCEPT !.permission = perm])
<1> DEFINE m == [d EXCEPT !.permission = perm]
<1>1. m \in Tables /\ SamePolicy(d, m)
  BY DEF Tables, SamePolicy
<1>2. References(m) /\ Acyclic(m.inherit)
  BY DEF Tables, Consistent, References, Granted, PermExists
<1> QED
  BY <1>1, <1>2 DEF Mutation

(***************************************************************************)
(* UpsertAutoPermission for each reported point only sets permission rows. *)
(***************************************************************************)
LEMMA WithReportedOK ==
  ASSUME NEW d \in Tables, Consistent(d), NEW points,
         \A p \in DOMAIN points : points[p] \in Object
  PROVE  /\ Mutation(d, WithReported(d, points))
         /\ \A p \in DOMAIN points \cap PermCode :
              PermExists(WithReported(d, points), p)
<1> DEFINE row(p)  == [object |-> points[p], source |-> "auto", setBy |-> "auto"]
           perm == [p \in PermCode |->
                      IF p \in DOMAIN points /\ ~ManualRow(d, p)
                      THEN row(p) ELSE d.permission[p]]
<1>1. d.permission \in [PermCode -> Permission \cup {Absent}]
  BY DEF Tables
<1>2. \A p \in DOMAIN points : row(p) \in Permission
  BY DEF Permission
<1>3. Absent \notin Permission
  BY AbsentAssumption
<1>4. perm \in [PermCode -> Permission \cup {Absent}]
  BY <1>1, <1>2
<1>5. \A p \in PermCode : p \in DOMAIN points \/ PermExists(d, p) => perm[p] # Absent
  BY <1>2, <1>3 DEF PermExists, ManualRow
<1>6. WithReported(d, points) = [d EXCEPT !.permission = perm]
  BY <1>1 DEF WithReported, Tables
<1> HIDE DEF perm
<1>7. Mutation(d, WithReported(d, points))
  BY <1>4, <1>5, <1>6, SetPermissionsOK
<1>8. \A p \in DOMAIN points \cap PermCode : PermExists(WithReported(d, points), p)
  BY <1>5, <1>6 DEF PermExists, Tables
<1> QED
  BY <1>7, <1>8

(***************************************************************************)
(* Granting permissions that exist to roles that exist, or revoking.       *)
(***************************************************************************)
LEMMA SetGrantsOK ==
  ASSUME NEW d \in Tables, Mutation(d, d),
         NEW R \in SUBSET RoleCode,
         NEW grant \in [RoleCode \X PermCode -> Effect \cup {Absent}],
         \A rp \in RoleCode \X PermCode :
           grant[rp] # Absent /\ grant[rp] # d.grant[rp]
             => rp[1] \in d.role \cup R /\ PermExists(d, rp[2])
  PROVE  Mutation(d, [d EXCEPT !.role = @ \cup R, !.grant = grant])
<1> DEFINE m == [d EXCEPT !.role = @ \cup R, !.grant = grant]
<1>1. m \in Tables /\ SamePolicy(d, m)
  BY DEF Tables, SamePolicy
<1>2. References(m) /\ Acyclic(m.inherit)
  BY DEF Tables, Mutation, References, Granted, PermExists
<1> QED
  BY <1>1, <1>2 DEF Mutation

(***************************************************************************)
(* Consistent tables are a mutation of themselves.                         *)
(***************************************************************************)
LEMMA ConsistentMutation ==
  ASSUME NEW d \in Tables, Consistent(d)
  PROVE  Mutation(d, d)
BY DEF Mutation, Consistent, SamePolicy

(***************************************************************************)
(* CreateBusinessRole grants existing permissions to the role it creates.  *)
(***************************************************************************)
LEMMA CreateBusinessRoleOK ==
  ASSUME NEW d \in Tables, Consistent(d), NEW r \in RoleCode,
         NEW perms \in SUBSET PermCode, \A p \in perms : PermExists(d, p)
  PROVE  Mutation(d, [d EXCEPT !.role = @ \cup {r},
                               !.grant = [rp \in DOMAIN @ |->
                                  IF rp[1] = r /\ rp[2] \in perms
                                  THEN "allow" ELSE @[rp]]])
<1> DEFINE grant == [rp \in DOMAIN d.grant |->
                       IF rp[1] = r /\ rp[2] \in perms
                       THEN "allow" ELSE d.grant[rp]]
<1>1. /\ d.grant \in [RoleCode \X PermCode -> Effect \cup {Absent}]
      /\ DOMAIN d.grant = RoleCode \X PermCode
  BY DEF Tables
<1>2. grant \in [RoleCode \X PermCode -> Effect \cup {Absent}]
  BY <1>1 DEF Effect
<1>3. \A rp \in RoleCode \X PermCode :
        grant[rp] # d.grant[rp] => rp[1] = r /\ PermExists(d, rp[2])
  BY <1>1
<1> HIDE DEF grant
<1>4. Mutation(d, [d EXCEPT !.role = @ \cup {r}, !.grant = grant])
  BY <1>2, <1>3, ConsistentMutation, SetGrantsOK
<1> QED
  BY <1>4 DEF grant, Tables

(***************************************************************************)
(* InsertRolePermission grants an existing permission to an existing role. *)
(***************************************************************************)
LEMMA GrantPermissionOK ==
  ASSUME NEW d \in Tables, Consistent(d), NEW r \in d.role,
         NEW p \in PermCode, PermExists(d, p), NEW eft \in Effect
  PROVE  Mutation(d, [d EXCEPT !.grant[<<r, p>>] = IF @ = Absent THEN eft ELSE @])
<1> DEFINE grant == [d.grant EXCEPT ![<<r, p>>] = IF @ = Absent THEN eft ELSE @]
<1>1. d.grant \in [RoleCode \X PermCode -> Effect \cup {Absent}] /\ r \in RoleCode
  BY DEF Tables
<1>2. /\ grant \in [RoleCode \X PermCode -> Effect \cup {Absent}]
      /\ \A rp \in RoleCode \X PermCode :
           grant[rp] # d.grant[rp] => rp[1] = r /\ rp[2] = p
  BY <1>1
<1> HIDE DEF grant
<1>3. Mutation(d, [d EXCEPT !.role = @ \cup {}, !.grant = grant])
  BY <1>2, ConsistentMutation, SetGrantsOK
<1>4. [d EXCEPT !.grant[<<r, p>>] = IF @ = Absent THEN eft ELSE @]
        = [d EXCEPT !.role = @ \cup {}, !.grant = grant]
  BY DEF grant, Tables
<1> QED
  BY <1>3, <1>4

(***************************************************************************)
(* DeleteRolePermission and its batch form only take grants away.          *)
(***************************************************************************)
LEMMA WithoutGrantsOK ==
  ASSUME NEW d \in Tables, Consistent(d), NEW pairs
  PROVE  Mutation(d, WithoutGrants(d, pairs))
<1> DEFINE m == WithoutGrants(d, pairs)
<1>1. m \in Tables /\ SamePolicy(d, m)
  BY DEF WithoutGrants, Tables, SamePolicy
<1>2. References(m) /\ Acyclic(m.inherit)
  BY DEF WithoutGrants, Tables, Consistent, References, Granted
<1> QED
  BY <1>1, <1>2 DEF Mutation

(***************************************************************************)
(* store.UpsertPermission sets one permission row and keeps the grants     *)
(* resolvable.                                                             *)
(***************************************************************************)
LEMMA UpsertPermissionOK ==
  ASSUME NEW d \in Tables, Consistent(d), NEW p \in PermCode, NEW row \in Permission
  PROVE  Mutation(d, [d EXCEPT !.permission[p] = row])
<1> DEFINE perm == [d.permission EXCEPT ![p] = row]
<1>1. d.permission \in [PermCode -> Permission \cup {Absent}]
  BY DEF Tables
<1>2. /\ perm \in [PermCode -> Permission \cup {Absent}]
      /\ \A q \in PermCode : PermExists(d, q) => perm[q] # Absent
  BY <1>1, AbsentAssumption DEF PermExists
<1> QED
  BY <1>2, SetPermissionsOK

(***************************************************************************)
(* AddRoleInheritance, guarded by CheckNoCycle, adds an edge between       *)
(* existing roles and closes no cycle.                                     *)
(***************************************************************************)
LEMMA AddInheritanceOK ==
  ASSUME NEW d \in Tables, Consistent(d), NEW child \in d.role, NEW parent \in d.role,
         CheckNoCycle(d.inherit, child, parent)
  PROVE  Mutation(d, [d EXCEPT !.inherit = @ \cup {<<child, parent>>}])
<1> DEFINE m == [d EXCEPT !.inherit = @ \cup {<<child, parent>>}]
<1>1. m \in Tables /\ SamePolicy(d, m)
  <2>1. d.inherit \cup {<<child, parent>>} \in SUBSET (RoleCode \X RoleCode)
    BY DEF Tables
  <2> QED
    BY <2>1 DEF Tables, SamePolicy
<1>2. References(m)
  BY DEF Tables, Consistent, References, Granted
<1>3. d.inherit \in SUBSET (RoleCode \X RoleCode) /\ d.role \subseteq RoleCode
  BY DEF Tables
<1>4. Acyclic(d.inherit \cup {<<child, parent>>})
  BY <1>3, CheckNoCycleSound DEF Consistent
<1>5. m.inherit = d.inherit \cup {<<child, parent>>}
  BY DEF Tables
<1> QED
  BY <1>1, <1>2, <1>4, <1>5 DEF Mutation

(***************************************************************************)
(* RemoveRoleInheritance and its batch form only take edges away.          *)
(***************************************************************************)
LEMMA RemoveInheritanceOK ==
  ASSUME NEW d \in Tables, Consistent(d), NEW edges
  PROVE  Mutation(d, [d EXCEPT !.inherit = @ \ edges])
<1> DEFINE m == [d EXCEPT !.inherit = @ \ edges]
<1>1. m \in Tables /\ SamePolicy(d, m)
  BY DEF Tables, SamePolicy
<1>2. References(m)
  BY DEF Tables, Consistent, References, Granted
<1>3. m.inherit \subseteq d.inherit
  BY DEF Tables
<1> QED
  BY <1>1, <1>2, <1>3, AcyclicSubset DEF Mutation, Consistent

(***************************************************************************)
(* InsertUserRoleBinding binds a user to an existing role.                 *)
(***************************************************************************)
LEMMA BindOK ==
  ASSUME NEW d \in Tables, Consistent(d), NEW u \in User, NEW r \in d.role
  PROVE  Mutation(d, [d EXCEPT !.binding = @ \cup {<<u, r>>}])
<1> DEFINE m == [d EXCEPT !.binding = @ \cup {<<u, r>>}]
<1>1. d.binding \cup {<<u, r>>} \in SUBSET (User \X RoleCode)
  BY DEF Tables
<1>2. m \in Tables /\ SamePolicy(d, m)
  BY <1>1 DEF Tables, SamePolicy
<1>3. References(m) /\ Acyclic(m.inherit)
  BY DEF Tables, Consistent, References, Granted
<1> QED
  BY <1>2, <1>3 DEF Mutation

(***************************************************************************)
(* DeleteUserRoleBinding and its batch form only take bindings away.       *)
(***************************************************************************)
LEMMA UnbindOK ==
  ASSUME NEW d \in Tables, Consistent(d), NEW pairs
  PROVE  Mutation(d, [d EXCEPT !.binding = @ \ pairs])
BY DEF Mutation, Tables, SamePolicy, Consistent, References, Granted
(***************************************************************************)
(* ApplyTemplate first upserts the points, then creates the roles that are *)
(* new and grants them codes of those points.                              *)
(***************************************************************************)
LEMMA WithTemplateOK ==
  ASSUME NEW d \in Tables, Consistent(d), NEW t \in Template
  PROVE  Mutation(d, WithTemplate(d, t))
<1> DEFINE rep == WithReported(d, t.points)
           R == {r.code : r \in NewRoles(d, t)}
           grant == [rp \in DOMAIN rep.grant |->
                       IF \E r \in NewRoles(d, t) : rp[1] = r.code /\ rp[2] \in r.perms
                       THEN "allow" ELSE rep.grant[rp]]
<1>1. /\ Mutation(d, rep)
      /\ \A p \in DOMAIN t.points : PermExists(rep, p)
  BY TemplateAssumption, WithReportedOK
<1>2. /\ rep \in Tables
      /\ Mutation(rep, rep)
      /\ rep.grant \in [RoleCode \X PermCode -> Effect \cup {Absent}]
      /\ DOMAIN rep.grant = RoleCode \X PermCode
  BY <1>1 DEF Mutation, SamePolicy, Tables
<1>3. R \in SUBSET RoleCode
  BY TemplateAssumption DEF NewRoles
<1>4. grant \in [RoleCode \X PermCode -> Effect \cup {Absent}]
  BY <1>2 DEF Effect
<1>5. ASSUME NEW rp \in RoleCode \X PermCode, grant[rp] # rep.grant[rp]
      PROVE  rp[1] \in R /\ PermExists(rep, rp[2])
  <2>1. PICK r \in NewRoles(d, t) : rp[1] = r.code /\ rp[2] \in r.perms
    BY <1>2, <1>5
  <2>2. rp[2] \in DOMAIN t.points
    BY <2>1, TemplateAssumption DEF NewRoles
  <2> QED
    BY <1>1, <2>1, <2>2
<1>6. WithTemplate(d, t) = [rep EXCEPT !.role = @ \cup R, !.grant = grant]
  BY DEF WithTemplate
<1> HIDE DEF rep, R, grant
<1>7. \A rp \in RoleCode \X PermCode :
        grant[rp] # Absent /\ grant[rp] # rep.grant[rp]
          => rp[1] \in rep.role \cup R /\ PermExists(rep, rp[2])
  BY <1>5
<1>8. Mutation(rep, [rep EXCEPT !.role = @ \cup R, !.grant = grant])
  BY <1>2, <1>3, <1>4, <1>7, SetGrantsOK
<1> QED
  BY <1>1, <1>6, <1>8 DEF Mutation, SamePolicy

-----------------------------------------------------------------------------
(***************************************************************************)
(* Staging consistent tables one step of PolicyLog on keeps the invariant. *)
(***************************************************************************)
LEMMA StageOK ==
  ASSUME IInv, NEW w \in Writer, NEW n \in Tables, Consistent(n), LogStep(db, n),
         Stage(w, n), dataSeq' \in Nat
  PROVE  IInv'
<1>1. /\ db' = db /\ db \in Tables /\ Consistent(db)
      /\ phase[w] = "locked"
      /\ phase \in [Writer -> {"idle", "locked", "staged"}]
      /\ phase' = [phase EXCEPT ![w] = "staged"]
      /\ DOMAIN staged = Writer
      /\ staged' = [staged EXCEPT ![w] = n]
  BY DEF IInv, TypeOK, Stage
<1>2. /\ staged'[w] = n
      /\ \A v \in Writer \ {w} : phase'[v] = phase[v] /\ staged'[v] = staged[v]
  BY <1>1
<1>3. TypeOK'
  BY <1>1, <1>2 DEF IInv, TypeOK
<1>4. OneTransaction'
  BY <1>1, <1>2 DEF IInv, OneTransaction
<1>5. StagedConsistent'
  BY <1>1, <1>2 DEF IInv, StagedConsistent
<1> QED
  BY <1>1, <1>3, <1>4, <1>5 DEF IInv

(***************************************************************************)
(* A write through runVersionedWrite whose mutation is in order preserves  *)
(* the inductive invariant.                                                *)
(***************************************************************************)
LEMMA WriteStep ==
  ASSUME IInv, NEW w \in Writer, NEW m, Mutation(db, m), Write(w, m)
  PROVE  IInv'
<1>1. db \in Tables /\ Consistent(db) /\ dataSeq' \in Nat
  BY DEF IInv, TypeOK, Write
<1>2. NoChanges \in Log!DataChange
  BY DEF NoChanges, Log!DataChange
<1>3. /\ RunVersionedWrite(m, NoChanges) \in Tables
      /\ Consistent(RunVersionedWrite(m, NoChanges))
      /\ LogStep(db, RunVersionedWrite(m, NoChanges))
  BY <1>1, <1>2, WriteOK DEF Mutation
<1> QED
  BY <1>1, <1>3, StageOK DEF Write

(***************************************************************************)
(* A write through runVersionedWriteData preserves the inductive           *)
(* invariant.                                                              *)
(***************************************************************************)
LEMMA DataStep ==
  ASSUME IInv, NEW w \in Writer, NEW changes \in Log!DataChange,
         Stage(w, RunVersionedWriteData(db, changes)), dataSeq' \in Nat
  PROVE  IInv'
<1>1. db \in Tables /\ Consistent(db)
  BY DEF IInv, TypeOK
<1> QED
  BY <1>1, WriteDataOK, StageOK

(***************************************************************************)
(* Only the holder of the row lock has anything staged, so nothing another *)
(* writer staged becomes stale when the tables change at its commit.       *)
(***************************************************************************)
LEMMA TransactionStep ==
  ASSUME IInv, NEW w \in Writer, LockAppVersion(w) \/ Commit(w) \/ Rollback(w)
  PROVE  IInv'
<1> USE DEF IInv
<1>1. CASE LockAppVersion(w)
  <2>1. TypeOK'
    BY <1>1 DEF LockAppVersion, TypeOK
  <2>2. OneTransaction'
    BY <1>1 DEF LockAppVersion, TypeOK, OneTransaction
  <2>3. StagedConsistent'
    BY <1>1 DEF LockAppVersion, TypeOK, StagedConsistent
  <2> QED
    BY <1>1, <2>1, <2>2, <2>3 DEF LockAppVersion
<1>2. CASE Commit(w)
  <2>1. TypeOK'
    BY <1>2 DEF Commit, TypeOK
  <2>2. Consistent(db)'
    BY <1>2 DEF Commit, StagedConsistent
  <2>3. OneTransaction'
    BY <1>2 DEF Commit, TypeOK, OneTransaction
  <2>4. \A v \in Writer : phase'[v] # "staged"
    BY <1>2 DEF Commit, TypeOK, OneTransaction
  <2>5. StagedConsistent'
    BY <2>4 DEF StagedConsistent
  <2> QED
    BY <2>1, <2>2, <2>3, <2>5
<1>3. CASE Rollback(w)
  <2>1. TypeOK'
    BY <1>3 DEF Rollback, TypeOK
  <2>2. OneTransaction'
    BY <1>3 DEF Rollback, TypeOK, OneTransaction
  <2>3. StagedConsistent'
    BY <1>3 DEF Rollback, TypeOK, StagedConsistent
  <2> QED
    BY <1>3, <2>1, <2>2, <2>3 DEF Rollback
<1> QED
  BY <1>1, <1>2, <1>3

-----------------------------------------------------------------------------
(* One step per operation *)

(***************************************************************************)
(* CreateRole, CreateBusinessRole and DeleteRole preserve the inductive    *)
(* invariant.                                                              *)
(***************************************************************************)
LEMMA RoleOpStep ==
  ASSUME IInv, NEW w \in Writer, RoleOp(w)
  PROVE  IInv'
<1>1. db \in Tables /\ Consistent(db)
  BY DEF IInv, TypeOK
<1>2. ASSUME NEW r \in RoleCode, CreateRole(w, r)
      PROVE  IInv'
  BY <1>1, <1>2, CreateRoleOK, WriteStep DEF CreateRole
<1>3. ASSUME NEW r \in RoleCode, NEW perms \in SUBSET PermCode,
             CreateBusinessRole(w, r, perms)
      PROVE  IInv'
  BY <1>1, <1>3, CreateBusinessRoleOK, WriteStep DEF CreateBusinessRole
<1>4. ASSUME NEW r \in RoleCode, DeleteRole(w, r)
      PROVE  IInv'
  BY <1>1, <1>4, WithoutRolesOK, WriteStep DEF DeleteRole
<1> QED
  BY <1>2, <1>3, <1>4 DEF RoleOp

(***************************************************************************)
(* UpsertPermission, GrantPermission and RevokePermission preserve the     *)
(* inductive invariant.                                                    *)
(***************************************************************************)
LEMMA PermissionOpStep ==
  ASSUME IInv, NEW w \in Writer, PermissionOp(w)
  PROVE  IInv'
<1>1. db \in Tables /\ Consistent(db)
  BY DEF IInv, TypeOK
<1>2. ASSUME NEW p \in PermCode, NEW o \in Object, UpsertPermission(w, p, o)
      PROVE  IInv'
  <2> DEFINE source == IF PermExists(db, p) THEN db.permission[p].source ELSE "manual"
             row == [object |-> o, source |-> source, setBy |-> "operator"]
  <2>1. row \in Permission
    BY <1>1 DEF Permission, Tables, PermExists
  <2>2. Write(w, [db EXCEPT !.permission[p] = row])
    BY <1>2 DEF UpsertPermission
  <2> HIDE DEF row
  <2> QED
    BY <1>1, <2>1, <2>2, UpsertPermissionOK, WriteStep
<1>3. ASSUME NEW p \in PermCode, NEW r \in RoleCode, NEW eft \in Effect,
             GrantPermission(w, r, p, eft)
      PROVE  IInv'
  BY <1>1, <1>3, GrantPermissionOK, WriteStep DEF GrantPermission
<1>4. ASSUME NEW p \in PermCode, NEW r \in RoleCode, RevokePermission(w, r, p)
      PROVE  IInv'
  BY <1>1, <1>4, WithoutGrantsOK, WriteStep DEF RevokePermission
<1> QED
  BY <1>2, <1>3, <1>4 DEF PermissionOp

(***************************************************************************)
(* The inheritance and binding writes preserve the inductive invariant.    *)
(***************************************************************************)
LEMMA GraphOpStep ==
  ASSUME IInv, NEW w \in Writer, GraphOp(w)
  PROVE  IInv'
<1>1. db \in Tables /\ Consistent(db)
  BY DEF IInv, TypeOK
<1>2. ASSUME NEW r \in RoleCode, NEW parent \in RoleCode,
             AddRoleInheritance(w, r, parent)
      PROVE  IInv'
  BY <1>1, <1>2, AddInheritanceOK, WriteStep DEF AddRoleInheritance
<1>3. ASSUME NEW r \in RoleCode, NEW parent \in RoleCode,
             RemoveRoleInheritance(w, r, parent)
      PROVE  IInv'
  BY <1>1, <1>3, RemoveInheritanceOK, WriteStep DEF RemoveRoleInheritance
<1>4. ASSUME NEW r \in RoleCode, NEW u \in User, BindUserRole(w, u, r)
      PROVE  IInv'
  BY <1>1, <1>4, BindOK, WriteStep DEF BindUserRole
<1>5. ASSUME NEW r \in RoleCode, NEW u \in User, UnbindUserRole(w, u, r)
      PROVE  IInv'
  BY <1>1, <1>5, UnbindOK, WriteStep DEF UnbindUserRole
<1> QED
  BY <1>2, <1>3, <1>4, <1>5 DEF GraphOp

(***************************************************************************)
(* The data policy writes preserve the inductive invariant.                *)
(***************************************************************************)
LEMMA DataOpStep ==
  ASSUME IInv, NEW w \in Writer, DataOp(w)
  PROVE  IInv'
<1>1. /\ dataSeq \in Nat
      /\ \A S \in SUBSET DataId, b \in DataBody \cup {Absent} :
           [i \in S |-> b] \in Log!DataChange
  BY DEF IInv, TypeOK, Log!DataChange
<1>2. ASSUME NEW body \in DataBody, InsertDataPolicy(w, body)
      PROVE  IInv'
  <2>1. dataSeq + 1 \in DataId /\ dataSeq' \in Nat
    BY <1>1, <1>2 DEF InsertDataPolicy
  <2>2. [i \in {dataSeq + 1} |-> body] \in Log!DataChange
    BY <1>1, <2>1
  <2>3. Stage(w, RunVersionedWriteData(db, [i \in {dataSeq + 1} |-> body]))
    BY <1>2 DEF InsertDataPolicy
  <2> QED
    BY <2>1, <2>2, <2>3, DataStep
<1>3. ASSUME NEW id \in DataId, NEW body \in DataBody, UpdateDataPolicy(w, id, body)
      PROVE  IInv'
  BY <1>1, <1>3, DataStep DEF UpdateDataPolicy
<1>4. ASSUME NEW id \in DataId, DeleteDataPolicy(w, id)
      PROVE  IInv'
  BY <1>1, <1>4, DataStep DEF DeleteDataPolicy
<1>5. ASSUME NEW ids \in SUBSET DataId, BatchDeleteDataPolicy(w, ids)
      PROVE  IInv'
  <2> DEFINE removed == {i \in ids : DataExists(db, i)}
  <2>1. [i \in removed |-> Absent] \in Log!DataChange
    BY <1>1
  <2> QED
    BY <1>1, <1>5, <2>1, DataStep DEF BatchDeleteDataPolicy
<1> QED
  BY <1>2, <1>3, <1>4, <1>5 DEF DataOp

(***************************************************************************)
(* ReportPermissions, ApplyTemplate and the batch writes preserve the      *)
(* inductive invariant.                                                    *)
(***************************************************************************)
LEMMA BatchOpStep ==
  ASSUME IInv, NEW w \in Writer, BatchOp(w)
  PROVE  IInv'
<1>1. db \in Tables /\ Consistent(db)
  BY DEF IInv, TypeOK
<1>2. ASSUME NEW P \in SUBSET PermCode, NEW points \in [P -> Object],
             ReportPermissions(w, points)
      PROVE  IInv'
  <2>1. \A p \in DOMAIN points : points[p] \in Object
    OBVIOUS
  <2>2. Mutation(db, WithReported(db, points))
    BY <1>1, <2>1, WithReportedOK
  <2> QED
    BY <1>2, <2>2, WriteStep DEF ReportPermissions
<1>3. ASSUME NEW R \in SUBSET RoleCode, BatchDeleteRole(w, R)
      PROVE  IInv'
  BY <1>1, <1>3, WithoutRolesOK, WriteStep DEF BatchDeleteRole
<1>4. ASSUME NEW pairs \in SUBSET (RoleCode \X PermCode), BatchRevokePermission(w, pairs)
      PROVE  IInv'
  BY <1>1, <1>4, WithoutGrantsOK, WriteStep DEF BatchRevokePermission
<1>5. ASSUME NEW edges \in SUBSET (RoleCode \X RoleCode),
             BatchRemoveRoleInheritance(w, edges)
      PROVE  IInv'
  BY <1>1, <1>5, RemoveInheritanceOK, WriteStep DEF BatchRemoveRoleInheritance
<1>6. ASSUME NEW pairs \in SUBSET (User \X RoleCode), BatchUnbindUserRole(w, pairs)
      PROVE  IInv'
  BY <1>1, <1>6, UnbindOK, WriteStep DEF BatchUnbindUserRole
<1>7. ASSUME NEW t \in Template, ApplyTemplate(w, t)
      PROVE  IInv'
  <2> DEFINE scopes == SeededScopes(db, t)
             ids    == dataSeq + 1 .. dataSeq + Cardinality(scopes)
  <2>1. PICK seed \in [ids -> scopes] :
          Stage(w, RunVersionedWrite(WithTemplate(db, t), seed))
    BY <1>7 DEF ApplyTemplate
  <2>2. scopes \subseteq DataBody /\ ids \in SUBSET DataId
    BY <1>7, TemplateAssumption DEF SeededScopes, NewRoles, ApplyTemplate
  <2>3. dataSeq' \in Nat
    <3>1. scopes \subseteq UNION {r.scopes : r \in t.roles}
      BY DEF SeededScopes, NewRoles
    <3>2. Cardinality(scopes) \in Nat
      BY <3>1, TemplateAssumption, FS_Subset, FS_CardinalityType
    <3> QED
      BY <1>7, <3>2 DEF IInv, TypeOK, ApplyTemplate
  <2> HIDE DEF scopes, ids
  <2>4. seed \in [ids -> DataBody \cup {Absent}]
    BY <2>1, <2>2
  <2>5. seed \in Log!DataChange
    BY <2>2, <2>4 DEF Log!DataChange
  <2>6. Mutation(db, WithTemplate(db, t))
    BY <1>1, WithTemplateOK
  <2> DEFINE n == RunVersionedWrite(WithTemplate(db, t), seed)
  <2>7. n \in Tables /\ Consistent(n) /\ LogStep(db, n)
    BY <1>1, <2>5, <2>6, WriteOK DEF Mutation
  <2> QED
    BY <2>1, <2>3, <2>7, StageOK
<1> QED
  BY <1>2, <1>3, <1>4, <1>5, <1>6, <1>7 DEF BatchOp

-----------------------------------------------------------------------------
(***************************************************************************)
(* The inductive invariant holds in every reachable state.                 *)
(***************************************************************************)
THEOREM Invariance == Spec => []IInv
<1>1. Init => IInv
  <2> SUFFICES ASSUME Init PROVE IInv
    OBVIOUS
  <2>1. TypeOK
    BY DEF Init, TypeOK, Tables
  <2>2. Granted(db) = {} /\ db.binding = {} /\ db.inherit = {} /\ db.rule = {}
    BY DEF Init, Granted
  <2>3. ProjectApp(db) = {}
    BY <2>2 DEF ProjectApp
  <2>4. Acyclic(db.inherit)
    BY <2>2 DEF Acyclic
  <2>5. OneDelta(db)
    BY DEF Init, OneDelta
  <2>6. Consistent(db)
    BY <2>2, <2>3, <2>4, <2>5 DEF Consistent, References
  <2>7. OneTransaction /\ StagedConsistent
    BY DEF Init, OneTransaction, StagedConsistent
  <2> QED
    BY <2>1, <2>6, <2>7 DEF IInv
<1>2. IInv /\ [Next]_vars => IInv'
  <2> SUFFICES ASSUME IInv, [Next]_vars PROVE IInv'
    OBVIOUS
  <2>1. CASE UNCHANGED vars
    BY <2>1 DEF vars, IInv, TypeOK, OneTransaction, StagedConsistent
  <2>2. CASE Next
    BY <2>2, TransactionStep, RoleOpStep, PermissionOpStep, GraphOpStep,
       DataOpStep, BatchOpStep DEF Next
  <2> QED
    BY <2>1, <2>2
<1> QED
  BY <1>1, <1>2, PTL DEF Spec

(***************************************************************************)
(* Type correctness of the tables and of every staged transaction.         *)
(***************************************************************************)
THEOREM TypeCorrect == Spec => []TypeOK
<1>1. IInv => TypeOK
  BY DEF IInv
<1> QED
  BY <1>1, Invariance, PTL

(***************************************************************************)
(* However writers interleave and wherever transactions fail, the casbin   *)
(* rules are the projection of the business tables, references resolve and *)
(* the role graph is acyclic.                                              *)
(***************************************************************************)
THEOREM ProjectionTheorem == Spec => []ProjectionInSync
<1>1. IInv => ProjectionInSync
  BY DEF IInv, Consistent, ProjectionInSync
<1> QED
  BY <1>1, Invariance, PTL

(***************************************************************************)
(* CheckNoCycle under the row lock keeps the role graph acyclic, for every *)
(* set of roles.                                                           *)
(***************************************************************************)
THEOREM AcyclicTheorem == Spec => []NoInheritanceCycle
<1>1. IInv => NoInheritanceCycle
  BY DEF IInv, Consistent, NoInheritanceCycle
<1> QED
  BY <1>1, Invariance, PTL

(***************************************************************************)
(* Every version has exactly one outbox row and one audit record.          *)
(***************************************************************************)
THEOREM OneDeltaTheorem == Spec => []OneDeltaPerVersion
<1>1. IInv => OneDeltaPerVersion
  BY DEF IInv, Consistent, OneDeltaPerVersion
<1> QED
  BY <1>1, Invariance, PTL

(***************************************************************************)
(* Only Commit changes the committed tables.                               *)
(***************************************************************************)
LEMMA OnlyCommits ==
  ASSUME [Next]_vars, db' # db
  PROVE  \E w \in Writer : Commit(w)
<1>1. PICK w \in Writer :
        \/ LockAppVersion(w) \/ Commit(w) \/ Rollback(w)
        \/ RoleOp(w) \/ PermissionOp(w) \/ GraphOp(w) \/ DataOp(w) \/ BatchOp(w)
  BY DEF Next, vars
<1> QED
  BY <1>1 DEF LockAppVersion, Rollback, Stage, Write,
     RoleOp, CreateRole, CreateBusinessRole, DeleteRole,
     PermissionOp, UpsertPermission, GrantPermission, RevokePermission,
     GraphOp, AddRoleInheritance, RemoveRoleInheritance, BindUserRole, UnbindUserRole,
     DataOp, InsertDataPolicy, UpdateDataPolicy, DeleteDataPolicy, BatchDeleteDataPolicy,
     BatchOp, ReportPermissions, BatchDeleteRole, BatchRevokePermission,
     BatchRemoveRoleInheritance, BatchUnbindUserRole, ApplyTemplate

(***************************************************************************)
(* The manager implements PolicyLog: a commit is a step of PolicyLog, or   *)
(* leaves it alone, because what it installs was staged against the tables *)
(* that are still committed; every other step leaves the tables alone.     *)
(***************************************************************************)
THEOREM Refinement == Spec => ImplementsPolicyLog
<1>1. Init => Log!Init
  BY DEF Init, Log!Init
<1>2. IInv /\ [Next]_vars => [Log!Next]_(Log!vars)
  <2> SUFFICES ASSUME IInv, [Next]_vars PROVE [Log!Next]_(Log!vars)
    OBVIOUS
  <2>1. ASSUME db' = db PROVE [Log!Next]_(Log!vars)
    BY <2>1 DEF Log!vars
  <2>2. ASSUME NEW w \in Writer, Commit(w) PROVE [Log!Next]_(Log!vars)
    <3>1. db' = staged[w] /\ LogStep(db, staged[w]) /\ db \in Tables
      BY <2>2 DEF IInv, TypeOK, StagedConsistent, Commit
    <3>2. CASE SamePolicy(db, staged[w])
      BY <3>1, <3>2 DEF SamePolicy, Log!vars
    <3>3. CASE \E e \in Log!Delta : Published(db, staged[w], e)
      <4>1. PICK e \in Log!Delta : Published(db, staged[w], e)
        BY <3>3
      <4>2. db.outbox \in Seq(Log!Delta) /\ db'.outbox = Append(db.outbox, e)
        BY <3>1, <4>1 DEF Published, Tables
      <4>3. Len(db'.outbox) = Len(db.outbox) + 1 /\ db'.outbox[Len(db'.outbox)] = e
        BY <4>2
      <4> QED
        BY <3>1, <4>1, <4>3 DEF Published, Log!Next, Log!Publish
    <3> QED
      BY <3>1, <3>2, <3>3 DEF LogStep
  <2>3. CASE Next
    BY <2>1, <2>2, <2>3, OnlyCommits
  <2> QED
    BY <2>1, <2>3 DEF vars
<1> QED
  BY <1>1, <1>2, Invariance, PTL DEF Spec, ImplementsPolicyLog, Log!Spec

-----------------------------------------------------------------------------
(* Rows an operator owns *)

(***************************************************************************)
(* What ManualRowsKept asks of a step from tables d to tables n, and the   *)
(* strengthening that makes it inductive: every transaction has staged     *)
(* tables that keep the manual rows of the tables committed now.           *)
(***************************************************************************)
KeepsManual(d, n) ==
  \A p \in PermCode :
    ManualRow(d, p) =>
      /\ ManualRow(n, p)
      /\ n.permission[p] # d.permission[p] => n.permission[p].setBy = "operator"

StagedKeepsManual ==
  \A w \in Writer : phase[w] = "staged" => KeepsManual(db, staged[w])

(***************************************************************************)
(* runVersionedWrite does not write the permission table.                  *)
(***************************************************************************)
LEMMA RunKeepsPermissions ==
  ASSUME NEW m, "permission" \in DOMAIN m, NEW changes
  PROVE  /\ RunVersionedWrite(m, changes).permission = m.permission
         /\ RunVersionedWriteData(m, changes).permission = m.permission
BY DEF RunVersionedWrite, RunVersionedWriteData, PublishDelta

(***************************************************************************)
(* A write that leaves the permission table alone keeps the manual rows.   *)
(***************************************************************************)
LEMMA SamePermissionsKeep ==
  ASSUME NEW d, NEW n, n.permission = d.permission
  PROVE  KeepsManual(d, n)
BY DEF KeepsManual, ManualRow, PermExists

(***************************************************************************)
(* store.UpsertAutoPermission skips the manual rows.                       *)
(***************************************************************************)
LEMMA ReportedKeep ==
  ASSUME NEW d \in Tables, NEW points
  PROVE  KeepsManual(d, WithReported(d, points)) /\ DOMAIN WithReported(d, points) = DOMAIN d
<1>1. \A p \in PermCode : ManualRow(d, p) => WithReported(d, points).permission[p] = d.permission[p]
  BY DEF WithReported, Tables
<1>2. DOMAIN WithReported(d, points) = DOMAIN d
  BY DEF WithReported
<1> QED
  BY <1>1, <1>2 DEF KeepsManual, ManualRow, PermExists

(***************************************************************************)
(* ApplyTemplate treats its points like reported ones.                     *)
(***************************************************************************)
LEMMA TemplateKeeps ==
  ASSUME NEW d \in Tables, NEW t
  PROVE  KeepsManual(d, WithTemplate(d, t)) /\ "permission" \in DOMAIN WithTemplate(d, t)
<1>1. "permission" \in DOMAIN WithReported(d, t.points)
  BY ReportedKeep DEF Tables
<1>2. /\ WithTemplate(d, t).permission = WithReported(d, t.points).permission
      /\ "permission" \in DOMAIN WithTemplate(d, t)
  BY <1>1 DEF WithTemplate
<1>3. KeepsManual(d, WithReported(d, t.points))
  BY ReportedKeep
<1> QED
  BY <1>2, <1>3 DEF KeepsManual, ManualRow, PermExists

(***************************************************************************)
(* UpsertPermission keeps the source of an existing row.                   *)
(***************************************************************************)
LEMMA UpsertKeeps ==
  ASSUME NEW d \in Tables, NEW p \in PermCode, NEW o \in Object, NEW row,
         row = [object |-> o,
                source |-> IF PermExists(d, p) THEN d.permission[p].source ELSE "manual",
                setBy  |-> "operator"]
  PROVE  KeepsManual(d, [d EXCEPT !.permission[p] = row])
<1> DEFINE n == [d EXCEPT !.permission[p] = row]
<1>1. n.permission[p] = row /\ \A q \in PermCode \ {p} : n.permission[q] = d.permission[q]
  BY DEF Tables
<1>2. row.setBy = "operator" /\ (PermExists(d, p) => row.source = d.permission[p].source)
  OBVIOUS
<1>3. row # Absent
  <2>1. PermExists(d, p) => d.permission[p].source \in {"manual", "auto"}
    BY DEF PermExists, Tables, Permission
  <2>2. row \in Permission
    BY <2>1 DEF Permission
  <2> QED
    BY <2>2, AbsentAssumption
<1> HIDE DEF n
<1>4. KeepsManual(d, n)
  <2> SUFFICES ASSUME NEW q \in PermCode, ManualRow(d, q)
               PROVE  /\ ManualRow(n, q)
                      /\ n.permission[q] # d.permission[q] => n.permission[q].setBy = "operator"
    BY DEF KeepsManual
  <2>1. CASE q = p
    BY <1>1, <1>2, <1>3, <2>1 DEF ManualRow, PermExists
  <2>2. CASE q # p
    BY <1>1, <2>2 DEF ManualRow, PermExists
  <2> QED
    BY <2>1, <2>2
<1> QED
  BY <1>4 DEF n

(***************************************************************************)
(* What Write stages keeps the manual rows if the mutated tables do.       *)
(***************************************************************************)
LEMMA WriteKeeps ==
  ASSUME NEW w \in Writer, NEW m, Write(w, m), "permission" \in DOMAIN m, KeepsManual(db, m)
  PROVE  \E n : Stage(w, n) /\ KeepsManual(db, n)
<1> DEFINE n == RunVersionedWrite(m, NoChanges)
<1>1. Stage(w, n)
  BY DEF Write
<1>2. n.permission = m.permission
  BY RunKeepsPermissions
<1> HIDE DEF n
<1>3. KeepsManual(db, n)
  BY <1>2 DEF KeepsManual, ManualRow, PermExists
<1> QED
  BY <1>1, <1>3

(***************************************************************************)
(* A data policy write leaves the permission table alone.                  *)
(***************************************************************************)
LEMMA DataWriteKeeps ==
  ASSUME NEW w \in Writer, NEW changes, db \in Tables,
         Stage(w, RunVersionedWriteData(db, changes))
  PROVE  \E n : Stage(w, n) /\ KeepsManual(db, n)
<1>1. RunVersionedWriteData(db, changes).permission = db.permission
  BY RunKeepsPermissions DEF Tables
<1> QED
  BY <1>1, SamePermissionsKeep

(***************************************************************************)
(* Every operation that stages tables keeps the manual rows in them.       *)
(***************************************************************************)
LEMMA OperationKeeps ==
  ASSUME db \in Tables, NEW w \in Writer,
         RoleOp(w) \/ PermissionOp(w) \/ GraphOp(w) \/ DataOp(w) \/ BatchOp(w)
  PROVE  \E n : Stage(w, n) /\ KeepsManual(db, n)
<1> DEFINE Goal == \E n : Stage(w, n) /\ KeepsManual(db, n)
<1>1. ASSUME NEW m, Write(w, m), DOMAIN m = DOMAIN db, m.permission = db.permission
      PROVE  Goal
  BY <1>1, SamePermissionsKeep, WriteKeeps DEF Tables
<1>2. ASSUME NEW changes, Stage(w, RunVersionedWriteData(db, changes))
      PROVE  Goal
  BY <1>2, DataWriteKeeps
<1> SUFFICES Goal
  OBVIOUS
<1> HIDE DEF Goal
<1>3. CASE RoleOp(w)
  <2>1. ASSUME NEW r, CreateRole(w, r) PROVE Goal
    BY <1>1, <2>1 DEF CreateRole, Tables
  <2>2. ASSUME NEW r, NEW perms, CreateBusinessRole(w, r, perms) PROVE Goal
    BY <1>1, <2>2 DEF CreateBusinessRole, Tables
  <2>3. ASSUME NEW r, DeleteRole(w, r) PROVE Goal
    BY <1>1, <2>3 DEF DeleteRole, WithoutRoles, Tables
  <2> QED
    BY <1>3, <2>1, <2>2, <2>3 DEF RoleOp
<1>4. CASE PermissionOp(w)
  <2>1. ASSUME NEW p \in PermCode, NEW o \in Object, UpsertPermission(w, p, o) PROVE Goal
    <3> DEFINE row == [object |-> o,
                       source |-> IF PermExists(db, p) THEN db.permission[p].source ELSE "manual",
                       setBy  |-> "operator"]
               m   == [db EXCEPT !.permission[p] = row]
    <3>1. KeepsManual(db, m)
      BY UpsertKeeps
    <3>2. "permission" \in DOMAIN m
      BY DEF Tables
    <3>3. Write(w, m)
      BY <2>1 DEF UpsertPermission
    <3> HIDE DEF m
    <3> QED
      BY <3>1, <3>2, <3>3, WriteKeeps DEF Goal
  <2>2. ASSUME NEW p, NEW r, NEW eft, GrantPermission(w, r, p, eft) PROVE Goal
    BY <1>1, <2>2 DEF GrantPermission, Tables
  <2>3. ASSUME NEW p, NEW r, RevokePermission(w, r, p) PROVE Goal
    BY <1>1, <2>3 DEF RevokePermission, WithoutGrants, Tables
  <2> QED
    BY <1>4, <2>1, <2>2, <2>3 DEF PermissionOp
<1>5. CASE GraphOp(w)
  <2>1. ASSUME NEW r, NEW parent, AddRoleInheritance(w, r, parent) PROVE Goal
    BY <1>1, <2>1 DEF AddRoleInheritance, Tables
  <2>2. ASSUME NEW r, NEW parent, RemoveRoleInheritance(w, r, parent) PROVE Goal
    BY <1>1, <2>2 DEF RemoveRoleInheritance, Tables
  <2>3. ASSUME NEW r, NEW u, BindUserRole(w, u, r) PROVE Goal
    BY <1>1, <2>3 DEF BindUserRole, Tables
  <2>4. ASSUME NEW r, NEW u, UnbindUserRole(w, u, r) PROVE Goal
    BY <1>1, <2>4 DEF UnbindUserRole, Tables
  <2> QED
    BY <1>5, <2>1, <2>2, <2>3, <2>4 DEF GraphOp
<1>6. CASE DataOp(w)
  BY <1>2, <1>6 DEF DataOp, InsertDataPolicy, UpdateDataPolicy, DeleteDataPolicy,
     BatchDeleteDataPolicy
<1>7. CASE BatchOp(w)
  <2>1. ASSUME NEW points, ReportPermissions(w, points) PROVE Goal
    <3>1. "permission" \in DOMAIN WithReported(db, points)
      BY ReportedKeep DEF Tables
    <3> QED
      BY <2>1, <3>1, ReportedKeep, WriteKeeps DEF ReportPermissions, Goal
  <2>2. ASSUME NEW R, BatchDeleteRole(w, R) PROVE Goal
    BY <1>1, <2>2 DEF BatchDeleteRole, WithoutRoles, Tables
  <2>3. ASSUME NEW pairs, BatchRevokePermission(w, pairs) PROVE Goal
    BY <1>1, <2>3 DEF BatchRevokePermission, WithoutGrants, Tables
  <2>4. ASSUME NEW edges, BatchRemoveRoleInheritance(w, edges) PROVE Goal
    BY <1>1, <2>4 DEF BatchRemoveRoleInheritance, Tables
  <2>5. ASSUME NEW pairs, BatchUnbindUserRole(w, pairs) PROVE Goal
    BY <1>1, <2>5 DEF BatchUnbindUserRole, Tables
  <2>6. ASSUME NEW t, ApplyTemplate(w, t) PROVE Goal
    <3>1. PICK seed : Stage(w, RunVersionedWrite(WithTemplate(db, t), seed))
      BY <2>6 DEF ApplyTemplate
    <3> DEFINE n == RunVersionedWrite(WithTemplate(db, t), seed)
    <3>2. n.permission = WithTemplate(db, t).permission
      BY TemplateKeeps, RunKeepsPermissions
    <3>3. KeepsManual(db, WithTemplate(db, t))
      BY TemplateKeeps
    <3> HIDE DEF n
    <3>4. KeepsManual(db, n)
      BY <3>2, <3>3 DEF KeepsManual, ManualRow, PermExists
    <3> QED
      BY <3>1, <3>4 DEF n, Goal
  <2> QED
    BY <1>7, <2>1, <2>2, <2>3, <2>4, <2>5, <2>6 DEF BatchOp
<1> QED
  BY <1>3, <1>4, <1>5, <1>6, <1>7

(***************************************************************************)
(* The staged tables keep the manual rows in every reachable state: the    *)
(* tables they were staged against are still the committed ones.           *)
(***************************************************************************)
LEMMA ManualStaged == Spec => []StagedKeepsManual
<1>1. Init => StagedKeepsManual
  BY DEF Init, StagedKeepsManual
<1>2. IInv /\ StagedKeepsManual /\ [Next]_vars => StagedKeepsManual'
  <2> SUFFICES ASSUME IInv, StagedKeepsManual, [Next]_vars PROVE StagedKeepsManual'
    OBVIOUS
  <2>1. db \in Tables /\ DOMAIN staged = Writer /\ DOMAIN phase = Writer
    BY DEF IInv, TypeOK
  <2>2. CASE UNCHANGED vars
    BY <2>2 DEF vars, StagedKeepsManual
  <2>3. ASSUME NEW w \in Writer, LockAppVersion(w) \/ Rollback(w)
        PROVE  StagedKeepsManual'
    BY <2>1, <2>3 DEF LockAppVersion, Rollback, StagedKeepsManual
  <2>4. ASSUME NEW w \in Writer, Commit(w)
        PROVE  StagedKeepsManual'
    <3>1. \A v \in Writer : phase'[v] # "staged"
      BY <2>1, <2>4 DEF Commit, IInv, OneTransaction
    <3> QED
      BY <3>1 DEF StagedKeepsManual
  <2>5. ASSUME NEW w \in Writer, NEW n, Stage(w, n), KeepsManual(db, n)
        PROVE  StagedKeepsManual'
    BY <2>1, <2>5 DEF Stage, StagedKeepsManual
  <2> QED
    BY <2>1, <2>2, <2>3, <2>4, <2>5, OperationKeeps DEF Next
<1> QED
  BY <1>1, <1>2, Invariance, PTL DEF Spec

(***************************************************************************)
(* No report and no template, in whatever transaction and however it       *)
(* interleaves, takes a permission row from the operator who made it.      *)
(***************************************************************************)
THEOREM ManualTheorem == Spec => ManualRowsKept
<1>1. StagedKeepsManual /\ [Next]_vars => [KeepsManual(db, db')]_db
  <2> SUFFICES ASSUME StagedKeepsManual, [Next]_vars, db' # db
               PROVE  KeepsManual(db, db')
    OBVIOUS
  <2>1. PICK w \in Writer : Commit(w)
    BY OnlyCommits
  <2> QED
    BY <2>1 DEF Commit, StagedKeepsManual
<1>2. [KeepsManual(db, db')]_db <=>
        [\A p \in PermCode :
           ManualRow(db, p) =>
             /\ ManualRow(db', p)
             /\ db'.permission[p] # db.permission[p] => db'.permission[p].setBy = "operator"]_db
  BY DEF KeepsManual
<1> QED
  BY <1>1, <1>2, ManualStaged, PTL DEF Spec, ManualRowsKept
=============================================================================
