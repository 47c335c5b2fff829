---------------------------- MODULE PolicyManager ----------------------------
(***************************************************************************)
(* The write engine of the control plane for one application               *)
(* (internal/controlplane/policy, projection, store).  Every write is one  *)
(* database transaction: take the row lock of the application, change the  *)
(* business tables, project them to Casbin rules, and if the policy        *)
(* changed, bump the version, write the audit record and the outbox row,   *)
(* all in the same transaction.                                            *)
(*                                                                         *)
(* db is the committed state of the application's tables.  A transaction   *)
(* of writer w is three steps, so that other writers interleave with it    *)
(* and it may fail half-way: LockAppVersion(w), one write operation that   *)
(* stages the tables it will commit, and Commit(w) or Rollback(w).         *)
(* Rollback stands for every error path: a failed check, a constraint of   *)
(* the schema, a lost connection, a failed outbox insert.                  *)
(***************************************************************************)
EXTENDS Naturals, Sequences, FiniteSets

CONSTANTS RoleCode,   \* role codes; a role is identified with its code
          PermCode,   \* permission codes
          Object,     \* the (resource, action) pairs a permission stands for
          User,       \* user ids of the application
          DataId,     \* row ids of data policies, handed out in order
          DataBody,   \* what a data policy says: [subject, scope]
          Template,   \* policy templates, see ApplyTemplate
          Writer,     \* concurrent callers of the manager
          Absent,     \* no such row / nothing staged
          MaxVersion  \* bound on the number of versions explored

ASSUME DataAssumption ==
  /\ DataId \subseteq Nat \ {0}
  /\ \A b \in DataBody : b.subject \in RoleCode \cup User
ASSUME BoundAssumption == MaxVersion \in Nat
ASSUME TemplateAssumption ==
  \A t \in Template :
    /\ IsFiniteSet(UNION {r.scopes : r \in t.roles})
    /\ DOMAIN t.points \subseteq PermCode
    /\ \A p \in DOMAIN t.points : t.points[p] \in Object
    /\ \A r \in t.roles : /\ r.code \in RoleCode
                          /\ r.perms \subseteq DOMAIN t.points
                          /\ r.scopes \subseteq DataBody

VARIABLES db,      \* the committed tables
          phase,   \* phase[w]: where the transaction of writer w stands
          staged,  \* staged[w]: the tables the transaction of w will commit
          dataSeq  \* the id sequence of data_policy; it never goes back

vars == <<db, phase, staged, dataSeq>>

Effect == {"allow", "deny"}

(***************************************************************************)
(* The domain column of a rule is the application's and is left out.  A    *)
(* user id and a role code are both strings, so User and RoleCode may      *)
(* overlap and one "g" row may come from a binding and from an inheritance.*)
(***************************************************************************)
PRule == {"p"} \X RoleCode \X Object \X Effect
GRule == {"g"} \X (User \cup RoleCode) \X RoleCode
Rule == PRule \cup GRule

(***************************************************************************)
(* A permission row.  setBy is a history field: who wrote the object last, *)
(* an operator (UpsertPermission) or an automatic report or template.      *)
(***************************************************************************)
Permission ==
  [object : Object, source : {"manual", "auto"}, setBy : {"operator", "auto"}]

ASSUME AbsentAssumption == Absent \notin DataBody \cup Permission \cup Effect

Log == INSTANCE PolicyLog
         WITH version <- db.version, rules <- db.rule,
              data <- db.data, log <- db.outbox

(***************************************************************************)
(* projection.ProjectApp: the rules the business tables call for.          *)
(***************************************************************************)
Granted(d) == {rp \in RoleCode \X PermCode : d.grant[rp] # Absent}

(* Mutant: role and object of a "p" row are swapped. *)
ProjectAppSwapped(d) ==
  {<<"p", d.permission[rp[2]].object, rp[1], d.grant[rp]>> : rp \in Granted(d)}
    \cup {<<"g", b[1], b[2]>> : b \in d.binding}
    \cup {<<"g", e[1], e[2]>> : e \in d.inherit}

ProjectApp(d) ==
  {<<"p", rp[1], d.permission[rp[2]].object, d.grant[rp]>> : rp \in Granted(d)}
    \cup {<<"g", b[1], b[2]>> : b \in d.binding}
    \cup {<<"g", e[1], e[2]>> : e \in d.inherit}

(***************************************************************************)
(* runVersionedWrite after the business tables were mutated to m, with the *)
(* data policy changes of the write.  ApplyData of Log is what the writes  *)
(* to data_policy did.  A write without effect on the policy commits m but *)
(* leaves version, audit log and outbox alone.                             *)
(***************************************************************************)
NoChanges == [i \in {} |-> Absent]

(* Mutant: no outbox row for a write that changes no rule. *)
PublishRulesOnly(m, adds, removes, changes) ==
  LET delta == [version |-> m.version + 1, adds |-> adds,
                removes |-> removes, data |-> changes]
  IN  [m EXCEPT !.rule = Log!ApplyRules(@, delta),
                !.data = Log!ApplyData(@, delta),
                !.version = delta.version,
                !.audit = Append(@, delta.version),
                !.outbox = IF adds \cup removes = {} THEN @ ELSE Append(@, delta)]

PublishDelta(m, adds, removes, changes) ==
  LET delta == [version |-> m.version + 1, adds |-> adds,
                removes |-> removes, data |-> changes]
  IN  [m EXCEPT !.rule = Log!ApplyRules(@, delta),
                !.data = Log!ApplyData(@, delta),
                !.version = delta.version,
                !.audit = Append(@, delta.version),
                !.outbox = Append(@, delta)]

(* Mutant: a write that only removes rules counts as one without effect. *)
RunAddsOnly(m, changes) ==
  LET desired == ProjectApp(m)
      adds    == desired \ m.rule
      removes == m.rule \ desired
  IN  IF adds = {} /\ DOMAIN changes = {}
      THEN m
      ELSE PublishDelta(m, adds, removes, changes)

RunVersionedWrite(m, changes) ==
  LET desired == ProjectApp(m)
      adds    == desired \ m.rule
      removes == m.rule \ desired
  IN  IF adds = {} /\ removes = {} /\ DOMAIN changes = {}
      THEN m
      ELSE PublishDelta(m, adds, removes, changes)

(***************************************************************************)
(* runVersionedWriteData: a data policy write always bumps the version and *)
(* does not look at the projection.                                        *)
(***************************************************************************)
RunVersionedWriteData(d, changes) == PublishDelta(d, {}, {}, changes)

-----------------------------------------------------------------------------
(* Transactions *)

Init ==
  /\ db = [role       |-> {},
           permission |-> [p \in PermCode |-> Absent],
           grant      |-> [rp \in RoleCode \X PermCode |-> Absent],
           inherit    |-> {},
           binding    |-> {},
           data       |-> [i \in DataId |-> Absent],
           rule       |-> {},
           version    |-> 0,
           audit      |-> << >>,
           outbox     |-> << >>]
  /\ phase = [w \in Writer |-> "idle"]
  /\ staged = [w \in Writer |-> Absent]
  /\ dataSeq = 0

(* Mutant: SELECT without FOR UPDATE. *)
ReadAppVersion(w) ==
  /\ phase[w] = "idle"
  /\ phase' = [phase EXCEPT ![w] = "locked"]
  /\ UNCHANGED <<db, staged, dataSeq>>

(***************************************************************************)
(* SELECT current_version ... FOR UPDATE: waits while another transaction  *)
(* holds the row.                                                          *)
(***************************************************************************)
LockAppVersion(w) ==
  /\ phase[w] = "idle"
  /\ \A v \in Writer \ {w} : phase[v] = "idle"
  /\ phase' = [phase EXCEPT ![w] = "locked"]
  /\ UNCHANGED <<db, staged, dataSeq>>

Stage(w, next) ==
  /\ phase[w] = "locked"
  /\ next.version <= MaxVersion
  /\ phase' = [phase EXCEPT ![w] = "staged"]
  /\ staged' = [staged EXCEPT ![w] = next]
  /\ UNCHANGED db

Commit(w) ==
  /\ phase[w] = "staged"
  /\ db' = staged[w]
  /\ phase' = [phase EXCEPT ![w] = "idle"]
  /\ staged' = [staged EXCEPT ![w] = Absent]
  /\ UNCHANGED dataSeq

Rollback(w) ==
  /\ phase[w] # "idle"
  /\ phase' = [phase EXCEPT ![w] = "idle"]
  /\ staged' = [staged EXCEPT ![w] = Absent]
  /\ UNCHANGED <<db, dataSeq>>

(***************************************************************************)
(* A write to the tables that change the projection.                       *)
(***************************************************************************)
Write(w, m) == Stage(w, RunVersionedWrite(m, NoChanges)) /\ UNCHANGED dataSeq

-----------------------------------------------------------------------------
(* Roles *)

PermExists(d, p) == d.permission[p] # Absent

(***************************************************************************)
(* A second role with the same code breaks uq_role_app_code: rollback.     *)
(***************************************************************************)
CreateRole(w, r) ==
  /\ r \notin db.role
  /\ Write(w, [db EXCEPT !.role = @ \cup {r}])

CreateBusinessRole(w, r, perms) ==
  /\ r \notin db.role
  /\ \A p \in perms : PermExists(db, p)
  /\ Write(w, [db EXCEPT !.role = @ \cup {r},
                         !.grant = [rp \in DOMAIN @ |->
                            IF rp[1] = r /\ rp[2] \in perms
                            THEN "allow" ELSE @[rp]]])

(***************************************************************************)
(* store.DeleteRole / DeleteRolesBatch: the references in role_permission, *)
(* role_inheritance and user_role_binding go first, then the role.  Data   *)
(* policies whose subject is the role are not touched.                     *)
(***************************************************************************)
WithoutRoles(d, R) ==
  [d EXCEPT !.role = @ \ R,
            !.grant = [rp \in DOMAIN @ |-> IF rp[1] \in R THEN Absent ELSE @[rp]],
            !.inherit = {e \in @ : e[1] \notin R /\ e[2] \notin R},
            !.binding = {b \in @ : b[2] \notin R}]

DeleteRole(w, r) == Write(w, WithoutRoles(db, {r}))

BatchDeleteRole(w, R) == Write(w, WithoutRoles(db, R))

-----------------------------------------------------------------------------
(* Permissions and grants *)

(***************************************************************************)
(* An operator registers or redefines a permission.  A new row has source  *)
(* manual; an existing row keeps its source.                               *)
(***************************************************************************)
UpsertPermission(w, p, o) ==
  LET source == IF PermExists(db, p) THEN db.permission[p].source ELSE "manual"
  IN  Write(w, [db EXCEPT !.permission[p] =
                  [object |-> o, source |-> source, setBy |-> "operator"]])

(***************************************************************************)
(* store.UpsertAutoPermission for each reported point: a row of source     *)
(* manual is skipped, any other is created or overwritten as auto.         *)
(***************************************************************************)
ManualRow(d, p) == PermExists(d, p) /\ d.permission[p].source = "manual"

(* Mutant: the report overwrites every row. *)
WithReportedOverManual(d, points) ==
  [d EXCEPT !.permission =
     [p \in DOMAIN @ |->
        IF p \in DOMAIN points
        THEN [object |-> points[p], source |-> "auto", setBy |-> "auto"]
        ELSE @[p]]]

WithReported(d, points) ==
  [d EXCEPT !.permission =
     [p \in DOMAIN @ |->
        IF p \in DOMAIN points /\ ~ManualRow(d, p)
        THEN [object |-> points[p], source |-> "auto", setBy |-> "auto"]
        ELSE @[p]]]

ReportPermissions(w, points) == Write(w, WithReported(db, points))

(***************************************************************************)
(* ON CONFLICT DO NOTHING: an existing grant keeps its effect.  The role   *)
(* and the permission must exist (foreign keys).                           *)
(***************************************************************************)
GrantPermission(w, r, p, eft) ==
  /\ r \in db.role
  /\ PermExists(db, p)
  /\ Write(w, [db EXCEPT !.grant[<<r, p>>] = IF @ = Absent THEN eft ELSE @])

WithoutGrants(d, pairs) ==
  [d EXCEPT !.grant = [rp \in DOMAIN @ |-> IF rp \in pairs THEN Absent ELSE @[rp]]]

RevokePermission(w, r, p) == Write(w, WithoutGrants(db, {<<r, p>>}))

BatchRevokePermission(w, pairs) == Write(w, WithoutGrants(db, pairs))

-----------------------------------------------------------------------------
(* Inheritance and bindings *)

(***************************************************************************)
(* b can be reached from a along the edges E: it lies in every set of      *)
(* roles that contains a and is closed under E.                            *)
(***************************************************************************)
Reaches(E, a, b) ==
  \A S \in SUBSET RoleCode :
    (a \in S /\ \A e \in E : e[1] \in S => e[2] \in S) => b \in S

(***************************************************************************)
(* projection.CheckNoCycle: the depth-first search from the parent along   *)
(* the inheritance edges must not come upon the child.                     *)
(***************************************************************************)
(* Mutant: only the self-loop is refused. *)
CheckNoSelfLoop(E, child, parent) == child # parent

CheckNoCycle(E, child, parent) == child # parent /\ ~Reaches(E, parent, child)

AddRoleInheritance(w, child, parent) ==
  /\ CheckNoCycle(db.inherit, child, parent)
  /\ {child, parent} \subseteq db.role
  /\ Write(w, [db EXCEPT !.inherit = @ \cup {<<child, parent>>}])

RemoveRoleInheritance(w, child, parent) ==
  Write(w, [db EXCEPT !.inherit = @ \ {<<child, parent>>}])

BatchRemoveRoleInheritance(w, edges) == Write(w, [db EXCEPT !.inherit = @ \ edges])

BindUserRole(w, u, r) ==
  /\ r \in db.role
  /\ Write(w, [db EXCEPT !.binding = @ \cup {<<u, r>>}])

UnbindUserRole(w, u, r) == Write(w, [db EXCEPT !.binding = @ \ {<<u, r>>}])

BatchUnbindUserRole(w, pairs) == Write(w, [db EXCEPT !.binding = @ \ pairs])

-----------------------------------------------------------------------------
(* Data policies *)

DataExists(d, i) == d.data[i] # Absent

InsertDataPolicy(w, body) ==
  LET id == dataSeq + 1
  IN  /\ id \in DataId
      /\ Stage(w, RunVersionedWriteData(db, [i \in {id} |-> body]))
      /\ dataSeq' = id

(***************************************************************************)
(* An update or delete that hits no row is an error: rollback.             *)
(***************************************************************************)
UpdateDataPolicy(w, id, body) ==
  /\ DataExists(db, id)
  /\ Stage(w, RunVersionedWriteData(db, [i \in {id} |-> body]))
  /\ UNCHANGED dataSeq

DeleteDataPolicy(w, id) ==
  /\ DataExists(db, id)
  /\ Stage(w, RunVersionedWriteData(db, [i \in {id} |-> Absent]))
  /\ UNCHANGED dataSeq

(***************************************************************************)
(* The batch skips ids that are not there, and bumps the version whether   *)
(* or not any of them was.                                                 *)
(***************************************************************************)
BatchDeleteDataPolicy(w, ids) ==
  LET removed == {i \in ids : DataExists(db, i)}
  IN  /\ ids # {}
      /\ Stage(w, RunVersionedWriteData(db, [i \in removed |-> Absent]))
      /\ UNCHANGED dataSeq

-----------------------------------------------------------------------------
(***************************************************************************)
(* ApplyTemplate.  A template is a record of permission points (code to    *)
(* object) and roles, each with its deterministic code, the permission     *)
(* codes it grants and the data scopes it seeds.  Points are upserted like *)
(* reported ones; only roles that do not exist yet are created, granted    *)
(* their codes and seeded their scopes, which take the next row ids in     *)
(* some order.                                                             *)
(***************************************************************************)
NewRoles(d, t) == {r \in t.roles : r.code \notin d.role}

SeededScopes(d, t) == UNION {r.scopes : r \in NewRoles(d, t)}

WithTemplate(d, t) ==
  [WithReported(d, t.points) EXCEPT
     !.role = @ \cup {r.code : r \in NewRoles(d, t)},
     !.grant = [rp \in DOMAIN @ |->
                  IF \E r \in NewRoles(d, t) : rp[1] = r.code /\ rp[2] \in r.perms
                  THEN "allow" ELSE @[rp]]]

ApplyTemplate(w, t) ==
  LET scopes == SeededScopes(db, t)
      ids    == dataSeq + 1 .. dataSeq + Cardinality(scopes)
  IN  /\ ids \subseteq DataId
      /\ \E seed \in [ids -> scopes] :
           /\ \A b \in scopes : \E i \in ids : seed[i] = b
           /\ Stage(w, RunVersionedWrite(WithTemplate(db, t), seed))
      /\ dataSeq' = dataSeq + Cardinality(scopes)

-----------------------------------------------------------------------------
RoleOp(w) ==
  \E r \in RoleCode :
    \/ CreateRole(w, r)
    \/ \E perms \in SUBSET PermCode : CreateBusinessRole(w, r, perms)
    \/ DeleteRole(w, r)

PermissionOp(w) ==
  \E p \in PermCode :
    \/ \E o \in Object : UpsertPermission(w, p, o)
    \/ \E r \in RoleCode, eft \in Effect : GrantPermission(w, r, p, eft)
    \/ \E r \in RoleCode : RevokePermission(w, r, p)

GraphOp(w) ==
  \E r \in RoleCode :
    \/ \E parent \in RoleCode : AddRoleInheritance(w, r, parent)
    \/ \E parent \in RoleCode : RemoveRoleInheritance(w, r, parent)
    \/ \E u \in User : BindUserRole(w, u, r)
    \/ \E u \in User : UnbindUserRole(w, u, r)

DataOp(w) ==
  \/ \E body \in DataBody : InsertDataPolicy(w, body)
  \/ \E i \in DataId, body \in DataBody : UpdateDataPolicy(w, i, body)
  \/ \E i \in DataId : DeleteDataPolicy(w, i)
  \/ \E ids \in SUBSET DataId : BatchDeleteDataPolicy(w, ids)

BatchOp(w) ==
  \/ \E P \in SUBSET PermCode : \E points \in [P -> Object] : ReportPermissions(w, points)
  \/ \E R \in SUBSET RoleCode : BatchDeleteRole(w, R)
  \/ \E pairs \in SUBSET (RoleCode \X PermCode) : BatchRevokePermission(w, pairs)
  \/ \E edges \in SUBSET (RoleCode \X RoleCode) : BatchRemoveRoleInheritance(w, edges)
  \/ \E pairs \in SUBSET (User \X RoleCode) : BatchUnbindUserRole(w, pairs)
  \/ \E t \in Template : ApplyTemplate(w, t)

Next ==
  \E w \in Writer :
    \/ LockAppVersion(w) \/ Commit(w) \/ Rollback(w)
    \/ RoleOp(w) \/ PermissionOp(w) \/ GraphOp(w) \/ DataOp(w) \/ BatchOp(w)

Spec == Init /\ [][Next]_vars

-----------------------------------------------------------------------------
(* Properties *)

Tables ==
  [role : SUBSET RoleCode,
   permission : [PermCode -> Permission \cup {Absent}],
   grant : [RoleCode \X PermCode -> Effect \cup {Absent}],
   inherit : SUBSET (RoleCode \X RoleCode),
   binding : SUBSET (User \X RoleCode),
   data : [DataId -> DataBody \cup {Absent}],
   rule : SUBSET Rule,
   version : Nat,
   audit : Seq(Nat),
   outbox : Seq(Log!Delta)]

(***************************************************************************)
(* Type correctness of the tables, of the tables staged by a transaction   *)
(* of runVersionedWrite, and of the writers' phases.                       *)
(***************************************************************************)
TypeOK ==
  /\ db \in Tables
  /\ phase \in [Writer -> {"idle", "locked", "staged"}]
  /\ DOMAIN staged = Writer
  /\ \A w \in Writer : phase[w] = "staged" => staged[w] \in Tables
  /\ dataSeq \in Nat

(***************************************************************************)
(* The committed casbin_rule table is the projection of the committed      *)
(* business tables, whichever writes ran and however their transactions    *)
(* interleaved: the write that takes the "no effect on the policy" return  *)
(* of runVersionedWrite leaves nothing behind.                             *)
(***************************************************************************)
ProjectionInSync == db.rule = ProjectApp(db)

(***************************************************************************)
(* The role graph has no inheritance cycle: every non-empty set of roles   *)
(* has one that inherits from none of the set.  CheckNoCycle runs under    *)
(* the application's row lock for this.                                    *)
(***************************************************************************)
Acyclic(E) ==
  \A S \in (SUBSET RoleCode) \ {{}} : \E r \in S : \A s \in S : <<r, s>> \notin E

NoInheritanceCycle == Acyclic(db.inherit)

(***************************************************************************)
(* The n-th outbox row and the n-th audit record are those of version n,   *)
(* and there is one of each for every version up to the current one: no    *)
(* version is skipped, used twice or left without its delta.               *)
(***************************************************************************)
OneDelta(d) ==
  /\ Len(d.outbox) = d.version
  /\ Len(d.audit) = d.version
  /\ \A n \in 1 .. d.version : d.outbox[n].version = n /\ d.audit[n] = n

OneDeltaPerVersion == OneDelta(db)

(***************************************************************************)
(* The writes of the manager, seen through version, casbin_rule,           *)
(* data_policy and policy_outbox, are the steps of PolicyLog: the policy   *)
(* never changes without publishing the exact delta of the next version.   *)
(***************************************************************************)
ImplementsPolicyLog == Log!Spec

(***************************************************************************)
(* A permission row of source manual stays manual, and only an operator    *)
(* redefines it: ReportPermissions and ApplyTemplate skip it.              *)
(***************************************************************************)
ManualRowsKept ==
  [][\A p \in PermCode :
       ManualRow(db, p) =>
         /\ ManualRow(db', p)
         /\ db'.permission[p] # db.permission[p] => db'.permission[p].setBy = "operator"]_db

(***************************************************************************)
(* What DeleteRole says of itself: a role that is deleted takes every      *)
(* reference to it along, so that a later role of the same code starts     *)
(* with nothing.  It fails for the data policies about the role, which     *)
(* name it by its code and stay.                                           *)
(***************************************************************************)
DeletedRoleForgotten ==
  [][\A r \in db.role \ db'.role : \A i \in DataId :
       DataExists(db', i) => db'.data[i].subject # r]_db
=============================================================================
