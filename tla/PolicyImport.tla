---------------------------- MODULE PolicyImport ----------------------------
(***************************************************************************)
(* The policy-as-code import (internal/controlplane/policy/policy_as_code, *)
(* iac/diff, iac/parse, store/source).  A document states which            *)
(* permissions, roles and data policies an application shall have.  The    *)
(* import compares it with the tables, which also hold what operators      *)
(* configured (source manual) and what the application reported (auto),    *)
(* and makes the part it governs (source iac) equal to the document.       *)
(*                                                                         *)
(* Import reads and compares once without the lock of the application, to  *)
(* refuse early, and again under it.  Other writers commit in between; a   *)
(* transaction under the lock is one step here (PolicyManager takes it     *)
(* apart).  Names and descriptions are left out, and so are inheritance    *)
(* edges, which the cascade of DeleteRole treats as it does grants.        *)
(***************************************************************************)
EXTENDS Naturals, FiniteSets

CONSTANTS Key,        \* role keys of documents
          PermCode,   \* permission codes
          Object,     \* what a permission code stands for: resource, action
          Scope,      \* resource, condition and effect of a role's data policy
          Subject,    \* identities of data policies of subjects that are no role
          Body,       \* condition and effect of such a data policy
          StrayRole,  \* role codes that top-level data policies are about
          Absent,     \* no such row
          MaxWrites   \* bound on committed transactions

(***************************************************************************)
(* Absent is no value of a column and no row, and an application has       *)
(* finitely many keys, data scopes and subjects to declare.                *)
(***************************************************************************)
ASSUME ImportAssumption ==
  /\ \A S \in {PermCode, Object, Scope, Subject, Body, Key} : Absent \notin S
  /\ Absent \notin {"manual", "auto", "iac", "allow", "deny"}
  /\ Absent \notin [object : Object, source : {"manual", "auto", "iac"}]
  /\ Absent \notin [perms : SUBSET PermCode, repeats : SUBSET PermCode, scopes : SUBSET Scope]
  /\ StrayRole \subseteq {"plain", "iac", "tpl"} \X Key
  /\ IsFiniteSet(Key) /\ IsFiniteSet(Scope) /\ IsFiniteSet(Subject)
  /\ MaxWrites \in Nat

VARIABLES db,       \* the tables of one application
          pending,  \* the import between its first comparison and its lock
          bumped,   \* the last transaction published a new version
          writes    \* committed transactions

vars == <<db, pending, bumped, writes>>

(***************************************************************************)
(* Role codes: an operator's ("plain" key), the import's ("iac:" key) and  *)
(* a template's ("tpl:..."), which no document can express.                *)
(***************************************************************************)
RoleCode == {"plain", "iac", "tpl"} \X Key

Expressible == {c \in RoleCode : c[1] # "tpl"}

KeyOf(c) == c[2]

(* A role may list a permission code more than once (repeats). *)
DeclaredRole ==
  {r \in [perms : SUBSET PermCode, repeats : SUBSET PermCode, scopes : SUBSET Scope] :
     r.repeats \subseteq r.perms}

(***************************************************************************)
(* The documents that pass iac.Validate: keys and identities are unique    *)
(* (functions), and a role refers to declared permissions only.  A         *)
(* top-level data policy may be about a role, declared or not (stray).     *)
(***************************************************************************)
Document ==
  {doc \in [perm  : [PermCode -> Object \cup {Absent}],
            role  : [Key -> DeclaredRole \cup {Absent}],
            top   : [Subject -> Body \cup {Absent}],
            stray : [StrayRole -> Scope \cup {Absent}]] :
     \A k \in Key : doc.role[k] # Absent =>
       \A p \in doc.role[k].perms : doc.perm[p] # Absent}

NoImport == [doc |-> Absent, plan |-> Absent]

Init ==
  /\ db = [role  |-> [c \in RoleCode |-> Absent],
           perm  |-> [p \in PermCode |-> Absent],
           grant |-> [g \in RoleCode \X PermCode |-> Absent],
           bound |-> {}, scope |-> {}, top |-> {}]
  /\ pending = NoImport
  /\ bumped = FALSE
  /\ writes = 0

-----------------------------------------------------------------------------
(* iac.Diff *)

RolesOfKey(d, k) == {c \in Expressible : KeyOf(c) = k /\ d.role[c] # Absent}

(* Two roles with one key: the snapshot is refused. *)
Collision(d) == \E k \in Key : Cardinality(RolesOfKey(d, k)) > 1

RoleOfKey(d, k) == CHOOSE c \in RolesOfKey(d, k) : TRUE

(* Mutant: what operators configured is governed too. *)
GovernManual(source, declared, same) ==
  CASE source # "auto" /\ declared /\ ~same -> "update"
    [] source # "auto" /\ ~declared         -> "delete"
    [] OTHER                                -> "none"

(***************************************************************************)
(* What the import does with a row that is there.  An auto row is never    *)
(* touched.                                                                *)
(***************************************************************************)
Govern(source, declared, same) ==
  CASE source = "iac" /\ declared /\ ~same -> "update"
    [] source = "iac" /\ ~declared         -> "delete"
    [] source = "manual" /\ declared       -> "adopt"
    [] OTHER                               -> "none"

PermKind(doc, d, p) ==
  LET declared == doc.perm[p] # Absent
  IN  IF d.perm[p] = Absent
        THEN IF declared THEN "create" ELSE "none"
        ELSE Govern(d.perm[p].source, declared, d.perm[p].object = doc.perm[p])

ScopesOf(d, c) == {r \in d.scope : r.role = c}

(***************************************************************************)
(* Permission codes are compared as lists without their effect, and a role *)
(* holds each once; data scopes as multisets of rows whatever their source *)
(* and whichever part of a document they came from.                        *)
(***************************************************************************)
RoleFieldsEqual(d, c, want) ==
  /\ want.repeats = {}
  /\ {p \in PermCode : d.grant[<<c, p>>] # Absent} = want.perms
  /\ {r.scope : r \in ScopesOf(d, c)} = want.scopes
  /\ Cardinality(ScopesOf(d, c)) = Cardinality(want.scopes)

RoleKind(doc, d, k) ==
  LET declared == doc.role[k] # Absent
      c        == RoleOfKey(d, k)
      kind     == Govern(d.role[c], declared,
                         declared /\ RoleFieldsEqual(d, c, doc.role[k]))
  IN  IF RolesOfKey(d, k) = {}
        THEN IF declared THEN "create" ELSE "none"
        ELSE IF kind = "delete" /\ c \in d.bound THEN "conflict" ELSE kind

TopRows(d, s) == {r \in d.top : r.subject = s}

(* Several rows of one identity are a conflict if the import governs them. *)
TopKind(doc, d, s) ==
  LET declared == doc.top[s] # Absent
      rows     == TopRows(d, s)
      row      == CHOOSE r \in rows : TRUE
  IN  CASE Cardinality(rows) > 1 ->
             IF declared \/ \E r \in rows : r.source = "iac" THEN "conflict" ELSE "none"
        [] rows = {} -> IF declared THEN "create" ELSE "none"
        [] OTHER     -> Govern(row.source, declared, row.body = doc.top[s])

(* The rows of roles are no part of the comparison of top-level policies. *)
StrayKind(doc, c) == IF doc.stray[c] = Absent THEN "none" ELSE "create"

Diff(doc, d) ==
  [perm  |-> [p \in PermCode |-> PermKind(doc, d, p)],
   role  |-> [k \in Key |-> RoleKind(doc, d, k)],
   top   |-> [s \in Subject |-> TopKind(doc, d, s)],
   stray |-> [c \in StrayRole |-> StrayKind(doc, c)]]

Conflict(plan) ==
  \/ \E k \in Key : plan.role[k] = "conflict"
  \/ \E s \in Subject : plan.top[s] = "conflict"

EmptyPlan ==
  [perm |-> [p \in PermCode |-> "none"], role  |-> [k \in Key |-> "none"],
   top  |-> [s \in Subject |-> "none"],  stray |-> [c \in StrayRole |-> "none"]]

-----------------------------------------------------------------------------
(* applyImportPlan *)

Located == {"adopt", "update", "delete"}

Set == {"create", "adopt", "update"}

(* Rows that the plan refers to and that are gone fail the transaction. *)
Present(plan, d) ==
  /\ \A k \in Key : plan.role[k] \in Located => RolesOfKey(d, k) # {}
  /\ \A s \in Subject : plan.top[s] \in Located => TopRows(d, s) # {}

CodeOf(plan, d, k) == IF plan.role[k] = "create" THEN <<"iac", k>> ELSE RoleOfKey(d, k)

DeletedRoles(plan, d) == {RoleOfKey(d, k) : k \in {x \in Key : plan.role[x] = "delete"}}

SetRoles(plan, d) == {CodeOf(plan, d, k) : k \in {x \in Key : plan.role[x] \in Set}}

AppliedRoles(plan, d) ==
  [c \in RoleCode |->
     CASE c \in DeletedRoles(plan, d) -> Absent
       [] c \in SetRoles(plan, d)     -> "iac"
       [] OTHER                       -> d.role[c]]

AppliedPerms(doc, plan, d) ==
  [p \in PermCode |->
     CASE plan.perm[p] \in Set      -> [object |-> doc.perm[p], source |-> "iac"]
       [] plan.perm[p] = "delete"   -> Absent
       [] OTHER                     -> d.perm[p]]

(* resetRolePermissions: every declared permission is granted as an allow. *)
AppliedGrants(doc, plan, d) ==
  [g \in RoleCode \X PermCode |->
     CASE g[1] \in DeletedRoles(plan, d) -> Absent
       [] g[1] \in SetRoles(plan, d)     ->
            IF g[2] \in doc.role[KeyOf(g[1])].perms THEN "allow" ELSE Absent
       [] OTHER                          -> d.grant[g]]

ClearedScopes(plan, d) ==
  {r \in d.scope : r.role \in DeletedRoles(plan, d) \cup SetRoles(plan, d)}

DeclaredScopes(doc, plan, d) ==
  UNION {{[role |-> c, scope |-> s, source |-> "iac", via |-> "role"] :
            s \in doc.role[KeyOf(c)].scopes} : c \in SetRoles(plan, d)}

(* After the roles: inserted whatever rows of the role are there. *)
StrayScopes(doc) ==
  {[role |-> c, scope |-> doc.stray[c], source |-> "iac", via |-> "top"] :
     c \in {x \in StrayRole : StrayKind(doc, x) = "create"}}

(* Mutant: the old data scopes of a role are not cleared. *)
AppliedScopesOnTop(doc, plan, d) ==
  d.scope \cup DeclaredScopes(doc, plan, d) \cup StrayScopes(doc)

AppliedScopes(doc, plan, d) ==
  (d.scope \ ClearedScopes(plan, d)) \cup DeclaredScopes(doc, plan, d) \cup StrayScopes(doc)

AppliedTop(doc, plan, d) ==
  {r \in d.top : plan.top[r.subject] = "none"}
    \cup {[subject |-> s, body |-> doc.top[s], source |-> "iac"] :
            s \in {x \in Subject : plan.top[x] \in Set}}

Applied(doc, plan, d) ==
  [role  |-> AppliedRoles(plan, d),
   perm  |-> AppliedPerms(doc, plan, d),
   grant |-> AppliedGrants(doc, plan, d),
   bound |-> d.bound \ DeletedRoles(plan, d),
   scope |-> AppliedScopes(doc, plan, d),
   top   |-> AppliedTop(doc, plan, d)]

(* Mutant: permissions are deleted before the grants of roles are reset. *)
DeletableFirst(doc, plan, d) ==
  \A g \in RoleCode \X PermCode : plan.perm[g[2]] = "delete" => d.grant[g] = Absent

(***************************************************************************)
(* DeletePermission, the last phase: a permission that some role still     *)
(* holds fails the transaction.                                            *)
(***************************************************************************)
Deletable(doc, plan, d) ==
  \A g \in RoleCode \X PermCode :
    plan.perm[g[2]] = "delete" => AppliedGrants(doc, plan, d)[g] = Absent

(* Mutant: only the top-level data policies are recorded as changes. *)
TopDataChanges(doc, plan, d) == \E s \in Subject : plan.top[s] # "none"

DataChanges(doc, plan, d) ==
  \/ ClearedScopes(plan, d) # {}
  \/ DeclaredScopes(doc, plan, d) # {}
  \/ StrayScopes(doc) # {}
  \/ \E s \in Subject : plan.top[s] # "none"

-----------------------------------------------------------------------------
(* Transactions *)

(* What the projection hands to the enforcers: granted objects, bindings. *)
Projection(d) ==
  {<<g[1], d.perm[g[2]].object, d.grant[g]>> :
     g \in {x \in RoleCode \X PermCode : d.grant[x] # Absent /\ d.perm[x[2]] # Absent}}
    \cup {<<c, "bound">> : c \in d.bound}

(* A version is published if the projection or a data policy changed. *)
Write(d, dataChanged) ==
  /\ writes < MaxWrites
  /\ writes' = writes + 1
  /\ db' = d
  /\ bumped' = (Projection(d) # Projection(db) \/ dataChanged)

(* Mutant: the plan of the first comparison is applied. *)
StalePlan == pending.plan

FreshPlan == Diff(pending.doc, db)

(* Before the lock: invalid documents and conflicts are refused. *)
BeginImport(doc) ==
  /\ pending = NoImport /\ writes < MaxWrites
  /\ ~Collision(db)
  /\ ~Conflict(Diff(doc, db))
  /\ pending' = [doc |-> doc, plan |-> Diff(doc, db)]
  /\ UNCHANGED <<db, bumped, writes>>

ImportFails ==
  \/ Collision(db)
  \/ Conflict(FreshPlan)
  \/ ~Present(FreshPlan, db)
  \/ Present(FreshPlan, db) /\ ~Deletable(pending.doc, FreshPlan, db)

(* Under the lock: compared again, then applied or rolled back. *)
CommitImport ==
  /\ pending # NoImport
  /\ ~ImportFails
  /\ Write(Applied(pending.doc, FreshPlan, db), DataChanges(pending.doc, FreshPlan, db))
  /\ pending' = NoImport

RollbackImport ==
  /\ pending # NoImport
  /\ ImportFails
  /\ pending' = NoImport
  /\ UNCHANGED <<db, bumped, writes>>

-----------------------------------------------------------------------------
(* The other writers: operators, the application's reports, templates *)

CreateRole(c) ==
  /\ db.role[c] = Absent
  /\ Write([db EXCEPT !.role[c] = "manual"], FALSE)
  /\ UNCHANGED pending

(* The role's data policies stay. *)
DeleteRole(c) ==
  /\ db.role[c] # Absent
  /\ Write([db EXCEPT !.role[c] = Absent, !.bound = @ \ {c},
                      !.grant = [g \in DOMAIN @ |-> IF g[1] = c THEN Absent ELSE @[g]]],
           FALSE)
  /\ UNCHANGED pending

(* The source of a row that is there stays what it was. *)
UpsertPermission(p, o) ==
  /\ Write([db EXCEPT !.perm[p] =
              [object |-> o, source |-> IF @ = Absent THEN "manual" ELSE @.source]],
           FALSE)
  /\ UNCHANGED pending

(* Only auto rows are updated. *)
ReportPermission(p, o) ==
  /\ db.perm[p] # Absent => db.perm[p].source = "auto"
  /\ Write([db EXCEPT !.perm[p] = [object |-> o, source |-> "auto"]], FALSE)
  /\ UNCHANGED pending

GrantPermission(c, p, eft) ==
  /\ db.role[c] # Absent /\ db.perm[p] # Absent /\ db.grant[<<c, p>>] = Absent
  /\ Write([db EXCEPT !.grant[<<c, p>>] = eft], FALSE)
  /\ UNCHANGED pending

RevokePermission(c, p) ==
  /\ db.grant[<<c, p>>] # Absent
  /\ Write([db EXCEPT !.grant[<<c, p>>] = Absent], FALSE)
  /\ UNCHANGED pending

BindUserRole(c) ==
  /\ db.role[c] # Absent /\ c \notin db.bound
  /\ Write([db EXCEPT !.bound = @ \cup {c}], FALSE)
  /\ UNCHANGED pending

UnbindUserRole(c) ==
  /\ c \in db.bound
  /\ Write([db EXCEPT !.bound = @ \ {c}], FALSE)
  /\ UNCHANGED pending

(***************************************************************************)
(* Data policies of the same content and origin are not told apart: one at *)
(* most.                                                                   *)
(***************************************************************************)
InsertScope(c, s) ==
  LET row == [role |-> c, scope |-> s, source |-> "manual", via |-> "role"]
  IN  /\ row \notin db.scope
      /\ Write([db EXCEPT !.scope = @ \cup {row}], TRUE)
      /\ UNCHANGED pending

InsertTop(s, b) ==
  LET row == [subject |-> s, body |-> b, source |-> "manual"]
  IN  /\ row \notin db.top
      /\ Write([db EXCEPT !.top = @ \cup {row}], TRUE)
      /\ UNCHANGED pending

UpdateTop(r, b) ==
  /\ r \in db.top /\ [r EXCEPT !.body = b] \notin db.top
  /\ Write([db EXCEPT !.top = (@ \ {r}) \cup {[r EXCEPT !.body = b]}], TRUE)
  /\ UNCHANGED pending

DeleteDataPolicy(r) ==
  /\ r \in db.scope \cup db.top
  /\ Write([db EXCEPT !.scope = @ \ {r}, !.top = @ \ {r}], TRUE)
  /\ UNCHANGED pending

OtherWriter ==
  \/ \E c \in RoleCode :
       \/ CreateRole(c) \/ DeleteRole(c) \/ BindUserRole(c) \/ UnbindUserRole(c)
       \/ \E s \in Scope : InsertScope(c, s)
       \/ \E p \in PermCode :
            \/ \E eft \in {"allow", "deny"} : GrantPermission(c, p, eft)
            \/ RevokePermission(c, p)
  \/ \E p \in PermCode, o \in Object : UpsertPermission(p, o) \/ ReportPermission(p, o)
  \/ \E s \in Subject, b \in Body : InsertTop(s, b)
  \/ \E r \in db.top, b \in Body : UpdateTop(r, b)
  \/ \E r \in db.scope \cup db.top : DeleteDataPolicy(r)

(* The bound leaves the last transaction to an import that waits. *)
Room == pending # NoImport => writes + 1 < MaxWrites

Next ==
  \/ \E doc \in Document : BeginImport(doc)
  \/ CommitImport \/ RollbackImport
  \/ Room /\ OtherWriter

Spec == Init /\ [][Next]_vars

-----------------------------------------------------------------------------
(* Properties *)

Imported == pending # NoImport /\ pending' = NoImport /\ writes' # writes

(***************************************************************************)
(* An import never takes a role from a user, not even one that was bound   *)
(* between the comparison before the lock and the one under it (PC-6,      *)
(* ImportAppPolicy).                                                       *)
(***************************************************************************)
ImportKeepsBindings == [][Imported => db.bound \subseteq db'.bound]_vars

(***************************************************************************)
(* An import leaves alone what it does not govern (PC-3, Diff): reported   *)
(* permissions, and what operators configured and the document does not    *)
(* name, with the grants and data scopes of those roles, to which only the       *)
(* top-level policies about the role are added.                            *)
(***************************************************************************)
Ungoverned(doc, c) == db.role[c] = "manual" /\ (c \notin Expressible \/ doc.role[KeyOf(c)] = Absent)

OutsideUntouched ==
  [][Imported =>
       LET doc == pending.doc
       IN  /\ \A p \in PermCode :
                db.perm[p] # Absent /\ (\/ db.perm[p].source = "auto"
                                        \/ db.perm[p].source = "manual" /\ doc.perm[p] = Absent)
                  => db'.perm[p] = db.perm[p]
           /\ \A c \in RoleCode : Ungoverned(doc, c) =>
                /\ db'.role[c] = "manual"
                /\ \A p \in PermCode : db'.grant[<<c, p>>] = db.grant[<<c, p>>]
                /\ ScopesOf(db', c) = ScopesOf(db, c) \cup {r \in StrayScopes(doc) : r.role = c}
           /\ \A r \in db.top :
                r.source = "manual" /\ doc.top[r.subject] = Absent => r \in db'.top]_vars

(***************************************************************************)
(* A role the comparison can settle: its permission codes are listed once, *)
(* and no top-level policy adds rows to it.                                *)
(***************************************************************************)
Settled(doc, k) ==
  /\ doc.role[k] # Absent => doc.role[k].repeats = {}
  /\ \A c \in StrayRole : KeyOf(c) = k => doc.stray[c] = Absent

(***************************************************************************)
(* After an import the tables are what the document says: comparing again  *)
(* finds nothing to do, whatever was committed before the lock was taken,  *)
(* for permissions, top-level policies of other subjects, and every role   *)
(* that can be settled, whatever else the document holds.                  *)
(***************************************************************************)
Converged ==
  [][Imported =>
       LET plan == Diff(pending.doc, db')
       IN  /\ plan.perm = EmptyPlan.perm /\ plan.top = EmptyPlan.top
           /\ \A k \in Key : Settled(pending.doc, k) => plan.role[k] = "none"]_vars

(***************************************************************************)
(* The design promises it of every document: the state after an import is  *)
(* the state the file asks for.  It fails for a top-level policy about a   *)
(* role, which every import inserts again, and for a repeated permission   *)
(* code, which every import updates again.                                 *)
(***************************************************************************)
AlwaysConverged == [][Imported => Diff(pending.doc, db') = EmptyPlan]_vars

Refused == pending # NoImport /\ pending' = NoImport /\ writes' = writes

(***************************************************************************)
(* An import that reached the lock is refused for a cause outside the      *)
(* document's own references: roles that share a key, a conflict, or a     *)
(* permission to be deleted that a role it does not govern holds.  What    *)
(* its own roles hold is released in time (the phases of applyImportPlan). *)
(***************************************************************************)
RefusedForCause ==
  [][Refused =>
       \/ Collision(db)
       \/ Conflict(Diff(pending.doc, db))
       \/ \E c \in RoleCode, p \in PermCode :
            /\ Ungoverned(pending.doc, c) /\ db.grant[<<c, p>>] # Absent
            /\ PermKind(pending.doc, db, p) = "delete"]_vars

(***************************************************************************)
(* No change of what the sidecars enforce goes unpublished: a transaction  *)
(* that changes a projected rule or a data policy bumps the version        *)
(* (runVersionedWrite with the changes applyImportPlan returns).           *)
(***************************************************************************)
Enforced(d) ==
  <<Projection(d), {[r EXCEPT !.source = "any"] : r \in d.scope},
    {[r EXCEPT !.source = "any"] : r \in d.top}>>

NoSilentChange == [][Enforced(db') # Enforced(db) => bumped']_vars
=============================================================================
