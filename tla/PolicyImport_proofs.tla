------------------------- MODULE PolicyImport_proofs -------------------------
(***************************************************************************)
(* Proofs about PolicyImport, for every document, every contents of the    *)
(* tables and every writer that commits while an import waits for the lock *)
(* of the application.                                                     *)
(***************************************************************************)
EXTENDS PolicyImport, FiniteSetTheorems, TLAPS

PermRow  == [object : Object, source : {"manual", "auto", "iac"}]
ScopeRow == [role : RoleCode, scope : Scope, source : {"manual", "iac"}, via : {"role", "top"}]
TopRow   == [subject : Subject, body : Body, source : {"manual", "iac"}]

Tables ==
  [role  : [RoleCode -> {"manual", "iac", Absent}],
   perm  : [PermCode -> PermRow \cup {Absent}],
   grant : [RoleCode \X PermCode -> {"allow", "deny", Absent}],
   bound : SUBSET RoleCode, scope : SUBSET ScopeRow, top : SUBSET TopRow]

TypeOK ==
  /\ db \in Tables
  /\ IsFiniteSet(db.top)
  /\ pending = NoImport \/ pending.doc \in Document

(***************************************************************************)
(* The inductive invariant.  An import is compared with whatever tables it *)
(* finds, so beyond the shape of the tables only references matter: no     *)
(* grant or binding refers to a role or a permission that is gone, and no  *)
(* import owns a template's role.                                          *)
(***************************************************************************)
GrantsResolve ==
  /\ \A g \in RoleCode \X PermCode :
       db.grant[g] # Absent => db.role[g[1]] # Absent /\ db.perm[g[2]] # Absent
  /\ \A c \in db.bound : db.role[c] # Absent
  /\ \A c \in RoleCode \ Expressible : db.role[c] # "iac"

IInv == TypeOK /\ GrantsResolve

-----------------------------------------------------------------------------
(* What a document and the tables look like from inside.                   *)

(***************************************************************************)
(* The code of a key whose role is there is one of the roles of that key.  *)
(***************************************************************************)
LEMMA RoleOfKeyThere ==
  ASSUME NEW d \in Tables, NEW k \in Key, RolesOfKey(d, k) # {}
  PROVE  /\ RoleOfKey(d, k) \in RolesOfKey(d, k)
         /\ RoleOfKey(d, k) \in Expressible /\ KeyOf(RoleOfKey(d, k)) = k
         /\ d.role[RoleOfKey(d, k)] \in {"manual", "iac"}
<1>1. RoleOfKey(d, k) \in RolesOfKey(d, k)
  BY DEF RoleOfKey
<1>2. RoleOfKey(d, k) \in RoleCode /\ d.role[RoleOfKey(d, k)] # Absent
  BY <1>1 DEF RolesOfKey, Expressible
<1> QED
  BY <1>1, <1>2 DEF RolesOfKey, Tables

(***************************************************************************)
(* A document declares roles over permissions it declares too.             *)
(***************************************************************************)
LEMMA Declared ==
  ASSUME NEW doc \in Document, NEW k \in Key, doc.role[k] # Absent
  PROVE  /\ doc.role[k].perms \subseteq PermCode /\ doc.role[k].scopes \subseteq Scope
         /\ \A p \in doc.role[k].perms : doc.perm[p] # Absent
BY DEF Document, DeclaredRole

(***************************************************************************)
(* What the comparison can say of a key.                                   *)
(***************************************************************************)
LEMMA RoleKinds ==
  ASSUME NEW doc \in Document, NEW d \in Tables, NEW k \in Key
  PROVE  LET kind == Diff(doc, d).role[k]
             c    == RoleOfKey(d, k)
         IN  /\ kind = RoleKind(doc, d, k)
             /\ kind = "create" <=> RolesOfKey(d, k) = {} /\ doc.role[k] # Absent
             /\ kind \in {"adopt", "update"} => RolesOfKey(d, k) # {} /\ doc.role[k] # Absent
             /\ kind \in {"delete", "conflict"} =>
                  RolesOfKey(d, k) # {} /\ doc.role[k] = Absent /\ d.role[c] = "iac"
             /\ kind = "delete" => c \notin d.bound
             /\ kind = "none" =>
                  \/ RolesOfKey(d, k) = {} /\ doc.role[k] = Absent
                  \/ RolesOfKey(d, k) # {} /\ d.role[c] = "manual" /\ doc.role[k] = Absent
                  \/ /\ RolesOfKey(d, k) # {} /\ d.role[c] = "iac" /\ doc.role[k] # Absent
                     /\ RoleFieldsEqual(d, c, doc.role[k])
             /\ kind \in {"create", "adopt", "update", "delete", "conflict", "none"}
<1>1. Diff(doc, d).role[k] = RoleKind(doc, d, k)
  BY DEF Diff
<1>2. RolesOfKey(d, k) # {} => d.role[RoleOfKey(d, k)] \in {"manual", "iac"}
  BY RoleOfKeyThere
<1> QED
  BY <1>1, <1>2 DEF RoleKind, Govern

(***************************************************************************)
(* The roles an import writes: each is the one role of a declared key.     *)
(***************************************************************************)
LEMMA SetRole ==
  ASSUME NEW doc \in Document, NEW d \in Tables, NEW c \in SetRoles(Diff(doc, d), d)
  PROVE  /\ c \in Expressible /\ KeyOf(c) \in Key /\ doc.role[KeyOf(c)] # Absent
         /\ Diff(doc, d).role[KeyOf(c)] \in Set
         /\ c = CodeOf(Diff(doc, d), d, KeyOf(c))
<1>1. PICK k \in Key : Diff(doc, d).role[k] \in Set /\ c = CodeOf(Diff(doc, d), d, k)
  BY DEF SetRoles
<1>2. doc.role[k] # Absent
  BY <1>1, RoleKinds DEF Set
<1>3. c \in Expressible /\ KeyOf(c) = k
  <2>1. CASE Diff(doc, d).role[k] = "create"
    BY <1>1, <2>1 DEF CodeOf, Expressible, RoleCode, KeyOf
  <2>2. CASE Diff(doc, d).role[k] # "create"
    <3>1. RolesOfKey(d, k) # {} /\ c = RoleOfKey(d, k)
      BY <1>1, <2>2, RoleKinds DEF CodeOf, Set
    <3> QED
      BY <3>1, RoleOfKeyThere
  <2> QED
    BY <2>1, <2>2
<1> QED
  BY <1>1, <1>2, <1>3

(***************************************************************************)
(* The roles an import deletes: governed, undeclared and not bound.        *)
(***************************************************************************)
LEMMA DeletedRole ==
  ASSUME NEW doc \in Document, NEW d \in Tables, NEW c \in DeletedRoles(Diff(doc, d), d)
  PROVE  /\ c \in Expressible /\ KeyOf(c) \in Key /\ doc.role[KeyOf(c)] = Absent
         /\ Diff(doc, d).role[KeyOf(c)] = "delete"
         /\ c = RoleOfKey(d, KeyOf(c)) /\ d.role[c] = "iac" /\ c \notin d.bound
<1>1. PICK k \in Key : Diff(doc, d).role[k] = "delete" /\ c = RoleOfKey(d, k)
  BY DEF DeletedRoles
<1>2. /\ doc.role[k] = Absent /\ RolesOfKey(d, k) # {}
      /\ d.role[c] = "iac" /\ c \notin d.bound
  BY <1>1, RoleKinds
<1>3. c \in Expressible /\ KeyOf(c) = k
  BY <1>1, <1>2, RoleOfKeyThere
<1> QED
  BY <1>1, <1>2, <1>3

(***************************************************************************)
(* A permission that the document declares is there after the import.      *)
(***************************************************************************)
LEMMA DeclaredPermThere ==
  ASSUME NEW doc \in Document, NEW d \in Tables, NEW p \in PermCode, doc.perm[p] # Absent
  PROVE  Applied(doc, Diff(doc, d), d).perm[p] \in PermRow
<1> DEFINE plan == Diff(doc, d)
<1>1. Applied(doc, plan, d).perm[p] = CASE plan.perm[p] \in Set    -> [object |-> doc.perm[p], source |-> "iac"]
                                       [] plan.perm[p] = "delete" -> Absent
                                       [] OTHER                   -> d.perm[p]
  BY DEF Applied, AppliedPerms
<1>2. plan.perm[p] = PermKind(doc, d, p)
  BY DEF Diff
<1>3. doc.perm[p] \in Object
  BY DEF Document
<1>4. d.perm[p] \in PermRow \cup {Absent}
  BY DEF Tables
<1>5. CASE d.perm[p] = Absent
  BY <1>1, <1>2, <1>3, <1>5 DEF PermKind, Set, PermRow
<1>6. CASE d.perm[p] # Absent
  BY <1>1, <1>2, <1>3, <1>4, <1>6 DEF PermKind, Set, PermRow, Govern
<1> QED
  BY <1>5, <1>6

-----------------------------------------------------------------------------
(* What an import that commits leaves in the tables.                       *)

(***************************************************************************)
(* The rows of top-level policies about roles.                             *)
(***************************************************************************)
LEMMA StrayRows ==
  ASSUME NEW doc \in Document
  PROVE  /\ StrayScopes(doc) \subseteq ScopeRow
         /\ \A r \in StrayScopes(doc) : r.role \in StrayRole /\ doc.stray[r.role] # Absent
<1> SUFFICES ASSUME NEW c \in StrayRole, StrayKind(doc, c) = "create"
             PROVE  LET r == [role |-> c, scope |-> doc.stray[c], source |-> "iac", via |-> "top"]
                    IN  r \in ScopeRow /\ doc.stray[r.role] # Absent
  BY DEF StrayScopes
<1>1. doc.stray[c] \in Scope
  BY DEF Document, StrayKind
<1>2. c \in RoleCode
  BY ImportAssumption DEF RoleCode
<1> QED
  BY <1>1, <1>2, ImportAssumption DEF ScopeRow

(***************************************************************************)
(* An import leaves well-formed tables.                                    *)
(***************************************************************************)
LEMMA AppliedTables ==
  ASSUME NEW doc \in Document, NEW d \in Tables, IsFiniteSet(d.top)
  PROVE  /\ Applied(doc, Diff(doc, d), d) \in Tables
         /\ IsFiniteSet(Applied(doc, Diff(doc, d), d).top)
<1> DEFINE plan == Diff(doc, d)
<1>1. AppliedRoles(plan, d) \in [RoleCode -> {"manual", "iac", Absent}]
  <2> SUFFICES ASSUME NEW c \in RoleCode
               PROVE  (CASE c \in DeletedRoles(plan, d) -> Absent
                         [] c \in SetRoles(plan, d)     -> "iac"
                         [] OTHER                       -> d.role[c]) \in {"manual", "iac", Absent}
    BY DEF AppliedRoles
  <2>1. d.role[c] \in {"manual", "iac", Absent}
    BY DEF Tables
  <2> QED
    BY <2>1
<1>2. AppliedPerms(doc, plan, d) \in [PermCode -> PermRow \cup {Absent}]
  <2> SUFFICES ASSUME NEW p \in PermCode
               PROVE  AppliedPerms(doc, plan, d)[p] \in PermRow \cup {Absent}
    BY DEF AppliedPerms
  <2>1. CASE doc.perm[p] # Absent
    BY <2>1, DeclaredPermThere DEF Applied
  <2>2. CASE doc.perm[p] = Absent
    <3>1. plan.perm[p] = PermKind(doc, d, p)
      BY DEF Diff
    <3>2. plan.perm[p] \notin Set
      BY <3>1, <2>2 DEF PermKind, Govern, Set
    <3>3. d.perm[p] \in PermRow \cup {Absent}
      BY DEF Tables
    <3> QED
      BY <3>2, <3>3 DEF AppliedPerms
  <2> QED
    BY <2>1, <2>2
<1>3. AppliedGrants(doc, plan, d) \in [RoleCode \X PermCode -> {"allow", "deny", Absent}]
  <2> SUFFICES ASSUME NEW g \in RoleCode \X PermCode
               PROVE  AppliedGrants(doc, plan, d)[g] \in {"allow", "deny", Absent}
    BY DEF AppliedGrants
  <2>1. d.grant[g] \in {"allow", "deny", Absent}
    BY DEF Tables
  <2> QED
    BY <2>1 DEF AppliedGrants
<1>4. AppliedScopes(doc, plan, d) \subseteq ScopeRow
  <2>1. DeclaredScopes(doc, plan, d) \subseteq ScopeRow
    <3> SUFFICES ASSUME NEW c \in SetRoles(plan, d), NEW s \in doc.role[KeyOf(c)].scopes
                 PROVE  [role |-> c, scope |-> s, source |-> "iac", via |-> "role"] \in ScopeRow
      BY DEF DeclaredScopes
    <3>1. c \in RoleCode /\ KeyOf(c) \in Key /\ doc.role[KeyOf(c)] # Absent
      BY SetRole DEF Expressible
    <3>2. s \in Scope
      BY <3>1, Declared
    <3> QED
      BY <3>1, <3>2 DEF ScopeRow
  <2>2. d.scope \subseteq ScopeRow
    BY DEF Tables
  <2>3. StrayScopes(doc) \subseteq ScopeRow
    BY StrayRows
  <2> QED
    BY <2>1, <2>2, <2>3 DEF AppliedScopes
<1>5. AppliedTop(doc, plan, d) \subseteq TopRow /\ IsFiniteSet(AppliedTop(doc, plan, d))
  <2> DEFINE kept == {r \in d.top : plan.top[r.subject] = "none"}
             here == {x \in Subject : plan.top[x] \in Set}
             made == {[subject |-> s, body |-> doc.top[s], source |-> "iac"] : s \in here}
  <2>1. AppliedTop(doc, plan, d) = kept \cup made
    BY DEF AppliedTop
  <2>2. kept \subseteq TopRow /\ IsFiniteSet(kept)
    BY FS_Subset DEF Tables
  <2>3. IsFiniteSet(here)
    BY FS_Subset, ImportAssumption
  <2>4. IsFiniteSet(made)
    <3> DEFINE f == [s \in here |-> [subject |-> s, body |-> doc.top[s], source |-> "iac"]]
    <3> HIDE DEF here
    <3>1. f \in Surjection(here, made)
      BY DEF Surjection
    <3> QED
      BY <2>3, <3>1, FS_Surjection
  <2>5. ASSUME NEW s \in here
        PROVE  doc.top[s] \in Body
    <3>1. plan.top[s] = TopKind(doc, d, s) /\ plan.top[s] \in Set
      BY DEF Diff
    <3>2. doc.top[s] # Absent
      BY <3>1 DEF TopKind, Govern, Set
    <3> QED
      BY <3>2 DEF Document
  <2>6. made \subseteq TopRow
    BY <2>5 DEF TopRow
  <2> QED
    BY <2>1, <2>2, <2>4, <2>6, FS_Union
<1>6. d.bound \ DeletedRoles(plan, d) \in SUBSET RoleCode
  BY DEF Tables
<1> QED
  BY <1>1, <1>2, <1>3, <1>4, <1>5, <1>6 DEF Applied, Tables

(***************************************************************************)
(* The references an import leaves resolve: declared permissions are       *)
(* there, a permission a role still holds is not deleted, and a deleted    *)
(* role takes its grants along.                                            *)
(***************************************************************************)
Resolves(d) ==
  /\ \A g \in RoleCode \X PermCode :
       d.grant[g] # Absent => d.role[g[1]] # Absent /\ d.perm[g[2]] # Absent
  /\ \A c \in d.bound : d.role[c] # Absent
  /\ \A c \in RoleCode \ Expressible : d.role[c] # "iac"

(***************************************************************************)
(* What the import deletes or writes of one role and of one permission.    *)
(***************************************************************************)
LEMMA AppliedResolves ==
  ASSUME NEW doc \in Document, NEW d \in Tables, Resolves(d),
         Deletable(doc, Diff(doc, d), d)
  PROVE  Resolves(Applied(doc, Diff(doc, d), d))
<1> DEFINE plan == Diff(doc, d)
           e    == Applied(doc, plan, d)
<1>1. /\ e.role = AppliedRoles(plan, d) /\ e.perm = AppliedPerms(doc, plan, d)
      /\ e.grant = AppliedGrants(doc, plan, d) /\ e.bound = d.bound \ DeletedRoles(plan, d)
  BY DEF Applied
<1>2. ASSUME NEW c \in RoleCode, c \notin DeletedRoles(plan, d),
             c \in SetRoles(plan, d) \/ d.role[c] # Absent
      PROVE  e.role[c] # Absent
  <2>1. e.role[c] = IF c \in SetRoles(plan, d) THEN "iac" ELSE d.role[c]
    BY <1>1, <1>2 DEF AppliedRoles
  <2> QED
    BY <1>2, <2>1, ImportAssumption
<1>3. ASSUME NEW g \in RoleCode \X PermCode, e.grant[g] # Absent
      PROVE  e.role[g[1]] # Absent /\ e.perm[g[2]] # Absent
  <2>1. g[1] \in RoleCode /\ g[2] \in PermCode
    OBVIOUS
  <2>2. g[1] \notin DeletedRoles(plan, d)
    <3> SUFFICES ASSUME g[1] \in DeletedRoles(plan, d)
                 PROVE  AppliedGrants(doc, plan, d)[g] = Absent
      BY <1>1, <1>3
    <3>1. g[1] \notin SetRoles(plan, d)
      BY SetRole, DeletedRole
    <3> QED
      BY <3>1 DEF AppliedGrants
  <2>3. CASE g[1] \in SetRoles(plan, d)
    <3>1. g[2] \in doc.role[KeyOf(g[1])].perms
      BY <1>1, <1>3, <2>2, <2>3 DEF AppliedGrants
    <3>2. doc.perm[g[2]] # Absent
      BY <2>3, <3>1, SetRole, Declared
    <3>3. e.perm[g[2]] \in PermRow
      BY <2>1, <3>2, DeclaredPermThere
    <3> QED
      BY <1>2, <2>1, <2>2, <2>3, <3>3, ImportAssumption DEF PermRow
  <2>4. CASE g[1] \notin SetRoles(plan, d)
    <3>1. d.grant[g] # Absent
      BY <1>1, <1>3, <2>2, <2>4 DEF AppliedGrants
    <3>2. d.role[g[1]] # Absent /\ d.perm[g[2]] # Absent
      BY <3>1 DEF Resolves
    <3>3. plan.perm[g[2]] # "delete"
      BY <1>1, <1>3 DEF Deletable
    <3>4. CASE doc.perm[g[2]] # Absent
      <4>1. e.perm[g[2]] \in PermRow
        BY <2>1, <3>4, DeclaredPermThere
      <4> QED
        BY <1>2, <2>1, <2>2, <3>2, <4>1, ImportAssumption DEF PermRow
    <3>5. CASE doc.perm[g[2]] = Absent
      <4>1. plan.perm[g[2]] = PermKind(doc, d, g[2])
        BY <2>1 DEF Diff
      <4>2. plan.perm[g[2]] \notin Set
        BY <3>5, <4>1 DEF PermKind, Govern, Set
      <4>3. e.perm[g[2]] = d.perm[g[2]]
        BY <1>1, <2>1, <3>3, <4>2 DEF AppliedPerms
      <4> QED
        BY <1>2, <2>1, <2>2, <3>2, <4>3
    <3> QED
      BY <3>4, <3>5
  <2> QED
    BY <2>3, <2>4
<1>4. ASSUME NEW c \in e.bound
      PROVE  e.role[c] # Absent
  <2>1. c \in RoleCode /\ c \notin DeletedRoles(plan, d) /\ d.role[c] # Absent
    BY <1>1 DEF Tables, Resolves
  <2> QED
    BY <1>2, <2>1
<1>5. ASSUME NEW c \in RoleCode \ Expressible
      PROVE  e.role[c] # "iac"
  <2>1. c \notin SetRoles(plan, d)
    BY SetRole
  <2>2. e.role[c] \in {Absent, d.role[c]}
    BY <1>1, <2>1 DEF AppliedRoles
  <2> QED
    BY <2>2, ImportAssumption DEF Resolves
<1> QED
  BY <1>3, <1>4, <1>5 DEF Resolves

-----------------------------------------------------------------------------
(* The steps.                                                              *)

(***************************************************************************)
(* An import under the lock.                                               *)
(***************************************************************************)
LEMMA CommitStep ==
  ASSUME IInv, CommitImport
  PROVE  IInv'
<1>1. /\ pending.doc \in Document /\ db \in Tables /\ IsFiniteSet(db.top) /\ Resolves(db)
      /\ Deletable(pending.doc, Diff(pending.doc, db), db)
  BY DEF IInv, TypeOK, CommitImport, ImportFails, FreshPlan, GrantsResolve, Resolves
<1>2. db' = Applied(pending.doc, Diff(pending.doc, db), db) /\ pending' = NoImport
  BY DEF CommitImport, Write, FreshPlan
<1>3. db' \in Tables /\ IsFiniteSet(db'.top)
  BY <1>1, <1>2, AppliedTables
<1>4. Resolves(db')
  BY <1>1, <1>2, AppliedResolves
<1> QED
  BY <1>2, <1>3, <1>4 DEF IInv, TypeOK, GrantsResolve, Resolves

(***************************************************************************)
(* The writers of roles and bindings.                                      *)
(***************************************************************************)
LEMMA RoleStep ==
  ASSUME IInv, NEW c \in RoleCode,
         CreateRole(c) \/ DeleteRole(c) \/ BindUserRole(c) \/ UnbindUserRole(c)
  PROVE  IInv'
<1>1. db \in Tables /\ pending' = pending /\ TypeOK /\ Resolves(db)
  BY DEF IInv, TypeOK, GrantsResolve, Resolves, CreateRole, DeleteRole, BindUserRole, UnbindUserRole
<1>2. CASE CreateRole(c)
  <2>1. db' = [db EXCEPT !.role[c] = "manual"]
    BY <1>2 DEF CreateRole, Write
  <2>2. /\ db' \in Tables /\ db'.top = db.top /\ db'.bound = db.bound /\ db'.perm = db.perm
        /\ db'.grant = db.grant /\ db'.role = [db.role EXCEPT ![c] = "manual"]
    BY <1>1, <2>1 DEF Tables
  <2>3. \A x \in RoleCode : db.role[x] # Absent => db'.role[x] # Absent
    BY <1>1, <2>2, ImportAssumption DEF Tables
  <2>4. Resolves(db')
    BY <1>1, <2>2, <2>3 DEF Resolves, Tables
  <2> QED
    BY <1>1, <2>2, <2>4 DEF IInv, TypeOK, GrantsResolve, Resolves
<1>3. CASE DeleteRole(c)
  <2> DEFINE kept == [g \in DOMAIN db.grant |-> IF g[1] = c THEN Absent ELSE db.grant[g]]
  <2>1. db' = [db EXCEPT !.role[c] = Absent, !.bound = db.bound \ {c}, !.grant = kept]
    BY <1>3 DEF DeleteRole, Write
  <2>2. DOMAIN db.grant = RoleCode \X PermCode
    BY <1>1 DEF Tables
  <2>3. kept \in [RoleCode \X PermCode -> {"allow", "deny", Absent}]
    BY <1>1, <2>2 DEF Tables
  <2> HIDE DEF kept
  <2>4. /\ db' \in Tables /\ db'.top = db.top /\ db'.bound = db.bound \ {c} /\ db'.perm = db.perm
        /\ db'.grant = kept /\ db'.role = [db.role EXCEPT ![c] = Absent]
    BY <1>1, <2>1, <2>3 DEF Tables
  <2>5. /\ \A x \in RoleCode \ {c} : db'.role[x] = db.role[x]
        /\ \A g \in RoleCode \X PermCode : kept[g] # Absent => g[1] # c /\ db.grant[g] # Absent
    BY <1>1, <2>2, <2>4 DEF Tables, kept
  <2>6. Resolves(db')
    <3>1. \A x \in RoleCode \ Expressible : db'.role[x] # "iac"
      BY <1>1, <2>4, <2>5, ImportAssumption DEF Resolves, Tables
    <3> QED
      BY <1>1, <2>4, <2>5, <3>1 DEF Resolves, Tables
  <2> QED
    BY <1>1, <2>4, <2>6 DEF IInv, TypeOK, GrantsResolve, Resolves
<1>4. CASE BindUserRole(c)
  <2>1. db' = [db EXCEPT !.bound = db.bound \cup {c}] /\ db.role[c] # Absent
    BY <1>4 DEF BindUserRole, Write
  <2>2. /\ db' \in Tables /\ db'.top = db.top /\ db'.bound = db.bound \cup {c}
        /\ db'.perm = db.perm /\ db'.grant = db.grant /\ db'.role = db.role
    BY <1>1, <2>1 DEF Tables
  <2>3. Resolves(db')
    BY <1>1, <2>1, <2>2 DEF Resolves
  <2> QED
    BY <1>1, <2>2, <2>3 DEF IInv, TypeOK, GrantsResolve, Resolves
<1>5. CASE UnbindUserRole(c)
  <2>1. db' = [db EXCEPT !.bound = db.bound \ {c}]
    BY <1>5 DEF UnbindUserRole, Write
  <2>2. /\ db' \in Tables /\ db'.top = db.top /\ db'.bound = db.bound \ {c}
        /\ db'.perm = db.perm /\ db'.grant = db.grant /\ db'.role = db.role
    BY <1>1, <2>1 DEF Tables
  <2>3. Resolves(db')
    BY <1>1, <2>2 DEF Resolves
  <2> QED
    BY <1>1, <2>2, <2>3 DEF IInv, TypeOK, GrantsResolve, Resolves
<1> QED
  BY <1>2, <1>3, <1>4, <1>5

(***************************************************************************)
(* The writers of permissions: a row that is there stays.                  *)
(***************************************************************************)
LEMMA PermissionStep ==
  ASSUME IInv, NEW p \in PermCode, NEW o \in Object,
         UpsertPermission(p, o) \/ ReportPermission(p, o)
  PROVE  IInv'
<1>1. db \in Tables /\ pending' = pending /\ TypeOK /\ Resolves(db)
  BY DEF IInv, TypeOK, GrantsResolve, Resolves, UpsertPermission, ReportPermission
<1>2. \E row \in PermRow : db' = [db EXCEPT !.perm[p] = row]
  <2>1. CASE UpsertPermission(p, o)
    <3> DEFINE row == [object |-> o, source |-> IF db.perm[p] = Absent THEN "manual"
                                                ELSE db.perm[p].source]
    <3>1. db' = [db EXCEPT !.perm[p] = row]
      BY <2>1 DEF UpsertPermission, Write
    <3>2. row \in PermRow
      BY <1>1 DEF Tables, PermRow
    <3> QED
      BY <3>1, <3>2
  <2>2. CASE ReportPermission(p, o)
    <3> DEFINE row == [object |-> o, source |-> "auto"]
    <3>1. db' = [db EXCEPT !.perm[p] = row]
      BY <2>2 DEF ReportPermission, Write
    <3>2. row \in PermRow
      BY DEF PermRow
    <3> QED
      BY <3>1, <3>2
  <2> QED
    BY <2>1, <2>2
<1>3. PICK row \in PermRow : db' = [db EXCEPT !.perm[p] = row]
  BY <1>2
<1>4. /\ db' \in Tables /\ db'.top = db.top /\ db'.bound = db.bound /\ db'.role = db.role
      /\ db'.grant = db.grant /\ db'.perm = [db.perm EXCEPT ![p] = row]
  BY <1>1, <1>3 DEF Tables
<1>5. \A q \in PermCode : db.perm[q] # Absent => db'.perm[q] # Absent
  BY <1>1, <1>4, ImportAssumption DEF Tables, PermRow
<1>6. Resolves(db')
  BY <1>1, <1>4, <1>5 DEF Resolves
<1> QED
  BY <1>1, <1>4, <1>6 DEF IInv, TypeOK, GrantsResolve, Resolves

(***************************************************************************)
(* The writers of grants: a grant is made of a role and a permission that  *)
(* are there.                                                              *)
(***************************************************************************)
LEMMA GrantStep ==
  ASSUME IInv, NEW c \in RoleCode, NEW p \in PermCode,
         RevokePermission(c, p) \/ \E eft \in {"allow", "deny"} : GrantPermission(c, p, eft)
  PROVE  IInv'
<1>1. db \in Tables /\ pending' = pending /\ TypeOK /\ Resolves(db)
  BY DEF IInv, TypeOK, GrantsResolve, Resolves, RevokePermission, GrantPermission
<1>2. PICK eft \in {"allow", "deny", Absent} :
        /\ db' = [db EXCEPT !.grant[<<c, p>>] = eft]
        /\ eft # Absent => db.role[c] # Absent /\ db.perm[p] # Absent
  BY DEF RevokePermission, GrantPermission, Write
<1>3. <<c, p>> \in RoleCode \X PermCode /\ <<c, p>>[1] = c /\ <<c, p>>[2] = p
  OBVIOUS
<1>4. /\ db' \in Tables /\ db'.top = db.top /\ db'.bound = db.bound /\ db'.role = db.role
      /\ db'.perm = db.perm /\ db'.grant = [db.grant EXCEPT ![<<c, p>>] = eft]
  BY <1>1, <1>2, <1>3 DEF Tables
<1>5. \A g \in RoleCode \X PermCode :
        db'.grant[g] = IF g = <<c, p>> THEN eft ELSE db.grant[g]
  BY <1>1, <1>4 DEF Tables
<1>6. Resolves(db')
  BY <1>1, <1>2, <1>3, <1>4, <1>5 DEF Resolves
<1> QED
  BY <1>1, <1>4, <1>6 DEF IInv, TypeOK, GrantsResolve, Resolves

(***************************************************************************)
(* The writers of data policies.                                           *)
(***************************************************************************)
LEMMA DataStep ==
  ASSUME IInv,
         \/ \E c \in RoleCode, s \in Scope : InsertScope(c, s)
         \/ \E s \in Subject, b \in Body : InsertTop(s, b)
         \/ \E r \in db.top, b \in Body : UpdateTop(r, b)
         \/ \E r \in db.scope \cup db.top : DeleteDataPolicy(r)
  PROVE  IInv'
<1>1. db \in Tables /\ pending' = pending /\ TypeOK /\ Resolves(db)
  BY DEF IInv, TypeOK, GrantsResolve, Resolves, InsertScope, InsertTop, UpdateTop, DeleteDataPolicy
<1>2. PICK S \in SUBSET ScopeRow, T \in SUBSET TopRow :
        db' = [db EXCEPT !.scope = S, !.top = T] /\ IsFiniteSet(T)
  <2>1. ASSUME NEW c \in RoleCode, NEW s \in Scope, InsertScope(c, s)
        PROVE  \E S \in SUBSET ScopeRow, T \in SUBSET TopRow :
                 db' = [db EXCEPT !.scope = S, !.top = T] /\ IsFiniteSet(T)
    <3> DEFINE S == db.scope \cup {[role |-> c, scope |-> s, source |-> "manual", via |-> "role"]}
    <3>1. db' = [db EXCEPT !.scope = S]
      BY <2>1 DEF InsertScope, Write
    <3>2. S \in SUBSET ScopeRow
      BY <1>1 DEF Tables, ScopeRow
    <3> HIDE DEF S
    <3>3. db' = [db EXCEPT !.scope = S, !.top = db.top]
      BY <1>1, <3>1 DEF Tables
    <3> QED
      BY <1>1, <3>2, <3>3 DEF Tables, TypeOK
  <2>2. ASSUME NEW s \in Subject, NEW b \in Body, InsertTop(s, b)
        PROVE  \E S \in SUBSET ScopeRow, T \in SUBSET TopRow :
                 db' = [db EXCEPT !.scope = S, !.top = T] /\ IsFiniteSet(T)
    <3> DEFINE row == [subject |-> s, body |-> b, source |-> "manual"]
               T   == db.top \cup {row}
    <3>1. db' = [db EXCEPT !.top = T]
      BY <2>2 DEF InsertTop, Write
    <3>2. row \in TopRow
      BY DEF TopRow
    <3> HIDE DEF row
    <3>3. T \in SUBSET TopRow /\ IsFiniteSet(T)
      BY <1>1, <3>2, FS_AddElement DEF Tables, TypeOK
    <3> HIDE DEF T
    <3>4. db' = [db EXCEPT !.scope = db.scope, !.top = T]
      BY <1>1, <3>1 DEF Tables
    <3> QED
      BY <1>1, <3>3, <3>4 DEF Tables, TypeOK
  <2>3. ASSUME NEW r \in db.top, NEW b \in Body, UpdateTop(r, b)
        PROVE  \E S \in SUBSET ScopeRow, T \in SUBSET TopRow :
                 db' = [db EXCEPT !.scope = S, !.top = T] /\ IsFiniteSet(T)
    <3> DEFINE row == [r EXCEPT !.body = b]
               T   == (db.top \ {r}) \cup {row}
    <3>1. db' = [db EXCEPT !.top = T]
      BY <2>3 DEF UpdateTop, Write
    <3>2. row \in TopRow
      BY <1>1 DEF TopRow, Tables
    <3> HIDE DEF row
    <3>3. T \in SUBSET TopRow /\ IsFiniteSet(T)
      BY <1>1, <3>2, FS_AddElement, FS_RemoveElement DEF Tables, TypeOK
    <3> HIDE DEF T
    <3>4. db' = [db EXCEPT !.scope = db.scope, !.top = T]
      BY <1>1, <3>1 DEF Tables
    <3> QED
      BY <1>1, <3>3, <3>4 DEF Tables, TypeOK
  <2>4. ASSUME NEW r \in db.scope \cup db.top, DeleteDataPolicy(r)
        PROVE  \E S \in SUBSET ScopeRow, T \in SUBSET TopRow :
                 db' = [db EXCEPT !.scope = S, !.top = T] /\ IsFiniteSet(T)
    <3>1. db' = [db EXCEPT !.scope = db.scope \ {r}, !.top = db.top \ {r}]
      BY <2>4 DEF DeleteDataPolicy, Write
    <3>2. db.scope \ {r} \in SUBSET ScopeRow /\ db.top \ {r} \in SUBSET TopRow
      BY <1>1 DEF Tables
    <3>3. IsFiniteSet(db.top \ {r})
      BY <1>1, FS_RemoveElement DEF TypeOK
    <3> QED
      BY <3>1, <3>2, <3>3
  <2> QED
    BY <2>1, <2>2, <2>3, <2>4
<1>3. /\ db' \in Tables /\ db'.top = T /\ db'.bound = db.bound /\ db'.role = db.role
      /\ db'.perm = db.perm /\ db'.grant = db.grant
  BY <1>1, <1>2 DEF Tables
<1>4. Resolves(db')
  BY <1>1, <1>3 DEF Resolves
<1> QED
  BY <1>1, <1>2, <1>3, <1>4 DEF IInv, TypeOK, GrantsResolve, Resolves

-----------------------------------------------------------------------------
(***************************************************************************)
(* The inductive invariant holds of every state.                           *)
(***************************************************************************)
THEOREM Invariance == Spec => []IInv
<1>1. Init => IInv
  <2> SUFFICES ASSUME Init PROVE IInv
    OBVIOUS
  <2>1. db \in Tables /\ IsFiniteSet(db.top)
    BY FS_EmptySet DEF Init, Tables
  <2>2. pending = NoImport /\ GrantsResolve
    BY ImportAssumption DEF Init, GrantsResolve
  <2> QED
    BY <2>1, <2>2 DEF IInv, TypeOK
<1>2. IInv /\ [Next]_vars => IInv'
  <2> SUFFICES ASSUME IInv, [Next]_vars PROVE IInv'
    OBVIOUS
  <2>1. CASE UNCHANGED vars
    BY <2>1 DEF vars, IInv, TypeOK, GrantsResolve
  <2>2. ASSUME NEW doc \in Document, BeginImport(doc)
        PROVE  IInv'
    BY <2>2 DEF BeginImport, IInv, TypeOK, GrantsResolve
  <2>3. CASE RollbackImport
    BY <2>3 DEF RollbackImport, IInv, TypeOK, GrantsResolve
  <2> QED
    BY <2>1, <2>2, <2>3, CommitStep, RoleStep, PermissionStep, GrantStep, DataStep DEF Next, OtherWriter
<1> QED
  BY <1>1, <1>2, PTL DEF Spec

-----------------------------------------------------------------------------
(* What an import does, as action properties.                              *)

(***************************************************************************)
(* Only a commit ends an import with a write.                              *)
(***************************************************************************)
LEMMA ImportedIsCommit ==
  ASSUME IInv, [Next]_vars, Imported
  PROVE  /\ pending.doc \in Document /\ db \in Tables /\ IsFiniteSet(db.top)
         /\ ~Collision(db) /\ ~Conflict(Diff(pending.doc, db))
         /\ db' = Applied(pending.doc, Diff(pending.doc, db), db)
<1>1. CommitImport
  BY DEF Imported, Next, OtherWriter, vars, BeginImport, RollbackImport, CreateRole, DeleteRole, BindUserRole,
         UnbindUserRole, InsertScope, InsertTop, UpdateTop, DeleteDataPolicy, GrantPermission,
         RevokePermission, UpsertPermission, ReportPermission
<1> QED
  BY <1>1 DEF CommitImport, ImportFails, FreshPlan, Write, IInv, TypeOK

(***************************************************************************)
(* An import never takes a role from a user: the comparison under the lock *)
(* refuses to delete a role that is bound by then (ImportKeepsBindings).   *)
(***************************************************************************)
THEOREM BindingsTheorem == Spec => ImportKeepsBindings
<1>1. IInv /\ [Next]_vars => [Imported => db.bound \subseteq db'.bound]_vars
  <2> SUFFICES ASSUME IInv, [Next]_vars, Imported
               PROVE  db.bound \subseteq db'.bound
    OBVIOUS
  <2>1. /\ pending.doc \in Document /\ db \in Tables
        /\ db' = Applied(pending.doc, Diff(pending.doc, db), db)
    BY ImportedIsCommit
  <2>2. db'.bound = db.bound \ DeletedRoles(Diff(pending.doc, db), db)
    BY <2>1 DEF Applied
  <2> QED
    BY <2>1, <2>2, DeletedRole
<1> QED
  BY <1>1, Invariance, PTL DEF Spec, ImportKeepsBindings

(***************************************************************************)
(* A finite set of at most one element.                                    *)
(***************************************************************************)
LEMMA AtMostOne ==
  ASSUME NEW S, IsFiniteSet(S), ~(Cardinality(S) > 1), NEW x \in S
  PROVE  S = {x}
<1>1. Cardinality(S) \in Nat /\ Cardinality(S) # 0
  BY FS_CardinalityType, FS_EmptySet
<1>2. Cardinality(S) = 1
  BY <1>1
<1> QED
  BY <1>2, FS_Singleton

(***************************************************************************)
(* What the comparison can say of the data policies of a subject.          *)
(***************************************************************************)
LEMMA TopKinds ==
  ASSUME NEW doc \in Document, NEW d \in Tables, IsFiniteSet(d.top), NEW s \in Subject
  PROVE  LET kind == Diff(doc, d).top[s]
             rows == TopRows(d, s)
         IN  /\ kind = TopKind(doc, d, s)
             /\ kind \in {"create", "adopt", "update", "delete", "conflict", "none"}
             /\ kind \in Set => doc.top[s] # Absent
             /\ doc.top[s] = Absent /\ kind # "conflict" =>
                  \A r \in rows : r.source = "manual" => kind = "none"
<1> DEFINE rows == TopRows(d, s)
           row  == CHOOSE r \in rows : TRUE
<1>1. Diff(doc, d).top[s] = TopKind(doc, d, s)
  BY DEF Diff
<1>2. IsFiniteSet(rows)
  BY FS_Subset DEF TopRows
<1>3. rows # {} => row \in rows /\ row.source \in {"manual", "iac"}
  BY DEF TopRows, Tables, TopRow
<1>4. CASE Cardinality(rows) > 1
  BY <1>1, <1>4 DEF TopKind, Set
<1>5. CASE ~(Cardinality(rows) > 1) /\ rows = {}
  BY <1>1, <1>5 DEF TopKind, Set
<1>6. CASE ~(Cardinality(rows) > 1) /\ rows # {}
  <2>1. TopKind(doc, d, s) = Govern(row.source, doc.top[s] # Absent, row.body = doc.top[s])
    BY <1>6 DEF TopKind
  <2>2. rows = {row}
    BY <1>2, <1>3, <1>6, AtMostOne
  <2> HIDE DEF row, rows
  <2> QED
    BY <1>1, <1>3, <1>6, <2>1, <2>2 DEF Govern, Set, rows
<1> QED
  BY <1>4, <1>5, <1>6

(***************************************************************************)
(* An import leaves alone what it does not govern (OutsideUntouched):      *)
(* reported permissions, and what operators configured and the document    *)
(* does not name, with the grants and data scopes of those roles, to which *)
(* only the top-level policies about the role are added.                   *)
(***************************************************************************)
THEOREM UntouchedTheorem == Spec => OutsideUntouched
<1> DEFINE Outside ==
      LET doc == pending.doc
      IN  /\ \A p \in PermCode :
               db.perm[p] # Absent /\ (\/ db.perm[p].source = "auto"
                                       \/ db.perm[p].source = "manual" /\ doc.perm[p] = Absent)
                 => db'.perm[p] = db.perm[p]
          /\ \A c \in RoleCode : Ungoverned(doc, c) =>
               /\ db'.role[c] = "manual"
               /\ \A p \in PermCode : db'.grant[<<c, p>>] = db.grant[<<c, p>>]
               /\ ScopesOf(db', c) = ScopesOf(db, c) \cup {r \in StrayScopes(doc) : r.role = c}
          /\ \A r \in db.top :
               r.source = "manual" /\ doc.top[r.subject] = Absent => r \in db'.top
<1>1. IInv /\ [Next]_vars => [Imported => Outside]_vars
  <2> SUFFICES ASSUME IInv, [Next]_vars, Imported
               PROVE  Outside
    OBVIOUS
  <2> DEFINE doc  == pending.doc
             plan == Diff(doc, db)
  <2>1. /\ doc \in Document /\ db \in Tables /\ IsFiniteSet(db.top)
        /\ db' = Applied(doc, plan, db) /\ ~Conflict(plan)
    BY ImportedIsCommit
  <2>2. /\ db'.role = AppliedRoles(plan, db) /\ db'.perm = AppliedPerms(doc, plan, db)
        /\ db'.grant = AppliedGrants(doc, plan, db) /\ db'.scope = AppliedScopes(doc, plan, db)
        /\ db'.top = AppliedTop(doc, plan, db)
    BY <2>1 DEF Applied
  <2>3. ASSUME NEW p \in PermCode, db.perm[p] # Absent,
               \/ db.perm[p].source = "auto"
               \/ db.perm[p].source = "manual" /\ doc.perm[p] = Absent
        PROVE  db'.perm[p] = db.perm[p]
    <3>1. plan.perm[p] = PermKind(doc, db, p)
      BY DEF Diff
    <3>2. plan.perm[p] = "none"
      BY <2>3, <3>1 DEF PermKind, Govern
    <3> QED
      BY <2>2, <3>2 DEF AppliedPerms, Set
  <2>4. ASSUME NEW c \in RoleCode, Ungoverned(doc, c)
        PROVE  /\ db'.role[c] = "manual"
               /\ \A p \in PermCode : db'.grant[<<c, p>>] = db.grant[<<c, p>>]
               /\ ScopesOf(db', c) = ScopesOf(db, c) \cup {r \in StrayScopes(doc) : r.role = c}
    <3>1. c \notin DeletedRoles(plan, db)
      BY <2>1, <2>4, DeletedRole DEF Ungoverned
    <3>2. c \notin SetRoles(plan, db)
      BY <2>1, <2>4, SetRole DEF Ungoverned
    <3>3. db'.role[c] = "manual"
      BY <2>2, <2>4, <3>1, <3>2 DEF AppliedRoles, Ungoverned
    <3>4. \A p \in PermCode : db'.grant[<<c, p>>] = db.grant[<<c, p>>]
      BY <2>2, <3>1, <3>2 DEF AppliedGrants
    <3>5. \A r \in DeclaredScopes(doc, plan, db) : r.role # c
      BY <3>2 DEF DeclaredScopes
    <3>6. \A r \in ClearedScopes(plan, db) : r.role # c
      BY <3>1, <3>2 DEF ClearedScopes
    <3>7. ScopesOf(db', c) = ScopesOf(db, c) \cup {r \in StrayScopes(doc) : r.role = c}
      BY <2>2, <3>5, <3>6 DEF AppliedScopes, ScopesOf
    <3> QED
      BY <3>3, <3>4, <3>7
  <2>5. ASSUME NEW r \in db.top, r.source = "manual", doc.top[r.subject] = Absent
        PROVE  r \in db'.top
    <3>1. r.subject \in Subject /\ r \in TopRows(db, r.subject)
      BY <2>1 DEF Tables, TopRow, TopRows
    <3>2. plan.top[r.subject] # "conflict"
      BY <2>1, <3>1 DEF Conflict
    <3>3. plan.top[r.subject] = "none"
      BY <2>1, <2>5, <3>1, <3>2, TopKinds
    <3> QED
      BY <2>2, <3>3 DEF AppliedTop
  <2> QED
    BY <2>3, <2>4, <2>5
<1> QED
  BY <1>1, Invariance, PTL DEF Spec, OutsideUntouched

-----------------------------------------------------------------------------
(***************************************************************************)
(* A write that reports no change of a data policy makes none.             *)
(***************************************************************************)
DataSame == db'.scope = db.scope /\ db'.top = db.top

(***************************************************************************)
(* An import that records no change of a data policy, neither of a role    *)
(* nor at the top level, leaves all of them.                               *)
(***************************************************************************)
LEMMA ImportDataSame ==
  ASSUME NEW doc \in Document, NEW d \in Tables, ~DataChanges(doc, Diff(doc, d), d)
  PROVE  /\ Applied(doc, Diff(doc, d), d).scope = d.scope
         /\ Applied(doc, Diff(doc, d), d).top = d.top
<1> DEFINE plan == Diff(doc, d)
<1>1. ClearedScopes(plan, d) = {} /\ DeclaredScopes(doc, plan, d) = {} /\ StrayScopes(doc) = {}
  BY DEF DataChanges
<1>2. \A s \in Subject : plan.top[s] = "none"
  BY DEF DataChanges
<1>3. AppliedScopes(doc, plan, d) = d.scope
  BY <1>1 DEF AppliedScopes
<1>4. \A r \in d.top : plan.top[r.subject] = "none"
  BY <1>2 DEF Tables, TopRow
<1>5. AppliedTop(doc, plan, d) = d.top
  BY <1>2, <1>4 DEF AppliedTop, Set
<1> QED
  BY <1>3, <1>5 DEF Applied

(***************************************************************************)
(* What a write without changes of data policies projects, when it bumps   *)
(* no version.                                                             *)
(***************************************************************************)
LEMMA SilentWrite ==
  ASSUME NEW d, Write(d, FALSE), ~bumped'
  PROVE  Projection(db') = Projection(db)
BY DEF Write

(***************************************************************************)
(* A transaction that bumps no version changes neither what the enforcers  *)
(* are given nor a data policy.                                            *)
(***************************************************************************)
LEMMA SilentIsSame ==
  ASSUME IInv, [Next]_vars, ~bumped'
  PROVE  Projection(db') = Projection(db) /\ DataSame
<1>1. db \in Tables
  BY DEF IInv, TypeOK
<1>2. CASE UNCHANGED db
  BY <1>2 DEF DataSame
<1>3. CASE CommitImport
  <2>1. /\ pending.doc \in Document
        /\ db' = Applied(pending.doc, Diff(pending.doc, db), db)
        /\ ~DataChanges(pending.doc, Diff(pending.doc, db), db)
        /\ Projection(db') = Projection(db)
    BY <1>3 DEF CommitImport, Write, FreshPlan, IInv, TypeOK
  <2> QED
    BY <1>1, <2>1, ImportDataSame DEF DataSame
<1>4. ASSUME NEW c \in RoleCode,
             CreateRole(c) \/ DeleteRole(c) \/ BindUserRole(c) \/ UnbindUserRole(c)
      PROVE  Projection(db') = Projection(db) /\ DataSame
  <2>1. Projection(db') = Projection(db)
    BY <1>4, SilentWrite DEF CreateRole, DeleteRole, BindUserRole, UnbindUserRole
  <2>2. DataSame
    BY <1>1, <1>4 DEF CreateRole, DeleteRole, BindUserRole, UnbindUserRole, Write, Tables, DataSame
  <2> QED
    BY <2>1, <2>2
<1>5. ASSUME NEW p \in PermCode, NEW o \in Object,
             UpsertPermission(p, o) \/ ReportPermission(p, o)
      PROVE  Projection(db') = Projection(db) /\ DataSame
  <2>1. Projection(db') = Projection(db)
    BY <1>5, SilentWrite DEF UpsertPermission, ReportPermission
  <2>2. DataSame
    BY <1>1, <1>5 DEF UpsertPermission, ReportPermission, Write, Tables, DataSame
  <2> QED
    BY <2>1, <2>2
<1>6. ASSUME NEW c \in RoleCode, NEW p \in PermCode,
             RevokePermission(c, p) \/ \E eft \in {"allow", "deny"} : GrantPermission(c, p, eft)
      PROVE  Projection(db') = Projection(db) /\ DataSame
  <2>1. Projection(db') = Projection(db)
    BY <1>6, SilentWrite DEF RevokePermission, GrantPermission
  <2>2. DataSame
    BY <1>1, <1>6 DEF RevokePermission, GrantPermission, Write, Tables, DataSame
  <2> QED
    BY <2>1, <2>2
<1>7. CASE \/ \E c \in RoleCode, s \in Scope : InsertScope(c, s)
           \/ \E s \in Subject, b \in Body : InsertTop(s, b)
           \/ \E r \in db.top, b \in Body : UpdateTop(r, b)
           \/ \E r \in db.scope \cup db.top : DeleteDataPolicy(r)
  BY <1>7 DEF InsertScope, InsertTop, UpdateTop, DeleteDataPolicy, Write
<1>8. CASE RollbackImport \/ \E doc \in Document : BeginImport(doc)
  BY <1>2, <1>8 DEF RollbackImport, BeginImport
<1> QED
  BY <1>2, <1>3, <1>4, <1>5, <1>6, <1>7, <1>8 DEF Next, OtherWriter, vars

(***************************************************************************)
(* No change of what the sidecars enforce goes unpublished                 *)
(* (NoSilentChange), the imports' data scopes included.                    *)
(***************************************************************************)
THEOREM PublishedTheorem == Spec => NoSilentChange
<1>1. IInv /\ [Next]_vars => [Enforced(db') # Enforced(db) => bumped']_vars
  <2> SUFFICES ASSUME IInv, [Next]_vars, ~bumped'
               PROVE  Enforced(db') = Enforced(db)
    OBVIOUS
  <2> QED
    BY SilentIsSame DEF Enforced, DataSame
<1> QED
  BY <1>1, Invariance, PTL DEF Spec, NoSilentChange

-----------------------------------------------------------------------------
(* An import converges: part by part, comparing again finds nothing.       *)

(***************************************************************************)
(* Permissions.                                                            *)
(***************************************************************************)
LEMMA PermConverges ==
  ASSUME NEW doc \in Document, NEW d \in Tables, NEW p \in PermCode
  PROVE  PermKind(doc, Applied(doc, Diff(doc, d), d), p) = "none"
<1> DEFINE plan == Diff(doc, d)
           e    == Applied(doc, plan, d)
<1>1. plan.perm[p] = PermKind(doc, d, p)
  BY DEF Diff
<1>2. e.perm[p] = CASE plan.perm[p] \in Set    -> [object |-> doc.perm[p], source |-> "iac"]
                    [] plan.perm[p] = "delete" -> Absent
                    [] OTHER                   -> d.perm[p]
  BY DEF Applied, AppliedPerms
<1>3. d.perm[p] \in PermRow \cup {Absent} /\ doc.perm[p] \in Object \cup {Absent}
  BY DEF Tables, Document
<1> SUFFICES PermKind(doc, e, p) = "none"
  OBVIOUS
<1> HIDE DEF plan, e
<1>4. CASE plan.perm[p] \in Set
  <2>1. doc.perm[p] # Absent
    BY <1>1, <1>4 DEF PermKind, Govern, Set
  <2>2. e.perm[p] = [object |-> doc.perm[p], source |-> "iac"]
    BY <1>2, <1>4 DEF Set
  <2>3. e.perm[p] # Absent
    BY <1>3, <2>1, <2>2, ImportAssumption
  <2> QED
    BY <2>1, <2>2, <2>3 DEF PermKind, Govern
<1>5. CASE plan.perm[p] = "delete"
  <2>1. doc.perm[p] = Absent
    BY <1>1, <1>5 DEF PermKind, Govern
  <2>2. e.perm[p] = Absent
    BY <1>2, <1>5 DEF Set
  <2> QED
    BY <2>1, <2>2 DEF PermKind
<1>6. CASE plan.perm[p] \notin Set /\ plan.perm[p] # "delete"
  <2>1. plan.perm[p] = "none"
    BY <1>1, <1>6 DEF PermKind, Govern, Set
  <2>2. e.perm[p] = d.perm[p]
    BY <1>2, <1>6
  <2> QED
    BY <1>1, <2>1, <2>2 DEF PermKind
<1> QED
  BY <1>4, <1>5, <1>6

(***************************************************************************)
(* Data policies of subjects that are no role: what is written is the one  *)
(* row of its subject.                                                     *)
(***************************************************************************)
LEMMA TopConverges ==
  ASSUME NEW doc \in Document, NEW d \in Tables, IsFiniteSet(d.top), NEW s \in Subject,
         ~Conflict(Diff(doc, d))
  PROVE  TopKind(doc, Applied(doc, Diff(doc, d), d), s) = "none"
<1> DEFINE plan == Diff(doc, d)
           e    == Applied(doc, plan, d)
           row  == [subject |-> s, body |-> doc.top[s], source |-> "iac"]
<1>1. /\ plan.top[s] = TopKind(doc, d, s) /\ plan.top[s] # "conflict"
      /\ plan.top[s] \in {"create", "adopt", "update", "delete", "conflict", "none"}
      /\ plan.top[s] \in Set => doc.top[s] # Absent
  BY TopKinds DEF Conflict
<1>2. e.top = {r \in d.top : plan.top[r.subject] = "none"}
                \cup {[subject |-> x, body |-> doc.top[x], source |-> "iac"] :
                        x \in {y \in Subject : plan.top[y] \in Set}}
  BY DEF Applied, AppliedTop
<1> SUFFICES TopKind(doc, e, s) = "none"
  OBVIOUS
<1> HIDE DEF plan, e
<1>3. CASE plan.top[s] = "none"
  <2>1. TopRows(e, s) = TopRows(d, s)
    BY <1>2, <1>3 DEF TopRows, Set
  <2> QED
    BY <1>1, <1>3, <2>1 DEF TopKind
<1>4. CASE plan.top[s] \in Set
  <2>1. TopRows(e, s) = {row}
    BY <1>2, <1>4 DEF TopRows, Set
  <2>2. Cardinality(TopRows(e, s)) = 1 /\ (CHOOSE r \in TopRows(e, s) : TRUE) = row
    BY <2>1, FS_Singleton
  <2>3. doc.top[s] # Absent
    BY <1>1, <1>4
  <2> HIDE DEF row
  <2>4. TopKind(doc, e, s) = Govern(row.source, doc.top[s] # Absent, row.body = doc.top[s])
    BY <2>1, <2>2 DEF TopKind
  <2> QED
    BY <2>3, <2>4 DEF Govern, row
<1>5. CASE plan.top[s] = "delete"
  <2>1. TopRows(e, s) = {}
    BY <1>2, <1>5 DEF TopRows, Set
  <2>2. Cardinality(TopRows(e, s)) = 0
    BY <2>1, FS_EmptySet
  <2>3. doc.top[s] = Absent
    <3>1. TopKind(doc, d, s) = "delete"
      BY <1>1, <1>5
    <3> QED
      BY <3>1 DEF TopKind, Govern
  <2> QED
    BY <2>1, <2>2, <2>3 DEF TopKind
<1> QED
  BY <1>1, <1>3, <1>4, <1>5 DEF Set

(***************************************************************************)
(* The roles, grants and data scopes of a key are changed by what the plan *)
(* says of that key and of no other.                                       *)
(***************************************************************************)
LEMMA OtherRole ==
  ASSUME NEW doc \in Document, NEW d \in Tables, NEW c \in RoleCode,
         c \notin DeletedRoles(Diff(doc, d), d), c \notin SetRoles(Diff(doc, d), d)
  PROVE  LET e == Applied(doc, Diff(doc, d), d)
         IN  /\ e.role[c] = d.role[c]
             /\ \A p \in PermCode : e.grant[<<c, p>>] = d.grant[<<c, p>>]
             /\ (c \in StrayRole => doc.stray[c] = Absent) => ScopesOf(e, c) = ScopesOf(d, c)
<1> DEFINE plan == Diff(doc, d)
           e    == Applied(doc, plan, d)
<1>1. /\ e.role = AppliedRoles(plan, d) /\ e.grant = AppliedGrants(doc, plan, d)
      /\ e.scope = AppliedScopes(doc, plan, d)
  BY DEF Applied
<1> HIDE DEF e
<1>2. e.role[c] = d.role[c]
  BY <1>1 DEF AppliedRoles
<1>3. \A p \in PermCode : e.grant[<<c, p>>] = d.grant[<<c, p>>]
  BY <1>1 DEF AppliedGrants
<1>4. \A r \in DeclaredScopes(doc, plan, d) : r.role # c
  BY DEF DeclaredScopes
<1>5. \A r \in ClearedScopes(plan, d) : r.role # c
  BY DEF ClearedScopes
<1>6. ASSUME c \in StrayRole => doc.stray[c] = Absent
      PROVE  ScopesOf(e, c) = ScopesOf(d, c)
  <2>1. \A r \in StrayScopes(doc) : r.role # c
    BY <1>6, StrayRows
  <2> QED
    BY <1>1, <1>4, <1>5, <2>1 DEF AppliedScopes, ScopesOf
<1> QED
  BY <1>2, <1>3, <1>6 DEF e

(***************************************************************************)
(* A role the import writes has what the document declares of it.          *)
(***************************************************************************)
LEMMA SetRoleFields ==
  ASSUME NEW doc \in Document, NEW d \in Tables, NEW c \in SetRoles(Diff(doc, d), d)
  PROVE  LET e == Applied(doc, Diff(doc, d), d)
         IN  /\ e.role[c] = "iac"
             /\ Settled(doc, KeyOf(c)) => RoleFieldsEqual(e, c, doc.role[KeyOf(c)])
<1> DEFINE plan == Diff(doc, d)
           e    == Applied(doc, plan, d)
           want == doc.role[KeyOf(c)]
           rows == {[role |-> c, scope |-> s, source |-> "iac", via |-> "role"] : s \in want.scopes}
<1>1. /\ e.role = AppliedRoles(plan, d) /\ e.grant = AppliedGrants(doc, plan, d)
      /\ e.scope = AppliedScopes(doc, plan, d)
  BY DEF Applied
<1>2. c \in RoleCode /\ KeyOf(c) \in Key /\ want # Absent
  BY SetRole DEF Expressible
<1>3. c \notin DeletedRoles(plan, d)
  BY SetRole, DeletedRole
<1>4. want.perms \subseteq PermCode /\ want.scopes \subseteq Scope
  BY <1>2, Declared
<1> HIDE DEF e
<1>5. e.role[c] = "iac"
  BY <1>1, <1>2, <1>3 DEF AppliedRoles
<1>6. {p \in PermCode : e.grant[<<c, p>>] # Absent} = want.perms
  <2>1. \A p \in PermCode : e.grant[<<c, p>>] = IF p \in want.perms THEN "allow" ELSE Absent
    BY <1>1, <1>2, <1>3 DEF AppliedGrants
  <2> QED
    BY <1>4, <2>1, ImportAssumption
<1>7. ASSUME Settled(doc, KeyOf(c))
      PROVE  ScopesOf(e, c) = rows
  <2>0. \A r \in StrayScopes(doc) : r.role # c
    BY <1>7, StrayRows DEF Settled
  <2>1. \A r \in d.scope \ ClearedScopes(plan, d) : r.role # c
    BY DEF ClearedScopes
  <2>2. {r \in DeclaredScopes(doc, plan, d) : r.role = c} = rows
    BY DEF DeclaredScopes
  <2> QED
    BY <1>1, <2>0, <2>1, <2>2 DEF AppliedScopes, ScopesOf
<1>8. {r.scope : r \in rows} = want.scopes
  <2>1. \A s \in want.scopes : [role |-> c, scope |-> s, source |-> "iac", via |-> "role"] \in rows
    OBVIOUS
  <2>2. \A r \in rows : r.scope \in want.scopes
    OBVIOUS
  <2> HIDE DEF rows, want
  <2>3. \A s \in want.scopes : \E r \in rows : r.scope = s
    BY <2>1
  <2> QED
    BY <2>2, <2>3
<1>9. Cardinality(rows) = Cardinality(want.scopes)
  <2> DEFINE f == [s \in want.scopes |-> [role |-> c, scope |-> s, source |-> "iac", via |-> "role"]]
  <2>1. IsFiniteSet(want.scopes)
    BY <1>4, FS_Subset, ImportAssumption
  <2> HIDE DEF want
  <2>2. f \in Surjection(want.scopes, rows)
    BY DEF Surjection
  <2>3. \A s \in want.scopes : f[s].scope = s
    OBVIOUS
  <2>4. f \in Injection(want.scopes, rows)
    <3> HIDE DEF f
    <3> QED
      BY <2>2, <2>3 DEF Injection, Surjection, IsInjective
  <2> QED
    BY <2>1, <2>2, <2>4, FS_Surjection
<1> QED
  BY <1>2, <1>5, <1>6, <1>7, <1>8, <1>9 DEF RoleFieldsEqual, Settled, e

(***************************************************************************)
(* Without a collision the role of a key is the only one.                  *)
(***************************************************************************)
LEMMA OneRoleOfKey ==
  ASSUME NEW d \in Tables, ~Collision(d), NEW k \in Key, RolesOfKey(d, k) # {}
  PROVE  RolesOfKey(d, k) = {RoleOfKey(d, k)}
<1>1. RolesOfKey(d, k) \subseteq {<<"plain", k>>, <<"iac", k>>}
  <2> SUFFICES ASSUME NEW c \in RolesOfKey(d, k)
               PROVE  c \in {<<"plain", k>>, <<"iac", k>>}
    OBVIOUS
  <2>1. c \in {"plain", "iac", "tpl"} \X Key /\ c[1] # "tpl" /\ c[2] = k
    BY DEF RolesOfKey, Expressible, RoleCode, KeyOf
  <2>2. c = <<c[1], c[2]>> /\ c[1] \in {"plain", "iac", "tpl"}
    BY <2>1
  <2> QED
    BY <2>1, <2>2
<1>2. IsFiniteSet({<<"plain", k>>} \cup {<<"iac", k>>})
  BY FS_Singleton, FS_AddElement
<1>3. IsFiniteSet(RolesOfKey(d, k))
  BY <1>1, <1>2, FS_Subset
<1>4. ~(Cardinality(RolesOfKey(d, k)) > 1)
  BY DEF Collision
<1> QED
  BY <1>3, <1>4, RoleOfKeyThere, AtMostOne

(***************************************************************************)
(* Roles, with their grants and data scopes.                               *)
(***************************************************************************)
LEMMA RoleConverges ==
  ASSUME NEW doc \in Document, NEW d \in Tables, NEW k \in Key,
         ~Collision(d), ~Conflict(Diff(doc, d)), Settled(doc, k)
  PROVE  RoleKind(doc, Applied(doc, Diff(doc, d), d), k) = "none"
<1> DEFINE plan == Diff(doc, d)
           e    == Applied(doc, plan, d)
           c    == RoleOfKey(d, k)
           mine == {x \in Expressible : KeyOf(x) = k}
<1> SUFFICES RoleKind(doc, e, k) = "none"
  OBVIOUS
<1>1. /\ plan.role[k] # "conflict"
      /\ plan.role[k] \in {"create", "adopt", "update", "delete", "conflict", "none"}
  BY RoleKinds DEF Conflict
<1>2. /\ RolesOfKey(d, k) = {x \in mine : d.role[x] # Absent}
      /\ RolesOfKey(e, k) = {x \in mine : e.role[x] # Absent}
  BY DEF RolesOfKey
<1>3. \A x \in mine : x \in DeletedRoles(plan, d) => plan.role[k] = "delete" /\ x = c
  BY DeletedRole
<1>4. \A x \in mine : x \in SetRoles(plan, d) => plan.role[k] \in Set /\ x = CodeOf(plan, d, k)
  BY SetRole
<1>5. \A x \in mine : x \in RoleCode
  BY DEF Expressible
<1>6. CASE plan.role[k] = "none"
  <2>1. \A x \in mine : x \notin DeletedRoles(plan, d) /\ x \notin SetRoles(plan, d)
    BY <1>3, <1>4, <1>6 DEF Set
  <2>2. \A x \in mine : /\ e.role[x] = d.role[x] /\ ScopesOf(e, x) = ScopesOf(d, x)
                        /\ \A p \in PermCode : e.grant[<<x, p>>] = d.grant[<<x, p>>]
    <3>1. \A x \in mine : x \in StrayRole => doc.stray[x] = Absent
      BY DEF Settled
    <3> QED
      BY <1>5, <2>1, <3>1, OtherRole
  <2>3. RolesOfKey(e, k) = RolesOfKey(d, k)
    BY <1>2, <2>2
  <2>4. RoleOfKey(e, k) = c
    BY <2>3 DEF RoleOfKey
  <2>5. RolesOfKey(d, k) # {} => c \in mine
    BY RoleOfKeyThere
  <2>6. \/ RolesOfKey(d, k) = {} /\ doc.role[k] = Absent
        \/ RolesOfKey(d, k) # {} /\ d.role[c] = "manual" /\ doc.role[k] = Absent
        \/ /\ RolesOfKey(d, k) # {} /\ d.role[c] = "iac" /\ doc.role[k] # Absent
           /\ RoleFieldsEqual(d, c, doc.role[k])
    BY <1>6, RoleKinds
  <2> HIDE DEF e, c, mine, plan
  <2>7. c \in mine => (RoleFieldsEqual(e, c, doc.role[k]) <=> RoleFieldsEqual(d, c, doc.role[k]))
    BY <2>2 DEF RoleFieldsEqual
  <2> QED
    BY <2>2, <2>3, <2>4, <2>5, <2>6, <2>7 DEF RoleKind, Govern
<1>7. CASE plan.role[k] \in Set
  <2> DEFINE x == CodeOf(plan, d, k)
  <2>1. x \in SetRoles(plan, d)
    BY <1>7 DEF SetRoles
  <2>2. x \in mine /\ doc.role[k] # Absent
    <3>1. CASE plan.role[k] = "create"
      BY <3>1, RoleKinds DEF CodeOf, Expressible, RoleCode, KeyOf
    <3>2. CASE plan.role[k] # "create"
      BY <1>7, <3>2, RoleKinds, RoleOfKeyThere DEF CodeOf, Set
    <3> QED
      BY <3>1, <3>2
  <2>3. e.role[x] = "iac" /\ RoleFieldsEqual(e, x, doc.role[k])
    BY <2>1, <2>2, SetRoleFields
  <2>4. ASSUME NEW y \in mine, y # x
        PROVE  e.role[y] = Absent
    <3>1. y \notin DeletedRoles(plan, d) /\ y \notin SetRoles(plan, d)
      BY <1>3, <1>4, <1>7, <2>4 DEF Set
    <3>2. e.role[y] = d.role[y]
      BY <1>5, <3>1, OtherRole
    <3>3. CASE plan.role[k] = "create"
      <4>1. RolesOfKey(d, k) = {}
        BY <3>3, RoleKinds
      <4> QED
        BY <1>2, <3>2, <4>1
    <3>4. CASE plan.role[k] # "create"
      <4>1. RolesOfKey(d, k) # {} /\ x = c
        BY <1>7, <3>4, RoleKinds DEF CodeOf, Set
      <4>2. RolesOfKey(d, k) = {x}
        BY <4>1, OneRoleOfKey
      <4> QED
        BY <1>2, <2>4, <3>2, <4>2
    <3> QED
      BY <3>3, <3>4
  <2> HIDE DEF e, x, mine, plan
  <2>5. RolesOfKey(e, k) = {x}
    BY <1>2, <2>2, <2>3, <2>4, ImportAssumption
  <2>6. RoleOfKey(e, k) = x
    BY <2>5 DEF RoleOfKey
  <2> QED
    BY <2>2, <2>3, <2>5, <2>6 DEF RoleKind, Govern
<1>8. CASE plan.role[k] = "delete"
  <2>1. RolesOfKey(d, k) # {} /\ doc.role[k] = Absent
    BY <1>8, RoleKinds
  <2>2. RolesOfKey(d, k) = {c}
    BY <2>1, OneRoleOfKey
  <2>3. c \in DeletedRoles(plan, d)
    BY <1>8 DEF DeletedRoles
  <2>4. ASSUME NEW y \in mine
        PROVE  e.role[y] = Absent
    <3>1. CASE y = c
      <4>1. c \notin SetRoles(plan, d) /\ c \in RoleCode
        BY <1>4, <1>5, <1>8, <3>1 DEF Set
      <4> QED
        BY <2>3, <3>1, <4>1 DEF Applied, AppliedRoles
    <3>2. CASE y # c
      <4>1. y \notin DeletedRoles(plan, d) /\ y \notin SetRoles(plan, d)
        BY <1>3, <1>4, <1>8, <3>2 DEF Set
      <4>2. e.role[y] = d.role[y]
        BY <1>5, <4>1, OtherRole
      <4> QED
        BY <1>2, <2>2, <3>2, <4>2
    <3> QED
      BY <3>1, <3>2
  <2>5. RolesOfKey(e, k) = {}
    BY <1>2, <2>4
  <2> QED
    BY <2>1, <2>5 DEF RoleKind
<1> QED
  BY <1>1, <1>6, <1>7, <1>8 DEF Set

(***************************************************************************)
(* After an import the tables are what the document says: comparing again  *)
(* finds nothing to do, whatever was committed before the lock was taken,  *)
(* for every part of the document but roles with a repeated permission     *)
(* code or a top-level policy about them (Converged).                      *)
(***************************************************************************)
THEOREM ConvergedTheorem == Spec => Converged
<1> DEFINE Same ==
      LET plan == Diff(pending.doc, db')
      IN  /\ plan.perm = EmptyPlan.perm /\ plan.top = EmptyPlan.top
          /\ \A k \in Key : Settled(pending.doc, k) => plan.role[k] = "none"
<1>1. IInv /\ [Next]_vars => [Imported => Same]_vars
  <2> SUFFICES ASSUME IInv, [Next]_vars, Imported
               PROVE  Same
    OBVIOUS
  <2> DEFINE doc == pending.doc
  <2>1. /\ doc \in Document /\ db \in Tables /\ IsFiniteSet(db.top)
        /\ ~Collision(db) /\ ~Conflict(Diff(doc, db)) /\ db' = Applied(doc, Diff(doc, db), db)
    BY ImportedIsCommit
  <2>2. /\ \A p \in PermCode : PermKind(doc, db', p) = "none"
        /\ \A k \in Key : Settled(doc, k) => RoleKind(doc, db', k) = "none"
        /\ \A s \in Subject : TopKind(doc, db', s) = "none"
    BY <2>1, PermConverges, RoleConverges, TopConverges
  <2> HIDE DEF doc
  <2>3. /\ Diff(doc, db').perm = EmptyPlan.perm /\ Diff(doc, db').top = EmptyPlan.top
        /\ \A k \in Key : Settled(doc, k) => Diff(doc, db').role[k] = "none"
    BY <2>2 DEF Diff, EmptyPlan
  <2> QED
    BY <2>3 DEF doc
<1> QED
  BY <1>1, Invariance, PTL DEF Spec, Converged

-----------------------------------------------------------------------------
(* Why an import is refused under the lock.                                *)

(***************************************************************************)
(* The rows a comparison under the lock refers to are there.               *)
(***************************************************************************)
LEMMA FreshPresent ==
  ASSUME NEW doc \in Document, NEW d \in Tables, ~Conflict(Diff(doc, d))
  PROVE  Present(Diff(doc, d), d)
<1>1. \A k \in Key : Diff(doc, d).role[k] \in Located => RolesOfKey(d, k) # {}
  BY RoleKinds DEF Located
<1>2. ASSUME NEW s \in Subject, Diff(doc, d).top[s] \in Located, TopRows(d, s) = {}
      PROVE  FALSE
  <2>1. Cardinality(TopRows(d, s)) = 0
    BY <1>2, FS_EmptySet
  <2>2. TopKind(doc, d, s) \in {"create", "none"}
    BY <1>2, <2>1 DEF TopKind
  <2> QED
    BY <1>2, <2>2 DEF Diff, Located
<1> QED
  BY <1>1, <1>2 DEF Present

(***************************************************************************)
(* A permission to be deleted that is still held after the grants of the   *)
(* document's roles were reset is held by a role it does not govern.       *)
(***************************************************************************)
LEMMA StillHeld ==
  ASSUME NEW doc \in Document, NEW d \in Tables, Resolves(d), ~Collision(d),
         ~Conflict(Diff(doc, d)), NEW c \in RoleCode, NEW p \in PermCode,
         PermKind(doc, d, p) = "delete", AppliedGrants(doc, Diff(doc, d), d)[<<c, p>>] # Absent
  PROVE  /\ d.role[c] = "manual" /\ (c \notin Expressible \/ doc.role[KeyOf(c)] = Absent)
         /\ d.grant[<<c, p>>] # Absent
<1> DEFINE plan == Diff(doc, d)
           k    == KeyOf(c)
<1>1. doc.perm[p] = Absent
  BY DEF PermKind, Govern
<1>2. c \notin DeletedRoles(plan, d)
  <2> SUFFICES ASSUME c \in DeletedRoles(plan, d)
               PROVE  FALSE
    OBVIOUS
  <2>1. c \notin SetRoles(plan, d)
    BY SetRole, DeletedRole
  <2> QED
    BY <2>1 DEF AppliedGrants
<1>3. c \notin SetRoles(plan, d)
  <2> SUFFICES ASSUME c \in SetRoles(plan, d)
               PROVE  FALSE
    OBVIOUS
  <2>1. p \in doc.role[k].perms
    BY <1>2 DEF AppliedGrants
  <2> QED
    BY <1>1, <2>1, SetRole, Declared
<1>4. d.grant[<<c, p>>] # Absent /\ d.role[c] # Absent
  BY <1>2, <1>3 DEF AppliedGrants, Resolves
<1>5. d.role[c] \in {"manual", "iac"}
  BY <1>4 DEF Tables
<1>6. CASE c \notin Expressible
  BY <1>4, <1>5, <1>6 DEF Resolves
<1>7. CASE c \in Expressible
  <2>1. k \in Key /\ c \in RolesOfKey(d, k)
    BY <1>4, <1>7 DEF RolesOfKey, Expressible, RoleCode, KeyOf
  <2>2. c = RoleOfKey(d, k) /\ RolesOfKey(d, k) # {}
    BY <2>1, OneRoleOfKey
  <2>3. plan.role[k] = "none"
    <3>1. plan.role[k] \notin Set
      BY <1>3, <2>1, <2>2, RoleKinds DEF SetRoles, CodeOf, Set
    <3>2. plan.role[k] # "delete"
      BY <1>2, <2>1, <2>2 DEF DeletedRoles
    <3> QED
      BY <2>1, <3>1, <3>2, RoleKinds DEF Set, Conflict
  <2>4. \/ d.role[c] = "manual" /\ doc.role[k] = Absent
        \/ doc.role[k] # Absent /\ RoleFieldsEqual(d, c, doc.role[k])
    BY <2>1, <2>2, <2>3, RoleKinds
  <2>5. ~(doc.role[k] # Absent /\ RoleFieldsEqual(d, c, doc.role[k]))
    <3> SUFFICES ASSUME doc.role[k] # Absent, RoleFieldsEqual(d, c, doc.role[k])
                 PROVE  FALSE
      OBVIOUS
    <3>1. p \in doc.role[k].perms
      BY <1>4 DEF RoleFieldsEqual
    <3> QED
      BY <1>1, <2>1, <3>1, Declared
  <2> QED
    BY <1>4, <2>4, <2>5
<1> QED
  BY <1>6, <1>7

(***************************************************************************)
(* Transactions are counted.                                               *)
(***************************************************************************)
Count == writes \in Nat

(***************************************************************************)
(* A step writes nothing or counts one transaction.                        *)
(***************************************************************************)
LEMMA Counted == Spec => []Count
<1>1. Init => Count
  BY DEF Init, Count
<1>2. [Next]_vars => writes' = writes \/ writes' = writes + 1
  <2>1. ASSUME NEW d, NEW changed, Write(d, changed)
        PROVE  writes' = writes + 1
    BY <2>1 DEF Write
  <2>2. OtherWriter => writes' = writes + 1
    BY <2>1 DEF OtherWriter, CreateRole, DeleteRole, BindUserRole, UnbindUserRole, InsertScope,
                InsertTop, UpdateTop, DeleteDataPolicy, GrantPermission, RevokePermission,
                UpsertPermission, ReportPermission, Write
  <2>3. CommitImport => writes' = writes + 1
    BY <2>1 DEF CommitImport
  <2> QED
    BY <2>2, <2>3 DEF Next, vars, BeginImport, RollbackImport
<1>3. Count /\ [Next]_vars => Count'
  BY <1>2 DEF Count
<1> QED
  BY <1>1, <1>3, PTL DEF Spec

(***************************************************************************)
(* Only a rollback ends an import without a write.                         *)
(***************************************************************************)
LEMMA RefusedIsRollback ==
  ASSUME Count, [Next]_vars, Refused
  PROVE  RollbackImport
<1>1. ~CommitImport
  BY DEF CommitImport, Write, Refused, Count
<1> QED
  BY <1>1 DEF Refused, Next, OtherWriter, vars, BeginImport, CreateRole, DeleteRole, BindUserRole,
         UnbindUserRole, InsertScope, InsertTop, UpdateTop, DeleteDataPolicy, GrantPermission,
         RevokePermission, UpsertPermission, ReportPermission

(***************************************************************************)
(* An import that reached the lock is refused for a cause outside the      *)
(* document's own references (RefusedForCause): what the roles it governs  *)
(* hold is released before a permission is deleted.                        *)
(***************************************************************************)
THEOREM RefusedTheorem == Spec => RefusedForCause
<1> DEFINE Cause ==
      \/ Collision(db)
      \/ Conflict(Diff(pending.doc, db))
      \/ \E c \in RoleCode, p \in PermCode :
           /\ Ungoverned(pending.doc, c) /\ db.grant[<<c, p>>] # Absent
           /\ PermKind(pending.doc, db, p) = "delete"
<1>1. IInv /\ Count /\ [Next]_vars => [Refused => Cause]_vars
  <2> SUFFICES ASSUME IInv, Count, [Next]_vars, Refused, ~Collision(db),
                      ~Conflict(Diff(pending.doc, db))
               PROVE  Cause
    OBVIOUS
  <2> DEFINE doc  == pending.doc
             plan == Diff(doc, db)
  <2>1. ImportFails
    BY RefusedIsRollback DEF RollbackImport
  <2>2. doc \in Document /\ db \in Tables /\ Resolves(db)
    BY DEF IInv, TypeOK, GrantsResolve, Resolves, Refused
  <2>3. ~Deletable(doc, plan, db)
    BY <2>1, <2>2, FreshPresent DEF ImportFails, FreshPlan
  <2>4. PICK g \in RoleCode \X PermCode :
          plan.perm[g[2]] = "delete" /\ AppliedGrants(doc, plan, db)[g] # Absent
    BY <2>3 DEF Deletable
  <2>5. PICK c \in RoleCode, p \in PermCode : g = <<c, p>>
    OBVIOUS
  <2>6. PermKind(doc, db, p) = "delete"
    BY <2>4, <2>5 DEF Diff
  <2>7. Ungoverned(doc, c) /\ db.grant[<<c, p>>] # Absent
    BY <2>2, <2>4, <2>5, <2>6, StillHeld DEF Ungoverned
  <2> QED
    BY <2>6, <2>7
<1> QED
  BY <1>1, Invariance, Counted, PTL DEF Spec, RefusedForCause
=============================================================================
