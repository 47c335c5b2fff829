---------------------------- MODULE EffPerm_proofs ----------------------------
(***************************************************************************)
(* Proofs about EffPerm, for every policy and any number of users, roles,  *)
(* permissions, data policies and writes that come between the statements  *)
(* of a request.                                                           *)
(***************************************************************************)
EXTENDS EffPerm, TLAPS

TypeOK ==
  /\ bind \subseteq User \X Role
  /\ inherit \subseteq Role \X Role
  /\ grants \in [Role \X Perm -> Eft \cup {"none"}]
  /\ version \in Nat

WellFormed(R) ==
  \A r \in R : \/ r[1] = "g" /\ r[2] \in Subject /\ r[3] \in Role
               \/ r[1] = "p" /\ r[2] \in Role /\ r[3] \in Pair /\ r[4] \in Eft

Fields == {"op", "user", "role", "pair", "change", "stage", "at", "rules", "bound", "dps", "answer"}

(***************************************************************************)
(* Whatever was read is what the tables say while no write came after the  *)
(* request began, and the answer is computed from that.                    *)
(***************************************************************************)
ReadsCurrent ==
  req.at = version =>
    /\ req.rules = Rules(bind, inherit, grants)
    /\ req.stage \in {"policies", "done"} /\ req.op # "graph" => req.dps = dps
    /\ req.op = "simulate" /\ req.stage = "done" =>
         req.answer = Simulated(req.rules, req.dps, {e[1] : e \in bind}, req.change)
    /\ req.op = "graph" /\ req.stage = "done" =>
         /\ req.answer.boundUsers \subseteq User
         /\ req.answer.capabilities = Capabilities(inherit, grants, req.role)

RequestSound ==
  req # Idle =>
    /\ DOMAIN req = Fields
    /\ req.op \in {"effective", "explain", "simulate", "graph"}
    /\ WellFormed(req.rules) /\ req.bound \subseteq User
    /\ req.at \in Nat /\ req.at <= version
    /\ req.op = "simulate" => req.change \in Changes
    /\ ReadsCurrent
    /\ req.op = "explain" /\ req.stage = "done" =>
         \E x \in Resource : \E e \in Explanations(req.rules, req.dps, req.user, req.pair, x) :
           req.answer = [resource |-> x, e |-> e]

IInv == TypeOK /\ RequestSound

-----------------------------------------------------------------------------
(* The rules of the transient engine.                                      *)

GrantedAs(r, gr) == \E c \in Perm : r[3] = Target[c] /\ gr[<<r[2], c>>] = r[4]

(***************************************************************************)
(* The grouping rules are the bindings and the inheritance edges, the      *)
(* policy rules are the grants.                                            *)
(***************************************************************************)
LEMMA RuleShape ==
  ASSUME NEW b \in SUBSET (User \X Role), NEW i \in SUBSET (Role \X Role),
         NEW gr \in [Role \X Perm -> Eft \cup {"none"}]
  PROVE  \A r \in Rules(b, i, gr) :
           \/ r[1] = "g" /\ r[2] \in Subject /\ r[3] \in Role /\ <<r[2], r[3]>> \in b \cup i
           \/ /\ r[1] = "p" /\ r[2] \in Role /\ r[3] \in Pair /\ r[4] \in Eft
              /\ GrantedAs(r, gr)
<1> TAKE r \in Rules(b, i, gr)
<1>1. CASE r \in {<<"g", e[1], e[2]>> : e \in b \cup i}
  <2>1. PICK e \in b \cup i : r = <<"g", e[1], e[2]>>
    BY <1>1
  <2>2. e = <<e[1], e[2]>> /\ e[1] \in Subject /\ e[2] \in Role
    BY DEF Subject
  <2>3. r[1] = "g" /\ r[2] = e[1] /\ r[3] = e[2]
    BY <2>1
  <2> QED
    BY <2>2, <2>3
<1>2. CASE r \in {<<"p", k[1], Target[k[2]], gr[k]>> : k \in {x \in Role \X Perm : gr[x] # "none"}}
  <2>1. PICK k \in Role \X Perm : gr[k] # "none" /\ r = <<"p", k[1], Target[k[2]], gr[k]>>
    BY <1>2
  <2>2. k = <<k[1], k[2]>> /\ k[1] \in Role /\ k[2] \in Perm /\ gr[k] \in Eft
    BY <2>1
  <2>3. r[1] = "p" /\ r[2] = k[1] /\ r[3] = Target[k[2]] /\ r[4] = gr[k]
    BY <2>1
  <2>4. Target[k[2]] \in Pair
    BY <2>2, EffPermAssumption
  <2>5. GrantedAs(r, gr)
    BY <2>2, <2>3 DEF GrantedAs
  <2> QED
    BY <2>2, <2>3, <2>4, <2>5
<1> QED
  BY <1>1, <1>2 DEF Rules

(***************************************************************************)
(* A binding, an inheritance edge and a grant have their rule.             *)
(***************************************************************************)
LEMMA RuleOf ==
  ASSUME NEW b \in SUBSET (User \X Role), NEW i \in SUBSET (Role \X Role),
         NEW gr \in [Role \X Perm -> Eft \cup {"none"}]
  PROVE  /\ \A s, t : <<s, t>> \in b \cup i => <<"g", s, t>> \in Rules(b, i, gr)
         /\ \A r \in Role, c \in Perm :
              gr[<<r, c>>] # "none" => <<"p", r, Target[c], gr[<<r, c>>]>> \in Rules(b, i, gr)
<1>1. ASSUME NEW s, NEW t, <<s, t>> \in b \cup i
      PROVE  <<"g", s, t>> \in Rules(b, i, gr)
  <2>1. <<"g", <<s, t>>[1], <<s, t>>[2]>> \in {<<"g", e[1], e[2]>> : e \in b \cup i}
    BY <1>1
  <2> QED
    BY <2>1 DEF Rules
<1>2. ASSUME NEW r \in Role, NEW c \in Perm, gr[<<r, c>>] # "none"
      PROVE  <<"p", r, Target[c], gr[<<r, c>>]>> \in Rules(b, i, gr)
  <2>1. <<r, c>> \in {x \in Role \X Perm : gr[x] # "none"}
    BY <1>2
  <2>2. <<"p", <<r, c>>[1], Target[<<r, c>>[2]], gr[<<r, c>>]>> \in
          {<<"p", k[1], Target[k[2]], gr[k]>> : k \in {x \in Role \X Perm : gr[x] # "none"}}
    BY <2>1
  <2> QED
    BY <2>2 DEF Rules
<1> QED
  BY <1>1, <1>2

(***************************************************************************)
(* The explanation of a decision, against the list of permissions.         *)
(***************************************************************************)
LEMMA ExplanationSound ==
  ASSUME NEW R, WellFormed(R), NEW D, NEW u, NEW p, NEW x,
         NEW e \in Explanations(R, D, u, p, x)
  PROVE  LET list == ComputeResult(R, D, u)
             mine == {u} \cup e.roles
         IN  /\ e.allowed <=> p \in list.perms
             /\ e.allowed <=> e.reason = "ALLOW_GRANTED"
             /\ e.reason = "ALLOW_GRANTED" => e.rule[4] = "allow" /\ e.rule[2] \in mine
             /\ e.reason = "DENY_OVERRIDDEN" => e.rule[4] = "deny" /\ e.rule[2] \in mine
             /\ e.reason = "DENY_NO_MATCH" =>
                  \A r \in R : r[1] = "p" /\ r[3] = p => r[2] \notin mine
             /\ e.scope.match = "all" \/ [resource |-> x, view |-> e.scope] \in list.views
<1> DEFINE m     == Matching(R, u, p)
           roles == ImplicitRoles(R, u)
           ok    == Enforce(R, u, p)
<1>1. PICK rule \in DecidingRules(R, u, p) :
        e = [allowed |-> ok,
             reason  |-> IF rule = NoRule THEN "DENY_NO_MATCH"
                         ELSE IF ok THEN "ALLOW_GRANTED" ELSE "DENY_OVERRIDDEN",
             rule    |-> rule, roles |-> roles, scope |-> FilterSymbolic(D, u, roles, x)]
  BY DEF Explanations
<1>2. /\ e.allowed = ok /\ e.rule = rule /\ e.roles = roles
      /\ e.scope = FilterSymbolic(D, u, roles, x)
      /\ e.reason = IF rule = NoRule THEN "DENY_NO_MATCH"
                    ELSE IF ok THEN "ALLOW_GRANTED" ELSE "DENY_OVERRIDDEN"
  BY <1>1
<1>3. \A r \in m : r \in R /\ r[1] = "p" /\ r[3] = p /\ r[2] \in {u} \cup roles /\ r[4] \in Eft
  BY DEF Matching, Subjects, WellFormed
<1>4. ok <=> (\E r \in m : r[4] = "allow") /\ \A r \in m : r[4] # "deny"
  BY DEF Enforce
<1>5. /\ m = {} => rule = NoRule
      /\ m # {} => rule \in m /\ ((\E r \in m : r[4] = "deny") => rule[4] = "deny")
  BY DEF DecidingRules
<1>6. NoRule \notin m
  <2>1. NoRule[1] = "none"
    BY DEF NoRule
  <2> QED
    BY <1>3, <2>1
<1>7. ok <=> p \in ComputeResult(R, D, u).perms
  <2>1. ok => p \in {r[3] : r \in {y \in R : y[1] = "p"}}
    BY <1>3, <1>4
  <2> QED
    BY <2>1 DEF ComputeResult, ComputePerms
<1>8. FilterSymbolic(D, u, roles, x).match = "all"
        \/ [resource |-> x, view |-> FilterSymbolic(D, u, roles, x)] \in ComputeResult(R, D, u).views
  <2>1. CASE x \in {d.resource : d \in D}
    BY <2>1 DEF ComputeResult, ComputeViews
  <2>2. CASE x \notin {d.resource : d \in D}
    <3>1. {d \in D : d.resource = x} = {}
      BY <2>2
    <3> QED
      BY <3>1 DEF FilterSymbolic
  <2> QED
    BY <2>1, <2>2
<1>9. m = {} => \A r \in R : r[1] = "p" /\ r[3] = p => r[2] \notin {u} \cup roles
  BY DEF Matching, Subjects
<1> HIDE DEF m, roles, ok
<1> QED
  BY <1>2, <1>3, <1>4, <1>5, <1>6, <1>7, <1>8, <1>9 DEF Eft

-----------------------------------------------------------------------------
(* The steps.                                                              *)

(***************************************************************************)
(* The rules of well-formed tables are well formed.                        *)
(***************************************************************************)
LEMMA RulesWellFormed ==
  ASSUME NEW b \in SUBSET (User \X Role), NEW i \in SUBSET (Role \X Role),
         NEW gr \in [Role \X Perm -> Eft \cup {"none"}]
  PROVE  WellFormed(Rules(b, i, gr))
<1> DEFINE R == Rules(b, i, gr)
<1>1. \A r \in R :
        \/ r[1] = "g" /\ r[2] \in Subject /\ r[3] \in Role /\ <<r[2], r[3]>> \in b \cup i
        \/ /\ r[1] = "p" /\ r[2] \in Role /\ r[3] \in Pair /\ r[4] \in Eft
           /\ GrantedAs(r, gr)
  BY RuleShape
<1> HIDE DEF R
<1>2. WellFormed(R)
  BY <1>1 DEF WellFormed
<1> QED
  BY <1>2 DEF R

(***************************************************************************)
(* A write leaves the request alone and makes what it read out of date.    *)
(***************************************************************************)
LEMMA WriteStep ==
  ASSUME IInv, Write
  PROVE  IInv'
<1>1. req' = req /\ version' = version + 1
  BY DEF Write, BindUserRole, UnbindUserRole, GrantPermission, RevokePermission, AddInheritance,
         WriteDataPolicy, Commit
<1>2. TypeOK'
  <2>1. TypeOK /\ version' \in Nat
    BY <1>1 DEF IInv, TypeOK
  <2>2. ASSUME NEW u \in User, NEW r \in Role, BindUserRole(u, r) \/ UnbindUserRole(u, r)
        PROVE  TypeOK'
    <3>1. <<u, r>> \in User \X Role
      OBVIOUS
    <3>2. bind' \subseteq User \X Role /\ UNCHANGED <<inherit, grants>>
      BY <2>1, <2>2, <3>1 DEF TypeOK, BindUserRole, UnbindUserRole
    <3> QED
      BY <2>1, <3>2 DEF TypeOK
  <2>3. ASSUME NEW r \in Role, NEW p \in Perm,
               RevokePermission(r, p) \/ \E e \in Eft : GrantPermission(r, p, e)
        PROVE  TypeOK'
    <3>1. UNCHANGED <<bind, inherit>>
      BY <2>3 DEF RevokePermission, GrantPermission
    <3>2. PICK x \in Eft \cup {"none"} : grants' = [grants EXCEPT ![<<r, p>>] = x]
      <4>1. grants[<<r, p>>] \in Eft \cup {"none"}
        BY <2>1 DEF TypeOK
      <4> QED
        BY <2>3, <4>1 DEF RevokePermission, GrantPermission
    <3>3. grants' \in [Role \X Perm -> Eft \cup {"none"}]
      BY <2>1, <3>2 DEF TypeOK
    <3> QED
      BY <2>1, <3>1, <3>3 DEF TypeOK
  <2>4. ASSUME NEW c \in Role, NEW r \in Role, AddInheritance(c, r)
        PROVE  TypeOK'
    <3>1. <<c, r>> \in Role \X Role
      OBVIOUS
    <3>2. inherit' \subseteq Role \X Role /\ UNCHANGED <<bind, grants>>
      BY <2>1, <2>4, <3>1 DEF TypeOK, AddInheritance
    <3> QED
      BY <2>1, <3>2 DEF TypeOK
  <2>5. ASSUME NEW d \in DataPolicy, WriteDataPolicy(d)
        PROVE  TypeOK'
    BY <2>1, <2>5 DEF TypeOK, WriteDataPolicy
  <2> QED
    BY <2>2, <2>3, <2>4, <2>5 DEF Write
<1>3. RequestSound'
  <2>1. version \in Nat
    BY DEF IInv, TypeOK
  <2>2. req # Idle => ~(req'.at = version') /\ req'.at <= version'
    BY <1>1, <2>1 DEF IInv, RequestSound
  <2> QED
    BY <1>1, <2>2 DEF IInv, RequestSound, ReadsCurrent
<1> QED
  BY <1>2, <1>3 DEF IInv

(***************************************************************************)
(* A request begins with a consistent read of the rules.                   *)
(***************************************************************************)
LEMMA StartStep ==
  ASSUME IInv, Request
  PROVE  IInv'
<1>1. PICK op, user, role, pair, change :
        /\ op \in {"effective", "explain", "simulate", "graph"}
        /\ Start(op, user, role, pair, change)
        /\ op = "simulate" => change \in Changes
  BY DEF Request
<1>2. /\ req' = [op |-> op, user |-> user, role |-> role, pair |-> pair, change |-> change,
                 stage |-> "rules", at |-> version, rules |-> Rules(bind, inherit, grants),
                 bound |-> {u \in User : <<u, role>> \in bind}, dps |-> {}, answer |-> << >>]
      /\ UNCHANGED <<bind, inherit, grants, dps, version>>
  BY <1>1 DEF Start, dbVars
<1>3. /\ req'.op = op /\ req'.change = change /\ req'.stage = "rules" /\ req'.at = version
      /\ req'.rules = Rules(bind, inherit, grants) /\ DOMAIN req' = Fields
      /\ req'.bound \subseteq User
  BY <1>2 DEF Fields
<1>4. TypeOK' /\ WellFormed(req'.rules)
  <2>1. /\ bind \in SUBSET (User \X Role) /\ inherit \in SUBSET (Role \X Role)
        /\ grants \in [Role \X Perm -> Eft \cup {"none"}]
    BY DEF IInv, TypeOK
  <2>2. WellFormed(Rules(bind, inherit, grants))
    BY <2>1, RulesWellFormed
  <2> QED
    BY <1>2, <1>3, <2>2 DEF IInv, TypeOK
<1>5. ReadsCurrent'
  BY <1>2, <1>3 DEF ReadsCurrent
<1>6. version \in Nat
  BY DEF IInv, TypeOK
<1>7. RequestSound'
  BY <1>1, <1>2, <1>3, <1>4, <1>5, <1>6 DEF RequestSound
<1> QED
  BY <1>4, <1>7 DEF IInv

(***************************************************************************)
(* The data policies are read by a statement of their own, later.          *)
(***************************************************************************)
LEMMA ReadStep ==
  ASSUME IInv, ReadAppDataPolicies
  PROVE  IInv'
<1>1. /\ req' = [req EXCEPT !.stage = "policies", !.dps = dps]
      /\ req.op \in {"effective", "explain", "simulate"}
      /\ UNCHANGED <<bind, inherit, grants, dps, version>>
  BY DEF ReadAppDataPolicies, dbVars
<1>2. req # Idle
  BY <1>1 DEF Idle
<1>3. DOMAIN req = Fields
  BY <1>2 DEF IInv, RequestSound
<1>4. /\ DOMAIN req' = Fields /\ req'.stage = "policies" /\ req'.dps = dps
      /\ req'.op = req.op /\ req'.user = req.user /\ req'.pair = req.pair
      /\ req'.change = req.change /\ req'.at = req.at /\ req'.rules = req.rules
      /\ req'.bound = req.bound
  BY <1>1, <1>3 DEF Fields
<1>5. TypeOK'
  BY <1>1 DEF IInv, TypeOK
<1>6. ReadsCurrent'
  BY <1>1, <1>2, <1>4 DEF IInv, RequestSound, ReadsCurrent
<1>7. RequestSound'
  BY <1>1, <1>2, <1>4, <1>6 DEF IInv, RequestSound
<1> QED
  BY <1>5, <1>7 DEF IInv

(***************************************************************************)
(* An answer is recorded, and nothing else changes.                        *)
(***************************************************************************)
LEMMA FinishFrame ==
  ASSUME IInv, NEW a, Finish(a), req # Idle
  PROVE  /\ TypeOK' /\ UNCHANGED <<bind, inherit, grants, dps, version>>
         /\ DOMAIN req' = Fields /\ req'.stage = "done" /\ req'.answer = a
         /\ req'.op = req.op /\ req'.user = req.user /\ req'.pair = req.pair
         /\ req'.role = req.role /\ req'.change = req.change /\ req'.at = req.at
         /\ req'.rules = req.rules /\ req'.dps = req.dps /\ req'.bound = req.bound
<1>1. /\ req' = [req EXCEPT !.stage = "done", !.answer = a]
      /\ UNCHANGED <<bind, inherit, grants, dps, version>>
  BY DEF Finish, dbVars
<1>2. DOMAIN req = Fields
  BY DEF IInv, RequestSound
<1>3. /\ DOMAIN req' = Fields /\ req'.stage = "done" /\ req'.answer = a
      /\ req'.op = req.op /\ req'.user = req.user /\ req'.pair = req.pair
      /\ req'.role = req.role /\ req'.change = req.change /\ req'.at = req.at
      /\ req'.rules = req.rules /\ req'.dps = req.dps /\ req'.bound = req.bound
  BY <1>1, <1>2 DEF Fields
<1>4. TypeOK'
  BY <1>1 DEF IInv, TypeOK
<1> QED
  BY <1>1, <1>3, <1>4

(***************************************************************************)
(* The answer is computed from what was read.                              *)
(***************************************************************************)
LEMMA FinishStep ==
  ASSUME IInv, GetEffectivePermissions \/ ExplainDecision \/ SimulateRoleChange \/ GetRoleGraph
  PROVE  IInv'
<1>1. req # Idle
  BY DEF GetEffectivePermissions, ExplainDecision, SimulateRoleChange, GetRoleGraph, Idle
<1>2. RequestSound /\ ReadsCurrent
  BY <1>1 DEF IInv, RequestSound
<1>3. CASE GetEffectivePermissions
  <2>1. PICK a : Finish(a) /\ req.op = "effective" /\ req.stage = "policies"
    BY <1>3 DEF GetEffectivePermissions
  <2>2. ReadsCurrent'
    BY <1>1, <1>2, <2>1, FinishFrame DEF ReadsCurrent
  <2>3. RequestSound'
    BY <1>1, <1>2, <2>1, <2>2, FinishFrame DEF RequestSound
  <2> QED
    BY <1>1, <2>1, <2>3, FinishFrame DEF IInv
<1>4. CASE ExplainDecision
  <2>1. PICK x \in Resource : \E e \in Explanations(req.rules, req.dps, req.user, req.pair, x) :
          Finish([resource |-> x, e |-> e]) /\ req.op = "explain" /\ req.stage = "policies"
    BY <1>4 DEF ExplainDecision
  <2>2. PICK e \in Explanations(req.rules, req.dps, req.user, req.pair, x) :
          Finish([resource |-> x, e |-> e]) /\ req.op = "explain" /\ req.stage = "policies"
    BY <2>1
  <2>3. ReadsCurrent'
    BY <1>1, <1>2, <2>2, FinishFrame DEF ReadsCurrent
  <2>4. RequestSound'
    BY <1>1, <1>2, <2>2, <2>3, FinishFrame DEF RequestSound
  <2> QED
    BY <1>1, <2>2, <2>4, FinishFrame DEF IInv
<1>5. CASE SimulateRoleChange
  <2> DEFINE a == Simulated(req.rules, req.dps, {e[1] : e \in bind}, req.change)
  <2>1. Finish(a) /\ req.op = "simulate" /\ req.stage = "policies"
    BY <1>5 DEF SimulateRoleChange
  <2>2. req'.answer = Simulated(req'.rules, req'.dps, {e[1] : e \in bind'}, req'.change)
    BY <1>1, <2>1, FinishFrame
  <2> HIDE DEF a
  <2>3. ReadsCurrent'
    BY <1>1, <1>2, <2>1, <2>2, FinishFrame DEF ReadsCurrent
  <2>4. RequestSound'
    BY <1>1, <1>2, <2>1, <2>3, FinishFrame DEF RequestSound
  <2> QED
    BY <1>1, <2>1, <2>4, FinishFrame DEF IInv
<1>6. CASE GetRoleGraph
  <2> DEFINE a == [boundUsers |-> req.bound,
                   capabilities |-> Capabilities(inherit, grants, req.role)]
  <2>1. Finish(a) /\ req.op = "graph" /\ req.stage = "rules"
    BY <1>6 DEF GetRoleGraph
  <2>2. a.boundUsers \subseteq User /\ a.capabilities = Capabilities(inherit, grants, req.role)
    BY <1>1, <1>2 DEF RequestSound
  <2> HIDE DEF a
  <2>3. ReadsCurrent'
    BY <1>1, <1>2, <2>1, <2>2, FinishFrame DEF ReadsCurrent
  <2>4. RequestSound'
    BY <1>1, <1>2, <2>1, <2>3, FinishFrame DEF RequestSound
  <2> QED
    BY <1>1, <2>1, <2>4, FinishFrame DEF IInv
<1> QED
  BY <1>3, <1>4, <1>5, <1>6

(***************************************************************************)
(* The inductive invariant: what a request has read and computed is        *)
(* current as long as nobody wrote since it began.                         *)
(***************************************************************************)
THEOREM Invariance == Spec => []IInv
<1>1. Init => IInv
  BY DEF Init, IInv, TypeOK, RequestSound
<1>2. IInv /\ [Next]_vars => IInv'
  <2> SUFFICES ASSUME IInv, [Next]_vars PROVE IInv'
    OBVIOUS
  <2>1. CASE UNCHANGED vars
    BY <2>1 DEF vars, dbVars, IInv, TypeOK, RequestSound, ReadsCurrent
  <2>2. CASE Close
    BY <2>2 DEF Close, dbVars, IInv, TypeOK, RequestSound
  <2> QED
    BY <2>1, <2>2, WriteStep, StartStep, ReadStep, FinishStep DEF Next
<1> QED
  BY <1>1, <1>2, PTL DEF Spec

(***************************************************************************)
(* An explanation and the list of effective permissions from the same rows *)
(* agree, and the rule an explanation names is one that decides            *)
(* (ExplanationAgrees).                                                    *)
(***************************************************************************)
THEOREM ExplanationTheorem == Spec => []ExplanationAgrees
<1>1. IInv => ExplanationAgrees
  <2> SUFFICES ASSUME IInv, Answered("explain")
               PROVE  ExplanationAgrees
    BY DEF ExplanationAgrees
  <2>1. WellFormed(req.rules)
    BY DEF IInv, RequestSound, Answered
  <2>2. PICK x \in Resource : \E e \in Explanations(req.rules, req.dps, req.user, req.pair, x) :
          req.answer = [resource |-> x, e |-> e]
    BY DEF IInv, RequestSound, Answered
  <2>3. PICK e \in Explanations(req.rules, req.dps, req.user, req.pair, x) :
          req.answer = [resource |-> x, e |-> e]
    BY <2>2
  <2>4. req.answer.e = e /\ req.answer.resource = x
    BY <2>3
  <2> QED
    BY <2>1, <2>4, ExplanationSound DEF ExplanationAgrees
<1> QED
  BY <1>1, Invariance, PTL

-----------------------------------------------------------------------------
(***************************************************************************)
(* A user with one role is led, by the grouping rules, to that role and    *)
(* its ancestors and no further, if no user bound to a role has the name   *)
(* of one of them.                                                         *)
(***************************************************************************)
LEMMA OneRoleLeads ==
  ASSUME NEW b \in SUBSET (User \X Role), NEW i \in SUBSET (Role \X Role),
         NEW gr \in [Role \X Perm -> Eft \cup {"none"}], NEW u \in User \ Role, NEW role,
         \A e \in b : e[1] \notin {role} \cup RoleAncestors(i, role),
         {e[2] : e \in {x \in b : x[1] = u}} = {role}
  PROVE  ImplicitRoles(Rules(b, i, gr), u) \subseteq {role} \cup RoleAncestors(i, role)
<1> DEFINE R == Rules(b, i, gr)
           S == {u} \cup (({role} \cup RoleAncestors(i, role)) \cap Role)
<1>1. S \in SUBSET Subject /\ u \in S
  BY DEF Subject
<1>2. ASSUME NEW r \in R, r[1] = "g", r[2] \in S
      PROVE  r[3] \in S
  <2>1. <<r[2], r[3]>> \in b \cup i /\ r[3] \in Role
    BY <1>2, RuleShape
  <2>2. CASE r[2] = u
    <3>1. <<r[2], r[3]>> \in b
      BY <2>1, <2>2
    <3>2. <<r[2], r[3]>> \in {x \in b : x[1] = u}
      BY <2>2, <3>1
    <3>3. <<r[2], r[3]>>[2] \in {role}
      BY <3>2
    <3> QED
      BY <2>1, <3>3
  <2>3. CASE r[2] # u
    <3>1. r[2] \in Role /\ r[2] \in {role} \cup RoleAncestors(i, role)
      BY <1>2, <2>3
    <3>2. <<r[2], r[3]>> \in i
      <4>1. <<r[2], r[3]>>[1] = r[2]
        OBVIOUS
      <4> QED
        BY <2>1, <3>1, <4>1
    <3>3. ASSUME NEW T \in SUBSET Role, \A e \in i : e[1] = role \/ e[1] \in T => e[2] \in T
          PROVE  r[3] \in T
      <4>1. r[2] = role \/ r[2] \in T
        BY <3>1, <3>3 DEF RoleAncestors
      <4>2. <<r[2], r[3]>>[1] = r[2] /\ <<r[2], r[3]>>[2] = r[3]
        OBVIOUS
      <4> QED
        BY <3>2, <3>3, <4>1, <4>2
    <3>4. r[3] \in RoleAncestors(i, role)
      BY <2>1, <3>3 DEF RoleAncestors
    <3> QED
      BY <2>1, <3>4
  <2> QED
    BY <2>2, <2>3
<1>3. ASSUME NEW t \in ImplicitRoles(R, u)
      PROVE  t \in {role} \cup RoleAncestors(i, role)
  <2>1. t \in Role /\ t \in S
    <3> HIDE DEF S, R
    <3> QED
      BY <1>1, <1>2 DEF ImplicitRoles
  <2> QED
    BY <2>1
<1> QED
  BY <1>3

(***************************************************************************)
(* The picture of a role leaves out nothing its users may do through it,   *)
(* unless a user named like the role or an ancestor is bound somewhere     *)
(* (GraphShowsAll).                                                        *)
(***************************************************************************)
THEOREM GraphTheorem == Spec => []GraphShowsAll
<1>1. IInv => GraphShowsAll
  <2> SUFFICES ASSUME IInv, Answered("graph"), version = req.at, NEW u \in User \ Role,
                      \A e \in bind : e[1] \notin {req.role} \cup RoleAncestors(inherit, req.role),
                      {e[2] : e \in {x \in bind : x[1] = u}} = {req.role},
                      NEW p \in ComputePerms(Rules(bind, inherit, grants), u)
               PROVE  p \in req.answer.capabilities
    <3>1. IInv /\ Answered("graph") /\ version = req.at => req.answer.boundUsers \subseteq User
      BY DEF IInv, RequestSound, ReadsCurrent, Answered
    <3> QED
      BY <3>1 DEF GraphShowsAll
  <2> DEFINE R == Rules(bind, inherit, grants)
  <2>1. /\ bind \in SUBSET (User \X Role) /\ inherit \in SUBSET (Role \X Role)
        /\ grants \in [Role \X Perm -> Eft \cup {"none"}]
    BY DEF IInv, TypeOK
  <2>2. req.answer.capabilities = Capabilities(inherit, grants, req.role)
    BY DEF IInv, RequestSound, ReadsCurrent, Answered
  <2>3. PICK r \in R : r[1] = "p" /\ r[3] = p /\ r[2] \in Subjects(R, u) /\ r[4] = "allow"
    BY DEF ComputePerms, Enforce, Matching
  <2>4. r[2] \in Role /\ \E c \in Perm : p = Target[c] /\ grants[<<r[2], c>>] = "allow"
    <3>1. \A x \in R :
            \/ x[1] = "g" /\ x[2] \in Subject /\ x[3] \in Role /\ <<x[2], x[3]>> \in bind \cup inherit
            \/ /\ x[1] = "p" /\ x[2] \in Role /\ x[3] \in Pair /\ x[4] \in Eft
               /\ GrantedAs(x, grants)
      BY <2>1, RuleShape
    <3> HIDE DEF R
    <3> QED
      BY <2>3, <3>1 DEF GrantedAs
  <2>5. r[2] \in {req.role} \cup RoleAncestors(inherit, req.role)
    <3>1. r[2] \in ImplicitRoles(R, u)
      BY <2>3, <2>4 DEF Subjects
    <3> QED
      BY <2>1, <3>1, OneRoleLeads
  <2>6. PICK c \in Perm : p = Target[c] /\ grants[<<r[2], c>>] = "allow"
    BY <2>4
  <2>7. /\ <<r[2], c>> \in Role \X Perm /\ <<r[2], c>>[1] = r[2] /\ <<r[2], c>>[2] = c
    BY <2>4
  <2> QED
    BY <2>2, <2>5, <2>6, <2>7 DEF Capabilities
<1> QED
  BY <1>1, Invariance, PTL

-----------------------------------------------------------------------------
(* What a simulation says comes true.                                      *)

(***************************************************************************)
(* The listed permissions are the ones Enforce grants: it grants none that *)
(* no rule speaks of.                                                      *)
(***************************************************************************)
LEMMA PermsAreEnforced ==
  ASSUME NEW R, NEW u, NEW p
  PROVE  p \in ComputePerms(R, u) <=> Enforce(R, u, p)
<1>1. ASSUME Enforce(R, u, p)
      PROVE  p \in {r[3] : r \in {x \in R : x[1] = "p"}}
  <2>1. PICK r \in Matching(R, u, p) : r[4] = "allow"
    BY <1>1 DEF Enforce
  <2>2. r \in R /\ r[1] = "p" /\ r[3] = p
    BY DEF Matching
  <2> QED
    BY <2>2
<1> QED
  BY <1>1 DEF ComputePerms

(***************************************************************************)
(* A user's result depends on the decisions and on the implied roles only. *)
(***************************************************************************)
LEMMA SameResult ==
  ASSUME NEW R, NEW R2, NEW D, NEW u, ImplicitRoles(R2, u) = ImplicitRoles(R, u),
         \A p : Enforce(R2, u, p) <=> Enforce(R, u, p)
  PROVE  ComputeResult(R2, D, u) = ComputeResult(R, D, u)
<1>1. ComputePerms(R2, u) = ComputePerms(R, u)
  BY PermsAreEnforced
<1>2. ComputeViews(R2, D, u) = ComputeViews(R, D, u)
  BY DEF ComputeViews
<1> QED
  BY <1>1, <1>2 DEF ComputeResult

(***************************************************************************)
(* The tables, rules with one more and with a change, and what an answer   *)
(* says of a user.                                                         *)
(***************************************************************************)
Policy(b, i, gr) ==
  /\ b \in SUBSET (User \X Role) /\ i \in SUBSET (Role \X Role)
  /\ gr \in [Role \X Perm -> Eft \cup {"none"}]

With(S, x) == S \cup {x}

Hypothetical(R, change) == R \cup Synthetic(change)

Granted(gr, k) == [gr EXCEPT ![k] = IF gr[k] = "none" THEN "allow" ELSE gr[k]]

Said(ans, u) == IF u \in DOMAIN ans.diffs THEN ans.diffs[u] ELSE NoDiff

(***************************************************************************)
(* Binding a user that is not named like a role changes nothing for        *)
(* another: no grouping rule leads to it.                                  *)
(***************************************************************************)
LEMMA BindLeavesOthers ==
  ASSUME NEW R, WellFormed(R), NEW D, NEW u \in User \ Role, NEW v \in User, v # u,
         NEW t \in Role
  PROVE  ComputeResult(With(R, <<"g", u, t>>), D, v) = ComputeResult(R, D, v)
<1> DEFINE new == <<"g", u, t>>
           R2  == R \cup {new}
<1>1. new[1] = "g" /\ new[2] = u /\ new[3] = t
  OBVIOUS
<1> HIDE DEF new
<1>2. ASSUME NEW x \in ImplicitRoles(R, v)
      PROVE  x \in ImplicitRoles(R2, v)
  BY DEF ImplicitRoles
<1>3. ASSUME NEW x \in ImplicitRoles(R2, v)
      PROVE  x \in ImplicitRoles(R, v)
  <2> SUFFICES ASSUME NEW S \in SUBSET Subject, v \in S,
                      \A r \in R : r[1] = "g" /\ r[2] \in S => r[3] \in S
               PROVE  x \in S
    BY DEF ImplicitRoles
  <2>1. S \ {u} \in SUBSET Subject /\ v \in S \ {u}
    OBVIOUS
  <2>2. ASSUME NEW r \in R2, r[1] = "g", r[2] \in S \ {u}
        PROVE  r[3] \in S \ {u}
    <3>1. r \in R
      BY <1>1, <2>2
    <3>2. r[3] \in Role
      BY <2>2, <3>1 DEF WellFormed
    <3> QED
      BY <2>2, <3>1, <3>2
  <2>3. x \in S \ {u}
    <3> HIDE DEF R2
    <3> QED
      BY <2>1, <2>2 DEF ImplicitRoles
  <2> QED
    BY <2>3
<1>4. ImplicitRoles(R2, v) = ImplicitRoles(R, v)
  BY <1>2, <1>3
<1>5. \A p : Matching(R2, v, p) = Matching(R, v, p)
  BY <1>1, <1>4 DEF Matching, Subjects
<1>6. \A p : Enforce(R2, v, p) <=> Enforce(R, v, p)
  BY <1>5 DEF Enforce
<1> QED
  BY <1>4, <1>6, SameResult DEF new, With

(***************************************************************************)
(* A new permission of a role leads nobody to another role: only grouping  *)
(* rules do.                                                               *)
(***************************************************************************)
LEMMA CapabilityKeepsRoles ==
  ASSUME NEW R, NEW u, NEW role, NEW perm
  PROVE  ImplicitRoles(With(R, <<"p", role, perm, "allow">>), u) = ImplicitRoles(R, u)
<1> DEFINE new == <<"p", role, perm, "allow">>
           R2  == With(R, new)
<1>1. new[1] = "p"
  OBVIOUS
<1>2. R2 = R \cup {new}
  BY DEF With
<1> SUFFICES ImplicitRoles(R2, u) = ImplicitRoles(R, u)
  OBVIOUS
<1> HIDE DEF new, R2
<1>3. \A S : (\A r \in R2 : r[1] = "g" /\ r[2] \in S => r[3] \in S)
               <=> (\A r \in R : r[1] = "g" /\ r[2] \in S => r[3] \in S)
  BY <1>1, <1>2
<1> QED
  BY <1>3 DEF ImplicitRoles

(***************************************************************************)
(* A new permission of a role changes nothing for who does not have the    *)
(* role.                                                                   *)
(***************************************************************************)
LEMMA CapabilityUnheld ==
  ASSUME NEW R, NEW D, NEW u, NEW role, NEW perm, role \notin Subjects(R, u)
  PROVE  ComputeResult(With(R, <<"p", role, perm, "allow">>), D, u) = ComputeResult(R, D, u)
<1> DEFINE new == <<"p", role, perm, "allow">>
           R2  == With(R, new)
<1>1. new[1] = "p" /\ new[2] = role
  OBVIOUS
<1>2. R2 = R \cup {new}
  BY DEF With
<1>3. ImplicitRoles(R2, u) = ImplicitRoles(R, u)
  BY CapabilityKeepsRoles
<1> SUFFICES ComputeResult(R2, D, u) = ComputeResult(R, D, u)
  OBVIOUS
<1> HIDE DEF new, R2
<1>4. \A p : Matching(R2, u, p) = Matching(R, u, p)
  BY <1>1, <1>2, <1>3 DEF Matching, Subjects
<1>5. \A p : Enforce(R2, u, p) <=> Enforce(R, u, p)
  BY <1>4 DEF Enforce
<1> QED
  BY <1>3, <1>5, SameResult

(***************************************************************************)
(* Nor does it change anything, for anybody, if the role is denied that    *)
(* permission: a matching deny outweighs every allow.                      *)
(***************************************************************************)
LEMMA CapabilityDenied ==
  ASSUME NEW R, NEW D, NEW u, NEW role, NEW perm, <<"p", role, perm, "deny">> \in R
  PROVE  ComputeResult(With(R, <<"p", role, perm, "allow">>), D, u) = ComputeResult(R, D, u)
<1> DEFINE new == <<"p", role, perm, "allow">>
           old == <<"p", role, perm, "deny">>
           R2  == With(R, new)
<1>1. /\ new[1] = "p" /\ new[2] = role /\ new[3] = perm
      /\ old[1] = "p" /\ old[2] = role /\ old[3] = perm /\ old[4] = "deny"
  OBVIOUS
<1>2. R2 = R \cup {new}
  BY DEF With
<1>3. ImplicitRoles(R2, u) = ImplicitRoles(R, u)
  BY CapabilityKeepsRoles
<1>4. CASE role \notin Subjects(R, u)
  BY <1>4, CapabilityUnheld
<1>5. CASE role \in Subjects(R, u)
  <2>1. old \in R
    OBVIOUS
  <2> SUFFICES ComputeResult(R2, D, u) = ComputeResult(R, D, u)
    OBVIOUS
  <2> HIDE DEF new, old, R2
  <2>2. ASSUME NEW p
        PROVE  Enforce(R2, u, p) <=> Enforce(R, u, p)
    <3>1. CASE p = perm
      <4>1. old \in Matching(R, u, p) /\ old \in Matching(R2, u, p)
        BY <1>1, <1>2, <1>3, <1>5, <2>1, <3>1 DEF Matching, Subjects
      <4> QED
        BY <1>1, <4>1 DEF Enforce
    <3>2. CASE p # perm
      <4>1. Matching(R2, u, p) = Matching(R, u, p)
        BY <1>1, <1>2, <1>3, <3>2 DEF Matching, Subjects
      <4> QED
        BY <4>1 DEF Enforce
    <3> QED
      BY <3>1, <3>2
  <2> QED
    BY <1>3, <2>2, SameResult
<1> QED
  BY <1>4, <1>5

(***************************************************************************)
(* A user without a binding and not named like a role has no role.         *)
(***************************************************************************)
LEMMA UnboundHasNoRole ==
  ASSUME NEW b \in SUBSET (User \X Role), NEW i \in SUBSET (Role \X Role),
         NEW gr \in [Role \X Perm -> Eft \cup {"none"}], NEW u \in User \ Role,
         u \notin {e[1] : e \in b}
  PROVE  ImplicitRoles(Rules(b, i, gr), u) = {}
<1> DEFINE R == Rules(b, i, gr)
<1>1. ASSUME NEW r \in R, r[1] = "g", r[2] = u
      PROVE  FALSE
  <2>1. <<r[2], r[3]>> \in b \cup i
    BY <1>1, RuleShape
  <2>2. <<r[2], r[3]>> \in b
    BY <1>1, <2>1
  <2>3. <<r[2], r[3]>>[1] = u
    BY <1>1
  <2> QED
    BY <2>2, <2>3
<1>2. {u} \in SUBSET Subject
  BY DEF Subject
<1> HIDE DEF R
<1>3. ASSUME NEW t \in ImplicitRoles(R, u)
      PROVE  FALSE
  <2>1. t \in Role /\ t \in {u}
    BY <1>1, <1>2 DEF ImplicitRoles
  <2> QED
    BY <2>1
<1> QED
  BY <1>3 DEF R

(***************************************************************************)
(* A binding that is committed adds the rule the simulation added.         *)
(***************************************************************************)
LEMMA BoundRules ==
  ASSUME NEW b, NEW i, NEW gr, NEW u, NEW t
  PROVE  Rules(With(b, <<u, t>>), i, gr) = With(Rules(b, i, gr), <<"g", u, t>>)
<1> DEFINE new == <<u, t>>
           b2  == With(b, new)
<1> SUFFICES Rules(b2, i, gr) = Rules(b, i, gr) \cup {<<"g", u, t>>}
  BY DEF With
<1>1. new[1] = u /\ new[2] = t /\ b2 = b \cup {new}
  BY DEF With
<1> HIDE DEF new, b2
<1>2. {<<"g", e[1], e[2]>> : e \in b2 \cup i}
        = {<<"g", e[1], e[2]>> : e \in b \cup i} \cup {<<"g", u, t>>}
  BY <1>1
<1> QED
  BY <1>2 DEF Rules

(***************************************************************************)
(* So does a grant, unless one is there, which the insert leaves as it is. *)
(***************************************************************************)
LEMMA GrantedRules ==
  ASSUME NEW b, NEW i, NEW gr, Policy(b, i, gr), NEW role \in Role, NEW c \in Perm,
         NEW D, NEW u
  PROVE  ComputeResult(Rules(b, i, Granted(gr, <<role, c>>)), D, u)
           = ComputeResult(With(Rules(b, i, gr), <<"p", role, Target[c], "allow">>), D, u)
<1>8. /\ b \in SUBSET (User \X Role) /\ i \in SUBSET (Role \X Role)
      /\ gr \in [Role \X Perm -> Eft \cup {"none"}]
  BY DEF Policy
<1> DEFINE gr2 == Granted(gr, <<role, c>>)
           R2  == With(Rules(b, i, gr), <<"p", role, Target[c], "allow">>)
           R   == Rules(b, i, gr)
           new == <<"p", role, Target[c], "allow">>
           k0  == <<role, c>>
<1> SUFFICES ComputeResult(Rules(b, i, gr2), D, u) = ComputeResult(R2, D, u)
  OBVIOUS
<1>6. R2 = R \cup {new}
  BY DEF With
<1>7. gr2 = [gr EXCEPT ![k0] = IF gr[k0] = "none" THEN "allow" ELSE gr[k0]]
  BY DEF Granted
<1> HIDE DEF gr2, R2
<1>1. k0 \in Role \X Perm /\ k0[1] = role /\ k0[2] = c
  OBVIOUS
<1>2. gr[k0] \in {"allow", "deny", "none"}
  BY <1>1, <1>8 DEF Eft
<1>3. \A k \in Role \X Perm : gr2[k] = IF k = k0 /\ gr[k0] = "none" THEN "allow" ELSE gr[k]
  BY <1>7, <1>8
<1>4. CASE gr[k0] = "none"
  <2>1. {<<"p", k[1], Target[k[2]], gr2[k]>> : k \in {x \in Role \X Perm : gr2[x] # "none"}}
          = {<<"p", k[1], Target[k[2]], gr[k]>> : k \in {x \in Role \X Perm : gr[x] # "none"}} \cup {new}
    <3> DEFINE A == {x \in Role \X Perm : gr[x] # "none"}
    <3>1. {x \in Role \X Perm : gr2[x] # "none"} = A \cup {k0}
      BY <1>1, <1>3, <1>4
    <3>2. gr2[k0] = "allow" /\ \A k \in A : gr2[k] = gr[k]
      BY <1>1, <1>3, <1>4
    <3> HIDE DEF A, k0
    <3>3. <<"p", k0[1], Target[k0[2]], gr2[k0]>> = new
      BY <1>1, <3>2
    <3> HIDE DEF new
    <3>4. {<<"p", k[1], Target[k[2]], gr2[k]>> : k \in A \cup {k0}}
            = {<<"p", k[1], Target[k[2]], gr[k]>> : k \in A} \cup {new}
      BY <3>2, <3>3
    <3> QED
      BY <3>1, <3>4 DEF A
  <2>2. Rules(b, i, gr2) = R2
    <3> HIDE DEF new
    <3> QED
      BY <1>6, <2>1 DEF Rules
  <2> QED
    BY <2>2
<1>5. CASE gr[k0] # "none"
  <2>1. gr2 = gr
    BY <1>5, <1>7, <1>8
  <2>2. <<"p", role, Target[c], gr[k0]>> \in R
    BY <1>5, <1>8, RuleOf
  <2>3. CASE gr[k0] = "allow"
    <3>1. R2 = R
      BY <1>6, <2>2, <2>3
    <3> QED
      BY <2>1, <3>1
  <2>4. CASE gr[k0] = "deny"
    <3>1. <<"p", role, Target[c], "deny">> \in R
      BY <2>2, <2>4
    <3>2. R2 = With(R, new)
      BY DEF R2
    <3> HIDE DEF R
    <3>3. ComputeResult(R2, D, u) = ComputeResult(R, D, u)
      BY <3>1, <3>2, CapabilityDenied
    <3> QED
      BY <2>1, <3>3 DEF R
  <2> QED
    BY <1>2, <1>5, <2>3, <2>4
<1> QED
  BY <1>4, <1>5

(***************************************************************************)
(* A simulation lists the users whose result the change alters, with the   *)
(* difference, and no other, among those it speaks for.                    *)
(***************************************************************************)
LEMMA SimulatedAll ==
  ASSUME NEW b, NEW i, NEW gr, Policy(b, i, gr), NEW D, NEW change \in Changes,
         NEW bound, \A e \in b : e[1] \in bound,
         NEW ans, ans = Simulated(Rules(b, i, gr), D, bound, change),
         ans.kind = "diffs", NEW u \in User, SpokenFor(change, u)
  PROVE  Diff(ComputeResult(Rules(b, i, gr), D, u),
              ComputeResult(Hypothetical(Rules(b, i, gr), change), D, u)) = Said(ans, u)
<1>8. /\ b \in SUBSET (User \X Role) /\ i \in SUBSET (Role \X Role)
      /\ gr \in [Role \X Perm -> Eft \cup {"none"}]
  BY DEF Policy
<1> DEFINE R       == Rules(b, i, gr)
           R2      == Hypothetical(R, change)
           users   == IF change.type = "bind_user" THEN {change.user}
                      ELSE UsersWithRole(R, bound, change.role)
           diff(v) == Diff(ComputeResult(R, D, v), ComputeResult(R2, D, v))
<1>1. ans.diffs = [v \in {w \in users : diff(w) # NoDiff} |-> diff(v)]
  BY DEF Simulated, Hypothetical
<1>2. WellFormed(R)
  BY <1>8, RulesWellFormed
<1>3. ASSUME u \notin users
      PROVE  ComputeResult(R2, D, u) = ComputeResult(R, D, u)
  <2>1. CASE \E v \in User, r \in Role : change = BindUser(v, r)
    <3>1. PICK v \in User, r \in Role : change = BindUser(v, r)
      BY <2>1
    <3>2. change.type = "bind_user" /\ change.user = v /\ change.role = r
      BY <3>1 DEF BindUser
    <3>3. u # v /\ v \notin Role /\ Synthetic(change) = {<<"g", v, r>>}
      BY <1>3, <3>2 DEF Synthetic, SpokenFor
    <3>4. R2 = With(R, <<"g", v, r>>)
      BY <3>3 DEF Hypothetical, With
    <3> HIDE DEF R, R2
    <3> QED
      BY <1>2, <3>3, <3>4, BindLeavesOthers
  <2>2. CASE \E r \in Role, p \in Pair : change = AddCapability(r, p)
    <3>1. PICK r \in Role, p \in Pair : change = AddCapability(r, p)
      BY <2>2
    <3>2. change.type = "add_capability" /\ change.role = r /\ change.pair = p
      BY <3>1 DEF AddCapability
    <3>3. Synthetic(change) = {<<"p", r, p, "allow">>}
      BY <3>2 DEF Synthetic
    <3>7. u \notin Role
      BY <3>2 DEF SpokenFor
    <3>4. r \notin Subjects(R, u)
      <4>1. CASE u \in bound
        BY <1>3, <3>2, <3>7, <4>1 DEF UsersWithRole, Subjects
      <4>2. CASE u \notin bound
        <5>1. u \notin {e[1] : e \in b}
          BY <4>2
        <5> QED
          BY <1>8, <3>7, <5>1, UnboundHasNoRole DEF Subjects
      <4> QED
        BY <4>1, <4>2
    <3>5. R2 = With(R, <<"p", r, p, "allow">>)
      BY <3>3 DEF Hypothetical, With
    <3> HIDE DEF R, R2
    <3>6. ComputeResult(With(R, <<"p", r, p, "allow">>), D, u) = ComputeResult(R, D, u)
      BY <3>4, CapabilityUnheld
    <3> QED
      BY <3>5, <3>6
  <2> QED
    BY <2>1, <2>2 DEF Changes
<1>4. u \notin users => diff(u) = NoDiff
  BY <1>3 DEF Diff, NoDiff
<1> HIDE DEF users, diff
<1>5. diff(u) = Said(ans, u)
  BY <1>1, <1>4 DEF Said
<1> QED
  BY <1>5 DEF diff

(***************************************************************************)
(* What a simulation says comes true: if the change it was asked about is  *)
(* the next write, the permissions and data views of every user it speaks  *)
(* for change as it said (SimulationForetells).                            *)
(***************************************************************************)
THEOREM SimulationTheorem == Spec => SimulationForetells
<1> DEFINE Now  == Rules(bind, inherit, grants)
           Then == Rules(bind', inherit', grants')
           Real(u) == Diff(ComputeResult(Now, dps, u), ComputeResult(Then, dps', u))
           Asked == /\ Answered("simulate") /\ version = req.at /\ version' = version + 1
                    /\ write' = req.change /\ req.answer.kind = "diffs"
<1>1. IInv /\ [Next]_vars => [Asked => \A u \in User : SpokenFor(req.change, u) => Real(u) = Said(req.answer, u)]_vars
  <2> SUFFICES ASSUME IInv, [Next]_vars, Asked, NEW u \in User, SpokenFor(req.change, u)
               PROVE  Real(u) = Said(req.answer, u)
    OBVIOUS
  <2>1. Policy(bind, inherit, grants) /\ version \in Nat
    BY DEF IInv, TypeOK, Policy
  <2> DEFINE bound == {e[1] : e \in bind}
  <2>2. /\ req.change \in Changes /\ req.rules = Now /\ req.dps = dps
        /\ req.answer = Simulated(Now, dps, bound, req.change) /\ req.answer.kind = "diffs"
    BY DEF IInv, RequestSound, ReadsCurrent, Answered
  <2>8. \A e \in bind : e[1] \in bound
    OBVIOUS
  <2> DEFINE hypo == Hypothetical(Now, req.change)
  <2>3. Diff(ComputeResult(Now, dps, u), ComputeResult(hypo, dps, u)) = Said(req.answer, u)
    <3> HIDE DEF bound
    <3> QED
      BY <2>1, <2>2, <2>8, SimulatedAll
  <2>4. req.change # NoChange
    BY <2>2 DEF Changes, BindUser, AddCapability, NoChange
  <2>5. Write
    <3>1. version' # version
      BY <2>1
    <3>2. ~(UNCHANGED vars) /\ ~Request /\ ~ReadAppDataPolicies /\ ~Close
      BY <3>1 DEF vars, Request, Start, ReadAppDataPolicies, Close
    <3>3. \A a : ~Finish(a)
      BY <3>1 DEF Finish
    <3>4. ~(GetEffectivePermissions \/ ExplainDecision \/ SimulateRoleChange \/ GetRoleGraph)
      BY <3>3 DEF GetEffectivePermissions, ExplainDecision, SimulateRoleChange, GetRoleGraph
    <3> QED
      BY <3>2, <3>4 DEF Next
  <2>6. \/ \E v \in User, r \in Role : BindUserRole(v, r) /\ req.change = BindUser(v, r)
        \/ \E r \in Role, c \in Perm :
             GrantPermission(r, c, "allow") /\ req.change = AddCapability(r, Target[c])
    BY <2>4, <2>5 DEF Write, BindUserRole, UnbindUserRole, GrantPermission, RevokePermission,
                      AddInheritance, WriteDataPolicy, Commit, Eft
  <2>7. dps' = dps /\ ComputeResult(Then, dps, u) = ComputeResult(hypo, dps, u)
    <3>1. ASSUME NEW v \in User, NEW r \in Role, BindUserRole(v, r), req.change = BindUser(v, r)
          PROVE  dps' = dps /\ Then = hypo
      <4>1. Synthetic(req.change) = {<<"g", v, r>>}
        BY <3>1 DEF BindUser, Synthetic
      <4>2. bind' = bind \cup {<<v, r>>} /\ UNCHANGED <<inherit, grants, dps>>
        BY <3>1 DEF BindUserRole
      <4>3. bind' = With(bind, <<v, r>>) /\ hypo = With(Now, <<"g", v, r>>)
        BY <4>1, <4>2 DEF With, Hypothetical
      <4>4. Rules(bind', inherit, grants) = hypo
        BY <4>3, BoundRules
      <4> QED
        BY <4>2, <4>4
    <3>2. ASSUME NEW r \in Role, NEW c \in Perm, GrantPermission(r, c, "allow"),
                 req.change = AddCapability(r, Target[c])
          PROVE  dps' = dps /\ ComputeResult(Then, dps, u) = ComputeResult(hypo, dps, u)
      <4>1. Synthetic(req.change) = {<<"p", r, Target[c], "allow">>}
        BY <3>2 DEF AddCapability, Synthetic
      <4>2. /\ grants' = [grants EXCEPT ![<<r, c>>] = IF grants[<<r, c>>] = "none" THEN "allow"
                                                      ELSE grants[<<r, c>>]]
            /\ UNCHANGED <<bind, inherit, dps>>
        BY <3>2 DEF GrantPermission
      <4>3. hypo = With(Now, <<"p", r, Target[c], "allow">>) /\ grants' = Granted(grants, <<r, c>>)
        BY <4>1, <4>2 DEF With, Hypothetical, Granted
      <4>4. ComputeResult(Rules(bind, inherit, grants'), dps, u) = ComputeResult(hypo, dps, u)
        <5>1. ComputeResult(Rules(bind, inherit, Granted(grants, <<r, c>>)), dps, u)
                = ComputeResult(With(Now, <<"p", r, Target[c], "allow">>), dps, u)
          BY <2>1, GrantedRules
        <5> QED
          BY <4>3, <5>1
      <4> QED
        BY <4>2, <4>4
    <3> QED
      BY <2>6, <3>1, <3>2
  <2> QED
    BY <2>3, <2>7
<1> QED
  BY <1>1, Invariance, PTL DEF Spec, SimulationForetells, Said
=============================================================================
