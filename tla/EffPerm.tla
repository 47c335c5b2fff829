------------------------------- MODULE EffPerm -------------------------------
(***************************************************************************)
(* What the control plane tells an operator about decisions it does not    *)
(* take itself: the effective permissions of a user, the explanation of    *)
(* one decision, the picture of a role and what a change of a role would   *)
(* do (internal/controlplane/effperm and the handlers of mgmt over it).    *)
(* Each request reads the rules and the data policies of the application   *)
(* in separate statements, each of which sees what is committed then,      *)
(* builds a transient engine and evaluates.                                *)
(***************************************************************************)
EXTENDS Naturals, FiniteSets

CONSTANTS User,       \* user ids; nothing keeps one from being a role code
          Role,       \* role codes
          Perm,       \* permission codes
          Pair,       \* (resource, action) pairs
          Target,     \* Target[c]: the pair permission c stands for
          Resource,   \* resources with data policies
          DataPolicy, \* [type, subject, resource, effect, cond, poisoned]
          MaxRows,    \* bound on the bindings and grants that are there at first
          MaxWrites   \* bound on the writes explored

ASSUME EffPermAssumption ==
  /\ Target \in [Perm -> Pair]
  /\ MaxRows \in Nat /\ MaxWrites \in Nat

VARIABLES bind,    \* user_role_binding
          inherit, \* role_inheritance: <<child, parent>>
          grants,  \* role_permission: grants[<<r, c>>] is its eft or "none"
          dps,     \* data_policy
          version, \* number of writes, for the history only
          write,   \* history: the last write
          req      \* the request under way

dbVars == <<bind, inherit, grants, dps>>
vars   == <<dbVars, version, write, req>>

Subject == User \cup Role
Eft     == {"allow", "deny"}

-----------------------------------------------------------------------------
(* The transient engine: rules are <<"g", s, r>> and <<"p", r, pair, eft>> *)

(***************************************************************************)
(* Two permissions may stand for one pair, so a role may be allowed and    *)
(* denied it.                                                              *)
(***************************************************************************)
Rules(b, i, gr) ==
  {<<"g", e[1], e[2]>> : e \in b \cup i}
    \cup {<<"p", k[1], Target[k[2]], gr[k]>> : k \in {k \in Role \X Perm : gr[k] # "none"}}

(***************************************************************************)
(* GetImplicitRolesForUser: every role the grouping rules lead to, but for *)
(* the subject itself when it is named like a role.                        *)
(***************************************************************************)
ImplicitRoles(R, s) ==
  {t \in Role \ {s} : \A S \in SUBSET Subject :
     (s \in S /\ \A r \in R : r[1] = "g" /\ r[2] \in S => r[3] \in S) => t \in S}

(***************************************************************************)
(* The matcher's g is reflexive: a policy rule of the user's own name      *)
(* matches too.                                                            *)
(***************************************************************************)
Subjects(R, user) == {user} \cup ImplicitRoles(R, user)

Matching(R, user, pair) ==
  {r \in R : r[1] = "p" /\ r[3] = pair /\ r[2] \in Subjects(R, user)}

(***************************************************************************)
(* Enforce: some allow and no deny.                                        *)
(***************************************************************************)
Enforce(R, user, pair) ==
  LET m == Matching(R, user, pair)
  IN  (\E r \in m : r[4] = "allow") /\ \A r \in m : r[4] # "deny"

NoRule == <<"none">>

(* Mutant: the rule named is any that matches. *)
MatchingRules(R, user, pair) ==
  LET m == Matching(R, user, pair) IN IF m = {} THEN {NoRule} ELSE m

(***************************************************************************)
(* EnforceEx: the rule Casbin names is the first deny it meets, otherwise  *)
(* the first allow; the rules have no order.                               *)
(***************************************************************************)
DecidingRules(R, user, pair) ==
  LET m    == Matching(R, user, pair)
      deny == {r \in m : r[4] = "deny"}
  IN  IF m = {} THEN {NoRule} ELSE IF deny # {} THEN deny ELSE m

(***************************************************************************)
(* A policy is for one user or for a role among the user's implied roles.  *)
(***************************************************************************)
SubjectMatches(d, user, roles) ==
  \/ d.type = "user" /\ d.subject = user
  \/ d.type = "role" /\ d.subject \in roles

(***************************************************************************)
(* FilterSymbolic: the whole result and, when conditional, its predicate.  *)
(***************************************************************************)
FilterSymbolic(D, user, roles, resource) ==
  LET bucket == {d \in D : d.resource = resource}
      mine   == {d \in bucket : SubjectMatches(d, user, roles)}
      part(e) == {d.cond : d \in {d \in mine : d.effect = e}}
  IN  CASE bucket = {} -> [match |-> "all", allow |-> {}, deny |-> {}]
        [] bucket # {} /\ (\E d \in mine : d.poisoned) -> [match |-> "error", allow |-> {}, deny |-> {}]
        [] bucket # {} /\ (\A d \in mine : ~d.poisoned) /\ part("allow") = {} ->
             [match |-> "none", allow |-> {}, deny |-> {}]
        [] OTHER -> [match |-> "conditional", allow |-> part("allow"), deny |-> part("deny")]

(***************************************************************************)
(* computePerms asks about each (resource, action) some rule speaks of,    *)
(* computeViews about each resource with data policies; an error in one    *)
(* view is an error of the whole.                                          *)
(***************************************************************************)
ComputePerms(R, user) ==
  {p \in {r[3] : r \in {r \in R : r[1] = "p"}} : Enforce(R, user, p)}

ComputeViews(R, D, user) ==
  {[resource |-> x, view |-> FilterSymbolic(D, user, ImplicitRoles(R, user), x)] :
     x \in {d.resource : d \in D}}

ComputeResult(R, D, user) ==
  [perms |-> ComputePerms(R, user), views |-> ComputeViews(R, D, user)]

IsError(result) == \E v \in result.views : v.view.match = "error"

-----------------------------------------------------------------------------
(* Explain *)

(***************************************************************************)
(* The possible explanations of one decision.                              *)
(***************************************************************************)
Explanations(R, D, user, pair, resource) ==
  {[allowed |-> Enforce(R, user, pair),
    reason  |-> IF rule = NoRule THEN "DENY_NO_MATCH"
                ELSE IF Enforce(R, user, pair) THEN "ALLOW_GRANTED" ELSE "DENY_OVERRIDDEN",
    rule    |-> rule,
    roles   |-> ImplicitRoles(R, user),
    scope   |-> FilterSymbolic(D, user, ImplicitRoles(R, user), resource)] : rule \in DecidingRules(R, user, pair)}

-----------------------------------------------------------------------------
(* Simulate *)

BindUser(user, role) == [type |-> "bind_user", role |-> role, user |-> user]
AddCapability(role, pair) == [type |-> "add_capability", role |-> role, pair |-> pair]
Changes == {BindUser(u, r) : u \in User, r \in Role} \cup {AddCapability(r, p) : r \in Role, p \in Pair}

Synthetic(change) ==
  IF change.type = "bind_user" THEN {<<"g", change.user, change.role>>}
  ELSE {<<"p", change.role, change.pair, "allow">>}

(* Mutant: only the users bound to the role itself are looked at. *)
UsersBoundToRole(R, bound, role) == {u \in bound : <<"g", u, role>> \in R}

(***************************************************************************)
(* usersWithRole: of the users with any binding, those the role is implied *)
(* for.                                                                    *)
(***************************************************************************)
UsersWithRole(R, bound, role) == {u \in bound : role \in ImplicitRoles(R, u)}

Diff(base, hypo) ==
  [addedPerms |-> hypo.perms \ base.perms, removedPerms |-> base.perms \ hypo.perms,
   addedViews |-> hypo.views \ base.views, removedViews |-> base.views \ hypo.views]

NoDiff == [addedPerms |-> {}, removedPerms |-> {}, addedViews |-> {}, removedViews |-> {}]

(***************************************************************************)
(* The users that are evaluated, and the difference for each; users whose  *)
(* difference is empty are left out of the answer.                         *)
(***************************************************************************)
Simulated(R, D, bound, change) ==
  LET users == IF change.type = "bind_user" THEN {change.user} ELSE UsersWithRole(R, bound, change.role)
      base(u) == ComputeResult(R, D, u)
      hypo(u) == ComputeResult(R \cup Synthetic(change), D, u)
      diff(u) == Diff(base(u), hypo(u))
  IN  IF \E u \in users : IsError(base(u)) \/ IsError(hypo(u)) THEN [kind |-> "error", diffs |-> [u \in {} |-> NoDiff]]
      ELSE [kind |-> "diffs", diffs |-> [u \in {u \in users : diff(u) # NoDiff} |-> diff(u)]]

-----------------------------------------------------------------------------
(* GetRoleGraph *)

(***************************************************************************)
(* roleAncestors: the closure of the parents.  On a cycle the query would  *)
(* not end, the write engine admits none.                                  *)
(***************************************************************************)
RoleAncestors(i, role) ==
  {t \in Role : \A S \in SUBSET Role :
     ((\A e \in i : e[1] = role \/ e[1] \in S => e[2] \in S) => t \in S)}

(* Mutant: the edges are followed from parent to child. *)
ChildCapabilities(i, gr, role) ==
  {Target[k[2]] : k \in {k \in Role \X Perm : gr[k] = "allow" /\ (k[1] = role \/ role \in RoleAncestors(i, k[1]))}}

(***************************************************************************)
(* The allowed permissions of the role and of its ancestors; a deny is not *)
(* looked at.                                                              *)
(***************************************************************************)
Capabilities(i, gr, role) ==
  {Target[k[2]] : k \in {k \in Role \X Perm : gr[k] = "allow" /\ k[1] \in {role} \cup RoleAncestors(i, role)}}

-----------------------------------------------------------------------------
(* State *)

Acyclic(i) == \A r \in Role : r \notin RoleAncestors(i, r)

NoChange == [type |-> "none"]
Idle == [op |-> "none"]

(***************************************************************************)
(* Any policy the write engine can leave behind, up to its size.           *)
(***************************************************************************)
Init ==
  /\ bind \in SUBSET (User \X Role)
  /\ inherit \in {i \in SUBSET (Role \X Role) : Acyclic(i)}
  /\ grants \in [Role \X Perm -> Eft \cup {"none"}]
  /\ Cardinality(bind) + Cardinality({k \in Role \X Perm : grants[k] # "none"}) <= MaxRows
  /\ dps \in SUBSET DataPolicy
  /\ version = 0 /\ write = NoChange /\ req = Idle

(***************************************************************************)
(* The first statements read the domain and the rules, or for a role graph *)
(* the users bound to the role.                                            *)
(***************************************************************************)
Start(op, user, role, pair, change) ==
  /\ req = Idle
  /\ req' = [op |-> op, user |-> user, role |-> role, pair |-> pair, change |-> change, stage |-> "rules",
             at |-> version, rules |-> Rules(bind, inherit, grants),
             bound |-> {u \in User : <<u, role>> \in bind}, dps |-> {}, answer |-> << >>]
  /\ UNCHANGED <<dbVars, version, write>>

(***************************************************************************)
(* readAppPolicy: the data policies are read by another statement.         *)
(***************************************************************************)
ReadAppDataPolicies ==
  /\ req.op \in {"effective", "explain", "simulate"} /\ req.stage = "rules"
  /\ req' = [req EXCEPT !.stage = "policies", !.dps = dps]
  /\ UNCHANGED <<dbVars, version, write>>

Finish(answer) ==
  /\ req' = [req EXCEPT !.stage = "done", !.answer = answer]
  /\ UNCHANGED <<dbVars, version, write>>

GetEffectivePermissions ==
  /\ req.op = "effective" /\ req.stage = "policies"
  /\ Finish(ComputeResult(req.rules, req.dps, req.user))

ExplainDecision ==
  /\ req.op = "explain" /\ req.stage = "policies"
  /\ \E x \in Resource : \E e \in Explanations(req.rules, req.dps, req.user, req.pair, x) :
       Finish([resource |-> x, e |-> e])

(***************************************************************************)
(* usersWithRole reads the bindings by a third statement.                  *)
(***************************************************************************)
SimulateRoleChange ==
  /\ req.op = "simulate" /\ req.stage = "policies"
  /\ Finish(Simulated(req.rules, req.dps, {e[1] : e \in bind}, req.change))

(***************************************************************************)
(* GetRoleGraph reads bindings, parents and grants one after the other;    *)
(* the model reads the bindings first and the rest in one step.            *)
(***************************************************************************)
GetRoleGraph ==
  /\ req.op = "graph" /\ req.stage = "rules"
  /\ Finish([boundUsers |-> req.bound,
             capabilities |-> Capabilities(inherit, grants, req.role)])

Close ==
  /\ req # Idle /\ req.stage = "done"
  /\ req' = Idle
  /\ UNCHANGED <<dbVars, version, write>>

-----------------------------------------------------------------------------
(* Writes of the policy engine *)

Commit(what) ==
  /\ version < MaxWrites
  /\ version' = version + 1
  /\ write' = what
  /\ UNCHANGED req

BindUserRole(u, r) ==
  /\ bind' = bind \cup {<<u, r>>}
  /\ Commit(BindUser(u, r))
  /\ UNCHANGED <<inherit, grants, dps>>

UnbindUserRole(u, r) ==
  /\ <<u, r>> \in bind
  /\ bind' = bind \ {<<u, r>>}
  /\ Commit(NoChange)
  /\ UNCHANGED <<inherit, grants, dps>>

(***************************************************************************)
(* InsertRolePermission leaves a grant that is there as it is.             *)
(***************************************************************************)
GrantPermission(r, c, eft) ==
  /\ grants' = [grants EXCEPT ![<<r, c>>] = IF @ = "none" THEN eft ELSE @]
  /\ Commit(IF eft = "allow" THEN AddCapability(r, Target[c]) ELSE NoChange)
  /\ UNCHANGED <<bind, inherit, dps>>

RevokePermission(r, c) ==
  /\ grants[<<r, c>>] # "none"
  /\ grants' = [grants EXCEPT ![<<r, c>>] = "none"]
  /\ Commit(NoChange)
  /\ UNCHANGED <<bind, inherit, dps>>

AddInheritance(child, parent) ==
  /\ Acyclic(inherit \cup {<<child, parent>>})
  /\ inherit' = inherit \cup {<<child, parent>>}
  /\ Commit(NoChange)
  /\ UNCHANGED <<bind, grants, dps>>

WriteDataPolicy(d) ==
  /\ dps' = IF d \in dps THEN dps \ {d} ELSE dps \cup {d}
  /\ Commit(NoChange)
  /\ UNCHANGED <<bind, inherit, grants>>

-----------------------------------------------------------------------------
(***************************************************************************)
(* What a request is about; the fields it has no use for are "none".       *)
(***************************************************************************)
Request ==
  \/ \E u \in User : Start("effective", u, "none", "none", NoChange)
  \/ \E u \in User, p \in Pair : Start("explain", u, "none", p, NoChange)
  \/ \E c \in Changes : Start("simulate", "none", c.role, "none", c)
  \/ \E r \in Role : Start("graph", "none", r, "none", NoChange)

Write ==
  \/ \E u \in User, r \in Role : BindUserRole(u, r) \/ UnbindUserRole(u, r)
  \/ \E r \in Role, c \in Perm : RevokePermission(r, c) \/ \E e \in Eft : GrantPermission(r, c, e)
  \/ \E c, r \in Role : AddInheritance(c, r)
  \/ \E d \in DataPolicy : WriteDataPolicy(d)

Next ==
  \/ Request \/ Write
  \/ ReadAppDataPolicies \/ GetEffectivePermissions \/ ExplainDecision \/ SimulateRoleChange \/ GetRoleGraph
  \/ Close

Spec == Init /\ [][Next]_vars

-----------------------------------------------------------------------------
(* Properties *)

Answered(op) == req # Idle /\ req.op = op /\ req.stage = "done"

(***************************************************************************)
(* An explanation and the list of effective permissions from the same rows *)
(* agree on the decision, on the roles and on the data scope, and the rule *)
(* an explanation names is one that decides: a deny for a refusal, an      *)
(* allow for a permission, none only if no role of the user, nor one of    *)
(* its name, says anything.                                                *)
(***************************************************************************)
ExplanationAgrees ==
  Answered("explain") =>
    LET e    == req.answer.e
        list == ComputeResult(req.rules, req.dps, req.user)
        mine == {req.user} \cup e.roles
    IN  /\ e.allowed <=> req.pair \in list.perms
        /\ e.allowed <=> e.reason = "ALLOW_GRANTED"
        /\ e.reason = "ALLOW_GRANTED" => e.rule[4] = "allow" /\ e.rule[2] \in mine
        /\ e.reason = "DENY_OVERRIDDEN" => e.rule[4] = "deny" /\ e.rule[2] \in mine
        /\ e.reason = "DENY_NO_MATCH" => \A r \in req.rules : r[1] = "p" /\ r[3] = req.pair => r[2] \notin mine
        /\ e.scope.match = "all" \/ [resource |-> req.answer.resource, view |-> e.scope] \in list.views

(***************************************************************************)
(* The users a simulation speaks for.  One named like a role is led to by  *)
(* the rows of others and has what its name has: binding it changes every  *)
(* holder of the role, and it may hold a role without a binding.           *)
(***************************************************************************)
SpokenFor(change, u) ==
  IF change.type = "bind_user" THEN u = change.user \/ change.user \notin Role ELSE u \notin Role

(***************************************************************************)
(* What a simulation says comes true: if the change it was asked about is  *)
(* the next write, the effective permissions and data views of every user  *)
(* it speaks for change as it said, and those of one it does not list do   *)
(* not change.                                                             *)
(***************************************************************************)
SimulationForetells ==
  [][Answered("simulate") /\ version = req.at /\ version' = version + 1 /\ write' = req.change
       /\ req.answer.kind = "diffs" =>
     \A u \in User : SpokenFor(req.change, u) =>
       LET real == Diff(ComputeResult(Rules(bind, inherit, grants), dps, u),
                        ComputeResult(Rules(bind', inherit', grants'), dps', u))
       IN  real = IF u \in DOMAIN req.answer.diffs THEN req.answer.diffs[u] ELSE NoDiff]_vars

(***************************************************************************)
(* A simulated binding answers for the affected users, as simulate.go:39   *)
(* has it: it makes no difference to a user the answer leaves out.  This   *)
(* is false where the user to be bound is named like a role.               *)
(***************************************************************************)
SimulationListsAll ==
  Answered("simulate") /\ req.change.type = "bind_user" /\ req.answer.kind = "diffs" =>
    \A u \in User \ DOMAIN req.answer.diffs :
      ComputeResult(req.rules \cup Synthetic(req.change), req.dps, u) = ComputeResult(req.rules, req.dps, u)

(***************************************************************************)
(* The picture of a role leaves out nothing its users may do through it:   *)
(* whoever holds this role and no other has no permission that is not      *)
(* among its capabilities.  A binding of a user named like the role or one *)
(* of its ancestors is an edge to the engine and not to the picture, so    *)
(* this is about roles without such a binding.                             *)
(***************************************************************************)
GraphShowsAll ==
  Answered("graph") /\ version = req.at
    /\ (\A e \in bind : e[1] \notin {req.role} \cup RoleAncestors(inherit, req.role)) =>
    \A u \in req.answer.boundUsers \ Role :
      {e[2] : e \in {e \in bind : e[1] = u}} = {req.role} =>
        ComputePerms(Rules(bind, inherit, grants), u) \subseteq req.answer.capabilities
=============================================================================
