# A verification development for Sydom

Sydom is an authorization platform. A **control plane** (Go, PostgreSQL, Redis)
keeps for every application its roles, permissions, bindings and data policies.
Every write is projected to Casbin rules and published as a numbered *delta*.
A **sidecar** next to each application pulls a snapshot, follows the deltas, and
answers permission requests from a local Casbin engine and a table of data
policies; an **SDK** in the application turns the answers into SQL conditions and
HTTP decisions. **Administrators** reach the control plane through a web console, a
REST gateway and gRPC, and may log in through their tenant's identity provider.
This directory holds TLA+ models of these parts, the TLC configurations that
check them, and proofs that TLAPS checks.

Paths below are relative to `internal/` unless they start with `docs/` or `sdk/`.

## 1. Inventory

| component | state | operations | hard behaviour | what makes it correct |
|---|---|---|---|---|
| write engine `controlplane/policy`, `store`, `projection` | tables role, permission, role_permission, role_inheritance, user_role_binding, data_policy; casbin_rule; current_version; audit log; outbox | about twenty writes, each one transaction: lock the version row, mutate, project, diff, bump, insert audit and outbox row | concurrent writers, rollback half-way, writes without effect, cascades | the rules are the projection of the tables; a version per change and exactly one delta per version; no inheritance cycle |
| policy as code `controlplane/policy/policy_as_code.go`, `iac` | reads and writes the same tables | export, dry run, import | compares before the lock, applies under it; three sources share the tables | what is not governed stays; what is governed converges; no user loses a role; no import is refused over what it releases itself |
| outbox relay `controlplane/outbox`, `leader` | policy_outbox, advisory lock | insert, campaign, ping, drain a batch, publish, mark | crash between publish and mark, two leaders at once, failed publish, undecodable rows | nothing is lost or overtaken; everything gets out |
| broadcast `controlplane/broadcast` | Redis channel | publish, receive | at most once delivery | none: the receivers must cope |
| sync server `controlplane/policysync` | hub of streams with buffers | PullSnapshot, Subscribe, Dispatch, heartbeat | reads in several statements, slow streams, dropped events | what it tells a sidecar allows it to catch up |
| sync client `sidecar/syncclient` | version, connection state, freshness clock | bootstrap, resync, apply delta, heartbeat, reconnect, forward a report | gaps, duplicates, failed applies, restarts, heartbeats that are out of date | enforced rules are the rules of the version; it converges; it is not misled for long |
| kernel `sidecar/kernel` | Casbin model, decision cache, readiness | Enforce, BatchEnforce, ApplySnapshot, ApplyDelta | requests run between the calls of an apply; cache stores race with the clear | a rebuild only denies more; no stale decision |
| data table `sidecar/dataperm/table.go` | data policies by resource | ApplySnapshot, ApplyChange, Lookup | changes name an id, the table is keyed by resource | no restriction is missing, none is left over |
| data filter `sidecar/dataperm` | none | select and merge conditions, resolve variables, render SQL | three-valued evaluation, deny over allow, policies that do not parse, missing attributes | the rendered condition means the merged policy |
| authorizer `sidecar/authz` | none of its own; reads kernel, table and clock | Check, BatchCheck, FilterSQL, ReportPermissions | stale or unready sidecar, snapshot under way | refuses when it does not know |
| SDK `sdk/go` | none | client calls, query fragments for two dialects, HTTP middleware | placeholder numbers, failed calls, fail-open option | the query shows the rows the policies give; nothing opens without a decision |
| administrator authorization `controlplane/adminauthz`, `mgmt/authz.go` | operators, memberships, roles, grants, bindings, version; an in-memory enforcer per replica | authorize, reload, status check; writes of all these, of applications, tenants and plans | the enforcers against writes of other replicas; counts before inserts | a revoked right is gone at once; tenants stay apart; quotas hold |
| management front ends `controlplane/console`, `restgw`, `mgmt/server.go` | sessions, flash, confirmation page | about 100 handlers: session, token, confirmation, decoding, authorization, status check, call | each handler repeats the order; ids come from path and body; sessions end under a request | nothing is called that was not authorized first, for the same object |
| single sign-on `oidc`, `controlplane/ssologin`, `console/oidc.go`, `mgmt/sso.go` | login states, tenant_idp, domains, operators | start, callback, token checks, match, provision; configure and delete a provider | replayed callbacks, racing first logins, providers that change under a login | one login one session, of a member, vouched for by a provider the tenant configured |
| effective permissions `controlplane/effperm`, `mgmt/role_graph.go` | none | effective permissions, explanation, simulation, role graph | separate reads under concurrent writes; inheritance | the answers agree with the engine and with what then happens |
| templates and presets, request authentication, process wiring, infrastructure | bundles, secrets, keys | capture, sign, verify, encrypt, migrate, probe | time windows, shutdown | see section 6 |

How they interact: the front ends authorize each request and call the management
service, which calls the write engine; the write engine writes `policy_outbox` in
its own transaction; the relay of the leading replica reads it and publishes on
Redis; every replica's hub receives and dispatches to its streams; each stream
feeds one sync client, which applies to kernel and data table; the authorizer
reads both and answers the SDK. Nothing flows back but permission reports, which
are an ordinary write.

`PROJECT.json` lists every component with its status, and the main hazards of the
code line by line with the properties that would catch them going wrong; section
5 adds those that the code accepts and no property forbids.

## 2. Modules

| module | models | state | role |
|---|---|---|---|
| `PolicyLog` | what the control plane promises: a version, the rules, the data policies and the log of deltas | `version, rules, data, log` | abstract specification |
| `PolicyManager` | the write engine: every write of `manager.go` and `bulk.go` with the SQL of `store` and `projection` | `db` (the committed tables), `staged[w]` (a writer's transaction), `phase[w]`, `dataSeq` | implements `PolicyLog` |
| `PolicyImport` | import of a policy document against all other writers | `db`, `pending`, `bumped`, `writes` | |
| `OutboxRelay` | outbox rows, leader election, relay | `outbox, sent, lock, leading, batch, step` | |
| `PolicySync` | broadcast, hub, one stream, one sync client and what its engine holds | `PolicyLog`'s variables, `redis`, `stream, lastVer, events, overflow, ticks`, `wire`, `pc, snap, engine` | composes an instance of `PolicyLog` with server and client |
| `DataTable` | data policy writes, their changes and the sidecar's table | `rows, seq, log` (the database), `byRes, version, applied, ready` (the engine), `snap` | |
| `Kernel` | engine calls, decision cache, requests | `rules, cache, job, pc, req, res` | |
| `DataFilter` | conditions, merge, rendering, query fragments, and what SQL makes of them | none: pure operators | used by `DataPlane` |
| `DataPlane` | a sidecar that renews its policy, the authorizer, and the SDK in the application | `g, table, ready, stale, job`, `req` | composes `DataFilter` with sync client, authorizer and SDK |
| `AdminRules` | the rule table of the management RPCs and the matcher of the admin enforcer | none | used by `AdminAuthz` and `FrontEnd` |
| `AdminAuthz` | replicas that authorize and serve management requests | `db` (the admin tables), `lock`, `enforcer[r]`, `req[r]` | |
| `FrontEnd` | every handler of console, REST gateway and gRPC, as its sequence of stages | none | used by `Console` |
| `Console` | a request going through its stages, sessions, confirmation, flash | `sessions, used, cookie, enabled, req` | |
| `SingleSignOn` | logins through identity providers, and their administration | `idp, domains, operators, members, states, callbacks, admins, opened` | |
| `EffPerm` | effective permissions, explanations, simulations, role graphs | `bind, inherit, grants, dps`, `req` | |
| `..._proofs` | theorems about `PolicyManager`, `PolicyImport`, `OutboxRelay` and `DataTable`, `PolicySync`, `Kernel`, `AdminAuthz`, `SingleSignOn` and `Console`, and `EffPerm` | | see section 4 |
| `MC...` | constants for TLC | | |

Two of the proof modules extend two components each, so `Console` and `DataTable`
call their specifications `WebSpec` and `TableSpec` (and `WebInit`, `TableNext`, ...).

Correspondence with the code, module by module:

* **PolicyManager.** A transaction is three steps: `LockAppVersion` (SELECT ...
  FOR UPDATE), one operation (its guard is the code's checks; its effect is the
  staged tables, the re-projection, the version bump, audit and outbox row of
  `runVersionedWrite`), then `Commit` or `Rollback`. A write that changes
  neither rules nor data policies stages the tables without a version, as the
  early return at `manager.go:100` does. Batch writes are operations over sets.
  The `setBy` field of a permission is a ghost: who set the row last.
* **PolicyLog.** One action: some delta is appended, the rules and data
  policies change by exactly that delta.
* **PolicyImport.** `BeginImport` is everything before the lock,
  `CommitImport`/`RollbackImport` the transaction. The plan is a function from
  permission codes, role keys and data policy identities to what happens to
  them; the phases of `applyImportPlan` become one operator per table. A document
  may hold a top-level policy about a role (`stray`) and name a permission code of a
  role twice (`repeats`), as `Validate` accepts both. Data policies of the same
  content and origin are not told apart.
* **OutboxRelay.** A row is `open` until its transaction ends. `SessionDies`
  takes the advisory lock from a replica that does not know; `PingFails` is when
  it finds out. `drainOnce` is taken apart into select, publish, mark.
* **PolicySync.** `Dispatch` is non-blocking as in `hub.go`: a full buffer drops
  the event and sets `overflow`. `SubscribeRead` and `SubscribeRegister` are two
  steps, because the handler reads the version before it registers.
  `PullVersion` and `PullRules` are two steps, because the transaction is READ
  COMMITTED. Two ghosts: `horizon` is the version at which the rules of the last
  snapshot were really read, `misled` counts the heartbeats that renewed the
  freshness clock of a client that had fallen behind.
* **DataTable.** The change of a removal carries no resource, as
  `manager.go:465` builds it; `byRes` is the map of `table.go` and the search is
  in the bucket of the change's resource only. The engine routes the changes of a
  delta to the table one by one (`RouteChange`; requests read the table in between) and
  stores the version behind the last (`StoreVersion`). `DeltaFails` and `SnapshotFails`
  are the error returns of `engine.go`: the engine is not ready until the snapshot the
  client then pulls has been applied. Rows a query returns without ORDER BY come in any
  order (`Orders`). Ghosts: `hist` keeps the rows of every version, `horizon` is the
  version at which the rows of the last snapshot were really read.
* **Kernel.** One step per Casbin call of an apply, one for each of probe,
  evaluate and store of a request. `overlap` is a ghost: a request was between
  evaluating and storing when the cache was cleared. Users and roles share one name
  space, as in the code: a request of a user named like a role matches that role's
  rules without a binding, since Casbin's `g(x, x)` is true.
* **DataFilter.** A condition is a tree; a rendered fragment is a tree whose
  operands are numbered holes, with the sequence of their arguments, so that
  `ToDollar` and `AndWhere` of the SDK can number them wrongly. `Eval` is SQL's
  three-valued evaluation of a row and is marked external. `ToFloat` is
  what `structpb` does to numbers.
* **DataPlane.** A request is guard, lookup of the table, roles of the user,
  rendering, transport, query: one step each where the code takes a lock of its
  own. A snapshot is applied in the calls of `engine.go:96-122`. The
  clock is the Boolean `stale`: `TimePasses` may set it at any moment, each sync
  resets it. Two ghosts of a request: `overlapped`, a snapshot was being applied
  while it was under way; `fit`, the sidecar was ready and not stale when it came.
* **AdminRules, AdminAuthz.** `RuleTable` is `ruleTable` of `mgmt/authz.go`. A
  request is authenticated, authorized (version read, reload of p and then g rows,
  decision), checked against the application's status, and served; handlers with
  a quota lock the tenant's row, count, and insert. The matcher's `g` is reflexive
  (`Leads`), and a principal may be any name, that of a role too. `lostGrants`, `lostBindings`
  and `lostApps` of a request are ghosts: what was taken away since it began.
* **FrontEnd, Console.** A handler is the sequence of its stages. What it passes to
  `AuthorizeRule` and what it calls are two mentions in the code and two fields
  here; the query of `tenantOfApp` is a stage of its own (`lookup`, or `peek` where
  its failure is passed over). `Console` executes the stages; each is an action, so
  sessions end and applications are disabled in between. The confirmed field of a
  form is an input, as `confirm.go:71` takes it from any POST, and so is the spelling
  of the status that `setAppStatus` is sent (`StatusForms`). `SetFlash` and `TakeFlash` are a get and a
  set, as in `session.go`.
* **SingleSignOn.** A callback is: take the state, resolve the provider, exchange
  and verify, match or provision. Tenants configure any issuer and any client, the
  same ones too. A token endpoint may answer with any token: of any issuer, for any
  client and login, signed or not. Configuring a provider is read, upsert under the
  row lock, commit. `configured` is a ghost: what the row of a tenant ever held.
* **EffPerm.** A request reads rules and data policies in separate steps with
  writes in between, then computes. `ImplicitRoles` is the role manager's
  closure, `RoleAncestors` the recursive query of `role_graph.go`: two definitions
  of one idea in the code, and two here. A user may be named like a role: to the
  engine its binding is then an edge of the role graph (`Subjects`). Several permissions
  may stand for one pair of resource and action, as only their code is unique.

## 3. Runs

| run | bounds | distinct states | shows |
|---|---|---|---|
| `policy_manager` | 2 writers, 2 roles, 2 permissions, 1 user whose name is a role's code, 1 data policy, 2 versions | 0.8 M | tables consistent in every interleaving; refinement of `PolicyLog` |
| `policy_import` | 1 key (3 role codes), 1 permission, 2 objects, 1 scope, 2 bodies, 4 transactions | 0.5 M | imports converge, leave the rest alone and are not refused without a cause |
| `outbox_relay` | 2 replicas, 2 applications, 3 rows, batch of 2, row 2 undecodable, 2 failures | 52 k | order, no loss, everything gets out |
| `policy_sync` | 2 rules, 2 versions, buffers of 1, heartbeat reconciles every 2nd, 1 failure | 0.7 M | rules of the version, convergence, and how long a lagging sidecar can take itself for fresh |
| `data_table` | 2 policies, 2 resources, 2 bodies, 4 versions, any number of failing applies | 1.2 M | no restriction is missing, not even between two changes of a delta or after an apply that failed |
| `kernel` | 2 requests, 3 applies, 2 users, one of them named like the role, 1 role, 1 object | 1.0 M | what requests see during an apply |
| `admin_authz` | 2 replicas, 2 tenants, 2 applications, 3 operators, one of them named like the platform role, 2 plans, 2 grants and 1 binding made by hand, 3 versions | 1.4 M | revocation, tenant isolation, quotas |
| `front_ends` | every handler, 2 applications, 1 session id, the status of an application spelled in three ways | 89 k | the order of the stages, path over body, confirmation |
| `single_sign_on` | 2 tenants, 2 issuers, 2 clients, 2 logins, 2 callbacks, 1 email, 1 operator beside it, 1 administrator at work, 1 change of operators | 0.9 M | one login one session, of the right person |
| `data_plane` | 6 policies of which up to 3 apply, 1 user with or without a role, 8 rows with nulls, 4 sets of attributes, 2 queries, 2 snapshots | 1.5 M | rows as the policies say; closed when in doubt |
| `effective_permissions` | 2 users, one of them named like a role, 2 roles, 2 permissions of one pair, 2 data policies (1 does not parse), every initial content, 1 write | 2.4 M | read models agree with the engine |

What the properties say is written above each of them. Those that take most to
see: `SettledEngine` and `BetweenVersions` bound the damage of a torn snapshot;
`MisledBriefly` bounds how many heartbeats a sidecar that lags can take as a sign
of being current (one reconciliation round, `ReconcileEvery`), which is what the
staleness guard rests on; `NothingStale` says that rights which were gone before
a request began authorize nothing in it; `RowsAsPolicies` compares the rows a
query returns, through merge, rendering, transport, renumbering and SQL, with
the policies evaluated one by one; `SimulationForetells` compares a simulation
with the write that comes next; `FailsClosed` says that a sidecar that was not
ready or was stale when a request came opens nothing for it, and that a policy that
does not parse or a missing variable shows no row.

`table_current` shows a disagreement between the code and its comment
(`findings` quotes it): at `sidecar/dataperm/table.go:91` a removed data policy stays in
the table, since the removal names no resource, and one that moved to another
resource stays in its old bucket too, until the next snapshot.

Six more configurations are kept for a reader and are no runs of the project: each
asks for one statement of a comment or a design that does not hold, and TLC
answers with the behaviour that section 5 describes.

| configuration | module | statement | TLC finds it false in |
|---|---|---|---|
| `Kernel_rebuild.cfg` | `Kernel` | `RebuildNeverPermits` | 10 s |
| `EffPerm_simulation.cfg` | `MCEffPerm` | `SimulationListsAll` | 15 s |
| `Console_reads.cfg` | `MCConsole` | `ReadsAuthorised` | 5 s |
| `Console_disable.cfg` | `MCConsole` | `ConfirmedDisable` | 10 s |
| `PolicyImport_converges.cfg` | `MCPolicyImport` | `AlwaysConverged` | 2 s |
| `PolicyManager_delete.cfg` | `MCPolicyManager` | `DeletedRoleForgotten` | 2 s |

Bounds. Two versions are enough for every lost update, gap, duplicate and torn
read, which need one write between two reads; a second rule lets a delta touch
one rule and leave another. Four import transactions allow a row of each source
to exist before an import meets it. Two replicas give two leaders, or two
counts before an insert; three rows with a batch of two give a second batch.
Failures are bounded (`MaxFaults`), which is also what "failures stop" means for
liveness. Buffers of one reach overflow soonest. Two logins and two callbacks are
what a replay or a race takes. One request at a time suffices in `Console` and
`DataPlane`: requests share no state but what the other actions change anyway.
A cycle through a third role is outside the run's two roles: `AcyclicTheorem`
covers it for any number. Symmetry is used for interchangeable ids only, and
in no run with a liveness property.

Deadlock is checked in `policy_manager`, `policy_sync`, `data_table`, `admin_authz`,
`data_plane` and `effective_permissions`. In the other modules behaviours end when a bound is
used up and nothing is left but idle polling.

Fairness. `PolicySync`: weak fairness of the client's own loop and of the
handler's first steps (goroutines that run); strong fairness of the heartbeat,
because the handler's `select` picks pseudo-randomly among ready cases and so
cannot starve the ticker. Nothing is assumed of Redis: every message may be
lost, and `Converges` still holds because of the heartbeat. `OutboxRelay`: weak
fairness of each relay loop, of each failing ping, and of *some* replica taking
a free lock (each polls it on a ticker).

## 4. Proofs

Every theorem is about the specification a run checks, and holds for all values
of the constants that satisfy the module's ASSUMEs, which TLC evaluates in every
run. Each component has one inductive invariant, `IInv` (`TableInv` for `DataTable`,
`WebInv` for `Console`), proved in `Invariance` (`TableInvariance`, `WebInvariance`)
action by action; what follows from it is a theorem of its own. The
invariants were checked with TLC on the constants of the runs as well.

| module | theorems (property) | the inductive invariant, beyond types, and why it is needed |
|---|---|---|
| `PolicyManager_proofs` | `TypeCorrect`, `ProjectionTheorem`, `OneDeltaTheorem`, `AcyclicTheorem` (the invariants of the run), `Refinement` (`ImplementsPolicyLog`), `ManualTheorem` (`ManualRowsKept`) | references resolve; committed and staged tables are consistent, the staged ones at most one delta ahead, and one writer is past the lock: a commit copies staged tables, so what is claimed of the one must hold of the other, and the lock keeps a commit from making another's staged tables stale |
| `PolicyImport_proofs` | `BindingsTheorem`, `UntouchedTheorem`, `PublishedTheorem`, `ConvergedTheorem`, `RefusedTheorem` (`RefusedForCause`) | references resolve, and no import owns the role of a template; an import compares again under the lock, so nothing need be known of its first comparison |
| `OutboxRelay_proofs` | `MarkedTheorem`, `InOrderTheorem` | an open row is the last of its application; a relay's batch holds committed rows and has no gap whose rows were not sent: that is what makes the first row of a batch the next of its application, with any number of relays |
| the same, `DataTable` | `NotMissingTheorem` (`NoPolicyMissing`) | the log explains the history: a row that no delta names between two versions is the same in both, or gone, a change says what its row is in its version, and a removed id is not handed out again. A settled table holds the rows of its version, with the changes made so far; one that lags behind its snapshot holds each row of the horizon unless a change of it is still to come |
| `PolicySync_proofs` | `SettledTheorem`, `BetweenTheorem`, `ForwardTheorem`, `MisledTheorem` | each rule stands in the engine as at the engine's version, or as at the horizon while that is ahead; a delta moves rules from the second kind to the first. For `MisledBriefly` a second invariant, `MInv`, counts the heartbeats on the wire and the ticks left before the version is read again |
| `Kernel_proofs` | `RebuildTheorem`, `FreshTheorem`, `AppliedTheorem` | how far the rules have come at each stage of an apply; what is cached or about to be stored is what the rules say. `AppliedTheorem` (an apply ends with exactly its target) is why `PolicySync` may apply in one step |
| `AdminAuthz_proofs` | `ReloadedTheorem`, `NothingStaleTheorem`, `QuotaTheorem`, `IsolationTheorem` | no version is seen before it is committed, p rows of a reload are those of its version or lost since; who counts holds the tenant's lock and the count is still true; an operator nobody bound by hand has bindings only as administrator of a tenant it owns or administers, in the domain of that tenant |
| `SingleSignOn_proofs` | `OneSessionTheorem`, `MemberTheorem`, `VouchedTheorem`, `ProvisionedTheorem` | a login is in Redis, in one callback, or spent; the provider that a tenant has and the one a callback uses were configured for the tenant, and a verified token comes from one that was; emails are unique |
| the same, `Console` | `AuthorisedTheorem` (`AuthorisedFirst`), `CheckedTheorem` (`PolicyWritesChecked`), `AskedTheorem` (`AskedBefore`), `PathTheorem` (`ActsOnPath`) | what is left of a request's stages, given what it has been authorized, checked and asked for, calls nothing else; the ids it holds are the path's wherever a path names them |
| `EffPerm_proofs` | `ExplanationTheorem`, `GraphTheorem`, `SimulationTheorem` | what a request read is well formed, and is what the tables say as long as no write came since |

The arguments that are not routine:

* *Acyclicity.* Adding an edge whose parent does not reach the child closes no
  cycle (`CheckNoCycleSound`), stated with sets closed under the edges, so that
  no induction over paths is needed. `EffPerm_proofs` uses closed sets in the same
  way to compare `ImplicitRoles` before and after a write, and with `RoleAncestors`.
* *A torn snapshot* (`BetweenVersions`). Applying the delta of a version that the
  snapshot's rules already contain adds what is there and removes what is not, so
  it never undoes a later delta.
* *Misleading heartbeats* (`MisledBriefly`). Each heartbeat a lagging client takes
  for fresh was put on the wire before the server next read the version; the
  invariant is a sum of what was taken, what is on the wire and what the ticker
  still allows, and every step keeps it within the allowance.
* *Tenant isolation* (`MembersStayInTenant`) is about the whole rule table: for an
  operator that nobody bound by hand and that is not named like a role, the binding that an allowed request rests
  on is in the domain of a tenant, and the matcher compares that domain with the
  request's, whatever domain the grant names. So no grant by hand, not even one
  of domain `*`, opens another tenant. What other operators are called does not
  matter.
* *Simulation* (`SimulationForetells`). Binding a user that is not named like a role
  changes nothing for others, because no grouping rule leads to it; a new permission changes nothing for
  who does not hold the role, nor where the role is denied it. So the users a
  simulation leaves out are those for whom nothing changes. `SpokenFor` names the
  users this is true of: a user named like a role is spoken for when it is itself
  the one to be bound.
* *Front ends.* What a handler must be is a predicate on its sequence of stages
  (`Whole`, `Part` where a confirmation precedes): every call follows its own
  authorization, every policy write its status check. Lemmas show it of each
  building block (`Ask`, `DoWrite`, `Confirm`, ...) and that concatenation keeps it;
  `ConsoleHandled`, `RestHandled` and `GrpcHandled` then go through the tables of
  handlers, one fact a route. So a new handler made of the same blocks costs one
  line, and one that calls a method other than the one it authorizes has no proof.
* *The data table* (`NoPolicyMissing`). A change touches entries of its own id only,
  so the entries of other ids survive it, also when the bucket it looks in is not
  the one its old entry is in. Deltas up to the horizon are replayed over rows that
  contain them already: an addition or update puts the row of its own version
  there, and if that is not the horizon's then a later delta of the replay names the
  id again. What `table_current` shows, entries left behind, is the other direction
  and is false.
* *Convergence of imports* (`Converged`). Each table is shown to be, after the
  import, what the plan of the document says; comparing again then gives the
  empty plan for permissions and top-level policies, and for each role that is
  `Settled`: without a repeated code and without a top-level policy about it. What the
  rest of the document holds does not disturb them. Finite documents (`ImportAssumption`) are needed, as the data
  scopes are matched by counting.

Assumptions worth a look: in `AdminAuthz`, tenant ids and application ids are
different domains (`t:` is put before a tenant's id, `adminauthz/enforcer.go:116`), and
`none` and `*` are no ids. No module assumes that users or operators are named
differently from roles; where a property excepts a name that is a role's code, its
formula says so. In `PolicyImport`, keys, scopes and subjects are finite and the marker of an absent
row is no value of a column. The theorems about `Console` and `DataTable` use no assumption on
their constants.

Only model-checked:

* `EventuallyPublished` and `Converges`: liveness under fairness is out of the prover's
  reach.
* `RowsAsPolicies` and `FailsClosed` of `DataPlane`: the operators of `DataFilter` are
  recursive on condition trees, about which nothing can be proved by induction here.

## 5. Observations without a run

Where the code does something else than a comment or a design says, or that a
reader might not expect. The models contain each of these behaviours, unless it says
otherwise.

Sync and decisions

* `policysync/server.go:72`: version, rules and data policies of a snapshot are
  read by separate statements of a READ COMMITTED transaction, so the rules may
  be newer than the version, although line 56 says they are consistent.
  `SettledEngine` and `BetweenVersions` show how far that matters: deltas up to the
  horizon repair it.
* `kernel/engine.go:148`: a request evaluated between two changes of one delta may
  get an answer neither version gives (a deny removed, the allow of the same delta
  still there), although line 243 says every row is the right answer of some
  recent version.
* `kernel/engine.go:96-119`: while a snapshot is rebuilt the role links are cleared and
  the data policies are still there, so a filter may miss a deny given to a role,
  although lines 84-85 speak of transient denials only. `RowsAsPolicies` excludes
  filters that overlap a rebuild.
* `kernel/engine.go:106-117`: decisions are only ever denied more in a rebuild
  (`RebuildOnlyDenies`), but for a user whose id is the code of a role: it has the
  role's allow once the p rules are loaded, and a deny it inherits only with the g
  rules (`RebuildNeverPermits`).
* The stream registers after the version was read (`policysync/server.go:102`),
  although the comment at line 107 says the opposite. A delta in between is
  missed until a heartbeat reconciles; `Converges` covers that it then heals.
* As many undecodable rows as a batch holds (100), in front of the outbox, fill
  every batch and stop the relay; `EventuallyPublished` is about fewer than that
  (`outbox/relay.go:42`).
* A decision evaluated before the cache was cleared may be stored after it and
  stay until it is evicted; `CacheIsFresh` excludes exactly that window, which
  `engine.go:247` acknowledges.
* Numbers travel as float64: an attribute or argument beyond 2^53 is rounded, and a
  row condition may then compare with a neighbour's id.

Policy writes

* Data policies of a deleted role stay (`store.go:98`) and apply to a later role of
  the same code, although line 97 and `manager.go:367` speak of all its references; an
  import that deletes a role does remove them (`DeletedRoleForgotten`). Editing a reported permission leaves it `auto` (`store.go:118`), so
  the next report overwrites the edit.
* `policy_as_code.go:400`: an import clears every data policy of a role it governs,
  also those an operator added, although PC-3 says that manual rows are never
  touched (`docs/superpowers/specs/2026-06-28-sydom-m4-1-policy-as-code-design.md:126`).
* Importing an application's own export grants a denied permission as an allow,
  since documents carry no effect of grants (`policy_as_code.go:516`).
* A top-level data policy of subject type `role` passes validation and is
  inserted again by every import, as the comparison only looks at other
  subjects (`policy_as_code.go:525`); and a role that names a permission code twice is
  updated by every import, as lists are compared (`iac/diff.go:365`). The design has
  every document converge (lines 135-136 of the file above; `AlwaysConverged`).
* User ids and role codes are not kept apart: `BindUserRole` of a user named like a
  role is an inheritance for everyone who holds that role.
* `tenanttemplate/bundle.go:139` (not modelled): a capture reads the codes of a role's
  grants without their effect, so a denied permission is applied as an allow; it
  leaves out inheritance; and it reads in several statements, so that a permission
  created in between may be granted but not declared, which `ApplyTemplate` refuses.

Administrators

* `adminauthz/enforcer.go:90`: a starting replica loads the rows and then the version;
  a write in between leaves it with old rows under the new version until the next
  write, although line 70 promises consistent replicas. `ReloadedIsCurrent` and
  `NothingStale` are therefore about replicas after their first reload. A reload reads
  p and g rows in two statements and may mix two versions until the next request.
* The last super-admin can be unbound. Unbinding a role leaves the membership
  (`docs/superpowers/specs/2026-06-13-sydom-m1-2-self-service-accounts-design.md:61`). A
  member provisioned by single sign-on is never promoted by an invitation, and
  provisioning counts against no quota. `CreateAdminRole` neither bumps the version nor
  audits. A disabled operator's console session goes on working.
* Principals and role codes are not kept apart either: a principal that is spelled
  like a role code matches the grants of that role without a binding, as `g` is
  reflexive (`adminauthz/enforcer.go:31`), and none of the writes of operators excludes
  such a name (`accounts.go:25` and `:161`, `admin_ops.go:217`). `MembersStayInTenant` is
  therefore about the others.
* `console/routes_tenant_templates.go:64` and `:186` query the application before
  anything is authorized, and the answers for a missing one and for another tenant's
  differ, which `handler.go:62-63` and `routes_apps.go:70` mean to prevent
  (`ReadsAuthorised`).
* `console/routes_apps.go:89` compares the posted text of a status with `2`, while the
  decoder reads a number, from the query too (`forms.go:31`): the other spellings of 2
  disable an application without the confirmation step (`ConfirmedDisable`).
* A tenant may invite any operator, one of another tenant too (`accounts.go:187`), and
  its own provider then opens that operator's sessions. `SessionOfMember` allows it.
* A flash message is read, changed and written back (`console/session.go`), so a request
  that is under way can revive a session that was just logged out, with the rest of
  its time to live.
* Two concurrent `ConfigureTenantIdp`, one with an empty secret, may write the old
  secret back (`mgmt/sso.go:34`); `DeleteTenantIdp` racing one may leave a domain without a
  provider.
* The HMAC of a gRPC request covers application, time and method but not the
  message; that of a REST request covers target and body. There is no nonce.

Read models

* `effperm/simulate.go:75` evaluates only the user to be bound, although line 39 speaks
  of the affected users: where that user is named like a role, the holders of the
  role are affected and not listed (`SimulationListsAll`). The picture of a role
  (`mgmt/role_graph.go:185`) does not show such a binding either; `GraphShowsAll` is
  about roles without one.
* Rules and data policies are read by separate statements, so an explanation can
  describe a state that never was; `ExplanationAgrees` says it is then still
  consistent in itself. The capabilities of the role graph leave out denies
  (`mgmt/role_graph.go:61`). Its recursive query ends because the role graph has no cycle,
  which is `AcyclicTheorem`.
* `PreviewDataFilter` answers Internal for a condition that does not parse, where
  `docs/superpowers/specs/2026-07-07-sydom-m4-5-developer-sandbox-credentials-design.md:77`
  says InvalidArgument.

Processes

* `controlplane/app/run.go` stops gracefully without a time limit, and an open
  `Subscribe` stream keeps it waiting, which
  `docs/superpowers/specs/2026-06-05-sydom-controlplane-cmd-design.md:98` does not foresee (not modelled).

## 6. Not modelled

* Encodings (protobuf, YAML, JSON), names and descriptions, the text of pages, SQL
  list queries and paging, back-off lengths: no property tells them apart.
* The HMAC of requests and its time window, signatures, encryption at rest, TLS:
  cryptography; in the models a request or a token is authentic or not.
* LIKE operators and array attributes of data conditions: strings character by
  character.
* Loading presets and capturing bundles: reads without state; applying them is
  `ApplyTemplate` of `PolicyManager`. Storing tenant templates: one table, one row a name.
* Start-up, shutdown, configuration, migrations, probes, metrics: I/O and wiring.
* Messages and getters generated from the protobuf files (`gen/`); the generated
  service handlers are part of `FrontEnd`.

## 7. Plan

The modules planned are written and their main properties proved. What remains
worth doing:

1. `PolicySync` and `DataTable` on top of `Kernel`: `AppliedTheorem` is the link; a
   refinement would make it formal.
2. `DataFilter` without recursive operators, as far as a condition of bounded depth
   allows, to bring `FailsClosed` of `DataPlane` within the prover's reach.
