------------------------------- MODULE Kernel -------------------------------
(***************************************************************************)
(* The sidecar's engine (internal/sidecar/kernel): a Casbin enforcer with  *)
(* a decision cache.  Requests evaluate the rules under a read lock, one   *)
(* Casbin call at a time; ApplySnapshot and ApplyDelta change the rules in *)
(* several calls, each under the write lock, and clear the cache at the    *)
(* end.  So a request may see any state in between, and may put a decision *)
(* into the cache that it took before the cache was cleared.               *)
(***************************************************************************)
EXTENDS Naturals, FiniteSets

CONSTANTS User,       \* user ids; nothing keeps one from being a role code
          Role,       \* role codes
          Object,     \* (object, action) pairs
          Thread,     \* concurrent requests
          None,       \* no cached decision, no request
          MaxApplies  \* bound on the number of applies explored

ASSUME KernelAssumption == MaxApplies \in Nat

VARIABLES rules,    \* the rules inside the enforcer
          cache,    \* the decision cache, request to decision
          ready,    \* Engine.ready
          job,      \* the apply that is under way
          pc,       \* pc[t]: where the request of thread t stands
          req,      \* req[t]: what it asks
          res,      \* res[t]: what the evaluation said
          overlap,  \* history: requests evaluated when the cache was cleared
          applies   \* history: number of applies

applyVars   == <<rules, ready, job, applies>>
requestVars == <<pc, req, res>>
vars == <<applyVars, cache, requestVars, overlap>>

Subject == User \cup Role
PRule   == {"p"} \X Role \X Object \X {"allow", "deny"}
GRule   == {"g"} \X Subject \X Role
Rule    == PRule \cup GRule
Request == User \X Object

IsP(r) == r[1] = "p"

(***************************************************************************)
(* The matcher and the effect of model.go: some allow and no deny among    *)
(* the p rules of the subjects that the request's subject leads to.  Every *)
(* subject leads to itself, so a user named like a role has its rules.     *)
(***************************************************************************)
LeadsTo(R, s, t) ==
  \A S \in SUBSET Subject :
    (s \in S /\ \A r \in R : ~IsP(r) /\ r[2] \in S => r[3] \in S) => t \in S

Matching(R, q) == {r \in R : IsP(r) /\ r[3] = q[2] /\ LeadsTo(R, q[1], r[2])}

Decision(R, q) ==
  /\ \E r \in Matching(R, q) : r[4] = "allow"
  /\ \A r \in Matching(R, q) : r[4] # "deny"

NoJob == [kind |-> "none", target |-> {}, todo |-> {}, stage |-> "none"]

Init ==
  /\ rules = {} /\ ready = FALSE /\ job = NoJob /\ applies = 0
  /\ cache = [q \in Request |-> None]
  /\ pc = [t \in Thread |-> "idle"]
  /\ req = [t \in Thread |-> None]
  /\ res = [t \in Thread |-> FALSE]
  /\ overlap = FALSE

-----------------------------------------------------------------------------
(* Enforce and BatchEnforce *)

(***************************************************************************)
(* Only a ready engine takes a request.  A batch checks this once and then *)
(* asks row by row.                                                        *)
(***************************************************************************)
Begin(t) ==
  /\ pc[t] = "idle"
  /\ ready
  /\ pc' = [pc EXCEPT ![t] = "row"]
  /\ UNCHANGED <<applyVars, cache, req, res, overlap>>

(***************************************************************************)
(* A decision in the cache is the answer; otherwise the rules are asked.   *)
(***************************************************************************)
Probe(t, q) ==
  /\ pc[t] = "row"
  /\ req' = [req EXCEPT ![t] = q]
  /\ pc' = [pc EXCEPT ![t] = IF cache[q] = None THEN "evaluate" ELSE "row"]
  /\ res' = [res EXCEPT ![t] = IF cache[q] = None THEN @ ELSE cache[q]]
  /\ UNCHANGED <<applyVars, cache, overlap>>

Evaluate(t) ==
  /\ pc[t] = "evaluate"
  /\ res' = [res EXCEPT ![t] = Decision(rules, req[t])]
  /\ pc' = [pc EXCEPT ![t] = "store"]
  /\ UNCHANGED <<applyVars, cache, req, overlap>>

Store(t) ==
  /\ pc[t] = "store"
  /\ cache' = [cache EXCEPT ![req[t]] = res[t]]
  /\ pc' = [pc EXCEPT ![t] = "row"]
  /\ UNCHANGED <<applyVars, req, res, overlap>>

End(t) ==
  /\ pc[t] = "row"
  /\ pc' = [pc EXCEPT ![t] = "idle"]
  /\ req' = [req EXCEPT ![t] = None]
  /\ res' = [res EXCEPT ![t] = FALSE]
  /\ UNCHANGED <<applyVars, cache, overlap>>

(***************************************************************************)
(* The bounded cache drops its oldest entry when it is full.               *)
(***************************************************************************)
Evict(q) ==
  /\ cache[q] # None
  /\ cache' = [cache EXCEPT ![q] = None]
  /\ UNCHANGED <<applyVars, requestVars, overlap>>

-----------------------------------------------------------------------------
(* ApplySnapshot and ApplyDelta; applyMu admits one at a time *)

BeginApply(kind, target, todo, stage) ==
  /\ job = NoJob
  /\ applies < MaxApplies
  /\ applies' = applies + 1
  /\ job' = [kind |-> kind, target |-> target, todo |-> todo, stage |-> stage]
  /\ UNCHANGED <<ready, cache, requestVars, overlap>>

(***************************************************************************)
(* ClearPolicy, then the p rules in one call, then the g rules in one.     *)
(***************************************************************************)
ApplySnapshot(target) ==
  /\ BeginApply("snapshot", target, {}, "p")
  /\ rules' = {}

AddRules(stage, next, part) ==
  /\ job.kind = "snapshot" /\ job.stage = stage
  /\ rules' = rules \cup part
  /\ job' = [job EXCEPT !.stage = next]
  /\ UNCHANGED <<ready, applies, cache, requestVars, overlap>>

(* Mutant: the deny rules are not loaded. *)
AddAllowPolicies == AddRules("p", "g", {r \in job.target : IsP(r) /\ r[4] = "allow"})

AddPolicies == AddRules("p", "g", {r \in job.target : IsP(r)})

AddGroupingPolicies == AddRules("g", "invalidate", {r \in job.target : ~IsP(r)})

(***************************************************************************)
(* A delta needs an engine with a version; its changes are made one call   *)
(* each, the added rules before the removed ones, otherwise in any order   *)
(* (projection.Diff ranges over maps).                                     *)
(***************************************************************************)
ApplyDelta(target) ==
  /\ ready
  /\ BeginApply("delta", target, (target \ rules) \cup (rules \ target), "change")
  /\ UNCHANGED rules

ApplyPolicyChange(r) ==
  /\ job.kind = "delta" /\ job.stage = "change" /\ r \in job.todo
  /\ r \in job.target \/ job.todo \cap job.target = {}
  /\ rules' = IF r \in job.target THEN rules \cup {r} ELSE rules \ {r}
  /\ job' = [job EXCEPT !.todo = @ \ {r}]
  /\ UNCHANGED <<ready, applies, cache, requestVars, overlap>>

(***************************************************************************)
(* Any Casbin call may fail: the engine refuses requests from then on.     *)
(***************************************************************************)
ApplyFails ==
  /\ job # NoJob
  /\ ready' = FALSE
  /\ job' = NoJob
  /\ UNCHANGED <<rules, applies, cache, requestVars, overlap>>

(* Mutant: the cache keeps its decisions. *)
KeepCache ==
  /\ job # NoJob
  /\ job.stage = "invalidate" \/ (job.stage = "change" /\ job.todo = {})
  /\ ready' = (job.kind = "snapshot" \/ ready)
  /\ overlap' = (\E t \in Thread : pc[t] = "store")
  /\ job' = NoJob
  /\ UNCHANGED <<rules, applies, cache, requestVars>>

InvalidateCache ==
  /\ job # NoJob
  /\ job.stage = "invalidate" \/ (job.stage = "change" /\ job.todo = {})
  /\ cache' = [q \in Request |-> None]
  /\ ready' = (job.kind = "snapshot" \/ ready)
  /\ overlap' = (\E t \in Thread : pc[t] = "store")
  /\ job' = NoJob
  /\ UNCHANGED <<rules, applies, requestVars>>

-----------------------------------------------------------------------------
Next ==
  \/ \E t \in Thread :
       \/ Begin(t) \/ Evaluate(t) \/ Store(t) \/ End(t)
       \/ \E q \in Request : Probe(t, q)
  \/ \E q \in Request : Evict(q)
  \/ \E target \in SUBSET Rule : ApplySnapshot(target) \/ ApplyDelta(target)
  \/ AddPolicies \/ AddGroupingPolicies
  \/ \E r \in Rule : ApplyPolicyChange(r)
  \/ ApplyFails \/ InvalidateCache

Spec == Init /\ [][Next]_vars

-----------------------------------------------------------------------------
(* Properties *)

(***************************************************************************)
(* While a snapshot is rebuilt the rules may be incomplete, but for a user *)
(* that is not named like a role they only ever deny more: what they       *)
(* allow, the snapshot allows ("not a wrong permit", comment of            *)
(* ApplySnapshot, engine.go:84).                                           *)
(***************************************************************************)
RebuildOnlyDenies ==
  job.kind = "snapshot" =>
    \A q \in Request :
      q[1] \notin Role /\ Decision(rules, q) => Decision(job.target, q)

(***************************************************************************)
(* The same of every user an engine answers, as engine.go:84 has it.  This *)
(* one is false: a user named like a role has the role's allow as soon as  *)
(* the p rules are loaded, and a deny it inherits only with the g rules.   *)
(***************************************************************************)
RebuildNeverPermits ==
  ready /\ job.kind = "snapshot" =>
    \A q \in Request : Decision(rules, q) => Decision(job.target, q)

(***************************************************************************)
(* No apply leaves a stale decision in the cache for later requests,       *)
(* unless some request had evaluated the old rules and not stored its      *)
(* decision yet when the cache was cleared.                                *)
(***************************************************************************)
Quiet == job = NoJob /\ ready /\ \A t \in Thread : pc[t] # "store"

CacheIsFresh ==
  Quiet /\ ~overlap =>
    \A q \in Request : cache[q] \in {None, Decision(rules, q)}
=============================================================================
