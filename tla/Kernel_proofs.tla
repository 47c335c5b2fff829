---------------------------- MODULE Kernel_proofs ----------------------------
(***************************************************************************)
(* Proofs about Kernel, for every set of users, roles, objects, concurrent *)
(* requests and rules.                                                     *)
(***************************************************************************)
EXTENDS Kernel, TLAPS

TypeOK ==
  /\ rules \subseteq Rule
  /\ ready \in BOOLEAN
  /\ job \in [kind : {"none", "snapshot", "delta"}, target : SUBSET Rule, todo : SUBSET Rule,
             stage : {"none", "p", "g", "change", "invalidate"}]
  /\ job.kind = "none" => job = NoJob
  /\ DOMAIN cache = Request
  /\ DOMAIN pc = Thread /\ DOMAIN req = Thread /\ DOMAIN res = Thread
  /\ \A t \in Thread : pc[t] \in {"evaluate", "store"} => req[t] \in Request

(***************************************************************************)
(* How far the rules have come on the way to those of the snapshot or of   *)
(* the delta that is applied.                                              *)
(***************************************************************************)
JobSound ==
  /\ job.kind = "snapshot" =>
       /\ job.stage \in {"p", "g", "invalidate"}
       /\ job.stage = "p" => rules = {}
       /\ job.stage = "g" => rules = {r \in job.target : IsP(r)}
       /\ job.stage = "invalidate" => rules = job.target
  /\ job.kind = "delta" =>
       /\ job.stage = "change"
       /\ job.todo = (job.target \ rules) \cup (rules \ job.target)

(***************************************************************************)
(* Between two applies, unless a request straddled the last one, what is   *)
(* cached and what is about to be is what the rules say.                   *)
(***************************************************************************)
DecisionsSound ==
  job = NoJob /\ ready /\ ~overlap =>
    /\ \A q \in Request : cache[q] \in {None, Decision(rules, q)}
    /\ \A t \in Thread : pc[t] = "store" => res[t] = Decision(rules, req[t])

IInv == TypeOK /\ JobSound /\ DecisionsSound

-----------------------------------------------------------------------------
(***************************************************************************)
(* The steps of a request.                                                 *)
(***************************************************************************)
LEMMA RequestStep ==
  ASSUME IInv, NEW t \in Thread,
         Begin(t) \/ Evaluate(t) \/ Store(t) \/ End(t) \/ \E q \in Request : Probe(t, q)
  PROVE  IInv'
<1>1. UNCHANGED <<rules, ready, job, overlap>>
  BY DEF Begin, Evaluate, Store, End, Probe, applyVars
<1>2. JobSound'
  BY <1>1 DEF IInv, JobSound
<1>3. TypeOK /\ DecisionsSound
  BY DEF IInv
<1>4. \A q : Decision(rules', q) = Decision(rules, q)
  BY <1>1
<1>5. CASE Begin(t)
  <2>1. /\ pc' = [pc EXCEPT ![t] = "row"] /\ UNCHANGED <<cache, req, res>>
    BY <1>5 DEF Begin
  <2>2. TypeOK'
    BY <1>1, <1>3, <2>1 DEF TypeOK
  <2>3. \A s \in Thread : pc'[s] = "store" => pc[s] = "store"
    BY <1>3, <2>1 DEF TypeOK
  <2>4. DecisionsSound'
    BY <1>1, <1>3, <2>1, <2>3 DEF DecisionsSound
  <2> QED
    BY <1>2, <2>2, <2>4 DEF IInv
<1>6. ASSUME NEW q \in Request, Probe(t, q)
      PROVE  IInv'
  <2>1. /\ pc' = [pc EXCEPT ![t] = IF cache[q] = None THEN "evaluate" ELSE "row"]
        /\ req' = [req EXCEPT ![t] = q] /\ pc[t] = "row"
        /\ \A s \in Thread \ {t} : res'[s] = res[s]
        /\ DOMAIN res' = Thread /\ cache' = cache
    BY <1>3, <1>6 DEF Probe, TypeOK
  <2>2. TypeOK'
    BY <1>1, <1>3, <2>1 DEF TypeOK
  <2>3. \A s \in Thread : pc'[s] = "store" => s # t /\ pc[s] = "store" /\ req'[s] = req[s]
    BY <1>3, <2>1 DEF TypeOK
  <2>4. DecisionsSound'
    BY <1>1, <1>3, <2>1, <2>3 DEF DecisionsSound
  <2> QED
    BY <1>2, <2>2, <2>4 DEF IInv
<1>7. CASE Evaluate(t)
  <2>1. /\ pc' = [pc EXCEPT ![t] = "store"] /\ pc[t] = "evaluate" /\ UNCHANGED <<cache, req>>
        /\ res' = [res EXCEPT ![t] = Decision(rules, req[t])]
    BY <1>7 DEF Evaluate
  <2>2. TypeOK'
    BY <1>1, <1>3, <2>1 DEF TypeOK
  <2>3. /\ res'[t] = Decision(rules, req[t])
        /\ \A s \in Thread \ {t} : res'[s] = res[s] /\ pc'[s] = pc[s]
    BY <1>3, <2>1 DEF TypeOK
  <2>4. DecisionsSound'
    BY <1>1, <1>3, <2>1, <2>3 DEF DecisionsSound
  <2> QED
    BY <1>2, <2>2, <2>4 DEF IInv
<1>8. CASE Store(t)
  <2>1. /\ pc' = [pc EXCEPT ![t] = "row"] /\ pc[t] = "store" /\ UNCHANGED <<req, res>>
        /\ cache' = [cache EXCEPT ![req[t]] = res[t]]
    BY <1>8 DEF Store
  <2>2. TypeOK'
    BY <1>1, <1>3, <2>1 DEF TypeOK
  <2>3. /\ cache'[req[t]] = res[t] /\ req[t] \in Request
        /\ \A q \in Request \ {req[t]} : cache'[q] = cache[q]
        /\ \A s \in Thread : pc'[s] = "store" => pc[s] = "store"
    BY <1>3, <2>1 DEF TypeOK
  <2>4. DecisionsSound'
    BY <1>1, <1>3, <2>1, <2>3 DEF DecisionsSound
  <2> QED
    BY <1>2, <2>2, <2>4 DEF IInv
<1>9. CASE End(t)
  <2>1. /\ pc' = [pc EXCEPT ![t] = "idle"] /\ cache' = cache
        /\ req' = [req EXCEPT ![t] = None] /\ res' = [res EXCEPT ![t] = FALSE]
    BY <1>9 DEF End
  <2>2. TypeOK'
    BY <1>1, <1>3, <2>1 DEF TypeOK
  <2>3. \A s \in Thread : pc'[s] = "store" =>
                            /\ s # t /\ pc[s] = "store" /\ req'[s] = req[s]
                            /\ res'[s] = res[s]
    BY <1>3, <2>1 DEF TypeOK
  <2>4. DecisionsSound'
    BY <1>1, <1>3, <2>1, <2>3 DEF DecisionsSound
  <2> QED
    BY <1>2, <2>2, <2>4 DEF IInv
<1> QED
  BY <1>5, <1>6, <1>7, <1>8, <1>9

(***************************************************************************)
(* Dropping a decision from the cache.                                     *)
(***************************************************************************)
LEMMA EvictStep ==
  ASSUME IInv, NEW q \in Request, Evict(q)
  PROVE  IInv'
<1>1. /\ UNCHANGED <<rules, ready, job, overlap, pc, req, res>>
      /\ cache' = [cache EXCEPT ![q] = None]
  BY DEF Evict, applyVars, requestVars
<1>2. TypeOK' /\ JobSound'
  BY <1>1 DEF IInv, TypeOK, JobSound
<1>3. \A x \in Request : cache'[x] \in {None, cache[x]}
  BY <1>1 DEF IInv, TypeOK
<1>4. DecisionsSound'
  BY <1>1, <1>3 DEF IInv, DecisionsSound
<1> QED
  BY <1>2, <1>4 DEF IInv

-----------------------------------------------------------------------------
(***************************************************************************)
(* The start of a snapshot empties the rules, the start of a delta leaves  *)
(* them and owes the difference.                                           *)
(***************************************************************************)
LEMMA BeginStep ==
  ASSUME IInv, NEW target \in SUBSET Rule, ApplySnapshot(target) \/ ApplyDelta(target)
  PROVE  IInv'
<1>1. UNCHANGED <<ready, cache, pc, req, res, overlap>>
  BY DEF ApplySnapshot, ApplyDelta, BeginApply, requestVars
<1>2. CASE ApplySnapshot(target)
  <2>1. job' = [kind |-> "snapshot", target |-> target, todo |-> {}, stage |-> "p"] /\ rules' = {}
    BY <1>2 DEF ApplySnapshot, BeginApply
  <2>2. TypeOK' /\ JobSound'
    BY <1>1, <2>1 DEF IInv, TypeOK, JobSound
  <2>3. DecisionsSound'
    BY <2>1 DEF DecisionsSound, NoJob
  <2> QED
    BY <2>2, <2>3 DEF IInv
<1>3. CASE ApplyDelta(target)
  <2>1. /\ job' = [kind |-> "delta", target |-> target,
                   todo |-> (target \ rules) \cup (rules \ target), stage |-> "change"]
        /\ rules' = rules
    BY <1>3 DEF ApplyDelta, BeginApply
  <2>2. TypeOK' /\ JobSound'
    BY <1>1, <2>1 DEF IInv, TypeOK, JobSound
  <2>3. DecisionsSound'
    BY <2>1 DEF DecisionsSound, NoJob
  <2> QED
    BY <2>2, <2>3 DEF IInv
<1> QED
  BY <1>2, <1>3

(***************************************************************************)
(* The two loads of a snapshot.                                            *)
(***************************************************************************)
LEMMA AddStep ==
  ASSUME IInv, AddPolicies \/ AddGroupingPolicies
  PROVE  IInv'
<1>1. /\ UNCHANGED <<ready, cache, pc, req, res, overlap>>
      /\ job.kind = "snapshot" /\ \E s \in {"g", "invalidate"} : job' = [job EXCEPT !.stage = s]
  BY DEF AddPolicies, AddGroupingPolicies, AddRules, requestVars
<1>2. job'.kind = "snapshot" /\ job'.target = job.target
  BY <1>1 DEF IInv, TypeOK
<1>3. rules' \subseteq Rule /\ JobSound'
  <2>1. CASE AddPolicies
    <3>1. /\ job.stage = "p" /\ job' = [job EXCEPT !.stage = "g"]
          /\ rules' = rules \cup {r \in job.target : IsP(r)}
      BY <2>1 DEF AddPolicies, AddRules
    <3>2. rules = {}
      BY <1>1, <3>1 DEF IInv, JobSound
    <3>3. job'.stage = "g" /\ rules' = {r \in job'.target : IsP(r)}
      BY <1>1, <1>2, <3>1, <3>2 DEF IInv, TypeOK
    <3> QED
      BY <1>2, <3>3 DEF IInv, TypeOK, JobSound
  <2>2. CASE AddGroupingPolicies
    <3>1. /\ job.stage = "g" /\ job' = [job EXCEPT !.stage = "invalidate"]
          /\ rules' = rules \cup {r \in job.target : ~IsP(r)}
      BY <2>2 DEF AddGroupingPolicies, AddRules
    <3>2. rules = {r \in job.target : IsP(r)}
      BY <1>1, <3>1 DEF IInv, JobSound
    <3>3. job'.stage = "invalidate" /\ rules' = job'.target
      BY <1>1, <1>2, <3>1, <3>2 DEF IInv, TypeOK
    <3> QED
      BY <1>2, <3>3 DEF IInv, TypeOK, JobSound
  <2> QED
    BY <2>1, <2>2
<1>4. TypeOK'
  BY <1>1, <1>2, <1>3 DEF IInv, TypeOK
<1>5. DecisionsSound'
  BY <1>2 DEF DecisionsSound, NoJob
<1> QED
  BY <1>3, <1>4, <1>5 DEF IInv

(***************************************************************************)
(* One change of a delta: what is still owed stays the difference between  *)
(* the rules and the target.                                               *)
(***************************************************************************)
LEMMA ChangeStep ==
  ASSUME IInv, NEW r \in Rule, ApplyPolicyChange(r)
  PROVE  IInv'
<1>1. /\ UNCHANGED <<ready, cache, pc, req, res, overlap>>
      /\ job.kind = "delta" /\ job.stage = "change" /\ r \in job.todo
      /\ rules' = IF r \in job.target THEN rules \cup {r} ELSE rules \ {r}
      /\ job' = [job EXCEPT !.todo = job.todo \ {r}]
  BY DEF ApplyPolicyChange, requestVars
<1>2. /\ job'.kind = "delta" /\ job'.stage = "change" /\ job'.target = job.target
      /\ "todo" \in DOMAIN job => job'.todo = job.todo \ {r}
  BY <1>1 DEF IInv, TypeOK
<1>3. TypeOK'
  BY <1>1, <1>2 DEF IInv, TypeOK
<1>4. JobSound'
  BY <1>1, <1>2 DEF IInv, JobSound
<1>5. DecisionsSound'
  BY <1>2 DEF DecisionsSound, NoJob
<1> QED
  BY <1>3, <1>4, <1>5 DEF IInv

(***************************************************************************)
(* The end of an apply: when it fails the engine stops answering, when it  *)
(* succeeds the rules are exactly the target.                              *)
(***************************************************************************)
LEMMA AppliedWhole ==
  ASSUME IInv, InvalidateCache
  PROVE  rules' = job.target
<1>1. job.kind \in {"snapshot", "delta"} /\ rules' = rules
  BY DEF InvalidateCache, IInv, TypeOK, JobSound
<1>2. CASE job.kind = "snapshot"
  BY <1>1, <1>2 DEF InvalidateCache, IInv, JobSound
<1>3. CASE job.kind = "delta"
  BY <1>1, <1>3 DEF InvalidateCache, IInv, JobSound
<1> QED
  BY <1>1, <1>2, <1>3

(***************************************************************************)
(* An apply ends with the cache cleared, or fails half-way.                *)
(***************************************************************************)
LEMMA EndStep ==
  ASSUME IInv, ApplyFails \/ InvalidateCache
  PROVE  IInv'
<1>1. UNCHANGED <<rules, pc, req, res>> /\ job' = NoJob
  BY DEF ApplyFails, InvalidateCache, requestVars
<1>2. JobSound'
  BY <1>1 DEF JobSound, NoJob
<1>3. CASE ApplyFails
  <2>1. ready' = FALSE /\ cache' = cache
    BY <1>3 DEF ApplyFails
  <2> QED
    BY <1>1, <1>2, <2>1 DEF IInv, TypeOK, DecisionsSound, NoJob
<1>4. CASE InvalidateCache
  <2>1. /\ cache' = [q \in Request |-> None]
        /\ ready' \in BOOLEAN
        /\ overlap' = (\E t \in Thread : pc[t] = "store")
    BY <1>4 DEF InvalidateCache
  <2>2. TypeOK'
    BY <1>1, <2>1 DEF IInv, TypeOK, NoJob
  <2>3. DecisionsSound'
    BY <1>1, <2>1 DEF DecisionsSound
  <2> QED
    BY <1>2, <2>2, <2>3 DEF IInv
<1> QED
  BY <1>3, <1>4

-----------------------------------------------------------------------------
(***************************************************************************)
(* The inductive invariant: every apply advances towards its target, and   *)
(* between applies cached decisions agree with the rules.                  *)
(***************************************************************************)
THEOREM Invariance == Spec => []IInv
<1>1. Init => IInv
  <2> SUFFICES ASSUME Init PROVE IInv
    OBVIOUS
  <2>1. TypeOK
    BY DEF Init, TypeOK, NoJob
  <2>2. JobSound /\ DecisionsSound
    BY DEF Init, JobSound, DecisionsSound, NoJob
  <2> QED
    BY <2>1, <2>2 DEF IInv
<1>2. IInv /\ [Next]_vars => IInv'
  <2> SUFFICES ASSUME IInv, [Next]_vars PROVE IInv'
    OBVIOUS
  <2>1. CASE UNCHANGED vars
    BY <2>1 DEF vars, applyVars, requestVars, IInv, TypeOK, JobSound, DecisionsSound
  <2>2. CASE Next
    BY <2>2, RequestStep, EvictStep, BeginStep, AddStep, ChangeStep, EndStep DEF Next
  <2> QED
    BY <2>1, <2>2
<1> QED
  BY <1>1, <1>2, PTL DEF Spec

(***************************************************************************)
(* No apply leaves a stale decision behind in the decision cache for later *)
(* requests, unless a request straddled the clearing (CacheIsFresh).       *)
(***************************************************************************)
THEOREM FreshTheorem == Spec => []CacheIsFresh
<1>1. IInv => CacheIsFresh
  BY DEF IInv, DecisionsSound, CacheIsFresh, Quiet
<1> QED
  BY <1>1, Invariance, PTL

(***************************************************************************)
(* Without grouping rules a user that is not named like a role matches no  *)
(* policy rule: those are of roles, and it leads to itself only.           *)
(***************************************************************************)
LEMMA NoGroupingDenies ==
  ASSUME NEW R \in SUBSET Rule, \A r \in R : IsP(r), NEW q \in Request,
         q[1] \notin Role
  PROVE  ~Decision(R, q)
<1>1. q[1] \in User
  BY DEF Request
<1>2. ASSUME NEW r \in R, LeadsTo(R, q[1], r[2])
      PROVE  FALSE
  <2>1. r[2] \in Role
    BY DEF Rule, PRule, GRule, IsP
  <2>2. {q[1]} \in SUBSET Subject
    BY <1>1 DEF Subject
  <2>3. r[2] \in {q[1]}
    BY <1>2, <2>2 DEF LeadsTo
  <2> QED
    BY <2>1, <2>3
<1> QED
  BY <1>2 DEF Decision, Matching

(***************************************************************************)
(* A request that sees a snapshot half loaded, of a user that is not named *)
(* like a role, is never granted what the whole snapshot denies            *)
(* (RebuildOnlyDenies): AddPolicies comes before AddGroupingPolicies, so   *)
(* the deny rules are there before any role is.                            *)
(***************************************************************************)
THEOREM RebuildTheorem == Spec => []RebuildOnlyDenies
<1>1. IInv => RebuildOnlyDenies
  <2> SUFFICES ASSUME IInv, job.kind = "snapshot", NEW q \in Request,
                      q[1] \notin Role, Decision(rules, q)
               PROVE  Decision(job.target, q)
    BY DEF RebuildOnlyDenies
  <2>1. rules \in SUBSET Rule
    BY DEF IInv, TypeOK
  <2>2. ~\A r \in rules : IsP(r)
    BY <2>1, NoGroupingDenies
  <2>3. job.stage = "invalidate" => rules = job.target
    BY DEF IInv, JobSound
  <2>4. job.stage = "invalidate"
    BY <2>2 DEF IInv, JobSound
  <2> QED
    BY <2>3, <2>4
<1> QED
  BY <1>1, Invariance, PTL

(***************************************************************************)
(* Whatever the order of a delta's calls and whatever requests run between *)
(* them, an apply that succeeds leaves exactly the rules it was sent.      *)
(***************************************************************************)
AppliedExactly == [][InvalidateCache => rules' = job.target]_vars

(***************************************************************************)
(* The engine of a version is the rules of that version, which is what     *)
(* PolicySync takes an apply to do in one step (AppliedExactly).           *)
(***************************************************************************)
THEOREM AppliedTheorem == Spec => AppliedExactly
<1>1. IInv /\ [Next]_vars => [InvalidateCache => rules' = job.target]_vars
  BY AppliedWhole
<1> QED
  BY <1>1, Invariance, PTL DEF Spec, AppliedExactly
=============================================================================
