------------------------------ MODULE DataPlane ------------------------------
(***************************************************************************)
(* A sidecar answering an application (internal/sidecar/authz) while the   *)
(* sync client renews its policy, and the SDK in the application that      *)
(* turns the answer into rows of a query or into an admitted HTTP request  *)
(* (sdk/go).  A request passes the staleness guard once, then reads the    *)
(* data policies, then the roles of the user, each under a lock of its     *)
(* own; ApplySnapshot clears and refills the rules and then replaces the   *)
(* data policies.                                                          *)
(***************************************************************************)
EXTENDS DataFilter

CONSTANTS User,         \* users that ask
          Snapshots,    \* policies of the application: [g, policies]
          Rows,         \* rows of the application's table
          Attrs,        \* attributes an application may send
          Bases,        \* its own conditions: [where, args]
          MaxStaleness, \* Config.MaxStaleness, 0 for no guard
          MaxSnapshots  \* bound on the snapshots applied

ASSUME PlaneAssumption == MaxStaleness \in Nat /\ MaxSnapshots \in Nat

VARIABLES g,         \* (user, role) pairs of the enforcer, inherited ones included
          table,     \* the data policies of the resource, << >> when it has none
          ready,     \* Engine.ready
          stale,     \* more than MaxStaleness since the last sync, or none yet
          job,       \* the snapshot being applied, and how far
          applied,   \* history: the last snapshot applied
          snapshots, \* history: their number
          req        \* the request under way

syncVars == <<g, table, ready, stale, job, applied, snapshots>>
vars == <<syncVars, req>>

Unset == CHOOSE s \in Snapshots : TRUE
NoJob == [stage |-> "none", target |-> Unset]
Idle  == [pc |-> "idle"]

Table(policies) == [i \in DOMAIN policies |-> ToStored(policies[i])]

(***************************************************************************)
(* A sidecar starts empty and not ready.                                   *)
(***************************************************************************)
Init ==
  /\ g = {} /\ table = << >> /\ ready = FALSE /\ stale = TRUE
  /\ job = NoJob /\ applied = Unset /\ snapshots = 0
  /\ req = Idle

-----------------------------------------------------------------------------
(* The sync client; how snapshots and deltas get here is PolicySync *)

OneWrite(s, t) ==
  \/ s.g = t.g /\ Cardinality((ToSet(s.policies) \ ToSet(t.policies)) \cup (ToSet(t.policies) \ ToSet(s.policies))) <= 1
  \/ s.policies = t.policies

(***************************************************************************)
(* ApplySnapshot begins: the rules are cleared, the data policies stay.    *)
(* A later snapshot is the earlier one after a write.                      *)
(***************************************************************************)
ApplySnapshot(s) ==
  /\ job = NoJob
  /\ snapshots < MaxSnapshots
  /\ snapshots = 0 \/ OneWrite(applied, s)
  /\ snapshots' = snapshots + 1
  /\ job' = [stage |-> "rules", target |-> s]
  /\ g' = {}
  /\ UNCHANGED <<table, ready, stale, applied, req>>

AddGroupingPolicies ==
  /\ job.stage = "rules"
  /\ g' = job.target.g
  /\ job' = [job EXCEPT !.stage = "data"]
  /\ UNCHANGED <<table, ready, stale, applied, snapshots, req>>

ApplyDataPolicies ==
  /\ job.stage = "data"
  /\ table' = Table(job.target.policies)
  /\ job' = [job EXCEPT !.stage = "done"]
  /\ UNCHANGED <<g, ready, stale, applied, snapshots, req>>

FinishSnapshot ==
  /\ job.stage = "done"
  /\ ready' = TRUE /\ stale' = FALSE
  /\ applied' = job.target
  /\ job' = NoJob
  /\ UNCHANGED <<g, table, snapshots, req>>

(***************************************************************************)
(* A Casbin call fails: not ready until a snapshot succeeds.               *)
(***************************************************************************)
ApplyFails ==
  /\ job # NoJob
  /\ ready' = FALSE
  /\ job' = NoJob
  /\ UNCHANGED <<g, table, stale, applied, snapshots, req>>

(***************************************************************************)
(* markSync on a heartbeat, and the clock when nothing arrives.            *)
(***************************************************************************)
Heartbeat ==
  /\ ready /\ job = NoJob /\ stale
  /\ stale' = FALSE
  /\ UNCHANGED <<g, table, ready, job, applied, snapshots, req>>

TimePasses ==
  /\ ~stale
  /\ stale' = TRUE
  /\ UNCHANGED <<g, table, ready, job, applied, snapshots, req>>

-----------------------------------------------------------------------------
(* Authorizer and gRPC server *)

(* Mutant: the age of the policy is not looked at. *)
CheckReady == IF ~ready THEN "notReady" ELSE "none"

(* Mutant: only the age of the policy is looked at. *)
CheckAge == IF MaxStaleness > 0 /\ stale THEN "tooStale" ELSE "none"

(***************************************************************************)
(* checkFresh: not ready, or longer than MaxStaleness without a sync.      *)
(***************************************************************************)
CheckFresh ==
  CASE ~ready -> "notReady"
    [] ready /\ MaxStaleness > 0 /\ stale -> "tooStale"
    [] OTHER -> "none"

ToStatus(err) ==
  CASE err \in {"notReady", "tooStale"} -> "Unavailable"
    [] err = "missingVar" -> "InvalidArgument"
    [] err = "invalidPolicy" -> "FailedPrecondition"
    [] OTHER -> "Internal"

NoAnswer == Answer("empty", NoTree, << >>)

(***************************************************************************)
(* The SDK sends FilterSQL with attributes, or Check; failOpen is how the  *)
(* middleware in front of the handler was built.                           *)
(***************************************************************************)
NewRequest(kind, user, attrs, failOpen) ==
  [pc |-> "sent", kind |-> kind, user |-> user, attrs |-> attrs, failOpen |-> failOpen,
   bucket |-> << >>, from |-> Unset, at |-> 0, fit |-> FALSE, overlapped |-> FALSE,
   code |-> "pending", answer |-> NoAnswer, allowed |-> FALSE,
   base |-> Node("AND", << >>), baseArgs |-> << >>, rows |-> {}, outcome |-> "pending"]

SendFilter(user, attrs) ==
  /\ req = Idle
  /\ req' = NewRequest("filter", user, attrs, FALSE)
  /\ UNCHANGED syncVars

SendCheck(user, failOpen) ==
  /\ req = Idle
  /\ req' = NewRequest("check", user, << >>, failOpen)
  /\ UNCHANGED syncVars

(***************************************************************************)
(* Registry.Report: the permission points registered at start-up; without  *)
(* any nothing is sent.                                                    *)
(***************************************************************************)
SendReport ==
  /\ req = Idle
  /\ req' = NewRequest("report", "nobody", << >>, FALSE)
  /\ UNCHANGED syncVars

(***************************************************************************)
(* History: what the request began from, whether the sidecar had a policy  *)
(* and had heard of the control plane in time when it came, and whether    *)
(* the policy changed under it.                                            *)
(***************************************************************************)
Begun ==
  [req EXCEPT !.from = applied, !.at = snapshots, !.overlapped = (job # NoJob),
              !.fit = ready /\ (MaxStaleness > 0 => ~stale)]
Seen  == [req EXCEPT !.overlapped = @ \/ snapshots # req.at]

Replied(r, code, fr) == [r EXCEPT !.pc = "replied", !.code = code, !.answer = fr]

Guard ==
  /\ req.pc = "sent" /\ req.kind # "report"
  /\ req' = IF CheckFresh # "none" THEN Replied(Begun, ToStatus(CheckFresh), NoAnswer)
            ELSE [Begun EXCEPT !.pc = "guarded"]
  /\ UNCHANGED syncVars

(***************************************************************************)
(* The sidecar cannot be reached: gRPC says Unavailable.                   *)
(***************************************************************************)
Disconnected ==
  /\ req.pc = "sent"
  /\ req' = Replied(Begun, "Unavailable", NoAnswer)
  /\ UNCHANGED syncVars

(***************************************************************************)
(* What the engine decides is Kernel's business; ready is asked again.     *)
(***************************************************************************)
Check ==
  /\ req.pc = "guarded" /\ req.kind = "check"
  /\ \/ ready /\ \E d \in BOOLEAN : req' = [Replied(Seen, "OK", NoAnswer) EXCEPT !.allowed = d]
     \/ ~ready /\ req' = Replied(Seen, ToStatus("notReady"), NoAnswer)
     \/ req' = Replied(Seen, ToStatus("casbin"), NoAnswer)
  /\ UNCHANGED syncVars

(***************************************************************************)
(* A report is relayed to the control plane, which merges it (that is      *)
(* PolicyManager's ReportPermissions), whatever the state of the sidecar;  *)
(* every failure on the way, also a refused point, is Unavailable.         *)
(***************************************************************************)
ReportPermissions ==
  /\ req.pc = "sent" /\ req.kind = "report"
  /\ \E code \in {"OK", "Unavailable"} : req' = Replied(Begun, code, NoAnswer)
  /\ UNCHANGED syncVars

Lookup ==
  /\ req.pc = "guarded" /\ req.kind = "filter"
  /\ req' = [Seen EXCEPT !.pc = "looked up", !.bucket = table]
  /\ UNCHANGED syncVars

(***************************************************************************)
(* The rest of FilterSQL.  GetImplicitRolesForUser asks again whether the  *)
(* engine is ready, but it is called only if the resource has policies.    *)
(***************************************************************************)
Filter ==
  /\ req.pc = "looked up"
  /\ LET roles      == {e[2] : e \in {e \in g : e[1] = req.user}}
         configured == req.bucket # << >>
         merged     == IF configured /\ ~ready THEN Failed("notReady")
                       ELSE SelectAndMerge(configured, req.bucket, req.user, roles)
         plan       == BuildPlan(merged, AsMap(req.attrs))
     IN  req' = IF plan.mode = "failed" THEN Replied(Seen, ToStatus(plan.err), NoAnswer)
                ELSE Replied(Seen, "OK", Encode(FilterSQL(plan)))
  /\ UNCHANGED syncVars

-----------------------------------------------------------------------------
(* The SDK *)

MapErr(code) == IF code = "Unavailable" THEN "ErrUnavailable" ELSE code

(***************************************************************************)
(* The application's query with the fragment in it.  An error of FilterSQL *)
(* or of Build goes to the caller, or onto the query builder, and the      *)
(* query is not run.                                                       *)
(***************************************************************************)
Query(base, dialect) ==
  /\ req.pc = "replied" /\ req.kind = "filter"
  /\ LET w == IF dialect = "gorm" THEN Scope(base.where, base.args, req.answer)
              ELSE AndWhere(base.where, base.args, req.answer, dialect)
         visible == {r \in Rows : w.kind = "where" /\ Eval(w.where, r, w.args) = "T"}
         err == IF req.code # "OK" THEN MapErr(req.code) ELSE w.kind
     IN  req' = [req EXCEPT !.pc = "end", !.base = base.where, !.baseArgs = base.args,
                            !.outcome = IF err \in {"where", "none"} THEN "rows" ELSE err,
                            !.rows = IF err = "where" THEN visible ELSE {}]
  /\ UNCHANGED syncVars

(***************************************************************************)
(* The middleware: the handler runs for an allowed request, under          *)
(* WithFailOpen also for one that could not be decided.                    *)
(***************************************************************************)
Middleware ==
  /\ req.pc = "replied" /\ req.kind = "check"
  /\ LET err == MapErr(req.code)
     IN  req' = [req EXCEPT !.pc = "end", !.outcome =
                   CASE err = "OK" -> IF req.allowed THEN "served" ELSE "denied"
                     [] err = "ErrUnavailable" -> IF req.failOpen THEN "served" ELSE "unavailable"
                     [] OTHER -> "error"]
  /\ UNCHANGED syncVars

Reported ==
  /\ req.pc = "replied" /\ req.kind = "report"
  /\ req' = [req EXCEPT !.pc = "end", !.outcome = IF req.code = "OK" THEN "reported" ELSE MapErr(req.code)]
  /\ UNCHANGED syncVars

(***************************************************************************)
(* Resolver: a request may be exempt, or its subject not be found.         *)
(***************************************************************************)
Resolve(kind) ==
  /\ req = Idle
  /\ req' = [NewRequest("resolver", "nobody", << >>, FALSE) EXCEPT
               !.pc = "end", !.outcome = IF kind = "skip" THEN "served" ELSE "denied"]
  /\ UNCHANGED syncVars

Done ==
  /\ req.pc = "end"
  /\ req' = Idle
  /\ UNCHANGED syncVars

-----------------------------------------------------------------------------
Next ==
  \/ \E s \in Snapshots : ApplySnapshot(s)
  \/ AddGroupingPolicies \/ ApplyDataPolicies \/ FinishSnapshot \/ ApplyFails
  \/ Heartbeat \/ TimePasses
  \/ \E u \in User, a \in Attrs : SendFilter(u, a)
  \/ \E u \in User, f \in BOOLEAN : SendCheck(u, f)
  \/ SendReport \/ ReportPermissions \/ Reported
  \/ Guard \/ Disconnected \/ Check \/ Lookup \/ Filter
  \/ \E b \in Bases, d \in {"Postgres", "Question", "gorm"} : Query(b, d)
  \/ Middleware
  \/ \E k \in {"skip", "error"} : Resolve(k)
  \/ Done

Spec == Init /\ [][Next]_vars

-----------------------------------------------------------------------------
(* Properties *)

(***************************************************************************)
(* The policies that apply to the user, their variables given their exact  *)
(* values; numbers beyond 2^53 are outside the promise.                    *)
(***************************************************************************)
Applies(s) == {p \in ToSet(Table(s.policies)) : SubjectMatches(p, req.user, {e[2] : e \in {e \in s.g : e[1] = req.user}})}

Holds(p, r) == Eval(ResolveTree(p.cond, req.attrs), r, << >>)

Small == \A x \in DOMAIN req.attrs : req.attrs[x] = Null \/ req.attrs[x] <= Exact

(***************************************************************************)
(* A query that overlaps no renewal of the policy sees exactly the rows    *)
(* that its own condition selects and that either the resource has no      *)
(* policy or some allow holds and every deny is false: a deny that is      *)
(* unknown, because of a null in the row or the attribute, hides the row.  *)
(* The merge, the numbering of the placeholders behind those of the query, *)
(* and the order of the arguments all have to be right for this.           *)
(***************************************************************************)
RowsAsPolicies ==
  req.pc = "end" /\ req.outcome = "rows" /\ ~req.overlapped /\ Small =>
    req.rows = {r \in Rows :
      /\ Eval(req.base, r, req.baseArgs) = "T"
      /\ \/ req.from.policies = << >>
         \/ /\ \E p \in Applies(req.from) : p.effect = "allow" /\ Holds(p, r) = "T"
            /\ \A p \in Applies(req.from) : p.effect = "deny" => Holds(p, r) = "F"}

(***************************************************************************)
(* The policies that surely concern the request: those that apply to its   *)
(* user, or, when the policy changed under it, those about the user itself *)
(* in the data policies it read.                                           *)
(***************************************************************************)
Concerned ==
  IF req.overlapped THEN {p \in ToSet(req.bucket) : SubjectMatches(p, req.user, {})}
  ELSE Applies(req.from)

(***************************************************************************)
(* Rows are read and handlers run only on a decision: a sidecar that had   *)
(* no policy or had not heard of the control plane for too long when the   *)
(* request came opens nothing, a policy that cannot be parsed or a         *)
(* variable without a value opens no row (a resource without policies is   *)
(* wide open, and so is the empty table of a sidecar that has no policy    *)
(* yet).  A middleware built to fail open lets pass what could not be      *)
(* decided, and never a refusal or another error.                          *)
(***************************************************************************)
FailsClosed ==
  req.pc = "end" =>
    /\ req.outcome = "rows" => req.fit /\ \A p \in Concerned : ~p.poisoned
    /\ req.rows # {} => \A p \in Concerned : \A o \in Operands(p.cond) :
                          o.kind = "var" => o.v \in DOMAIN req.attrs
    /\ req.kind = "check" /\ req.outcome = "served" =>
         \/ req.allowed /\ req.fit
         \/ ~req.allowed /\ req.failOpen /\ req.code = "Unavailable"
=============================================================================
