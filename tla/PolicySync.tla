----------------------------- MODULE PolicySync -----------------------------
(***************************************************************************)
(* How the policy of one application reaches the sidecar of a service:     *)
(* the outbox relay broadcasts the delta of each version over Redis        *)
(* (at most once), the hub of a control plane replica hands it to the      *)
(* subscriber's bounded buffer, the Subscribe stream sends it on, and the  *)
(* sidecar's SyncClient applies it to its engine, or pulls a whole         *)
(* snapshot when it finds that it missed something.                        *)
(*                                                                         *)
(* The database is seen through PolicyLog, which PolicyManager implements. *)
(* The engine applies a snapshot or a delta in one step here; Kernel       *)
(* breaks that step up.  Deltas are identified with their version on the   *)
(* way, log[v] being what version v says.                                  *)
(***************************************************************************)
EXTENDS Naturals, Sequences

CONSTANTS Rule,           \* the Casbin rules of the application
          MaxVersion,     \* bound on the versions explored
          BufSize,        \* capacity of a hub subscriber (Config.BufSize)
          ReconcileEvery, \* heartbeats between two reads of the version
          RedisCap,       \* bound on messages inside Redis
          WireCap,        \* bound on events under way on the gRPC stream
          MaxFaults       \* bound on failures, after which nothing fails

ASSUME SyncAssumption ==
  /\ MaxVersion \in Nat
  /\ BufSize \in Nat \ {0}
  /\ ReconcileEvery \in Nat \ {0}
  /\ RedisCap \in Nat \ {0}
  /\ WireCap \in Nat \ {0}
  /\ MaxFaults \in Nat

VARIABLES
  version, rules, data, log, \* the database, see PolicyLog
  hist,     \* history: hist[v + 1] are the rules of version v
  sent,     \* the relay has broadcast versions 1 .. sent at least once
  redis,    \* messages on their way from the relay to the hub
  stream,   \* server side of the Subscribe call
  lastVer,  \* the stream's idea of the current version
  events,   \* the subscriber's buffer
  overflow, \* the subscriber's overflow signal
  ticks,    \* heartbeats since the last read of the version
  wire,     \* events sent on the stream and not yet received
  pc,       \* what the SyncClient is doing
  snap,     \* the snapshot being pulled; readAt is history, see horizon
  engine,   \* the sidecar's engine
  horizon,  \* history: the version its last snapshot's rules were read at
  misled,   \* history: heartbeats taken as a sign of being current since it fell behind
  faults    \* failures so far

dbVars     == <<version, rules, data, log, hist>>
feedVars   == <<sent, redis>>
streamVars == <<stream, lastVer, events, overflow, ticks>>
clientVars == <<pc, snap, engine, horizon, misled>>
vars == <<dbVars, feedVars, streamVars, wire, clientVars, faults>>

NoData == [i \in {} |-> FALSE]

DB == INSTANCE PolicyLog WITH DataId <- {}, DataBody <- {}, Absent <- FALSE

PolicyAt(v) == hist[v + 1]

Fault == faults < MaxFaults /\ faults' = faults + 1

DeltaEvent(v) == [type |-> "delta", version |-> v]
Heartbeat(v)  == [type |-> "heartbeat", version |-> v]
SnapshotRequired(v) == [type |-> "snapshotRequired", version |-> v]

EmptyEngine == [version |-> 0, rules |-> {}, ready |-> FALSE]
NoSnapshot  == [version |-> 0, rules |-> {}, readAt |-> 0]

Init ==
  /\ DB!Init
  /\ hist = << {} >>
  /\ sent = 0 /\ redis = << >>
  /\ stream = "none" /\ lastVer = 0 /\ events = << >> /\ overflow = FALSE /\ ticks = 0
  /\ wire = << >>
  /\ pc = "pull" /\ snap = NoSnapshot /\ engine = EmptyEngine /\ horizon = 0 /\ misled = 0
  /\ faults = 0

-----------------------------------------------------------------------------
(* The database and the broadcast *)

Commit ==
  /\ version < MaxVersion
  /\ \E adds \in SUBSET (Rule \ rules), removes \in SUBSET rules :
       DB!Publish([version |-> version + 1, adds |-> adds,
                   removes |-> removes, data |-> NoData])
  /\ hist' = Append(hist, rules')
  /\ UNCHANGED <<feedVars, streamVars, wire, clientVars, faults>>

(***************************************************************************)
(* The relay publishes outbox rows in order; a row it could not mark as    *)
(* published, or that an earlier leader had published, goes out again.     *)
(***************************************************************************)
Broadcast ==
  /\ Len(redis) < RedisCap
  /\ \E v \in 1 .. sent + 1 :
       /\ v <= version
       /\ redis' = Append(redis, v)
       /\ sent' = IF v > sent THEN v ELSE sent
  /\ UNCHANGED <<dbVars, streamVars, wire, clientVars, faults>>

(***************************************************************************)
(* Pub/sub is at most once: a message may be lost.                         *)
(***************************************************************************)
LoseMessage ==
  /\ redis # << >>
  /\ redis' = Tail(redis)
  /\ UNCHANGED <<dbVars, sent, streamVars, wire, clientVars, faults>>

(***************************************************************************)
(* Hub.Dispatch: never blocks.  With a full buffer the delta is dropped    *)
(* and the overflow signal raised; without a subscriber it goes nowhere.   *)
(***************************************************************************)
Dispatch ==
  /\ redis # << >>
  /\ redis' = Tail(redis)
  /\ IF stream # "open"
     THEN UNCHANGED <<events, overflow>>
     ELSE IF Len(events) < BufSize
          THEN events' = Append(events, Head(redis)) /\ UNCHANGED overflow
          ELSE overflow' = TRUE /\ UNCHANGED events
  /\ UNCHANGED <<dbVars, sent, stream, lastVer, ticks, wire, clientVars, faults>>

-----------------------------------------------------------------------------
(* Server.Subscribe *)

(***************************************************************************)
(* The handler reads the current version, then registers with the hub.     *)
(***************************************************************************)
SubscribeRead ==
  /\ stream = "called"
  /\ stream' = "read"
  /\ lastVer' = version
  /\ UNCHANGED <<dbVars, feedVars, events, overflow, ticks, wire, clientVars, faults>>

(***************************************************************************)
(* Until the first event the client stays blocked in Recv, so its engine   *)
(* still has the version it asked with.                                    *)
(***************************************************************************)
SubscribeRegister ==
  /\ stream = "read"
  /\ stream' = "open"
  /\ events' = << >> /\ overflow' = FALSE /\ ticks' = 0
  /\ wire' = IF lastVer # engine.version
             THEN Append(wire, SnapshotRequired(lastVer)) ELSE wire
  /\ UNCHANGED <<dbVars, feedVars, lastVer, clientVars, faults>>

CanSend == stream = "open" /\ Len(wire) < WireCap

SendDelta ==
  /\ CanSend
  /\ events # << >>
  /\ events' = Tail(events)
  /\ lastVer' = Head(events)
  /\ wire' = Append(wire, DeltaEvent(Head(events)))
  /\ UNCHANGED <<dbVars, feedVars, stream, overflow, ticks, clientVars, faults>>

SendOverflow ==
  /\ CanSend
  /\ overflow
  /\ overflow' = FALSE
  /\ wire' = Append(wire, SnapshotRequired(lastVer))
  /\ UNCHANGED <<dbVars, feedVars, stream, lastVer, events, ticks, clientVars, faults>>

(***************************************************************************)
(* Every ReconcileEvery-th heartbeat first reads the version from the      *)
(* database; when that read fails the old value is sent.                   *)
(***************************************************************************)
SendHeartbeat ==
  /\ CanSend
  /\ ticks' = (ticks + 1) % ReconcileEvery
  /\ \/ ticks' # 0 /\ UNCHANGED <<lastVer, faults>>
     \/ ticks' = 0 /\ lastVer' = version /\ UNCHANGED faults
     \/ ticks' = 0 /\ UNCHANGED lastVer /\ Fault
  /\ wire' = Append(wire, Heartbeat(lastVer'))
  /\ UNCHANGED <<dbVars, feedVars, stream, events, overflow, clientVars>>

(***************************************************************************)
(* The stream breaks: the handler returns and unregisters; the client may  *)
(* still receive some of what was under way.                               *)
(***************************************************************************)
BreakStream ==
  /\ stream \in {"called", "read", "open"}
  /\ Fault
  /\ stream' = "broken"
  /\ events' = << >> /\ overflow' = FALSE
  /\ \E n \in 0 .. Len(wire) : wire' = SubSeq(wire, 1, n)
  /\ UNCHANGED <<dbVars, feedVars, lastVer, ticks, clientVars>>

-----------------------------------------------------------------------------
(* SyncClient *)

(***************************************************************************)
(* PullSnapshot, on the server, in a read committed transaction: each      *)
(* SELECT sees what is committed when it runs.                             *)
(***************************************************************************)
PullVersion ==
  /\ pc = "pull"
  /\ pc' = "rules"
  /\ snap' = [snap EXCEPT !.version = version]
  /\ UNCHANGED <<dbVars, feedVars, streamVars, wire, engine, horizon, misled, faults>>

PullRules ==
  /\ pc = "rules"
  /\ pc' = "apply"
  /\ snap' = [snap EXCEPT !.rules = rules, !.readAt = version]
  /\ UNCHANGED <<dbVars, feedVars, streamVars, wire, engine, horizon, misled, faults>>

(* Mutant: the snapshot is added to the rules the engine has. *)
ApplySnapshotOnTop ==
  /\ pc = "apply"
  /\ engine' = [version |-> snap.version, rules |-> engine.rules \cup snap.rules,
                ready |-> TRUE]
  /\ horizon' = snap.readAt
  /\ snap' = NoSnapshot
  /\ pc' = IF stream = "none" THEN "subscribe" ELSE "consume"
  /\ UNCHANGED <<dbVars, feedVars, streamVars, wire, misled, faults>>

(***************************************************************************)
(* resync succeeded: bootstrap goes on to subscribe, any other resync back *)
(* to the stream it was called from.                                       *)
(***************************************************************************)
ApplySnapshot ==
  /\ pc = "apply"
  /\ engine' = [version |-> snap.version, rules |-> snap.rules, ready |-> TRUE]
  /\ horizon' = snap.readAt
  /\ snap' = NoSnapshot
  /\ pc' = IF stream = "none" THEN "subscribe" ELSE "consume"
  /\ UNCHANGED <<dbVars, feedVars, streamVars, wire, misled, faults>>

(***************************************************************************)
(* A failed resync ends connectAndServe: back off, then start over.        *)
(***************************************************************************)
Reconnect ==
  /\ pc' = "pull"
  /\ snap' = NoSnapshot /\ misled' = 0
  /\ stream' = "none" /\ events' = << >> /\ overflow' = FALSE
  /\ wire' = << >>

PullFails ==
  /\ pc \in {"pull", "rules"}
  /\ Fault
  /\ Reconnect
  /\ UNCHANGED <<dbVars, feedVars, lastVer, ticks, engine, horizon>>

(***************************************************************************)
(* Engine.ApplySnapshot fails after ClearPolicy: the engine is left with   *)
(* part of the rules, and not ready.                                       *)
(***************************************************************************)
SnapshotFails ==
  /\ pc = "apply"
  /\ Fault
  /\ \E part \in SUBSET snap.rules :
       engine' = [engine EXCEPT !.rules = part, !.ready = FALSE]
  /\ Reconnect
  /\ UNCHANGED <<dbVars, feedVars, lastVer, ticks, horizon>>

(***************************************************************************)
(* The Subscribe call; the client goes straight on to Recv.                *)
(***************************************************************************)
Subscribe ==
  /\ pc = "subscribe"
  /\ pc' = "consume"
  /\ stream' = "called"
  /\ UNCHANGED <<dbVars, feedVars, lastVer, events, overflow, ticks, wire,
                 snap, engine, horizon, misled, faults>>

Receive(type) ==
  /\ pc = "consume"
  /\ wire # << >>
  /\ Head(wire).type = type
  /\ wire' = Tail(wire)

Resync == pc' = "pull" /\ misled' = 0 /\ UNCHANGED <<snap, engine, horizon>>

(* Mutant: a gap is not noticed. *)
ReceiveDeltaAcrossGap ==
  /\ Receive("delta")
  /\ LET v == Head(wire).version
     IN  IF v <= engine.version
         THEN UNCHANGED clientVars
         ELSE /\ engine' = [engine EXCEPT !.version = v,
                                          !.rules = DB!ApplyRules(@, log[v])]
              /\ misled' = 0 /\ UNCHANGED <<pc, snap, horizon>>
  /\ UNCHANGED <<dbVars, feedVars, streamVars, faults>>

(* Mutant: a delta that was applied before is applied again. *)
ReceiveDeltaAgain ==
  /\ Receive("delta")
  /\ LET v == Head(wire).version
     IN  IF v > engine.version + 1
         THEN Resync
         ELSE /\ engine' = [engine EXCEPT !.version = v,
                                          !.rules = DB!ApplyRules(@, log[v])]
              /\ misled' = 0 /\ UNCHANGED <<pc, snap, horizon>>
  /\ UNCHANGED <<dbVars, feedVars, streamVars, faults>>

(***************************************************************************)
(* handleDelta: a version already applied is dropped, the next one is      *)
(* applied, a later one shows a gap.                                       *)
(***************************************************************************)
ReceiveDelta ==
  /\ Receive("delta")
  /\ LET v == Head(wire).version
     IN  \/ /\ v <= engine.version
            /\ UNCHANGED clientVars
         \/ /\ v = engine.version + 1
            /\ engine' = [engine EXCEPT !.version = v,
                                        !.rules = DB!ApplyRules(@, log[v])]
            /\ misled' = 0 /\ UNCHANGED <<pc, snap, horizon>>
         \/ /\ v > engine.version + 1
            /\ Resync
  /\ UNCHANGED <<dbVars, feedVars, streamVars, faults>>

(***************************************************************************)
(* Engine.ApplyDelta fails half-way: part of the changes are made and the  *)
(* engine is not ready any more; the client pulls a snapshot.              *)
(***************************************************************************)
DeltaFails ==
  /\ Receive("delta")
  /\ Head(wire).version = engine.version + 1
  /\ Fault
  /\ LET d == log[Head(wire).version]
     IN  \E adds \in SUBSET d.adds, removes \in SUBSET d.removes :
           engine' = [engine EXCEPT !.rules = (@ \ removes) \cup adds, !.ready = FALSE]
  /\ pc' = "pull" /\ misled' = 0
  /\ UNCHANGED <<dbVars, feedVars, streamVars, snap, horizon>>

(***************************************************************************)
(* A heartbeat that is not ahead is taken as a sign of being current: it   *)
(* restarts the staleness clock (markSync).                                *)
(***************************************************************************)
MarkSync ==
  /\ misled' = IF engine.version < version THEN misled + 1 ELSE 0
  /\ UNCHANGED <<pc, snap, engine, horizon>>

(* Mutant: being one version behind is left to the next delta. *)
ReceiveHeartbeatLate ==
  /\ Receive("heartbeat")
  /\ IF Head(wire).version > engine.version + 1 THEN Resync ELSE MarkSync
  /\ UNCHANGED <<dbVars, feedVars, streamVars, faults>>

ReceiveHeartbeat ==
  /\ Receive("heartbeat")
  /\ IF Head(wire).version > engine.version THEN Resync ELSE MarkSync
  /\ UNCHANGED <<dbVars, feedVars, streamVars, faults>>

ReceiveSnapshotRequired ==
  /\ Receive("snapshotRequired")
  /\ Resync
  /\ UNCHANGED <<dbVars, feedVars, streamVars, faults>>

(* Mutant: the client goes on waiting on a broken stream. *)
ReceiveErrorAndWait ==
  /\ pc = "consume"
  /\ stream = "broken"
  /\ wire = << >>
  /\ UNCHANGED vars

(***************************************************************************)
(* Recv returns the error of a broken stream.                              *)
(***************************************************************************)
ReceiveError ==
  /\ pc = "consume"
  /\ stream = "broken"
  /\ wire = << >>
  /\ Reconnect
  /\ UNCHANGED <<dbVars, feedVars, lastVer, ticks, engine, horizon, faults>>

(***************************************************************************)
(* The sidecar process restarts with an empty engine.                      *)
(***************************************************************************)
Restart ==
  /\ Fault
  /\ engine' = EmptyEngine
  /\ horizon' = 0
  /\ Reconnect
  /\ UNCHANGED <<dbVars, feedVars, lastVer, ticks>>

-----------------------------------------------------------------------------
ServerStep ==
  \/ SubscribeRead \/ SubscribeRegister
  \/ SendDelta \/ SendOverflow \/ SendHeartbeat

ClientStep ==
  \/ PullVersion \/ PullRules \/ ApplySnapshot \/ Subscribe
  \/ ReceiveDelta \/ ReceiveHeartbeat \/ ReceiveSnapshotRequired \/ ReceiveError

Next ==
  \/ Commit \/ Broadcast \/ LoseMessage \/ Dispatch
  \/ ServerStep \/ ClientStep
  \/ BreakStream \/ PullFails \/ SnapshotFails \/ DeltaFails \/ Restart

Spec == Init /\ [][Next]_vars

(***************************************************************************)
(* The client's goroutine and the handler's keep running, and the ticker   *)
(* of the handler keeps firing.  No fairness on the broadcast: Redis may   *)
(* lose every message.                                                     *)
(***************************************************************************)
Fairness ==
  /\ WF_vars(ClientStep)
  /\ WF_vars(SubscribeRead) /\ WF_vars(SubscribeRegister)
  /\ SF_vars(SendHeartbeat)

FairSpec == Spec /\ Fairness

-----------------------------------------------------------------------------
(* Properties *)

(***************************************************************************)
(* A snapshot's version may be older than its rules (PullSnapshot reads    *)
(* them in two statements).  The deltas between the two versions repair    *)
(* that: an engine that has reached the version its rules were read at     *)
(* holds exactly the rules of its version, whatever was lost, duplicated   *)
(* or dropped on the way.                                                  *)
(***************************************************************************)
SettledEngine ==
  engine.ready /\ engine.version >= horizon => engine.rules = PolicyAt(engine.version)

(***************************************************************************)
(* Until then the engine enforces no rule, and misses no rule, but one     *)
(* that some version between its own and that horizon explains.            *)
(***************************************************************************)
Span == engine.version .. (IF horizon > engine.version THEN horizon ELSE engine.version)

BetweenVersions ==
  engine.ready =>
    /\ \A r \in engine.rules : \E v \in Span : r \in PolicyAt(v)
    /\ \A r \in Rule \ engine.rules : \E v \in Span : r \notin PolicyAt(v)

(***************************************************************************)
(* A sidecar that fell behind is not told otherwise for long: before it    *)
(* pulls or advances it takes at most the heartbeats under way and those   *)
(* up to the next successful read of the version for a sign of being       *)
(* current.  This bounds how long the staleness guard can be misled.       *)
(***************************************************************************)
MisledBriefly ==
  misled < WireCap + ReconcileEvery * (1 + faults)

(***************************************************************************)
(* The engine's version never goes back, except in a restart: a snapshot   *)
(* pulled later is never older than the deltas applied before.             *)
(***************************************************************************)
NeverBackwards == [][engine'.version >= engine.version \/ engine' = EmptyEngine]_engine

(***************************************************************************)
(* Once writes and failures stop, the sidecar ends up with the policy of   *)
(* the current version and stays there, even if Redis loses every message  *)
(* and the delta dispatched between reading the version and registering    *)
(* was missed.                                                             *)
(***************************************************************************)
Converges ==
  <>[](engine.ready /\ engine.version = version /\ engine.rules = rules)
=============================================================================
