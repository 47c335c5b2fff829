-------------------------- MODULE PolicySync_proofs --------------------------
(***************************************************************************)
(* Proofs about PolicySync, for every set of rules, every number of        *)
(* versions and failures, and every size of the buffers.                   *)
(***************************************************************************)
EXTENDS PolicySync, SequenceTheorems, FiniteSetTheorems, TLAPS

Known == 0 .. version

Event == [type : {"delta", "heartbeat", "snapshotRequired"}, version : Known]

(***************************************************************************)
(* The log explains the history: every version's rules are those of the    *)
(* version before, changed by its delta.                                   *)
(***************************************************************************)
LogExplains ==
  /\ version \in Nat
  /\ rules \subseteq Rule
  /\ hist \in Seq(SUBSET Rule) /\ Len(hist) = version + 1
  /\ log \in Seq(DB!Delta) /\ Len(log) = version
  /\ PolicyAt(version) = rules
  /\ \A v \in 1 .. version : PolicyAt(v) = DB!ApplyRules(PolicyAt(v - 1), log[v])

(***************************************************************************)
(* Nothing on the way is of a version that was not committed.              *)
(***************************************************************************)
Committed ==
  /\ sent \in Known /\ lastVer \in Known
  /\ redis \in Seq(Known) /\ events \in Seq(Known)
  /\ wire \in Seq(Event)

(***************************************************************************)
(* A snapshot being pulled is not older than the engine, and its rules are *)
(* those of the version they were read at, which is not older than the     *)
(* version it goes by.                                                     *)
(***************************************************************************)
SnapshotSound ==
  /\ pc \in {"pull", "rules", "apply", "subscribe", "consume"}
  /\ snap \in [version : Known, rules : SUBSET Rule, readAt : Known]
  /\ pc \in {"rules", "apply"} => engine.version <= snap.version
  /\ pc = "apply" => snap.version <= snap.readAt /\ snap.rules = PolicyAt(snap.readAt)

(***************************************************************************)
(* Each rule stands in the engine as it does in the policy of the engine's *)
(* version, or else, as long as the horizon is ahead, as it does in the    *)
(* policy of the horizon.  Applying the delta of the next version moves    *)
(* rules from the second kind to the first, never back.                    *)
(***************************************************************************)
Agrees(r, v) == r \in engine.rules <=> r \in PolicyAt(v)

EngineSound ==
  /\ engine \in [version : Known, rules : SUBSET Rule, ready : BOOLEAN]
  /\ horizon \in Known
  /\ engine.ready =>
       \A r \in Rule :
         Agrees(r, engine.version) \/ (engine.version < horizon /\ Agrees(r, horizon))

IInv ==
  /\ LogExplains
  /\ Committed
  /\ SnapshotSound
  /\ EngineSound

-----------------------------------------------------------------------------
(* What a step leaves alone keeps what is said of it. *)

(***************************************************************************)
(* What the log says of past versions, while the database does not change. *)
(***************************************************************************)
LEMMA LogFrame ==
  ASSUME LogExplains, UNCHANGED dbVars
  PROVE  LogExplains' /\ Known' = Known /\ Event' = Event
BY DEF LogExplains, dbVars, PolicyAt, Known, Event

(***************************************************************************)
(* The deltas of the log add rules.                                        *)
(***************************************************************************)
LEMMA LogAdds ==
  ASSUME IInv, NEW v \in 1 .. version
  PROVE  log[v].adds \subseteq Rule
<1>1. log[v] \in DB!Delta
  BY ElementOfSeq DEF IInv, LogExplains
<1> QED
  BY <1>1 DEF DB!Delta

(***************************************************************************)
(* What is on its way was committed, while nothing of the feed moves.      *)
(***************************************************************************)
LEMMA FeedFrame ==
  ASSUME Committed, UNCHANGED <<version, feedVars, lastVer, events, wire>>
  PROVE  Committed'
BY DEF Committed, Known, Event, feedVars

(***************************************************************************)
(* Snapshot and engine are sound, while neither they nor the database      *)
(* change.                                                                 *)
(***************************************************************************)
LEMMA ClientFrame ==
  ASSUME SnapshotSound, EngineSound, UNCHANGED <<dbVars, clientVars>>
  PROVE  SnapshotSound' /\ EngineSound'
BY DEF SnapshotSound, EngineSound, Agrees, dbVars, clientVars, PolicyAt, Known

-----------------------------------------------------------------------------
(***************************************************************************)
(* A commit: the log grows by the delta that explains the new version, and *)
(* what was said of the versions before stays true.                        *)
(***************************************************************************)
LEMMA CommitStep ==
  ASSUME IInv, Commit
  PROVE  IInv'
<1>1. PICK adds \in SUBSET (Rule \ rules), removes \in SUBSET rules :
        DB!Publish([version |-> version + 1, adds |-> adds, removes |-> removes, data |-> NoData])
  BY DEF Commit
<1> DEFINE d == [version |-> version + 1, adds |-> adds, removes |-> removes, data |-> NoData]
<1>2. /\ d \in DB!Delta
      /\ version' = version + 1
      /\ rules' = DB!ApplyRules(rules, d)
      /\ log' = Append(log, d)
      /\ d.adds \subseteq Rule
  BY <1>1 DEF DB!Publish
<1> HIDE DEF d
<1>3. /\ hist' = Append(hist, rules')
      /\ UNCHANGED <<sent, redis, stream, lastVer, events, overflow, ticks, wire, pc, snap, engine,
                     horizon, misled, faults>>
  BY DEF Commit, feedVars, streamVars, clientVars
<1>4. version \in Nat /\ rules \subseteq Rule /\ rules' \in SUBSET Rule
  BY <1>2 DEF IInv, LogExplains, DB!ApplyRules
<1>5. /\ hist' \in Seq(SUBSET Rule) /\ Len(hist') = version' + 1
      /\ \A i \in 1 .. version + 1 : hist'[i] = hist[i]
      /\ hist'[version + 2] = rules'
  BY <1>2, <1>3, <1>4 DEF IInv, LogExplains
<1>6. /\ log' \in Seq(DB!Delta) /\ Len(log') = version'
      /\ \A i \in 1 .. version : log'[i] = log[i]
      /\ log'[version + 1] = d
  BY <1>2, <1>4 DEF IInv, LogExplains
<1>7. /\ \A v \in Known : PolicyAt(v)' = PolicyAt(v)
      /\ PolicyAt(version)' = rules'
  BY <1>2, <1>4, <1>5 DEF PolicyAt, Known
<1>8. LogExplains'
  <2>1. ASSUME NEW v \in 1 .. version'
        PROVE  PolicyAt(v)' = DB!ApplyRules(PolicyAt(v - 1)', log'[v])
    <3>1. CASE v \in 1 .. version
      <4>1. v \in Known /\ v - 1 \in Known
        BY <3>1, <1>4 DEF Known
      <4> QED
        BY <3>1, <4>1, <1>6, <1>7 DEF IInv, LogExplains
    <3>2. CASE v = version + 1
      <4>1. v - 1 = version /\ version \in Known
        BY <3>2, <1>4 DEF Known
      <4>2. PolicyAt(v - 1)' = rules /\ log'[v] = d /\ PolicyAt(v)' = rules'
        BY <3>2, <4>1, <1>2, <1>6, <1>7 DEF IInv, LogExplains, PolicyAt
      <4> QED
        BY <4>2, <1>2
    <3>3. v \in 1 .. version \/ v = version + 1
      BY <1>2, <1>4
    <3> QED
      BY <3>1, <3>2, <3>3
  <2>2. (PolicyAt(version) = rules)'
    BY <1>7
  <2>3. (\A v \in 1 .. version : PolicyAt(v) = DB!ApplyRules(PolicyAt(v - 1), log[v]))'
    BY <2>1 DEF DB!ApplyRules
  <2>4. version' \in Nat
    BY <1>2, <1>4
  <2> QED
    BY <1>4, <1>5, <1>6, <2>2, <2>3, <2>4 DEF LogExplains
<1>9. Known \subseteq Known' /\ Event \subseteq Event'
  BY <1>2, <1>4 DEF Known, Event
<1>10. Committed'
  BY <1>3, <1>9, SeqMonotonic DEF IInv, Committed
<1>11. SnapshotSound'
  BY <1>3, <1>7, <1>9 DEF IInv, SnapshotSound
<1>12. EngineSound'
  BY <1>3, <1>7, <1>9 DEF IInv, EngineSound, Agrees
<1> QED
  BY <1>8, <1>10, <1>11, <1>12 DEF IInv

(***************************************************************************)
(* The relay, Redis, the hub and the stream only pass on versions that     *)
(* were committed, whatever they lose, repeat or drop.                     *)
(***************************************************************************)
LEMMA FeedStep ==
  ASSUME IInv,
         Broadcast \/ LoseMessage \/ Dispatch \/ ServerStep \/ BreakStream
  PROVE  IInv'
<1>1. UNCHANGED <<dbVars, clientVars>>
  BY DEF Broadcast, LoseMessage, Dispatch, ServerStep, SubscribeRead, SubscribeRegister,
         SendDelta, SendOverflow, SendHeartbeat, BreakStream
<1>2. /\ version \in Nat /\ version \in Known /\ Known \subseteq Nat
      /\ Committed /\ Known' = Known /\ Event' = Event
  BY <1>1, LogFrame DEF IInv, LogExplains, Known
<1>3. ASSUME NEW v \in Known
      PROVE  DeltaEvent(v) \in Event /\ Heartbeat(v) \in Event /\ SnapshotRequired(v) \in Event
  BY DEF DeltaEvent, Heartbeat, SnapshotRequired, Event
<1>4. CASE Broadcast
  <2>1. PICK v \in 1 .. sent + 1 : /\ v <= version
                                  /\ redis' = Append(redis, v)
                                  /\ sent' = IF v > sent THEN v ELSE sent
    BY <1>4 DEF Broadcast
  <2>2. v \in Known
    BY <1>2, <2>1 DEF Known, Committed
  <2>3. UNCHANGED <<lastVer, events, wire>>
    BY <1>4 DEF Broadcast, streamVars
  <2>4. Committed'
    BY <1>2, <2>1, <2>2, <2>3 DEF Committed
  <2> QED
    BY <1>1, <2>4, LogFrame, ClientFrame DEF IInv
<1>5. CASE LoseMessage
  <2>1. /\ redis # << >> /\ redis' = Tail(redis)
        /\ UNCHANGED <<sent, lastVer, events, wire>>
    BY <1>5 DEF LoseMessage, streamVars
  <2>2. redis' \in Seq(Known)
    BY <1>2, <2>1, HeadTailProperties DEF Committed
  <2>3. Committed'
    BY <1>2, <2>1, <2>2 DEF Committed
  <2> QED
    BY <1>1, <2>3, LogFrame, ClientFrame DEF IInv
<1>6. CASE Dispatch
  <2>1. /\ redis # << >> /\ redis' = Tail(redis)
        /\ events' = events \/ events' = Append(events, Head(redis))
        /\ UNCHANGED <<sent, lastVer, wire>>
    BY <1>6 DEF Dispatch
  <2>2. redis' \in Seq(Known) /\ Head(redis) \in Known
    BY <1>2, <2>1, HeadTailProperties DEF Committed
  <2>3. events' \in Seq(Known)
    <3>1. events \in Seq(Known)
      BY <1>2 DEF Committed
    <3>2. Append(events, Head(redis)) \in Seq(Known)
      BY <2>2, <3>1, AppendProperties
    <3> QED
      BY <2>1, <3>1, <3>2
  <2>4. Committed'
    BY <1>2, <2>1, <2>2, <2>3 DEF Committed
  <2> QED
    BY <1>1, <2>4, LogFrame, ClientFrame DEF IInv
<1>7. CASE SubscribeRead
  <2>1. Committed'
    BY <1>2, <1>7 DEF SubscribeRead, Committed, feedVars
  <2> QED
    BY <1>1, <2>1, LogFrame, ClientFrame DEF IInv
<1>8. CASE SubscribeRegister
  <2>1. /\ events' = << >>
        /\ wire' = wire \/ wire' = Append(wire, SnapshotRequired(lastVer))
        /\ UNCHANGED <<sent, redis, lastVer>>
    BY <1>8 DEF SubscribeRegister, feedVars
  <2>2. Committed'
    BY <1>2, <1>3, <2>1 DEF Committed
  <2> QED
    BY <1>1, <2>2, LogFrame, ClientFrame DEF IInv
<1>9. CASE SendDelta
  <2>1. /\ events # << >> /\ events' = Tail(events) /\ lastVer' = Head(events)
        /\ wire' = Append(wire, DeltaEvent(Head(events)))
        /\ UNCHANGED <<sent, redis>>
    BY <1>9 DEF SendDelta, feedVars
  <2>2. events' \in Seq(Known) /\ Head(events) \in Known
    BY <1>2, <2>1, HeadTailProperties DEF Committed
  <2>3. wire' \in Seq(Event)
    BY <1>2, <1>3, <2>1, <2>2, AppendProperties DEF Committed
  <2>4. Committed'
    BY <1>2, <2>1, <2>2, <2>3 DEF Committed
  <2> QED
    BY <1>1, <2>4, LogFrame, ClientFrame DEF IInv
<1>10. CASE SendOverflow
  <2>1. wire' = Append(wire, SnapshotRequired(lastVer)) /\ UNCHANGED <<sent, redis, lastVer, events>>
    BY <1>10 DEF SendOverflow, feedVars
  <2>2. Committed'
    BY <1>2, <1>3, <2>1 DEF Committed
  <2> QED
    BY <1>1, <2>2, LogFrame, ClientFrame DEF IInv
<1>11. CASE SendHeartbeat
  <2>1. /\ lastVer' = lastVer \/ lastVer' = version
        /\ wire' = Append(wire, Heartbeat(lastVer')) /\ UNCHANGED <<sent, redis, events>>
    BY <1>11 DEF SendHeartbeat, feedVars
  <2>2. lastVer' \in Known
    BY <1>2, <2>1 DEF Committed
  <2>3. Committed'
    BY <1>2, <1>3, <2>1, <2>2 DEF Committed
  <2> QED
    BY <1>1, <2>3, LogFrame, ClientFrame DEF IInv
<1>12. CASE BreakStream
  <2>1. PICK n \in 0 .. Len(wire) : wire' = SubSeq(wire, 1, n)
    BY <1>12 DEF BreakStream
  <2>2. wire' \in Seq(Event)
    BY <1>2, <2>1, SubSeqProperties, ElementOfSeq DEF Committed
  <2>3. events' = << >> /\ UNCHANGED <<sent, redis, lastVer>>
    BY <1>12 DEF BreakStream, feedVars
  <2>4. Committed'
    BY <1>2, <2>2, <2>3 DEF Committed
  <2> QED
    BY <1>1, <2>4, LogFrame, ClientFrame DEF IInv
<1> QED
  BY <1>4, <1>5, <1>6, <1>7, <1>8, <1>9, <1>10, <1>11, <1>12 DEF ServerStep

-----------------------------------------------------------------------------
(* The SyncClient. *)

(***************************************************************************)
(* PullSnapshot: both reads see what is committed, the rules not before    *)
(* the version.                                                            *)
(***************************************************************************)
LEMMA PullStep ==
  ASSUME IInv, PullVersion \/ PullRules
  PROVE  IInv'
<1>1. UNCHANGED <<version, rules, hist, log, sent, redis, lastVer, events, wire, engine, horizon>>
  BY DEF PullVersion, PullRules, dbVars, feedVars, streamVars
<1>2. LogExplains' /\ Known' = Known
  BY <1>1 DEF IInv, LogExplains, PolicyAt, Known
<1>3. Committed'
  BY <1>1, FeedFrame DEF IInv, feedVars
<1>4. EngineSound'
  BY <1>1 DEF IInv, EngineSound, Agrees, PolicyAt, Known
<1>5. version \in Known /\ engine.version <= version /\ engine.version \in Nat /\ version \in Nat
  BY DEF IInv, LogExplains, EngineSound, Known
<1>6. SnapshotSound'
  <2>1. CASE PullVersion
    BY <1>1, <1>2, <1>5, <2>1 DEF PullVersion, IInv, SnapshotSound
  <2>2. CASE PullRules
    <3>1. /\ pc = "rules" /\ pc' = "apply"
          /\ snap' = [snap EXCEPT !.rules = rules, !.readAt = version]
      BY <2>2 DEF PullRules
    <3>2. /\ snap' \in [version : Known, rules : SUBSET Rule, readAt : Known]
          /\ snap'.version = snap.version /\ snap'.rules = rules /\ snap'.readAt = version
      BY <3>1, <1>5 DEF IInv, SnapshotSound, LogExplains
    <3>3. engine.version <= snap.version /\ snap.version <= version
      BY <3>1, <1>5 DEF IInv, SnapshotSound, Known
    <3>4. PolicyAt(version)' = rules
      BY <1>1 DEF IInv, LogExplains, PolicyAt
    <3> QED
      BY <1>1, <1>2, <3>1, <3>2, <3>3, <3>4 DEF SnapshotSound, PolicyAt
  <2> QED
    BY <2>1, <2>2
<1> QED
  BY <1>2, <1>3, <1>4, <1>6 DEF IInv

(***************************************************************************)
(* The engine takes the snapshot over: its rules are those of the horizon. *)
(***************************************************************************)
LEMMA ApplySnapshotStep ==
  ASSUME IInv, ApplySnapshot
  PROVE  IInv'
<1>1. /\ pc = "apply" /\ pc' \in {"subscribe", "consume"}
      /\ engine' = [version |-> snap.version, rules |-> snap.rules, ready |-> TRUE]
      /\ horizon' = snap.readAt /\ snap' = NoSnapshot
      /\ UNCHANGED <<version, rules, hist, log, sent, redis, lastVer, events, wire>>
  BY DEF ApplySnapshot, dbVars, feedVars, streamVars
<1>2. LogExplains' /\ Known' = Known /\ 0 \in Known /\ Known \subseteq Nat
  BY <1>1 DEF IInv, LogExplains, PolicyAt, Known
<1>3. Committed'
  BY <1>1, FeedFrame DEF IInv, feedVars
<1>4. SnapshotSound'
  BY <1>1, <1>2 DEF SnapshotSound, NoSnapshot
<1>5. /\ snap.version \in Known /\ snap.rules \subseteq Rule /\ snap.readAt \in Known
      /\ snap.version <= snap.readAt /\ snap.rules = PolicyAt(snap.readAt)
  BY <1>1 DEF IInv, SnapshotSound
<1>6. EngineSound'
  <2>1. /\ engine' \in [version : Known, rules : SUBSET Rule, ready : BOOLEAN]
        /\ horizon' \in Known
    BY <1>1, <1>5
  <2>2. engine'.rules = snap.rules /\ engine'.version = snap.version /\ horizon' = snap.readAt
    BY <1>1
  <2>3. engine'.rules = hist'[horizon' + 1]
    BY <1>1, <1>5, <2>2 DEF PolicyAt
  <2>4. snap.version < snap.readAt \/ snap.version = snap.readAt
    <3>1. snap.version \in Nat /\ snap.readAt \in Nat /\ snap.version <= snap.readAt
      BY <1>2, <1>5
    <3> QED
      BY <3>1
  <2> QED
    BY <1>2, <2>1, <2>2, <2>3, <2>4 DEF EngineSound, Agrees, PolicyAt
<1> QED
  BY <1>2, <1>3, <1>4, <1>6 DEF IInv

(***************************************************************************)
(* What ends connectAndServe, and a restart: the client starts over with a *)
(* pull, and an engine that is unchanged, not ready, or empty.             *)
(***************************************************************************)
LEMMA ReconnectStep ==
  ASSUME IInv, PullFails \/ SnapshotFails \/ ReceiveError \/ Restart
  PROVE  IInv'
<1>1. /\ pc' = "pull" /\ snap' = NoSnapshot /\ events' = << >> /\ wire' = << >>
      /\ UNCHANGED <<version, rules, hist, log, sent, redis, lastVer>>
  BY DEF PullFails, SnapshotFails, ReceiveError, Restart, Reconnect, dbVars, feedVars
<1>2. LogExplains' /\ Known' = Known /\ Event' = Event /\ 0 \in Known
  BY <1>1 DEF IInv, LogExplains, PolicyAt, Known, Event
<1>3. Committed'
  BY <1>1, <1>2 DEF IInv, Committed
<1>4. SnapshotSound'
  BY <1>1, <1>2 DEF SnapshotSound, NoSnapshot
<1>5. EngineSound'
  <2>1. CASE PullFails \/ ReceiveError
    BY <1>1, <2>1 DEF PullFails, ReceiveError, IInv, EngineSound, Agrees, PolicyAt, Known
  <2>2. CASE SnapshotFails
    <3>1. PICK part \in SUBSET snap.rules : engine' = [engine EXCEPT !.rules = part, !.ready = FALSE]
      BY <2>2 DEF SnapshotFails
    <3>2. horizon' = horizon /\ snap.rules \subseteq Rule
      BY <2>2 DEF SnapshotFails, IInv, SnapshotSound
    <3>3. engine' \in [version : Known, rules : SUBSET Rule, ready : BOOLEAN] /\ engine'.ready = FALSE
      BY <3>1, <3>2 DEF IInv, EngineSound
    <3> QED
      BY <1>2, <3>2, <3>3 DEF IInv, EngineSound
  <2>3. CASE Restart
    BY <1>2, <2>3 DEF Restart, EmptyEngine, EngineSound
  <2> QED
    BY <2>1, <2>2, <2>3
<1> QED
  BY <1>2, <1>3, <1>4, <1>5 DEF IInv

(***************************************************************************)
(* The server answers a subscription from the log or asks for a snapshot:  *)
(* either way what it puts on the wire was committed.                      *)
(***************************************************************************)
LEMMA SubscribeStep ==
  ASSUME IInv, Subscribe
  PROVE  IInv'
<1>1. /\ pc' = "consume"
      /\ UNCHANGED <<version, rules, hist, log, data, sent, redis, lastVer, events, wire, snap,
                     engine, horizon>>
  BY DEF Subscribe, dbVars, feedVars
<1>2. LogExplains' /\ EngineSound' /\ SnapshotSound'
  BY <1>1 DEF IInv, LogExplains, EngineSound, SnapshotSound, Agrees, PolicyAt, Known
<1> QED
  BY <1>1, <1>2, FeedFrame DEF IInv, feedVars

(***************************************************************************)
(* The delta of the next version: a rule it touches is from then on as in  *)
(* the policy of that version, and any other is as it was, in the engine   *)
(* and in the policy.  A rule that agreed with the horizon still does, and *)
(* when the horizon is reached that is the policy of the version.          *)
(***************************************************************************)
LEMMA DeltaAgrees ==
  ASSUME IInv, engine.ready, engine.version + 1 \in Known, UNCHANGED <<hist, horizon>>,
         engine' = [engine EXCEPT !.version = engine.version + 1,
                                  !.rules = DB!ApplyRules(engine.rules, log[engine.version + 1])],
         NEW r \in Rule
  PROVE  Agrees(r, engine.version)' \/ (engine'.version < horizon' /\ Agrees(r, horizon)')
<1> DEFINE v == engine.version
           d == log[v + 1]
<1>1. v \in Nat /\ horizon \in Nat /\ v + 1 \in 1 .. version
  BY DEF IInv, EngineSound, LogExplains, Known
<1>2. PolicyAt(v + 1) = DB!ApplyRules(PolicyAt(v), d)
  <2>1. (v + 1) - 1 = v
    BY <1>1
  <2> QED
    BY <1>1, <2>1 DEF IInv, LogExplains
<1>3. /\ engine'.version = v + 1
      /\ r \in engine'.rules <=> (r \in engine.rules /\ r \notin d.removes) \/ r \in d.adds
  BY DEF DB!ApplyRules, IInv, EngineSound
<1>4. r \in PolicyAt(v + 1) <=> (r \in PolicyAt(v) /\ r \notin d.removes) \/ r \in d.adds
  BY <1>2 DEF DB!ApplyRules
<1> HIDE DEF v, d
<1>5. Agrees(r, v) \/ (v < horizon /\ Agrees(r, horizon))
  BY DEF IInv, EngineSound, v
<1>6. Agrees(r, engine.version)' <=> (r \in engine'.rules <=> r \in PolicyAt(v + 1))
  BY <1>3 DEF Agrees, PolicyAt
<1>7. Agrees(r, horizon)' <=> (r \in engine'.rules <=> r \in PolicyAt(horizon))
  BY DEF Agrees, PolicyAt
<1>8. CASE r \in d.adds \cup d.removes \/ Agrees(r, v)
  BY <1>3, <1>4, <1>6, <1>8 DEF Agrees
<1>9. CASE r \notin d.adds \cup d.removes /\ v < horizon /\ Agrees(r, horizon)
  <2>1. r \in engine'.rules <=> r \in PolicyAt(horizon)
    BY <1>3, <1>9 DEF Agrees
  <2>2. v + 1 = horizon \/ v + 1 < horizon
    BY <1>1, <1>9 DEF v
  <2> QED
    BY <1>3, <1>6, <1>7, <2>1, <2>2
<1> QED
  BY <1>5, <1>8, <1>9

(***************************************************************************)
(* The client applies a delta only if it is the next one, so whatever      *)
(* message it takes, its engine stays sound.                               *)
(***************************************************************************)
LEMMA ReceiveStep ==
  ASSUME IInv, ReceiveDelta \/ DeltaFails \/ ReceiveHeartbeat \/ ReceiveSnapshotRequired
  PROVE  IInv'
<1> DEFINE e == Head(wire)
<1>1. /\ pc = "consume" /\ wire # << >> /\ wire' = Tail(wire)
      /\ UNCHANGED <<version, rules, hist, log, sent, redis, lastVer, events, horizon, snap>>
  BY DEF ReceiveDelta, DeltaFails, ReceiveHeartbeat, ReceiveSnapshotRequired, Receive, Resync,
         MarkSync, dbVars, feedVars, streamVars, clientVars
<1>2. LogExplains' /\ Known' = Known /\ Event' = Event
  BY <1>1 DEF IInv, LogExplains, PolicyAt, Known, Event
<1>3. wire' \in Seq(Event) /\ e \in Event
  BY <1>1, HeadTailProperties DEF IInv, Committed
<1>4. Committed'
  BY <1>1, <1>2, <1>3 DEF IInv, Committed
<1>5. pc' \in {"pull", "consume"}
  BY <1>1 DEF ReceiveDelta, DeltaFails, ReceiveHeartbeat, ReceiveSnapshotRequired, Resync,
              MarkSync, clientVars
<1>6. SnapshotSound'
  BY <1>1, <1>2, <1>5 DEF IInv, SnapshotSound
<1>7. EngineSound'
  <2>1. CASE engine' = engine
    BY <1>1, <2>1 DEF IInv, EngineSound, Agrees, PolicyAt, Known
  <2>2. ASSUME e.version = engine.version + 1,
               engine' = [engine EXCEPT !.version = e.version,
                                        !.rules = DB!ApplyRules(@, log[e.version])]
        PROVE  EngineSound'
    <3>1. /\ engine.version + 1 \in Known /\ engine.version + 1 \in 1 .. version
      BY <1>3, <2>2 DEF Event, Known, IInv, EngineSound, LogExplains
    <3>2. log[engine.version + 1].adds \subseteq Rule
      BY <3>1, LogAdds
    <3>3. engine' = [engine EXCEPT !.version = engine.version + 1,
                                   !.rules = DB!ApplyRules(engine.rules, log[engine.version + 1])]
      BY <2>2
    <3>4. /\ engine' \in [version : Known, rules : SUBSET Rule, ready : BOOLEAN]
          /\ engine'.ready = engine.ready
      BY <3>1, <3>2, <3>3 DEF IInv, EngineSound, DB!ApplyRules
    <3>5. engine'.ready =>
            \A r \in Rule :
              Agrees(r, engine.version)' \/ (engine'.version < horizon' /\ Agrees(r, horizon)')
      BY <1>1, <3>1, <3>3, <3>4, DeltaAgrees
    <3> QED
      BY <1>1, <1>2, <3>4, <3>5 DEF IInv, EngineSound
  <2>3. CASE DeltaFails
    <3>1. PICK adds \in SUBSET log[e.version].adds, removes \in SUBSET log[e.version].removes :
            engine' = [engine EXCEPT !.rules = (@ \ removes) \cup adds, !.ready = FALSE]
      BY <2>3 DEF DeltaFails
    <3>2. e.version \in 1 .. version
      <4>1. e.version = engine.version + 1
        BY <2>3 DEF DeltaFails
      <4>2. e.version \in Known /\ engine.version \in Known /\ version \in Nat
        BY <1>3 DEF Event, IInv, EngineSound, LogExplains
      <4> QED
        BY <4>1, <4>2 DEF Known
    <3>3. log[e.version].adds \subseteq Rule
      BY <3>2, LogAdds
    <3>4. engine' \in [version : Known, rules : SUBSET Rule, ready : BOOLEAN] /\ engine'.ready = FALSE
      BY <3>1, <3>3 DEF IInv, EngineSound
    <3> QED
      BY <1>1, <1>2, <3>4 DEF IInv, EngineSound
  <2> QED
    BY <2>1, <2>2, <2>3 DEF ReceiveDelta, ReceiveHeartbeat, ReceiveSnapshotRequired, Resync,
                            MarkSync, clientVars
<1> QED
  BY <1>2, <1>4, <1>6, <1>7 DEF IInv

-----------------------------------------------------------------------------
(***************************************************************************)
(* The invariant holds at the start and through every commit, loss,        *)
(* repetition, overflow, failure, reconnection and restart.                *)
(***************************************************************************)
THEOREM Invariance == Spec => []IInv
<1>1. Init => IInv
  <2> SUFFICES ASSUME Init PROVE IInv
    OBVIOUS
  <2>1. /\ version = 0 /\ rules = {} /\ log = << >> /\ hist = << {} >>
        /\ sent = 0 /\ redis = << >> /\ lastVer = 0 /\ events = << >> /\ wire = << >>
        /\ pc = "pull" /\ snap = NoSnapshot /\ engine = EmptyEngine /\ horizon = 0
    BY DEF Init, DB!Init
  <2>2. LogExplains
    BY <2>1 DEF LogExplains, PolicyAt
  <2>3. Committed
    BY <2>1 DEF Committed, Known
  <2>4. SnapshotSound /\ EngineSound
    BY <2>1 DEF SnapshotSound, EngineSound, NoSnapshot, EmptyEngine, Known
  <2> QED
    BY <2>2, <2>3, <2>4 DEF IInv
<1>2. IInv /\ [Next]_vars => IInv'
  <2> SUFFICES ASSUME IInv, [Next]_vars PROVE IInv'
    OBVIOUS
  <2>1. CASE UNCHANGED vars
    BY <2>1, LogFrame, FeedFrame, ClientFrame DEF vars, IInv, dbVars, feedVars, streamVars
  <2>2. CASE ClientStep
    BY <2>2, PullStep, ApplySnapshotStep, SubscribeStep, ReceiveStep, ReconnectStep
       DEF ClientStep
  <2> QED
    BY <2>1, <2>2, CommitStep, FeedStep, ReconnectStep, ReceiveStep DEF Next
<1> QED
  BY <1>1, <1>2, PTL DEF Spec

(***************************************************************************)
(* An engine that has reached the version its snapshot's rules were read   *)
(* at holds exactly the rules of its version (PullSnapshot, handleDelta).  *)
(***************************************************************************)
THEOREM SettledTheorem == Spec => []SettledEngine
<1>1. IInv => SettledEngine
  <2> SUFFICES ASSUME IInv, engine.ready, engine.version >= horizon
               PROVE  engine.rules = PolicyAt(engine.version)
    BY DEF SettledEngine
  <2>1. engine.version \in Nat /\ horizon \in Nat /\ engine.rules \subseteq Rule
    BY DEF IInv, EngineSound, LogExplains, Known
  <2>2. PolicyAt(engine.version) \subseteq Rule
    <3>1. engine.version + 1 \in 1 .. Len(hist)
      BY DEF IInv, EngineSound, LogExplains, Known
    <3> QED
      BY <3>1, ElementOfSeq DEF IInv, LogExplains, PolicyAt
  <2>3. \A r \in Rule : Agrees(r, engine.version)
    <3>1. ~(engine.version < horizon)
      BY <2>1
    <3> QED
      BY <3>1 DEF IInv, EngineSound
  <2> QED
    BY <2>1, <2>2, <2>3 DEF Agrees
<1> QED
  BY <1>1, Invariance, PTL

(***************************************************************************)
(* Until then every rule it enforces, and every rule it lacks, is          *)
(* explained by a version between its own and the horizon.                 *)
(***************************************************************************)
THEOREM BetweenTheorem == Spec => []BetweenVersions
<1>1. IInv => BetweenVersions
  <2> SUFFICES ASSUME IInv, engine.ready, NEW r \in Rule
               PROVE  \E v \in Span : Agrees(r, v)
    BY DEF BetweenVersions, Agrees, IInv, EngineSound
  <2>1. engine.version \in Nat /\ horizon \in Nat
    BY DEF IInv, EngineSound, LogExplains, Known
  <2>2. /\ engine.version \in Span
        /\ engine.version < horizon => horizon \in Span
    BY <2>1 DEF Span
  <2> QED
    BY <2>2 DEF IInv, EngineSound
<1> QED
  BY <1>1, Invariance, PTL

(***************************************************************************)
(* The engine's version never goes back, except in a restart: a snapshot   *)
(* is pulled after the deltas that were applied before it.                 *)
(***************************************************************************)
THEOREM ForwardTheorem == Spec => NeverBackwards
<1>1. IInv /\ [Next]_vars => [engine'.version >= engine.version \/ engine' = EmptyEngine]_engine
  <2> SUFFICES ASSUME IInv, [Next]_vars, engine' # engine
               PROVE  engine'.version >= engine.version \/ engine' = EmptyEngine
    OBVIOUS
  <2>1. engine.version \in Nat /\ snap.version \in Nat
    BY DEF IInv, EngineSound, SnapshotSound, LogExplains, Known
  <2>2. CASE ApplySnapshot
    BY <2>1, <2>2 DEF ApplySnapshot, IInv, SnapshotSound
  <2>3. CASE ReceiveDelta
    <3>1. engine'.version = engine.version + 1
      BY <2>3 DEF ReceiveDelta, Resync, clientVars, IInv, EngineSound
    <3> QED
      BY <2>1, <3>1
  <2>4. CASE SnapshotFails \/ DeltaFails
    <3>1. engine'.version = engine.version
      BY <2>4 DEF SnapshotFails, DeltaFails, IInv, EngineSound
    <3> QED
      BY <2>1, <3>1
  <2>5. CASE Restart
    BY <2>5 DEF Restart
  <2> QED
    BY <2>2, <2>3, <2>4, <2>5
       DEF Next, ServerStep, ClientStep, vars, clientVars, Commit, Broadcast, LoseMessage,
           Dispatch, SubscribeRead, SubscribeRegister, SendDelta, SendOverflow, SendHeartbeat,
           BreakStream, PullVersion, PullRules, PullFails, Subscribe, ReceiveHeartbeat, Resync,
           MarkSync, ReceiveSnapshotRequired, ReceiveError
<1> QED
  BY <1>1, Invariance, PTL DEF Spec, NeverBackwards

-----------------------------------------------------------------------------
(* How long a sidecar can be misled. *)

Beats(w, k) == {i \in 1 .. k : w[i].type = "heartbeat"}

(***************************************************************************)
(* An event that makes the client pull or advance when it is received.     *)
(***************************************************************************)
Fresh(e) == e.type = "snapshotRequired" \/ e.version > engine.version

StaleUpTo(k) == \A i \in 1 .. k : ~Fresh(wire[i])

(***************************************************************************)
(* The heartbeats that were taken as a sign of being current, and those    *)
(* under way that will be, are at most those that were under way when the  *)
(* engine fell behind and those the handler has sent since.  It sends less *)
(* than ReconcileEvery of them between two reads of the version, and only  *)
(* a read that fails does not end the series.                              *)
(***************************************************************************)
Allowance == WireCap + ReconcileEvery * faults

Budget(k) ==
  Allowance + (IF k = Len(wire) /\ stream = "open" THEN ticks ELSE ReconcileEvery - 1)

StreamSound ==
  /\ stream \in {"none", "called", "read", "open", "broken"}
  /\ stream \in {"none", "called", "read"} => wire = << >> /\ misled = 0
  /\ pc = "subscribe" => stream = "none"
  /\ Len(wire) <= WireCap

MisledSound ==
  /\ ticks \in 0 .. ReconcileEvery - 1 /\ faults \in Nat /\ misled \in Nat
  /\ misled > 0 => pc = "consume" /\ engine.version < version
  /\ engine.version < version =>
       \A k \in 0 .. Len(wire) :
         StaleUpTo(k) => misled + Cardinality(Beats(wire, k)) <= Budget(k)

MInv == StreamSound /\ MisledSound

(***************************************************************************)
(* Counting the heartbeats of a prefix: at most its length; one more when  *)
(* one is appended; one less when one is received.                         *)
(***************************************************************************)
LEMMA BeatsBound ==
  ASSUME NEW w, NEW k \in Nat
  PROVE  /\ IsFiniteSet(Beats(w, k))
         /\ Cardinality(Beats(w, k)) \in Nat
         /\ Cardinality(Beats(w, k)) <= k
<1>1. IsFiniteSet(1 .. k) /\ Cardinality(1 .. k) = k
  BY FS_Interval
<1>2. Beats(w, k) \in SUBSET (1 .. k)
  BY DEF Beats
<1>3. IsFiniteSet(Beats(w, k)) /\ Cardinality(Beats(w, k)) <= Cardinality(1 .. k)
  BY <1>1, <1>2, FS_Subset
<1> QED
  BY <1>1, <1>3, FS_CardinalityType

(***************************************************************************)
(* One more message: one more heartbeat, if it is one.                     *)
(***************************************************************************)
LEMMA BeatsOfNext ==
  ASSUME NEW w, NEW k \in Nat
  PROVE  Cardinality(Beats(w, k + 1)) =
           Cardinality(Beats(w, k)) + (IF w[k + 1].type = "heartbeat" THEN 1 ELSE 0)
<1>1. /\ IsFiniteSet(Beats(w, k))
      /\ Cardinality(Beats(w, k)) \in Nat
  BY BeatsBound
<1>4. k + 1 \notin Beats(w, k)
  BY DEF Beats
<1>2. CASE w[k + 1].type = "heartbeat"
  <2>1. Beats(w, k + 1) = Beats(w, k) \cup {k + 1}
    BY <1>2 DEF Beats
  <2> QED
    BY <1>1, <1>2, <1>4, <2>1, FS_AddElement
<1>3. CASE w[k + 1].type # "heartbeat"
  <2>1. Beats(w, k + 1) = Beats(w, k)
    BY <1>3 DEF Beats
  <2> QED
    BY <1>1, <1>3, <2>1
<1> QED
  BY <1>2, <1>3

(***************************************************************************)
(* The count depends on the messages counted only.                         *)
(***************************************************************************)
LEMMA BeatsOfSame ==
  ASSUME NEW w, NEW x, NEW k \in Nat, \A i \in 1 .. k : x[i] = w[i]
  PROVE  Beats(x, k) = Beats(w, k)
BY DEF Beats

(***************************************************************************)
(* The message at the head leaves: one heartbeat less, if it was one.      *)
(***************************************************************************)
LEMMA BeatsOfTail ==
  ASSUME NEW w, NEW x, NEW k \in Nat, \A i \in 1 .. k : x[i] = w[i + 1]
  PROVE  Cardinality(Beats(w, k + 1)) =
           Cardinality(Beats(x, k)) + (IF w[1].type = "heartbeat" THEN 1 ELSE 0)
<1> DEFINE S == Beats(x, k)
           T == Beats(w, k + 1) \ {1}
           f == [i \in S |-> i + 1]
<1>1. IsFiniteSet(S) /\ Cardinality(S) \in Nat
  BY BeatsBound
<1>2. \A i \in S : i \in 1 .. k /\ i + 1 \in T
  BY DEF Beats
<1>3. \A j \in T : j - 1 \in S /\ (j - 1) + 1 = j
  <2> TAKE j \in T
  <2>1. j \in 1 .. k + 1 /\ j # 1 /\ w[j].type = "heartbeat"
    BY DEF Beats
  <2>2. j - 1 \in 1 .. k /\ (j - 1) + 1 = j
    BY <2>1
  <2>3. x[j - 1] = w[j]
    BY <2>2
  <2> QED
    BY <2>1, <2>2, <2>3 DEF Beats
<1>4. f \in Bijection(S, T)
  <2>1. f \in [S -> T]
    BY <1>2
  <2>2. \A i, j \in S : f[i] = f[j] => i = j
    BY <1>2
  <2>3. \A t \in T : \E i \in S : f[i] = t
    BY <1>3
  <2> QED
    BY <2>1, <2>2, <2>3 DEF Bijection, Injection, Surjection, IsInjective
<1>5. Cardinality(T) = Cardinality(S) /\ IsFiniteSet(T)
  BY <1>1, <1>4, FS_Bijection DEF ExistsBijection
<1>6. 1 \in Beats(w, k + 1) <=> w[1].type = "heartbeat"
  BY DEF Beats
<1>7. IsFiniteSet(Beats(w, k + 1)) /\ Cardinality(Beats(w, k + 1)) \in Nat
  BY BeatsBound
<1>8. Cardinality(T) = IF 1 \in Beats(w, k + 1) THEN Cardinality(Beats(w, k + 1)) - 1
                                                ELSE Cardinality(Beats(w, k + 1))
  BY <1>7, FS_RemoveElement
<1> HIDE DEF S, T
<1> QED
  BY <1>1, <1>5, <1>6, <1>7, <1>8 DEF S

-----------------------------------------------------------------------------
(***************************************************************************)
(* One more failure allows ReconcileEvery more heartbeats; the ticks count *)
(* up to ReconcileEvery and start over.                                    *)
(***************************************************************************)
LEMMA Products ==
  ASSUME NEW a \in Nat, NEW b \in Nat
  PROVE  a * b \in Nat /\ a * (b + 1) = a * b + a
<1>1. a * b \in Int /\ a * b >= 0
  OBVIOUS
<1>2. a * (b + 1) = a * b + a
  OBVIOUS
<1> QED
  BY <1>1, <1>2

(***************************************************************************)
(* How the reconciliation counter wraps around.                            *)
(***************************************************************************)
LEMMA Ticks ==
  ASSUME NEW m \in Nat \ {0}, NEW t \in 0 .. m - 1
  PROVE  (t + 1) % m = IF t + 1 = m THEN 0 ELSE t + 1
OBVIOUS

(***************************************************************************)
(* Each fault is worth one reconciliation period.                          *)
(***************************************************************************)
LEMMA AllowanceOK ==
  ASSUME faults \in Nat
  PROVE  /\ Allowance \in Nat /\ WireCap <= Allowance
         /\ faults' = faults => Allowance' = Allowance
         /\ faults' = faults + 1 => Allowance' = Allowance + ReconcileEvery
<1> DEFINE m == ReconcileEvery * faults
<1>1. m \in Nat /\ ReconcileEvery * (faults + 1) = m + ReconcileEvery
  BY Products, SyncAssumption
<1>2. Allowance = WireCap + m
  BY DEF Allowance
<1>3. faults' = faults + 1 => Allowance' = WireCap + (m + ReconcileEvery)
  BY <1>1 DEF Allowance
<1>4. faults' = faults => Allowance' = Allowance
  BY DEF Allowance
<1> HIDE DEF m
<1> QED
  BY <1>1, <1>2, <1>3, <1>4, SyncAssumption

(***************************************************************************)
(* The allowance, whatever the failures, covers a full stream.             *)
(***************************************************************************)
LEMMA AllowanceCovers ==
  ASSUME NEW f \in Nat
  PROVE  /\ WireCap + ReconcileEvery * f \in Nat
         /\ WireCap <= WireCap + ReconcileEvery * f
<1> DEFINE m == ReconcileEvery * f
<1>1. m \in Nat
  BY Products, SyncAssumption
<1> HIDE DEF m
<1>2. WireCap + m \in Nat /\ WireCap <= WireCap + m
  BY <1>1, SyncAssumption
<1> QED
  BY <1>2 DEF m

(***************************************************************************)
(* A client that has just pulled or advanced is within its budget, because *)
(* the stream holds at most WireCap events.                                *)
(***************************************************************************)
LEMMA FreshStart ==
  ASSUME misled' = 0, Len(wire') \in Nat, Len(wire') <= WireCap,
         ticks' \in 0 .. ReconcileEvery - 1, faults' \in Nat
  PROVE  MisledSound'
<1>1. ASSUME NEW k \in 0 .. Len(wire')
      PROVE  misled' + Cardinality(Beats(wire', k)) <= Budget(k)'
  <2>1. k \in Nat /\ k <= WireCap /\ ReconcileEvery \in Nat \ {0} /\ WireCap \in Nat
    BY SyncAssumption
  <2>2. Cardinality(Beats(wire', k)) \in Nat /\ Cardinality(Beats(wire', k)) <= k
    BY <2>1, BeatsBound
  <2>3. Allowance' \in Nat /\ WireCap <= Allowance'
    BY AllowanceCovers DEF Allowance
  <2>4. Budget(k)' \in {Allowance' + ticks', Allowance' + (ReconcileEvery - 1)}
    BY DEF Budget
  <2>5. Budget(k)' \in Int /\ Budget(k)' >= WireCap
    <3> HIDE DEF Allowance, Budget
    <3> QED
      BY <2>1, <2>3, <2>4
  <2> QED
    BY <2>1, <2>2, <2>5
<1> QED
  BY <1>1 DEF MisledSound

(***************************************************************************)
(* A step that leaves the stream and the engine alone, and may fail.       *)
(***************************************************************************)
LEMMA MisledFrame ==
  ASSUME MInv, UNCHANGED <<version, wire, engine, ticks, misled, faults, pc>>,
         stream' = stream \/ (stream # "open" /\ stream' # "open")
  PROVE  MisledSound'
<1>1. \A k : Budget(k)' = Budget(k)
  BY DEF Budget, Allowance
<1>2. \A k : StaleUpTo(k)' <=> StaleUpTo(k)
  BY DEF StaleUpTo, Fresh
<1> QED
  BY <1>1, <1>2 DEF MInv, MisledSound

(***************************************************************************)
(* The handler sends an event that is not a stale heartbeat, or one that   *)
(* the ticks or a failed read of the version account for.                  *)
(***************************************************************************)
LEMMA SendStep ==
  ASSUME MInv, IInv, NEW e \in Event, wire' = Append(wire, e), Len(wire) < WireCap,
         stream = "open", UNCHANGED <<version, engine, stream, misled, pc>>,
         ticks' \in 0 .. ReconcileEvery - 1, faults' \in {faults, faults + 1},
         e.type = "heartbeat" /\ ~Fresh(e) /\ engine.version < version =>
           ticks + Allowance + 1 <= ticks' + Allowance',
         e.type # "heartbeat" => UNCHANGED <<ticks, faults>>
  PROVE  MInv'
<1>1. wire \in Seq(Event)
  BY DEF IInv, Committed
<1>2. /\ Len(wire) \in Nat /\ Len(wire') = Len(wire) + 1
      /\ \A i \in 1 .. Len(wire) : wire'[i] = wire[i]
      /\ wire'[Len(wire) + 1] = e
  BY <1>1
<1>3. /\ WireCap \in Nat /\ ReconcileEvery \in Nat \ {0}
      /\ ticks \in 0 .. ReconcileEvery - 1 /\ faults \in Nat /\ misled \in Nat
      /\ Allowance \in Nat /\ Allowance' \in Nat /\ Allowance <= Allowance'
      /\ faults' \in Nat
  <2>1. /\ WireCap \in Nat /\ ReconcileEvery \in Nat \ {0}
        /\ ticks \in 0 .. ReconcileEvery - 1 /\ faults \in Nat /\ misled \in Nat
    BY SyncAssumption DEF MInv, MisledSound
  <2> QED
    BY <2>1, AllowanceOK
<1>4. StreamSound'
  BY <1>2, <1>3 DEF MInv, StreamSound
<1>5. ASSUME engine.version < version, NEW k \in 0 .. Len(wire'), StaleUpTo(k)'
      PROVE  misled + Cardinality(Beats(wire', k)) <= Budget(k)'
  <2>1. CASE k \in 0 .. Len(wire)
    <3>1. Beats(wire', k) = Beats(wire, k)
      <4>1. k \in Nat /\ \A i \in 1 .. k : wire'[i] = wire[i]
        BY <1>2, <2>1
      <4> QED
        BY <4>1, BeatsOfSame
    <3>2. StaleUpTo(k)
      BY <1>2, <1>5, <2>1 DEF StaleUpTo, Fresh
    <3>3. misled + Cardinality(Beats(wire, k)) <= Budget(k)
      BY <1>5, <2>1, <3>2 DEF MInv, MisledSound
    <3>4. Cardinality(Beats(wire, k)) \in Nat
      BY <2>1, BeatsBound
    <3>5. k # Len(wire')
      BY <1>2, <2>1
    <3>6. /\ Budget(k)' = Allowance' + (ReconcileEvery - 1)
          /\ Budget(k) \in {Allowance + ticks, Allowance + (ReconcileEvery - 1)}
      BY <3>5 DEF Budget
    <3> QED
      BY <1>3, <3>1, <3>3, <3>4, <3>6
  <2>2. CASE k = Len(wire) + 1
    <3> DEFINE n == Len(wire)
    <3>1. ~Fresh(e)
      <4>1. k \in 1 .. k
        BY <1>2, <2>2
      <4> QED
        BY <1>2, <1>5, <2>2, <4>1 DEF StaleUpTo, Fresh
    <3>2. StaleUpTo(n)
      BY <1>2, <1>5, <2>2 DEF StaleUpTo, Fresh
    <3>3. misled + Cardinality(Beats(wire, n)) <= Allowance + ticks
      BY <1>2, <1>5, <3>2 DEF MInv, MisledSound, Budget
    <3>4. Cardinality(Beats(wire', n + 1)) =
            Cardinality(Beats(wire', n)) + (IF e.type = "heartbeat" THEN 1 ELSE 0)
      BY <1>2, BeatsOfNext
    <3>5. Beats(wire', n) = Beats(wire, n)
      BY <1>2, BeatsOfSame
    <3>6. Cardinality(Beats(wire, n)) \in Nat
      BY <1>2, BeatsBound
    <3>7. Budget(k)' = Allowance' + ticks'
      BY <1>2, <2>2 DEF Budget
    <3>8. CASE e.type = "heartbeat"
      <4>1. ticks + Allowance + 1 <= ticks' + Allowance'
        BY <1>5, <3>1, <3>8
      <4>2. Cardinality(Beats(wire', k)) = Cardinality(Beats(wire, n)) + 1
        BY <2>2, <3>4, <3>5, <3>8
      <4> DEFINE b == Cardinality(Beats(wire, n))
                 c == Cardinality(Beats(wire', k))
                 next == ticks' + Allowance'
      <4>3. misled + b <= Allowance + ticks /\ ticks + Allowance + 1 <= next /\ c = b + 1
        BY <3>3, <4>1, <4>2
      <4>4. misled \in Int /\ ticks \in Int /\ Allowance \in Int /\ next \in Int /\ b \in Int
        BY <1>3, <3>6
      <4> HIDE DEF b, c, next
      <4>5. misled + c <= next
        BY <4>3, <4>4
      <4> QED
        BY <1>3, <3>7, <4>5 DEF c, next
    <3>9. CASE e.type # "heartbeat"
      <4>1. ticks' = ticks /\ Allowance' = Allowance
        BY <1>3, <3>9, AllowanceOK
      <4>2. Cardinality(Beats(wire', k)) = Cardinality(Beats(wire, n))
        BY <2>2, <3>4, <3>5, <3>6, <3>9
      <4> QED
        BY <3>3, <3>7, <4>1, <4>2
    <3> QED
      BY <3>8, <3>9
  <2> QED
    BY <1>2, <2>1, <2>2
<1>6. MisledSound'
  BY <1>3, <1>5 DEF MInv, MisledSound
<1> QED
  BY <1>4, <1>6 DEF MInv

(***************************************************************************)
(* The types the proofs below need, from both invariants.                  *)
(***************************************************************************)
LEMMA MisledTypes ==
  ASSUME MInv, IInv
  PROVE  /\ WireCap \in Nat \ {0} /\ ReconcileEvery \in Nat \ {0}
         /\ ticks \in 0 .. ReconcileEvery - 1 /\ faults \in Nat /\ misled \in Nat
         /\ wire \in Seq(Event) /\ Len(wire) \in Nat /\ Len(wire) <= WireCap
         /\ version \in Nat /\ engine.version \in Nat /\ engine.version <= version
         /\ engine.version = version => misled = 0
         /\ Allowance \in Nat
<1>1. /\ WireCap \in Nat \ {0} /\ ReconcileEvery \in Nat \ {0}
      /\ ticks \in 0 .. ReconcileEvery - 1 /\ faults \in Nat /\ misled \in Nat
      /\ wire \in Seq(Event) /\ Len(wire) <= WireCap
  BY SyncAssumption DEF MInv, MisledSound, StreamSound, IInv, Committed
<1>2. version \in Nat /\ engine.version \in Nat /\ engine.version <= version
  BY DEF IInv, LogExplains, EngineSound, Known
<1>3. engine.version = version => misled = 0
  BY <1>1, <1>2 DEF MInv, MisledSound
<1> QED
  BY <1>1, <1>2, <1>3, AllowanceOK

(***************************************************************************)
(* The client pulls, advances or starts over: the count starts over.       *)
(***************************************************************************)
LEMMA CountRestarts ==
  ASSUME MInv, IInv, misled' = 0, wire' \in {wire, << >>} \/ (wire # << >> /\ wire' = Tail(wire)),
         ticks' = ticks, faults' \in {faults, faults + 1}
  PROVE  MisledSound' /\ Len(wire') <= WireCap
<1>1. Len(wire') \in Nat /\ Len(wire') <= WireCap
  BY MisledTypes
<1>2. ticks' \in 0 .. ReconcileEvery - 1 /\ faults' \in Nat
  BY MisledTypes
<1> QED
  BY <1>1, <1>2, FreshStart

(***************************************************************************)
(* A commit puts the engine behind, or further behind; either way nothing  *)
(* changes for the stream.                                                 *)
(***************************************************************************)
LEMMA MisledCommit ==
  ASSUME MInv, IInv, Commit
  PROVE  MInv'
<1>1. /\ version' = version + 1
      /\ UNCHANGED <<stream, wire, ticks, pc, engine, misled, faults>>
  BY DEF Commit, DB!Publish, streamVars, clientVars
<1>2. StreamSound'
  BY <1>1 DEF MInv, StreamSound
<1>3. CASE engine.version = version
  BY <1>1, <1>2, <1>3, MisledTypes, CountRestarts DEF MInv
<1>4. CASE engine.version < version
  <2>1. \A k : Budget(k)' = Budget(k)
    BY <1>1 DEF Budget, Allowance
  <2>2. \A k : StaleUpTo(k)' <=> StaleUpTo(k)
    BY <1>1 DEF StaleUpTo, Fresh
  <2>3. engine'.version < version'
    BY <1>1, <1>4, MisledTypes
  <2> QED
    BY <1>1, <1>2, <1>4, <2>1, <2>2, <2>3 DEF MInv, MisledSound
<1> QED
  BY <1>3, <1>4, MisledTypes

(***************************************************************************)
(* What the client receives and takes as a sign of being current, or drops *)
(* as already applied, moves from the stream into the count.               *)
(***************************************************************************)
LEMMA TakesStale ==
  ASSUME MInv, IInv, wire # << >>, wire' = Tail(wire), pc = "consume",
         engine.version < version, ~Fresh(Head(wire)),
         misled' = misled + (IF Head(wire).type = "heartbeat" THEN 1 ELSE 0),
         UNCHANGED <<version, engine, stream, ticks, faults, pc>>
  PROVE  MInv'
<1>1. /\ Len(wire) \in Nat \ {0} /\ Len(wire') = Len(wire) - 1
      /\ \A i \in 1 .. Len(wire') : wire'[i] = wire[i + 1]
      /\ Head(wire) = wire[1] /\ Len(wire') \in Nat
  BY MisledTypes
<1>2. StreamSound'
  BY <1>1, MisledTypes DEF MInv, StreamSound
<1>3. misled' \in Nat
  BY MisledTypes
<1>4. ASSUME NEW k \in 0 .. Len(wire'), StaleUpTo(k)'
      PROVE  misled' + Cardinality(Beats(wire', k)) <= Budget(k)'
  <2>1. k \in Nat /\ k + 1 \in 0 .. Len(wire)
    BY <1>1
  <2>2. StaleUpTo(k + 1)
    <3> SUFFICES ASSUME NEW i \in 1 .. k + 1 PROVE ~Fresh(wire[i])
      BY DEF StaleUpTo
    <3>1. CASE i = 1
      BY <1>1, <3>1
    <3>2. CASE i # 1
      <4>1. i - 1 \in 1 .. k /\ i - 1 \in 1 .. Len(wire') /\ (i - 1) + 1 = i
        BY <1>1, <2>1, <3>2
      <4>2. wire'[i - 1] = wire[i]
        BY <1>1, <4>1
      <4> QED
        BY <1>4, <4>1, <4>2 DEF StaleUpTo, Fresh
    <3> QED
      BY <3>1, <3>2
  <2>3. misled + Cardinality(Beats(wire, k + 1)) <= Budget(k + 1)
    BY <2>1, <2>2 DEF MInv, MisledSound
  <2>4. Cardinality(Beats(wire, k + 1)) =
          Cardinality(Beats(wire', k)) + (IF Head(wire).type = "heartbeat" THEN 1 ELSE 0)
    <3>1. \A i \in 1 .. k : wire'[i] = wire[i + 1]
      BY <1>1, <2>1
    <3>2. Cardinality(Beats(wire, k + 1)) =
            Cardinality(Beats(wire', k)) + (IF wire[1].type = "heartbeat" THEN 1 ELSE 0)
      BY <2>1, <3>1, BeatsOfTail, Zenon
    <3> QED
      BY <1>1, <3>2, Zenon
  <2>5. Budget(k)' = Budget(k + 1)
    <3>1. k = Len(wire') <=> k + 1 = Len(wire)
      BY <1>1, <2>1
    <3> QED
      BY <3>1 DEF Budget, Allowance
  <2>6. Cardinality(Beats(wire', k)) \in Nat
    BY <2>1, BeatsBound
  <2> DEFINE b == Cardinality(Beats(wire', k))
             c == Cardinality(Beats(wire, k + 1))
             h == IF Head(wire).type = "heartbeat" THEN 1 ELSE 0
             m == misled
             m2 == misled'
  <2>7. b \in Nat /\ h \in Nat /\ m \in Nat /\ c = b + h /\ m2 = m + h
    BY <2>4, <2>6, MisledTypes
  <2>8. m2 + b = m + c
    <3> HIDE DEF b, c, h, m, m2
    <3> QED
      BY <2>7
  <2> QED
    BY <2>3, <2>5, <2>8
<1>5. MisledSound'
  BY <1>3, <1>4 DEF MInv, MisledSound
<1> QED
  BY <1>2, <1>5 DEF MInv

(***************************************************************************)
(* What the handler sends.  A heartbeat that is not due for a read is one  *)
(* more tick; one whose read succeeds carries the current version, which   *)
(* is news to an engine that is behind; one whose read fails is the        *)
(* ReconcileEvery-th, which the failure allows for.                        *)
(***************************************************************************)
LEMMA MisledSend ==
  ASSUME MInv, IInv, SendDelta \/ SendOverflow \/ SendHeartbeat
  PROVE  MInv'
<1>1. /\ stream = "open" /\ Len(wire) < WireCap
      /\ UNCHANGED <<version, engine, stream, misled, pc>>
  BY DEF SendDelta, SendOverflow, SendHeartbeat, CanSend, dbVars, clientVars
<1>2. version \in Known /\ lastVer \in Known
  BY MisledTypes DEF Known, IInv, Committed
<1>3. CASE SendDelta
  <2>1. events # << >> /\ wire' = Append(wire, DeltaEvent(Head(events)))
    BY <1>3 DEF SendDelta
  <2>2. Head(events) \in Known
    BY <2>1, HeadTailProperties DEF IInv, Committed
  <2>3. DeltaEvent(Head(events)) \in Event /\ DeltaEvent(Head(events)).type # "heartbeat"
    BY <2>2 DEF DeltaEvent, Event
  <2>4. UNCHANGED <<ticks, faults>>
    BY <1>3 DEF SendDelta
  <2>5. ticks' \in 0 .. ReconcileEvery - 1 /\ faults' \in {faults, faults + 1}
    BY <2>4, MisledTypes
  <2> QED
    BY <1>1, <2>1, <2>3, <2>4, <2>5, SendStep
<1>4. CASE SendOverflow
  <2>1. wire' = Append(wire, SnapshotRequired(lastVer)) /\ UNCHANGED <<ticks, faults>>
    BY <1>4 DEF SendOverflow
  <2>2. SnapshotRequired(lastVer) \in Event /\ SnapshotRequired(lastVer).type # "heartbeat"
    BY <1>2 DEF SnapshotRequired, Event
  <2>3. ticks' \in 0 .. ReconcileEvery - 1 /\ faults' \in {faults, faults + 1}
    BY <2>1, MisledTypes
  <2> QED
    BY <1>1, <2>1, <2>2, <2>3, SendStep
<1>5. CASE SendHeartbeat
  <2> DEFINE e == Heartbeat(lastVer')
  <2>1. wire' = Append(wire, e) /\ ticks' = (ticks + 1) % ReconcileEvery
    BY <1>5 DEF SendHeartbeat
  <2>2. e \in Event /\ e.type = "heartbeat" /\ e.version = lastVer'
    <3>1. lastVer' \in Known
      BY <1>2, <1>5 DEF SendHeartbeat
    <3> QED
      BY <3>1 DEF Heartbeat, Event
  <2>3. ticks' = IF ticks + 1 = ReconcileEvery THEN 0 ELSE ticks + 1
    <3>1. ReconcileEvery \in Nat \ {0} /\ ticks \in 0 .. ReconcileEvery - 1
      BY MisledTypes
    <3> QED
      BY <2>1, <3>1, Ticks
  <2>4. ticks' \in 0 .. ReconcileEvery - 1 /\ faults' \in {faults, faults + 1}
    <3>1. faults' \in {faults, faults + 1}
      BY <1>5 DEF SendHeartbeat, Fault
    <3> QED
      BY <2>3, <3>1, MisledTypes
  <2>5. ASSUME ~Fresh(e), engine.version < version
        PROVE  ticks + Allowance + 1 <= ticks' + Allowance'
    <3>1. lastVer' # version
      BY <2>2, <2>5, MisledTypes DEF Fresh
    <3>2. CASE ticks' # 0
      <4>1. faults' = faults
        BY <1>5, <3>2 DEF SendHeartbeat
      <4>2. Allowance' = Allowance /\ ticks' = ticks + 1
        BY <2>3, <3>2, <4>1 DEF Allowance
      <4> QED
        BY <4>2, MisledTypes
    <3>3. CASE ticks' = 0
      <4>1. faults' = faults + 1
        BY <1>5, <3>1, <3>3 DEF SendHeartbeat, Fault
      <4>2. Allowance' = Allowance + ReconcileEvery
        BY <4>1, MisledTypes, AllowanceOK
      <4>3. ticks + 1 = ReconcileEvery
        BY <2>3, <3>3, MisledTypes
      <4> QED
        BY <3>3, <4>2, <4>3, MisledTypes
    <3> QED
      BY <3>2, <3>3
  <2> HIDE DEF e
  <2> QED
    BY <1>1, <2>1, <2>2, <2>4, <2>5, SendStep
<1> QED
  BY <1>3, <1>4, <1>5

(***************************************************************************)
(* The stream breaks, and what was under way is cut short: the failure     *)
(* allows for as many heartbeats as the ticks could have reached.          *)
(***************************************************************************)
LEMMA MisledBreak ==
  ASSUME MInv, IInv, BreakStream
  PROVE  MInv'
<1>1. /\ stream' = "broken" /\ faults' = faults + 1
      /\ UNCHANGED <<version, engine, ticks, misled, pc>>
  BY DEF BreakStream, Fault, dbVars, clientVars
<1>2. PICK n \in 0 .. Len(wire) : wire' = SubSeq(wire, 1, n)
  BY DEF BreakStream
<1>3. /\ Len(wire') = n /\ n \in Nat /\ n <= Len(wire)
      /\ \A i \in 1 .. n : wire'[i] = wire[i]
  BY <1>2, MisledTypes
<1>4. StreamSound'
  <2>1. stream # "none"
    BY DEF BreakStream
  <2>2. Len(wire') <= WireCap
    BY <1>3, MisledTypes
  <2> QED
    BY <1>1, <2>1, <2>2 DEF MInv, StreamSound
<1>5. ASSUME engine.version < version, NEW k \in 0 .. n, StaleUpTo(k)'
      PROVE  misled + Cardinality(Beats(wire', k)) <= Budget(k)'
  <2>1. k \in Nat /\ k \in 0 .. Len(wire) /\ \A i \in 1 .. k : wire'[i] = wire[i]
    BY <1>3, MisledTypes
  <2>2. Beats(wire', k) = Beats(wire, k)
    BY <2>1, BeatsOfSame, Zenon
  <2>3. StaleUpTo(k)
    BY <1>1, <1>5, <2>1 DEF StaleUpTo, Fresh
  <2>4. misled + Cardinality(Beats(wire, k)) <= Budget(k)
    BY <1>5, <2>1, <2>3 DEF MInv, MisledSound
  <2> DEFINE b == Cardinality(Beats(wire, k))
             old == Budget(k)
             new == Budget(k)'
  <2>5. old \in {Allowance + ticks, Allowance + (ReconcileEvery - 1)}
    BY DEF Budget
  <2>6. new = Allowance' + (ReconcileEvery - 1)
    BY <1>1 DEF Budget
  <2>7. Allowance' = Allowance + ReconcileEvery
    BY <1>1, MisledTypes, AllowanceOK
  <2>8. b \in Nat /\ misled + b <= old
    BY <2>1, <2>4, BeatsBound
  <2> HIDE DEF b, old, new
  <2>9. misled + b <= new
    <3>1. /\ Allowance \in Nat /\ ReconcileEvery \in Nat \ {0} /\ misled \in Nat
          /\ ticks \in Int /\ ticks <= ReconcileEvery - 1
      BY MisledTypes
    <3>2. old \in Int /\ old <= Allowance + (ReconcileEvery - 1)
      BY <2>5, <3>1
    <3>3. new = (Allowance + ReconcileEvery) + (ReconcileEvery - 1)
      BY <2>6, <2>7
    <3> QED
      BY <2>8, <3>1, <3>2, <3>3
  <2> QED
    BY <2>2, <2>9 DEF b, new
<1>6. MisledSound'
  BY <1>1, <1>3, <1>5, MisledTypes DEF MInv, MisledSound
<1> QED
  BY <1>4, <1>6 DEF MInv

(***************************************************************************)
(* The steps of the client and of the hub.                                 *)
(***************************************************************************)
LEMMA MisledServe ==
  ASSUME MInv, IInv,
         Broadcast \/ LoseMessage \/ Dispatch \/ SubscribeRead \/ SubscribeRegister
  PROVE  MInv'
<1>1. UNCHANGED <<version, engine, misled, pc, faults>>
  BY DEF Broadcast, LoseMessage, Dispatch, SubscribeRead, SubscribeRegister, dbVars, clientVars
<1>2. CASE Broadcast \/ LoseMessage \/ Dispatch \/ SubscribeRead
  <2>1. /\ UNCHANGED <<wire, ticks>>
        /\ stream' = stream \/ (stream = "called" /\ stream' = "read")
    BY <1>2 DEF Broadcast, LoseMessage, Dispatch, SubscribeRead, streamVars
  <2>2. MisledSound'
    BY <1>1, <2>1, MisledFrame
  <2>3. StreamSound'
    BY <1>1, <2>1 DEF MInv, StreamSound
  <2> QED
    BY <2>2, <2>3 DEF MInv
<1>3. CASE SubscribeRegister
  <2>1. /\ stream = "read" /\ stream' = "open" /\ ticks' = 0
        /\ wire' = wire \/ wire' = Append(wire, SnapshotRequired(lastVer))
    BY <1>3 DEF SubscribeRegister
  <2>2. wire = << >> /\ misled = 0
    BY <2>1 DEF MInv, StreamSound
  <2>3. Len(wire') \in {0, 1}
    BY <2>1, <2>2
  <2>4. /\ Len(wire') \in Nat /\ Len(wire') <= WireCap /\ misled' = 0
        /\ ticks' \in 0 .. ReconcileEvery - 1 /\ faults' \in Nat
    <3>1. WireCap \in Nat \ {0} /\ ReconcileEvery \in Nat \ {0} /\ faults \in Nat
      BY MisledTypes
    <3>2. Len(wire') \in Nat /\ Len(wire') <= WireCap
      BY <2>3, <3>1
    <3> QED
      BY <1>1, <2>1, <2>2, <3>1, <3>2
  <2>5. MisledSound'
    BY <2>4, FreshStart
  <2>6. StreamSound'
    BY <1>1, <2>1, <2>4 DEF MInv, StreamSound
  <2> QED
    BY <2>5, <2>6 DEF MInv
<1> QED
  BY <1>2, <1>3

(***************************************************************************)
(* Pulling, subscribing and starting over: nothing was, or is, counted.    *)
(***************************************************************************)
LEMMA MisledPull ==
  ASSUME MInv, IInv,
         \/ PullVersion \/ PullRules \/ ApplySnapshot \/ Subscribe \/ PullFails
         \/ SnapshotFails \/ ReceiveError \/ Restart
  PROVE  MInv'
<1>1. ticks' = ticks /\ faults' \in {faults, faults + 1} /\ wire' \in {wire, << >>}
  BY DEF PullVersion, PullRules, ApplySnapshot, Subscribe, PullFails, SnapshotFails, ReceiveError,
         Restart, Reconnect, Fault, streamVars
<1>2. misled' = 0
  <2>1. pc # "consume" => misled = 0
    BY MisledTypes DEF MInv, MisledSound
  <2> QED
    BY <2>1 DEF PullVersion, PullRules, ApplySnapshot, Subscribe, PullFails, SnapshotFails,
                ReceiveError, Restart, Reconnect
<1>3. MisledSound' /\ Len(wire') <= WireCap
  BY <1>1, <1>2, CountRestarts
<1>4. StreamSound'
  <2>1. CASE PullVersion \/ PullRules \/ ApplySnapshot
    <3>1. UNCHANGED <<stream, wire>> /\ (pc' = "subscribe" => stream = "none")
      BY <2>1 DEF PullVersion, PullRules, ApplySnapshot, streamVars
    <3> QED
      BY <1>2, <1>3, <3>1 DEF MInv, StreamSound
  <2>2. CASE Subscribe
    BY <1>2, <1>3, <2>2 DEF MInv, StreamSound, Subscribe
  <2>3. CASE PullFails \/ SnapshotFails \/ ReceiveError \/ Restart
    <3>1. stream' = "none" /\ wire' = << >> /\ pc' = "pull"
      BY <2>3 DEF PullFails, SnapshotFails, ReceiveError, Restart, Reconnect
    <3> QED
      BY <1>2, <1>3, <3>1 DEF StreamSound
  <2> QED
    BY <2>1, <2>2, <2>3
<1> QED
  BY <1>3, <1>4 DEF MInv

(***************************************************************************)
(* Receiving: news ends the count, anything else moves into it.            *)
(***************************************************************************)
LEMMA MisledReceive ==
  ASSUME MInv, IInv, ReceiveDelta \/ DeltaFails \/ ReceiveHeartbeat \/ ReceiveSnapshotRequired
  PROVE  MInv'
<1>1. /\ pc = "consume" /\ wire # << >> /\ wire' = Tail(wire) /\ pc' \in {"pull", "consume"}
      /\ ticks' = ticks /\ stream' = stream /\ version' = version
      /\ faults' \in {faults, faults + 1}
  BY DEF ReceiveDelta, DeltaFails, ReceiveHeartbeat, ReceiveSnapshotRequired, Receive, Resync,
         MarkSync, dbVars, streamVars, clientVars, Fault
<1>2. ASSUME misled' = 0
      PROVE  MInv'
  <2>1. MisledSound' /\ Len(wire') <= WireCap
    BY <1>1, <1>2, CountRestarts
  <2>2. stream \in {"open", "broken"}
    BY <1>1 DEF MInv, StreamSound
  <2>3. StreamSound'
    BY <1>1, <2>1, <2>2 DEF StreamSound
  <2> QED
    BY <2>1, <2>3 DEF MInv
<1>3. CASE misled' # 0
  <2>1. Head(wire) \in Event
    BY <1>1, MisledTypes, HeadTailProperties
  <2>2. Head(wire).version \in Nat
    BY <2>1, MisledTypes DEF Event, Known
  <2>3. \/ /\ Head(wire).type = "delta" /\ Head(wire).version <= engine.version
           /\ UNCHANGED <<engine, pc, misled, faults>>
        \/ /\ Head(wire).type = "heartbeat" /\ ~(Head(wire).version > engine.version)
           /\ MarkSync /\ UNCHANGED faults
    <3>1. CASE ReceiveDelta
      BY <1>3, <3>1 DEF ReceiveDelta, Receive, Resync, clientVars
    <3>2. CASE ReceiveHeartbeat
      BY <1>3, <3>2 DEF ReceiveHeartbeat, Receive, Resync
    <3>3. ~DeltaFails /\ ~ReceiveSnapshotRequired
      BY <1>3 DEF DeltaFails, ReceiveSnapshotRequired, Resync
    <3> QED
      BY <3>1, <3>2, <3>3
  <2>4. ~Fresh(Head(wire))
    BY <2>2, <2>3, MisledTypes DEF Fresh
  <2>5. engine.version < version
    BY <1>3, <2>3, MisledTypes DEF MarkSync
  <2>6. misled' = misled + (IF Head(wire).type = "heartbeat" THEN 1 ELSE 0)
    BY <2>3, <2>5, MisledTypes DEF MarkSync
  <2>7. UNCHANGED <<engine, pc, faults>>
    BY <2>3 DEF MarkSync
  <2> QED
    BY <1>1, <2>4, <2>5, <2>6, <2>7, TakesStale
<1> QED
  BY <1>2, <1>3

(***************************************************************************)
(* The count of the heartbeats that mislead keeps within its budget.       *)
(***************************************************************************)
THEOREM MisledInvariance == Spec => []MInv
<1>1. Init => MInv
  <2> SUFFICES ASSUME Init PROVE MInv
    OBVIOUS
  <2>1. /\ version = 0 /\ engine.version = 0 /\ stream = "none" /\ wire = << >> /\ pc = "pull"
        /\ misled = 0 /\ ticks = 0 /\ faults = 0 /\ Len(wire) = 0
    BY DEF Init, DB!Init, EmptyEngine
  <2> QED
    BY <2>1, SyncAssumption DEF MInv, StreamSound, MisledSound
<1>2. MInv /\ IInv /\ [Next]_vars => MInv'
  <2> SUFFICES ASSUME MInv, IInv, [Next]_vars PROVE MInv'
    OBVIOUS
  <2>1. CASE UNCHANGED vars
    <3>1. UNCHANGED <<version, wire, engine, ticks, misled, faults, pc, stream>>
      BY <2>1 DEF vars, dbVars, streamVars, clientVars
    <3>2. MisledSound'
      BY <3>1, MisledFrame
    <3> QED
      BY <3>1, <3>2 DEF MInv, StreamSound
  <2> QED
    BY <2>1, MisledCommit, MisledServe, MisledSend, MisledBreak, MisledPull, MisledReceive
       DEF Next, ServerStep, ClientStep
<1> QED
  BY <1>1, <1>2, Invariance, PTL DEF Spec

(***************************************************************************)
(* A sidecar that fell behind takes at most the heartbeats under way and   *)
(* those up to the next successful read of the version for a sign of being *)
(* current (handler heartbeat ticker, handleHeartbeat): however large the  *)
(* buffers, however many failures.                                         *)
(***************************************************************************)
THEOREM MisledTheorem == Spec => []MisledBriefly
<1>1. MInv /\ IInv => MisledBriefly
  <2> SUFFICES ASSUME MInv, IInv PROVE MisledBriefly
    OBVIOUS
  <2> DEFINE m == ReconcileEvery * faults
  <2>1. /\ m \in Nat /\ ReconcileEvery * (1 + faults) = m + ReconcileEvery
    <3>1. ReconcileEvery \in Nat /\ faults \in Nat /\ 1 + faults = faults + 1
      BY MisledTypes
    <3> QED
      BY <3>1, Products
  <2>2. Allowance = WireCap + m
    BY DEF Allowance
  <2>3. misled <= Allowance + (ReconcileEvery - 1)
    <3>1. CASE misled = 0
      BY <3>1, MisledTypes
    <3>2. CASE misled # 0
      <4>1. engine.version < version
        BY <3>2, MisledTypes DEF MInv, MisledSound
      <4>2. 0 \in 0 .. Len(wire) /\ StaleUpTo(0)
        BY MisledTypes DEF StaleUpTo
      <4>3. misled + Cardinality(Beats(wire, 0)) <= Budget(0)
        BY <4>1, <4>2 DEF MInv, MisledSound
      <4>4. Cardinality(Beats(wire, 0)) \in Nat
        BY BeatsBound
      <4>5. Budget(0) \in {Allowance + ticks, Allowance + (ReconcileEvery - 1)}
        BY DEF Budget
      <4>6. Budget(0) \in Int /\ Budget(0) <= Allowance + (ReconcileEvery - 1)
        BY <4>5, MisledTypes
      <4> QED
        BY <4>3, <4>4, <4>6, MisledTypes
    <3> QED
      BY <3>1, <3>2
  <2>4. misled < WireCap + (m + ReconcileEvery)
    <3> HIDE DEF m
    <3> QED
      BY <2>1, <2>2, <2>3, MisledTypes
  <2> QED
    BY <2>1, <2>4 DEF MisledBriefly
<1> QED
  BY <1>1, MisledInvariance, Invariance, PTL
=============================================================================
