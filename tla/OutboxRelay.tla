----------------------------- MODULE OutboxRelay -----------------------------
(***************************************************************************)
(* The outbox relay and its leader election (internal/controlplane/outbox  *)
(* and leader).  Every control plane replica campaigns for a session level *)
(* advisory lock; the one that got it drains policy_outbox in batches:     *)
(* select unpublished rows in id order, publish each, mark it published.   *)
(* The session may die without the replica noticing before its next ping,  *)
(* so two replicas may be draining at once.                                *)
(***************************************************************************)
EXTENDS Naturals, Sequences, FiniteSets

CONSTANTS App,        \* applications
          Replica,    \* control plane replicas
          None,       \* nobody holds the advisory lock
          Bad,        \* ids of rows whose delta cannot be decoded
          BatchSize,  \* LIMIT of drainOnce
          MaxRows,    \* bound on outbox rows
          MaxFaults   \* bound on failures, after which nothing fails

ASSUME RelayAssumption ==
  /\ None \notin Replica
  /\ BatchSize \in Nat \ {0}
  /\ MaxRows \in Nat
  /\ MaxFaults \in Nat

VARIABLES outbox,   \* policy_outbox, indexed by row id
          sent,     \* ids of rows that were broadcast at least once
          lock,     \* the holder of the advisory lock
          leading,  \* leading[n]: replica n runs the relay loop
          batch,    \* batch[n]: the ids drainOnce of n has still to handle
          step,     \* step[n]: where drainOnce of n stands
          faults

vars == <<outbox, sent, lock, leading, batch, step, faults>>

Ids == 1 .. Len(outbox)

Fault == faults < MaxFaults /\ faults' = faults + 1

Init ==
  /\ outbox = << >>
  /\ sent = {}
  /\ lock = None
  /\ leading = [n \in Replica |-> FALSE]
  /\ batch = [n \in Replica |-> {}]
  /\ step = [n \in Replica |-> "select"]
  /\ faults = 0

-----------------------------------------------------------------------------
(* The writers: rows are inserted inside the write transaction, which holds *)
(* the row lock of its application until it ends.  Transactions of          *)
(* different applications overlap, so rows may commit out of id order.      *)

Persist(app) ==
  /\ Len(outbox) < MaxRows
  /\ \A i \in Ids : outbox[i].app = app => outbox[i].state # "open"
  /\ outbox' = Append(outbox, [app |-> app, state |-> "open"])
  /\ UNCHANGED <<sent, lock, leading, batch, step, faults>>

EndTransaction(i) ==
  /\ outbox[i].state = "open"
  /\ \E s \in {"pending", "aborted"} : outbox' = [outbox EXCEPT ![i].state = s]
  /\ UNCHANGED <<sent, lock, leading, batch, step, faults>>

-----------------------------------------------------------------------------
(* leader.Run *)

TryLock(n) ==
  /\ ~leading[n]
  /\ lock = None
  /\ lock' = n
  /\ leading' = [leading EXCEPT ![n] = TRUE]
  /\ UNCHANGED <<outbox, sent, batch, step, faults>>

(***************************************************************************)
(* The connection of the session dies; PostgreSQL releases the lock, the   *)
(* replica goes on until the next ping.                                    *)
(***************************************************************************)
SessionDies ==
  /\ lock # None
  /\ Fault
  /\ lock' = None
  /\ UNCHANGED <<outbox, sent, leading, batch, step>>

(* Mutant: the lock stays with a session whose replica gave up. *)
EndTermKeepLock(n) ==
  /\ leading[n]
  /\ leading' = [leading EXCEPT ![n] = FALSE]
  /\ batch' = [batch EXCEPT ![n] = {}]
  /\ step' = [step EXCEPT ![n] = "select"]
  /\ UNCHANGED <<outbox, sent, lock>>

(***************************************************************************)
(* The ping fails, or the replica stops or crashes: the leader context is  *)
(* cancelled, whatever drainOnce was doing fails, and release unlocks what *)
(* is still held.                                                          *)
(***************************************************************************)
EndTerm(n) ==
  /\ leading[n]
  /\ leading' = [leading EXCEPT ![n] = FALSE]
  /\ batch' = [batch EXCEPT ![n] = {}]
  /\ step' = [step EXCEPT ![n] = "select"]
  /\ lock' = IF lock = n THEN None ELSE lock
  /\ UNCHANGED <<outbox, sent>>

PingFails(n) == lock # n /\ EndTerm(n) /\ UNCHANGED faults

StopReplica(n) == Fault /\ EndTerm(n)

-----------------------------------------------------------------------------
(* drainOnce *)

Unpublished == {i \in Ids : outbox[i].state = "pending"}

FirstRows(U) == {i \in U : Cardinality({k \in U : k < i}) < BatchSize}

First(i, B) == i \in B /\ \A k \in B : i <= k

Select(n) ==
  /\ leading[n] /\ step[n] = "select" /\ Unpublished # {}
  /\ batch' = [batch EXCEPT ![n] = FirstRows(Unpublished)]
  /\ step' = [step EXCEPT ![n] = "publish"]
  /\ UNCHANGED <<outbox, sent, lock, leading, faults>>

(***************************************************************************)
(* The end of the batch, or a failure that ends it early.                  *)
(***************************************************************************)
EndBatch(n) ==
  /\ batch' = [batch EXCEPT ![n] = {}]
  /\ step' = [step EXCEPT ![n] = "select"]

BatchDone(n) ==
  /\ leading[n] /\ step[n] = "publish" /\ batch[n] = {}
  /\ EndBatch(n)
  /\ UNCHANGED <<outbox, sent, lock, leading, faults>>

SkipBad(n, i) ==
  /\ leading[n] /\ step[n] = "publish" /\ First(i, batch[n]) /\ i \in Bad
  /\ batch' = [batch EXCEPT ![n] = @ \ {i}]
  /\ UNCHANGED <<outbox, sent, lock, leading, step, faults>>

(* Mutant: the row is marked before it is broadcast. *)
PublishAfterMark(n, i) ==
  /\ leading[n] /\ step[n] = "publish" /\ First(i, batch[n]) /\ i \notin Bad
  /\ outbox' = [outbox EXCEPT ![i].state = "published"]
  /\ step' = [step EXCEPT ![n] = "mark"]
  /\ UNCHANGED <<sent, lock, leading, batch, faults>>

Publish(n, i) ==
  /\ leading[n] /\ step[n] = "publish" /\ First(i, batch[n]) /\ i \notin Bad
  /\ sent' = sent \cup {i}
  /\ step' = [step EXCEPT ![n] = "mark"]
  /\ UNCHANGED <<outbox, lock, leading, batch, faults>>

(* Mutant: a failed broadcast does not end the batch. *)
PublishFailsAndGoesOn(n, i) ==
  /\ leading[n] /\ step[n] = "publish" /\ First(i, batch[n]) /\ i \notin Bad
  /\ Fault
  /\ batch' = [batch EXCEPT ![n] = @ \ {i}]
  /\ UNCHANGED <<outbox, sent, lock, leading, step>>

PublishFails(n, i) ==
  /\ leading[n] /\ step[n] = "publish" /\ First(i, batch[n]) /\ i \notin Bad
  /\ Fault
  /\ EndBatch(n)
  /\ UNCHANGED <<outbox, sent, lock, leading>>

Mark(n, i) ==
  /\ leading[n] /\ step[n] = "mark" /\ First(i, batch[n])
  /\ outbox' = [outbox EXCEPT ![i].state = "published"]
  /\ batch' = [batch EXCEPT ![n] = @ \ {i}]
  /\ step' = [step EXCEPT ![n] = "publish"]
  /\ UNCHANGED <<sent, lock, leading, faults>>

MarkFails(n, i) ==
  /\ leading[n] /\ step[n] = "mark" /\ First(i, batch[n])
  /\ Fault
  /\ EndBatch(n)
  /\ UNCHANGED <<outbox, sent, lock, leading>>

DrainOnce(n) ==
  \/ Select(n) \/ BatchDone(n)
  \/ \E i \in Ids : SkipBad(n, i) \/ Publish(n, i) \/ Mark(n, i)

-----------------------------------------------------------------------------
Next ==
  \/ \E app \in App : Persist(app)
  \/ \E i \in Ids : EndTransaction(i)
  \/ SessionDies
  \/ \E n \in Replica :
       \/ TryLock(n) \/ PingFails(n) \/ StopReplica(n) \/ DrainOnce(n)
       \/ \E i \in Ids : PublishFails(n, i) \/ MarkFails(n, i)

Spec == Init /\ [][Next]_vars

(***************************************************************************)
(* Every replica keeps polling the lock, pinging its session and draining. *)
(* A free lock is taken by some replica.                                   *)
(***************************************************************************)
Fairness ==
  /\ \A n \in Replica : WF_vars(DrainOnce(n)) /\ WF_vars(PingFails(n))
  /\ WF_vars(\E n \in Replica : TryLock(n))

FairSpec == Spec /\ Fairness

-----------------------------------------------------------------------------
(* Properties *)

(***************************************************************************)
(* No row is marked as published that was not broadcast: a crash between   *)
(* the two repeats the broadcast and never loses it.                       *)
(***************************************************************************)
MarkedWasSent == \A i \in Ids : outbox[i].state = "published" => i \in sent

(***************************************************************************)
(* The deltas of an application are first broadcast in the order of their  *)
(* versions, without a gap: not even two relays at once, failures, or the  *)
(* rows of other applications that commit out of order change that.        *)
(***************************************************************************)
Visible(i) == outbox[i].state \in {"pending", "published"}

InOrder ==
  \A i, j \in Ids :
    i < j /\ outbox[i].app = outbox[j].app /\ Visible(i) /\ i \notin Bad /\ j \in sent
      => i \in sent

(***************************************************************************)
(* Every committed row that can be decoded is eventually marked as         *)
(* published, across crashes, lost sessions, failed broadcasts and bad     *)
(* rows that are skipped in every batch (drainOnce, outbox/relay.go:69), as *)
(* long as those are fewer than a batch holds.                             *)
(***************************************************************************)
InState(i, s) == i \in Ids /\ outbox[i].state = s

EventuallyPublished ==
  \A i \in (1 .. MaxRows) \ Bad : InState(i, "pending") ~> InState(i, "published")
=============================================================================
