------------------------- MODULE OutboxRelay_proofs -------------------------
(***************************************************************************)
(* Proofs about the two ways of a change out of the database.  First       *)
(* OutboxRelay, for every number of applications, replicas, rows and       *)
(* failures, and every batch size; then, from TableInv on, DataTable: the  *)
(* data policies in the sidecar's table, for every set of ids, resources   *)
(* and bodies and every number of versions.                                *)
(***************************************************************************)
EXTENDS OutboxRelay, DataTable, SequenceTheorems, FiniteSetTheorems, WellFoundedInduction,
        TLAPS

OutboxRow == [app : App, state : {"open", "pending", "aborted", "published"}]

TypeOK ==
  /\ outbox \in Seq(OutboxRow)
  /\ sent \subseteq Ids
  /\ batch \in [Replica -> SUBSET Ids]
  /\ step \in [Replica -> {"select", "publish", "mark"}]
  /\ leading \in [Replica -> BOOLEAN]

(***************************************************************************)
(* The row lock of the application: its last row may belong to an open     *)
(* transaction, an earlier one cannot.                                     *)
(***************************************************************************)
OpenIsLast ==
  \A i, j \in Ids : i < j /\ outbox[i].app = outbox[j].app => outbox[i].state # "open"

(***************************************************************************)
(* What a relay holds in its batch was committed, and what it is about to  *)
(* mark was broadcast.                                                     *)
(***************************************************************************)
BatchCommitted == \A n \in Replica : \A i \in batch[n] : Visible(i)

MarksSent ==
  \A n \in Replica :
    step[n] = "mark" => \A i \in batch[n] : First(i, batch[n]) => i \in sent

(***************************************************************************)
(* A batch has no gap that was not filled before: this is what makes       *)
(* InOrder inductive, because Publish takes the first row of the batch.    *)
(***************************************************************************)
NoGap ==
  \A n \in Replica : \A j \in batch[n] : \A i \in Ids :
    i < j /\ outbox[i].app = outbox[j].app /\ Visible(i) /\ i \notin Bad
      => i \in sent \cup batch[n]

IInv ==
  /\ TypeOK
  /\ OpenIsLast
  /\ BatchCommitted
  /\ MarksSent
  /\ NoGap
  /\ MarkedWasSent
  /\ InOrder

-----------------------------------------------------------------------------
(***************************************************************************)
(* The LIMIT of the SELECT in drainOnce cuts off later rows only: a row    *)
(* before one that was selected is selected as well.                       *)
(***************************************************************************)
LEMMA FirstRowsArePrefix ==
  ASSUME NEW m \in Nat, NEW U \in SUBSET (1 .. m),
         NEW j \in FirstRows(U), NEW i \in U, i < j
  PROVE  i \in FirstRows(U)
<1> DEFINE Before(x) == {k \in U : k < x}
<1>1. IsFiniteSet(U)
  <2>1. IsFiniteSet(1 .. m)
    BY FS_Interval
  <2> QED
    BY <2>1, FS_Subset
<1>2. IsFiniteSet(Before(j))
  BY <1>1, FS_Subset
<1>3. Before(i) \in SUBSET Before(j)
  <2>1. U \in SUBSET Nat /\ j \in U
    BY DEF FirstRows
  <2>2. ASSUME NEW k \in Before(i) PROVE k \in Before(j)
    <3>1. k \in Nat /\ i \in Nat /\ j \in Nat /\ k < i
      BY <2>1, <2>2
    <3>2. k < j
      BY <3>1
    <3> QED
      BY <2>2, <3>2
  <2> QED
    BY <2>2
<1>4. Cardinality(Before(i)) \in Nat /\ Cardinality(Before(j)) \in Nat
  BY <1>2, <1>3, FS_Subset, FS_CardinalityType
<1>5. Cardinality(Before(i)) <= Cardinality(Before(j))
  BY <1>2, <1>3, FS_Subset
<1>6. Cardinality(Before(j)) < BatchSize
  BY DEF FirstRows
<1> QED
  BY <1>4, <1>5, <1>6, RelayAssumption DEF FirstRows

(***************************************************************************)
(* An UPDATE of the state of one row leaves every other row, and the       *)
(* application of that row, as they were.                                  *)
(***************************************************************************)
LEMMA SetState ==
  ASSUME TypeOK, NEW i \in Ids,
         NEW s \in {"open", "pending", "aborted", "published"},
         outbox' = [outbox EXCEPT ![i].state = s]
  PROVE  /\ outbox' \in Seq(OutboxRow)
         /\ Ids' = Ids
         /\ \A j \in Ids :
              /\ outbox'[j].app = outbox[j].app
              /\ outbox'[j].state = IF j = i THEN s ELSE outbox[j].state
<1> DEFINE e == [outbox[i] EXCEPT !.state = s]
<1>1. outbox \in Seq(OutboxRow) /\ i \in 1 .. Len(outbox)
  BY DEF TypeOK, Ids
<1>2. outbox[i] \in OutboxRow
  BY <1>1, ElementOfSeq
<1>3. e \in OutboxRow /\ e.app = outbox[i].app /\ e.state = s
  BY <1>2 DEF OutboxRow
<1>4. outbox' = [outbox EXCEPT ![i] = e]
  OBVIOUS
<1> HIDE DEF e
<1>5. /\ [outbox EXCEPT ![i] = e] \in Seq(OutboxRow)
      /\ Len([outbox EXCEPT ![i] = e]) = Len(outbox)
      /\ \A j \in 1 .. Len(outbox) :
           [outbox EXCEPT ![i] = e][j] = IF j = i THEN e ELSE outbox[j]
  BY <1>1, <1>3, ExceptSeq
<1> QED
  BY <1>3, <1>4, <1>5 DEF Ids

-----------------------------------------------------------------------------
(***************************************************************************)
(* A writer inserts a row: it is the last of its application and the only  *)
(* one whose transaction is open, and no relay knows of it.                *)
(***************************************************************************)
LEMMA PersistStep ==
  ASSUME IInv, NEW app \in App, Persist(app)
  PROVE  IInv'
<1> DEFINE r == [app |-> app, state |-> "open"]
<1>1. /\ outbox \in Seq(OutboxRow) /\ r \in OutboxRow /\ outbox' = Append(outbox, r)
      /\ UNCHANGED <<sent, batch, step, leading>>
  BY DEF IInv, TypeOK, OutboxRow, Persist
<1>2. /\ outbox' \in Seq(OutboxRow)
      /\ Len(outbox) \in Nat /\ Len(outbox') = Len(outbox) + 1
      /\ \A i \in Ids : outbox'[i] = outbox[i]
      /\ outbox'[Len(outbox) + 1] = r
  BY <1>1 DEF Ids
<1> HIDE DEF r
<1>3. TypeOK'
  BY <1>1, <1>2 DEF IInv, TypeOK, Ids
<1>4. OpenIsLast'
  BY <1>1, <1>2 DEF IInv, OpenIsLast, Persist, Ids, r
<1>5. \A i \in Ids' : i \in sent \/ (\E n \in Replica : i \in batch[n]) => i \in Ids
  BY <1>1 DEF IInv, TypeOK
<1>6. BatchCommitted'
  BY <1>1, <1>2, <1>5 DEF IInv, TypeOK, BatchCommitted, Visible
<1>7. MarksSent'
  BY <1>1 DEF IInv, MarksSent, First
<1>8. NoGap'
  BY <1>1, <1>2, <1>5 DEF IInv, TypeOK, NoGap, Visible, Ids
<1>9. MarkedWasSent'
  BY <1>1, <1>2 DEF IInv, MarkedWasSent, Ids, r
<1>10. InOrder'
  BY <1>1, <1>2, <1>5 DEF IInv, TypeOK, InOrder, Visible, Ids
<1> QED
  BY <1>3, <1>4, <1>6, <1>7, <1>8, <1>9, <1>10 DEF IInv

(***************************************************************************)
(* A transaction ends: its row is the last of its application, so that no  *)
(* relay has broadcast, or selected, a later one past it.                  *)
(***************************************************************************)
LEMMA EndTransactionStep ==
  ASSUME IInv, NEW i \in Ids, EndTransaction(i)
  PROVE  IInv'
<1>1. PICK s \in {"pending", "aborted"} : outbox' = [outbox EXCEPT ![i].state = s]
  BY DEF EndTransaction
<1>2. /\ outbox' \in Seq(OutboxRow) /\ Ids' = Ids
      /\ \A j \in Ids : /\ outbox'[j].app = outbox[j].app
                         /\ outbox'[j].state = IF j = i THEN s ELSE outbox[j].state
  <2>1. s \in {"open", "pending", "aborted", "published"} /\ TypeOK
    BY DEF IInv
  <2> QED
    BY <1>1, <2>1, SetState
<1>3. outbox[i].state = "open" /\ UNCHANGED <<sent, batch, step, leading>>
  BY DEF EndTransaction
<1>4. \A j \in Ids : i < j => outbox[i].app # outbox[j].app
  BY <1>3 DEF IInv, OpenIsLast
<1>5. TypeOK'
  BY <1>2, <1>3 DEF IInv, TypeOK
<1>6. OpenIsLast'
  BY <1>2 DEF IInv, OpenIsLast
<1>7. BatchCommitted'
  BY <1>2, <1>3 DEF IInv, TypeOK, BatchCommitted, Visible
<1>8. MarksSent'
  BY <1>3 DEF IInv, MarksSent, First
<1>9. NoGap'
  BY <1>2, <1>3, <1>4 DEF IInv, TypeOK, NoGap, Visible
<1>10. MarkedWasSent'
  BY <1>2, <1>3 DEF IInv, MarkedWasSent
<1>11. InOrder'
  BY <1>2, <1>3, <1>4 DEF IInv, InOrder, Visible
<1> QED
  BY <1>5, <1>6, <1>7, <1>8, <1>9, <1>10, <1>11 DEF IInv

(***************************************************************************)
(* A replica drops its batch: at the end of its term, of the batch, or     *)
(* after a failure.                                                        *)
(***************************************************************************)
LEMMA EndBatchStep ==
  ASSUME IInv, NEW n \in Replica, EndBatch(n), UNCHANGED <<outbox, sent>>,
         leading' \in [Replica -> BOOLEAN]
  PROVE  IInv'
<1>1. /\ batch' \in [Replica -> SUBSET Ids] /\ step' \in [Replica -> {"select", "publish", "mark"}]
      /\ \A m \in Replica : batch'[m] = {} \/ (batch'[m] = batch[m] /\ step'[m] = step[m])
  BY DEF EndBatch, IInv, TypeOK
<1>2. Ids' = Ids
  BY DEF Ids
<1>3. TypeOK' /\ OpenIsLast' /\ MarkedWasSent' /\ InOrder'
  BY <1>1, <1>2 DEF IInv, TypeOK, OpenIsLast, MarkedWasSent, InOrder, Visible
<1>4. BatchCommitted' /\ MarksSent' /\ NoGap'
  BY <1>1, <1>2 DEF IInv, BatchCommitted, MarksSent, NoGap, Visible, First
<1> QED
  BY <1>3, <1>4 DEF IInv

(***************************************************************************)
(* drainOnce selects: every unpublished row of the application before a    *)
(* selected one is selected, every published one was broadcast.            *)
(***************************************************************************)
LEMMA SelectStep ==
  ASSUME IInv, NEW n \in Replica, Select(n)
  PROVE  IInv'
<1> DEFINE B == FirstRows(Unpublished)
<1>1. /\ batch' = [batch EXCEPT ![n] = B]
      /\ step' = [step EXCEPT ![n] = "publish"]
      /\ UNCHANGED <<outbox, sent, leading>>
  BY DEF Select
<1>2. B \subseteq Unpublished /\ Unpublished \subseteq Ids /\ Len(outbox) \in Nat /\ Ids' = Ids
  BY <1>1 DEF FirstRows, Unpublished, Ids, IInv, TypeOK
<1>3. \A j \in B : \A i \in Unpublished : i < j => i \in B
  BY <1>2, FirstRowsArePrefix DEF Ids
<1>4. \A i \in Unpublished : outbox[i].state = "pending"
  BY DEF Unpublished
<1>5. \A i \in Ids \ Unpublished : Visible(i) => i \in sent
  BY DEF Unpublished, Visible, IInv, MarkedWasSent
<1> HIDE DEF B
<1>6. TypeOK'
  BY <1>1, <1>2 DEF IInv, TypeOK
<1>7. OpenIsLast' /\ MarkedWasSent' /\ InOrder'
  BY <1>1, <1>2 DEF IInv, OpenIsLast, MarkedWasSent, InOrder, Visible
<1>8. BatchCommitted'
  BY <1>1, <1>2, <1>4 DEF IInv, TypeOK, BatchCommitted, Visible
<1>9. MarksSent'
  BY <1>1 DEF IInv, TypeOK, MarksSent, First
<1>10. NoGap'
  <2> SUFFICES ASSUME NEW m \in Replica, NEW j \in batch'[m], NEW i \in Ids,
                      i < j, outbox[i].app = outbox[j].app, Visible(i), i \notin Bad
               PROVE  i \in sent \cup batch'[m]
    BY <1>1, <1>2 DEF NoGap, Visible
  <2>1. CASE m = n
    <3>1. batch'[m] = B
      BY <1>1, <2>1 DEF IInv, TypeOK
    <3> QED
      BY <3>1, <1>3, <1>5
  <2>2. CASE m # n
    <3>1. batch'[m] = batch[m]
      BY <1>1, <2>2 DEF IInv, TypeOK
    <3> QED
      BY <3>1 DEF IInv, NoGap
  <2> QED
    BY <2>1, <2>2
<1> QED
  BY <1>6, <1>7, <1>8, <1>9, <1>10 DEF IInv

(***************************************************************************)
(* drainOnce skips a row that cannot be decoded, and never broadcasts it.  *)
(***************************************************************************)
LEMMA SkipBadStep ==
  ASSUME IInv, NEW n \in Replica, NEW i \in Ids, SkipBad(n, i)
  PROVE  IInv'
<1>1. /\ batch' = [batch EXCEPT ![n] = @ \ {i}]
      /\ i \in Bad /\ step[n] = "publish"
      /\ UNCHANGED <<outbox, sent, leading, step>> /\ Ids' = Ids
  BY DEF SkipBad, Ids
<1>2. TypeOK' /\ OpenIsLast' /\ MarkedWasSent' /\ InOrder'
  BY <1>1 DEF IInv, TypeOK, OpenIsLast, MarkedWasSent, InOrder, Visible
<1>3. BatchCommitted'
  BY <1>1 DEF IInv, TypeOK, BatchCommitted, Visible
<1>4. MarksSent'
  BY <1>1 DEF IInv, TypeOK, MarksSent, First
<1>5. NoGap'
  BY <1>1 DEF IInv, TypeOK, NoGap, Visible
<1> QED
  BY <1>2, <1>3, <1>4, <1>5 DEF IInv

(***************************************************************************)
(* drainOnce broadcasts the first row of its batch: by NoGap whatever      *)
(* precedes that row in its application has been broadcast.                *)
(***************************************************************************)
LEMMA PublishStep ==
  ASSUME IInv, NEW n \in Replica, NEW i \in Ids, Publish(n, i)
  PROVE  IInv'
<1>1. /\ First(i, batch[n]) /\ i \notin Bad
      /\ sent' = sent \cup {i} /\ step' = [step EXCEPT ![n] = "mark"]
      /\ UNCHANGED <<outbox, batch, leading>> /\ Ids' = Ids
  BY DEF Publish, Ids
<1>2. TypeOK' /\ OpenIsLast' /\ MarkedWasSent' /\ BatchCommitted' /\ NoGap'
  BY <1>1 DEF IInv, TypeOK, OpenIsLast, MarkedWasSent, BatchCommitted, NoGap, Visible
<1>3. MarksSent'
  <2> SUFFICES ASSUME NEW m \in Replica, step'[m] = "mark",
                      NEW k \in batch[m], First(k, batch[m])
               PROVE  k \in sent'
    BY <1>1 DEF MarksSent, First
  <2>1. CASE m = n
    <3>1. k \in Nat /\ i \in Nat
      BY DEF IInv, TypeOK, Ids
    <3>2. k <= i /\ i <= k
      BY <1>1, <2>1 DEF First
    <3> QED
      BY <1>1, <3>1, <3>2
  <2>2. CASE m # n
    BY <1>1, <2>2 DEF IInv, TypeOK, MarksSent
  <2> QED
    BY <2>1, <2>2
<1>4. InOrder'
  <2> SUFFICES ASSUME NEW k \in Ids, NEW j \in Ids, k < j,
                      outbox[k].app = outbox[j].app, Visible(k), k \notin Bad, j \in sent'
               PROVE  k \in sent'
    BY <1>1 DEF InOrder, Visible
  <2>1. CASE j \in sent
    BY <1>1, <2>1 DEF IInv, InOrder
  <2>2. CASE j = i
    <3>1. k \in sent \cup batch[n]
      BY <1>1, <2>2 DEF IInv, NoGap, First
    <3>2. k \notin batch[n]
      BY <1>1, <2>2 DEF First, Ids
    <3> QED
      BY <1>1, <3>1, <3>2
  <2> QED
    BY <1>1, <2>1, <2>2
<1> QED
  BY <1>2, <1>3, <1>4 DEF IInv

(***************************************************************************)
(* drainOnce marks the row it has broadcast.                               *)
(***************************************************************************)
LEMMA MarkStep ==
  ASSUME IInv, NEW n \in Replica, NEW i \in Ids, Mark(n, i)
  PROVE  IInv'
<1>1. /\ First(i, batch[n]) /\ step[n] = "mark"
      /\ outbox' = [outbox EXCEPT ![i].state = "published"]
      /\ batch' = [batch EXCEPT ![n] = @ \ {i}]
      /\ step' = [step EXCEPT ![n] = "publish"]
      /\ UNCHANGED <<sent, leading>>
  BY DEF Mark
<1>2. /\ outbox' \in Seq(OutboxRow) /\ Ids' = Ids
      /\ \A j \in Ids : /\ outbox'[j].app = outbox[j].app
                         /\ outbox'[j].state = IF j = i THEN "published" ELSE outbox[j].state
  BY <1>1, SetState DEF IInv
<1>3. i \in sent /\ Visible(i)
  BY <1>1 DEF IInv, MarksSent, BatchCommitted, First
<1>4. \A j \in Ids : Visible(j)' <=> Visible(j)
  BY <1>2, <1>3 DEF Visible
<1>5. TypeOK'
  BY <1>1, <1>2 DEF IInv, TypeOK
<1>6. OpenIsLast'
  BY <1>2 DEF IInv, OpenIsLast
<1>7. BatchCommitted'
  BY <1>1, <1>4 DEF IInv, TypeOK, BatchCommitted
<1>8. MarksSent'
  BY <1>1 DEF IInv, TypeOK, MarksSent, First
<1>9. NoGap'
  BY <1>1, <1>2, <1>3, <1>4 DEF IInv, TypeOK, NoGap
<1>10. MarkedWasSent'
  BY <1>1, <1>2, <1>3 DEF IInv, MarkedWasSent
<1>11. InOrder'
  BY <1>1, <1>2, <1>4 DEF IInv, InOrder
<1> QED
  BY <1>5, <1>6, <1>7, <1>8, <1>9, <1>10, <1>11 DEF IInv

-----------------------------------------------------------------------------
(***************************************************************************)
(* The invariant holds at the start and is kept by every step of every     *)
(* writer and replica, lost sessions and failures included.                *)
(***************************************************************************)
THEOREM Invariance == Spec => []IInv
<1>1. Init => IInv
  BY DEF Init, IInv, TypeOK, OpenIsLast, BatchCommitted, MarksSent, NoGap,
         MarkedWasSent, InOrder, Ids
<1>2. IInv /\ [Next]_vars => IInv'
  <2> SUFFICES ASSUME IInv, [Next]_vars PROVE IInv'
    OBVIOUS
  <2>1. ASSUME NEW app \in App, Persist(app) PROVE IInv'
    BY <2>1, PersistStep
  <2>2. ASSUME NEW i \in Ids, EndTransaction(i) PROVE IInv'
    BY <2>2, EndTransactionStep
  <2>3. ASSUME UNCHANGED <<outbox, sent, batch, step>>, leading' \in [Replica -> BOOLEAN]
        PROVE  IInv'
    BY <2>3 DEF IInv, TypeOK, OpenIsLast, BatchCommitted, MarksSent, NoGap,
                MarkedWasSent, InOrder, Ids, Visible, First
  <2>4. CASE SessionDies
    BY <2>3, <2>4 DEF SessionDies, IInv, TypeOK
  <2>5. ASSUME NEW n \in Replica, TryLock(n) PROVE IInv'
    BY <2>3, <2>5 DEF TryLock, IInv, TypeOK
  <2>6. ASSUME NEW n \in Replica, EndTerm(n) PROVE IInv'
    BY <2>6, EndBatchStep DEF EndTerm, EndBatch, IInv, TypeOK
  <2>7. ASSUME NEW n \in Replica, DrainOnce(n) PROVE IInv'
    <3>1. CASE BatchDone(n)
      BY <3>1, EndBatchStep DEF BatchDone, IInv, TypeOK
    <3> QED
      BY <2>7, <3>1, SelectStep, SkipBadStep, PublishStep, MarkStep DEF DrainOnce
  <2>8. ASSUME NEW n \in Replica, NEW i \in Ids, PublishFails(n, i) \/ MarkFails(n, i)
        PROVE  IInv'
    BY <2>8, EndBatchStep DEF PublishFails, MarkFails, IInv, TypeOK
  <2>9. CASE UNCHANGED vars
    BY <2>3, <2>9 DEF vars, IInv, TypeOK
  <2> QED
    BY <2>1, <2>2, <2>4, <2>5, <2>6, <2>7, <2>8, <2>9 DEF Next, PingFails, StopReplica
<1> QED
  BY <1>1, <1>2, PTL DEF Spec

(***************************************************************************)
(* A crash, a lost session or a second relay never makes drainOnce mark a  *)
(* row that was not broadcast: the broadcast may repeat, it is not lost.   *)
(***************************************************************************)
THEOREM MarkedTheorem == Spec => []MarkedWasSent
<1>1. IInv => MarkedWasSent
  BY DEF IInv
<1> QED
  BY <1>1, Invariance, PTL

(***************************************************************************)
(* Whatever the number of relays that drain at once, and whatever fails,   *)
(* the deltas of an application are first broadcast in the order of their  *)
(* versions and without a gap.                                             *)
(***************************************************************************)
THEOREM InOrderTheorem == Spec => []InOrder
<1>1. IInv => InOrder
  BY DEF IInv
<1> QED
  BY <1>1, Invariance, PTL

-----------------------------------------------------------------------------
(***************************************************************************)
(* The data policies at the other end of the way: the table of the         *)
(* sidecar.                                                                *)
(***************************************************************************)

(***************************************************************************)
(* The log and the history of the rows belong together: a change that is   *)
(* not a removal says what the row is in its version, what was removed     *)
(* stays absent, since ids are not used twice, and a row that no change    *)
(* names is the same row, or absent.                                       *)
(***************************************************************************)
RowSet == [DataId -> Row \cup {Absent}]

ChangeRec ==
  [op : {"add", "update", "remove"}, id : DataId,
   resource : Resource \cup {NoResource}, body : Body \cup {Absent}]

Touches(v, i) == \E n \in DOMAIN log[v] : log[v][n].id = i

LogType ==
  /\ seq \in Nat
  /\ log \in Seq(Seq(ChangeRec))
  /\ hist \in Seq(RowSet) /\ Len(hist) = Len(log) + 1
  /\ rows \in RowSet /\ RowsAt(Len(log)) = rows
  /\ \A v \in 0..Len(log), i \in DataId : RowsAt(v)[i] # Absent => i \in 1..seq

ChangesSay ==
  \A v \in 1..Len(log) : \A n \in DOMAIN log[v] :
    LET c == log[v][n]
    IN  /\ c.op # "remove" => RowsAt(v)[c.id] = [resource |-> c.resource, body |-> c.body]
        /\ c.op = "remove" => /\ c.id \in 1..seq
                              /\ \A u \in v..Len(log) : RowsAt(u)[c.id] = Absent

LogExplains ==
  \A v, w \in 0..Len(log), i \in DataId :
    v <= w /\ (\A u \in (v + 1)..w : ~Touches(u, i)) => RowsAt(w)[i] \in {RowsAt(v)[i], Absent}

(***************************************************************************)
(* The table holds entry e in the bucket of resource r.                    *)
(***************************************************************************)
Entry == [id : DataId, body : Body \cup {Absent}]

TableType(t) == \A r \in DOMAIN t : t[r] \in Seq(Entry)

Holds(t, r, e) == r \in DOMAIN t /\ \E n \in DOMAIN t[r] : t[r][n] = e

HoldsRow(t, i, row) == Holds(t, row.resource, [id |-> i, body |-> row.body])

(***************************************************************************)
(* A table whose snapshot is newer than its version holds the rows of the  *)
(* snapshot, but where a change that is still to come may have been        *)
(* undone by one already made.                                             *)
(***************************************************************************)
Pending(i) ==
  \E w \in (version + 1)..horizon : \E n \in DOMAIN log[w] :
    log[w][n].id = i /\ (w > version + 1 \/ n > applied)

RowNow(i) == RowsAt(IF Changed(i) THEN version + 1 ELSE version)[i]

SettledTable ==
  ready /\ version >= horizon =>
    \A i \in DataId : RowNow(i) # Absent => HoldsRow(byRes, i, RowNow(i))

UnsettledTable ==
  ready /\ version < horizon =>
    \A i \in DataId :
      RowsAt(horizon)[i] # Absent => HoldsRow(byRes, i, RowsAt(horizon)[i]) \/ Pending(i)

EngineType ==
  /\ version \in 0..Len(log) /\ horizon \in 0..Len(log)
  /\ ready \in BOOLEAN /\ TableType(byRes)
  /\ applied \in Nat
  /\ applied > 0 => /\ ready /\ snap.stage = "none"
                    /\ version < Len(log) /\ applied <= Len(NextDelta)

SnapInv ==
  /\ snap \in [version : Nat, rows : RowSet, readAt : Nat, stage : {"none", "version", "rows"}]
  /\ snap.stage = "version" => snap.version <= Len(log)
  /\ snap.stage = "rows" =>
       snap.version <= snap.readAt /\ snap.readAt <= Len(log) /\ snap.rows = RowsAt(snap.readAt)

TableInv ==
  /\ LogType /\ ChangesSay /\ LogExplains
  /\ EngineType /\ SnapInv
  /\ SettledTable /\ UnsettledTable

(* A non-empty set of natural numbers has a least element. *)
LEMMA LeastNumber ==
  ASSUME NEW S, S \subseteq Nat, S # {}
  PROVE  Min(S) \in S
<1> DEFINE R == OpToRel(<, Nat)
<1>1. IsWellFoundedOn(R, Nat)
  BY NatLessThanWellFounded
<1>2. \A x, y \in Nat : x < y => <<x, y>> \in R
  BY DEF OpToRel
<1> HIDE DEF R
<1>3. PICK x \in S : \A y \in S : ~ (<<y, x>> \in R)
  BY <1>1, WFMin
<1>4. ASSUME NEW y \in S PROVE x <= y
  <2>1. x \in Nat /\ y \in Nat /\ ~(y < x)
    BY <1>2, <1>3
  <2> QED
    BY <2>1
<1> QED
  BY <1>4 DEF Min

(* Taking out the element at position f leaves every other one. *)
LEMMA RemoveAtKeeps ==
  ASSUME NEW E, NEW s \in Seq(E), NEW f \in 1..Len(s)
  PROVE  /\ RemoveAt(s, f) \in Seq(E)
         /\ \A n \in 1..Len(s) : n # f =>
              \E m \in DOMAIN RemoveAt(s, f) : RemoveAt(s, f)[m] = s[n]
<1> DEFINE a == SubSeq(s, 1, f - 1)
           b == SubSeq(s, f + 1, Len(s))
           z == a \o b
<1>1. Len(s) \in Nat /\ f \in Nat /\ 1 <= f /\ f <= Len(s)
  OBVIOUS
<1>2. /\ a \in Seq(E) /\ Len(a) = f - 1 /\ \A n \in 1..(f - 1) : a[n] = s[n]
      /\ b \in Seq(E) /\ Len(b) = Len(s) - f /\ \A n \in 1..(Len(s) - f) : b[n] = s[f + n]
  BY <1>1
<1> HIDE DEF a, b
<1>3. /\ z \in Seq(E) /\ Len(z) = Len(a) + Len(b)
      /\ \A n \in 1..(Len(a) + Len(b)) : z[n] = IF n <= Len(a) THEN a[n] ELSE b[n - Len(a)]
  BY <1>2, ConcatProperties
<1> HIDE DEF z
<1>4. ASSUME NEW n \in 1..Len(s), n # f PROVE \E m \in DOMAIN z : z[m] = s[n]
  <2>1. CASE n < f
    <3>1. n \in 1..Len(z) /\ z[n] = s[n]
      BY <1>1, <1>2, <1>3, <2>1
    <3> QED
      BY <1>3, <3>1
  <2>2. CASE n > f
    <3> DEFINE m == n - 1
               k == n - f
    <3>1. /\ m \in 1..(Len(a) + Len(b)) /\ ~(m <= Len(a)) /\ m - Len(a) = k
          /\ k \in 1..(Len(s) - f) /\ f + k = n
      BY <1>1, <1>2, <2>2
    <3>2. z[m] = b[m - Len(a)]
      <4> HIDE DEF m
      <4> QED
        BY <1>3, <3>1
    <3>3. m \in 1..Len(z) /\ z[m] = s[n]
      BY <1>2, <1>3, <3>1, <3>2
    <3> HIDE DEF m
    <3> QED
      BY <1>3, <3>3
  <2> QED
    BY <1>1, <1>4, <2>1, <2>2
<1>5. RemoveAt(s, f) = z
  BY DEF RemoveAt, z, a, b
<1> QED
  BY <1>3, <1>4, <1>5

Without(s, k) == RemoveFirstMatch(s, LAMBDA e : e.id = k)

(* removeLocked's search takes out at most one entry, with the id it is given. *)
LEMMA RemoveFirstKeeps ==
  ASSUME NEW E, NEW s \in Seq(E), NEW k
  PROVE  /\ Without(s, k) \in Seq(E)
         /\ \A n \in 1..Len(s) : s[n].id # k =>
              \E m \in DOMAIN Without(s, k) : Without(s, k)[m] = s[n]
<1> DEFINE I == {i \in 1..Len(s) : s[i].id = k}
           z == IF \E i \in 1..Len(s) : s[i].id = k
                THEN RemoveAt(s, IF I # {} THEN Min(I) ELSE 0) ELSE s
<1>1. SUFFICES /\ z \in Seq(E)
               /\ \A n \in 1..Len(s) : s[n].id # k => \E m \in DOMAIN z : z[m] = s[n]
  BY DEF Without, RemoveFirstMatch, SelectInSeq
<1>2. CASE I = {}
  BY <1>2
<1>3. CASE I # {}
  <2>1. Min(I) \in I
    <3>1. I \subseteq Nat
      OBVIOUS
    <3> HIDE DEF I
    <3> QED
      BY <1>3, <3>1, LeastNumber
  <2>2. PICK f : f \in 1..Len(s) /\ s[f].id = k /\ f = Min(I)
    BY <2>1
  <2>3. z = RemoveAt(s, f)
    BY <1>3, <2>2
  <2> HIDE DEF z, I
  <2> QED
    BY <2>2, <2>3, RemoveAtKeeps
<1> QED
  BY <1>2, <1>3

-----------------------------------------------------------------------------
(* What the operations of the table keep *)

(* Replacing one bucket leaves the others. *)
LEMMA WithBucketHolds ==
  ASSUME NEW t, TableType(t), NEW r, NEW b \in Seq(Entry)
  PROVE  /\ TableType(WithBucket(t, r, b))
         /\ \A e : Holds(WithBucket(t, r, b), r, e) <=> \E n \in DOMAIN b : b[n] = e
         /\ \A q, e : q # r => (Holds(WithBucket(t, r, b), q, e) <=> Holds(t, q, e))
<1>1. CASE b = << >>
  <2> DEFINE u == [q \in DOMAIN t \ {r} |-> t[q]]
  <2>1. WithBucket(t, r, b) = u
    BY <1>1 DEF WithBucket
  <2>2. DOMAIN u = DOMAIN t \ {r} /\ \A q \in DOMAIN u : u[q] = t[q]
    OBVIOUS
  <2>3. \A n \in DOMAIN b : FALSE
    BY <1>1
  <2> HIDE DEF u
  <2> QED
    BY <2>1, <2>2, <2>3 DEF TableType, Holds
<1>2. CASE b # << >>
  <2> DEFINE u == [q \in DOMAIN t \cup {r} |-> IF q = r THEN b ELSE t[q]]
  <2>1. WithBucket(t, r, b) = u
    BY <1>2 DEF WithBucket
  <2>2. DOMAIN u = DOMAIN t \cup {r} /\ u[r] = b /\ \A q \in DOMAIN u : q # r => u[q] = t[q]
    OBVIOUS
  <2> HIDE DEF u
  <2> QED
    BY <2>1, <2>2 DEF TableType, Holds
<1> QED
  BY <1>1, <1>2

(* A bucket, and what the table holds for its resource. *)
LEMMA BucketHolds ==
  ASSUME NEW t, TableType(t), NEW r
  PROVE  /\ Bucket(t, r) \in Seq(Entry)
         /\ \A e : Holds(t, r, e) <=> \E n \in 1..Len(Bucket(t, r)) : Bucket(t, r)[n] = e
<1>1. CASE r \in DOMAIN t
  BY <1>1 DEF Bucket, TableType, Holds
<1>2. CASE r \notin DOMAIN t
  <2>1. Bucket(t, r) = << >>
    BY <1>2 DEF Bucket
  <2> QED
    BY <1>2, <2>1 DEF Holds
<1> QED
  BY <1>1, <1>2

(* An added entry is there, with all that was. *)
LEMMA AddEntryHolds ==
  ASSUME NEW t, TableType(t), NEW c \in ChangeRec
  PROVE  /\ TableType(AddEntry(t, c))
         /\ HoldsRow(AddEntry(t, c), c.id, c)
         /\ \A q, e : Holds(t, q, e) => Holds(AddEntry(t, c), q, e)
<1> DEFINE r == c.resource
           new == [id |-> c.id, body |-> c.body]
           b == Bucket(t, r)
           d == Append(b, new)
<1>1. new \in Entry
  BY DEF ChangeRec, Entry
<1>2. b \in Seq(Entry) /\ \A e : Holds(t, r, e) <=> \E n \in 1..Len(b) : b[n] = e
  BY BucketHolds
<1> HIDE DEF b, new
<1>3. /\ d \in Seq(Entry) /\ Len(d) = Len(b) + 1 /\ d[Len(d)] = new /\ DOMAIN d = 1..Len(d)
      /\ \A n \in 1..Len(b) : d[n] = b[n] /\ n \in DOMAIN d
      /\ Len(d) \in DOMAIN d
  BY <1>1, <1>2
<1>4. AddEntry(t, c) = WithBucket(t, r, d)
  BY DEF AddEntry, b, new
<1> HIDE DEF d
<1>5. /\ TableType(AddEntry(t, c))
      /\ \A e : Holds(AddEntry(t, c), r, e) <=> \E n \in DOMAIN d : d[n] = e
      /\ \A q, e : q # r => (Holds(AddEntry(t, c), q, e) <=> Holds(t, q, e))
  BY <1>3, <1>4, WithBucketHolds
<1>6. HoldsRow(AddEntry(t, c), c.id, c)
  BY <1>3, <1>5 DEF HoldsRow, new
<1>7. ASSUME NEW q, NEW e, Holds(t, q, e) PROVE Holds(AddEntry(t, c), q, e)
  <2>1. CASE q # r
    BY <1>5, <1>7, <2>1
  <2>2. CASE q = r
    <3>1. PICK n \in 1..Len(b) : b[n] = e
      BY <1>2, <1>7, <2>2
    <3> QED
      BY <1>3, <1>5, <2>2, <3>1
  <2> QED
    BY <2>1, <2>2
<1> QED
  BY <1>5, <1>6, <1>7

(* removeLocked touches no entry with another id. *)
LEMMA RemoveLockedHolds ==
  ASSUME NEW t, TableType(t), NEW c
  PROVE  /\ TableType(RemoveLocked(t, c))
         /\ \A q, e : Holds(t, q, e) /\ e.id # c.id => Holds(RemoveLocked(t, c), q, e)
<1> DEFINE r == c.resource
           b == Bucket(t, r)
<1>1. b \in Seq(Entry) /\ \A e : Holds(t, r, e) <=> \E n \in 1..Len(b) : b[n] = e
  BY BucketHolds
<1>2. PICK d : d = Without(b, c.id)
  OBVIOUS
<1>3. RemoveLocked(t, c) = WithBucket(t, r, d)
  BY <1>2 DEF RemoveLocked, Without
<1>4. d \in Seq(Entry) /\ \A n \in 1..Len(b) : b[n].id # c.id => \E m \in DOMAIN d : d[m] = b[n]
  BY <1>1, <1>2, RemoveFirstKeeps
<1> HIDE DEF b
<1>5. /\ TableType(RemoveLocked(t, c))
      /\ \A e : Holds(RemoveLocked(t, c), r, e) <=> \E n \in DOMAIN d : d[n] = e
      /\ \A q, e : q # r => (Holds(RemoveLocked(t, c), q, e) <=> Holds(t, q, e))
  BY <1>3, <1>4, WithBucketHolds
<1>6. ASSUME NEW q, NEW e, Holds(t, q, e), e.id # c.id PROVE Holds(RemoveLocked(t, c), q, e)
  <2>1. CASE q # r
    BY <1>5, <1>6, <2>1
  <2>2. CASE q = r
    BY <1>1, <1>4, <1>5, <1>6, <2>2
  <2> QED
    BY <2>1, <2>2
<1> QED
  BY <1>5, <1>6

(* A change leaves the entries of other ids alone, and what it says is in  *)
(* the table unless it is a removal.                                       *)
LEMMA ApplyChangeHolds ==
  ASSUME NEW t, TableType(t), NEW c \in ChangeRec
  PROVE  /\ TableType(ApplyChange(t, c))
         /\ \A q, e : Holds(t, q, e) /\ e.id # c.id => Holds(ApplyChange(t, c), q, e)
         /\ c.op # "remove" => HoldsRow(ApplyChange(t, c), c.id, c)
<1>1. CASE c.op = "add"
  <2>1. ApplyChange(t, c) = AddEntry(t, c)
    BY <1>1 DEF ApplyChange
  <2> QED
    BY <2>1, AddEntryHolds
<1>2. CASE c.op = "remove"
  <2>1. ApplyChange(t, c) = RemoveLocked(t, c)
    BY <1>2 DEF ApplyChange
  <2> QED
    BY <1>2, <2>1, RemoveLockedHolds
<1>3. CASE c.op = "update"
  <2>1. ApplyChange(t, c) = AddEntry(RemoveLocked(t, c), c)
    BY <1>3 DEF ApplyChange
  <2>2. PICK u : u = RemoveLocked(t, c)
    OBVIOUS
  <2>3. TableType(u) /\ \A q, e : Holds(t, q, e) /\ e.id # c.id => Holds(u, q, e)
    BY <2>2, RemoveLockedHolds
  <2> QED
    BY <2>1, <2>2, <2>3, AddEntryHolds
<1> QED
  BY <1>1, <1>2, <1>3 DEF ChangeRec

(* A table built of finitely many rows holds each of them. *)
LEMMA TablesOfHold ==
  ASSUME NEW R \in RowSet, NEW k \in Nat, \A i \in DataId : R[i] # Absent => i \in 1..k,
         NEW t \in TablesOf(R)
  PROVE  /\ TableType(t)
         /\ \A i \in DataId : R[i] # Absent => HoldsRow(t, i, R[i])
<1> DEFINE used == {R[i].resource : i \in {j \in DataId : R[j] # Absent}}
<1>1. DOMAIN t = used /\ \A r \in used : t[r] \in Orders(Stored(R, r))
  BY DEF TablesOf
<1> HIDE DEF used
<1>2. ASSUME NEW r \in used
      PROVE  /\ t[r] \in Seq(Entry)
             /\ \A e \in Stored(R, r) : \E n \in DOMAIN t[r] : t[r][n] = e
  <2> DEFINE D == {j \in DataId : R[j] # Absent /\ R[j].resource = r}
             S == Stored(R, r)
  <2>1. IsFiniteSet(1..k)
    BY FS_Interval
  <2>2. IsFiniteSet(D)
    <3>1. D \subseteq 1..k
      OBVIOUS
    <3> QED
      BY <2>1, <3>1, FS_Subset
  <2>3. IsFiniteSet(S)
    <3> DEFINE f == [i \in D |-> [id |-> i, body |-> R[i].body]]
    <3>1. f \in Surjection(D, S)
      BY DEF Stored, Surjection
    <3> HIDE DEF D, S, f
    <3> QED
      BY <2>2, <3>1, FS_Surjection
  <2>4. S \subseteq Entry
    BY DEF Stored, Entry, RowSet, Row
  <2> HIDE DEF S
  <2>5. Cardinality(S) \in Nat
    BY <2>3, FS_CardinalityType
  <2>6. t[r] \in [1..Cardinality(S) -> S] /\ \A e \in S : \E n \in 1..Cardinality(S) : t[r][n] = e
    BY <1>1 DEF Orders, Surjection, S
  <2>7. t[r] \in Seq(Entry)
    BY <2>4, <2>5, <2>6
  <2> QED
    BY <2>6, <2>7 DEF S
<1>3. ASSUME NEW i \in DataId, R[i] # Absent PROVE HoldsRow(t, i, R[i])
  <2>1. R[i].resource \in used
    BY <1>3 DEF used
  <2>2. [id |-> i, body |-> R[i].body] \in Stored(R, R[i].resource)
    BY <1>3 DEF Stored
  <2> QED
    BY <1>1, <1>2, <2>1, <2>2 DEF HoldsRow, Holds
<1> QED
  BY <1>1, <1>2, <1>3 DEF TableType

-----------------------------------------------------------------------------
(* Writes *)

(***************************************************************************)
(* What the three parts about the log need to know of a write: which rows  *)
(* may differ, and what the changes say of them.                           *)
(***************************************************************************)
Explained(old, new, changes) ==
  /\ \A n \in DOMAIN changes :
       LET c == changes[n]
       IN  /\ c.op # "remove" =>
                /\ new[c.id] = [resource |-> c.resource, body |-> c.body]
                /\ c.id \notin 1..seq \/ old[c.id] # Absent
           /\ c.op = "remove" => c.id \in 1..seq /\ new[c.id] = Absent
  /\ \A i \in DataId :
       \/ new[i] \in {old[i], Absent}
       \/ /\ i \notin 1..seq \/ old[i] # Absent
          /\ \E n \in DOMAIN changes : changes[n].id = i
  /\ \A i \in DataId : new[i] # Absent => i \in 1..seq'

(* A write that is explained by its changes keeps the log explained. *)
LEMMA WriteLog ==
  ASSUME LogType, ChangesSay, LogExplains,
         NEW new \in RowSet, NEW changes \in Seq(ChangeRec),
         seq' \in Nat, seq <= seq', Explained(rows, new, changes), Write(new, changes)
  PROVE  LogType' /\ ChangesSay' /\ LogExplains'
<1>0. PICK N \in Nat : N = Len(log)
  BY DEF LogType
<1> DEFINE M == N + 1
<1>1. /\ N = Len(log) /\ log' = Append(log, changes) /\ hist' = Append(hist, new) /\ rows' = new
      /\ seq \in Nat /\ 1..seq \subseteq 1..seq'
  BY <1>0 DEF LogType, Write
<1>2. /\ log' \in Seq(Seq(ChangeRec)) /\ Len(log') = M
      /\ log'[M] = changes /\ \A v \in 1..N : log'[v] = log[v]
  BY <1>1 DEF LogType
<1>3. /\ hist' \in Seq(RowSet) /\ Len(hist') = M + 1
      /\ RowsAt(M)' = new /\ \A v \in 0..N : RowsAt(v)' = RowsAt(v)
  BY <1>1 DEF LogType, RowsAt
<1>4. RowsAt(N) = rows
  BY <1>0 DEF LogType
<1>5. LogType'
  <2>1. ASSUME NEW v \in 0..M, NEW i \in DataId, RowsAt(v)'[i] # Absent PROVE i \in 1..seq'
    <3>1. CASE v = M
      BY <1>3, <2>1, <3>1 DEF Explained
    <3>2. CASE v \in 0..N
      BY <1>1, <1>3, <2>1, <3>2 DEF LogType
    <3> QED
      BY <1>1, <3>1, <3>2
  <2> QED
    BY <1>1, <1>2, <1>3, <2>1 DEF LogType
<1>6. ChangesSay'
  <2> SUFFICES ASSUME NEW v \in 1..M, NEW n \in DOMAIN log'[v], NEW c, c = log'[v][n]
               PROVE  /\ c.op # "remove" =>
                           RowsAt(v)'[c.id] = [resource |-> c.resource, body |-> c.body]
                      /\ c.op = "remove" =>
                           c.id \in 1..seq' /\ \A u \in v..M : RowsAt(u)'[c.id] = Absent
    BY <1>2 DEF ChangesSay
  <2>1. CASE v = M
    <3>1. n \in DOMAIN changes /\ c = changes[n]
      BY <1>2, <2>1
    <3>2. \A u \in v..M : u = M
      BY <1>1, <2>1
    <3> QED
      BY <1>1, <1>3, <2>1, <3>1, <3>2 DEF Explained
  <2>2. CASE v \in 1..N
    <3>1. n \in DOMAIN log[v] /\ c = log[v][n] /\ RowsAt(v)' = RowsAt(v)
      BY <1>1, <1>2, <1>3, <2>2
    <3>2. c.op # "remove" => RowsAt(v)[c.id] = [resource |-> c.resource, body |-> c.body]
      BY <1>0, <2>2, <3>1 DEF ChangesSay
    <3>3. ASSUME c.op = "remove"
          PROVE  c.id \in 1..seq /\ \A u \in v..N : RowsAt(u)[c.id] = Absent
      <4>1. log[v][n].op = "remove" =>
              /\ log[v][n].id \in 1..seq
              /\ \A u \in v..Len(log) : RowsAt(u)[log[v][n].id] = Absent
        BY <1>0, <2>2, <3>1 DEF ChangesSay
      <4> QED
        BY <1>0, <3>1, <3>3, <4>1
    <3>4. ASSUME c.op = "remove" PROVE new[c.id] = Absent
      <4>1. log[v] \in Seq(ChangeRec)
        BY <1>0, <2>2 DEF LogType
      <4>2. c \in ChangeRec
        BY <3>1, <4>1
      <4>3. c.id \in DataId
        BY <4>2 DEF ChangeRec
      <4>4. c.id \in 1..seq /\ rows[c.id] = Absent
        BY <1>1, <1>4, <2>2, <3>3, <3>4
      <4> QED
        BY <4>3, <4>4 DEF Explained
    <3>5. ASSUME c.op = "remove", NEW u \in v..M PROVE RowsAt(u)'[c.id] = Absent
      <4>1. CASE u = M
        BY <1>3, <3>4, <3>5, <4>1
      <4>2. CASE u \in v..N
        BY <1>1, <1>3, <2>2, <3>3, <3>5, <4>2
      <4>3. v \in Nat /\ (u = M \/ u \in v..N)
        BY <2>2
      <4> QED
        BY <4>1, <4>2, <4>3
    <3> QED
      BY <1>1, <3>1, <3>2, <3>3, <3>5
  <2> QED
    BY <1>1, <2>1, <2>2
<1>7. LogExplains'
  <2> SUFFICES ASSUME NEW v \in 0..M, NEW w \in 0..M, NEW i \in DataId, v <= w,
                      \A u \in (v + 1)..w : ~Touches(u, i)'
               PROVE  RowsAt(w)'[i] \in {RowsAt(v)'[i], Absent}
    BY <1>2 DEF LogExplains
  <2>1. \A u \in 1..N : Touches(u, i)' <=> Touches(u, i)
    BY <1>2 DEF Touches
  <2>2. CASE v = M
    BY <1>1, <2>2
  <2>3. CASE v \in 0..N
    <3>1. ASSUME NEW x \in 0..N, v <= x, x <= w PROVE RowsAt(x)[i] \in {RowsAt(v)[i], Absent}
      <4>1. \A u \in (v + 1)..x : u \in 1..N /\ u \in (v + 1)..w
        BY <1>1, <2>3, <3>1
      <4>2. \A u \in (v + 1)..x : ~Touches(u, i)
        BY <2>1, <4>1
      <4> QED
        BY <1>1, <2>3, <3>1, <4>2 DEF LogExplains
    <3>2. CASE w \in 0..N
      BY <1>1, <1>3, <2>3, <3>1, <3>2
    <3>3. CASE w = M
      <4>1. N \in 0..N /\ v <= N /\ N <= w
        BY <1>1, <2>3, <3>3
      <4>2. rows[i] \in {RowsAt(v)[i], Absent}
        BY <1>4, <3>1, <4>1
      <4>3. M \in (v + 1)..w
        BY <1>1, <2>3, <3>3
      <4>4. ~ \E n \in DOMAIN changes : changes[n].id = i
        BY <1>2, <4>3 DEF Touches
      <4>5. new[i] \in {rows[i], Absent}
        BY <4>4 DEF Explained
      <4> QED
        BY <1>3, <2>3, <3>3, <4>2, <4>5
    <3> QED
      BY <1>1, <3>2, <3>3
  <2> QED
    BY <1>1, <2>2, <2>3
<1> QED
  BY <1>5, <1>6, <1>7

(* A write leaves the sidecar alone: what its table is compared with are   *)
(* versions that are committed already.                                    *)
LEMMA WriteEngine ==
  ASSUME TableInv, NEW new \in RowSet, NEW changes \in Seq(ChangeRec), Write(new, changes)
  PROVE  EngineType' /\ SnapInv' /\ SettledTable' /\ UnsettledTable'
<1>1. PICK N \in Nat : N = Len(log)
  BY DEF TableInv, LogType
<1>2. /\ UNCHANGED <<byRes, version, applied, ready, horizon, snap>>
      /\ Len(log') = N + 1 /\ \A v \in 1..N : log'[v] = log[v]
      /\ \A v \in 0..N : RowsAt(v)' = RowsAt(v)
  BY <1>1 DEF TableInv, LogType, RowsAt, Write, engineVars
<1>3. version \in 0..N /\ horizon \in 0..N /\ applied \in Nat
  BY <1>1 DEF TableInv, EngineType
<1>4. applied > 0 => version < N /\ NextDelta' = NextDelta
  <2> SUFFICES ASSUME applied > 0 PROVE version < N /\ NextDelta' = NextDelta
    OBVIOUS
  <2>1. version < N
    BY <1>1 DEF TableInv, EngineType
  <2>2. version + 1 \in 1..N
    BY <1>3, <2>1
  <2> QED
    BY <1>2, <2>1, <2>2 DEF NextDelta
<1>5. EngineType'
  BY <1>1, <1>2, <1>3, <1>4 DEF TableInv, EngineType
<1>6. SnapInv'
  BY <1>1, <1>2 DEF TableInv, SnapInv
<1>7. ASSUME NEW i \in DataId PROVE (Changed(i)' <=> Changed(i)) /\ RowNow(i)' = RowNow(i)
  <2>1. Changed(i)' <=> Changed(i)
    <3>1. CASE applied = 0
      BY <1>2, <3>1 DEF Changed
    <3>2. CASE applied > 0
      BY <1>2, <1>4, <3>2 DEF Changed
    <3> QED
      BY <1>3, <3>1, <3>2
  <2>2. Changed(i) => version + 1 \in 0..N
    <3> SUFFICES ASSUME Changed(i) PROVE version + 1 \in 0..N
      OBVIOUS
    <3>1. applied > 0
      BY <1>3 DEF Changed
    <3> QED
      BY <1>3, <1>4, <3>1
  <2>3. CASE Changed(i)
    <3>1. RowNow(i) = RowsAt(version + 1)[i] /\ RowNow(i)' = RowsAt(version + 1)'[i]
      BY <1>2, <2>1, <2>3 DEF RowNow, RowsAt
    <3>2. PICK x \in 0..N : x = version + 1
      BY <2>2, <2>3
    <3>3. RowsAt(x)' = RowsAt(x)
      BY <1>2
    <3> QED
      BY <1>2, <2>1, <3>1, <3>2, <3>3 DEF RowsAt
  <2>4. CASE ~Changed(i)
    <3>1. RowNow(i) = RowsAt(version)[i] /\ RowNow(i)' = RowsAt(version)'[i]
      BY <1>2, <2>1, <2>4 DEF RowNow, RowsAt
    <3>2. PICK x \in 0..N : x = version
      BY <1>3
    <3>3. RowsAt(x)' = RowsAt(x)
      BY <1>2
    <3> QED
      BY <1>2, <2>1, <3>1, <3>2, <3>3 DEF RowsAt
  <2> QED
    BY <2>3, <2>4
<1>8. SettledTable'
  <2>1. SettledTable
    BY DEF TableInv
  <2> QED
    BY <1>2, <1>7, <2>1 DEF SettledTable, HoldsRow, Holds
<1>9. UnsettledTable'
  <2>1. UnsettledTable
    BY DEF TableInv
  <2>2. ASSUME NEW i \in DataId, Pending(i) PROVE Pending(i)'
    <3>1. PICK w \in (version + 1)..horizon : \E n \in DOMAIN log[w] :
            log[w][n].id = i /\ (w > version + 1 \/ n > applied)
      BY <2>2 DEF Pending
    <3>2. w \in 1..N
      BY <1>3, <3>1
    <3> QED
      BY <1>2, <3>1, <3>2 DEF Pending
  <2>3. RowsAt(horizon)' = RowsAt(horizon)
    <3>1. PICK x \in 0..N : x = horizon
      BY <1>3
    <3>2. RowsAt(x)' = RowsAt(x)
      BY <1>2
    <3> QED
      BY <1>2, <3>1, <3>2 DEF RowsAt
  <2> QED
    BY <1>2, <2>1, <2>2, <2>3 DEF UnsettledTable, HoldsRow, Holds
<1> QED
  BY <1>5, <1>6, <1>8, <1>9

(* UpsertDataPolicy without an id: a new row with an id never used. *)
LEMMA InsertStep ==
  ASSUME TableInv, NEW row \in Row, InsertDataPolicy(row)
  PROVE  TableInv'
<1> DEFINE id == seq + 1
           new == [rows EXCEPT ![id] = row]
           changes == <<Change("add", id, row)>>
<1>1. /\ id \in DataId /\ seq' = id /\ seq \in Nat /\ rows \in RowSet /\ Write(new, changes)
      /\ \A i \in DataId : rows[i] # Absent => i \in 1..seq
  <2>1. LogType
    BY DEF TableInv
  <2>2. Len(log) \in 0..Len(log) /\ RowsAt(Len(log)) = rows
    BY <2>1 DEF LogType
  <2> QED
    BY <2>1, <2>2 DEF InsertDataPolicy, LogType
<1>2. new \in RowSet /\ Change("add", id, row) \in ChangeRec
  BY <1>1 DEF RowSet, Change, ChangeRec, Row
<1>3. changes \in Seq(ChangeRec) /\ DOMAIN changes = {1} /\ changes[1] = Change("add", id, row)
  BY <1>2
<1>4. /\ Change("add", id, row).op = "add" /\ Change("add", id, row).id = id
      /\ new[id] = [resource |-> Change("add", id, row).resource,
                    body |-> Change("add", id, row).body]
  BY <1>1 DEF Change, RowSet, Row
<1>5. \A i \in DataId : i # id => new[i] = rows[i]
  BY <1>1 DEF RowSet
<1>6. id \notin 1..seq /\ 1..seq \subseteq 1..seq' /\ id \in 1..seq'
  BY <1>1
<1> HIDE DEF new, changes
<1>7. Explained(rows, new, changes)
  BY <1>1, <1>3, <1>4, <1>5, <1>6 DEF Explained
<1>8. LogType' /\ ChangesSay' /\ LogExplains'
  BY <1>1, <1>2, <1>3, <1>7, WriteLog DEF TableInv
<1> QED
  BY <1>1, <1>2, <1>3, <1>8, WriteEngine DEF TableInv

(* UpsertDataPolicy with the id of a row that is there. *)
LEMMA UpdateStep ==
  ASSUME TableInv, NEW id \in DataId, NEW row \in Row, UpdateDataPolicy(id, row)
  PROVE  TableInv'
<1> DEFINE new == [rows EXCEPT ![id] = row]
           changes == <<Change("update", id, row)>>
<1>1. /\ rows[id] # Absent /\ seq' = seq /\ seq \in Nat /\ rows \in RowSet /\ Write(new, changes)
      /\ \A i \in DataId : rows[i] # Absent => i \in 1..seq
  <2>1. LogType
    BY DEF TableInv
  <2>2. Len(log) \in 0..Len(log) /\ RowsAt(Len(log)) = rows
    BY <2>1 DEF LogType
  <2> QED
    BY <2>1, <2>2 DEF UpdateDataPolicy, LogType
<1>2. new \in RowSet /\ Change("update", id, row) \in ChangeRec
  BY <1>1 DEF RowSet, Change, ChangeRec, Row
<1>3. /\ changes \in Seq(ChangeRec) /\ DOMAIN changes = {1}
      /\ changes[1] = Change("update", id, row)
  BY <1>2
<1>4. /\ Change("update", id, row).op = "update" /\ Change("update", id, row).id = id
      /\ new[id] = [resource |-> Change("update", id, row).resource,
                    body |-> Change("update", id, row).body]
  BY <1>1 DEF Change, RowSet, Row
<1>5. \A i \in DataId : i # id => new[i] = rows[i]
  BY <1>1 DEF RowSet
<1> HIDE DEF new, changes
<1>6. Explained(rows, new, changes)
  BY <1>1, <1>3, <1>4, <1>5 DEF Explained
<1>7. LogType' /\ ChangesSay' /\ LogExplains'
  BY <1>1, <1>2, <1>3, <1>6, WriteLog DEF TableInv
<1> QED
  BY <1>1, <1>2, <1>3, <1>7, WriteEngine DEF TableInv

(* DeleteDataPolicy and BatchDeleteDataPolicy: the rows that were there    *)
(* are removed, in any order.                                              *)
LEMMA DeleteStep ==
  ASSUME TableInv, NEW ids \in SUBSET DataId, BatchDeleteDataPolicy(ids)
  PROVE  TableInv'
<1> DEFINE D == {k \in ids : rows[k] # Absent}
           S == {Removal(i) : i \in D}
           new == [i \in DataId |-> IF i \in ids THEN Absent ELSE rows[i]]
<1>1. PICK changes \in Orders(S) : Write(new, changes)
  BY DEF BatchDeleteDataPolicy
<1>2. /\ seq' = seq /\ seq \in Nat /\ rows \in RowSet
      /\ \A i \in DataId : rows[i] # Absent => i \in 1..seq
  <2>1. LogType
    BY DEF TableInv
  <2>2. Len(log) \in 0..Len(log) /\ RowsAt(Len(log)) = rows
    BY <2>1 DEF LogType
  <2> QED
    BY <2>1, <2>2 DEF BatchDeleteDataPolicy, LogType
<1>3. new \in RowSet /\ \A i \in DataId : new[i] = IF i \in ids THEN Absent ELSE rows[i]
  BY <1>2 DEF RowSet
<1>4. \A i \in D : /\ Removal(i) \in ChangeRec /\ Removal(i).op = "remove" /\ Removal(i).id = i
                   /\ i \in ids /\ i \in DataId /\ i \in 1..seq
  BY <1>2 DEF Removal, ChangeRec
<1>5. IsFiniteSet(S)
  <2>1. IsFiniteSet(1..seq)
    BY <1>2, FS_Interval
  <2>2. IsFiniteSet(D)
    <3>1. D \subseteq 1..seq
      BY <1>4
    <3> HIDE DEF D
    <3> QED
      BY <2>1, <3>1, FS_Subset
  <2> DEFINE f == [i \in D |-> Removal(i)]
  <2>3. f \in Surjection(D, S)
    BY DEF Surjection
  <2> HIDE DEF D, S, f
  <2> QED
    BY <2>2, <2>3, FS_Surjection
<1>6. S \subseteq ChangeRec /\ \A c \in S : c.op = "remove" /\ c.id \in ids \cap (1..seq)
  BY <1>4
<1> HIDE DEF S, new
<1>7. changes \in Seq(ChangeRec) /\ \A n \in DOMAIN changes : changes[n] \in S
  <2>1. Cardinality(S) \in Nat
    BY <1>5, FS_CardinalityType
  <2>2. changes \in [1..Cardinality(S) -> S]
    BY <1>1 DEF Orders, Surjection
  <2> QED
    BY <1>6, <2>1, <2>2
<1>8. Explained(rows, new, changes)
  BY <1>2, <1>3, <1>6, <1>7 DEF Explained
<1>9. LogType' /\ ChangesSay' /\ LogExplains'
  BY <1>1, <1>2, <1>3, <1>7, <1>8, WriteLog DEF TableInv
<1> QED
  BY <1>1, <1>3, <1>7, <1>9, WriteEngine DEF TableInv

-----------------------------------------------------------------------------
(* The sidecar *)

(* The tables of the control plane as they were: the log explains them. *)
LEMMA LogKept ==
  ASSUME TableInv, UNCHANGED <<rows, seq, log, hist>>
  PROVE  LogType' /\ ChangesSay' /\ LogExplains'
<1>1. LogType'
  BY DEF TableInv, LogType, RowsAt
<1>2. ChangesSay'
  BY DEF TableInv, ChangesSay, RowsAt
<1>3. LogExplains'
  BY DEF TableInv, LogExplains, RowsAt, Touches
<1> QED
  BY <1>1, <1>2, <1>3

(* The sidecar as it was: its table holds what it held. *)
LEMMA EngineKept ==
  ASSUME TableInv, UNCHANGED <<log, hist, byRes, version, applied, ready, horizon>>
  PROVE  SettledTable' /\ UnsettledTable'
<1>1. \A i \in DataId : RowNow(i)' = RowNow(i)
  BY DEF RowNow, RowsAt, Changed, NextDelta
<1>2. \A i \in DataId : Pending(i)' <=> Pending(i)
  BY DEF Pending
<1>3. SettledTable'
  BY <1>1 DEF TableInv, SettledTable, HoldsRow, Holds
<1>4. UnsettledTable'
  BY <1>2 DEF TableInv, UnsettledTable, RowsAt, HoldsRow, Holds
<1> QED
  BY <1>3, <1>4

(* What is known when a change of the next delta is made. *)
LEMMA ApplyingFacts ==
  ASSUME TableInv, Applying
  PROVE  /\ version \in Nat /\ horizon \in Nat /\ applied \in Nat /\ Len(log) \in Nat
         /\ version + 1 \in 1..Len(log) /\ horizon <= Len(log)
         /\ NextDelta \in Seq(ChangeRec) /\ NextDelta = log[version + 1]
         /\ applied <= Len(NextDelta)
<1>1. /\ version \in Nat /\ horizon \in Nat /\ applied \in Nat /\ Len(log) \in Nat
      /\ version + 1 \in 1..Len(log) /\ horizon <= Len(log)
  BY DEF TableInv, LogType, EngineType, Applying, CurrentVersion
<1>2. NextDelta \in Seq(ChangeRec) /\ NextDelta = log[version + 1]
  BY <1>1 DEF TableInv, LogType, NextDelta
<1>3. Len(NextDelta) \in Nat
  BY <1>2
<1>4. applied = 0 \/ applied <= Len(NextDelta)
  BY <1>1 DEF TableInv, EngineType
<1> QED
  BY <1>1, <1>2, <1>3, <1>4

(* Table.ApplyChange, for one change of the delta. *)
LEMMA RouteStep ==
  ASSUME TableInv, RouteChange
  PROVE  TableInv'
<1> DEFINE c == NextDelta[applied + 1]
           V == version + 1
<1>1. /\ version \in Nat /\ horizon \in Nat /\ applied \in Nat /\ Len(log) \in Nat
      /\ V \in 1..Len(log) /\ horizon <= Len(log)
      /\ NextDelta \in Seq(ChangeRec) /\ NextDelta = log[V]
      /\ applied < Len(NextDelta)
  BY ApplyingFacts DEF RouteChange
<1>2. /\ UNCHANGED <<rows, seq, log, hist, version, ready, horizon, snap>>
      /\ byRes' = ApplyChange(byRes, c) /\ applied' = applied + 1
      /\ ready /\ snap.stage = "none" /\ version < Len(log)
  BY DEF RouteChange, Applying, CurrentVersion, dbVars
<1>3. /\ applied + 1 \in DOMAIN NextDelta /\ applied + 1 \in DOMAIN log[V]
      /\ c \in ChangeRec /\ c.id \in DataId /\ c = log[V][applied + 1]
  <2>1. applied + 1 \in 1..Len(NextDelta)
    BY <1>1
  <2>2. applied + 1 \in DOMAIN NextDelta /\ c \in ChangeRec
    BY <1>1, <2>1
  <2> QED
    BY <1>1, <2>2 DEF ChangeRec
<1>4. NextDelta' = NextDelta /\ \A v : RowsAt(v)' = RowsAt(v)
  BY <1>2 DEF NextDelta, RowsAt
<1>5. LogType' /\ ChangesSay' /\ LogExplains' /\ SnapInv'
  <2>1. SnapInv'
    BY <1>2 DEF TableInv, SnapInv, RowsAt
  <2> QED
    BY <1>2, <2>1, LogKept
<1> HIDE DEF c
<1>6. /\ TableType(byRes')
      /\ \A q, e : Holds(byRes, q, e) /\ e.id # c.id => Holds(byRes', q, e)
      /\ c.op # "remove" => HoldsRow(byRes', c.id, c)
  BY <1>2, <1>3, ApplyChangeHolds DEF TableInv, EngineType
<1>7. EngineType'
  BY <1>1, <1>2, <1>4, <1>6 DEF TableInv, EngineType
<1>8. /\ c.op # "remove" => RowsAt(V)[c.id] = [resource |-> c.resource, body |-> c.body]
      /\ c.op = "remove" => \A u \in V..Len(log) : RowsAt(u)[c.id] = Absent
  BY <1>1, <1>3 DEF TableInv, ChangesSay
<1>9. ASSUME NEW i \in DataId, NEW row, HoldsRow(byRes, i, row), i # c.id
      PROVE  HoldsRow(byRes', i, row)
  BY <1>6, <1>9 DEF HoldsRow
<1>10. c.op # "remove" => HoldsRow(byRes', c.id, RowsAt(V)[c.id])
  BY <1>6, <1>8 DEF HoldsRow
<1>11. SettledTable'
  <2> SUFFICES ASSUME version >= horizon, NEW i \in DataId, RowNow(i)' # Absent
               PROVE  HoldsRow(byRes', i, RowNow(i)')
    BY <1>2 DEF SettledTable, HoldsRow, Holds
  <2>1. CASE i = c.id
    <3>1. Changed(i)'
      BY <1>1, <1>2, <1>4, <2>1 DEF Changed, c
    <3>2. RowNow(i)' = RowsAt(V)[i]
      BY <1>2, <1>4, <3>1 DEF RowNow, RowsAt
    <3>3. c.op # "remove"
      BY <1>1, <1>8, <2>1, <3>2
    <3> QED
      BY <1>10, <2>1, <3>2, <3>3
  <2>2. CASE i # c.id
    <3>1. Changed(i)' <=> Changed(i)
      <4>1. \A n \in 1..(applied + 1) : n \in 1..applied \/ n = applied + 1
        BY <1>1
      <4>2. 1..applied \subseteq 1..(applied + 1)
        BY <1>1
      <4> QED
        BY <1>2, <1>4, <2>2, <4>1, <4>2 DEF Changed, c
    <3>2. RowNow(i)' = RowNow(i)
      BY <1>2, <3>1 DEF RowNow, RowsAt
    <3>3. HoldsRow(byRes, i, RowNow(i))
      BY <1>2, <3>2 DEF TableInv, SettledTable
    <3> QED
      BY <1>9, <2>2, <3>2, <3>3
  <2> QED
    BY <2>1, <2>2
<1>12. UnsettledTable'
  <2> SUFFICES ASSUME version < horizon, NEW i \in DataId, RowsAt(horizon)[i] # Absent,
                      ~Pending(i)'
               PROVE  HoldsRow(byRes', i, RowsAt(horizon)[i])
    BY <1>2 DEF UnsettledTable, HoldsRow, Holds, RowsAt
  <2>1. V \in 0..Len(log) /\ horizon \in V..Len(log) /\ horizon \in 0..Len(log) /\ V <= horizon
    BY <1>1
  <2>2. CASE i = c.id
    <3>1. c.op # "remove"
      BY <1>8, <2>1, <2>2
    <3>2. ASSUME NEW u \in (V + 1)..horizon PROVE ~Touches(u, i)
      <4>1. u \in V..horizon /\ u > V
        BY <1>1, <3>2
      <4> QED
        BY <1>2, <4>1 DEF Pending, Touches
    <3>3. RowsAt(horizon)[i] \in {RowsAt(V)[i], Absent}
      BY <2>1, <3>2 DEF TableInv, LogExplains
    <3> QED
      BY <1>10, <2>2, <3>1, <3>3
  <2>3. CASE i # c.id
    <3>1. ASSUME Pending(i) PROVE FALSE
      <4>0. PICK w \in V..horizon : \E n \in DOMAIN log[w] :
              log[w][n].id = i /\ (w > V \/ n > applied)
        BY <3>1 DEF Pending
      <4>1. PICK n \in DOMAIN log[w] : log[w][n].id = i /\ (w > V \/ n > applied)
        BY <4>0
      <4>2. w > V \/ n > applied + 1
        <5> SUFFICES ASSUME ~(w > V) PROVE n > applied + 1
          OBVIOUS
        <5>1. w = V
          BY <1>1, <4>1
        <5>2. n \in Nat /\ n > applied /\ n # applied + 1
          BY <1>1, <1>3, <2>3, <4>1, <5>1
        <5> QED
          BY <1>1, <5>2
      <4> QED
        BY <1>2, <4>1, <4>2 DEF Pending
    <3>2. HoldsRow(byRes, i, RowsAt(horizon)[i])
      BY <1>2, <3>1 DEF TableInv, UnsettledTable
    <3> QED
      BY <1>9, <2>3, <3>2
  <2> QED
    BY <2>2, <2>3
<1> QED
  BY <1>5, <1>7, <1>11, <1>12 DEF TableInv

(* The version is stored once all changes of the delta are made. *)
LEMMA StoreStep ==
  ASSUME TableInv, StoreVersion
  PROVE  TableInv'
<1> DEFINE V == version + 1
<1>1. /\ version \in Nat /\ horizon \in Nat /\ applied \in Nat /\ Len(log) \in Nat
      /\ V \in 1..Len(log) /\ horizon <= Len(log)
      /\ NextDelta \in Seq(ChangeRec) /\ NextDelta = log[V]
      /\ applied = Len(NextDelta)
  BY ApplyingFacts DEF StoreVersion
<1>2. /\ UNCHANGED <<rows, seq, log, hist, byRes, ready, horizon, snap>>
      /\ version' = V /\ applied' = 0 /\ ready
  BY DEF StoreVersion, Applying, dbVars
<1>3. LogType' /\ ChangesSay' /\ LogExplains' /\ SnapInv'
  <2>1. SnapInv'
    BY <1>2 DEF TableInv, SnapInv, RowsAt
  <2> QED
    BY <1>2, <2>1, LogKept
<1>4. EngineType'
  BY <1>1, <1>2 DEF TableInv, EngineType
<1>5. \A i \in DataId : RowNow(i)' = RowsAt(V)[i]
  <2>1. \A i \in DataId : ~Changed(i)'
    BY <1>2 DEF Changed
  <2> QED
    BY <1>2, <2>1 DEF RowNow, RowsAt
<1>6. DOMAIN log[V] = 1..applied
  BY <1>1
<1>7. SettledTable'
  <2> SUFFICES ASSUME V >= horizon, NEW i \in DataId, RowsAt(V)[i] # Absent
               PROVE  HoldsRow(byRes, i, RowsAt(V)[i])
    BY <1>2, <1>5 DEF SettledTable, HoldsRow, Holds
  <2>1. CASE version >= horizon
    <3>1. RowNow(i) # Absent => HoldsRow(byRes, i, RowNow(i))
      BY <1>2, <2>1 DEF TableInv, SettledTable
    <3>2. CASE Changed(i)
      BY <3>1, <3>2 DEF RowNow
    <3>3. CASE ~Changed(i)
      <4>1. ~Touches(V, i)
        BY <1>1, <1>6, <3>3 DEF Touches, Changed
      <4>2. version \in 0..Len(log) /\ V \in 0..Len(log) /\ version <= V
        BY <1>1
      <4>3. \A u \in (version + 1)..V : ~Touches(u, i)
        BY <1>1, <4>1
      <4>4. RowsAt(V)[i] \in {RowsAt(version)[i], Absent}
        BY <4>2, <4>3 DEF TableInv, LogExplains
      <4> QED
        BY <3>1, <3>3, <4>4 DEF RowNow
    <3> QED
      BY <3>2, <3>3
  <2>2. CASE version < horizon
    <3>1. horizon = V
      BY <1>1, <2>2
    <3>2. ~Pending(i)
      BY <1>1, <1>6, <3>1 DEF Pending
    <3> QED
      BY <1>2, <2>2, <3>1, <3>2 DEF TableInv, UnsettledTable
  <2> QED
    BY <1>1, <2>1, <2>2
<1>8. UnsettledTable'
  <2> SUFFICES ASSUME V < horizon, NEW i \in DataId, RowsAt(horizon)[i] # Absent
               PROVE  HoldsRow(byRes, i, RowsAt(horizon)[i]) \/ Pending(i)'
    BY <1>2 DEF UnsettledTable, HoldsRow, Holds, RowsAt
  <2>1. ASSUME Pending(i) PROVE Pending(i)'
    <3>0. PICK w \in V..horizon : \E n \in DOMAIN log[w] :
            log[w][n].id = i /\ (w > V \/ n > applied)
      BY <2>1 DEF Pending
    <3>1. PICK n \in DOMAIN log[w] : log[w][n].id = i /\ (w > V \/ n > applied)
      BY <3>0
    <3>2. w # V
      BY <1>1, <1>6, <3>1
    <3>3. w \in (V + 1)..horizon /\ w \in 1..Len(log)
      BY <1>1, <3>1, <3>2
    <3>4. n \in Nat /\ n > 0
      <4>1. log[w] \in Seq(ChangeRec)
        BY <3>3 DEF TableInv, LogType
      <4> QED
        BY <4>1, <3>1
    <3> QED
      BY <1>2, <3>1, <3>3, <3>4 DEF Pending
  <2> QED
    BY <1>1, <1>2, <2>1 DEF TableInv, UnsettledTable
<1> QED
  BY <1>3, <1>4, <1>7, <1>8 DEF TableInv

(* A delta that fails leaves a table nobody reads. *)
LEMMA FailStep ==
  ASSUME TableInv, DeltaFails
  PROVE  TableInv'
<1>1. /\ UNCHANGED <<rows, seq, log, hist, byRes, version, horizon, snap>>
      /\ ready' = FALSE /\ applied' = 0
  BY DEF DeltaFails, dbVars
<1>2. LogType' /\ ChangesSay' /\ LogExplains'
  BY <1>1, LogKept
<1>3. SnapInv'
  BY <1>1 DEF TableInv, SnapInv, RowsAt
<1>4. EngineType'
  <2>1. TableType(byRes')
    BY <1>1 DEF TableInv, EngineType
  <2>2. version' \in 0..Len(log') /\ horizon' \in 0..Len(log')
    BY <1>1 DEF TableInv, EngineType
  <2>3. ready' \in BOOLEAN
    BY <1>1
  <2>4. applied' \in Nat /\ ~(applied' > 0)
    BY <1>1
  <2> QED
    BY <2>1, <2>2, <2>3, <2>4 DEF EngineType
<1> QED
  BY <1>1, <1>2, <1>3, <1>4 DEF TableInv, SettledTable, UnsettledTable

(* PullSnapshot: the version, and later the rows. *)
LEMMA PullStep ==
  ASSUME TableInv, PullVersion \/ PullRows
  PROVE  TableInv'
<1>1. UNCHANGED <<rows, seq, log, hist, byRes, version, applied, ready, horizon>>
  BY DEF PullVersion, PullRows, dbVars, engineVars
<1>2. LogType' /\ ChangesSay' /\ LogExplains' /\ SettledTable' /\ UnsettledTable'
  BY <1>1, LogKept, EngineKept
<1>3. /\ Len(log) \in Nat /\ rows \in RowSet /\ rows = RowsAt(Len(log))
      /\ applied \in Nat /\ NoRows \in RowSet
      /\ snap \in [version : Nat, rows : RowSet, readAt : Nat,
                   stage : {"none", "version", "rows"}]
  BY DEF TableInv, LogType, EngineType, SnapInv, NoRows, RowSet
<1>4. CASE PullVersion
  <2>1. applied = 0 /\ snap' = [NoSnapshot EXCEPT !.version = Len(log), !.stage = "version"]
    BY <1>4 DEF PullVersion, CurrentVersion
  <2>2. EngineType'
    BY <1>1, <2>1 DEF TableInv, EngineType
  <2>3. snap' = [version |-> Len(log), rows |-> NoRows, readAt |-> 0, stage |-> "version"]
    BY <2>1 DEF NoSnapshot
  <2>4. SnapInv'
    BY <1>1, <1>3, <2>3 DEF SnapInv
  <2> QED
    BY <1>2, <2>2, <2>4 DEF TableInv
<1>5. CASE PullRows
  <2>1. /\ snap.stage = "version"
        /\ snap' = [snap EXCEPT !.rows = rows, !.readAt = Len(log), !.stage = "rows"]
    BY <1>5 DEF PullRows, CurrentVersion
  <2>2. /\ snap' \in [version : Nat, rows : RowSet, readAt : Nat,
                      stage : {"none", "version", "rows"}]
        /\ snap'.version = snap.version /\ snap'.rows = rows /\ snap'.readAt = Len(log)
        /\ snap'.stage = "rows" /\ snap.version <= Len(log)
    BY <1>3, <2>1 DEF TableInv, SnapInv
  <2>3. ~(applied > 0)
    BY <2>1 DEF TableInv, EngineType
  <2>4. EngineType'
    BY <1>1, <2>3 DEF TableInv, EngineType
  <2>5. SnapInv'
    BY <1>1, <1>3, <2>2 DEF SnapInv, RowsAt
  <2> QED
    BY <1>2, <2>4, <2>5 DEF TableInv
<1> QED
  BY <1>4, <1>5

(* What is known of the snapshot when it is applied. *)
LEMMA SnapshotFacts ==
  ASSUME TableInv, snap.stage = "rows"
  PROVE  /\ snap.version \in Nat /\ snap.readAt \in Nat /\ Len(log) \in Nat
         /\ snap.version <= snap.readAt /\ snap.readAt <= Len(log)
         /\ snap.rows = RowsAt(snap.readAt) /\ applied = 0
         /\ \A t \in TablesOf(snap.rows) :
              /\ TableType(t)
              /\ \A i \in DataId : snap.rows[i] # Absent => HoldsRow(t, i, snap.rows[i])
<1>1. /\ snap.version \in Nat /\ snap.readAt \in Nat /\ Len(log) \in Nat
      /\ snap.version <= snap.readAt /\ snap.readAt <= Len(log)
      /\ snap.rows = RowsAt(snap.readAt) /\ snap.rows \in RowSet
  BY DEF TableInv, SnapInv, LogType
<1>2. applied = 0
  <2>1. applied \in Nat /\ ~(applied > 0)
    BY DEF TableInv, EngineType
  <2> QED
    BY <2>1
<1>3. seq \in Nat /\ \A i \in DataId : snap.rows[i] # Absent => i \in 1..seq
  BY <1>1 DEF TableInv, LogType
<1>4. ASSUME NEW t \in TablesOf(snap.rows)
      PROVE  /\ TableType(t)
             /\ \A i \in DataId : snap.rows[i] # Absent => HoldsRow(t, i, snap.rows[i])
  BY <1>1, <1>3, TablesOfHold
<1> QED
  BY <1>1, <1>2, <1>4

(* No snapshot is being pulled any more. *)
LEMMA NoSnapshotType ==
  NoSnapshot \in [version : Nat, rows : RowSet, readAt : Nat, stage : {"none", "version", "rows"}]
    /\ NoSnapshot.stage = "none"
BY DEF NoSnapshot, NoRows, RowSet

(* A snapshot is applied: its table holds the rows of the version it was   *)
(* read at.                                                                *)
LEMMA SnapshotStep ==
  ASSUME TableInv, ApplySnapshot
  PROVE  TableInv'
<1>1. /\ UNCHANGED <<rows, seq, log, hist, applied>> /\ snap.stage = "rows"
      /\ byRes' \in TablesOf(snap.rows) /\ version' = snap.version /\ horizon' = snap.readAt
      /\ ready' = TRUE /\ snap' = NoSnapshot
  BY DEF ApplySnapshot, dbVars
<1>2. /\ snap.version \in Nat /\ snap.readAt \in Nat /\ Len(log) \in Nat
      /\ snap.version <= snap.readAt /\ snap.readAt <= Len(log)
      /\ snap.rows = RowsAt(snap.readAt) /\ applied = 0
      /\ TableType(byRes')
      /\ \A i \in DataId : snap.rows[i] # Absent => HoldsRow(byRes', i, snap.rows[i])
  BY <1>1, SnapshotFacts
<1>3. LogType' /\ ChangesSay' /\ LogExplains'
  BY <1>1, LogKept
<1>4. SnapInv'
  BY <1>1, NoSnapshotType DEF SnapInv
<1>5. EngineType'
  BY <1>1, <1>2 DEF EngineType
<1>6. \A i \in DataId : RowsAt(horizon)'[i] = snap.rows[i] /\ RowNow(i)' = RowsAt(version)'[i]
  <2>1. \A i \in DataId : ~Changed(i)'
    BY <1>1, <1>2 DEF Changed
  <2> QED
    BY <1>1, <1>2, <2>1 DEF RowNow, RowsAt
<1>7. UnsettledTable'
  BY <1>2, <1>6 DEF UnsettledTable, HoldsRow, Holds
<1>8. SettledTable'
  <2>1. version' >= horizon' => version' = horizon'
    BY <1>1, <1>2
  <2>2. version' = horizon' => RowsAt(version)' = RowsAt(horizon)'
    BY DEF RowsAt
  <2> QED
    BY <1>2, <1>6, <2>1, <2>2 DEF SettledTable, HoldsRow, Holds
<1> QED
  BY <1>3, <1>4, <1>5, <1>7, <1>8 DEF TableInv

(* An apply of a snapshot that fails leaves a table nobody reads. *)
LEMMA SnapshotFailsStep ==
  ASSUME TableInv, SnapshotFails
  PROVE  TableInv'
<1>1. /\ UNCHANGED <<rows, seq, log, hist, version, applied, horizon>> /\ snap.stage = "rows"
      /\ byRes' \in TablesOf(snap.rows) \cup {byRes} /\ ready' = FALSE /\ snap' = NoSnapshot
  BY DEF SnapshotFails, dbVars
<1>2. applied = 0 /\ TableType(byRes')
  <2>1. TableType(byRes)
    BY DEF TableInv, EngineType
  <2> QED
    BY <1>1, <2>1, SnapshotFacts
<1>3. LogType' /\ ChangesSay' /\ LogExplains'
  BY <1>1, LogKept
<1>4. SnapInv'
  BY <1>1, NoSnapshotType DEF SnapInv
<1>5. EngineType'
  BY <1>1, <1>2 DEF TableInv, EngineType
<1> QED
  BY <1>1, <1>3, <1>4, <1>5 DEF TableInv, SettledTable, UnsettledTable

(***************************************************************************)
(* The inductive invariant of the data policies: the log explains the      *)
(* rows, and the table holds those of its version, or those of its         *)
(* snapshot up to the changes still to come.                               *)
(***************************************************************************)
THEOREM TableInvariance == TableSpec => []TableInv
<1>1. TableInit => TableInv
  <2> SUFFICES ASSUME TableInit PROVE TableInv
    OBVIOUS
  <2>1. /\ rows = NoRows /\ seq = 0 /\ log = << >> /\ hist = <<NoRows>> /\ byRes = EmptyTable
        /\ version = 0 /\ applied = 0 /\ ready = FALSE /\ horizon = 0 /\ snap = NoSnapshot
    BY DEF TableInit
  <2>2. NoRows \in RowSet /\ \A i \in DataId : NoRows[i] = Absent
    BY DEF NoRows, RowSet
  <2>3. Len(log) = 0 /\ log \in Seq(Seq(ChangeRec))
    BY <2>1
  <2> HIDE DEF NoRows
  <2>4. hist \in Seq(RowSet) /\ Len(hist) = 1 /\ hist[1] = NoRows
    BY <2>1, <2>2
  <2>5. \A v \in 0..Len(log) : RowsAt(v) = NoRows
    BY <2>3, <2>4 DEF RowsAt
  <2>6. LogType
    BY <2>1, <2>2, <2>3, <2>4, <2>5 DEF LogType
  <2>7. ChangesSay
    BY <2>3 DEF ChangesSay
  <2>8. LogExplains
    BY <2>2, <2>5 DEF LogExplains
  <2>9. EngineType
    <3>1. TableType(byRes)
      BY <2>1 DEF TableType, EmptyTable
    <3>2. ready \in BOOLEAN
      BY <2>1
    <3>3. applied \in Nat /\ ~(applied > 0)
      BY <2>1
    <3> QED
      BY <2>1, <2>3, <3>1, <3>2, <3>3 DEF EngineType
  <2>10. SnapInv
    BY <2>1, NoSnapshotType DEF SnapInv
  <2> QED
    BY <2>1, <2>6, <2>7, <2>8, <2>9, <2>10 DEF TableInv, SettledTable, UnsettledTable
<1>2. TableInv /\ [TableNext]_tableVars => TableInv'
  <2> SUFFICES ASSUME TableInv, [TableNext]_tableVars PROVE TableInv'
    OBVIOUS
  <2>1. ASSUME NEW row \in Row, InsertDataPolicy(row) PROVE TableInv'
    BY <2>1, InsertStep
  <2>2. ASSUME NEW i \in DataId, NEW row \in Row, UpdateDataPolicy(i, row) PROVE TableInv'
    BY <2>2, UpdateStep
  <2>3. ASSUME NEW ids \in SUBSET DataId, BatchDeleteDataPolicy(ids) PROVE TableInv'
    BY <2>3, DeleteStep
  <2>4. ASSUME NEW i \in DataId, DeleteDataPolicy(i) PROVE TableInv'
    BY <2>3, <2>4 DEF DeleteDataPolicy
  <2>5. CASE RouteChange
    BY <2>5, RouteStep
  <2>6. CASE StoreVersion
    BY <2>6, StoreStep
  <2>7. CASE DeltaFails
    BY <2>7, FailStep
  <2>8. CASE PullVersion \/ PullRows
    BY <2>8, PullStep
  <2>9. CASE ApplySnapshot
    BY <2>9, SnapshotStep
  <2>10. CASE SnapshotFails
    BY <2>10, SnapshotFailsStep
  <2>11. CASE UNCHANGED tableVars
    <3>1. UNCHANGED <<rows, seq, log, hist, byRes, version, applied, ready, horizon, snap>>
      BY <2>11 DEF tableVars, dbVars, engineVars
    <3>2. LogType' /\ ChangesSay' /\ LogExplains' /\ SettledTable' /\ UnsettledTable'
      BY <3>1, LogKept, EngineKept
    <3>3. EngineType' /\ SnapInv'
      BY <3>1 DEF TableInv, EngineType, NextDelta, SnapInv, RowsAt
    <3> QED
      BY <3>2, <3>3 DEF TableInv
  <2> QED
    BY <2>1, <2>2, <2>3, <2>4, <2>5, <2>6, <2>7, <2>8, <2>9, <2>10, <2>11 DEF TableNext
<1> QED
  BY <1>1, <1>2, PTL DEF TableSpec

(***************************************************************************)
(* No data policy is missing from the sidecar's table (NoPolicyMissing),   *)
(* for any number of policies, resources and versions, however updates     *)
(* move policies, snapshots are torn and applies fail.                     *)
(***************************************************************************)
THEOREM NotMissingTheorem == TableSpec => []NoPolicyMissing
<1>1. TableInv => NoPolicyMissing
  <2> SUFFICES ASSUME TableInv, Settled, NEW i \in DataId, RowNow(i) # Absent
               PROVE  <<RowNow(i).resource, [id |-> i, body |-> RowNow(i).body]>> \in Entries
    BY DEF NoPolicyMissing, RowNow
  <2>1. HoldsRow(byRes, i, RowNow(i))
    BY DEF TableInv, SettledTable, Settled
  <2> QED
    BY <2>1 DEF HoldsRow, Holds, Entries
<1> QED
  BY <1>1, TableInvariance, PTL
=============================================================================
