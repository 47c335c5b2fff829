------------------------------ MODULE DataTable ------------------------------
(***************************************************************************)
(* The data policies of one application on their way from the table        *)
(* data_policy to the in-memory Table of the sidecar                       *)
(* (internal/sidecar/dataperm/table.go).  The sidecar receives the deltas  *)
(* in version order without gaps, or replaces its table by a snapshot:     *)
(* that much is PolicySync's business.  Here it is what a delta says about *)
(* data policies, and what the table, indexed by resource, makes of it,    *)
(* one change at a time, while requests read it and an apply may fail.     *)
(***************************************************************************)
EXTENDS Naturals, SequencesExt

CONSTANTS DataId,     \* row ids, handed out in order from 1
          Resource,   \* resources data policies are about
          NoResource, \* the empty resource of a removal
          Body,       \* subject, condition and effect of a policy
          Absent,     \* no such row
          MaxVersion  \* bound on the versions explored

ASSUME TableAssumption ==
  /\ DataId \subseteq Nat \ {0}
  /\ NoResource \notin Resource
  /\ MaxVersion \in Nat

VARIABLES rows,    \* data_policy
          seq,     \* its id sequence
          log,     \* log[v]: the data changes of the delta of version v
          hist,    \* history: hist[v + 1] are the rows of version v
          byRes,   \* Table.byRes: a bucket of entries for each resource
          version, \* Engine.version: the version the sidecar has applied
          applied, \* how many changes of the next delta are in the table already
          ready,   \* Engine.ready
          snap,    \* the snapshot being pulled
          horizon  \* history: the version the last snapshot's rows were read at

dbVars     == <<rows, seq, log, hist>>
engineVars == <<byRes, version, applied, ready, horizon>>
tableVars  == <<dbVars, engineVars, snap>>

Row    == [resource : Resource, body : Body]
NoRows == [i \in DataId |-> Absent]

CurrentVersion == Len(log)
RowsAt(v) == hist[v + 1]

EmptyTable == [r \in {} |-> << >>]
NoSnapshot == [version |-> 0, rows |-> NoRows, readAt |-> 0, stage |-> "none"]

TableInit ==
  /\ rows = NoRows /\ seq = 0 /\ log = << >> /\ hist = <<NoRows>>
  /\ byRes = EmptyTable /\ version = 0 /\ applied = 0 /\ ready = FALSE /\ horizon = 0
  /\ snap = NoSnapshot

-----------------------------------------------------------------------------
(* Writes: the rows after the write and the changes its delta carries *)

Change(op, id, row) == [op |-> op, id |-> id, resource |-> row.resource, body |-> row.body]

(***************************************************************************)
(* A removal carries the id and nothing else.                              *)
(***************************************************************************)
Removal(id) == [op |-> "remove", id |-> id, resource |-> NoResource, body |-> Absent]

Write(newRows, changes) ==
  /\ CurrentVersion < MaxVersion
  /\ rows' = newRows
  /\ log' = Append(log, changes)
  /\ hist' = Append(hist, newRows)
  /\ UNCHANGED <<engineVars, snap>>

InsertDataPolicy(row) ==
  LET id == seq + 1
  IN  /\ id \in DataId
      /\ seq' = id
      /\ Write([rows EXCEPT ![id] = row], <<Change("add", id, row)>>)

UpdateDataPolicy(id, row) ==
  /\ rows[id] # Absent
  /\ UNCHANGED seq
  /\ Write([rows EXCEPT ![id] = row], <<Change("update", id, row)>>)

(***************************************************************************)
(* DELETE ... RETURNING and SELECT give their rows in no fixed order.      *)
(***************************************************************************)
Orders(S) == Surjection(1 .. Cardinality(S), S)

BatchDeleteDataPolicy(ids) ==
  /\ UNCHANGED seq
  /\ \E changes \in Orders({Removal(i) : i \in {k \in ids : rows[k] # Absent}}) :
       Write([i \in DataId |-> IF i \in ids THEN Absent ELSE rows[i]], changes)

DeleteDataPolicy(id) == rows[id] # Absent /\ BatchDeleteDataPolicy({id})

-----------------------------------------------------------------------------
(* Table *)

Bucket(t, r) == IF r \in DOMAIN t THEN t[r] ELSE << >>

WithBucket(t, r, bucket) ==
  IF bucket = << >>
  THEN [q \in DOMAIN t \ {r} |-> t[q]]
  ELSE [q \in DOMAIN t \cup {r} |-> IF q = r THEN bucket ELSE t[q]]

AddEntry(t, c) ==
  WithBucket(t, c.resource, Append(Bucket(t, c.resource), [id |-> c.id, body |-> c.body]))

(***************************************************************************)
(* removeLocked: the first entry with the id in the bucket of the change's *)
(* resource goes, and an empty bucket is deleted.                          *)
(***************************************************************************)
RemoveLocked(t, c) ==
  WithBucket(t, c.resource,
             RemoveFirstMatch(Bucket(t, c.resource), LAMBDA e : e.id = c.id))

(* Mutant: an update adds the new entry before it removes the old one. *)
ApplyChangeAddFirst(t, c) ==
  CASE c.op = "add"    -> AddEntry(t, c)
    [] c.op = "remove" -> RemoveLocked(t, c)
    [] c.op = "update" -> RemoveLocked(AddEntry(t, c), c)

ApplyChange(t, c) ==
  CASE c.op = "add"    -> AddEntry(t, c)
    [] c.op = "remove" -> RemoveLocked(t, c)
    [] c.op = "update" -> AddEntry(RemoveLocked(t, c), c)

(***************************************************************************)
(* Engine.ApplyDelta routes the data changes of the next version to the    *)
(* table one by one and stores the version behind the last.  The client    *)
(* hands it a delta once a snapshot has been applied, and between pulls.   *)
(***************************************************************************)
NextDelta == log[version + 1]

Applying == ready /\ snap.stage = "none" /\ version < CurrentVersion

RouteChange ==
  /\ Applying
  /\ applied < Len(NextDelta)
  /\ byRes' = ApplyChange(byRes, NextDelta[applied + 1])
  /\ applied' = applied + 1
  /\ UNCHANGED <<dbVars, version, ready, horizon, snap>>

StoreVersion ==
  /\ Applying
  /\ applied = Len(NextDelta)
  /\ version' = version + 1
  /\ applied' = 0
  /\ UNCHANGED <<dbVars, byRes, ready, horizon, snap>>

(***************************************************************************)
(* The engine fails before the data changes or, clearing its cache, behind *)
(* them: it is not ready then, and the client pulls a snapshot.            *)
(***************************************************************************)
DeltaFails ==
  /\ Applying
  /\ applied \in {0, Len(NextDelta)}
  /\ ready' = FALSE
  /\ applied' = 0
  /\ UNCHANGED <<dbVars, byRes, version, horizon, snap>>

(***************************************************************************)
(* PullSnapshot reads the version first and the rows later.                *)
(***************************************************************************)
PullVersion ==
  /\ snap.stage = "none" /\ applied = 0
  /\ snap' = [NoSnapshot EXCEPT !.version = CurrentVersion, !.stage = "version"]
  /\ UNCHANGED <<dbVars, engineVars>>

PullRows ==
  /\ snap.stage = "version"
  /\ snap' = [snap EXCEPT !.rows = rows, !.readAt = CurrentVersion, !.stage = "rows"]
  /\ UNCHANGED <<dbVars, engineVars>>

(***************************************************************************)
(* Table.ApplySnapshot builds a new table of the rows, in their order.     *)
(***************************************************************************)
Stored(R, r) ==
  {[id |-> i, body |-> R[i].body] : i \in {k \in DataId : R[k] # Absent /\ R[k].resource = r}}

TablesOf(R) ==
  LET used == {R[i].resource : i \in {k \in DataId : R[k] # Absent}}
  IN  {t \in [used -> UNION {Orders(Stored(R, r)) : r \in used}] :
         \A r \in used : t[r] \in Orders(Stored(R, r))}

ApplySnapshot ==
  /\ snap.stage = "rows"
  /\ byRes' \in TablesOf(snap.rows)
  /\ version' = snap.version
  /\ ready' = TRUE
  /\ horizon' = snap.readAt
  /\ snap' = NoSnapshot
  /\ UNCHANGED <<dbVars, applied>>

(***************************************************************************)
(* The engine fails before it replaces the table or behind it.             *)
(***************************************************************************)
SnapshotFails ==
  /\ snap.stage = "rows"
  /\ byRes' \in TablesOf(snap.rows) \cup {byRes}
  /\ ready' = FALSE
  /\ snap' = NoSnapshot
  /\ UNCHANGED <<dbVars, version, applied, horizon>>

-----------------------------------------------------------------------------
TableNext ==
  \/ \E row \in Row : InsertDataPolicy(row)
  \/ \E i \in DataId, row \in Row : UpdateDataPolicy(i, row)
  \/ \E i \in DataId : DeleteDataPolicy(i)
  \/ \E ids \in (SUBSET DataId) \ {{}} : BatchDeleteDataPolicy(ids)
  \/ RouteChange \/ StoreVersion \/ DeltaFails
  \/ PullVersion \/ PullRows \/ ApplySnapshot \/ SnapshotFails

TableSpec == TableInit /\ [][TableNext]_tableVars

-----------------------------------------------------------------------------
(* Properties *)

Entries == UNION {{<<r, byRes[r][n]>> : n \in DOMAIN byRes[r]} : r \in DOMAIN byRes}

Settled == ready /\ version >= horizon

Changed(i) == \E n \in 1 .. applied : NextDelta[n].id = i

(***************************************************************************)
(* Once the table has reached the version its snapshot was read at, every  *)
(* data policy of its version is in the bucket of its resource, as it says *)
(* now, and while a delta is applied as the next version says as soon as   *)
(* its change is made: no restriction is lost to an update that moves a    *)
(* policy to another resource, a removal, a snapshot newer than its        *)
(* version or an apply that fails.                                         *)
(***************************************************************************)
NoPolicyMissing ==
  Settled => \A i \in DataId :
    LET row == RowsAt(IF Changed(i) THEN version + 1 ELSE version)[i]
    IN  row # Absent => <<row.resource, [id |-> i, body |-> row.body]>> \in Entries

(***************************************************************************)
(* "remove deletes by id, update is delete the old and add the new"        *)
(* (comment of ApplyChange, dataperm/table.go:83): a settled table has no  *)
(* entry but what its version says about that id now.                      *)
(***************************************************************************)
EntriesAreCurrent ==
  Settled /\ applied = 0 => \A e \in Entries :
    RowsAt(version)[e[2].id] = [resource |-> e[1], body |-> e[2].body]
=============================================================================
