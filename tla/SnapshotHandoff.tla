--------------------------- MODULE SnapshotHandoff ---------------------------
(***************************************************************************)
(* A table is copied in chunks while its source goes on changing, and the  *)
(* changes since a position taken beforehand are applied afterwards: what  *)
(* the target then holds.  The plan of the chunks is ChunkPlanner's.  How  *)
(* chunks are scheduled, how changes are read, and how they are applied    *)
(* exactly once, is in ChunkScheduler, CDCReaders and CDCApply: here the   *)
(* changes are applied in commit order, one transaction each.              *)
(***************************************************************************)
EXTENDS ChunkPlanner

CONSTANTS
  Scenarios,  \* the tables and tasks that may be met, see ScenarioType
  Keys,       \* the keys a row may have
  Workers,    \* slots of worker processes
  BatchRows   \* rows of a batch

ScenarioType ==
  [rows : SUBSET Keys,                             \* the table at first
   strategy : {"RANGE", "KEYSET", "HASH"},
   estimate : Words,                               \* its row count, by statistics
   conflict : {"SOURCE_WINS", "LAST_WRITE_WINS"},
   ops : SUBSET {"INSERT", "UPDATE", "MOVE", "DELETE", "TRUNCATE"},
   visible : {"at once", "before a read", "late"}, \* see ReadersSee
   tick : 1 .. 2,                                  \* changes per value of the version column
   changes : Nat, reclaims : Nat]                  \* bounds: changes, leases that run out

ASSUME ScenariosAssumption == Scenarios \subseteq ScenarioType
ASSUME KeysAssumption == Keys \subseteq 1 .. MaxInt /\ BatchRows \in Nat \ {0}

VARIABLES
  scenario,
  tables,    \* the source after each of its changes, the first is before any
  changes,   \* the changes, in commit order
  visible,   \* how many of them a query sees: a commit is logged before it is seen
  task,      \* its status, the change it starts behind, the last change applied
  chunks,    \* the plan: which chunks wait, their holders and cursors
  slots,     \* what each worker is doing
  target,    \* the row of each key
  reclaims,  \* leases that have run out
  late       \* a worker wrote behind the end of the copy (history)

sourceVars == <<tables, changes, visible>>
vars == <<scenario, sourceVars, task, chunks, slots, target, reclaims, late>>

\* A row is named by the change that wrote it, 1 for the rows of the start.
NoRow == 0
NoWorker == "none"

Now == Len(changes)
Source == tables[Now + 1]
Seen == tables[visible + 1]

Change(op, old, key, row) == [op |-> op, old |-> old, key |-> key, row |-> row]
Idle == [chunk |-> 0, step |-> "idle", after |-> 0, rows |-> <<>>]

\* The version column of a row.
Version(row) == row \div scenario.tick

-----------------------------------------------------------------------------
(* The source. *)

Effect(table, c) ==
  CASE c.op = "TRUNCATE" -> [k \in Keys |-> NoRow]
    [] c.op = "DELETE"   -> [table EXCEPT ![c.key] = NoRow]
    [] OTHER             -> [table EXCEPT ![c.old] = NoRow, ![c.key] = c.row]

\* The changes a client can make to the table.
Possible ==
  LET row == Now + 2
      Has(k) == Source[k] # NoRow
  IN {c \in {Change("INSERT", k, k, row) : k \in Keys} : ~Has(c.key)}
     \cup {c \in {Change("UPDATE", k, k, row) : k \in Keys} : Has(c.key)}
     \cup {c \in {Change("MOVE", old, k, row) : old, k \in Keys} : Has(c.old) /\ ~Has(c.key)}
     \cup {c \in {Change("DELETE", k, k, NoRow) : k \in Keys} : Has(c.key)}
     \cup {Change("TRUNCATE", 0, 0, NoRow)}

Commit ==
  /\ Now < scenario.changes
  /\ \E c \in Possible :
       /\ c.op \in scenario.ops
       /\ changes' = Append(changes, c)
       /\ tables' = Append(tables, Effect(Source, c))
  /\ visible' = IF scenario.visible = "at once" THEN Now + 1 ELSE visible
  /\ UNCHANGED <<scenario, task, chunks, slots, target, reclaims, late>>

Show ==
  /\ visible < Now
  /\ visible' = visible + 1
  /\ UNCHANGED <<scenario, tables, changes, task, chunks, slots, target, reclaims, late>>

\* The first query comes some while after the position was taken, and the
\* code relies on the commits before the position being visible by then.
ReadersSee == scenario.visible = "late" \/ visible >= task.start

-----------------------------------------------------------------------------
(* Preparation (prepareTask) and the start of the copy (MarkCDCStarted). *)

\* The position comes first: no change after it is missed, whenever the rows
\* are read.
CapturePosition ==
  /\ task.status = "PREPARING"
  /\ task' = [task EXCEPT !.status = "PLANNING", !.start = Now, !.applied = Now]
  /\ UNCHANGED <<scenario, sourceVars, chunks, slots, target, reclaims, late>>

Pending(chunk) == [chunk |-> chunk, status |-> "PENDING", holder |-> NoWorker, after |-> 0]

\* An empty table has no chunks; a plan that is refused fails the task.
PlanTable ==
  /\ task.status = "PLANNING" /\ ReadersSee
  /\ LET present == {k \in Keys : Seen[k] # NoRow}
     IN IF present = {}
        THEN chunks' = <<>> /\ task' = [task EXCEPT !.status = "CDC_INITIALIZING"]
        ELSE \E plan \in Plans(scenario.strategy, present, scenario.estimate, 1, 1) :
               /\ chunks' = [i \in DOMAIN plan |-> Pending(plan[i])]
               /\ task' = [task EXCEPT !.status = IF plan = Refused THEN "FAILED"
                                                  ELSE "CDC_INITIALIZING"]
  /\ UNCHANGED <<scenario, sourceVars, slots, target, reclaims, late>>

\* Mutant: a task without chunks waits for their end.
WaitsForChunks ==
  /\ task.status = "CDC_INITIALIZING"
  /\ task' = [task EXCEPT !.status = "FULL_MIGRATING"]
  /\ UNCHANGED <<scenario, sourceVars, chunks, slots, target, reclaims, late>>

\* The reader has started; a task without chunks has been copied already.
MarkCDCStarted ==
  /\ task.status = "CDC_INITIALIZING"
  /\ task' = [task EXCEPT !.status = IF chunks = <<>> THEN "CDC_CATCHING_UP"
                                     ELSE "FULL_MIGRATING"]
  /\ UNCHANGED <<scenario, sourceVars, chunks, slots, target, reclaims, late>>

-----------------------------------------------------------------------------
(* The copy: a worker takes a chunk and reads, writes and checkpoints one  *)
(* batch after the other (executeChunk).                                   *)

ClaimChunk(w) ==
  /\ task.status = "FULL_MIGRATING" /\ slots[w] = Idle
  /\ \E i \in DOMAIN chunks :
       /\ chunks[i].status = "PENDING"
       /\ chunks' = [chunks EXCEPT ![i].status = "RUNNING", ![i].holder = w]
       /\ slots' = [slots EXCEPT ![w] = [Idle EXCEPT !.chunk = i, !.step = "read",
                                                     !.after = chunks[i].after]]
  /\ UNCHANGED <<scenario, sourceVars, task, target, reclaims, late>>

Holds(w) == chunks[slots[w].chunk].holder = w

\* The first BatchRows rows of the chunk behind the cursor.
Behind(w) ==
  LET left == {k \in Keys : /\ Seen[k] # NoRow /\ k > slots[w].after
                            /\ Selects(chunks[slots[w].chunk].chunk, k)}
      first == {k \in left : Cardinality({j \in left : j < k}) < BatchRows}
  IN [k \in first |-> Seen[k]]

ReadBatch(w) ==
  /\ slots[w].step = "read" /\ ReadersSee
  /\ slots' = [slots EXCEPT ![w].rows = Behind(w),
                            ![w].step = IF Behind(w) = <<>> THEN "report" ELSE "write"]
  /\ UNCHANGED <<scenario, sourceVars, task, chunks, target, reclaims, late>>

\* WriteBatch replaces rows by key.  Nothing tells the target whose batch it
\* is: a worker that has lost its lease writes as well.
WriteBatch(w) ==
  /\ slots[w].step = "write"
  /\ target' = [k \in Keys |-> IF k \in DOMAIN slots[w].rows THEN slots[w].rows[k]
                               ELSE target[k]]
  /\ slots' = [slots EXCEPT ![w].step = "commit"]
  /\ late' = (late \/ task.status = "CDC_CATCHING_UP")
  /\ UNCHANGED <<scenario, sourceVars, task, chunks, reclaims>>

\* RenewChunkLease stores the cursor for the holder and refuses anyone else,
\* which ends the job.
CommitBatch(w) ==
  /\ slots[w].step = "commit"
  /\ LET last == CHOOSE k \in DOMAIN slots[w].rows : \A j \in DOMAIN slots[w].rows : j <= k
     IN IF Holds(w)
        THEN /\ chunks' = [chunks EXCEPT ![slots[w].chunk].after = last]
             /\ slots' = [slots EXCEPT ![w].step = "read", ![w].after = last, ![w].rows = <<>>]
        ELSE slots' = [slots EXCEPT ![w] = Idle] /\ UNCHANGED chunks
  /\ UNCHANGED <<scenario, sourceVars, task, target, reclaims, late>>

\* CompleteChunk, with refreshProgress: the last chunk ends the copy.
ReportChunk(w) ==
  /\ slots[w].step = "report"
  /\ slots' = [slots EXCEPT ![w] = Idle]
  /\ LET done == [chunks EXCEPT ![slots[w].chunk].status = "SUCCESS",
                                ![slots[w].chunk].holder = NoWorker]
         all == \A i \in DOMAIN done : done[i].status = "SUCCESS"
     IN IF Holds(w)
        THEN /\ chunks' = done
             /\ task' = [task EXCEPT !.status = IF all THEN "CDC_CATCHING_UP" ELSE @]
        ELSE UNCHANGED <<chunks, task>>
  /\ UNCHANGED <<scenario, sourceVars, target, reclaims, late>>

\* A lease runs out: the chunk is for anyone to take, from its cursor on.
ReclaimChunk(i) ==
  /\ reclaims < scenario.reclaims
  /\ chunks[i].status = "RUNNING"
  /\ chunks' = [chunks EXCEPT ![i].status = "PENDING", ![i].holder = NoWorker]
  /\ reclaims' = reclaims + 1
  /\ UNCHANGED <<scenario, sourceVars, task, slots, target, late>>

-----------------------------------------------------------------------------
(* The changes since the position, one transaction after the other. *)

\* Mutant: a change of the key leaves the row under its old key behind.
KeepsOldKey(table, c) ==
  IF c.op = "MOVE" THEN [table EXCEPT ![c.key] = c.row] ELSE Effect(table, c)

\* ApplyCDCEvents: under LAST_WRITE_WINS a row of the target that is no older
\* stays, and the change is passed over altogether.  A change of the key takes
\* the row away under its old key first.
ApplyTo(table, c) ==
  LET newer == /\ scenario.conflict = "LAST_WRITE_WINS"
               /\ c.op \in {"INSERT", "UPDATE", "MOVE"}
               /\ table[c.key] # NoRow
               /\ Version(c.row) <= Version(table[c.key])
  IN IF newer THEN table ELSE Effect(table, c)

\* Changes are only staged before the copy has ended.
ApplyChange ==
  /\ task.status = "CDC_CATCHING_UP" /\ task.applied < Now
  /\ target' = ApplyTo(target, changes[task.applied + 1])
  /\ task' = [task EXCEPT !.applied = @ + 1]
  /\ UNCHANGED <<scenario, sourceVars, chunks, slots, reclaims, late>>

-----------------------------------------------------------------------------
Init ==
  /\ scenario \in Scenarios
  /\ tables = <<[k \in Keys |-> IF k \in scenario.rows THEN 1 ELSE NoRow]>>
  /\ changes = <<>> /\ visible = 0
  /\ task = [status |-> "PREPARING", start |-> 0, applied |-> 0]
  /\ chunks = <<>>
  /\ slots = [w \in Workers |-> Idle]
  /\ target = [k \in Keys |-> NoRow]
  /\ reclaims = 0 /\ late = FALSE

Work(w) ==
  ReadBatch(w) \/ WriteBatch(w) \/ CommitBatch(w) \/ ReportChunk(w)

Next ==
  \/ Commit \/ Show
  \/ CapturePosition \/ PlanTable \/ MarkCDCStarted
  \/ \E w \in Workers : ClaimChunk(w) \/ Work(w)
  \/ \E i \in DOMAIN chunks : ReclaimChunk(i)
  \/ ApplyChange

\* Servers and workers go on, a commit becomes visible, and some worker comes
\* for the next chunk; the source need not change and no lease need run out.
Fairness ==
  /\ WF_vars(CapturePosition) /\ WF_vars(PlanTable) /\ WF_vars(MarkCDCStarted)
  /\ WF_vars(Show) /\ WF_vars(ApplyChange)
  /\ WF_vars(\E w \in Workers : ClaimChunk(w))
  /\ \A w \in Workers : WF_vars(Work(w))

Spec == Init /\ [][Next]_vars /\ Fairness

-----------------------------------------------------------------------------
\* A change still to be applied touches the row: the copy may have read it
\* before or after that change.
Unsettled(k) ==
  \E i \in task.applied + 1 .. Now :
    changes[i].op = "TRUNCATE" \/ k \in {changes[i].old, changes[i].key}

(***************************************************************************)
(* The chunks of any table cover every row of it, none twice, whatever its *)
(* keys and however wrong its estimate is (PlanPartitions): asked once, of *)
(* the states in which nothing has happened yet.                           *)
(***************************************************************************)
PlansPartition == task.status = "PREPARING" /\ changes = <<>> => PlanPartitions

(***************************************************************************)
(* While the changes are applied, every row that no change still to come   *)
(* touches is the source's row: nothing of the table is missed by both the *)
(* copy and the changes, and nothing old comes back.  Once the target has  *)
(* caught up it therefore equals the source, which a cutover relies on.    *)
(* Excepted are the writes of a worker that lost its lease, still under    *)
(* way when the copy ended: nothing stops them.                            *)
(***************************************************************************)
TargetFollowsSource ==
  task.status = "CDC_CATCHING_UP" /\ ~late =>
    \A k \in Keys : Unsettled(k) \/ target[k] = Source[k]

\* Whatever the source does meanwhile, the target ends up equal to it.
CatchesUp == <>[](target = Source \/ late \/ task.status = "FAILED")

=============================================================================
