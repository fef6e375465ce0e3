# DTS in TLA+

A formal model of the data-migration system in `src/backend`: what the servers,
the workers and the change readers do to the shared tables and to the target,
checked with TLC on small instances and, for planning, copy, handoff, the readers
of GBase 8s, PostgreSQL, TiCDC, GaussDB and pureScale, apply, spool directory,
engine jobs and tasks, proved with TLAPS for every instance. All paths below are relative to `src/backend`; `service.go` is
`internal/migration/service.go`. Paths under `docs/` are the repository's.

Contents: 1 the system, 2 the modules, 3 the runs, 4 fairness, 5 proofs,
6 what the checks found, 7 what is not modelled, 8 plan, 9 how to run.

## 1. The system

DTS migrates a database in phases: schema and precheck, chunked full copy,
change-data capture (CDC) catch-up, validation, then cutover (or rollback).
Several **servers** (control-plane processes) share one PostgreSQL metadata
database; **workers** poll the servers for chunk jobs and for engine jobs (CDC
readers). Nothing is shared but the tables and the payload store, and a server
keeps only mutexes of its own process.

| Component | State | Operations | Interacts through | Module |
|---|---|---|---|---|
| Task lifecycle, validation, cutover, rollback (`service.go` 399-540, 716-1166, 4969-5334, 6860-7331) | task row, validation results, runners of a server | Start, prepareTask, Pause, Resume, Cancel, ValidateNow, RepairValidation, ReadyForCutover, Cutover, PrepareRollback, Rollback, RecoverInterrupted | whole-row writes of the task | TaskControl |
| Control-operation leases (`service.go` 77-242) | lease rows | acquire, renew, release, expire, take over | repository | TaskControl |
| Chunk planning (`chunk_planner.go`) | none | range arithmetic, keyset boundaries, hash buckets | chunk rows | ChunkPlanner |
| Chunked full copy (`service.go` 2602-3748) | `migration_chunks` (range, cursor, owner, lease, retries), task row | ClaimChunk, RenewChunk, CompleteChunk, yield, FailChunk, adaptPendingChunks, refreshProgress | chunk rows, task row, `progressMu` (per process) | ChunkScheduler |
| Full-copy pipeline (`internal/pipeline/full.go`, `cmd/worker/main.go`) | reading goroutine, bounded queue, written batches | read ahead, write, report the cursor, yield, stop | a channel, the renew hook | FullPipeline |
| Copy and changes of one table (`service.go` 740-1000, 6480-6640) | the rows of source and target | start position, snapshot reads, upserts, replay of changes | position and chunk rows | SnapshotHandoff |
| Engine jobs (`service.go` 7346-7652) | `engine_jobs` (owner, lease, status) | claim, start, renew, complete, fail, stop | repository, worker slots | EngineJobs |
| Change readers and log parsers (`internal/cdc/*`, `internal/connector/*`) | cursor, open transactions, queue, acknowledged position | Next, Acknowledge, idle checkpoints, reconnect | source log; `internal/cdc/runtime` | CDCReaders, StreamReaders |
| CDC apply, spool, dead letters (`service.go` 5377-6858) | `cdc_positions`, `cdc_spool`, `cdc_dead_letters`, drain lease, target transactions | stage, drain, fence, commit, checkpoint, replay, resolve | tables, `cdcSpoolLock` (per process), drain lease | CDCApply |
| Spool payload stores (`internal/repository/spoolfile`, `spools3`) | payload objects beside spool rows | stage, read, mark, move, reconcile | directory or bucket | SpoolPayload |
| Schema conversion, API, archives, console, tools | wire formats, data | - | - | - |

What is hard here:

* handlers read a row, decide, and later store **the whole row** as they read
  it, so they undo each other's changes;
* mutexes are local to a process while the tables are shared by many;
* leases (chunks, jobs, control operations, drains) expire while their holder is
  merely slow, and their owners are told apart coarsely (worker, not slot;
  server and operation, not runner);
* a target COMMIT may be ambiguous, and a process may die in any of the windows
  between fence, COMMIT, checkpoint, fence removal, spool mark and answer;
* logs interleave transactions, streams run ahead of one another, rows are sent
  again, and the position that is stored must pass nothing that is still needed;
* the copy of a table overlaps its changes, and a late writer brings old rows;
* an object and its row cannot be written at once;
* wake-ups are single goroutines that end with the first error or the process.

What makes each part correct: the plan partitions the keys; the copy covers
every row and no cursor, report or completion is ahead of the target; every
reader delivers each committed transaction once, whole, in commit order, from
positions that forget nothing; CDC applies each transaction once and in order,
acknowledges only what is durable and never forgets an ambiguous COMMIT; a
PENDING spool row can be read; the target ends up equal to the source; one
runner prepares or validates a task, one reader is accepted, and a task is cut
over with nothing left behind; work that was accepted is in the end done.

## 2. The modules

How they fit together: `ChunkPlanner` cuts the table whose chunks
`ChunkScheduler` hands out; inside a slot `FullPipeline` implements `ChunkJob`,
the contract `ChunkScheduler` relies on; `CDCReaders` and `StreamReaders`
implement `CommittedStream`, the stream of transactions `CDCApply` takes in, and `CDCApply`
implements `OrderedApply`, what the source and the target are promised;
`SnapshotHandoff` composes plan, copy and changes of one table; `EngineJobs` says
which reader runs, `TaskControl` which phase the task is in, `SpoolPayload` what
is behind a row of the spool.

| Module | Depends on | Checked by (MC module) |
|---|---|---|
| ChunkScheduler, ChunkScheduler_proofs | | chunk_copy, chunk_live, chunk_skip (MCChunkScheduler) |
| ChunkJob; FullPipeline | FullPipeline instantiates ChunkJob | full_pipeline |
| ChunkPlanner; SnapshotHandoff; TableCopy_proofs | SnapshotHandoff extends ChunkPlanner; the proofs extend it and FullPipeline | handoff (MCSnapshotHandoff) |
| OrderedApply; CDCApply, CDCApply_proofs | CDCApply instantiates OrderedApply | cdc_order, cdc_operator (MCCDCApply) |
| SourceLog, ReaderRuntime, LogReader, LogMining, ReplicationReader; CDCReaders, CDCReaders_proofs | CDCReaders extends them, instantiates CommittedStream | cdc_readers (MCCDCReaders) |
| StreamSource, StreamRuntime, OrderedMerge; StreamReaders, StreamReaders_proofs | StreamReaders extends them, instantiates CommittedStream | stream_readers (MCStreamReaders) |
| SpoolPayload, SpoolPayload_proofs | | spool_payload (MCSpoolPayload) |
| EngineJobs, EngineJobs_proofs | | engine_jobs (MCEngineJobs) |
| TaskControl, TaskControl_proofs | | task_control (MCTaskControl) |

The MC modules give the constants that are functions or records their values
(which slot belongs to which worker, which sources and faults there are); the
`.cfg` files give the rest. Where a run has several scenarios, `Init` chooses one
and it never changes, so that one run checks them all. `Symmetry` lets a slot
change places with another together with its process, a handler together with
its server: no definition names one of them. Runs of safety properties use it,
runs of liveness properties do not.

### ChunkScheduler

The full-copy phase of one task over one table with a numeric key. Rows are
`1..N`. A step is one write to the repository with the reads right before it, or
one worker hook. A handler that writes several times is several steps of its
server (`op[s]`), and handlers that take `progressMu` are one at a time per
server, as in the code; claim, renew and commands interleave freely.

| Variable | Code |
|---|---|
| `task`, `command` | status of the task row; the value a command has read and is about to store |
| `chunks` | `migration_chunks` in chunk_no order; `cursor` is the last committed key |
| `job` | what each worker slot does: copy, renew, finish, yield, fail |
| `op` | the handler a server runs under `progressMu`, with its stale copies (`snap`, `view`, `seen`) |
| `written` | rows in the target |
| `core`, `orphaned` | history: the smallest end a chunk was ever stored with; rows whose insertion was cut short |
| `budget` | what is left of the bounds |

Actions follow the code: `Claim` (with the reclaim of expired leases and the
retry limit inside it), `WriteBatch`, `Renew`, `RenewAndYield`, `RenewRefused`,
`CompleteBegin/Store`, `YieldStore`, `AdaptList/Split/End/Insert`,
`RefreshRead/Store`, `FailBegin/Store`, the commands, `FlowWrite` and aborts that
cut a handler off between two of its writes.

### FullPipeline and ChunkJob

One chunk inside a worker slot: `reader` is the goroutine that reads batches
ahead of the writer (its step and the batch in hand), `queue` the channel of
`BufferBatches` places, `runner` the loop of `Run` with the hooks `executeJob`
gives it (write, commit the cursor, yield, pause) and the report of the slot,
`limit` the batch size that the runner changes while the reader reads. Errors of
every call, a cancelled context, shutdown, process death and the lease that runs
out are steps. `ChunkJob` is what the control plane expects of all this, in three
variables: batches are written from the stored cursor on, the cursor passes no row
that is not written, and success means that nothing lies behind the cursor. The keys of
the chunk are `ChunkKeys`, and the definitions have names of their own
(`PipelineInit`, `CommitCursor`), for the proofs extend SnapshotHandoff as well.

### ChunkPlanner and SnapshotHandoff

`ChunkPlanner` holds the planners as operators over integers of `IntBits` bits
that wrap (64 in the program): `PlanIntegerRange`, `PlanIntegerRangeByRows`,
`DesiredKeysetPartitions`, `PlanKeysetBoundaries`, `PlanBoundedKeyset`, hash
buckets, the choice `prepareTask` makes among them, and the rows that `ReadBatch`
then selects. The conversion of a count near 2^63 from float64 is a choice among
the results a machine may give; the rounding of other counts of more than 53 bits
(a few chunks more or less, `chunk_planner.go` 49) is left out.

`SnapshotHandoff` follows the rows of one table: `tables` and `changes` are the
source's history, `visible` how much of it a query sees (a commit is logged
before it is seen), `chunks` the plan with holders and cursors, `slots` the
workers with the batch each has read but not written, `target` the row of each
key, named by the change that wrote it. The changes behind the start position are
applied in order once the copy has ended, under the conflict mode of the task.

### CDCApply

The forward CDC path of one task with a transactional target. A transaction is
its number: position and payload at once. Each handler `h` is a process on
server `ServerOf[h]`; it is a reader's request, a drain, a replay, a resolution
or the start of a validation. `calls[h].pc` names the next write:

    route -> (stage) -> list -> check -> apply -> commit -> checkpoint -> store
          -> complete -> applied -> (mark) -> return,   or   failed -> return

| Variable | Code |
|---|---|
| `task`, `barrier`, `validating` | task status, validation barrier, a running validateTask |
| `latest` | newest row of `cdc_positions`: the duplicate check compares with it alone |
| `spool` | `cdc_spool` in sequence order with its applied flags |
| `dlq` | the dead letter of each transaction; `fenced` means it still carries the pre-COMMIT fence message |
| `target` | the transactions in the order the target committed them |
| `reader` | where the reader stands and what it acknowledged to the source |
| `lock` | per server, the FIFO of handlers at `cdcSpoolLock` (Go's mutex hands over in order once a waiter is a millisecond old) |
| `lease`, `scheduled` | drain lease; servers with a live background drain |

Heartbeats are transactions of CHECKPOINT events only (checkpoint without target
write); DDL is applied outside a target transaction, hence without a fence.

`OrderedApply` is the promise of all this in four variables: the transaction
behind the checkpoint is committed (once, unless it is DDL), the checkpoint moves
to it, and what is acknowledged is checkpointed or kept. Under the refinement
mapping `checkpoint` is `latest`, and `kept` the PENDING rows of the spool.

### The readers: SourceLog, ReaderRuntime, LogReader, LogMining, ReplicationReader, CDCReaders

`SourceLog` is the database (external): a log of numbered records (BEGIN, row,
update in two images, savepoint undo, compensation, COMMIT, ROLLBACK, and for
MySQL the groups of records a statement writes) and the transactions committed.
A row is the number of its record.

`ReaderRuntime` is the loop of `internal/cdc/runtime` around every reader, with
the server's duplicate check and stored position, the acknowledgement to the
reader and the source, death and restart of the process:

| Variable | Code |
|---|---|
| `reader` | the process: `cursor` (next record), `open` (transactions it collects), `ready` (complete ones), `flight` (the request under way), `acked`, `gtid`, the session's start and the source's `slot` |
| `durable`, `accepted` | the newest stored position; the transactions the server took in |

| Module | Readers | What is theirs |
|---|---|---|
| LogReader | GBase 8s, Db2 | rows of interleaved transactions collected per transaction, two-image updates, savepoints and compensation, restart positions at the oldest open BEGIN (GBase 8s) or behind the commit (Db2), idle checkpoints |
| LogMining | Oracle, Dameng, SQL Server | windows of commit numbers, how far back a session starts, commits that share a number, windows without a captured row |
| ReplicationReader | MySQL by file position and by GTID, PostgreSQL, GBase 8a | group assembly from binlog events, DDL and other statements, the set of executed GTIDs, the replication slot, reconnects inside the process, the provider's polls |

### The readers of several streams: StreamSource, StreamRuntime, OrderedMerge, StreamReaders

`StreamSource` is the source (external): the parts of a transaction appear in
Kafka partitions, primaries or members at their own pace, with watermarks that
promise that nothing older is to come; rows that carry their order are kept as
sets. `OrderedMerge` is `orderedmerge/merge.go` as an operator, from the rows read
of each stream to the set of the groups released, which `Take` hands out from the
least on. `StreamReaders` has TiCDC over one and over several partitions
(seed, idle and fence phases, prefetched rows, idle checkpoints), the
multi-primary loop of GaussDB with its acknowledgement primary by primary, and
Db2 pureScale with its batches. A position is a place in the global order and
one in every stream; an odd order lies between two commits. A read of a GaussDB
primary or a pureScale member is cut (4096 changes, or 4096 records and 32 MB):
`ReadEnds` lets it stop anywhere once it has `source.limit` rows, while the
watermark that goes with it speaks of the whole stream. `cut` is history: some read
has left rows out.

`CommittedStream` is what both families implement, whatever the dialect: what the
source commits is taken in once each, complete and in commit order.

### SpoolPayload

One task's staged transactions, their rows and their objects, for the directory
and the bucket. `server[s]` is what a server does (`down`, `reconcile`, `up`,
`written`: object stored and row not yet, `applied`, `marked`); objects are
written before the row and moved after it is APPLIED, so crashes between steps,
requests sent again, failing inserts (with the row stored or not) and
reconciliation at start all meet the same object.

### EngineJobs

The managed CDC readers of one incremental task whose source keeps a replication
slot for them. Every handler that reads a row and stores it later is two steps.
A worker slot waits for the answer to each request, so the handler of its request
is part of the slot:

    idle -> start -> started -> (mark -> marked) -> run -> report -> (failing) -> store -> (drop) -> idle

| Variable | Code |
|---|---|
| `task`, `from` | status of the task row and `paused_from_status` |
| `jobs` | `engine_jobs`: status, owner, lease, retries |
| `retained` | the replication slot exists at the source |
| `slot` | what each CDC slot of a worker does, with the job row it is about to store |
| `op` | the command under way: its step, the status it read, the jobs it listed |
| `revived` | history: a worker's call stored an old active row over a newer one |
| `budget` | what is left of the bounds |

### TaskControl

Everything a server does to the task row is a process of `proc`: a command's
handler, a runner (prepare or validate) or a recovery pass. A process reads the
row (`seen`), decides what it will store (`to`), may do slow work, and stores the
whole row (`StoreRow`); the transition table of `state_machine.go` is in the
guards. `lease` is the row of `control_operation_leases`, `current[s]` the runners
a server knows, `forward` and `reverse` the CDC jobs, `captured`, `applied` and
`behind` the traffic the commands look at, `target` what was done to the target
(prepared how often, generated values synchronized and finalized). `overwrote` and
`expired` are history: a row older than the table's was stored; leases that
expired under a holder at work.

## 3. The runs

Every property is stated in English above its definition in its module, and each
is broken by a mutant of the model (PROJECT.json), an operator named in a "Mutant"
comment beside the definition it replaces.

| Run | Instance | States | Checks |
|---|---|---|---|
| `chunk_copy` | 3 rows in chunks of 2, 2 slots of one worker, 1 server, batches of 1, 2 splits or yields, 2 faults, a handler cut short | 1.8 M | coverage, cursors behind the target, disjoint ranges, success is final |
| `chunk_live` | 2 rows, 2 workers, 1 server, 2 faults, a split or yield, 2 commands, a flow-control write | 0.67 M | the copy ends; commands and lost updates of the task row never end it early |
| `full_pipeline` | 5 keys with gaps, batches of 1 to 3, a queue of 2, 2 faults, a shutdown, a yield | 0.10 M | refinement of ChunkJob; the reading goroutine ends; the chunk ends copied |
| `handoff` | keys 1 to 3, 6 tables (range, keyset, hash; both conflict modes), 2-3 changes, 0-1 lost leases, 2 workers, 4-bit integers | 0.74 M | the target follows the source and catches up; plans partition the keys |
| `cdc_order` | 3 transactions (a heartbeat, a DDL), 1 server, a crash, a fault, a reader restart, a validation | 0.51 M | once and in order, checkpoints behind the target and moving on, refinement of OrderedApply (so acknowledged is durable), ambiguity is kept, the target frozen and at its barrier under validation, the spool drains |
| `cdc_operator` | 2 transactions, 2 servers, every decision and replay, a late request, a fault, an unnoticed read error, a validation | 6.1 M | checkpoint behind target, acknowledged is durable: without mutual exclusion, under an operator who takes no lock |
| `cdc_readers` | 11 sources, every dialect, 2-3 transactions, logs of 6-10 records, a process killed or reconnected | 1.05 M | delivered once, whole and in order; stored positions forget nothing; acknowledgements go forward; every commit arrives |
| `stream_readers` | 10 sources, 1-2 streams, 1-3 transactions of 1-2 parts, a process killed, an answer lost, rows sent again; two clusters whose reads may stop after one row | 0.23 M | the same for several streams; order and acknowledgements until a read is cut |
| `spool_payload` | 3 transactions; a directory with 2 crashes, 3 resends, 3 faults; two servers; a bucket; a first start | 26 k | every PENDING row can be read; what was acknowledged is on the target or can be drained |
| `engine_jobs` | 2 jobs of one task, 2 workers, a fault, a failed renewal, 2 commands | 0.47 M | one accepted reader, none once cutover has begun, a reader comes back or the task fails |
| `task_control` | 2 servers, 1 command at a time, 2 runners, from 5 quiet points of 3 modes, up to 4 commands or a fault | 0.64 M | one runner but for expired leases, prepared once, nothing cut over early, interrupted tasks taken up |
| `chunk_skip` | 4 rows, a split, a handler cut short | | expects a violation, section 6 |

**Bounds.** Three rows in chunks of two give a chunk that can be split or yielded
in the middle, a piece of one key and one that cannot be split; two splits put a
split of a split beside a stale view. One fault covers each single failure at every
point; pairs are explored where the run has two, and for all bounds by the
proofs. For CDC, three transactions are one that is uncertain, one that overtakes
it and one behind; two handlers are the request in flight and whatever races with
it. Two interleaved transactions are enough for a position to pass one while it
covers the other, three for a window to cut one and skip the next. Two streams
are one that is ahead and one behind, and a limit of one row for a read makes
every backlog of two one that is cut. Two jobs are the one that is stopped and the
one a Resume creates; the safety properties of EngineJobs were also checked with
three commands (10 million states, too many for a routine run). Four bits are
enough for every planner to overflow, and to round. All `Max*`, `crashes`,
`faults`, `resends`, `reclaims` and `changes` are budgets: the event may happen at
any step until its budget is spent.

`CHECK_DEADLOCK FALSE` is set everywhere because a task that is finished, failed or
cancelled, a chunk that is copied or a spent source really has no further step.

## 4. Fairness

Weak fairness only, of what a loop or a timer of the code repeats for ever:

* ChunkScheduler: each slot's and each server's steps and the expiry of an
  abandoned lease. FullPipeline: both goroutines, some worker that polls for the
  chunk, expiry and restart of the worker.
* SnapshotHandoff: preparation, each worker's work, some worker that claims, the
  apply; a commit becomes visible in the end.
* CDCApply: handlers run to their end, the reader retries, a scheduled drain and a
  running validation go on, a dead server's lease runs out. `AckedReachesTarget`
  has `Undisturbed` as its premise: nothing restarts a drain that failed.
* CDCReaders, StreamReaders: the job is claimed again after every end and the
  reader's loop and the server go on (one condition, for steps that leave the
  source alone); streams show what is pending. The source need not commit.
* SpoolPayload: none. A drain is one goroutine that ends with its first error or its
  process, so only safety is stated; that the spool empties is `AckedReachesTarget`.
* EngineJobs: slots poll, renew and report, abandoned leases run out, a command's
  handler runs on. TaskControl: processes run on, every server's recovery loop
  comes by (`StartRecoveryLoop`, every 30 seconds for ever), abandoned leases expire.

Faults, crashes, kills, lost answers, expiries under a holder at work, operator
commands, and drains that a poll or a manual call may start are not fair.

## 5. Proofs

Eight modules, for every value of the constants, from the named assumptions of
the modules alone and, where the table says so, a hypothesis on the constants:

| Theorem | Statement |
|---|---|
| TableCopy_proofs: `PlanPartitionsCorrect` | the chunks of every plan (range, keyset, hash) hold each key once, whatever the width of an integer and the estimate |
| ChunkScheduler_proofs: `TypeCorrect`, `NoRowDropped`, `CheckpointCorrect`, `DoneCorrect`, `InductiveAlways` | `[]TypeOK`, `[]RowsCovered`, `[]CheckpointBehindWrites`, `[]DoneMeansCopied`, `[]Inductive` |
| ChunkScheduler_proofs: `DisjointCorrect`, `SuccessFinalCorrect` | `[]ChunksDisjoint` and the action property `SuccessIsFinal`, both about one server |
| TableCopy_proofs: `CopiesChunkCorrect` | the pipeline implements ChunkJob, for any finite set of keys, batch size, queue length and number of faults, stops and yields |
| TableCopy_proofs: `TargetFollowsSourceCorrect`, `PlansPartitionCorrect` | `[]TargetFollowsSource` assuming `Followed` of every scenario; `[]PlansPartition` |
| CDCReaders_proofs: `RestartCoversCorrect`, `AcksMoveForwardCorrect` | `[]RestartCovers`, `[]AcksMoveForward` for GBase 8s and PostgreSQL (`Followed`) |
| CDCReaders_proofs: `DeliveredOnceInOrderCorrect` | CDCReaders implements CommittedStream, for the same readers |
| StreamReaders_proofs: `NothingPassedCorrect`, `AcksMoveForwardCorrect` | `[](cut \/ NothingPassed)`, `[]AcksMoveForward` (which promises nothing after a cut read) for TiCDC, GaussDB and pureScale, where `Followed(source)` |
| StreamReaders_proofs: `DeliveredOnceInOrderCorrect` | StreamReaders implements CommittedStream until a read is cut (`cut`), where `Followed(source)` and `Answered(source)` |
| SpoolPayload_proofs: `TypeCorrect`, `DirectoryReadable`, `DirectoryKeepsAcked` | `[]TypeOK`; `[]PendingReadable` and `[]AckedKept` for any number of transactions, servers, crashes, resends and faults, assuming `Directory` |
| CDCApply_proofs: `CDCTypeCorrect`, `CheckpointNeverAhead`, `AckedNeverLost` | `[]TypeOK`, `[]CheckpointBehindTarget`, `[]AckedIsDurable` for any number of transactions, handlers, servers, faults, crashes and operator commands |
| CDCApply_proofs: `AppliedInOrderCorrect`, `BarrierCorrect`, `FrozenCorrect`, `CheckpointMovesCorrect`, `UncertainKeptCorrect` | `[]AppliedOnceInOrder`, `[]BarrierHolds` and the action properties `FrozenWhileValidating`, `CheckpointMoves`, `UncertainKept`, assuming `Serial` |
| CDCApply_proofs: `AppliesInOrderCorrect` | CDCApply implements OrderedApply, assuming `Serial` |
| EngineJobs_proofs: `TypeCorrect`, `OneActiveJobCorrect`, `OneWorkerReadsCorrect`, `QuietAtCutoverCorrect` | `[]TypeOK`; one active job; accepted readers are slots of one worker and one job; `[]QuietAtCutover` |
| EngineJobs_proofs: `OneReaderCorrect` | `[]OneReader`, assuming that every worker has one CDC slot |
| TaskControl_proofs: `TypeCorrect`, `RunnersBoundedCorrect`, `PreparedOnceCorrect` | `[]TypeOK`, `[]RunnersBounded`, `[]PreparedOnce` for any number of servers and runners |
| TaskControl_proofs: `CutoverCompleteCorrect` | `[]CutoverComplete`, assuming `OneHandler` |

**ChunkScheduler.** Coverage is not inductive: handlers store old copies of
chunks, so a step may write a range that was true two writes ago. A chunk answers
for its rows up to its `core`, the smallest end it was ever stored with, and
everything anyone holds is a *version* of the chunk: same start, an end at or
behind the core, a cursor whose prefix is in the target (`ChunkBehind`,
`JobBehind`, `HandlerBehind`). Versions stay versions, because ends only shrink at
the core, `written` only grows and starts never change; a blind write of a version
is harmless. `FinishSeen` carries the summary refreshProgress took of finished
chunks to the status it stores, through every stale copy.

With one server `progressMu` puts the handlers one behind the other, and more is
true (`OneServerFine`): a handler's copies are the chunks as they are
(`HandlerCurrent`), for claims and renewals leave ranges alone and every split
goes through the lock; so the ranges stay apart (`RangesApart`), from each other
and from the pieces a split has yet to insert (`PiecesApart`), and no copy of a
finished chunk is stored over it. With two servers neither is true.

**ChunkPlanner** (the first part of TableCopy_proofs). The planners are recursive,
and induction is out of reach: a
recursive function is replaced by its closed form (`start + n * chunk`, cut off at
the last end), and where a least index is needed it is the least counterexample
of a well-founded order (`NatMin`). Overflow is what makes it delicate: every
sum is shown to stay below `2^(IntBits - 1)` or to be caught by the test the code
makes, for every width.

**FullPipeline.** The step that matters is success: the runner believes that a
closed queue is the end of the table. The invariant `PInv` follows the batches:
everything up to the stored cursor is written (`Behind`), the batch in hand and the
batches in the queue continue each other without a gap (`InHand`, `Chain`), the
reader continues the last of them and closes the queue silently only at the end of
the rows or for a worker that stops (`ReaderFollows`), so that a run that ends as
done has left nothing behind or is not reported (`DoneIsComplete`).
Every step is then one of ChunkJob or a stutter.

**SnapshotHandoff.** Every key is in one chunk (`PlanFine`, from the planner's
theorem), and what lies behind a cursor, behind a worker or in a finished chunk is
*settled* (`CopyFine`): it is the source's row, or a change behind the start
position touches it, and the changes, applied in order, repair it, because an
upsert or a delete is right whatever row it meets. A lease that expires harms
nothing: two workers then write rows the source had. `Followed` names the scenarios where this
is so: commits before the position are visible to the first query, and versions
are compared (LAST_WRITE_WINS) only where each change has a version of its own and
none moves a key. Section 6 has the counterexample for each.

**CDCReaders.** `Followed` restricts the scenarios to GBase 8s, which puts the
transactions of an interleaved log together itself, and PostgreSQL, whose slot
sends each with its commit; with or without savepoints, two-image updates and
rollbacks, overlapping or not, any number of transactions, records, crashes, lost
answers and reconnects. What was open behind a record is a recursive definition, so
the invariant says instead that *there is* a history `h` of it (`History`), and each
record of the source extends that history by one entry (`HistoryGrows`). With it the
rest can be said. A position is `Right` when everything open behind its commit began
at its restart or later (GBase 8s), or the restart is right behind the commit
(PostgreSQL). What the reader of GBase 8s has collected is `h` at its cursor without
the transactions that began before its session (`Collecting`, `Held`), so what it
hands out at a COMMIT is the transaction whole, and those it lacks had committed
before its session's commit. A request is about the commit
after the one acknowledged (`Asked`); the server has what was acknowledged or that
next request (`InStep`), which is why comparing with the newest position alone finds
every duplicate. `DeliveryFine`: the server holds just what was committed up to its
position. To prove this the savepoint's undo is written as the prefix of the rows
before a record (`Before`), the same rows as a selection, since rows ascend.

**StreamReaders.** For any number of streams, transactions and rows, of any of the
three families, in every order in which the streams may show them. The source is a
variable that never changes, so its hypothesis is a premise inside the theorem.
`Followed(source)` says what each family relies on: several partitions, that the
changefeed was there before the reader or keeps each partition in order (rows may
be sent again); one partition, that it is in order and nothing is sent again;
a cluster, that one watermark is for all streams (or, GaussDB, that only the last
stream has rows), and that every member of pureScale has a part in every
transaction. `Answered` excludes a lost answer between several partitions and the
server. Each condition but the order inside a primary's own stream has its
counterexample in section 6.

All three hold until a read of a primary or a member is cut short at its limit
(`cut`, which stays TRUE: `CutStays`): a step that cuts no read keeps the invariant,
because a read then ends where its stream does (`ReadsAll`). Behind a cut read the
order and the acknowledgements are lost (`Backlogs`, section 6). `NothingPassed`
holds behind one too, which the run checks and the proof does not cover. `Whole`
ties the server's transactions to their rows, for `NothingPassed` speaks of rows.

The inductive invariant is `SourceInv /\ ReaderInv`, and TLC checked it first.
`SourceInv`: every row of a transaction is pending or shown (`Complete`), and what a
watermark has passed is shown before it (`Promised`, `Marks`), also when rows come
again (`Firsts`: the first copies are in order). `ReaderInv` says when a position is
`Good`: nothing behind its order lies before its places, and, where nothing comes
again, all that lies behind the places is behind the order (`Right`, `Above`);
the server holds everything up to it (`Taken`). Every request brings the
transaction after the one acknowledged, whole, or none if there is none (`Brings`).
For each family one conjunct says why. Several partitions (`MultiInv`): whatever was
read and is behind the order is queued, so once every watermark has passed the
candidate its parts are all there (`AllRead`), and the place before the first queued
row of each partition passes nothing (`PlaceIs`). One partition (`SingleInv`): the
group is exactly what was read behind the position; after a lost answer the next
request is the same one again (`IsNext`, `NextUnique`). The merge (`Batched`,
`Readied`, `Handed`): what was read of a stream is all up to its watermark, so the
released groups are whole and those before a group are there (`Holds`), while one is
on its way as well. `Slots`: what a GaussDB primary was not acknowledged is part of the
last transaction stored, so a crash between two acknowledgements shows again only
what the server recognizes. `Exact` ties the server's transactions to its position,
from which each step of CommittedStream follows (`DeliversStep`).

**SpoolPayload.** `Directory` says where the claim is true: the payloads are in a
directory, servers do not start while others stage (one server, or several that
stay up), and the listing works. Section 6 shows each condition to be needed.
`DInv`: a reconciling server knows every PENDING row (`KnowsPending`), what was
just written is not moved (`WrittenStays`), a row whose object is about to be moved
is APPLIED (`MarkedIsApplied`), a PENDING row has its object (`PendingHasObject`).
For `AckedKept` it is added (`KInv`) that what was acknowledged has a row
(`AckedHasRow`) and that a row is marked APPLIED by a drain only, after the target
had it (`AppliedReached`, `MarksReached`).

**CDCApply.** Neither the spool lock nor the drain lease is needed for these two
claims, so they hold for several servers and for the operator's calls, which take no
lock. The invariant `IInv` says what a handler may hold: a transaction whose
predecessors are in the target already (`CallFine`), a listing whose rows can be
applied one after the other (`ListingFine`), a letter only where a turn had come
(`LettersFine`). What is done, and what is done or staged, only grows (`DoneTx`,
`KeptTx`), so what was right when it was read is right when it is used
(`CallFineGrows`). A row is staged behind all its predecessors, and a row behind a
later transaction repeats what was applied before (`SpoolFine`): that is why a
drain in sequence order is one in source order.

For the rest `Serial` is assumed: one server, no operator decision or replay, no
request that outlives its retry, no read error that goes unnoticed. Each part is
needed: section 6 shows what is lost without it. `SerialFine` is the invariant.
Whoever is past his first look at the task holds the lock (`LockFine`); then the
checkpoint cannot move under him, so the transaction he applies is the one behind
it (`WorkFine`), rows are staged in order behind the checkpoint (`SpoolOrdered`),
the one request awaited is of the transaction the reader is at and waiting ones are
served in order (`RequestsOrdered`), the target is the
sequence up to the checkpoint and at most the one in doubt (`TargetOrdered`), and a
validation finds the lock free and lets nobody past the barrier (`BarrierFine`).
The action properties follow from what one step may do in such a state
(`StepFine`). For the refinement every action is then shown to be `Commit`,
`Advance` or `Keep` of OrderedApply or a stutter (`StepPromised`); a commit is of
the transaction behind the checkpoint by `WorkFine` and not in the target yet by
`TargetOrdered`, and an acknowledgement is covered by the proof of `AckedIsDurable`.

**EngineJobs.** At most one job is *engaged*: active, or on the list of a command
that will stop it (`OneEngaged`), because ensureManagedCDCJob looks before it
creates and commands are one at a time. A reader is accepted only with its job and
its worker in the row, so two of them are slots of one worker. That the worker has
one CDC slot is not in the code, hence a hypothesis of `OneReader`. `revived`, in
the properties, excludes the late call of section 6.

**TaskControl.** `RunnersFine` counts: the runners at work are the lease's holder
and those whose lease expired. `PreparedFine` follows the row from phase to phase:
a status from before the preparation is only stored by one who read CREATED, so
there is one preparer, unless an old row brought that status back (`overwrote`). `CutoverFine` says what each phase of
Cutover has settled (readers stopped, traffic applied, values synchronized) and
that nobody else can undo it. `OneHandler`, commands one at a time, is needed for
this last one: when the row goes from one status to another and back between
drain and store, a second command has worked in between and no row was older
than the table's.

Model-checked only: the readers of one stream but those of GBase 8s and PostgreSQL
(`RestartCovers`, `AcksMoveForward` and the refinement of `CommittedStream`). Db2 is
one of them because its `RestartCovers` is false with overlapping transactions
(section 6). For several servers or with an operator only the first three theorems
of CDCApply are true. Out of the prover's reach: liveness and ENABLED; what
recursive definitions compute by induction; and facts about `SelectSeq`, on which
the library has no theorem and of which the log-mining readers are made.

## 6. What the checks found

The run `chunk_skip` checks a statement of the documentation and TLC finds it
violated: a server that stops between shortening the pending chunks and inserting
the pieces cut off leaves their rows out for ever, and the task finishes
(`service.go` 3443). PROJECT.json quotes the statement.

The others have a configuration or a set of scenarios of their own and are run by
hand. "Says" is what the repository promises.

| By hand | Property | What happens | Says |
|---|---|---|---|
| `ChunkPause.cfg` | ResumeContinues | the last chunk completes during a pause; after Resume nothing finishes the task (`service.go` 3694) | |
| `EngineSlot.cfg` | SourceRetained | a reader stopped by Pause reports its end, and the replication slot that Resume needs is dropped (`service.go` 7555) | `IMPLEMENTATION_STATUS.md` 47 |
| `CDCForget.cfg` | UncertainKept | a replay commits, its checkpoint fails, the stale letter is stored over the fence (`service.go` 6060) | comment at 6008 |
| `CDCServers.cfg` | FrozenWhileValidating | the spool lock is local: an apply on another server commits under a validation (`service.go` 5445) | comment at 4978 |
| `SpoolResend.cfg` | PendingReadable | a transaction sent again rewrites the object in the bucket while its row keeps the old digest: every drain stops there (`spools3.go` 330) | `docs/CHANGELOG.md` 419 |
| `ReadersRestart.cfg` | RestartCovers | Db2 with interleaved transactions: the position behind a commit passes rows of one still open (`db2log/reader.go` 552) | comment at 942-943 |
| `TaskFinish.cfg` | FinishedIsFinal | a full copy ends through validation and never finalizes its generated columns (`service.go` 5319) | `docs/CHANGELOG.md` 333 |
| `TaskRecover.cfg` | RecoveryHarmless | a recovery pass with an old list fails a task whose preparation has ended meanwhile (`service.go` 209) | comment at 172-174 |
| StreamReaders.cfg with `Sources <- OwnWatermarks` | DeliveredOnceInOrder | with a watermark per primary or member the merge releases a row before an older part of a later stream (`merge.go` 58) | comment at 28-29 |
| `MembersApart` | AcksMoveForward | pureScale counts every position of a batch from the one acknowledged before the batch: the second takes back the place the first reached, and what a new process reads again may not be acknowledged (`purescale.go` 236) | check at `purescale.go` 292-293 |
| `Backlogs`, DeliveredBeyondCuts as a PROPERTY | DeliveredBeyondCuts | a GaussDB primary holds more than one read returns, but its watermark speaks of all: a later transaction of another primary, or a part of one, goes first (`multi.go` 133-137) | comment at `merge.go` 30-31 |
| `Backlogs`, AcksMoveForward without `~cut` | AcksMoveForward | what a cut read of a pureScale member left out comes after a later transaction, and its acknowledgement is refused (`purescale.go` 211) | check at `purescale.go` 292-293 |
| `MoreAfterAnswerLost` | DeliveredOnceInOrder | TiCDC over two partitions: the answer is lost, the process reconnects at the acknowledged position, more rows have arrived, and the same TSO comes with other offsets; the server's duplicate check compares whole positions and takes it in twice (`cmd/tidb-cdc/main.go` 208, `service.go` 6349-6364) | `docs/RELEASE_NOTES_V0.15_RC3.md` 33-34 |
| `NewCaptureUnsorted` | AcksMoveForward, DeliveredOnceInOrder | several partitions, a new capture, both beginning with the row of a later transaction: every offset of the position stays 0, so after a restart the reader does not take it for an acknowledged one (`ticdc/reader.go` 87), keeps the rows up to its TSO and hands them out again (28 steps) | |
| `OnePartitionUnsorted`, `OnePartitionAgain` | DeliveredOnceInOrder | one partition has no fence: rows out of order, or sent again, are handed out as they come (`ticdc/reader.go`) | |
| StreamReaders.cfg, EveryCommitArrivesFresh as a PROPERTY | | a new capture over several partitions waits until each has had its first row | |
| CDCReaders.cfg, `reader.ended` dropped | EveryCommitArrives | the GBase 8a reader takes an empty answer for the end, the process exits without an error and the job is STOPPED for good (`gbase8acdc/reader.go` 65, `service.go` 7544) | `docs/CHANGELOG.md` 5 |
| SpoolPayload.cfg with `StartBesideAnother` | PendingReadable | a starting server takes away the object whose row another is about to insert (`spoolfile.go` 585) | comment at 550-552 |
| `ListingFails` | PendingReadable | a listing that fails makes orphans of all objects (`spoolfile.go` 567) | comment at 550-552 |
| `Bucket` with `uncertain = TRUE` | PendingReadable | the insert is reported as failed although the row is there, and its object is deleted (`spools3.go` 336) | |
| SnapshotHandoff.cfg with `MovingLastWrite` | TargetFollowsSource | under LAST_WRITE_WINS an update of the key is passed over when the copy read the new row: the old key stays (`service.go` 6605) | `docs/RELEASE_NOTES_V0.7.md` 39-48 |
| `CoarseVersions` | TargetFollowsSource | two changes with one version: the second is passed over | |
| `LateCommits` | TargetFollowsSource | a commit logged before the start position but visible after the first reads is in neither the copy nor the changes (`service.go` 778) | |
| `~late` dropped | TargetFollowsSource, CatchesUp | a worker that lost its lease writes old rows behind the end of the copy (`cmd/worker/main.go` 572) | |

The passing runs of CDCApply stay inside limits that matter. Widening one shows
where the code stops promising the property (start from `CDCOrder.cfg` and check
the named property alone):

| Change | Property lost | Behaviour |
|---|---|---|
| `MaxLate = 1` | AppliedOnceInOrder | a dropped request gets the lock after its retry and a later transaction; the duplicate check knows only the newest checkpoint (`service.go` 6349-6364) |
| `Replayed = {"RESOLVED"}`, `MaxCommands = 1` | AppliedOnceInOrder | a resolved letter is replayed after later transactions (`service.go` 6041) |
| `Decisions = {"COMMITTED"}`, `MaxCommands = 1` | CheckpointMoves | the resolution's checkpoint is inserted after later ones (`service.go` 6099) |
| `Decisions = {"NOT_COMMITTED"}`, `MaxCommands = 1` | FrozenWhileValidating | the replay takes no lock: it passes the status check, validation starts, it commits (`service.go` 6045) |
| `MaxMisses = 1` | UncertainKept | a fence that cannot be read back is overwritten by a new OPEN letter, and the retry applies the transaction again (`service.go` 6003) |
| `MaxMisses = 1`, `MaxFaults = 0` | AppliedOnceInOrder | the error of the duplicate check's read is ignored and a checkpointed transaction passes for new (`service.go` 6350) |
| `Undisturbed` dropped from BarrierHolds | BarrierHolds | an ambiguous COMMIT took effect without a checkpoint and the barrier is captured behind it (`service.go` 5671) |
| `Undisturbed` dropped from AckedReachesTarget | AckedReachesTarget | the server stops before the one background drain; with a quiet source nothing drains the spool (`service.go` 3742) |

The same for EngineJobs (start from `EngineJobs.cfg`):

| Change | Property lost | Behaviour |
|---|---|---|
| `~revived` dropped | OneReader, QuietAtCutover | StartEngineJob stores the RUNNING row it read over the STOPPED row of a Pause or a Cutover (`service.go` 7476) |
| `WorkerOf <- OneWorker` | OneReader | a lease runs out under its reader and the other slot of the same worker claims the job: the owner check tells workers apart, not slots (`cmd/worker/main.go` 811) |
| `Undisturbed` without `budget.refusals` | ReaderComesBack | one failed renewal ends the reader as if it were done; the job is STOPPED and nothing creates another (`cmd/worker/main.go` 469) |
| `MaxFaults = 2` | ReaderComesBack | MarkCDCStarted of a worker whose lease ran out stores CDC_CATCHING_UP over FAILED (`service.go` 5366) |
| PauseStops as a PROPERTY | PauseStops | the reader fails after the stop request, FailEngineJob queues the job again and a worker claims it while the task is paused (`service.go` 7580) |

A quick Resume after a Pause finds the job in STOP_REQUESTED and creates no other
(`service.go` 7358): when it has stopped, the task runs without a reader. A
worker that dies in that state leaves the job there for good, because only
RUNNING jobs are reclaimed. In ChunkScheduler, a handler that read the task before
Cancel stores it as FULL_MIGRATING again (`service.go` 3732).

Read in the code while modelling, and either left to nondeterminism, excluded by
the scenarios, or outside the models:

* Oracle starts a mining session one past the acknowledged commit and mines
  committed data only: rows of a transaction open across the end of a window are
  lost, and of two transactions with one commit number the second is dropped
  (Dameng reaches back and aggregates). An insert and a delete of one row in one
  transaction make its flashback query fail at every retry.
* MySQL by GTID: the GTIDs of statements other than ALTER, CREATE, DROP, TRUNCATE
  and RENAME, and of groups that were rolled back, are never added to the executed
  set; once the source has purged them, a reconnect is refused for good. By file
  position, the next endpoint of a failover is asked for the same file and
  offset, which mean nothing there. Rows of XA transactions and DML in statement
  format are passed over; table metadata is that of reading time.
* pgoutput's TRUNCATE message is ignored.
* TiCDC: an idle checkpoint at a watermark R makes the reader discard rows of TSO R
  later, although a watermark is said to speak of what is older only; a restart
  over several partitions waits for a new watermark on every one.
* RecoverInterrupted takes up neither CUTOVER_RUNNING nor ROLLBACK_RUNNING.
* An error of PlanKeysetBoundaries is ignored, and the table becomes one chunk
  (`service.go` 994). Selections by custom SQL or partition filter the copy but
  not the changes.
* A failing LatestPendingCDCSpool makes a reader start at the older checkpoint
  (`service.go` 7419): harmless to the properties, and part of CDCApply.

## 7. What is not modelled

* ChunkScheduler: chunks by keyset, hash, partition or custom SQL (their rows are
  in SnapshotHandoff), the topology circuit breaker (it only chooses among
  pending chunks), AUTO/SLA targets.
* FullPipeline: a lease that expires under a live holder (in ChunkScheduler),
  retry limits, pacing; any batch size within the limits may follow another.
* SnapshotHandoff: unique indexes besides the key (a collision during replay),
  transactions of several events, several tables, partition and custom-SQL chunks.
* CDCApply: the reverse direction, targets without transactions, spool capacity
  and back-pressure (a refused stage is an error the reader retries), conflict
  records, READY_FOR_CUTOVER (which accepts applies as CDC_CATCHING_UP does).
* Readers: record formats, large objects, subtransactions, transactions open when
  the capture begins, gaps in the archived logs, the readers that prove a DDL, the
  OceanBase binlog service (it speaks MySQL's protocol), the feed of a single
  openGauss server, failover between endpoints.
* SpoolPayload: capacity, multipart uploads, the pruning of APPLIED rows and
  objects, the path that applies without staging.
* EngineJobs: the reverse direction, capture during a full copy, worker
  capabilities and overload, a reader process that outlives its worker, a server
  that goes on with a request whose worker is gone.
* TaskControl: RetryFailed, Clone, Delete, editing before Start; the reverse apply
  is one flag. A cutover or rollback whose server dies is left where it stands.
* Worker registration, heartbeats and drain mode; schema conversion, transforms,
  checksums, signing, archives, authentication, the HTTP layer, the console and
  the operator tools: data computations and I/O without a protocol of their own.

## 8. Plan

Done: the copy (scheduler, pipeline, planners, handoff), the changes (every
reader, apply, spool, payloads), the control (jobs, tasks, leases). Next, in the
order of what they protect:

1. Proofs about the remaining readers of one stream: the refinement of
   CommittedStream for Db2 (without overlapping transactions) and MySQL.
2. OrderedApply composed with CommittedStream: source to target, end to end.
3. The reverse direction and a rollback with traffic; capture during a full copy.
4. Pruning and capacity of the spool; workers that register, drain and overload.

## 9. How to run

    tlc -workers 2 -config ChunkCopy.cfg MCChunkScheduler.tla
    tlc -workers 2 -config FullPipeline.cfg FullPipeline.tla
    tlapm ChunkScheduler_proofs.tla

`PROJECT.json` lists the runs with their module and configuration, the mutants,
the source lines of every definition, the hazards and the theorems. A configuration
listed in section 6 is run with the MC module of its component; a set of scenarios
replaces the one the run's configuration names. The longest passing runs take two
to three minutes with two workers.
