---------------------------- MODULE ChunkScheduler ----------------------------
(***************************************************************************)
(* The full-copy phase of one migration task over one table with a numeric *)
(* primary key: the control plane's chunk handlers (claim, renew, complete,*)
(* yield, fail, adaptive split), the workers that copy chunks, and the     *)
(* operator commands that pause, resume and cancel the task.               *)
(*                                                                         *)
(* A step is one write to the repository, with the reads right before it,  *)
(* or one worker hook.  A handler of the control plane that writes several *)
(* times is several steps of the server that runs it: other servers, and   *)
(* the handlers that do not take progressMu (claim, renew, the commands),  *)
(* interleave with it.  Every write of the task row stores the whole row   *)
(* as the handler read it, status included.                                *)
(*                                                                         *)
(* Rows are the positions 1..N of the key range.  The task has no AUTO or  *)
(* SLA throughput target, so a claim does not write the task row.          *)
(***************************************************************************)
EXTENDS Integers, Sequences, FiniteSets

CONSTANTS
  N,             \* number of rows in the table's key range
  Span,          \* keys per planned chunk
  Servers,       \* control-plane processes; progressMu is local to each
  Workers,       \* registered worker processes
  Slots,         \* goroutines of the workers that run chunk jobs
  WorkerOf,      \* the worker process of each slot
  NoWorker,      \* value of an unset worker_id
  Parallelism,   \* task.EffectiveParallelism
  MaxRetries,    \* task.MaxRetries
  MaxBatch,      \* bound: rows per batch
  MaxPieces,     \* bound: new chunks of one split or of one yield
  MaxRebalances, \* bound: splits and yields in a behaviour
  MaxFaults,     \* bound: job errors, worker stops, premature lease expiries
  MaxAborts,     \* bound: handlers cut short by an error or a process death
  MaxCommands,   \* bound: operator commands
  MaxFlowWrites  \* bound: renewals whose flow control stores the task row

ASSUME ConstantsOK ==
  /\ N \in Nat \ {0} /\ Span \in 1..N
  /\ WorkerOf \in [Slots -> Workers] /\ NoWorker \notin Workers
  /\ Parallelism \in Nat \ {0} /\ MaxRetries \in Nat
  /\ MaxBatch \in Nat \ {0} /\ MaxPieces \in Nat \ {0}
  /\ MaxRebalances \in Nat /\ MaxFaults \in Nat
  /\ MaxAborts \in Nat /\ MaxCommands \in Nat /\ MaxFlowWrites \in Nat

VARIABLES
  task,      \* status of the migration task
  command,   \* the status an operator command is about to store
  chunks,    \* the table migration_chunks, in chunk_no order
  job,       \* what each slot is doing
  op,        \* the progressMu handler each server is running
  written,   \* rows the target holds
  core,      \* history: the smallest end each chunk was ever stored with
  orphaned,  \* history: rows of pieces whose insertion was cut short
  budget     \* what is left of the five bounds

vars == <<task, command, chunks, job, op, written, core, orphaned, budget>>

Row == 1..N

\* "FULL_FINISHED" stands for whatever refreshProgress makes of a task whose
\* chunks are all done: it moves on from FULL_FINISHED in the same update.
TaskStatus == {"FULL_MIGRATING", "PAUSED", "FULL_FINISHED", "FAILED", "CANCELLED"}

Chunk == [start : Row, end : Row,
          cursor : 0..N,                     \* last committed row, 0 for none
          kind : {"RANGE", "REBALANCED"},    \* may or may not be split again
          status : {"PENDING", "RUNNING", "SUCCESS", "FAILED"},
          owner : Workers \cup {NoWorker},
          lease : {"none", "live", "expired"},
          retries : Nat]

KeyRange == [start : Row, end : Row]

Job == [phase : {"idle", "copy", "report", "renew", "done", "yield", "failed"},
        chunk : Nat, next : 1..(N + 1), end : Row]

Op == [pc : {"idle", "complete", "yield", "adapt", "split", "insert", "count",
             "refresh", "store", "fail", "failchunk"},
       id : Nat, snap : Chunk, after : 0..N,
       view : Seq(Chunk), at : Nat, pieces : Seq(KeyRange),
       seen : TaskStatus, allDone : BOOLEAN]

Budget == [rebalances : 0..MaxRebalances, faults : 0..MaxFaults,
           aborts : 0..MaxAborts, commands : 0..MaxCommands,
           flow : 0..MaxFlowWrites]

NewChunk(r, kind) ==
  [start |-> r.start, end |-> r.end, cursor |-> 0, kind |-> kind,
   status |-> "PENDING", owner |-> NoWorker, lease |-> "none", retries |-> 0]

IdleJob == [phase |-> "idle", chunk |-> 0, next |-> 1, end |-> 1]

IdleOp == [pc |-> "idle", id |-> 0,
           snap |-> NewChunk([start |-> 1, end |-> 1], "RANGE"), after |-> 0,
           view |-> << >>, at |-> 1, pieces |-> << >>,
           seen |-> "FULL_MIGRATING", allDone |-> FALSE]

TypeOK ==
  /\ task \in TaskStatus
  /\ command \in {"none", "PAUSED", "FULL_MIGRATING", "CANCELLED"}
  /\ chunks \in Seq(Chunk)
  /\ job \in [Slots -> Job]
  /\ op \in [Servers -> Op]
  /\ written \in SUBSET Row
  /\ core \in Seq(Row)
  /\ orphaned \in SUBSET Row
  /\ budget \in Budget

-----------------------------------------------------------------------------
(***************************************************************************)
(* Range arithmetic.                                                       *)
(***************************************************************************)
Least(a, b) == IF a <= b THEN a ELSE b

\* PlanIntegerRange(1, N, Span)
PlannedCount == (N + Span - 1) \div Span
\* Mutant: the last chunk is not clamped to the largest key.
PlannedUnclamped(i) == [start |-> (i - 1) * Span + 1, end |-> i * Span]

Planned(i) == [start |-> (i - 1) * Span + 1, end |-> Least(i * Span, N)]

\* Mutant: every piece starts one key late, as if the cursor were inclusive.
PieceStartLate(lo, hi, p, i) ==
  lo + 1 + i * ((hi - lo + 1) \div p) + Least(i, (hi - lo + 1) % p)

\* lo..hi cut into p pieces whose sizes differ by at most one, the larger
\* pieces first: the first key of piece i + 1.
PieceStart(lo, hi, p, i) ==
  lo + i * ((hi - lo + 1) \div p) + Least(i, (hi - lo + 1) % p)

Pieces(lo, hi, p) ==
  [i \in 1..p |-> [start |-> PieceStart(lo, hi, p, i - 1),
                   end   |-> PieceStart(lo, hi, p, i) - 1]]

RowsOf(ranges) == UNION {ranges[i].start .. ranges[i].end : i \in DOMAIN ranges}

-----------------------------------------------------------------------------
Init ==
  /\ task = "FULL_MIGRATING" /\ command = "none"
  /\ chunks = [i \in 1..PlannedCount |-> NewChunk(Planned(i), "RANGE")]
  /\ job = [t \in Slots |-> IdleJob]
  /\ op = [s \in Servers |-> IdleOp]
  /\ written = {}
  /\ core = [i \in 1..PlannedCount |-> Planned(i).end]
  /\ orphaned = {}
  /\ budget = [rebalances |-> MaxRebalances, faults |-> MaxFaults,
               aborts |-> MaxAborts, commands |-> MaxCommands,
               flow |-> MaxFlowWrites]

\* UpdateChunk: a blind write of the whole row.
StoreChunk(i, c) ==
  /\ chunks' = [chunks EXCEPT ![i] = c]
  /\ core' = [core EXCEPT ![i] = Least(@, c.end)]

OwnedBy(c, w) == c.status = "RUNNING" /\ c.owner = w

\* Rows appended to the chunk table.
WithNewChunks(cs, ranges, kind) ==
  [i \in 1 .. Len(cs) + Len(ranges) |->
     IF i <= Len(cs) THEN cs[i] ELSE NewChunk(ranges[i - Len(cs)], kind)]

WithNewCores(ks, ranges) ==
  [i \in 1 .. Len(ks) + Len(ranges) |->
     IF i <= Len(ks) THEN ks[i] ELSE ranges[i - Len(ks)].end]

Goto(s, o) == op' = [op EXCEPT ![s] = o]

-----------------------------------------------------------------------------
(***************************************************************************)
(* Claiming: repository.ClaimChunk reclaims every expired lease, then      *)
(* takes a pending chunk.  Affinity, topology and load only choose which   *)
(* one, so any may be taken.                                               *)
(***************************************************************************)
\* Mutant: an expired lease is never taken back.
ReclaimedNever(c) == c

Reclaimed(c) ==
  IF c.status = "RUNNING" /\ c.lease = "expired"
  THEN [c EXCEPT !.status = "PENDING", !.owner = NoWorker,
                 !.lease = "none", !.retries = @ + 1]
  ELSE c

AfterReclaim == [i \in DOMAIN chunks |-> Reclaimed(chunks[i])]

Claimable ==
  IF /\ task = "FULL_MIGRATING"
     /\ Cardinality({i \in DOMAIN chunks : AfterReclaim[i].status = "RUNNING"})
          < Parallelism
  THEN {i \in DOMAIN chunks : AfterReclaim[i].status = "PENDING"}
  ELSE {}

\* The worker resumes behind the durable cursor.
JobFor(i) ==
  LET c == chunks[i] IN
  [phase |-> "copy", chunk |-> i, end |-> c.end,
   next |-> IF c.cursor >= c.start THEN c.cursor + 1 ELSE c.start]

Claim(t) ==
  /\ job[t].phase = "idle"
  /\ \E i \in Claimable :
       /\ chunks' = [AfterReclaim EXCEPT ![i].status = "RUNNING",
                                         ![i].owner = WorkerOf[t],
                                         ![i].lease = "live"]
       /\ job' = [job EXCEPT ![t] = JobFor(i)]
  /\ UNCHANGED <<task, command, op, written, core, orphaned, budget>>

\* A poll that finds no chunk still reclaims the expired leases.
PollReclaims(t) ==
  /\ job[t].phase = "idle"
  /\ Claimable = {}
  /\ AfterReclaim # chunks
  /\ chunks' = AfterReclaim
  /\ UNCHANGED <<task, command, job, op, written, core, orphaned, budget>>

-----------------------------------------------------------------------------
(***************************************************************************)
(* The worker: write a batch, then report it with the lease renewal, until *)
(* the reader has nothing left in the chunk's range.  A worker whose lease *)
(* was reclaimed goes on until a renewal tells it.                         *)
(***************************************************************************)
WriteBatch(t) ==
  /\ job[t].phase = "copy" /\ job[t].next <= job[t].end
  /\ \E last \in job[t].next .. Least(job[t].next + MaxBatch - 1, job[t].end) :
       /\ written' = written \cup (job[t].next .. last)
       /\ job' = [job EXCEPT ![t].next = last + 1, ![t].phase = "report"]
  /\ UNCHANGED <<task, command, chunks, op, core, orphaned, budget>>

\* RenewChunk reads the task and goes on only if it is copying.
RenewRead(t) ==
  /\ job[t].phase = "report"
  /\ job' = [job EXCEPT ![t].phase =
                IF task = "FULL_MIGRATING" THEN "renew" ELSE "failed"]
  /\ UNCHANGED <<task, command, chunks, op, written, core, orphaned, budget>>

\* Flow control comes before the ownership check: whoever asks, a changed
\* pressure level stores the task as it was read.
FlowWrite(t) ==
  /\ job[t].phase = "renew" /\ budget.flow > 0
  /\ task' = "FULL_MIGRATING"
  /\ budget' = [budget EXCEPT !.flow = @ - 1]
  /\ UNCHANGED <<command, chunks, job, op, written, core, orphaned>>

Owns(t) == OwnedBy(chunks[job[t].chunk], WorkerOf[t])

\* Mutant: the cursor of the next batch is stored instead of the written one.
RenewedAhead(t) ==
  [chunks EXCEPT ![job[t].chunk].cursor = job[t].next,
                 ![job[t].chunk].lease = "live"]

\* UpdateChunkProgress and RenewChunkLease: the cursor and the lease.
Renewed(t) ==
  [chunks EXCEPT ![job[t].chunk].cursor = job[t].next - 1,
                 ![job[t].chunk].lease = "live"]

Renew(t) ==
  /\ job[t].phase = "renew" /\ Owns(t)
  /\ chunks' = Renewed(t)
  /\ job' = [job EXCEPT ![t].phase = "copy"]
  /\ UNCHANGED <<task, command, op, written, core, orphaned, budget>>

\* shouldYieldRunningChunk answers yes, which it only does for a cursor
\* inside the chunk and short of its end.
RenewAndYield(t) ==
  LET c == chunks[job[t].chunk] IN
  /\ job[t].phase = "renew" /\ Owns(t)
  /\ budget.rebalances > 0
  /\ job[t].next - 1 >= c.start /\ job[t].next - 1 < c.end
  /\ chunks' = Renewed(t)
  /\ job' = [job EXCEPT ![t].phase = "yield"]
  /\ budget' = [budget EXCEPT !.rebalances = @ - 1]
  /\ UNCHANGED <<task, command, op, written, core, orphaned>>

RenewRefused(t) ==
  /\ job[t].phase = "renew" /\ ~Owns(t)
  /\ job' = [job EXCEPT ![t].phase = "failed"]
  /\ UNCHANGED <<task, command, chunks, op, written, core, orphaned, budget>>

FinishReading(t) ==
  /\ job[t].phase = "copy" /\ job[t].next > job[t].end
  /\ job' = [job EXCEPT ![t].phase = "done"]
  /\ UNCHANGED <<task, command, chunks, op, written, core, orphaned, budget>>

\* Any read, transform, write or checkpoint error, a lost response included.
JobError(t) ==
  /\ job[t].phase \in {"copy", "report", "renew"} /\ budget.faults > 0
  /\ job' = [job EXCEPT ![t].phase = "failed"]
  /\ budget' = [budget EXCEPT !.faults = @ - 1]
  /\ UNCHANGED <<task, command, chunks, op, written, core, orphaned>>

\* Shutdown or crash of a slot: nothing is reported, the lease runs out.
WorkerStops(t) ==
  /\ job[t].phase # "idle" /\ budget.faults > 0
  /\ job' = [job EXCEPT ![t] = IdleJob]
  /\ budget' = [budget EXCEPT !.faults = @ - 1]
  /\ UNCHANGED <<task, command, chunks, op, written, core, orphaned>>

\* Somebody still works on chunk i for its owner.
Held(i) ==
  \/ \E t \in Slots : /\ job[t].phase # "idle" /\ job[t].chunk = i
                      /\ WorkerOf[t] = chunks[i].owner
  \/ \E s \in Servers : op[s].pc # "idle" /\ op[s].id = i

\* Five minutes without a renewal.  It takes a fault while the chunk is held.
LeaseExpires(i) ==
  /\ chunks[i].status = "RUNNING" /\ chunks[i].lease = "live"
  /\ \/ ~Held(i) /\ UNCHANGED budget
     \/ /\ Held(i) /\ budget.faults > 0
        /\ budget' = [budget EXCEPT !.faults = @ - 1]
  /\ chunks' = [chunks EXCEPT ![i].lease = "expired"]
  /\ UNCHANGED <<task, command, job, op, written, core, orphaned>>

-----------------------------------------------------------------------------
(***************************************************************************)
(* CompleteChunk, under the server's progressMu.  The slot does not wait   *)
(* for the answer: its HTTP client may give up while the handler runs.     *)
(***************************************************************************)
CompleteBegin(s, t) ==
  LET c == chunks[job[t].chunk]
      pc == IF job[t].phase = "yield" THEN "yield" ELSE "complete"
  IN
  /\ op[s].pc = "idle" /\ job[t].phase \in {"done", "yield"}
  /\ job' = [job EXCEPT ![t] = IdleJob]
  /\ IF OwnedBy(c, WorkerOf[t])
     THEN Goto(s, [IdleOp EXCEPT !.pc = pc, !.id = job[t].chunk, !.snap = c,
                                 !.after = job[t].next - 1, !.seen = task])
     ELSE UNCHANGED op
  /\ UNCHANGED <<task, command, chunks, written, core, orphaned, budget>>

CompleteStore(s) ==
  /\ op[s].pc = "complete"
  /\ StoreChunk(op[s].id, [op[s].snap EXCEPT !.status = "SUCCESS", !.lease = "none"])
  /\ Goto(s, [IdleOp EXCEPT !.pc = "adapt", !.id = op[s].id])
  /\ UNCHANGED <<task, command, job, written, orphaned, budget>>

\* completeYieldedChunk: the chunk ends at the cursor, what is behind it
\* becomes new chunks, in one transaction that checks the owner.
\* Mutant: the yielded chunk keeps its end.
YieldedKeepsEnd(o) ==
  [o.snap EXCEPT !.cursor = o.after, !.kind = "REBALANCED",
                 !.status = "SUCCESS", !.owner = NoWorker, !.lease = "none"]

Yielded(o) ==
  [o.snap EXCEPT !.end = o.after, !.cursor = o.after, !.kind = "REBALANCED",
                 !.status = "SUCCESS", !.owner = NoWorker, !.lease = "none"]

YieldStore(s) ==
  LET o == op[s] IN
  /\ o.pc = "yield" /\ o.after < o.snap.end
  /\ OwnedBy(chunks[o.id], o.snap.owner)
  /\ \E p \in 1..Least(MaxPieces, o.snap.end - o.after) :
       LET ranges == Pieces(o.after + 1, o.snap.end, p) IN
       /\ chunks' = WithNewChunks([chunks EXCEPT ![o.id] = Yielded(o)],
                                  ranges, "REBALANCED")
       /\ core' = WithNewCores([core EXCEPT ![o.id] = Least(@, o.after)], ranges)
  /\ Goto(s, [IdleOp EXCEPT !.pc = "count", !.id = o.id, !.seen = o.seen])
  /\ UNCHANGED <<task, command, job, written, orphaned, budget>>

YieldRefused(s) ==
  LET o == op[s] IN
  /\ o.pc = "yield" /\ o.after < o.snap.end
  /\ ~OwnedBy(chunks[o.id], o.snap.owner)
  /\ Goto(s, IdleOp)
  /\ UNCHANGED <<task, command, chunks, job, written, core, orphaned, budget>>

\* The chunk was shortened below the cursor meanwhile: it is simply done.
YieldAtEnd(s) ==
  LET o == op[s] IN
  /\ o.pc = "yield" /\ o.after >= o.snap.end
  /\ StoreChunk(o.id, [o.snap EXCEPT !.cursor = o.after, !.status = "SUCCESS",
                                     !.owner = NoWorker, !.lease = "none"])
  /\ Goto(s, [IdleOp EXCEPT !.pc = "refresh", !.id = o.id])
  /\ UNCHANGED <<task, command, job, written, orphaned, budget>>

-----------------------------------------------------------------------------
(***************************************************************************)
(* adaptPendingChunks: after a slow chunk, the pending chunks listed at    *)
(* its start are shortened one by one; the pieces cut off are inserted     *)
(* when the loop is over.                                                  *)
(***************************************************************************)
NotSlow(s) ==
  /\ op[s].pc = "adapt"
  /\ Goto(s, [op[s] EXCEPT !.pc = "refresh"])
  /\ UNCHANGED <<task, command, chunks, job, written, core, orphaned, budget>>

AdaptList(s) ==
  /\ op[s].pc = "adapt" /\ budget.rebalances > 0
  /\ Goto(s, [op[s] EXCEPT !.pc = "split", !.view = chunks, !.at = 1, !.seen = task])
  /\ budget' = [budget EXCEPT !.rebalances = @ - 1]
  /\ UNCHANGED <<task, command, chunks, job, written, core, orphaned>>

\* Mutant: the status is not looked at.
SplittableAny(c) == c.kind = "RANGE" /\ c.end > c.start

Splittable(c) == c.status = "PENDING" /\ c.kind = "RANGE" /\ c.end > c.start

Candidates(o) == {i \in o.at .. Len(o.view) : Splittable(o.view[i])}

AdaptSplit(s) ==
  LET o == op[s] IN
  /\ o.pc = "split"
  /\ \E i \in Candidates(o), p \in 2..(MaxPieces - Len(o.pieces) + 1) :
       LET c == o.view[i]
           cut == Pieces(c.start, c.end, p)
       IN /\ \A j \in Candidates(o) : i <= j
          /\ p <= c.end - c.start + 1
          /\ StoreChunk(i, [c EXCEPT !.end = cut[1].end])
          /\ Goto(s, [o EXCEPT !.at = i + 1, !.pieces = @ \o Tail(cut)])
  /\ UNCHANGED <<task, command, job, written, orphaned, budget>>

\* At least one candidate is split; how many more depends on idle capacity.
AdaptEnd(s) ==
  LET o == op[s] IN
  /\ o.pc = "split" /\ (Candidates(o) = {} \/ o.pieces # << >>)
  /\ Goto(s, [o EXCEPT !.pc = IF o.pieces = << >> THEN "refresh" ELSE "insert",
                       !.view = << >>, !.at = 1])
  /\ UNCHANGED <<task, command, chunks, job, written, core, orphaned, budget>>

\* CreateChunks inserts the rows one statement at a time.
AdaptInsert(s) ==
  LET o == op[s]
      r == <<Head(o.pieces)>>
  IN
  /\ o.pc = "insert"
  /\ chunks' = WithNewChunks(chunks, r, "RANGE")
  /\ core' = WithNewCores(core, r)
  /\ Goto(s, [o EXCEPT !.pieces = Tail(@),
                       !.pc = IF Len(o.pieces) = 1 THEN "count" ELSE "insert"])
  /\ UNCHANGED <<task, command, job, written, orphaned, budget>>

\* The counters of the task row are stored with the status read before.
CountRebalance(s) ==
  /\ op[s].pc = "count"
  /\ task' = op[s].seen
  /\ Goto(s, [IdleOp EXCEPT !.pc = "refresh", !.id = op[s].id])
  /\ UNCHANGED <<command, chunks, job, written, core, orphaned, budget>>

-----------------------------------------------------------------------------
(***************************************************************************)
(* refreshProgress: read the chunk summary and the task, store the task.   *)
(***************************************************************************)
\* Mutant: a chunk counts as finished once it is no longer pending.
AllStarted == \A i \in DOMAIN chunks : chunks[i].status # "PENDING"

AllSucceeded == \A i \in DOMAIN chunks : chunks[i].status = "SUCCESS"

RefreshRead(s) ==
  /\ op[s].pc = "refresh"
  /\ Goto(s, [IdleOp EXCEPT !.pc = "store", !.id = op[s].id, !.seen = task,
                             !.allDone = AllSucceeded])
  /\ UNCHANGED <<task, command, chunks, job, written, core, orphaned, budget>>

RefreshStore(s) ==
  LET finishes == op[s].allDone /\ op[s].seen = "FULL_MIGRATING" IN
  /\ op[s].pc = "store"
  /\ task' = IF finishes THEN "FULL_FINISHED" ELSE op[s].seen
  /\ Goto(s, IdleOp)
  /\ UNCHANGED <<command, chunks, job, written, core, orphaned, budget>>

-----------------------------------------------------------------------------
(***************************************************************************)
(* FailChunk, under progressMu.                                            *)
(***************************************************************************)
FailBegin(s, t) ==
  LET c == chunks[job[t].chunk] IN
  /\ op[s].pc = "idle" /\ job[t].phase = "failed"
  /\ job' = [job EXCEPT ![t] = IdleJob]
  /\ IF OwnedBy(c, WorkerOf[t])
     THEN Goto(s, [IdleOp EXCEPT !.pc = "fail", !.id = job[t].chunk,
                                 !.snap = c, !.seen = task])
     ELSE UNCHANGED op
  /\ UNCHANGED <<task, command, chunks, written, core, orphaned, budget>>

Stopped(o) == o.seen \in {"PAUSED", "CANCELLED"}
Exhausted(o) == ~Stopped(o) /\ o.snap.retries + 1 > MaxRetries

FailTask(s) ==
  /\ op[s].pc = "fail" /\ Exhausted(op[s])
  /\ task' = "FAILED"
  /\ Goto(s, [op[s] EXCEPT !.pc = "failchunk"])
  /\ UNCHANGED <<command, chunks, job, written, core, orphaned, budget>>

FailStore(s) ==
  LET o == op[s] IN
  /\ o.pc = "failchunk" \/ (o.pc = "fail" /\ ~Exhausted(o))
  /\ StoreChunk(o.id, [o.snap EXCEPT !.owner = NoWorker, !.lease = "none",
         !.status = IF Exhausted(o) THEN "FAILED" ELSE "PENDING",
         !.retries = IF Stopped(o) THEN @ ELSE @ + 1])
  /\ Goto(s, IdleOp)
  /\ UNCHANGED <<task, command, job, written, orphaned, budget>>

-----------------------------------------------------------------------------
\* A repository error, a cancelled request or the death of the process ends
\* a handler where it is; the steps that are left never run.
HandlerAborts(s) ==
  /\ op[s].pc # "idle" /\ budget.aborts > 0
  /\ orphaned' = orphaned \cup RowsOf(op[s].pieces)
  /\ Goto(s, IdleOp)
  /\ budget' = [budget EXCEPT !.aborts = @ - 1]
  /\ UNCHANGED <<task, command, chunks, job, written, core>>

\* Pause, Resume (Start) and Cancel read the task, check its status, and
\* store it.
Command(from, to) ==
  /\ budget.commands > 0 /\ command = "none" /\ task \in from
  /\ command' = to
  /\ budget' = [budget EXCEPT !.commands = @ - 1]
  /\ UNCHANGED <<task, chunks, job, op, written, core, orphaned>>

Pause == Command({"FULL_MIGRATING"}, "PAUSED")
Resume == Command({"PAUSED"}, "FULL_MIGRATING")
Cancel == Command(TaskStatus, "CANCELLED")

CommandStore ==
  /\ command # "none"
  /\ task' = command
  /\ command' = "none"
  /\ UNCHANGED <<chunks, job, op, written, core, orphaned, budget>>

-----------------------------------------------------------------------------
SlotStep(t) ==
  \/ Claim(t) \/ PollReclaims(t) \/ WriteBatch(t)
  \/ RenewRead(t) \/ FlowWrite(t) \/ Renew(t) \/ RenewAndYield(t)
  \/ RenewRefused(t) \/ FinishReading(t)

ServerStep(s) ==
  \/ \E t \in Slots : CompleteBegin(s, t) \/ FailBegin(s, t)
  \/ CompleteStore(s) \/ YieldStore(s) \/ YieldRefused(s) \/ YieldAtEnd(s)
  \/ NotSlow(s) \/ AdaptList(s) \/ AdaptSplit(s) \/ AdaptEnd(s)
  \/ AdaptInsert(s) \/ CountRebalance(s)
  \/ RefreshRead(s) \/ RefreshStore(s) \/ FailTask(s) \/ FailStore(s)

Fault ==
  \/ \E t \in Slots : JobError(t) \/ WorkerStops(t)
  \/ \E s \in Servers : HandlerAborts(s)

Operator == Pause \/ Resume \/ Cancel \/ CommandStore

Next ==
  \/ \E t \in Slots : SlotStep(t)
  \/ \E s \in Servers : ServerStep(s)
  \/ \E i \in DOMAIN chunks : LeaseExpires(i)
  \/ Fault
  \/ Operator

Spec == Init /\ [][Next]_vars

\* Slots keep polling and working, servers run the handlers they started and
\* serve waiting reports, and the lease of an abandoned chunk runs out.
Abandoned == \E i \in DOMAIN chunks : ~Held(i) /\ LeaseExpires(i)

Fairness ==
  /\ \A t \in Slots : WF_vars(SlotStep(t))
  /\ \A s \in Servers : WF_vars(ServerStep(s))
  /\ WF_vars(Abandoned)
  /\ WF_vars(CommandStore)

FairSpec == Spec /\ Fairness

-----------------------------------------------------------------------------
(***************************************************************************)
(* Properties.                                                             *)
(***************************************************************************)
SingleServer == \A s, t \in Servers : s = t

ChunkRows(i) == chunks[i].start .. chunks[i].end

\* A chunk answers for its rows up to the smallest end it was ever stored
\* with: what a split or a yield took from it belongs to other chunks, even
\* when a later blind write makes the chunk longer again.
InOpenChunk(r) ==
  \E i \in DOMAIN chunks :
    /\ chunks[i].status # "SUCCESS"
    /\ chunks[i].start <= r /\ r <= core[i]

InPieces(r) == \E s \in Servers : r \in RowsOf(op[s].pieces)

\* No row falls through the cracks of splitting, yielding, reclaiming and
\* the blind writes: it is in the target, in a chunk somebody will still
\* copy, in a piece an adaptive split is about to insert, or it was lost with
\* a split that was cut short.  This holds for any number of servers.
RowsCovered ==
  \A r \in Row : r \in written \/ r \in orphaned \/ InOpenChunk(r) \/ InPieces(r)

\* Apply before checkpoint: every row a durable cursor, a job's position or
\* a successful chunk accounts for is in the target, whatever workers with
\* reclaimed leases and overlapping handlers do.
CheckpointBehindWrites ==
  /\ \A i \in DOMAIN chunks : chunks[i].start .. chunks[i].cursor \subseteq written
  /\ \A t \in Slots : job[t].phase # "idle" =>
       chunks[job[t].chunk].start .. (job[t].next - 1) \subseteq written
  /\ \A i \in DOMAIN chunks : chunks[i].status = "SUCCESS" =>
       chunks[i].start .. core[i] \subseteq written

\* With one server, a task leaves the copy phase only when every row is in
\* the target, except those a cut-short split lost.
DoneMeansCopied ==
  SingleServer /\ task = "FULL_FINISHED" => Row \subseteq written \cup orphaned

\* With one server, no row is ever in the range of two chunks or of a chunk
\* and a piece to be inserted: a row is not copied by two chunks.
ChunksDisjoint ==
  SingleServer =>
    /\ \A i, j \in DOMAIN chunks : i # j => ChunkRows(i) \cap ChunkRows(j) = {}
    /\ \A i \in DOMAIN chunks, s \in Servers :
         ChunkRows(i) \cap RowsOf(op[s].pieces) = {}

\* With one server, progressMu makes success final: no late failure report,
\* stale split or reclaim reopens a chunk that was completed.
SuccessIsFinal ==
  [][SingleServer =>
       \A i \in DOMAIN chunks :
         chunks[i].status = "SUCCESS" => chunks'[i] = chunks[i]]_vars

(***************************************************************************)
(* What the steps rely on: RowsCovered and CheckpointBehindWrites say it of *)
(* the tables, the rest of the copies the jobs and the handlers hold.      *)
(***************************************************************************)
ChunkBehind(i) ==
  /\ core[i] <= chunks[i].end
  /\ chunks[i].start .. chunks[i].cursor \subseteq written
  /\ chunks[i].status = "SUCCESS" => chunks[i].start .. core[i] \subseteq written

JobBehind(j) ==
  j.phase # "idle" =>
    /\ j.chunk \in DOMAIN chunks
    /\ core[j.chunk] <= j.end
    /\ chunks[j.chunk].start .. (j.next - 1) \subseteq written
    /\ j.phase = "done" => j.end < j.next
    /\ j.phase = "yield" => chunks[j.chunk].start < j.next

\* c is an earlier version of chunk i.
VersionOf(c, i) ==
  /\ c.start = chunks[i].start
  /\ core[i] <= c.end
  /\ c.start .. c.cursor \subseteq written

HandlerBehind(o) ==
  /\ o.pc \in {"complete", "yield", "fail", "failchunk"} =>
       o.id \in DOMAIN chunks /\ VersionOf(o.snap, o.id)
  /\ o.pc = "complete" => o.snap.start .. core[o.id] \subseteq written
  /\ o.pc = "yield" =>
       o.snap.start <= o.after /\ o.snap.start .. o.after \subseteq written
  /\ o.pc = "split" =>
       /\ o.at >= 1 /\ Len(o.view) <= Len(chunks)
       /\ \A i \in DOMAIN o.view : VersionOf(o.view[i], i)
  /\ o.pc = "insert" => o.pieces # << >>
  /\ o.pc \notin {"split", "insert"} => o.pieces = << >>

\* A status or a summary that says the copy is over is right.
FinishSeen ==
  \/ task = "FULL_FINISHED"
  \/ \E s \in Servers : op[s].seen = "FULL_FINISHED"
  \/ \E s \in Servers : op[s].pc = "store" /\ op[s].allDone

Inductive ==
  /\ TypeOK
  /\ Len(core) = Len(chunks)
  /\ \A i \in DOMAIN chunks : ChunkBehind(i)
  /\ \A t \in Slots : JobBehind(job[t])
  /\ \A s \in Servers : HandlerBehind(op[s])
  /\ RowsCovered
  /\ SingleServer /\ FinishSeen => Row \subseteq written \cup orphaned

\* What docs/PROJECT_ARCHITECTURE.md promises of the copy: a crash may replay
\* batches but never skips data.
NothingSkipped == task = "FULL_FINISHED" => Row \subseteq written

\* As long as no operator interferes, no flow-control write puts an old task row
\* back and no handler is cut short, worker stops, job errors and lease expiries
\* delay the copy but never stop it.
Undisturbed == budget.commands = MaxCommands /\ budget.flow = MaxFlowWrites

CopyEnds == task = "FULL_MIGRATING" /\ Undisturbed
              ~> task # "FULL_MIGRATING" \/ ~Undisturbed

\* A task that was paused and resumed, and is then left alone, goes on to the
\* end of its copy phase.
ResumeContinues ==
  task = "FULL_MIGRATING" /\ budget.commands = 0 /\ command = "none"
    ~> task # "FULL_MIGRATING"
=============================================================================
