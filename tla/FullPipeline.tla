---------------------------- MODULE FullPipeline ----------------------------
(***************************************************************************)
(* One chunk of the full copy inside a worker: executeJob with the         *)
(* pipeline's Runner.  A goroutine reads batches ahead into a bounded      *)
(* queue; the runner takes them out, writes them, stores their cursor and  *)
(* adapts the size of the next ones.  Both end by a cancelled context.     *)
(* The hazard is an end that looks like success: the reader gives up on a  *)
(* cancelled context without a word, and a batch that is shorter than the  *)
(* limit ends the table although the limit changes while it is read.       *)
(***************************************************************************)
EXTENDS Naturals, Sequences, FiniteSets

CONSTANTS
  ChunkKeys,  \* the keys of the rows in the chunk's range
  MaxRows,    \* the largest batch; the smallest has one row
  Buffer,     \* BufferBatches: how many batches the queue holds
  MaxFaults,  \* bound: errors and process deaths
  MaxStops,   \* bound: shutdowns of the worker
  MaxYields   \* bound: requests to yield

ASSUME PipelineAssumption ==
  /\ ChunkKeys \subseteq Nat \ {0} /\ IsFiniteSet(ChunkKeys)
  /\ MaxRows \in Nat \ {0} /\ Buffer \in Nat \ {0}
  /\ MaxFaults \in Nat /\ MaxStops \in Nat /\ MaxYields \in Nat

VARIABLES
  status, cursor, written,  \* the chunk's row and the target, see ChunkJob
  stopping,  \* the worker process was told to stop
  limit,     \* batchRows: the size of the next batch
  reader,    \* the reading goroutine: its step and the batch it has read
  queue,     \* the channel between them
  runner,    \* Run, and the slot that reports how it ended
  budget     \* what is left of the bounds

stored == <<status, cursor, written>>
pipelineVars == <<stored, stopping, limit, reader, queue, runner, budget>>

Between(lo, hi) == {k \in ChunkKeys : lo < k /\ k <= hi}
Rows(lo, hi) == Cardinality(Between(lo, hi))

NoReader == [pc |-> "none", from |-> 0, after |-> 0, want |-> 1]
NoItem == [err |-> FALSE, from |-> 0, last |-> 0]
Runner(pc, item, outcome) == [pc |-> pc, item |-> item, outcome |-> outcome]
IdleRunner == Runner("idle", NoItem, "none")
Returned(outcome) == Runner("returned", NoItem, outcome)

PipelineInit ==
  /\ status = "PENDING" /\ cursor = 0 /\ written = {}
  /\ stopping = FALSE /\ limit = 1
  /\ reader = NoReader /\ queue = << >> /\ runner = IdleRunner
  /\ budget = [faults |-> MaxFaults, stops |-> MaxStops, yields |-> MaxYields]

\* The context of the pipeline: the worker cancels it and so does Run when it returns.
Cancelled == stopping \/ runner.pc \in {"returned", "idle"}

Use(kind) == budget[kind] > 0 /\ budget' = [budget EXCEPT ![kind] = @ - 1]

\* An error comes from a cancelled context or is a fault.
Fails == IF Cancelled THEN UNCHANGED budget ELSE Use("faults")

-----------------------------------------------------------------------------
(***************************************************************************)
(* The reading goroutine.                                                  *)
(***************************************************************************)
\* Where a batch of so many rows ends: it is shorter only at the end.
BatchEnds(after, rows) ==
  {k \in ChunkKeys : /\ k > after
                /\ \/ Rows(after, k) = rows
                   \/ Rows(after, k) < rows /\ \A later \in ChunkKeys : later <= k}

Read ==
  /\ reader.pc = "read"
  /\ \E k \in BatchEnds(reader.after, limit) :
       reader' = [pc |-> "send", from |-> reader.after, after |-> k, want |-> limit]
  /\ UNCHANGED <<stored, stopping, limit, queue, runner, budget>>

\* Mutant: a reader that finds nothing does not close the channel.
WhenEmptyOpen == "none"

WhenEmpty == "closed"

ReadNothing ==
  /\ reader.pc = "read" /\ \A k \in ChunkKeys : k <= reader.after
  /\ reader' = [reader EXCEPT !.pc = WhenEmpty]
  /\ UNCHANGED <<stored, stopping, limit, queue, runner, budget>>

ReadFails ==
  /\ reader.pc = "read" /\ Fails
  /\ reader' = [reader EXCEPT !.pc = "fail"]
  /\ UNCHANGED <<stored, stopping, limit, queue, runner>>

\* Mutant: the batch is compared with the limit of the next one.
IsShortNow == Rows(reader.from, reader.after) < limit

IsShort == Rows(reader.from, reader.after) < reader.want

Send ==
  /\ reader.pc = "send" /\ Len(queue) < Buffer
  /\ queue' = Append(queue, [err |-> FALSE, from |-> reader.from, last |-> reader.after])
  /\ reader' = [reader EXCEPT !.pc = IF IsShort THEN "closed" ELSE "read"]
  /\ UNCHANGED <<stored, stopping, limit, runner, budget>>

SendError ==
  /\ reader.pc = "fail" /\ Len(queue) < Buffer
  /\ queue' = Append(queue, [NoItem EXCEPT !.err = TRUE])
  /\ reader' = [reader EXCEPT !.pc = "closed"]
  /\ UNCHANGED <<stored, stopping, limit, runner, budget>>

\* Mutant: only an error is dropped, a batch waits for room in the queue.
DropsError == {"fail"}

Drops == {"send", "fail"}

\* A select with two ready cases takes either.
GiveUp ==
  /\ reader.pc \in Drops /\ Cancelled
  /\ reader' = [reader EXCEPT !.pc = "closed"]
  /\ UNCHANGED <<stored, stopping, limit, queue, runner, budget>>

ReaderStep == Read \/ ReadNothing \/ ReadFails \/ Send \/ SendError \/ GiveUp

-----------------------------------------------------------------------------
(***************************************************************************)
(* The runner.                                                             *)
(***************************************************************************)
Receive ==
  /\ runner.pc = "receive" /\ queue # << >>
  /\ runner' = IF Head(queue).err THEN Returned("error") ELSE Runner("write", Head(queue), "none")
  /\ queue' = Tail(queue)
  /\ UNCHANGED <<stored, stopping, limit, reader, budget>>

\* The channel is closed and empty: the end of the table, as far as Run knows.
Drained ==
  /\ runner.pc = "receive" /\ queue = << >> /\ reader.pc = "closed"
  /\ runner' = Returned("done")
  /\ UNCHANGED <<stored, stopping, limit, reader, queue, budget>>

Upsert == written \cup Between(runner.item.from, runner.item.last)

Write ==
  /\ runner.pc = "write"
  /\ written' = Upsert
  /\ runner' = [runner EXCEPT !.pc = "commit"]
  /\ UNCHANGED <<status, cursor, stopping, limit, reader, queue, budget>>

\* A transformation or a write that fails, the write with its rows in the target or not.
WriteFails ==
  /\ runner.pc = "write" /\ Fails
  /\ written' \in {written, Upsert}
  /\ runner' = Returned("error")
  /\ UNCHANGED <<status, cursor, stopping, limit, reader, queue>>

\* The renewal stores the cursor; its answer sets the size of the batches, by
\* a target or by what the runner makes of its own timing.
CommitCursor ==
  /\ runner.pc = "commit"
  /\ cursor' = runner.item.last
  /\ limit' \in 1 .. MaxRows
  /\ runner' = Runner("pause", NoItem, "none")
  /\ UNCHANGED <<status, written, stopping, reader, queue, budget>>

\* The answer asks for a yield, which it only does short of the end.
CommitAndYield ==
  /\ runner.pc = "commit" /\ Use("yields")
  /\ \E k \in ChunkKeys : k > runner.item.last
  /\ cursor' = runner.item.last
  /\ runner' = Returned("yielded")
  /\ UNCHANGED <<status, written, stopping, limit, reader, queue>>

\* The renewal fails or its answer is lost; it does not look at the context.
CommitFails ==
  /\ runner.pc = "commit" /\ Use("faults")
  /\ cursor' \in {cursor, runner.item.last}
  /\ runner' = Returned("error")
  /\ UNCHANGED <<status, written, stopping, limit, reader, queue>>

Pause ==
  /\ runner.pc = "pause"
  /\ \/ runner' = Runner("receive", NoItem, "none")
     \/ Cancelled /\ runner' = Returned("error")
  /\ UNCHANGED <<stored, stopping, limit, reader, queue, budget>>

-----------------------------------------------------------------------------
(***************************************************************************)
(* The slot around it.                                                     *)
(***************************************************************************)
\* A reader left over from the last job has all its state to itself; here it
\* ends before the next one begins.
Claim ==
  /\ runner.pc = "idle" /\ status = "PENDING" /\ ~stopping
  /\ reader.pc \in {"none", "closed"}
  /\ status' = "RUNNING"
  /\ \E rows \in 1 .. MaxRows : limit' = rows
  /\ reader' = [NoReader EXCEPT !.pc = "read", !.from = cursor, !.after = cursor]
  /\ queue' = << >>
  /\ runner' = Runner("receive", NoItem, "none")
  /\ UNCHANGED <<cursor, written, stopping, budget>>

\* A worker that was told to stop reports nothing, however Run ended.
Report ==
  /\ runner.pc = "returned" /\ ~stopping
  /\ \/ /\ status' = IF runner.outcome = "done" THEN "SUCCESS" ELSE "PENDING"
        /\ UNCHANGED budget
     \/ Use("faults") /\ UNCHANGED status
  /\ runner' = IdleRunner
  /\ UNCHANGED <<cursor, written, stopping, limit, reader, queue>>

Interrupted ==
  /\ runner.pc = "returned" /\ stopping
  /\ runner' = IdleRunner
  /\ UNCHANGED <<stored, stopping, limit, reader, queue, budget>>

\* Nobody renews the lease any more and a claim takes the chunk back, in a
\* worker that runs.
LeaseExpires ==
  /\ runner.pc = "idle" /\ status = "RUNNING"
  /\ status' = "PENDING" /\ stopping' = FALSE
  /\ UNCHANGED <<cursor, written, limit, reader, queue, runner, budget>>

Restart ==
  /\ runner.pc = "idle" /\ status = "PENDING" /\ stopping
  /\ stopping' = FALSE
  /\ UNCHANGED <<stored, limit, reader, queue, runner, budget>>

Stop ==
  /\ ~stopping /\ Use("stops")
  /\ stopping' = TRUE
  /\ UNCHANGED <<stored, limit, reader, queue, runner>>

Die ==
  /\ runner.pc # "idle" /\ Use("faults")
  /\ reader' = NoReader /\ queue' = << >> /\ runner' = IdleRunner
  /\ UNCHANGED <<stored, stopping, limit>>

RunnerStep ==
  \/ Receive \/ Drained \/ Write \/ WriteFails \/ CommitCursor \/ CommitAndYield \/ CommitFails \/ Pause
  \/ Report \/ Interrupted

PipelineNext == ReaderStep \/ RunnerStep \/ Claim \/ LeaseExpires \/ Restart \/ Stop \/ Die

PipelineSpec == PipelineInit /\ [][PipelineNext]_pipelineVars

\* Both goroutines run on, and some worker polls for the chunk.
FairPipeline ==
  /\ PipelineSpec
  /\ WF_pipelineVars(ReaderStep) /\ WF_pipelineVars(RunnerStep)
  /\ WF_pipelineVars(Claim) /\ WF_pipelineVars(LeaseExpires) /\ WF_pipelineVars(Restart)

-----------------------------------------------------------------------------
Places == ChunkKeys \cup {0}

PipelineTypeOK ==
  /\ status \in {"PENDING", "RUNNING", "SUCCESS"} /\ cursor \in Places /\ written \subseteq ChunkKeys
  /\ stopping \in BOOLEAN /\ limit \in 1 .. MaxRows
  /\ reader \in [pc : {"none", "read", "send", "fail", "closed"},
                 from : Places, after : Places, want : 1 .. MaxRows]
  /\ queue \in Seq([err : BOOLEAN, from : Places, last : Places])
  /\ runner \in [pc : {"idle", "receive", "write", "commit", "pause", "returned"},
                 item : [err : BOOLEAN, from : Places, last : Places],
                 outcome : {"none", "done", "yielded", "error"}]
  /\ budget \in [{"faults", "stops", "yields"} -> Nat]

\* Whatever is read ahead, cancelled, lost or repeated: the rows are written
\* before their cursor is stored, the cursor passes none, and the chunk is
\* reported as done only when there is none behind it.
Contract == INSTANCE ChunkJob WITH Keys <- ChunkKeys
CopiesChunk == Contract!Spec

\* The reading goroutine does not outlive its job: whoever stopped listening
\* to the queue, it gets past a full one.
ReaderEnds == runner.pc = "returned" ~> reader.pc \in {"none", "closed"}

\* Errors, shutdowns and yields delay the chunk but do not keep it from its end.
ChunkCopied == <>(status = "SUCCESS")

=============================================================================
