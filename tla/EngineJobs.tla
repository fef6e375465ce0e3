------------------------------ MODULE EngineJobs ------------------------------
(***************************************************************************)
(* The managed forward CDC jobs of one incremental migration with a        *)
(* replication slot at its source: workers claim a job and run a reader    *)
(* process under a lease, the control plane starts, fails, completes and   *)
(* stops jobs, and an operator pauses, resumes, cancels and cuts over.     *)
(*                                                                         *)
(* A handler reads a row and stores the whole row later: reading and       *)
(* storing are steps of their own, and reads that follow each other are    *)
(* one step.  A worker slot waits for the answer to each of its requests,  *)
(* so a request is part of the slot.  Operator commands come one at a time.*)
(***************************************************************************)
EXTENDS Integers, FiniteSets

CONSTANTS
  Workers,      \* worker processes
  NoWorker,     \* owner of a job that nobody claimed
  Slots,        \* CDC slots of the workers, one reader process in each
  WorkerOf,     \* the worker each slot belongs to
  MaxRetries,   \* failures of a job before its task fails
  MaxJobs,      \* bound: jobs ever created
  MaxFaults,    \* bound: readers, workers, requests and handlers that die
  MaxRefusals,  \* bound: lease renewals that end in an error of the request
  MaxCommands   \* bound: commands of the operator

ASSUME ConstantsOK ==
  /\ NoWorker \notin Workers
  /\ WorkerOf \in [Slots -> Workers]
  /\ MaxRetries \in Nat /\ MaxJobs \in Nat \ {0}
  /\ MaxFaults \in Nat /\ MaxRefusals \in Nat /\ MaxCommands \in Nat

VARIABLES
  task,      \* status of the migration task
  from,      \* PausedFromStatus
  jobs,      \* the table engine_jobs
  retained,  \* the replication slot still exists at the source
  slot,      \* what each worker slot does
  op,        \* the command of the operator that is under way
  revived,   \* history: a call of a worker put an old row over a newer one
  budget     \* what is left of the bounds

vars == <<task, from, jobs, retained, slot, op, revived, budget>>

Id == 1..MaxJobs

Running == {"CDC_INITIALIZING", "CDC_CATCHING_UP"}

Status == Running \cup {"READY_FOR_CUTOVER", "CUTOVER_RUNNING", "PAUSED",
                        "FAILED", "CANCELLED"}

Job == [status : {"none", "PENDING", "RUNNING", "STOP_REQUESTED", "STOPPED", "FAILED"},
        owner : Workers \cup {NoWorker},
        lease : {"none", "live", "expired"},
        retries : Nat]

NoJob == [status |-> "none", owner |-> NoWorker, lease |-> "none", retries |-> 0]

NewJob == [NoJob EXCEPT !.status = "PENDING"]

\* The phases of a slot between which other processes take steps.
SlotState == [pc : {"idle", "start", "started", "mark", "marked", "run",
                    "report", "failing", "store", "drop"},
              id : Id,
              failed : BOOLEAN,   \* the outcome the slot reports
              asked : BOOLEAN,    \* the job was asked to stop
              copy : Job,         \* the job row as it will be stored
              seen : Status]      \* task status as the handler read it

IdleSlot == [pc |-> "idle", id |-> 1, failed |-> FALSE, asked |-> FALSE, copy |-> NoJob,
             seen |-> "CDC_INITIALIZING"]

Command == [kind : {"none", "Pause", "Start", "Ready", "Cutover", "Cancel"},
            pc : {"idle", "store", "list", "stop", "wait", "ensure", "create"},
            seen : Status,        \* task status as the command read it
            view : [Id -> Job],   \* jobs as listed
            todo : SUBSET Id]     \* listed jobs still to be stopped

IdleOp == [kind |-> "none", pc |-> "idle", seen |-> "PAUSED",
           view |-> [j \in Id |-> NoJob], todo |-> {}]

TypeOK ==
  /\ task \in Status
  /\ from \in Running
  /\ jobs \in [Id -> Job]
  /\ retained \in BOOLEAN
  /\ slot \in [Slots -> SlotState]
  /\ op \in Command /\ revived \in BOOLEAN
  /\ budget \in [faults : 0..MaxFaults, refusals : 0..MaxRefusals,
                 commands : 0..MaxCommands]

-----------------------------------------------------------------------------
Spend(what) ==
  /\ budget[what] > 0
  /\ budget' = [budget EXCEPT ![what] = @ - 1]

Owns(s) == jobs[slot[s].id].owner = WorkerOf[s]

\* Mutant: a job that is asked to stop does not count.
ActiveStatusShort == {"PENDING", "RUNNING"}

\* Jobs for which ensureManagedCDCJob creates no other one.
ActiveStatus == {"PENDING", "RUNNING", "STOP_REQUESTED"}

Move(s, pc) == slot' = [slot EXCEPT ![s].pc = pc]

\* The reader process ends and the slot reports how.
End(s, failed) ==
  slot' = [slot EXCEPT ![s].pc = "report", ![s].failed = failed]

Init ==
  /\ task = "CDC_INITIALIZING" /\ from = "CDC_INITIALIZING"
  /\ jobs = [j \in Id |-> IF j = 1 THEN NewJob ELSE NoJob]
  /\ retained = TRUE
  /\ slot = [s \in Slots |-> IdleSlot]
  /\ op = IdleOp /\ revived = FALSE
  /\ budget = [faults |-> MaxFaults, refusals |-> MaxRefusals,
               commands |-> MaxCommands]

-----------------------------------------------------------------------------
(***************************************************************************)
(* A worker slot, from the claim to the report.                            *)
(***************************************************************************)
\* Mutant: jobs with an expired lease stay where they are.
ReclaimedNever(j) == j

\* An expired lease returns the job to the queue and counts as a retry.
Reclaimed(j) ==
  IF j.status = "RUNNING" /\ j.lease = "expired"
  THEN [NewJob EXCEPT !.retries = j.retries + 1] ELSE j

Claimed(j, w) == [j EXCEPT !.status = "RUNNING", !.owner = w, !.lease = "live"]

Queue == [j \in Id |-> Reclaimed(jobs[j])]

Claim(s, j) ==
  /\ slot[s].pc = "idle" /\ Queue[j].status = "PENDING"
  /\ jobs' = [Queue EXCEPT ![j] = Claimed(@, WorkerOf[s])]
  /\ \/ /\ slot' = [slot EXCEPT ![s] = [IdleSlot EXCEPT !.pc = "start", !.id = j]]
        /\ UNCHANGED budget
     \/ Spend("faults") /\ UNCHANGED slot   \* the answer is lost
  /\ UNCHANGED <<task, from, retained, op, revived>>

\* StartEngineJob reads job and task ...
ReadStart(s) ==
  LET j == slot[s].id IN
  /\ slot[s].pc = "start"
  /\ IF jobs[j].status = "RUNNING" /\ Owns(s)
     THEN slot' = [slot EXCEPT ![s].pc = "started", ![s].copy = jobs[j],
                               ![s].seen = task]
     ELSE End(s, TRUE)
  /\ UNCHANGED <<task, from, jobs, retained, op, revived, budget>>

\* The row changed since the slot's call read it, and the stored one is active.
Revives(s) ==
  /\ slot[s].copy.status \in {"PENDING", "RUNNING"}
  /\ ~Owns(s) \/ (jobs[slot[s].id].status = "STOP_REQUESTED") # slot[s].asked

\* ... and stores the job.
StoreStart(s) ==
  /\ slot[s].pc = "started"
  /\ jobs' = [jobs EXCEPT ![slot[s].id] = slot[s].copy]
  /\ revived' = (revived \/ Revives(s))
  /\ Move(s, IF slot[s].seen = "CDC_INITIALIZING" THEN "mark" ELSE "run")
  /\ UNCHANGED <<task, from, retained, op, budget>>

ReadMark(s) ==
  /\ slot[s].pc = "mark"
  /\ IF task = "CDC_INITIALIZING" THEN Move(s, "marked") ELSE End(s, TRUE)
  /\ UNCHANGED <<task, from, jobs, retained, op, revived, budget>>

StoreMark(s) ==
  /\ slot[s].pc = "marked"
  /\ task' = "CDC_CATCHING_UP"
  /\ Move(s, "run")
  /\ UNCHANGED <<from, jobs, retained, op, revived, budget>>

\* Without the slot at the source no reader can run.
SourceGone(s) ==
  /\ slot[s].pc = "run" /\ ~retained
  /\ End(s, TRUE)
  /\ UNCHANGED <<task, from, jobs, retained, op, revived, budget>>

Renew(s) ==
  /\ slot[s].pc = "run" /\ jobs[slot[s].id].status = "RUNNING" /\ Owns(s)
  /\ jobs[slot[s].id].lease = "expired"
  /\ jobs' = [jobs EXCEPT ![slot[s].id].lease = "live"]
  /\ UNCHANGED <<task, from, retained, slot, op, revived, budget>>

\* An error of the renewal stops the reader, and that counts as a good end.
RenewRefused(s) ==
  /\ slot[s].pc = "run"
  /\ jobs[slot[s].id].status # "RUNNING" \/ ~Owns(s)
  /\ End(s, FALSE)
  /\ UNCHANGED <<task, from, jobs, retained, op, revived, budget>>

RenewFails(s) ==
  /\ slot[s].pc = "run" /\ Spend("refusals")
  /\ End(s, FALSE)
  /\ UNCHANGED <<task, from, jobs, retained, op, revived>>

\* EngineJobControl
SeeStop(s) ==
  /\ slot[s].pc = "run" /\ jobs[slot[s].id].status = "STOP_REQUESTED" /\ Owns(s)
  /\ End(s, FALSE)
  /\ UNCHANGED <<task, from, jobs, retained, op, revived, budget>>

FailedJob(j) ==
  [status |-> IF j.retries < MaxRetries THEN "PENDING" ELSE "FAILED",
   owner |-> NoWorker, lease |-> "none", retries |-> j.retries + 1]

StoppedJob(j) ==
  [j EXCEPT !.status = "STOPPED", !.owner = NoWorker, !.lease = "none"]

\* CompleteEngineJob and FailEngineJob read the job and the task ...
ReadReport(s) ==
  LET j == jobs[slot[s].id]
      copy == IF slot[s].failed THEN FailedJob(j) ELSE StoppedJob(j)
      fails == copy.status = "FAILED" /\ task \notin {"PAUSED", "CANCELLED"}
  IN
  /\ slot[s].pc = "report"
  /\ slot' = IF Owns(s)
             THEN [slot EXCEPT ![s].pc = IF fails THEN "failing" ELSE "store",
                               ![s].copy = copy,
                               ![s].asked = j.status = "STOP_REQUESTED"]
             ELSE [slot EXCEPT ![s] = IdleSlot]
  /\ UNCHANGED <<task, from, jobs, retained, op, revived, budget>>

\* failTask
FailTask(s) ==
  /\ slot[s].pc = "failing"
  /\ task' = "FAILED"
  /\ Move(s, "store")
  /\ UNCHANGED <<from, jobs, retained, op, revived, budget>>

\* ... and store the job.
StoreReport(s) ==
  /\ slot[s].pc = "store"
  /\ jobs' = [jobs EXCEPT ![slot[s].id] = slot[s].copy]
  /\ revived' = (revived \/ Revives(s))
  /\ slot' = IF ~slot[s].failed /\ slot[s].asked
             THEN [slot EXCEPT ![s].pc = "drop"]
             ELSE [slot EXCEPT ![s] = IdleSlot]
  /\ UNCHANGED <<task, from, retained, op, budget>>

\* cleanupCDCCheckpoint: the source keeps a slot that is being read.
DropSlot(s) ==
  /\ slot[s].pc = "drop"
  /\ retained' = (retained /\ \E t \in Slots : slot[t].pc = "run")
  /\ slot' = [slot EXCEPT ![s] = IdleSlot]
  /\ UNCHANGED <<task, from, jobs, op, revived, budget>>

-----------------------------------------------------------------------------
(***************************************************************************)
(* What goes wrong.                                                        *)
(***************************************************************************)
ReaderDies(s) ==
  /\ slot[s].pc = "run" /\ Spend("faults")
  /\ End(s, TRUE)
  /\ UNCHANGED <<task, from, jobs, retained, op, revived>>

\* A request fails: a start that fails is a failure of the job, a report is
\* not sent again.
RequestFails(s) ==
  /\ Spend("faults")
  /\ \/ slot[s].pc \in {"start", "started", "mark", "marked"} /\ End(s, TRUE)
     \/ /\ slot[s].pc \in {"report", "failing", "store", "drop"}
        /\ slot' = [slot EXCEPT ![s] = IdleSlot]
  /\ UNCHANGED <<task, from, jobs, retained, op, revived>>

WorkerStops(w) ==
  /\ Spend("faults")
  /\ slot' = [s \in Slots |-> IF WorkerOf[s] = w THEN IdleSlot ELSE slot[s]]
  /\ UNCHANGED <<task, from, jobs, retained, op, revived>>

\* Nobody renews the lease of job j.
Abandoned(j) ==
  \A s \in Slots : WorkerOf[s] = jobs[j].owner =>
                     slot[s].pc = "idle" \/ slot[s].id # j

Expire(j) ==
  /\ jobs[j].status = "RUNNING" /\ jobs[j].lease = "live"
  /\ IF Abandoned(j) THEN UNCHANGED budget ELSE Spend("faults")
  /\ jobs' = [jobs EXCEPT ![j].lease = "expired"]
  /\ UNCHANGED <<task, from, retained, slot, op, revived>>

-----------------------------------------------------------------------------
(***************************************************************************)
(* The operator's commands: read the task, store it, and then stop the     *)
(* jobs or make sure that there is one.                                    *)
(***************************************************************************)
\* Mutant: the status of the task is not looked at.
AllowedAnytime(kind) == TRUE

Allowed(kind) ==
  CASE kind = "Pause" -> task \in Running
    [] kind = "Start" -> task = "PAUSED" /\ \E j \in Id : jobs[j].status = "none"
    [] kind = "Ready" -> task = "CDC_CATCHING_UP"
    [] kind = "Cutover" -> task = "READY_FOR_CUTOVER"
    [] kind = "Cancel" -> task # "CANCELLED"

Issue(kind) ==
  /\ op.kind = "none" /\ Allowed(kind) /\ Spend("commands")
  /\ op' = [IdleOp EXCEPT !.kind = kind, !.seen = task,
                          !.pc = IF kind = "Cutover" THEN "list" ELSE "store"]
  /\ UNCHANGED <<task, from, jobs, retained, slot, revived>>

StoreTask ==
  /\ op.pc = "store"
  /\ task' = CASE op.kind = "Pause" -> "PAUSED"
               [] op.kind = "Start" -> from
               [] op.kind = "Ready" -> "READY_FOR_CUTOVER"
               [] op.kind = "Cutover" -> "CUTOVER_RUNNING"
               [] op.kind = "Cancel" -> "CANCELLED"
  /\ from' = IF op.kind = "Pause" THEN op.seen ELSE from
  /\ op' = CASE op.kind = "Pause" -> [op EXCEPT !.pc = "list"]
             [] op.kind = "Start" -> [op EXCEPT !.pc = "ensure"]
             [] OTHER -> IdleOp
  /\ UNCHANGED <<jobs, retained, slot, revived, budget>>

\* requestStopEngineJobs reads the jobs ...
ListJobs ==
  /\ op.pc = "list"
  /\ op' = [op EXCEPT !.pc = "stop", !.view = jobs,
              !.todo = {j \in Id : jobs[j].status \in {"PENDING", "RUNNING"}}]
  /\ UNCHANGED <<task, from, jobs, retained, slot, revived, budget>>

AskedToStop(j) ==
  [j EXCEPT !.status = IF @ = "RUNNING" THEN "STOP_REQUESTED" ELSE "STOPPED"]

\* ... and stores them one by one.
StopJob(j) ==
  /\ op.pc = "stop" /\ j \in op.todo
  /\ jobs' = [jobs EXCEPT ![j] = AskedToStop(op.view[j])]
  /\ op' = [op EXCEPT !.todo = @ \ {j}]
  /\ UNCHANGED <<task, from, retained, slot, revived, budget>>

AllAsked ==
  /\ op.pc = "stop" /\ op.todo = {}
  /\ op' = IF op.kind = "Cutover" THEN [IdleOp EXCEPT !.kind = "Cutover", !.pc = "wait"]
           ELSE IdleOp
  /\ UNCHANGED <<task, from, jobs, retained, slot, revived, budget>>

\* Mutant: a job that was asked to stop counts as stopped.
QuietStatusEarly == {"none", "STOPPED", "STOP_REQUESTED"}

\* Jobs that the wait of cutover is content with.
QuietStatus == {"none", "STOPPED"}

\* waitEngineJobsStopped, then the final drain of the spool.
AllStopped ==
  /\ op.pc = "wait" /\ \A j \in Id : jobs[j].status \in QuietStatus
  /\ op' = [op EXCEPT !.pc = "store"]
  /\ UNCHANGED <<task, from, jobs, retained, slot, revived, budget>>

\* The wait runs into its deadline or meets a failed job.
WaitFails ==
  /\ op.pc = "wait"
  /\ op' = IdleOp
  /\ UNCHANGED <<task, from, jobs, retained, slot, revived, budget>>

\* ensureManagedCDCJob
EnsureJob ==
  /\ op.pc = "ensure"
  /\ op' = IF \E j \in Id : jobs[j].status \in ActiveStatus
           THEN IdleOp ELSE [op EXCEPT !.pc = "create"]
  /\ UNCHANGED <<task, from, jobs, retained, slot, revived, budget>>

CreateJob ==
  LET free == {j \in Id : jobs[j].status = "none"} IN
  /\ op.pc = "create"
  /\ jobs' = [j \in Id |-> IF j \in free /\ \A k \in free : j <= k
                           THEN NewJob ELSE jobs[j]]
  /\ op' = IdleOp
  /\ UNCHANGED <<task, from, retained, slot, revived, budget>>

\* A write of the command fails, or its server dies.
CommandFails ==
  /\ op.kind # "none" /\ Spend("faults")
  /\ op' = IdleOp
  /\ UNCHANGED <<task, from, jobs, retained, slot, revived>>

-----------------------------------------------------------------------------
Work(s) ==
  \/ \E j \in Id : Claim(s, j)
  \/ ReadStart(s) \/ StoreStart(s) \/ ReadMark(s) \/ StoreMark(s)
  \/ SourceGone(s) \/ Renew(s) \/ RenewRefused(s) \/ SeeStop(s)
  \/ ReadReport(s) \/ FailTask(s) \/ StoreReport(s) \/ DropSlot(s)

Operator == \E kind \in {"Pause", "Start", "Ready", "Cutover", "Cancel"} : Issue(kind)

Execute ==
  \/ StoreTask \/ ListJobs \/ AllAsked \/ AllStopped \/ WaitFails
  \/ EnsureJob \/ CreateJob
  \/ \E j \in Id : StopJob(j)

Next ==
  \/ \E s \in Slots : \/ Work(s) \/ RenewFails(s) \/ ReaderDies(s)
                      \/ RequestFails(s)
  \/ \E w \in Workers : WorkerStops(w)
  \/ \E j \in Id : Expire(j)
  \/ Operator \/ Execute \/ CommandFails

Spec == Init /\ [][Next]_vars

\* A slot and a handler run on, and the lease of an abandoned job runs out.
Fairness ==
  /\ \A s \in Slots : WF_vars(Work(s))
  /\ \A j \in Id : WF_vars(Abandoned(j) /\ Expire(j))
  /\ WF_vars(Execute)

FairSpec == Spec /\ Fairness

-----------------------------------------------------------------------------
(***************************************************************************)
(* Properties.                                                             *)
(***************************************************************************)
ReaderAlive(s) == slot[s].pc \in {"start", "started", "mark", "marked", "run"}

\* The server takes the requests of the slot's reader.
Accepted(s) ==
  /\ ReaderAlive(s) /\ Owns(s)
  /\ jobs[slot[s].id].status \in {"RUNNING", "STOP_REQUESTED"}

\* At most one reader is accepted by ApplyEngineJobCDCEvents: not a late one
\* whose lease ran out, nor one that a Resume left behind.
OneReader ==
  ~revived => \A s, t \in Slots : Accepted(s) /\ Accepted(t) => s = t

\* As long as no operator interferes and no renewal ends in an error, a reader
\* runs again after every failure, or the task fails: leases expire and jobs go
\* back to the queue (ClaimEngineJob, FailEngineJob).
Undisturbed == budget.commands = MaxCommands /\ budget.refusals = MaxRefusals

ReaderComesBack ==
  (task \in Running /\ Undisturbed) ~>
    (~Undisturbed \/ task = "FAILED" \/ \E s \in Slots : slot[s].pc = "run" /\ Accepted(s))

\* No reader is accepted once cutover has begun (waitEngineJobsStopped).
QuietAtCutover == ~revived /\ task = "CUTOVER_RUNNING" => \A s \in Slots : ~Accepted(s)

\* A task that is paused or runs can still read its source where it stopped.
SourceRetained == task \in Running \cup {"PAUSED"} => retained

\* A paused task stops its reader (Pause).
PauseStops ==
  (task = "PAUSED" /\ op.kind = "none") ~>
    (task # "PAUSED" \/ op.kind # "none" \/ \A s \in Slots : ~ReaderAlive(s))
=============================================================================
