-------------------------- MODULE EngineJobs_proofs --------------------------
(***************************************************************************)
(* Proofs about EngineJobs for every set of workers and slots, and every   *)
(* bound of jobs, faults and commands: unless a worker's late call puts an *)
(* old row over a newer one, at most one job is active at any time, and    *)
(* none is once cutover has begun.                                         *)
(*                                                                         *)
(* The leases are not used: a reader is accepted by the owner written in   *)
(* its job, and a job has one owner.                                       *)
(***************************************************************************)
EXTENDS EngineJobs, TLAPS

Active(j) == jobs[j].status \in ActiveStatus

\* Only a job that was claimed has an owner: Clean holds of a row.
Clean(job) == job.status \notin {"RUNNING", "STOP_REQUESTED"} => job.owner = NoWorker

RowsClean ==
  /\ \A j \in Id : Clean(jobs[j])
  /\ \A s \in Slots : Clean(slot[s].copy) /\ slot[s].copy.status # "STOP_REQUESTED"
  /\ \A j \in Id : Clean(op.view[j])

\* The phases belong to the commands, and a command other than Cancel is
\* issued before cutover.
CommandFine ==
  /\ op.pc = "idle" <=> op.kind = "none"
  /\ op.pc \in {"list", "stop"} => op.kind \in {"Pause", "Cutover"}
  /\ op.pc = "wait" => op.kind = "Cutover"
  /\ op.pc \in {"ensure", "create"} => op.kind = "Start"
  /\ op.pc = "stop" => \A j \in op.todo : op.view[j].status \in {"PENDING", "RUNNING"}
  /\ op.kind = "Pause" => op.seen \in Running
  /\ op.kind \notin {"none", "Cancel"} => task # "CUTOVER_RUNNING"

\* Jobs that are active or become it when the listed ones are stopped.
Engaged == {j \in Id : Active(j) \/ (op.pc = "stop" /\ j \in op.todo)}

\* Points at which no job is active.
Quiet ==
  \/ op.pc = "create"
  \/ op.pc = "store" /\ op.kind = "Cutover"
  \/ task = "CUTOVER_RUNNING"

OneEngaged ==
  ~revived => /\ \A j, k \in Engaged : j = k
              /\ Quiet => Engaged = {}

IInv == TypeOK /\ RowsClean /\ CommandFine /\ OneEngaged
-----------------------------------------------------------------------------
(***************************************************************************)
(* Types.                                                                  *)
(***************************************************************************)
LEMMA JobTypes ==
  /\ NoJob \in Job /\ NewJob \in Job
  /\ \A j \in Job : /\ Reclaimed(j) \in Job /\ FailedJob(j) \in Job
                   /\ StoppedJob(j) \in Job /\ AskedToStop(j) \in Job
  /\ \A j \in Job, w \in Workers : Claimed(j, w) \in Job
<1>1. NoJob \in Job /\ NewJob \in Job
  BY DEF Job, NoJob, NewJob
<1>2. ASSUME NEW j \in Job
      PROVE  /\ Reclaimed(j) \in Job /\ FailedJob(j) \in Job
             /\ StoppedJob(j) \in Job /\ AskedToStop(j) \in Job
  <2>1. j.retries + 1 \in Nat
    BY DEF Job
  <2>2. [NewJob EXCEPT !.retries = j.retries + 1] \in Job
    BY <1>1, <2>1 DEF Job
  <2>3. Reclaimed(j) \in Job
    BY <2>2 DEF Reclaimed
  <2>4. FailedJob(j) \in Job
    BY <2>1 DEF FailedJob, Job
  <2>5. StoppedJob(j) \in Job /\ AskedToStop(j) \in Job
    BY DEF StoppedJob, AskedToStop, Job
  <2> QED BY <2>3, <2>4, <2>5
<1>3. \A j \in Job, w \in Workers : Claimed(j, w) \in Job
  BY DEF Claimed, Job
<1> QED BY <1>1, <1>2, <1>3

LEMMA IdleTypes == IdleSlot \in SlotState /\ IdleOp \in Command
BY JobTypes, ConstantsOK
   DEF IdleSlot, IdleOp, SlotState, Command, Id, Status, Running

LEMMA SpendType ==
  ASSUME TypeOK, NEW what \in {"faults", "refusals", "commands"}, Spend(what)
  PROVE  budget' \in [faults : 0..MaxFaults, refusals : 0..MaxRefusals,
                      commands : 0..MaxCommands]
BY ConstantsOK DEF TypeOK, Spend

\* A slot that moves on stays a slot.
LEMMA SlotTypes ==
  ASSUME NEW c \in SlotState,
         NEW pc \in {"idle", "start", "started", "mark", "marked", "run",
                     "report", "failing", "store", "drop"},
         NEW failed \in BOOLEAN, NEW asked \in BOOLEAN, NEW copy \in Job,
         NEW seen \in Status
  PROVE  /\ [c EXCEPT !.pc = pc] \in SlotState
         /\ [c EXCEPT !.pc = pc, !.failed = failed] \in SlotState
         /\ [c EXCEPT !.pc = pc, !.copy = copy, !.seen = seen] \in SlotState
         /\ [c EXCEPT !.pc = pc, !.copy = copy, !.asked = asked] \in SlotState
BY DEF SlotState

LEMMA CommandTypes ==
  ASSUME NEW c \in Command,
         NEW pc \in {"idle", "store", "list", "stop", "wait", "ensure", "create"},
         NEW kind \in {"none", "Pause", "Start", "Ready", "Cutover", "Cancel"},
         NEW seen \in Status, NEW view \in [Id -> Job], NEW todo \in SUBSET Id
  PROVE  /\ [c EXCEPT !.pc = pc] \in Command
         /\ [c EXCEPT !.todo = todo] \in Command
         /\ [c EXCEPT !.kind = kind, !.pc = pc] \in Command
         /\ [c EXCEPT !.kind = kind, !.seen = seen, !.pc = pc] \in Command
         /\ [c EXCEPT !.pc = pc, !.view = view, !.todo = todo] \in Command
BY DEF Command

-----------------------------------------------------------------------------
(***************************************************************************)
(* The steps of workers, and what goes wrong.  None of them makes a job    *)
(* active, except a late store.                                            *)
(***************************************************************************)
Budget == [faults : 0..MaxFaults, refusals : 0..MaxRefusals, commands : 0..MaxCommands]

\* What a slot may hold.
SlotFine(c) ==
  c \in SlotState /\ Clean(c.copy) /\ c.copy.status # "STOP_REQUESTED"

LEMMA WorkerStep ==
  ASSUME IInv, UNCHANGED <<from, op>>,
         task' = task \/ task' \in Status \ {"CUTOVER_RUNNING"},
         jobs' \in [Id -> Job], \A j \in Id : Clean(jobs'[j]),
         slot' \in [Slots -> SlotState], \A s \in Slots : SlotFine(slot'[s]),
         retained' \in BOOLEAN, revived' \in BOOLEAN, budget' \in Budget,
         ~revived' => ~revived /\ \A j \in Id : Active(j)' => Active(j)
  PROVE  IInv'
<1>1. TypeOK'
  BY DEF IInv, TypeOK, Budget
<1>2. RowsClean'
  BY DEF IInv, RowsClean, SlotFine
<1>3. CommandFine'
  BY DEF IInv, CommandFine
<1>4. OneEngaged'
  <2> SUFFICES ASSUME ~revived'
               PROVE  /\ Engaged' \subseteq Engaged
                      /\ Quiet' => Quiet
    BY DEF IInv, OneEngaged
  <2>1. Engaged' \subseteq Engaged
    BY DEF Engaged
  <2>2. Quiet' => Quiet
    BY DEF Quiet
  <2> QED BY <2>1, <2>2
<1> QED BY <1>1, <1>2, <1>3, <1>4 DEF IInv

\* A slot moves and no job is touched.
LEMMA SlotStep ==
  ASSUME IInv, NEW s \in Slots, NEW c, SlotFine(c), slot' = [slot EXCEPT ![s] = c],
         UNCHANGED <<from, jobs, op, revived>>,
         task' = task \/ task' \in Status \ {"CUTOVER_RUNNING"},
         retained' \in BOOLEAN, budget' \in Budget
  PROVE  IInv'
<1>1. slot' \in [Slots -> SlotState] /\ \A t \in Slots : SlotFine(slot'[t])
  BY DEF IInv, TypeOK, RowsClean, SlotFine
<1>2. jobs' \in [Id -> Job] /\ \A j \in Id : Clean(jobs'[j])
  BY DEF IInv, TypeOK, RowsClean
<1>3. \A j \in Id : Active(j)' => Active(j)
  BY DEF Active
<1>4. revived' \in BOOLEAN
  BY DEF IInv, TypeOK
<1> QED BY <1>1, <1>2, <1>3, <1>4, WorkerStep

LEMMA SlotsFine == IInv => \A s \in Slots : SlotFine(slot[s])
BY DEF IInv, TypeOK, RowsClean, SlotFine

LEMMA IdleFine == SlotFine(IdleSlot) /\ \A j \in Id : SlotFine([IdleSlot EXCEPT !.pc = "start", !.id = j])
<1>1. Clean(NoJob) /\ NoJob.status # "STOP_REQUESTED" /\ IdleSlot.copy = NoJob
  BY DEF NoJob, Clean, IdleSlot
<1>2. ASSUME NEW j \in Id
      PROVE  LET c == [IdleSlot EXCEPT !.pc = "start", !.id = j]
             IN  c \in SlotState /\ c.copy = NoJob
  BY IdleTypes, <1>1 DEF SlotState
<1> QED BY <1>1, <1>2, IdleTypes DEF SlotFine

\* The reader process ends, or the slot goes on to another phase.
LEMMA MoveFine ==
  ASSUME NEW c, SlotFine(c),
         NEW pc \in {"idle", "start", "started", "mark", "marked", "run",
                     "report", "failing", "store", "drop"},
         NEW failed \in BOOLEAN
  PROVE  /\ SlotFine([c EXCEPT !.pc = pc])
         /\ SlotFine([c EXCEPT !.pc = pc, !.failed = failed])
BY DEF SlotFine, SlotState

LEMMA EndStep ==
  ASSUME IInv, NEW s \in Slots, NEW failed \in BOOLEAN, End(s, failed),
         UNCHANGED <<task, from, jobs, retained, op, revived>>, budget' \in Budget
  PROVE  IInv'
<1>1. slot' = [slot EXCEPT ![s] = [slot[s] EXCEPT !.pc = "report", !.failed = failed]]
  BY DEF End, IInv, TypeOK
<1>2. SlotFine([slot[s] EXCEPT !.pc = "report", !.failed = failed])
  BY SlotsFine, MoveFine
<1> QED BY <1>1, <1>2, SlotStep DEF IInv, TypeOK

LEMMA MoveStep ==
  ASSUME IInv, NEW s \in Slots,
         NEW pc \in {"idle", "start", "started", "mark", "marked", "run",
                     "report", "failing", "store", "drop"},
         Move(s, pc), UNCHANGED <<from, jobs, retained, op, revived, budget>>,
         task' = task \/ task' \in Status \ {"CUTOVER_RUNNING"}
  PROVE  IInv'
<1>1. slot' = [slot EXCEPT ![s] = [slot[s] EXCEPT !.pc = pc]]
  BY DEF Move, IInv, TypeOK
<1>2. SlotFine([slot[s] EXCEPT !.pc = pc])
  BY SlotsFine, MoveFine
<1> QED BY <1>1, <1>2, SlotStep DEF IInv, TypeOK, Budget

LEMMA IdleStep ==
  ASSUME IInv, NEW s \in Slots, slot' = [slot EXCEPT ![s] = IdleSlot],
         UNCHANGED <<task, from, jobs, op, revived>>, retained' \in BOOLEAN, budget' \in Budget
  PROVE  IInv'
BY IdleFine, SlotStep

LEMMA RowOf ==
  ASSUME IInv, NEW s \in Slots
  PROVE  /\ slot[s].id \in Id /\ jobs[slot[s].id] \in Job
         /\ Owns(s) => jobs[slot[s].id].status \in {"RUNNING", "STOP_REQUESTED"}
<1>1. slot[s].id \in Id /\ jobs[slot[s].id] \in Job /\ WorkerOf[s] # NoWorker
  BY ConstantsOK DEF IInv, TypeOK, SlotState
<1>2. Clean(jobs[slot[s].id])
  BY <1>1 DEF IInv, RowsClean
<1> QED BY <1>1, <1>2 DEF Owns, Clean

\* Reclaimed and claimed jobs are as active as before.
LEMMA QueueFine ==
  ASSUME IInv, NEW j \in Id
  PROVE  /\ Queue[j] \in Job /\ Clean(Queue[j])
         /\ Queue[j].status \in ActiveStatus => Active(j)
         /\ \A w \in Workers : /\ Claimed(Queue[j], w) \in Job
                              /\ Clean(Claimed(Queue[j], w))
<1>1. jobs[j] \in Job /\ Clean(jobs[j]) /\ Queue[j] = Reclaimed(jobs[j])
  BY DEF IInv, TypeOK, RowsClean, Queue
<1>2. Queue[j] \in Job
  BY <1>1, JobTypes
<1>3. NewJob \in Job /\ Clean(NewJob) /\ NewJob.status = "PENDING"
  BY DEF NewJob, NoJob, Job, Clean
<1>4. LET r == [NewJob EXCEPT !.retries = jobs[j].retries + 1]
      IN  r.status = "PENDING" /\ r.owner = NoWorker
  BY DEF NewJob, NoJob
<1>5. Clean(Queue[j]) /\ (Queue[j].status \in ActiveStatus => Active(j))
  BY <1>1, <1>4 DEF Reclaimed, Active, ActiveStatus, Clean
<1>6. \A w \in Workers : Claimed(Queue[j], w) \in Job /\ Clean(Claimed(Queue[j], w))
  BY <1>2, JobTypes DEF Claimed, Clean, Job
<1> QED BY <1>2, <1>5, <1>6

LEMMA ClaimStep == ASSUME IInv, NEW s \in Slots, NEW j \in Id, Claim(s, j) PROVE IInv'
<1> DEFINE w == WorkerOf[s]
<1>1. w \in Workers
  BY ConstantsOK
<1>2. jobs' = [Queue EXCEPT ![j] = Claimed(Queue[j], w)] /\ Queue[j].status = "PENDING"
      /\ UNCHANGED <<task, from, retained, op, revived>>
  BY DEF Claim
<1>3. jobs' \in [Id -> Job] /\ \A k \in Id : Clean(jobs'[k])
  BY <1>1, <1>2, QueueFine DEF Queue
<1>4. ASSUME NEW k \in Id, Active(k)'
      PROVE  Active(k)
  <2>1. CASE k = j
    BY <1>2, <2>1, QueueFine DEF ActiveStatus
  <2>2. CASE k # j
    <3>1. jobs'[k] = Queue[k]
      BY <1>2, <2>2 DEF Queue
    <3> QED BY <1>4, <3>1, QueueFine DEF Active
  <2> QED BY <2>1, <2>2
<1>5. CASE /\ slot' = [slot EXCEPT ![s] = [IdleSlot EXCEPT !.pc = "start", !.id = j]]
           /\ UNCHANGED budget
  <2>1. slot' \in [Slots -> SlotState] /\ \A t \in Slots : SlotFine(slot'[t])
    BY <1>5, SlotsFine, IdleFine DEF IInv, TypeOK, SlotFine
  <2> QED BY <1>2, <1>3, <1>4, <1>5, <2>1, WorkerStep DEF IInv, TypeOK, Budget
<1>6. CASE Spend("faults") /\ UNCHANGED slot
  <2>1. slot' \in [Slots -> SlotState] /\ \A t \in Slots : SlotFine(slot'[t])
    BY <1>6, SlotsFine DEF IInv, TypeOK, SlotFine
  <2>2. budget' \in Budget
    BY <1>6, SpendType DEF IInv, Budget
  <2> QED BY <1>2, <1>3, <1>4, <2>1, <2>2, WorkerStep DEF IInv, TypeOK
<1> QED BY <1>5, <1>6 DEF Claim

\* A slot stores the copy it holds: unless the call is late, the job was active.
LEMMA StoreStep ==
  ASSUME IInv, NEW s \in Slots, NEW c, SlotFine(c), slot' = [slot EXCEPT ![s] = c],
         jobs' = [jobs EXCEPT ![slot[s].id] = slot[s].copy],
         revived' = (revived \/ Revives(s)),
         UNCHANGED <<task, from, retained, op, budget>>
  PROVE  IInv'
<1> DEFINE j == slot[s].id
<1>1. SlotFine(slot[s]) /\ slot[s].copy \in Job
  BY SlotsFine DEF SlotFine, SlotState
<1>2. jobs' \in [Id -> Job] /\ \A k \in Id : Clean(jobs'[k])
  BY <1>1, RowOf DEF IInv, TypeOK, RowsClean, SlotFine
<1>3. slot' \in [Slots -> SlotState] /\ \A t \in Slots : SlotFine(slot'[t])
  BY SlotsFine DEF IInv, TypeOK, SlotFine
<1>4. revived' \in BOOLEAN
  BY DEF IInv, TypeOK, Revives
<1>5. ASSUME ~revived', NEW k \in Id, Active(k)'
      PROVE  Active(k)
  <2>1. CASE k = j
    <3>1. slot[s].copy.status \in {"PENDING", "RUNNING"}
      BY <1>1, <1>5, <2>1, RowOf DEF IInv, TypeOK, Active, ActiveStatus, SlotFine
    <3>2. Owns(s)
      BY <1>5, <3>1 DEF Revives
    <3> QED BY <2>1, <3>2, RowOf DEF Active, ActiveStatus
  <2>2. CASE k # j
    BY <1>5, <2>2 DEF IInv, TypeOK, Active
  <2> QED BY <2>1, <2>2
<1> QED BY <1>2, <1>3, <1>4, <1>5, WorkerStep DEF IInv, TypeOK, Budget

LEMMA StoreStartStep == ASSUME IInv, NEW s \in Slots, StoreStart(s) PROVE IInv'
<1> DEFINE pc == IF slot[s].seen = "CDC_INITIALIZING" THEN "mark" ELSE "run"
           c == [slot[s] EXCEPT !.pc = pc]
<1>1. slot' = [slot EXCEPT ![s] = c]
  BY DEF StoreStart, Move, IInv, TypeOK
<1>2. SlotFine(c)
  BY SlotsFine, MoveFine
<1> QED BY <1>1, <1>2, StoreStep DEF StoreStart

LEMMA StoreReportStep == ASSUME IInv, NEW s \in Slots, StoreReport(s) PROVE IInv'
<1>1. CASE ~slot[s].failed /\ slot[s].asked
  <2> DEFINE c == [slot[s] EXCEPT !.pc = "drop"]
  <2>1. slot' = [slot EXCEPT ![s] = c]
    BY <1>1 DEF StoreReport, IInv, TypeOK
  <2>2. SlotFine(c)
    BY SlotsFine, MoveFine
  <2> QED BY <2>1, <2>2, StoreStep DEF StoreReport
<1>2. CASE ~(~slot[s].failed /\ slot[s].asked)
  BY <1>2, IdleFine, StoreStep DEF StoreReport
<1> QED BY <1>1, <1>2

\* The lease of a job is renewed or runs out.
LEMMA LeaseStep ==
  ASSUME IInv, NEW j \in Id, NEW lease \in {"live", "expired"},
         jobs' = [jobs EXCEPT ![j].lease = lease],
         UNCHANGED <<task, from, retained, slot, op, revived>>, budget' \in Budget
  PROVE  IInv'
<1>1. jobs[j] \in Job /\ Clean(jobs[j])
  BY DEF IInv, TypeOK, RowsClean
<1>2. LET r == [jobs[j] EXCEPT !.lease = lease]
      IN  r \in Job /\ Clean(r) /\ r.status = jobs[j].status
  BY <1>1 DEF Job, Clean
<1>3. jobs' = [jobs EXCEPT ![j] = [jobs[j] EXCEPT !.lease = lease]]
  BY DEF IInv, TypeOK
<1>4. jobs' \in [Id -> Job] /\ \A k \in Id : Clean(jobs'[k])
  BY <1>2, <1>3 DEF IInv, TypeOK, RowsClean
<1>5. \A k \in Id : Active(k)' => Active(k)
  BY <1>2, <1>3 DEF IInv, TypeOK, Active
<1>6. slot' \in [Slots -> SlotState] /\ \A t \in Slots : SlotFine(slot'[t])
  BY SlotsFine DEF IInv, TypeOK, SlotFine
<1> QED BY <1>4, <1>5, <1>6, WorkerStep DEF IInv, TypeOK

LEMMA ReadStartStep == ASSUME IInv, NEW s \in Slots, ReadStart(s) PROVE IInv'
<1> DEFINE job == jobs[slot[s].id]
<1>1. CASE job.status = "RUNNING" /\ Owns(s)
  <2> DEFINE c == [slot[s] EXCEPT !.pc = "started", !.copy = job, !.seen = task]
  <2>1. slot' = [slot EXCEPT ![s] = c]
    BY <1>1 DEF ReadStart, IInv, TypeOK
  <2>2. SlotFine(slot[s]) /\ job \in Job /\ Clean(job) /\ task \in Status
    BY SlotsFine, RowOf DEF IInv, TypeOK, RowsClean
  <2>3. SlotFine(c)
    BY <1>1, <2>2 DEF SlotFine, SlotState
  <2> QED BY <2>1, <2>3, SlotStep DEF ReadStart, IInv, TypeOK, Budget
<1>2. CASE ~(job.status = "RUNNING" /\ Owns(s))
  BY <1>2, EndStep DEF ReadStart, IInv, TypeOK, Budget
<1> QED BY <1>1, <1>2

\* A report leaves the job without an owner and not asked to stop.
LEMMA ReportFine ==
  ASSUME NEW job \in Job
  PROVE  /\ LET f == FailedJob(job)
            IN  f \in Job /\ Clean(f) /\ f.status # "STOP_REQUESTED"
         /\ LET d == StoppedJob(job)
            IN  d \in Job /\ Clean(d) /\ d.status # "STOP_REQUESTED"
<1>1. FailedJob(job) \in Job /\ StoppedJob(job) \in Job
  BY JobTypes
<1>2. FailedJob(job).owner = NoWorker /\ FailedJob(job).status # "STOP_REQUESTED"
  BY DEF FailedJob
<1>3. StoppedJob(job).owner = NoWorker /\ StoppedJob(job).status # "STOP_REQUESTED"
  BY DEF StoppedJob, Job
<1> QED BY <1>1, <1>2, <1>3 DEF Clean

LEMMA ReadReportStep == ASSUME IInv, NEW s \in Slots, ReadReport(s) PROVE IInv'
<1> DEFINE job == jobs[slot[s].id]
           copy == IF slot[s].failed THEN FailedJob(job) ELSE StoppedJob(job)
           fails == copy.status = "FAILED" /\ task \notin {"PAUSED", "CANCELLED"}
           pc == IF fails THEN "failing" ELSE "store"
           asked == job.status = "STOP_REQUESTED"
           c == [slot[s] EXCEPT !.pc = pc, !.copy = copy, !.asked = asked]
<1>1. copy \in Job /\ Clean(copy) /\ copy.status # "STOP_REQUESTED"
  BY RowOf, ReportFine
<1>2. SlotFine(slot[s]) /\ pc \in {"failing", "store"} /\ asked \in BOOLEAN
  BY SlotsFine
<1> HIDE DEF copy, pc, asked
<1>3. SlotFine(c)
  BY <1>1, <1>2 DEF SlotFine, SlotState
<1>4. CASE Owns(s)
  <2>1. slot' = [slot EXCEPT ![s] = c]
    BY <1>4 DEF ReadReport, IInv, TypeOK, copy, pc, asked
  <2> QED BY <1>3, <2>1, SlotStep DEF ReadReport, IInv, TypeOK, Budget
<1>5. CASE ~Owns(s)
  BY <1>5, IdleStep DEF ReadReport, IInv, TypeOK, Budget
<1> QED BY <1>4, <1>5

LEMMA WorkStep == ASSUME IInv, NEW s \in Slots, Work(s) PROVE IInv'
<1> USE DEF Budget
<1>1. CASE \E j \in Id : Claim(s, j)
  BY <1>1, ClaimStep
<1>2. CASE ReadStart(s) \/ StoreStart(s)
  BY <1>2, ReadStartStep, StoreStartStep
<1>3. CASE ReadMark(s)
  BY <1>3, MoveStep, EndStep DEF ReadMark, IInv, TypeOK
<1>4. CASE StoreMark(s)
  BY <1>4, MoveStep DEF StoreMark, Status, Running
<1>5. CASE SourceGone(s) \/ RenewRefused(s) \/ SeeStop(s)
  BY <1>5, EndStep DEF SourceGone, RenewRefused, SeeStop, IInv, TypeOK
<1>6. CASE Renew(s)
  BY <1>6, LeaseStep, RowOf DEF Renew, IInv, TypeOK
<1>7. CASE ReadReport(s) \/ StoreReport(s)
  BY <1>7, ReadReportStep, StoreReportStep
<1>8. CASE FailTask(s)
  BY <1>8, MoveStep DEF FailTask, Status
<1>9. CASE DropSlot(s)
  BY <1>9, IdleStep DEF DropSlot, IInv, TypeOK
<1> QED BY <1>1, <1>2, <1>3, <1>4, <1>5, <1>6, <1>7, <1>8, <1>9 DEF Work

LEMMA FaultStep ==
  ASSUME IInv, NEW s \in Slots, RenewFails(s) \/ ReaderDies(s) \/ RequestFails(s)
  PROVE  IInv'
<1>1. budget' \in Budget
  BY SpendType DEF RenewFails, ReaderDies, RequestFails, IInv, Budget
<1>2. CASE RenewFails(s) \/ ReaderDies(s)
  BY <1>1, <1>2, EndStep DEF RenewFails, ReaderDies
<1>3. CASE RequestFails(s)
  BY <1>1, <1>3, EndStep, IdleStep DEF RequestFails, IInv, TypeOK
<1> QED BY <1>2, <1>3

LEMMA WorkerStopsStep == ASSUME IInv, NEW w \in Workers, WorkerStops(w) PROVE IInv'
<1>1. slot' \in [Slots -> SlotState] /\ \A s \in Slots : SlotFine(slot'[s])
  BY SlotsFine, IdleFine DEF WorkerStops, IInv, TypeOK, SlotFine
<1>2. jobs' \in [Id -> Job] /\ \A j \in Id : Clean(jobs'[j]) /\ (Active(j)' => Active(j))
  BY DEF WorkerStops, IInv, TypeOK, RowsClean, Active
<1>3. budget' \in Budget
  BY SpendType DEF WorkerStops, IInv, Budget
<1> QED BY <1>1, <1>2, <1>3, WorkerStep DEF WorkerStops, IInv, TypeOK

LEMMA ExpireStep == ASSUME IInv, NEW j \in Id, Expire(j) PROVE IInv'
<1>1. budget' \in Budget
  BY SpendType DEF Expire, IInv, TypeOK, Budget
<1> QED BY <1>1, LeaseStep DEF Expire

-----------------------------------------------------------------------------
(***************************************************************************)
(* The steps of the operator's commands.                                   *)
(***************************************************************************)
\* What a command does beside its own state leaves workers and types alone.
LEMMA CommandStep ==
  ASSUME IInv, op' \in Command, \A j \in Id : Clean(op'.view[j]),
         task' \in Status, from' \in Running,
         jobs' \in [Id -> Job], \A j \in Id : Clean(jobs'[j]),
         UNCHANGED <<retained, slot, revived>>, budget' \in Budget,
         CommandFine',
         ~revived => /\ \A j, k \in Engaged' : j = k
                     /\ Quiet' => Engaged' = {}
  PROVE  IInv'
<1>1. TypeOK'
  BY DEF IInv, TypeOK, Budget
<1>2. RowsClean'
  BY DEF IInv, RowsClean
<1> QED BY <1>1, <1>2 DEF IInv, OneEngaged

\* The command goes on and no job is touched.
LEMMA PhaseStep ==
  ASSUME IInv, op' \in Command, op'.view = op.view \/ op'.view = [j \in Id |-> NoJob],
         UNCHANGED <<jobs, retained, slot, revived>>,
         task' \in Status, from' \in Running, budget' \in Budget, CommandFine',
         op'.pc = "stop" => op.pc = "stop" /\ op'.todo \subseteq op.todo,
         ~revived /\ Quiet' => Quiet \/ \A j \in Id : ~Active(j),
         Quiet' => op'.pc # "stop"
  PROVE  IInv'
<1>1. \A j \in Id : Clean(op'.view[j]) /\ Clean(jobs'[j])
  BY DEF IInv, RowsClean, NoJob, Clean
<1>2. Engaged' \subseteq Engaged
  BY DEF Engaged, Active
<1>3. ~revived => /\ \A j, k \in Engaged' : j = k
                  /\ Quiet' => Engaged' = {}
  BY <1>2 DEF IInv, OneEngaged, Engaged, Active
<1> QED BY <1>1, <1>3, CommandStep DEF IInv, TypeOK

LEMMA ToIdle ==
  ASSUME IInv, op' = IdleOp, UNCHANGED <<task, from, jobs, retained, slot, revived>>,
         budget' \in Budget
  PROVE  IInv'
<1>1. op' \in Command /\ op'.view = [j \in Id |-> NoJob] /\ op'.kind = "none" /\ op'.pc = "idle"
  BY IdleTypes DEF IdleOp
<1>2. CommandFine' /\ (Quiet' => Quiet)
  BY <1>1 DEF IInv, CommandFine, Quiet
<1> QED BY <1>1, <1>2, PhaseStep DEF IInv, TypeOK

LEMMA IssueStep ==
  ASSUME IInv, NEW kind \in {"Pause", "Start", "Ready", "Cutover", "Cancel"}, Issue(kind)
  PROVE  IInv'
<1> DEFINE pc == IF kind = "Cutover" THEN "list" ELSE "store"
           o == [IdleOp EXCEPT !.kind = kind, !.seen = task, !.pc = pc]
<1>1. op' = o /\ pc \in {"list", "store"} /\ (pc = "list" <=> kind = "Cutover")
  BY DEF Issue
<1>2. o \in Command
  <2>1. IdleOp \in Command /\ task \in Status
    BY IdleTypes DEF IInv, TypeOK
  <2> HIDE DEF pc
  <2> QED BY <1>1, <2>1 DEF Command
<1>3. o.view = [j \in Id |-> NoJob] /\ o.kind = kind /\ o.pc = pc /\ o.seen = task
  BY DEF IdleOp
<1>4. op.kind = "none" /\ Allowed(kind) /\ Spend("commands")
      /\ UNCHANGED <<task, from, jobs, retained, slot, revived>>
  BY DEF Issue
<1>5. /\ kind # "Cancel" => task # "CUTOVER_RUNNING"
      /\ kind = "Pause" => task \in Running
  BY <1>4 DEF Allowed, Running
<1>6. CommandFine'
  BY <1>1, <1>3, <1>4, <1>5 DEF CommandFine
<1>7. (Quiet' => Quiet) /\ op'.pc # "stop"
  BY <1>1, <1>3, <1>4 DEF Quiet
<1>8. budget' \in Budget
  BY <1>4, SpendType DEF IInv, Budget
<1> QED BY <1>1, <1>2, <1>3, <1>4, <1>6, <1>7, <1>8, PhaseStep DEF IInv, TypeOK

LEMMA StoreTaskStep == ASSUME IInv, StoreTask PROVE IInv'
<1>1. op \in Command /\ op.kind # "none" /\ op.pc = "store" /\ task \in Status
      /\ UNCHANGED <<jobs, retained, slot, revived, budget>>
  BY DEF StoreTask, IInv, TypeOK, CommandFine
<1>2. op.kind \in {"Pause", "Start", "Ready", "Cutover", "Cancel"}
  BY <1>1 DEF Command
<1>3. CASE op.kind = "Pause"
  <2>1. op' = [op EXCEPT !.pc = "list"] /\ task' = "PAUSED" /\ from' = op.seen
    BY <1>3 DEF StoreTask
  <2>2. op' \in Command /\ op'.pc = "list" /\ op'.kind = "Pause"
        /\ op'.seen = op.seen /\ op'.view = op.view
    BY <1>1, <1>3, <2>1 DEF Command
  <2>3. CommandFine' /\ ~Quiet' /\ op.seen \in Running
    BY <1>3, <2>1, <2>2 DEF CommandFine, Quiet, IInv
  <2> QED BY <1>1, <2>1, <2>2, <2>3, PhaseStep DEF IInv, TypeOK, Status, Budget
<1>4. CASE op.kind = "Start"
  <2>1. op' = [op EXCEPT !.pc = "ensure"] /\ task' = from /\ from' = from
    BY <1>4 DEF StoreTask
  <2>2. op' \in Command /\ op'.pc = "ensure" /\ op'.kind = "Start" /\ op'.view = op.view
    BY <1>1, <1>4, <2>1 DEF Command
  <2>3. from \in Running /\ task' \in Status /\ task' # "CUTOVER_RUNNING"
    BY <2>1 DEF IInv, TypeOK, Status, Running
  <2>4. CommandFine' /\ ~Quiet'
    BY <2>2, <2>3 DEF CommandFine, Quiet
  <2> QED BY <1>1, <2>1, <2>2, <2>3, <2>4, PhaseStep DEF IInv, TypeOK, Budget
<1>5. CASE op.kind \in {"Ready", "Cutover", "Cancel"}
  <2>1. /\ op' = IdleOp /\ from' = from
        /\ task' \in {"READY_FOR_CUTOVER", "CUTOVER_RUNNING", "CANCELLED"}
        /\ task' = "CUTOVER_RUNNING" => op.kind = "Cutover"
    BY <1>5 DEF StoreTask
  <2>2. op' \in Command /\ op'.pc = "idle" /\ op'.kind = "none"
        /\ op'.view = [j \in Id |-> NoJob]
    BY <2>1, IdleTypes DEF IdleOp
  <2>3. CommandFine' /\ (Quiet' => Quiet)
    BY <1>1, <2>1, <2>2 DEF CommandFine, Quiet
  <2> QED BY <1>1, <2>1, <2>2, <2>3, PhaseStep DEF IInv, TypeOK, Status, Budget
<1> QED BY <1>2, <1>3, <1>4, <1>5

LEMMA ListJobsStep == ASSUME IInv, ListJobs PROVE IInv'
<1> DEFINE listed == {j \in Id : jobs[j].status \in {"PENDING", "RUNNING"}}
           o == [op EXCEPT !.pc = "stop", !.view = jobs, !.todo = listed]
<1>1. op' = o /\ op.pc = "list" /\ UNCHANGED <<task, from, jobs, retained, slot, revived, budget>>
  BY DEF ListJobs
<1>2. o \in Command /\ o.pc = "stop" /\ o.view = jobs /\ o.todo = listed
      /\ o.kind = op.kind /\ o.seen = op.seen
  BY DEF IInv, TypeOK, Command
<1>3. op.kind \in {"Pause", "Cutover"}
  BY <1>1 DEF IInv, CommandFine
<1>4. CommandFine' /\ ~Quiet'
  BY <1>1, <1>2, <1>3 DEF IInv, CommandFine, Quiet
<1>5. Engaged' \subseteq Engaged
  BY <1>1, <1>2 DEF Engaged, Active, ActiveStatus
<1>6. ~revived => \A j, k \in Engaged' : j = k
  BY <1>5 DEF IInv, OneEngaged
<1>7. \A j \in Id : Clean(op'.view[j]) /\ Clean(jobs'[j])
  BY <1>1, <1>2 DEF IInv, RowsClean
<1> QED BY <1>1, <1>2, <1>4, <1>6, <1>7, CommandStep DEF IInv, TypeOK, Budget

\* The job asked to stop is the only one that may be active.
LEMMA StopJobStep == ASSUME IInv, NEW j \in Id, StopJob(j) PROVE IInv'
<1> DEFINE o == [op EXCEPT !.todo = op.todo \ {j}]
           row == AskedToStop(op.view[j])
<1>1. op' = o /\ op.pc = "stop" /\ j \in op.todo /\ jobs' = [jobs EXCEPT ![j] = row]
      /\ UNCHANGED <<task, from, retained, slot, revived, budget>>
  BY DEF StopJob
<1>2. o \in Command /\ o.pc = "stop" /\ o.view = op.view /\ o.todo = op.todo \ {j}
      /\ o.kind = op.kind /\ o.seen = op.seen
  BY <1>1 DEF IInv, TypeOK, Command
<1>3. op.view[j] \in Job /\ Clean(op.view[j]) /\ op.view[j].status \in {"PENDING", "RUNNING"}
  BY <1>1 DEF IInv, TypeOK, RowsClean, CommandFine, Command
<1>4. row \in Job /\ Clean(row)
  BY <1>3, JobTypes DEF AskedToStop, Clean, Job
<1>5. jobs' \in [Id -> Job] /\ \A k \in Id : Clean(op'.view[k]) /\ Clean(jobs'[k])
  BY <1>1, <1>2, <1>4 DEF IInv, TypeOK, RowsClean
<1>6. CommandFine'
  BY <1>1, <1>2 DEF IInv, CommandFine
<1>7. ~Quiet'
  <2>1. op.kind \in {"Pause", "Cutover"} /\ task # "CUTOVER_RUNNING"
    BY <1>1 DEF IInv, CommandFine
  <2> QED BY <1>1, <1>2, <2>1 DEF Quiet
<1>8. Engaged' \subseteq Engaged
  BY <1>1, <1>2 DEF Engaged, Active, IInv, TypeOK
<1>9. ~revived => \A k, l \in Engaged' : k = l
  BY <1>8 DEF IInv, OneEngaged
<1> QED BY <1>1, <1>2, <1>5, <1>6, <1>7, <1>9, CommandStep DEF IInv, TypeOK, Budget

LEMMA AllAskedStep == ASSUME IInv, AllAsked PROVE IInv'
<1> DEFINE o == [IdleOp EXCEPT !.kind = "Cutover", !.pc = "wait"]
<1>1. CASE op.kind = "Cutover"
  <2>1. op' = o /\ op.kind = "Cutover"
        /\ UNCHANGED <<task, from, jobs, retained, slot, revived, budget>>
    BY <1>1 DEF AllAsked
  <2>2. o \in Command
    BY IdleTypes DEF Command
  <2>3. o.kind = "Cutover" /\ o.pc = "wait" /\ o.view = [j \in Id |-> NoJob]
    BY DEF IdleOp
  <2>4. CommandFine' /\ (Quiet' => Quiet)
    BY <2>1, <2>3 DEF IInv, CommandFine, Quiet
  <2> QED BY <2>1, <2>2, <2>3, <2>4, PhaseStep DEF IInv, TypeOK, Budget
<1>2. CASE op.kind # "Cutover"
  BY <1>2, ToIdle DEF AllAsked, IInv, TypeOK, Budget
<1> QED BY <1>1, <1>2

LEMMA AllStoppedStep == ASSUME IInv, AllStopped PROVE IInv'
<1> DEFINE o == [op EXCEPT !.pc = "store"]
<1>1. op' = o /\ op.pc = "wait" /\ UNCHANGED <<task, from, jobs, retained, slot, revived, budget>>
  BY DEF AllStopped
<1>2. o \in Command /\ o.pc = "store" /\ o.kind = op.kind /\ o.seen = op.seen /\ o.view = op.view
  BY DEF IInv, TypeOK, Command
<1>3. \A j \in Id : ~Active(j)
  BY DEF AllStopped, QuietStatus, Active, ActiveStatus
<1>4. CommandFine'
  BY <1>1, <1>2 DEF IInv, CommandFine
<1> QED BY <1>1, <1>2, <1>3, <1>4, PhaseStep DEF IInv, TypeOK, Budget

LEMMA EnsureJobStep == ASSUME IInv, EnsureJob PROVE IInv'
<1>1. CASE \E j \in Id : Active(j)
  BY <1>1, ToIdle DEF EnsureJob, Active, IInv, TypeOK, Budget
<1>2. CASE ~\E j \in Id : Active(j)
  <2> DEFINE o == [op EXCEPT !.pc = "create"]
  <2>1. op' = o /\ op.pc = "ensure"
        /\ UNCHANGED <<task, from, jobs, retained, slot, revived, budget>>
    BY <1>2 DEF EnsureJob, Active
  <2>2. o \in Command /\ o.pc = "create" /\ o.kind = op.kind /\ o.seen = op.seen /\ o.view = op.view
    BY DEF IInv, TypeOK, Command
  <2>3. CommandFine'
    BY <2>1, <2>2 DEF IInv, CommandFine
  <2> QED BY <1>2, <2>1, <2>2, <2>3, PhaseStep DEF IInv, TypeOK, Budget
<1> QED BY <1>1, <1>2

\* No job is active when one is created.
LEMMA CreateJobStep == ASSUME IInv, CreateJob PROVE IInv'
<1> DEFINE free == {j \in Id : jobs[j].status = "none"}
           Least(j) == j \in free /\ \A k \in free : j <= k
<1>1. /\ op.pc = "create" /\ op' = IdleOp
      /\ jobs' = [j \in Id |-> IF Least(j) THEN NewJob ELSE jobs[j]]
      /\ UNCHANGED <<task, from, retained, slot, revived, budget>>
  BY DEF CreateJob
<1>2. \A j, k \in Id : Least(j) /\ Least(k) => j = k
  BY DEF Id
<1>3. NewJob \in Job /\ Clean(NewJob)
  BY DEF NewJob, NoJob, Job, Clean
<1>4. \A j \in Id : jobs[j] \in Job /\ Clean(jobs[j])
  BY DEF IInv, TypeOK, RowsClean
<1> HIDE DEF Least
<1>5. jobs' \in [Id -> Job] /\ \A j \in Id : Clean(jobs'[j])
  BY <1>1, <1>3, <1>4
<1>6. op' \in Command /\ op'.kind = "none" /\ op'.pc = "idle" /\ op'.view = [j \in Id |-> NoJob]
  BY <1>1, IdleTypes DEF IdleOp
<1>7. \A j \in Id : Clean(op'.view[j])
  BY <1>6 DEF NoJob, Clean
<1>8. op.kind = "Start" /\ task # "CUTOVER_RUNNING"
  BY <1>1 DEF IInv, CommandFine
<1>9. CommandFine' /\ ~Quiet'
  BY <1>1, <1>6, <1>8 DEF CommandFine, Quiet
<1>10. ASSUME ~revived, NEW j \in Engaged', NEW k \in Engaged'
       PROVE  j = k
  <2>1. \A l \in Id : ~Active(l)
    BY <1>1, <1>10 DEF IInv, OneEngaged, Quiet, Engaged
  <2>2. \A l \in Engaged' : l \in Id /\ Active(l)'
    BY <1>6 DEF Engaged
  <2>3. \A l \in Id : Active(l)' => Least(l)
    BY <1>1, <2>1 DEF Active
  <2> QED BY <1>2, <1>10, <2>2, <2>3
<1> QED BY <1>1, <1>5, <1>6, <1>7, <1>9, <1>10, CommandStep DEF IInv, TypeOK, Budget

LEMMA ExecuteStep == ASSUME IInv, Execute PROVE IInv'
<1>1. ASSUME WaitFails PROVE IInv'
  BY <1>1, ToIdle DEF WaitFails, IInv, TypeOK, Budget
<1> QED BY <1>1, StoreTaskStep, ListJobsStep, AllAskedStep, AllStoppedStep,
           EnsureJobStep, CreateJobStep, StopJobStep DEF Execute

LEMMA CommandFailsStep == ASSUME IInv, CommandFails PROVE IInv'
<1>1. budget' \in Budget
  BY SpendType DEF CommandFails, IInv, Budget
<1> QED BY <1>1, ToIdle DEF CommandFails

-----------------------------------------------------------------------------
LEMMA InitInv == Init => IInv
<1> SUFFICES ASSUME Init PROVE IInv
  OBVIOUS
<1> USE DEF Init
<1>1. NoJob \in Job /\ NewJob \in Job /\ NewJob.status = "PENDING"
      /\ Clean(NoJob) /\ Clean(NewJob) /\ NoJob.status = "none"
  BY JobTypes DEF NewJob, NoJob, Clean
<1>2. IdleSlot.copy = NoJob /\ IdleOp.view = [j \in Id |-> NoJob]
      /\ IdleOp.kind = "none" /\ IdleOp.pc = "idle"
  BY DEF IdleSlot, IdleOp
<1>3. TypeOK
  <2>1. task \in Status /\ from \in Running /\ retained \in BOOLEAN /\ revived \in BOOLEAN
    BY DEF Status, Running
  <2>2. jobs \in [Id -> Job] /\ slot \in [Slots -> SlotState] /\ op \in Command
    BY <1>1, IdleTypes
  <2>3. MaxFaults \in 0..MaxFaults /\ MaxRefusals \in 0..MaxRefusals
        /\ MaxCommands \in 0..MaxCommands
    BY ConstantsOK
  <2> QED BY <2>1, <2>2, <2>3 DEF TypeOK
<1>4. RowsClean
  BY <1>1, <1>2 DEF RowsClean
<1>5. CommandFine
  BY <1>2 DEF CommandFine
<1>6. Engaged \subseteq {1} /\ ~Quiet
  BY <1>1, <1>2 DEF Engaged, Active, ActiveStatus, Quiet
<1> QED BY <1>3, <1>4, <1>5, <1>6 DEF IInv, OneEngaged

LEMMA StepInv == IInv /\ [Next]_vars => IInv'
<1> SUFFICES ASSUME IInv, [Next]_vars PROVE IInv'
  OBVIOUS
<1>1. CASE UNCHANGED vars
  <2>1. Engaged' = Engaged /\ Quiet' = Quiet
    BY <1>1 DEF vars, Engaged, Active, Quiet
  <2> QED BY <1>1, <2>1 DEF vars, IInv, TypeOK, RowsClean, CommandFine, OneEngaged
<1>2. ASSUME NEW s \in Slots, Work(s) \/ RenewFails(s) \/ ReaderDies(s) \/ RequestFails(s)
      PROVE  IInv'
  BY <1>2, WorkStep, FaultStep
<1>3. CASE \E w \in Workers : WorkerStops(w)
  BY <1>3, WorkerStopsStep
<1>4. CASE \E j \in Id : Expire(j)
  BY <1>4, ExpireStep
<1>5. CASE Operator \/ Execute \/ CommandFails
  BY <1>5, IssueStep, ExecuteStep, CommandFailsStep DEF Operator
<1> QED BY <1>1, <1>2, <1>3, <1>4, <1>5 DEF Next

LEMMA InvAlways == Spec => []IInv
BY InitInv, StepInv, PTL DEF Spec

\* Rows, slots and commands keep their types through every handler of
\* service.go and the worker.
THEOREM TypeCorrect == Spec => []TypeOK
<1>1. IInv => TypeOK
  BY DEF IInv
<1> QED BY <1>1, InvAlways, PTL

\* Unless a late call of a worker puts an old row over a newer one, two jobs
\* are never active together (ensureManagedCDCJob).
OneActiveJob == ~revived => \A j, k \in Id : Active(j) /\ Active(k) => j = k

THEOREM OneActiveJobCorrect == Spec => []OneActiveJob
<1>1. IInv => OneActiveJob
  BY DEF IInv, OneEngaged, OneActiveJob, Engaged
<1> QED BY <1>1, InvAlways, PTL

\* An accepted reader reads for the one active job, and for its owner.
LEMMA AcceptedActive ==
  ASSUME IInv, NEW s \in Slots, Accepted(s)
  PROVE  /\ slot[s].id \in Id /\ Active(slot[s].id)
         /\ jobs[slot[s].id].owner = WorkerOf[s]
BY RowOf DEF Accepted, Active, ActiveStatus, Owns

\* Two accepted readers are slots of one worker, and of one job: the server
\* tells workers apart, and not their slots (ApplyEngineJobCDCEvents).
OneWorkerReads ==
  ~revived => \A s, t \in Slots : Accepted(s) /\ Accepted(t) =>
                WorkerOf[s] = WorkerOf[t] /\ slot[s].id = slot[t].id

THEOREM OneWorkerReadsCorrect == Spec => []OneWorkerReads
<1>1. IInv => OneWorkerReads
  BY AcceptedActive DEF IInv, OneEngaged, OneWorkerReads, Engaged
<1> QED BY <1>1, InvAlways, PTL

\* When every worker has one CDC slot, at most one reader is accepted.
THEOREM OneReaderCorrect ==
  ASSUME \A s, t \in Slots : WorkerOf[s] = WorkerOf[t] => s = t
  PROVE  Spec => []OneReader
<1>1. OneWorkerReads => OneReader
  BY DEF OneWorkerReads, OneReader
<1> QED BY <1>1, OneWorkerReadsCorrect, PTL

\* No reader is accepted once cutover has begun (waitEngineJobsStopped).
THEOREM QuietAtCutoverCorrect == Spec => []QuietAtCutover
<1>1. IInv => QuietAtCutover
  <2> SUFFICES ASSUME IInv, ~revived, task = "CUTOVER_RUNNING", NEW s \in Slots, Accepted(s)
               PROVE  FALSE
    BY DEF QuietAtCutover
  <2>1. slot[s].id \in Engaged
    BY AcceptedActive DEF Engaged
  <2> QED BY <2>1 DEF IInv, OneEngaged, Quiet
<1> QED BY <1>1, InvAlways, PTL
=============================================================================
