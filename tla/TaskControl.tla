----------------------------- MODULE TaskControl -----------------------------
(***************************************************************************)
(* The life of one migration task from CREATED to FINISHED or ROLLED_BACK: *)
(* the operator's commands, the runners that prepare and validate the task *)
(* under the control-operation lease, the recovery loop of every server,   *)
(* cutover and rollback.                                                   *)
(*                                                                         *)
(* Everything a server does is a process of the pool proc: a handler of a  *)
(* command, a runner, or the recovery pass of a server.  A process reads   *)
(* the task row, decides which row it is going to store (to), may do slow  *)
(* work, and stores the whole row (StoreRow).  A row that is stored right  *)
(* after it was read is one step (Put).  The workers' side (copying,       *)
(* capturing, applying) is reduced to what the commands look at.           *)
(***************************************************************************)
EXTENDS Integers, FiniteSets

CONSTANTS
  Servers,      \* control-plane processes
  NoServer,     \* owner of a lease whose server has died
  Calls,        \* handlers of commands that can be under way at once
  Runners,      \* goroutines that prepare or validate the task
  NoRunner,     \* no runner is installed for the task
  Starts,       \* the quiet points the behaviours begin at, and their bounds
  MaxTx         \* bound: transactions the source commits

ASSUME ConstantsOK ==
  /\ NoServer \notin Servers /\ NoRunner \notin Runners
  /\ Servers \cap Calls = {} /\ Servers \cap Runners = {} /\ Calls \cap Runners = {}
  /\ MaxTx \in Nat
  /\ Starts \subseteq [mode : {"FULL", "FULL_AND_INCREMENTAL", "INCREMENTAL"},
                       status : {"CREATED", "CDC_CATCHING_UP", "FINISHED"},
                       \* bounds: commands of the operator; and servers that die, leases
                       \* that expire under a holder at work, slow recovery passes,
                       \* failed requests and late applies
                       commands : Nat, faults : Nat]

VARIABLES
  setup,      \* mode and validation_enabled of the task
  task,       \* its row
  results,    \* validation results: none, all equal, or a mismatch
  lease,      \* the row of control_operation_leases
  proc,       \* what every process does
  current,    \* Service.runners of each server
  forward,    \* the forward CDC job
  reverse,    \* the reverse CDC job
  captured,   \* source transactions in the spool or applied
  applied,    \* source transactions applied at the target
  behind,     \* the reverse spool holds a transaction
  target,     \* what was done to the target database
  overwrote,  \* history: a process stored its copy over a newer row
  expired,    \* history: leases that expired under a holder at work
  budget      \* what is left of the bounds

cdc == <<forward, reverse, captured, applied, behind>>
hist == <<overwrote, expired>>
world == <<setup, task, results, lease, current, cdc, target, hist, budget>>
vars == <<proc, world>>

Statuses == {"CREATED", "PRECHECKING", "PRECHECK_SUCCESS", "PREPARING", "CDC_INITIALIZING",
             "FULL_MIGRATING", "CDC_CATCHING_UP", "VALIDATING", "PAUSED",
             "READY_FOR_CUTOVER", "CUTOVER_RUNNING", "FINISHED", "FAILED", "CANCELLED",
             "ROLLBACK_PREPARING", "ROLLBACK_SYNCING", "ROLLBACK_READY",
             "ROLLBACK_RUNNING", "ROLLED_BACK"}

NoBarrier == -1

Row == [status : Statuses,
        from : Statuses,               \* PausedFromStatus
        empty : BOOLEAN,               \* TotalChunks = 0
        barrier : {NoBarrier} \cup (0 .. MaxTx)]

NewRow == [status |-> "CREATED", from |-> "CREATED", empty |-> FALSE, barrier |-> NoBarrier]

Procs == Servers \cup Calls \cup Runners

\* Where a process stands; "idle" is a free one.
Pc == {"idle", "store", "acquire", "launch", "precheck", "checked", "preparing",
       "plan", "planned", "ensure", "delete", "compare", "finish", "validate", "stop",
       "wait", "drain", "sync", "finalize", "rollback", "fail", "release",
       "revalidate"}

Operation == {"none", "prepare", "validation", "recovery"}

Process == [server : Servers \cup {NoServer}, op : Operation, pc : Pc,
            seen : Row,            \* the task row as the process read it
            to : Row,              \* the row it is going to store
            then : Pc,             \* where it goes after "store" or "fail"
            cancelled : BOOLEAN,   \* its context is cancelled
            bad : BOOLEAN]         \* its comparison found a mismatch

Job == {"none", "active", "stopping", "stopped"}

TypeOK ==
  /\ setup \in [mode : {start.mode : start \in Starts}, validates : BOOLEAN]
  /\ task \in Row
  /\ results \in {"none", "good", "bad"}
  /\ lease \in [op : Operation, owner : Servers \cup {NoServer}, live : BOOLEAN]
  /\ proc \in [Procs -> Process]
  /\ current \in [Servers -> Runners \cup {NoRunner}]
  /\ forward \in Job /\ reverse \in Job
  /\ captured \in 0 .. MaxTx /\ applied \in 0 .. captured /\ behind \in BOOLEAN
  /\ target \in [prepared : 0 .. 2, synced : BOOLEAN, finalized : BOOLEAN]
  /\ overwrote \in BOOLEAN /\ expired \in Nat
  /\ budget \in [commands : Nat, faults : Nat]

NoLease == [op |-> "none", owner |-> NoServer, live |-> FALSE]

Idle(s) == [server |-> s, op |-> "none", pc |-> "idle", seen |-> NewRow, to |-> NewRow,
            then |-> "idle", cancelled |-> FALSE, bad |-> FALSE]

Rest(p) == Idle(IF p \in Servers THEN p ELSE NoServer)

\* The task as it was created, streaming after its copy, or cut over.
Init ==
  /\ results = "none" /\ lease = NoLease
  /\ proc = [p \in Procs |-> Rest(p)]
  /\ current = [s \in Servers |-> NoRunner]
  /\ \E start \in Starts, validates \in BOOLEAN :
       LET status == start.status IN
       /\ setup = [mode |-> start.mode, validates |-> validates]
       /\ task = [NewRow EXCEPT !.status = status, !.empty = status = "CREATED" \/ start.mode = "INCREMENTAL"]
       /\ forward = CASE status = "CREATED" -> "none"
                      [] status = "CDC_CATCHING_UP" -> "active"
                      [] status = "FINISHED" -> "stopped"
       /\ target = [prepared |-> IF status = "CREATED" THEN 0 ELSE 1,
                    synced |-> status # "CREATED", finalized |-> status = "FINISHED"]
       /\ budget = [commands |-> start.commands, faults |-> start.faults]
  /\ reverse = "none" /\ captured = 0 /\ applied = 0 /\ behind = FALSE
  /\ overwrote = FALSE /\ expired = 0
-----------------------------------------------------------------------------
(***************************************************************************)
(* Processes and the lease.                                                *)
(***************************************************************************)
Spend(what) == /\ budget[what] > 0 /\ budget' = [budget EXCEPT ![what] = @ - 1]

At(p, pc) == proc[p].pc = pc

Goto(p, pc) == proc' = [proc EXCEPT ![p].pc = pc]

With(row, status) == [row EXCEPT !.status = status]

\* The process goes on to store row and then to pc then.
WillStore(p, row, then) ==
  proc' = [proc EXCEPT ![p].pc = "store", ![p].seen = task, ![p].to = row, ![p].then = then]

Ends(p) == proc' = [proc EXCEPT ![p] = Rest(p)]

Fails(p, then) == proc' = [proc EXCEPT ![p].pc = "fail", ![p].then = then]

GoOn(p, next) == IF next = "idle" THEN Ends(p) ELSE Goto(p, next)

\* A row that was read just before is stored.
Put(p, row, next) == task' = row /\ GoOn(p, next)

\* UpdateMigration stores the whole row, whatever was stored since it was read.
StoreRow(p) ==
  /\ At(p, "store")
  /\ task' = proc[p].to
  /\ overwrote' = (overwrote \/ task # proc[p].seen)
  /\ IF proc[p].then = "idle" THEN Ends(p)
     ELSE proc' = [proc EXCEPT ![p].pc = proc[p].then,
                              ![p].seen = IF p \in Calls THEN proc[p].to ELSE NewRow,
                              ![p].to = IF p \in Calls THEN proc[p].to ELSE NewRow]
  /\ UNCHANGED <<setup, results, lease, current, cdc, target, expired, budget>>

\* Mutant: a server takes the lease it holds again.
ObtainableAgain(s) == ~lease.live \/ lease.owner = s

\* Mutant: an expired lease still keeps everyone out.
ObtainableUnused(s) == lease = NoLease

\* A lease of the task can be had when there is none or it has expired,
\* whatever its operation; not even its owner gets it before.
Obtainable(s) == ~lease.live

Acquire(op, s) == /\ Obtainable(s) /\ lease' = [op |-> op, owner |-> s, live |-> TRUE]

Released(op, s) == IF lease.op = op /\ lease.owner = s THEN NoLease ELSE lease

Working(r) == proc[r].op # "none"

\* launchPrepareWithLease, and the end of startValidation: a new runner takes
\* the place of the one this server knew, whose context is cancelled.
Install(after, s, op, pc) ==
  /\ \E r \in Runners : after[r].pc = "idle"
  /\ LET new == CHOOSE r \in Runners : after[r].pc = "idle" IN
     /\ proc' = [p \in Procs |->
                  IF p = new THEN [Idle(s) EXCEPT !.op = op, !.pc = pc]
                  ELSE IF p = current[s] THEN [after[p] EXCEPT !.cancelled = TRUE] ELSE after[p]]
     /\ current' = [current EXCEPT ![s] = new]

After(p, next) == [proc EXCEPT ![p] = next]

-----------------------------------------------------------------------------
(***************************************************************************)
(* The runner that prepares the task.                                      *)
(***************************************************************************)
\* Mutant: prepareTask does not look at the status it finds.
PrecheckReplayed(r) ==
  /\ At(r, "precheck")
  /\ Put(r, With(task, "PRECHECK_SUCCESS"), "checked")
  /\ UNCHANGED <<setup, results, lease, current, cdc, target, hist, budget>>

\* Connections and prechecks, then setStatus(PRECHECK_SUCCESS).
Precheck(r) ==
  /\ At(r, "precheck")
  /\ \/ task.status = "PRECHECKING" /\ Put(r, With(task, "PRECHECK_SUCCESS"), "checked")
     \/ Fails(r, "release") /\ UNCHANGED task
  /\ UNCHANGED <<setup, results, lease, current, cdc, target, hist, budget>>

Checked(r) ==
  /\ At(r, "checked")
  /\ IF task.status = "PRECHECK_SUCCESS"
     THEN Put(r, With(task, "PREPARING"), "preparing")
     ELSE Fails(r, "release") /\ UNCHANGED task
  /\ UNCHANGED <<setup, results, lease, current, cdc, target, hist, budget>>

\* The start position of CDC is captured and stored with the row read before.
Preparing(r) ==
  /\ At(r, "preparing")
  /\ \/ /\ setup.mode = "FULL" /\ Goto(r, "plan")
     \/ /\ setup.mode # "FULL" /\ WillStore(r, task, "plan")
     \/ Fails(r, "release")
  /\ UNCHANGED world

\* Tables are created at the target and chunks are planned.
Plan(r) ==
  /\ At(r, "plan")
  /\ target' = [target EXCEPT !.prepared = IF @ = 2 THEN 2 ELSE @ + 1]
  /\ \/ Goto(r, "planned")
     \/ Fails(r, "release")
  /\ UNCHANGED <<setup, task, results, lease, current, cdc, hist, budget>>

\* ensureManagedCDCJob
Ensured(job) == IF job \in {"active", "stopping"} THEN job ELSE "active"

AfterPlanning(empty) ==
  IF setup.mode # "FULL" THEN "CDC_INITIALIZING"
  ELSE IF ~empty THEN "FULL_MIGRATING"
  ELSE IF setup.validates THEN "VALIDATING" ELSE "FINISHED"

\* The job for the CDC reader is created right after the row is stored; an error
\* of that fails the task.
Planned(r) ==
  /\ At(r, "planned")
  /\ \/ /\ task.status # "PREPARING"
        /\ Fails(r, "release") /\ UNCHANGED <<task, forward, budget>>
     \/ /\ task.status = "PREPARING"
        /\ \E empty \in {e \in BOOLEAN : setup.mode = "INCREMENTAL" => e} :
             task' = [With(task, AfterPlanning(empty)) EXCEPT !.empty = empty]
        /\ \/ /\ forward' = IF setup.mode = "FULL" THEN forward ELSE Ensured(forward)
              /\ Goto(r, "release") /\ UNCHANGED budget
           \/ /\ setup.mode # "FULL" /\ Spend("faults")
              /\ Fails(r, "release") /\ UNCHANGED forward
  /\ UNCHANGED <<setup, results, lease, current, reverse, captured, applied, behind, target, hist>>

-----------------------------------------------------------------------------
(***************************************************************************)
(* The runner that validates the task.                                     *)
(***************************************************************************)
DeleteResults(r) ==
  /\ At(r, "delete")
  /\ results' = "none" /\ Goto(r, "compare")
  /\ UNCHANGED <<setup, task, lease, current, cdc, target, hist, budget>>

\* Each chunk is compared unless the task was paused or cancelled meanwhile.
Compare(r) ==
  /\ At(r, "compare")
  /\ \/ Fails(r, "release") /\ UNCHANGED results
     \/ /\ task.empty
        /\ Goto(r, "finish") /\ UNCHANGED results
     \/ /\ ~task.empty /\ task.status \in {"PAUSED", "CANCELLED"}
        /\ Goto(r, "release") /\ UNCHANGED results
     \/ /\ ~task.empty /\ task.status \notin {"PAUSED", "CANCELLED"}
        /\ \E bad \in BOOLEAN :
             /\ results' = IF bad THEN "bad" ELSE "good"
             /\ proc' = [proc EXCEPT ![r].pc = "finish", ![r].bad = bad]
  /\ UNCHANGED <<setup, task, lease, current, cdc, target, hist, budget>>

\* Status after a validation: a drifted barrier discards it, and creating the
\* foreign keys that were put off may fail.
Verdicts(r) ==
  IF setup.mode # "FULL" /\ task.barrier # applied THEN {"CDC_CATCHING_UP"}
  ELSE IF proc[r].bad THEN {"FAILED"}
  ELSE {"FAILED", IF setup.mode = "FULL" THEN "FINISHED" ELSE "CDC_CATCHING_UP"}

\* The row is read, the foreign keys are created, and the row is stored
\* without another look at the status.
Finish(r) ==
  /\ At(r, "finish")
  /\ LET drifted == setup.mode # "FULL" /\ task.barrier # applied IN
     IF proc[r].cancelled THEN Goto(r, "release") /\ UNCHANGED results
     ELSE /\ results' = IF drifted THEN "none" ELSE results
          /\ \E status \in Verdicts(r) :
               WillStore(r, [With(task, status) EXCEPT !.barrier = IF drifted THEN NoBarrier ELSE @],
                         "release")
  /\ UNCHANGED <<setup, task, lease, current, cdc, target, hist, budget>>

-----------------------------------------------------------------------------
(***************************************************************************)
(* How runners start, fail and end.                                        *)
(***************************************************************************)
\* startValidation.  Without the lease the caller gets an error: a command
\* returns it, the recovery ignores it, the end of a preparation fails the task.
StartValidation(p) ==
  IF ~Obtainable(proc[p].server)
  THEN /\ IF p \in Runners THEN Fails(p, "idle") ELSE Ends(p)
       /\ UNCHANGED <<lease, current>>
  ELSE /\ Acquire("validation", proc[p].server)
       /\ Install(After(p, Rest(p)), proc[p].server, "validation", "delete")

Validate(p) ==
  /\ At(p, "validate")
  /\ StartValidation(p)
  /\ UNCHANGED <<setup, task, results, cdc, target, hist, budget>>

\* failTaskUnlessCanceled for a runner, failTask for everything else.
Fail(p) ==
  /\ At(p, "fail")
  /\ IF \/ proc[p].cancelled /\ proc[p].op # "none"
        \/ task.status \in {"CANCELLED", "PAUSED", "FINISHED"}
     THEN GoOn(p, proc[p].then) /\ UNCHANGED task
     ELSE Put(p, With(task, "FAILED"), proc[p].then)
  /\ UNCHANGED <<setup, results, lease, current, cdc, target, hist, budget>>

\* The lease is given back, an error of that is ignored.  removeRunner forgets
\* whatever runner is installed now; the end of prepare goes on without either.
Release(p) ==
  /\ At(p, "release")
  /\ \/ lease' = Released(proc[p].op, proc[p].server) /\ UNCHANGED budget
     \/ Spend("faults") /\ UNCHANGED lease
  /\ IF p \in Runners
     THEN current' = [current EXCEPT ![proc[p].server] = NoRunner] ELSE UNCHANGED current
  /\ IF p \in Runners /\ proc[p].op = "prepare"
     THEN proc' = [proc EXCEPT ![p].pc = "revalidate", ![p].op = "none"] ELSE Ends(p)
  /\ UNCHANGED <<setup, task, results, cdc, target, hist>>

\* The end of prepare: a task without rows goes straight to its validation.
Revalidate(r) ==
  /\ At(r, "revalidate")
  /\ IF task.status = "VALIDATING" THEN StartValidation(r)
     ELSE Ends(r) /\ UNCHANGED <<lease, current>>
  /\ UNCHANGED <<setup, task, results, cdc, target, hist, budget>>

\* The renewing goroutine: it revives a lease that is still its own and
\* cancels the runner when it is not.
Renew(r) ==
  /\ Working(r) /\ ~proc[r].cancelled
  /\ IF lease.op = proc[r].op /\ lease.owner = proc[r].server
     THEN ~lease.live /\ lease' = [lease EXCEPT !.live = TRUE] /\ UNCHANGED proc
     ELSE proc' = [proc EXCEPT ![r].cancelled = TRUE] /\ UNCHANGED lease
  /\ UNCHANGED <<setup, task, results, current, cdc, target, hist, budget>>

\* The lease runs out.  Its holder is at work all the same, or it is gone.
Held == \E p \in Procs : Working(p) /\ proc[p].op = lease.op /\ proc[p].server = lease.owner

Expired == lease.live /\ lease' = [lease EXCEPT !.live = FALSE]

ExpireHeld ==
  /\ Held /\ Expired /\ Spend("faults")
  /\ expired' = expired + 1
  /\ UNCHANGED <<setup, task, results, proc, current, cdc, target, overwrote>>

ExpireAbandoned ==
  /\ ~Held /\ Expired
  /\ UNCHANGED <<setup, task, results, proc, current, cdc, target, hist, budget>>

-----------------------------------------------------------------------------
(***************************************************************************)
(* RecoverInterrupted: the recovery loop of a server lists the tasks, and  *)
(* acts on what it listed once it has the lease.                           *)
(***************************************************************************)
Interrupted == {"PRECHECKING", "PRECHECK_SUCCESS", "PREPARING", "VALIDATING"}

\* Recovery of a task that was listed with this status.
RecoverAs(s, status) ==
  IF status = "VALIDATING" THEN StartValidation(s)
  ELSE IF ~Obtainable(s) THEN Ends(s) /\ UNCHANGED <<lease, current>>
  ELSE IF status = "PRECHECKING"
  THEN Acquire("prepare", s) /\ Install(After(s, Rest(s)), s, "prepare", "precheck")
  ELSE /\ Acquire("recovery", s)
       /\ proc' = [proc EXCEPT ![s] = [Rest(s) EXCEPT !.op = "recovery", !.pc = "fail",
                                                     !.then = "release"]]
       /\ UNCHANGED current

Scan(s) ==
  /\ At(s, "idle") /\ task.status \in Interrupted
  /\ RecoverAs(s, task.status)
  /\ UNCHANGED <<setup, task, results, cdc, target, hist, budget>>

\* The pass is slow: it acts on a list that is old by then.
ScanSlow(s) ==
  /\ At(s, "idle") /\ task.status \in Interrupted /\ Spend("faults")
  /\ proc' = [proc EXCEPT ![s].pc = "acquire", ![s].seen = With(NewRow, task.status)]
  /\ UNCHANGED <<setup, task, results, lease, current, cdc, target, hist>>

Recover(s) ==
  /\ s \in Servers /\ At(s, "acquire")
  /\ RecoverAs(s, proc[s].seen.status)
  /\ UNCHANGED <<setup, task, results, cdc, target, hist, budget>>

\* The process of a server ends: its handlers and runners are gone, and its
\* next life has another instance id.
Crash(s) ==
  /\ Spend("faults")
  /\ proc' = [p \in Procs |-> IF proc[p].server = s THEN Rest(p) ELSE proc[p]]
  /\ lease' = IF lease.owner = s THEN [lease EXCEPT !.owner = NoServer] ELSE lease
  /\ current' = [current EXCEPT ![s] = NoRunner]
  /\ UNCHANGED <<setup, task, results, cdc, target, hist>>

-----------------------------------------------------------------------------
(***************************************************************************)
(* Commands of the operator, each handled by one server.                   *)
(***************************************************************************)
\* The row is read; the handler goes on at pc and will store row.
Began(c, s, pc, row, then) ==
  [proc EXCEPT ![c] = [Rest(c) EXCEPT !.server = s, !.pc = pc, !.seen = task, !.to = row,
                                      !.then = then]]

Handles(c, s, pc, row, then) == At(c, "idle") /\ proc' = Began(c, s, pc, row, then)

Begin(c, s, pc, row, then) ==
  /\ Handles(c, s, pc, row, then) /\ Spend("commands")
  /\ UNCHANGED <<setup, task, results, lease, current, cdc, target, hist>>

\* The row is read and stored, and the handler goes on.
Stored(c, s, row, then) ==
  IF then = "idle" THEN proc
  ELSE [proc EXCEPT ![c] = [Rest(c) EXCEPT !.server = s, !.pc = then, !.seen = row, !.to = row]]

Set(c, s, row, then) ==
  /\ At(c, "idle") /\ Spend("commands")
  /\ task' = row /\ proc' = Stored(c, s, row, then)
  /\ UNCHANGED <<setup, results, lease, current, cdc, target, hist>>

\* Pause and Cancel cancel the runner this server knows, then store.
SetCancelling(c, s, row, then) ==
  /\ At(c, "idle") /\ Spend("commands")
  /\ task' = row
  /\ LET p == current[s]
         stored == Stored(c, s, row, then) IN
     proc' = IF p = NoRunner THEN stored ELSE [stored EXCEPT ![p].cancelled = TRUE]
  /\ current' = [current EXCEPT ![s] = NoRunner]
  /\ UNCHANGED <<setup, results, lease, cdc, target, hist>>

Start(c, s) ==
  /\ task.status = "CREATED"
  /\ Begin(c, s, "acquire", With(task, "PRECHECKING"), "launch")

\* Start checks the plan with both databases before it asks for the lease, and
\* stores the row that it read before both.
AcquireStart(c) ==
  /\ c \in Calls /\ At(c, "acquire")
  /\ \/ ~Obtainable(proc[c].server) /\ Ends(c) /\ UNCHANGED lease
     \/ /\ Acquire("prepare", proc[c].server)
        /\ proc' = [proc EXCEPT ![c].op = "prepare", ![c].pc = "store"]
  /\ UNCHANGED <<setup, task, results, current, cdc, target, hist, budget>>

\* The row cannot be stored: the lease is given back.
StartAborted(c) ==
  /\ At(c, "store") /\ c \in Calls /\ proc[c].op = "prepare"
  /\ Goto(c, "release")
  /\ UNCHANGED world

Launch(c) ==
  /\ At(c, "launch")
  /\ Install(After(c, Rest(c)), proc[c].server, "prepare", "precheck")
  /\ UNCHANGED <<setup, task, results, lease, cdc, target, hist, budget>>

Streaming == {"CDC_INITIALIZING", "CDC_CATCHING_UP", "ROLLBACK_SYNCING"}

Resume(c, s) ==
  /\ task.status = "PAUSED"
  /\ Set(c, s, [With(task, task.from) EXCEPT !.from = "CREATED"],
         IF task.from \in Streaming THEN "ensure"
         ELSE IF task.from = "VALIDATING" THEN "validate" ELSE "idle")

Pause(c, s) ==
  /\ task.status \in Streaming \cup {"FULL_MIGRATING", "VALIDATING"}
  /\ SetCancelling(c, s, [With(task, "PAUSED") EXCEPT !.from = task.status],
                   IF task.status \in Streaming THEN "stop" ELSE "idle")

Cancel(c, s) ==
  /\ task.status \notin {"FINISHED", "CANCELLED"}
  /\ SetCancelling(c, s, With(task, "CANCELLED"), "idle")

\* Mutant: the spool need not be empty.
CaughtUpAnyway == TRUE

CaughtUp == captured = applied

\* Mutant: the barrier is the position that comes next.
AfterBarrier == [With(task, "VALIDATING") EXCEPT !.barrier = applied + 1]

\* A validation starts with the newest checkpoint as its barrier.
AtBarrier == [With(task, "VALIDATING") EXCEPT !.barrier = applied]

ValidateNow(c, s) ==
  \/ task.status = "VALIDATING" /\ Begin(c, s, "validate", task, "idle")
  \/ /\ task.status = "CDC_CATCHING_UP" /\ CaughtUp
     /\ Set(c, s, AtBarrier, "validate")

\* maybeStartValidationAfterCatchup, which follows a drain or a checkpoint.
AutoValidate(c, s) ==
  /\ task.status = "CDC_CATCHING_UP" /\ CaughtUp
  /\ setup.mode = "FULL_AND_INCREMENTAL" /\ setup.validates /\ results = "none"
  /\ At(c, "idle") /\ task' = AtBarrier /\ proc' = Stored(c, s, AtBarrier, "validate")
  /\ UNCHANGED <<setup, results, lease, current, cdc, target, hist, budget>>

\* Chunks whose comparison failed are copied again.
RepairValidation(c, s) ==
  /\ results = "bad" /\ task.status \in {"FAILED", "CANCELLED", "PAUSED", "CDC_CATCHING_UP"}
  /\ Begin(c, s, "store", With(task, "FULL_MIGRATING"), "idle")

ReadyForCutover(c, s) ==
  /\ task.status = "CDC_CATCHING_UP" /\ CaughtUp
  /\ setup.validates => task.empty \/ results = "good"
  /\ Begin(c, s, "store", With(task, "READY_FOR_CUTOVER"), "idle")

Cutover(c, s) ==
  /\ task.status = "READY_FOR_CUTOVER"
  /\ Begin(c, s, "stop", With(task, "CUTOVER_RUNNING"), "sync")

PrepareRollback(c, s) ==
  /\ task.status = "FINISHED"
  /\ Begin(c, s, "store", With(task, "ROLLBACK_PREPARING"), "ensure")

ReadyForRollback(c, s) ==
  /\ task.status = "ROLLBACK_SYNCING" /\ ~behind
  /\ Set(c, s, With(task, "ROLLBACK_READY"), "idle")

Rollback(c, s) ==
  /\ task.status = "ROLLBACK_READY"
  /\ Set(c, s, With(task, "ROLLBACK_RUNNING"), "rollback")

-----------------------------------------------------------------------------
(***************************************************************************)
(* What the handlers do after their first step.                            *)
(***************************************************************************)
\* The CDC job a handler starts or stops.
Reversed(p) == \/ proc[p].seen.status \in {"ROLLBACK_PREPARING", "ROLLBACK_SYNCING", "ROLLED_BACK"}
               \/ proc[p].seen.status = "PAUSED" /\ proc[p].seen.from = "ROLLBACK_SYNCING"

Stopped(job) == IF job = "active" THEN "stopping" ELSE job

SetJob(p, Op(_)) ==
  /\ IF Reversed(p) THEN reverse' = Op(reverse) /\ UNCHANGED forward
     ELSE forward' = Op(forward) /\ UNCHANGED reverse
  /\ UNCHANGED <<captured, applied, behind>>

Ensure(p) ==
  /\ At(p, "ensure")
  /\ SetJob(p, Ensured)
  /\ Ends(p)
  /\ UNCHANGED <<setup, task, results, lease, current, target, hist, budget>>

\* requestStopEngineJobs
Stop(c) ==
  /\ At(c, "stop")
  /\ SetJob(c, Stopped)
  /\ IF proc[c].seen.status = "READY_FOR_CUTOVER" THEN Goto(c, "wait") ELSE Ends(c)
  /\ UNCHANGED <<setup, task, results, lease, current, target, hist, budget>>

\* waitEngineJobsStopped and drainFinalCutoverSpool, each with a deadline.
Wait(c) ==
  /\ At(c, "wait")
  /\ \/ forward \notin {"active", "stopping"} /\ Goto(c, "drain")
     \/ Ends(c)
  /\ UNCHANGED world

Drain(c) ==
  /\ At(c, "drain")
  /\ \/ CaughtUp /\ Goto(c, "store")
     \/ Ends(c)
  /\ UNCHANGED world

StoreFailed(c) ==
  proc' = [proc EXCEPT ![c].pc = "store", ![c].to = With(proc[c].seen, "FAILED"), ![c].then = "idle"]

\* A full copy is the end of the task when nothing follows it.
Last(c) == proc[c].seen.status = "CUTOVER_RUNNING" \/ proc[c].to.status = "FINISHED"

\* syncGeneratedValueState
Sync(c) ==
  /\ At(c, "sync")
  /\ \/ /\ target' = [target EXCEPT !.synced = TRUE]
        /\ Goto(c, IF Last(c) THEN "finalize" ELSE "store")
     \/ StoreFailed(c) /\ UNCHANGED target
  /\ UNCHANGED <<setup, task, results, lease, current, cdc, hist, budget>>

\* finalizeGeneratedValueModes
Finalize(c) ==
  /\ At(c, "finalize")
  /\ \/ /\ target' = [target EXCEPT !.finalized = TRUE]
        /\ proc' = [proc EXCEPT ![c].pc = "store", ![c].then = "idle",
                                ![c].to = With(proc[c].seen, "FINISHED")]
     \/ StoreFailed(c) /\ UNCHANGED target
  /\ UNCHANGED <<setup, task, results, lease, current, cdc, hist, budget>>

RolledBack(c) ==
  /\ At(c, "rollback")
  /\ task' = With(proc[c].seen, "ROLLED_BACK")
  /\ overwrote' = (overwrote \/ task # proc[c].seen)
  /\ proc' = [proc EXCEPT ![c].pc = "stop", ![c].seen = task']
  /\ UNCHANGED <<setup, results, lease, current, cdc, target, expired, budget>>

-----------------------------------------------------------------------------
(***************************************************************************)
(* The workers, as far as the commands look at their work.                 *)
(***************************************************************************)
AfterCopy == IF setup.mode # "FULL" THEN "CDC_CATCHING_UP"
             ELSE IF setup.validates THEN "VALIDATING" ELSE "FINISHED"

\* The last chunk is completed: refreshProgress on some server.
CopyDone(c, s) ==
  /\ task.status = "FULL_MIGRATING"
  /\ Handles(c, s, "sync", With(task, AfterCopy),
             IF AfterCopy = "VALIDATING" THEN "validate" ELSE "idle")
  /\ UNCHANGED world

\* MarkCDCStarted and MarkRollbackCDCStarted
ReaderStarts ==
  /\ \/ /\ forward = "active" /\ task.status = "CDC_INITIALIZING"
        /\ task' = With(task, IF task.empty THEN "CDC_CATCHING_UP" ELSE "FULL_MIGRATING")
     \/ /\ reverse = "active" /\ task.status = "ROLLBACK_PREPARING"
        /\ task' = With(task, "ROLLBACK_SYNCING")
  /\ UNCHANGED <<setup, results, lease, proc, current, cdc, target, hist, budget>>

CaptureReady == {"FULL_MIGRATING", "VALIDATING", "CDC_CATCHING_UP", "READY_FOR_CUTOVER"}

ApplyReady == {"CDC_CATCHING_UP", "READY_FOR_CUTOVER"}

Capture ==
  /\ forward \in {"active", "stopping"} /\ task.status \in CaptureReady /\ captured < MaxTx
  /\ captured' = captured + 1
  /\ UNCHANGED <<forward, reverse, applied, behind>>
  /\ UNCHANGED <<setup, task, results, lease, proc, current, target, hist, budget>>

\* An apply on a server that did not see the task freeze comes late.
Apply ==
  /\ applied < captured
  /\ \/ task.status \in ApplyReady /\ UNCHANGED budget
     \/ task.status = "VALIDATING" /\ Spend("faults")
  /\ applied' = applied + 1 /\ target' = [target EXCEPT !.synced = FALSE]
  /\ UNCHANGED <<forward, reverse, captured, behind>>
  /\ UNCHANGED <<setup, task, results, lease, proc, current, hist>>

ReaderStops ==
  /\ \/ forward = "stopping" /\ forward' = "stopped" /\ UNCHANGED reverse
     \/ reverse = "stopping" /\ reverse' = "stopped" /\ UNCHANGED forward
  /\ UNCHANGED <<captured, applied, behind>>
  /\ UNCHANGED <<setup, task, results, lease, proc, current, target, hist, budget>>

ReverseFlow ==
  /\ \/ /\ reverse \in {"active", "stopping"} /\ ~behind
        /\ task.status \in {"ROLLBACK_PREPARING", "ROLLBACK_SYNCING", "ROLLBACK_READY"}
     \/ behind /\ task.status \in {"ROLLBACK_SYNCING", "ROLLBACK_READY"}
  /\ behind' = ~behind
  /\ UNCHANGED <<forward, reverse, captured, applied>>
  /\ UNCHANGED <<setup, task, results, lease, proc, current, target, hist, budget>>

Command(c, s) ==
  \/ Start(c, s) \/ Resume(c, s) \/ Pause(c, s) \/ Cancel(c, s)
  \/ ValidateNow(c, s) \/ AutoValidate(c, s) \/ RepairValidation(c, s)
  \/ ReadyForCutover(c, s) \/ Cutover(c, s)
  \/ PrepareRollback(c, s) \/ ReadyForRollback(c, s) \/ Rollback(c, s)
  \/ CopyDone(c, s)

\* One step of a runner, of a handler or of a recovery pass that is under way.
Step(p) ==
  \/ StoreRow(p) \/ Fail(p) \/ Release(p) \/ Validate(p) \/ Ensure(p)
  \/ Precheck(p) \/ Checked(p) \/ Preparing(p) \/ Plan(p) \/ Planned(p)
  \/ DeleteResults(p) \/ Compare(p) \/ Finish(p) \/ Revalidate(p)
  \/ Recover(p)
  \/ AcquireStart(p) \/ Launch(p) \/ Stop(p) \/ Wait(p) \/ Drain(p)
  \/ Sync(p) \/ Finalize(p) \/ RolledBack(p)

Next ==
  \/ \E p \in Procs : Step(p)
  \/ \E c \in Calls, s \in Servers : Command(c, s)
  \/ \E c \in Calls : StartAborted(c)
  \/ \E s \in Servers : Scan(s) \/ ScanSlow(s) \/ Crash(s)
  \/ \E r \in Runners : Renew(r)
  \/ ExpireHeld \/ ExpireAbandoned
  \/ ReaderStarts \/ Capture \/ Apply \/ ReaderStops \/ ReverseFlow

\* Handlers and runners end, leases expire and every server repeats its
\* recovery; commands and workers are under no obligation.
Fairness ==
  /\ \A p \in Procs : WF_vars(Step(p))
  /\ \A s \in Servers : WF_vars(Scan(s))
  /\ WF_vars(ExpireAbandoned)

Spec == Init /\ [][Next]_vars /\ Fairness

-----------------------------------------------------------------------------
(***************************************************************************)
(* Properties.                                                             *)
(***************************************************************************)
\* Two runners never work on the task at once but for the leases that expired
\* under a holder at work: the lease, its renewal and its release by owner and
\* operation keep all other servers, and this server's next runner, out.
RunnersBounded ==
  Cardinality({r \in Runners : Working(r)}) <= 1 + expired

\* The target is prepared once, however the recovery, lost leases and crashes
\* fall (service.go:170-174), unless a handler stored a row older than the
\* table's: that is how two Starts that both read CREATED prepare it twice.
PreparedOnce == target.prepared > 1 => overwrote

\* A task that is cut over has nothing left in the spool, and its generated
\* values were synchronized after the last transaction that was applied.
CutoverComplete ==
  (task.status = "FINISHED" /\ setup.mode # "FULL" /\ ~overwrote) =>
    captured = applied /\ target.synced /\ target.finalized

\* A task whose server died is taken up again, and prepared, validated or failed.
\* (Two runners of one server after a lease that expired under the first may
\* release each other's lease for ever: it is known by server and operation.)
Recovered ==
  task.status \in Interrupted ~> task.status \notin Interrupted \/ expired > 0

\* RecoverInterrupted takes up nothing that goes on without it: it fails a task
\* only while its preparation is interrupted.
RecoveryHarmless ==
  [][\A s \in Servers : At(s, "fail") /\ task'.status = "FAILED" =>
        task.status \in {"PRECHECK_SUCCESS", "PREPARING", "FAILED"}]_vars

\* A finished task has its generated columns in their final mode, after a full
\* copy as after a cutover.
FinishedIsFinal == task.status = "FINISHED" => target.finalized
=============================================================================
