------------------------------- MODULE CDCApply -------------------------------
(***************************************************************************)
(* The forward CDC path of one task with a transactional target: a reader  *)
(* sends source transactions in commit order, the control plane applies    *)
(* each one or stages it in the durable spool, and acknowledges it.  An    *)
(* ambiguous COMMIT is fenced by a dead letter until its checkpoint is     *)
(* durable or an operator resolves it; while the task is VALIDATING the    *)
(* target is frozen.                                                       *)
(*                                                                         *)
(* A handler is a process of its own, on one server.  A step of it is one  *)
(* write to the repository or to the target, with the reads right before   *)
(* it.  Handlers that take the task's spool lock are served in arrival     *)
(* order, as Go's mutex does for waiters of more than a millisecond; the   *)
(* operator's replay and resolution take no lock.                          *)
(*                                                                         *)
(* A source transaction is its number: its position in the source log and  *)
(* the payload at once.  READY_FOR_CUTOVER, which also accepts applies, is *)
(* not distinguished from CDC_CATCHING_UP, and a validation ends well.     *)
(***************************************************************************)
EXTENDS Integers, Sequences, FiniteSets

CONSTANTS
  MaxTx,          \* number of source transactions
  Heartbeats,     \* those that carry only CHECKPOINT events
  DDL,            \* those that carry DDL: applied outside a target transaction
  Servers,        \* control-plane processes
  Handlers,       \* request handlers and background goroutines
  ServerOf,       \* the process each handler runs in
  Decisions,      \* what an operator may say of an ambiguous COMMIT
  Replayed,       \* statuses of the dead letters an operator replays
  MaxFaults,      \* bound: failed writes, ambiguous COMMITs, expired leases
  MaxMisses,      \* bound: failed reads that the code takes for no row
  MaxCrashes,     \* bound: deaths of a control-plane process
  MaxGiveUps,     \* bound: times the reader drops a request or restarts
  MaxLate,        \* bound: requests delayed on their way to the lock
  MaxCommands,    \* bound: operator resolutions and replays
  MaxValidations  \* bound: validations started

Tx == 1..MaxTx

ASSUME ConstantsOK ==
  /\ MaxTx \in Nat \ {0} /\ Heartbeats \subseteq Tx
  /\ DDL \subseteq Tx \ Heartbeats
  /\ ServerOf \in [Handlers -> Servers]
  /\ Servers \cap {"free", "stale"} = {}
  /\ Decisions \subseteq {"COMMITTED", "NOT_COMMITTED"}
  /\ Replayed \subseteq {"OPEN", "REPLAY_REQUIRED", "RESOLVED"}
  /\ MaxFaults \in Nat /\ MaxMisses \in Nat /\ MaxCrashes \in Nat
  /\ MaxGiveUps \in Nat
  /\ MaxLate \in Nat /\ MaxCommands \in Nat /\ MaxValidations \in Nat

VARIABLES
  task,        \* status of the migration task
  barrier,     \* ValidationBarrierPositionValue, 0 when there is none
  validating,  \* validateTask is running
  latest,      \* newest row of cdc_positions, 0 when there is none
  spool,       \* the table cdc_spool in sequence order
  dlq,         \* the dead letter of each transaction
  target,      \* history: transactions in the order the target committed them
  reader,      \* the transaction the reader is at, and the last acknowledged
  calls,       \* what each handler is doing
  lock,        \* handlers that hold (first) or wait for a server's spool lock
  lease,       \* owner of the spool's drain lease
  scheduled,   \* servers with a live background drain goroutine
  budget       \* what is left of the bounds

vars == <<task, barrier, validating, latest, spool, dlq, target, reader,
          calls, lock, lease, scheduled, budget>>

Status == {"FULL_MIGRATING", "CDC_CATCHING_UP", "VALIDATING"}

\* The part of the task row that recordCDCProgress reads and stores.
Row == [status : Status, barrier : 0..MaxTx]

\* fenced: the letter's error is still the pre-COMMIT fence message.
Letter == [status : {"none", "OPEN", "COMMIT_UNCERTAIN", "REPLAY_REQUIRED", "RESOLVED"},
           retried : BOOLEAN, fenced : BOOLEAN]

NoLetter == [status |-> "none", retried |-> FALSE, fenced |-> FALSE]

Item == [tx : Tx, applied : BOOLEAN]

Listing == [row : Nat, tx : Tx]

Call == [kind : {"none", "reader", "drain", "replay", "resolve", "validate"},
         pc : {"idle", "late", "route", "list", "check", "apply", "commit",
               "checkpoint", "store", "complete", "applied", "failed",
               "capture", "enter"},
         req : 0..MaxTx,          \* the reader's transaction
         awaited : BOOLEAN,       \* the reader waits for the answer
         tx : 0..MaxTx,           \* the transaction being applied
         items : SUBSET Listing,  \* listed rows still to apply, tx the first
         draining : BOOLEAN,      \* the handler took the drain lease
         fence : {"none", "new", "reused"},
         seen : Row,              \* the task row as it will be stored
         copy : Letter,           \* the dead letter as the operator's call read it
         err : {"none", "plain", "uncertain", "blocked", "lost"}]

IdleCall == [kind |-> "none", pc |-> "idle", req |-> 0, awaited |-> FALSE,
             tx |-> 0, items |-> {}, draining |-> FALSE, fence |-> "none",
             seen |-> [status |-> "CDC_CATCHING_UP", barrier |-> 0],
             copy |-> NoLetter, err |-> "none"]

TypeOK ==
  /\ task \in Status
  /\ barrier \in 0..MaxTx
  /\ validating \in BOOLEAN
  /\ latest \in 0..MaxTx
  /\ spool \in Seq(Item)
  /\ dlq \in [Tx -> Letter]
  /\ target \in Seq(Tx)
  /\ reader \in [next : 1..(MaxTx + 1), acked : 0..MaxTx]
  /\ calls \in [Handlers -> Call]
  /\ lock \in [Servers -> Seq(Handlers)]
  /\ lease \in Servers \cup {"free", "stale"}
  /\ scheduled \in SUBSET Servers
  /\ budget \in [faults : 0..MaxFaults, misses : 0..MaxMisses,
                 crashes : 0..MaxCrashes, giveups : 0..MaxGiveUps,
                 late : 0..MaxLate, commands : 0..MaxCommands,
                 validations : 0..MaxValidations]

-----------------------------------------------------------------------------
Greatest(a, b) == IF a >= b THEN a ELSE b

Committed == {target[i] : i \in DOMAIN target}

Pending == {i \in DOMAIN spool : ~spool[i].applied}

PendingTx == {spool[i].tx : i \in Pending}

\* The spool's pending rows with their place in sequence order (ListCDCSpool).
Listed == {[row |-> i, tx |-> spool[i].tx] : i \in Pending}

\* cdcApplyReady
ApplyReady == task = "CDC_CATCHING_UP"

Spend(what) ==
  /\ budget[what] > 0
  /\ budget' = [budget EXCEPT ![what] = @ - 1]

\* A batch id is made from its position: a transaction has one row.
Staged(t) ==
  IF \E i \in DOMAIN spool : spool[i].tx = t
  THEN spool ELSE Append(spool, [tx |-> t, applied |-> FALSE])

\* Mutant: the mark is put on every row of the task.
MarkedAppliedAll(t) == [i \in DOMAIN spool |-> [spool[i] EXCEPT !.applied = TRUE]]

MarkedApplied(t) ==
  [i \in DOMAIN spool |->
     IF spool[i].tx = t THEN [spool[i] EXCEPT !.applied = TRUE] ELSE spool[i]]

Unresolved ==
  {t \in Tx : dlq[t].status \in {"COMMIT_UNCERTAIN", "REPLAY_REQUIRED"}}

\* Mutant: the next reader starts past what was staged but not applied.
ResumesPast(t) == t = latest + 1

\* Where a new reader process starts: behind the newest pending spool row,
\* or else behind the newest checkpoint.
ResumesBehind(t) ==
  IF Pending = {} THEN t = latest
  ELSE \E i \in Pending : t = spool[i].tx /\ \A j \in Pending : j <= i

Goto(h, c) == calls' = [calls EXCEPT ![h] = c]

Step(h, pc) == Goto(h, [calls[h] EXCEPT !.pc = pc])

Fail(h, err) == Goto(h, [calls[h] EXCEPT !.pc = "failed", !.err = err])

Enqueue(h) == lock' = [lock EXCEPT ![ServerOf[h]] = Append(@, h)]

\* What is left of a queue when h, its holder if it is in it at all, leaves.
Without(queue, h) ==
  IF queue # << >> /\ Head(queue) = h THEN Tail(queue) ELSE queue

\* Mutant: nobody waits for the lock.
HoldsAlways(h) == TRUE

Holds(h) ==
  /\ lock[ServerOf[h]] # << >>
  /\ Head(lock[ServerOf[h]]) = h

\* The handler returns: it releases what it holds and answers the reader,
\* who acknowledges the transaction to the source on success.
Return(h, ok) ==
  /\ calls' = [calls EXCEPT ![h] = IdleCall]
  /\ lock' = [lock EXCEPT ![ServerOf[h]] = Without(@, h)]
  /\ lease' = IF calls[h].draining /\ lease = ServerOf[h] THEN "free" ELSE lease
  /\ reader' = IF ok /\ calls[h].awaited
               THEN [next |-> calls[h].req + 1,
                     acked |-> Greatest(reader.acked, calls[h].req)]
               ELSE reader
  /\ scheduled' = IF calls[h].kind = "drain" /\ (~ok \/ Pending = {})
                  THEN scheduled \ {ServerOf[h]} ELSE scheduled

Init ==
  /\ task = "FULL_MIGRATING" /\ barrier = 0 /\ validating = FALSE
  /\ latest = 0 /\ spool = << >> /\ target = << >>
  /\ dlq = [t \in Tx |-> NoLetter]
  /\ reader = [next |-> 1, acked |-> 0]
  /\ calls = [h \in Handlers |-> IdleCall]
  /\ lock = [s \in Servers |-> << >>]
  /\ lease = "free" /\ scheduled = {}
  /\ budget = [faults |-> MaxFaults, misses |-> MaxMisses, crashes |-> MaxCrashes,
               giveups |-> MaxGiveUps, late |-> MaxLate,
               commands |-> MaxCommands, validations |-> MaxValidations]

tables == <<task, barrier, validating, latest, spool, dlq, target>>

-----------------------------------------------------------------------------
(***************************************************************************)
(* The reader: one transaction at a time, the next one only after the      *)
(* answer.  After an error or a dropped request it sends the same one      *)
(* again; the handler of a dropped request runs on.                        *)
(***************************************************************************)
Awaiting == \E h \in Handlers : calls[h].awaited

Send(h) ==
  LET c == [IdleCall EXCEPT !.kind = "reader", !.req = reader.next, !.awaited = TRUE]
  IN
  /\ calls[h].kind = "none" /\ ~Awaiting /\ reader.next \in Tx
  /\ \/ /\ Goto(h, [c EXCEPT !.pc = "route"])
        /\ Enqueue(h)
        /\ UNCHANGED budget
     \/ /\ Goto(h, [c EXCEPT !.pc = "late"])
        /\ Spend("late")
        /\ UNCHANGED lock
  /\ UNCHANGED <<tables, reader, lease, scheduled>>

\* A request that passed the owner check reaches the lock late.
Arrive(h) ==
  /\ calls[h].pc = "late"
  /\ Step(h, "route")
  /\ Enqueue(h)
  /\ UNCHANGED <<tables, reader, lease, scheduled, budget>>

Dropped == [h \in Handlers |-> [calls[h] EXCEPT !.awaited = FALSE]]

Reconnect ==
  /\ Awaiting /\ Spend("giveups")
  /\ calls' = Dropped
  /\ UNCHANGED <<tables, reader, lock, lease, scheduled>>

\* The reader process stops; the next one is rendered from durable state.
Restart ==
  /\ Spend("giveups")
  /\ calls' = Dropped
  /\ \E t \in 0..MaxTx :
       ResumesBehind(t) /\ reader' = [reader EXCEPT !.next = t + 1]
  /\ UNCHANGED <<tables, lock, lease, scheduled>>

-----------------------------------------------------------------------------
(***************************************************************************)
(* ApplyEngineJobCDCEvents under the spool lock: stage while the target    *)
(* must not be written, stage and drain behind a non-empty spool, or apply.*)
(***************************************************************************)
StageWhileFrozen(h) ==
  /\ calls[h].pc = "route" /\ Holds(h) /\ ~ApplyReady
  /\ spool' = Staged(calls[h].req)
  /\ Return(h, TRUE)
  /\ UNCHANGED <<task, barrier, validating, latest, dlq, target, budget>>

\* Mutant: an item behind a non-empty spool is applied at once.
MustQueueNever == FALSE

MustQueue == Pending # {}

StageBehindSpool(h) ==
  /\ calls[h].pc = "route" /\ Holds(h) /\ ApplyReady /\ MustQueue
  /\ spool' = Staged(calls[h].req)
  /\ Step(h, "list")
  /\ UNCHANGED <<task, barrier, validating, latest, dlq, target, reader, lock,
                 lease, scheduled, budget>>

ApplyDirectly(h) ==
  /\ calls[h].pc = "route" /\ Holds(h) /\ ApplyReady /\ ~MustQueue
  /\ Goto(h, [calls[h] EXCEPT !.pc = "check", !.tx = calls[h].req])
  /\ UNCHANGED <<tables, reader, lock, lease, scheduled, budget>>

-----------------------------------------------------------------------------
(***************************************************************************)
(* drainCDCSpoolLocked: under the lease, apply and mark the pending rows   *)
(* in sequence order, batch by batch.                                      *)
(***************************************************************************)
StartDrain(h) ==
  /\ calls[h].kind = "none" /\ (ServerOf[h] \in scheduled \/ Pending # {})
  /\ Goto(h, [IdleCall EXCEPT !.kind = "drain", !.pc = "list"])
  /\ Enqueue(h)
  /\ UNCHANGED <<tables, reader, lease, scheduled, budget>>

\* The status is read once, the lease renewed before every batch.
MayList(h) ==
  /\ lease \in {"free", ServerOf[h]}
  /\ calls[h].draining \/ ApplyReady

\* The first of the listed rows is applied next; after the last one the spool
\* is listed again.
TakeFirst(h, rows) ==
  IF rows = {}
  THEN Goto(h, [calls[h] EXCEPT !.pc = "list", !.items = {}, !.tx = 0])
  ELSE \E x \in rows :
         /\ \A y \in rows : x.row <= y.row
         /\ Goto(h, [calls[h] EXCEPT !.pc = "check", !.draining = TRUE,
                                     !.items = rows, !.tx = x.tx])

List(h) ==
  /\ calls[h].pc = "list" /\ Holds(h) /\ MayList(h) /\ Pending # {}
  /\ TakeFirst(h, Listed)
  /\ lease' = ServerOf[h]
  /\ UNCHANGED <<tables, reader, lock, scheduled, budget>>

\* DeleteAppliedCDCSpool keeps a configured number of applied rows.
EndDrain(h) ==
  /\ calls[h].pc = "list" /\ Holds(h)
  /\ ~MayList(h) \/ Pending = {}
  /\ \/ spool' = spool
     \/ MayList(h) /\ spool' = << >>
  /\ Return(h, TRUE)
  /\ UNCHANGED <<task, barrier, validating, latest, dlq, target, budget>>

AfterFirst(rows) == {x \in rows : \E y \in rows : y.row < x.row}

Mark(h) ==
  /\ calls[h].pc = "applied" /\ calls[h].draining
  /\ spool' = MarkedApplied(calls[h].tx)
  /\ TakeFirst(h, AfterFirst(calls[h].items))
  /\ UNCHANGED <<task, barrier, validating, latest, dlq, target, reader, lock,
                 lease, scheduled, budget>>

DirectDone(h) ==
  /\ calls[h].pc = "applied" /\ calls[h].kind = "reader" /\ ~calls[h].draining
  /\ Return(h, TRUE)
  /\ UNCHANGED <<tables, budget>>

-----------------------------------------------------------------------------
(***************************************************************************)
(* ApplyCDCEvents for transaction tx of handler h.                         *)
(***************************************************************************)
NotReady(h) ==
  /\ calls[h].pc = "check" /\ ~ApplyReady
  /\ Fail(h, "plain")
  /\ UNCHANGED <<tables, reader, lock, lease, scheduled, budget>>

\* Only the newest checkpoint is compared.
IsDuplicate(t) == latest = t

\* cleanupTransientCDCCommitFence
Transient(l) == l.status = "COMMIT_UNCERTAIN" /\ ~l.retried /\ l.fenced

SkipDuplicate(h) ==
  LET t == calls[h].tx IN
  /\ calls[h].pc = "check" /\ ApplyReady /\ IsDuplicate(t)
  /\ \/ /\ dlq' = IF Transient(dlq[t]) THEN [dlq EXCEPT ![t] = NoLetter] ELSE dlq
        /\ UNCHANGED budget
     \/ /\ Transient(dlq[t]) /\ Spend("misses")
        /\ UNCHANGED dlq
  /\ Step(h, "applied")
  /\ UNCHANGED <<task, barrier, validating, latest, spool, target, reader, lock,
                 lease, scheduled>>

\* When the newest checkpoint cannot be read, the transaction passes for new.
PassesForNew(t) == IF IsDuplicate(t) THEN Spend("misses") ELSE UNCHANGED budget

\* An unresolved letter blocks every apply but the replay of that letter,
\* and that only when the operator said it did not commit.
Blockers(h) ==
  {t \in Unresolved : ~(/\ calls[h].kind = "replay" /\ t = calls[h].tx
                        /\ dlq[t].status = "REPLAY_REQUIRED")}

\* Of several unresolved letters the most recently updated one decides.
Blocked(h) ==
  /\ calls[h].pc = "check" /\ ApplyReady /\ PassesForNew(calls[h].tx)
  /\ Blockers(h) # {}
  /\ Fail(h, "blocked")
  /\ UNCHANGED <<tables, reader, lock, lease, scheduled>>

Accept(h) ==
  LET t == calls[h].tx IN
  /\ calls[h].pc = "check" /\ ApplyReady /\ PassesForNew(t)
  /\ Blockers(h) = {} \/ Unresolved \ Blockers(h) # {}
  /\ Step(h, IF t \in Heartbeats THEN "checkpoint" ELSE "apply")
  /\ UNCHANGED <<tables, reader, lock, lease, scheduled>>

\* Mutant: no fence is written.
FencedNever(l) == l

Fenced(l) == [l EXCEPT !.status = "COMMIT_UNCERTAIN", !.fenced = TRUE]

\* The rows are written in an open target transaction; beginCDCCommitFence
\* retains them before COMMIT is sent.
Fence(h) ==
  LET t == calls[h].tx IN
  /\ calls[h].pc = "apply" /\ t \notin DDL
  /\ dlq' = [dlq EXCEPT ![t] = Fenced(@)]
  /\ Goto(h, [calls[h] EXCEPT !.pc = "commit",
                !.fence = IF dlq[t].status = "none" THEN "new" ELSE "reused"])
  /\ UNCHANGED <<task, barrier, validating, latest, spool, target, reader, lock,
                 lease, scheduled, budget>>

CommitOrDDL(h) ==
  /\ \/ calls[h].pc = "commit"
     \/ calls[h].pc = "apply" /\ calls[h].tx \in DDL
  /\ target' = Append(target, calls[h].tx)
  /\ Step(h, "checkpoint")
  /\ UNCHANGED <<task, barrier, validating, latest, spool, dlq, reader, lock,
                 lease, scheduled, budget>>

\* COMMIT returns an error: the target committed or it did not.
CommitUnknown(h) ==
  /\ calls[h].pc = "commit" /\ Spend("faults")
  /\ target' \in {target, Append(target, calls[h].tx)}
  /\ Fail(h, "uncertain")
  /\ UNCHANGED <<task, barrier, validating, latest, spool, dlq, reader, lock,
                 lease, scheduled>>

\* recordCDCProgress: the position, then the whole task row as it was read.
Checkpoint(h) ==
  /\ calls[h].pc = "checkpoint" /\ ApplyReady
  /\ latest' = calls[h].tx
  /\ Goto(h, [calls[h] EXCEPT !.pc = "store",
                              !.seen = [status |-> task, barrier |-> barrier]])
  /\ UNCHANGED <<task, barrier, validating, spool, dlq, target, reader, lock,
                 lease, scheduled, budget>>

CheckpointRefused(h) ==
  /\ calls[h].pc = "checkpoint" /\ ~ApplyReady
  /\ Fail(h, "plain")
  /\ UNCHANGED <<tables, reader, lock, lease, scheduled, budget>>

StoreTask(h) ==
  /\ calls[h].pc = "store"
  /\ task' = calls[h].seen.status /\ barrier' = calls[h].seen.barrier
  /\ Step(h, "complete")
  /\ UNCHANGED <<validating, latest, spool, dlq, target, reader, lock,
                 lease, scheduled, budget>>

Resolved(l) == [l EXCEPT !.status = "RESOLVED", !.fenced = FALSE]

\* completeCDCCommitFence: a new fence is deleted, a reused letter is kept.
CompleteFence(h) ==
  LET t == calls[h].tx
      gone == calls[h].fence = "reused" /\ dlq[t].status = "none"
  IN
  /\ calls[h].pc = "complete" /\ calls[h].kind # "resolve"
  /\ dlq' = CASE calls[h].fence = "new" -> [dlq EXCEPT ![t] = NoLetter]
              [] calls[h].fence = "reused" /\ ~gone -> [dlq EXCEPT ![t] = Resolved(@)]
              [] OTHER -> dlq
  /\ IF gone THEN Fail(h, "plain") ELSE Step(h, "applied")
  /\ UNCHANGED <<task, barrier, validating, latest, spool, target, reader, lock,
                 lease, scheduled, budget>>

\* Mutant: the status is always that of the new error.
RecordedPlain(l, err) ==
  [status |-> IF err = "uncertain" THEN "COMMIT_UNCERTAIN" ELSE "OPEN",
   retried |-> TRUE, fenced |-> FALSE]

\* recordCDCDeadLetter: an unresolved ambiguous COMMIT stays one.
Recorded(l, err) ==
  [status |-> IF err = "uncertain" \/ l.status = "COMMIT_UNCERTAIN"
              THEN "COMMIT_UNCERTAIN" ELSE "OPEN",
   retried |-> TRUE, fenced |-> FALSE]

\* A blocked transaction gets no letter, nor does an error outside the apply.
\* A letter that cannot be read is written anew.
RecordFailure(h) ==
  LET c == calls[h] IN
  /\ c.pc = "failed" /\ c.kind \in {"reader", "drain"}
  /\ \/ /\ dlq' = IF c.err \in {"plain", "uncertain"}
                  THEN [dlq EXCEPT ![c.tx] = Recorded(@, c.err)] ELSE dlq
        /\ UNCHANGED budget
     \/ /\ c.err \in {"plain", "uncertain"} /\ dlq[c.tx] # NoLetter
        /\ Spend("misses")
        /\ dlq' = [dlq EXCEPT ![c.tx] = Recorded(NoLetter, c.err)]
  /\ Return(h, FALSE)
  /\ UNCHANGED <<task, barrier, validating, latest, spool, target>>

\* A repository or target call of handler h fails.  Errors of the spool and
\* of the dead-letter write itself leave no letter.
WriteFails(h) ==
  LET c == calls[h] IN
  /\ Spend("faults")
  /\ \/ /\ c.pc \in {"check", "apply", "checkpoint", "store", "complete"}
        /\ Fail(h, "plain")
     \/ /\ \/ c.pc \in {"route", "list"} /\ Holds(h)
           \/ c.pc = "applied" /\ c.draining
           \/ c.pc = "failed" /\ c.err \notin {"blocked", "lost"}
        /\ Fail(h, "lost")
  /\ UNCHANGED <<tables, reader, lock, lease, scheduled>>

-----------------------------------------------------------------------------
(***************************************************************************)
(* The operator's replay and resolution: no lock, one at a time.           *)
(***************************************************************************)
OperatorIdle == \A h \in Handlers : calls[h].kind \notin {"replay", "resolve"}

\* The operator waits for handlers that are working on the transaction.
InFlight(t) ==
  \E h \in Handlers : /\ calls[h].tx = t
                      /\ calls[h].pc \in {"apply", "commit", "checkpoint", "store",
                                          "complete", "failed"}

Replay(h, t) ==
  /\ calls[h].kind = "none" /\ OperatorIdle /\ dlq[t].status \in Replayed
  /\ Spend("commands")
  /\ Goto(h, [IdleCall EXCEPT !.kind = "replay", !.pc = "check", !.tx = t,
                              !.copy = dlq[t]])
  /\ UNCHANGED <<tables, reader, lock, lease, scheduled>>

\* The copy read at the start is stored, whatever the letter is by now.
UpdatedLetter(t, l) ==
  IF dlq[t].status = "none" THEN dlq ELSE [dlq EXCEPT ![t] = l]

ReplayDone(h) ==
  LET c == calls[h] IN
  /\ c.pc = "applied" /\ c.kind = "replay"
  /\ dlq' = UpdatedLetter(c.tx, Resolved(c.copy))
  /\ Return(h, TRUE)
  /\ UNCHANGED <<task, barrier, validating, latest, spool, target, budget>>

ReplayFailed(h) ==
  LET c == calls[h] IN
  /\ c.pc = "failed" /\ c.kind = "replay"
  /\ dlq' = IF c.err = "lost" THEN dlq ELSE
            UpdatedLetter(c.tx,
              [c.copy EXCEPT !.retried = TRUE, !.fenced = FALSE,
                 !.status = IF c.err = "uncertain" THEN "COMMIT_UNCERTAIN" ELSE @])
  /\ Return(h, FALSE)
  /\ UNCHANGED <<task, barrier, validating, latest, spool, target, budget>>

\* ResolveCDCCommitUncertain.  The operator looks at the target and says
\* what is true of it.
ResolveCommitted(h, t) ==
  /\ "COMMITTED" \in Decisions /\ t \in Committed
  /\ calls[h].kind = "none" /\ OperatorIdle /\ ~InFlight(t)
  /\ dlq[t].status = "COMMIT_UNCERTAIN" /\ Spend("commands")
  /\ Goto(h, [IdleCall EXCEPT !.kind = "resolve", !.pc = "checkpoint", !.tx = t,
                              !.copy = dlq[t]])
  /\ UNCHANGED <<tables, reader, lock, lease, scheduled>>

ResolveNotCommitted(h, t) ==
  LET l == [dlq[t] EXCEPT !.status = "REPLAY_REQUIRED", !.fenced = FALSE] IN
  /\ "NOT_COMMITTED" \in Decisions /\ t \notin Committed
  /\ calls[h].kind = "none" /\ OperatorIdle /\ ~InFlight(t)
  /\ dlq[t].status = "COMMIT_UNCERTAIN" /\ Spend("commands")
  /\ dlq' = [dlq EXCEPT ![t] = l]
  /\ Goto(h, [IdleCall EXCEPT !.kind = "replay", !.pc = "check", !.tx = t,
                              !.copy = l])
  /\ UNCHANGED <<task, barrier, validating, latest, spool, target, reader, lock,
                 lease, scheduled>>

ResolveDone(h) ==
  LET c == calls[h] IN
  /\ c.pc = "complete" /\ c.kind = "resolve"
  /\ dlq' = UpdatedLetter(c.tx, Resolved(c.copy))
  /\ Return(h, TRUE)
  /\ UNCHANGED <<task, barrier, validating, latest, spool, target, budget>>

ResolveFailed(h) ==
  /\ calls[h].pc = "failed" /\ calls[h].kind = "resolve"
  /\ Return(h, FALSE)
  /\ UNCHANGED <<tables, budget>>

-----------------------------------------------------------------------------
(***************************************************************************)
(* maybeStartValidationAfterCatchup and ValidateNow: under the spool lock, *)
(* with an empty spool, take the newest checkpoint as the barrier and      *)
(* freeze the target.                                                      *)
(***************************************************************************)
StartValidation(h) ==
  /\ calls[h].kind = "none" /\ Spend("validations")
  /\ Goto(h, [IdleCall EXCEPT !.kind = "validate", !.pc = "capture"])
  /\ Enqueue(h)
  /\ UNCHANGED <<tables, reader, lease, scheduled>>

CaptureBarrier(h) ==
  LET caught == task = "CDC_CATCHING_UP" /\ Pending = {} IN
  /\ calls[h].pc = "capture" /\ Holds(h)
  /\ IF caught
     THEN /\ Goto(h, [calls[h] EXCEPT !.pc = "enter", !.tx = latest])
          /\ UNCHANGED <<reader, lock, lease, scheduled>>
     ELSE Return(h, FALSE)
  /\ UNCHANGED <<tables, budget>>

EnterValidation(h) ==
  /\ calls[h].pc = "enter"
  /\ task' = "VALIDATING" /\ barrier' = calls[h].tx /\ validating' = TRUE
  /\ Return(h, TRUE)
  /\ UNCHANGED <<latest, spool, dlq, target, budget>>

\* The end of validateTask: results are kept or, when the checkpoint moved,
\* discarded; either way the target is released and a drain scheduled.
EndValidation ==
  /\ validating
  /\ validating' = FALSE
  /\ task' = "CDC_CATCHING_UP"
  /\ barrier' = IF barrier = latest THEN barrier ELSE 0
  /\ \E s \in Servers : scheduled' = scheduled \cup {s}
  /\ UNCHANGED <<latest, spool, dlq, target, reader, calls, lock, lease, budget>>

\* refreshProgress: the snapshot is complete.
FinishSnapshot ==
  /\ task = "FULL_MIGRATING"
  /\ task' = "CDC_CATCHING_UP"
  /\ \E s \in Servers : scheduled' = scheduled \cup {s}
  /\ UNCHANGED <<barrier, validating, latest, spool, dlq, target, reader, calls,
                 lock, lease, budget>>

-----------------------------------------------------------------------------
\* A control-plane process dies.  Its drain lease stays until it runs out;
\* an interrupted validation is started again by the recovery loop.
Crash(s) ==
  /\ Spend("crashes")
  /\ calls' = [h \in Handlers |-> IF ServerOf[h] = s THEN IdleCall ELSE calls[h]]
  /\ lock' = [lock EXCEPT ![s] = << >>]
  /\ lease' = IF lease = s THEN "stale" ELSE lease
  /\ scheduled' = scheduled \ {s}
  /\ UNCHANGED <<tables, reader>>

LeaseExpires ==
  /\ \/ lease = "stale" /\ UNCHANGED budget
     \/ lease \in Servers /\ Spend("faults")
  /\ lease' = "free"
  /\ UNCHANGED <<tables, reader, calls, lock, scheduled>>

-----------------------------------------------------------------------------
Serve(h) ==
  \/ Arrive(h) \/ StageWhileFrozen(h) \/ StageBehindSpool(h) \/ ApplyDirectly(h)
  \/ List(h) \/ EndDrain(h) \/ Mark(h) \/ DirectDone(h)
  \/ NotReady(h) \/ SkipDuplicate(h) \/ Blocked(h) \/ Accept(h)
  \/ Fence(h) \/ CommitOrDDL(h) \/ Checkpoint(h) \/ CheckpointRefused(h)
  \/ StoreTask(h) \/ CompleteFence(h) \/ RecordFailure(h)
  \/ ReplayDone(h) \/ ReplayFailed(h) \/ ResolveDone(h) \/ ResolveFailed(h)
  \/ CaptureBarrier(h) \/ EnterValidation(h)

Operate(h, t) ==
  Replay(h, t) \/ ResolveCommitted(h, t) \/ ResolveNotCommitted(h, t)

Next ==
  \/ \E h \in Handlers :
       \/ Send(h) \/ StartDrain(h) \/ StartValidation(h)
       \/ Serve(h) \/ WriteFails(h) \/ CommitUnknown(h)
       \/ \E t \in Tx : Operate(h, t)
  \/ Reconnect \/ Restart
  \/ EndValidation \/ FinishSnapshot
  \/ \E s \in Servers : Crash(s)
  \/ LeaseExpires

Spec == Init /\ [][Next]_vars

\* Handlers run to their end, the reader goes on sending, a background drain
\* and a validation go on, and the lease of a dead server runs out.
Fairness ==
  /\ \A h \in Handlers : WF_vars(Serve(h)) /\ WF_vars(Send(h))
  /\ \A s \in Servers :
       WF_vars(\E h \in Handlers : /\ ServerOf[h] = s /\ s \in scheduled
                                  /\ StartDrain(h))
  /\ WF_vars(FinishSnapshot) /\ WF_vars(EndValidation)
  /\ WF_vars(LeaseExpires /\ lease = "stale")

FairSpec == Spec /\ Fairness

-----------------------------------------------------------------------------
(***************************************************************************)
(* Properties.                                                             *)
(***************************************************************************)
Done(t) == t \in Heartbeats \/ t \in Committed

\* Every transaction up to the newest checkpoint is in the target: neither the
\* spool, a fence, a replay nor a restart of the reader lets a checkpoint
\* (recordCDCProgress) get ahead of a transaction that was never applied.
CheckpointBehindTarget == \A t \in 1..latest : Done(t)

\* What was acknowledged to the source, which may then discard it, is in the
\* target or still pending in the spool (ApplyEngineJobCDCEvents,
\* stageCDCEvents, MarkCDCSpoolApplied).
AckedIsDurable == \A t \in 1..reader.acked : Done(t) \/ t \in PendingTx

\* The target commits each transaction once and in source order.  DDL, which
\* cannot be part of a target transaction, may run again right away.
AppliedOnceInOrder ==
  \A i, j \in DOMAIN target :
    i < j => target[i] < target[j] \/ (target[i] = target[j] /\ target[i] \in DDL)

\* With one server and no operator the whole path, staging, draining, fences,
\* retries, crashes and restarts of the reader included, is an apply in order:
\* it implements OrderedApply (ApplyEngineJobCDCEvents, drainCDCSpoolLocked,
\* ApplyCDCEvents, recordCDCProgress).
Promised ==
  INSTANCE OrderedApply WITH checkpoint <- latest, kept <- PendingTx,
                             acked <- reader.acked
AppliesInOrder == Promised!Spec

Undisturbed == budget.faults = MaxFaults /\ budget.crashes = MaxCrashes

\* While a validation compares, the target holds nothing behind its barrier
\* (captureValidationBarrier), unless a fault or a crash left a
\* COMMIT without its checkpoint.
BarrierHolds == validating /\ Undisturbed => \A t \in Committed : t <= barrier

\* The target does not change while a validation compares it with the source:
\* cdcApplyReady and the spool lock freeze it before the barrier is taken.
FrozenWhileValidating == [][validating => target' = target]_vars

\* The newest checkpoint, where a new reader starts and what duplicates are
\* recognised by, never moves backwards (CreateCDCPosition).
CheckpointMoves == [][latest' >= latest]_vars

\* A letter stops saying that a COMMIT is ambiguous only when its transaction is
\* checkpointed, or when an operator found that it did not commit
\* (completeCDCCommitFence, recordCDCDeadLetter, ReplayCDCDeadLetter).
UncertainKept ==
  [][\A t \in Tx :
       /\ dlq[t].status = "COMMIT_UNCERTAIN"
       /\ dlq'[t].status # "COMMIT_UNCERTAIN"
       => \/ latest >= t
          \/ dlq'[t].status = "REPLAY_REQUIRED" /\ t \notin Committed]_vars

\* A transaction acknowledged to the source is in the end applied and
\* checkpointed: the spool drains once the snapshot or a validation ends
\* (scheduleCDCSpoolDrain).  After a fault the operator may have to decide,
\* after a crash nobody may be left to drain.
AckedReachesTarget ==
  \A t \in Tx : reader.acked >= t ~> (latest >= t \/ ~Undisturbed)
=============================================================================
