--------------------------- MODULE CDCApply_proofs ---------------------------
(***************************************************************************)
(* Proofs about CDCApply for every number of transactions and handlers.    *)
(*                                                                         *)
(* For every number of servers and every bound of the faults: no           *)
(* checkpoint is ahead of a transaction that was not applied, and what was *)
(* acknowledged to the source is in the target or pending in the spool.    *)
(* Neither the spool lock nor the drain lease is used: the argument is     *)
(* that whatever a handler holds, it holds a transaction whose             *)
(* predecessors are in the target already, and that never stops being so.  *)
(*                                                                         *)
(* For one server and no operator (Serial, below), where the spool lock    *)
(* orders all applies: each transaction is committed once and in order,    *)
(* the checkpoint moves forward only, an ambiguous COMMIT is not           *)
(* forgotten, and the target stands still while it is validated.           *)
(***************************************************************************)
EXTENDS CDCApply, TLAPS

\* What the target has, and what it or the spool has.  Both only grow.
DoneTx == {t \in Tx : Done(t)}

KeptTx == DoneTx \cup PendingTx

Below(t) == 1..(t - 1)

LatestFine == 1..latest \subseteq DoneTx

ReaderFine ==
  /\ Below(reader.next) \subseteq KeptTx
  /\ 1..reader.acked \subseteq KeptTx

\* A row was staged after all its predecessors; a row behind one with a later
\* transaction is a repetition of what was applied before.
SpoolFine ==
  /\ \A i \in DOMAIN spool : spool[i].applied => spool[i].tx \in DoneTx
  /\ \A i \in DOMAIN spool : Below(spool[i].tx) \subseteq KeptTx
  /\ \A i, j \in Pending :
       i < j /\ spool[j].tx < spool[i].tx => spool[j].tx \in DoneTx

\* A letter is only written for a transaction whose turn had come.
LettersFine ==
  \A t \in Tx : dlq[t].status # "none" => Below(t) \subseteq DoneTx

Applied == {"checkpoint", "store", "complete", "applied"}

Working == {"check", "apply", "commit"} \cup Applied

\* Listed rows can be applied one after the other.
ListingFine(rows, D) ==
  /\ \A x, y \in rows : x.row = y.row => x.tx = y.tx
  /\ \A x \in rows : \A t \in Below(x.tx) :
       t \in D \/ \E y \in rows : y.row < x.row /\ y.tx = t

\* What a handler holds, when D was applied and K applied or staged.
CallFine(c, D, K) ==
  /\ Below(c.tx) \subseteq D
  /\ c.pc \in Working => c.tx \in Tx
  /\ c.pc \in Applied => c.tx \in D
  /\ c.kind = "reader" => c.req \in Tx /\ Below(c.req) \subseteq K
  /\ c.awaited => c.kind = "reader"
  /\ c.pc \in {"route", "late"} => c.kind = "reader" /\ ~c.draining
  /\ c.pc \in {"capture", "enter"} => c.kind = "validate"
  /\ c.kind = "reader" /\ (c.pc = "list" \/ c.draining) => c.req \in K
  /\ c.kind = "reader" /\ ~c.draining /\ c.pc \in Working => c.tx = c.req
  /\ ListingFine(c.items, D)
  /\ c.draining /\ c.pc \in Working =>
       \E x \in c.items : x.tx = c.tx /\ \A y \in c.items : x.row <= y.row

CallsFine == \A h \in Handlers : CallFine(calls[h], DoneTx, KeptTx)

IInv ==
  TypeOK /\ LatestFine /\ ReaderFine /\ SpoolFine /\ LettersFine /\ CallsFine

-----------------------------------------------------------------------------
(***************************************************************************)
(* Records.                                                                *)
(***************************************************************************)
LEMMA IdleCallType == IdleCall \in Call
<1>1. 0 \in 0..MaxTx
  BY ConstantsOK
<1>2. NoLetter \in Letter
  BY DEF NoLetter, Letter
<1>3. [status |-> "CDC_CATCHING_UP", barrier |-> 0] \in Row
  BY <1>1 DEF Row, Status
<1> QED BY <1>1, <1>2, <1>3 DEF IdleCall, Call

LEMMA IdleCallFine == \A D, K : CallFine(IdleCall, D, K)
BY DEF IdleCall, CallFine, ListingFine, Below, Working, Applied

\* What was done stays done, and what a handler holds stays right.
LEMMA CallFineGrows ==
  ASSUME NEW c, NEW D, NEW K, NEW D1, NEW K1,
         D \subseteq D1, K \subseteq K1, CallFine(c, D, K)
  PROVE  CallFine(c, D1, K1)
BY DEF CallFine, ListingFine

LEMMA StepType ==
  ASSUME NEW c \in Call,
         NEW p \in {"idle", "late", "route", "list", "check", "apply", "commit",
                    "checkpoint", "store", "complete", "applied", "failed",
                    "capture", "enter"}
  PROVE  [c EXCEPT !.pc = p] \in Call
BY DEF Call

LEMMA FailType ==
  ASSUME NEW c \in Call, NEW e \in {"none", "plain", "uncertain", "blocked", "lost"}
  PROVE  [c EXCEPT !.pc = "failed", !.err = e] \in Call
BY DEF Call

LEMMA FailFine ==
  ASSUME NEW c \in Call, NEW e, NEW D, NEW K, CallFine(c, D, K)
  PROVE  CallFine([c EXCEPT !.pc = "failed", !.err = e], D, K)
BY DEF CallFine, Call, Working, Applied

-----------------------------------------------------------------------------
(***************************************************************************)
(* Effects of the parts of a step.                                         *)
(***************************************************************************)
LEMMA NothingLost ==
  ASSUME UNCHANGED <<spool, target>>
  PROVE  DoneTx' = DoneTx /\ PendingTx' = PendingTx /\ KeptTx' = KeptTx
<1>1. Pending' = Pending
  BY DEF Pending
<1>2. PendingTx' = PendingTx
  BY <1>1 DEF PendingTx
<1>3. DoneTx' = DoneTx
  BY DEF DoneTx, Done, Committed
<1> QED BY <1>2, <1>3 DEF KeptTx

LEMMA SpoolSame ==
  ASSUME SpoolFine, UNCHANGED spool, DoneTx \subseteq DoneTx', KeptTx \subseteq KeptTx'
  PROVE  SpoolFine'
BY DEF SpoolFine, Pending

LEMMA Appended ==
  ASSUME NEW t \in Tx, target \in Seq(Tx), target' = Append(target, t),
         UNCHANGED spool
  PROVE  /\ DoneTx \subseteq DoneTx' /\ t \in DoneTx'
         /\ KeptTx \subseteq KeptTx' /\ target' \in Seq(Tx)
<1>1. Committed \subseteq Committed' /\ t \in Committed'
  BY DEF Committed
<1>2. PendingTx' = PendingTx
  BY DEF PendingTx, Pending
<1> QED BY <1>1, <1>2 DEF DoneTx, Done, KeptTx

\* The call of one handler changes.
LEMMA OneCall ==
  ASSUME TypeOK, CallsFine, NEW h \in Handlers, NEW c \in Call, Goto(h, c),
         DoneTx \subseteq DoneTx', KeptTx \subseteq KeptTx',
         CallFine(c, DoneTx', KeptTx')
  PROVE  calls' \in [Handlers -> Call] /\ CallsFine'
<1>1. calls \in [Handlers -> Call] /\ calls' = [calls EXCEPT ![h] = c]
  BY DEF TypeOK, Goto
<1>2. ASSUME NEW g \in Handlers PROVE CallFine(calls'[g], DoneTx', KeptTx')
  <2>1. CASE g = h
    BY <1>1, <2>1
  <2>2. CASE g # h
    <3>1. CallFine(calls[g], DoneTx, KeptTx)
      BY DEF CallsFine
    <3>2. calls'[g] = calls[g]
      BY <1>1, <2>2
    <3> QED BY <3>1, <3>2, CallFineGrows
  <2> QED BY <2>1, <2>2
<1> QED BY <1>1, <1>2 DEF CallsFine

LEMMA Returned ==
  ASSUME TypeOK, CallsFine, ReaderFine, NEW h \in Handlers, NEW ok \in BOOLEAN,
         Return(h, ok), DoneTx \subseteq DoneTx', KeptTx \subseteq KeptTx',
         ok /\ calls[h].awaited => calls[h].req \in KeptTx'
  PROVE  /\ calls' \in [Handlers -> Call] /\ CallsFine'
         /\ reader' \in [next : 1..(MaxTx + 1), acked : 0..MaxTx] /\ ReaderFine'
<1>1. calls' \in [Handlers -> Call] /\ CallsFine'
  BY IdleCallType, IdleCallFine, OneCall DEF Return, Goto
<1>2. CASE ok /\ calls[h].awaited
  <2> DEFINE r == calls[h].req
  <2>1. r \in Tx /\ Below(r) \subseteq KeptTx
    BY <1>2 DEF CallsFine, CallFine
  <2>2. 1..r \subseteq KeptTx'
    BY <1>2, <2>1, ConstantsOK DEF Below, Tx
  <2>3. reader' = [next |-> r + 1, acked |-> Greatest(reader.acked, r)]
    BY <1>2 DEF Return
  <2>4. reader.acked \in 0..MaxTx /\ 1..reader.acked \subseteq KeptTx'
    BY DEF TypeOK, ReaderFine
  <2>5. ReaderFine'
    BY <2>1, <2>2, <2>3, <2>4, ConstantsOK DEF ReaderFine, Below, Greatest, Tx
  <2> QED BY <1>1, <2>1, <2>3, <2>4, <2>5, ConstantsOK DEF Greatest, Tx
<1>3. CASE ~(ok /\ calls[h].awaited)
  <2>1. reader' = reader
    BY <1>3 DEF Return
  <2> QED BY <1>1, <2>1 DEF ReaderFine, TypeOK
<1> QED BY <1>2, <1>3

\* One letter changes, or is written for a transaction whose turn has come.
LEMMA OneLetter ==
  ASSUME dlq \in [Tx -> Letter], LettersFine, DoneTx \subseteq DoneTx',
         NEW t, NEW l \in Letter, dlq' = [dlq EXCEPT ![t] = l],
         t \in Tx => \/ l.status = "none" \/ dlq[t].status # "none"
                     \/ Below(t) \subseteq DoneTx
  PROVE  dlq' \in [Tx -> Letter] /\ LettersFine'
BY DEF LettersFine

-----------------------------------------------------------------------------
(***************************************************************************)
(* The locks, the lease and the bounds.                                    *)
(***************************************************************************)
QueuesType ==
  /\ lock \in [Servers -> Seq(Handlers)]
  /\ lease \in Servers \cup {"free", "stale"}
  /\ scheduled \in SUBSET Servers

BudgetType ==
  budget \in [faults : 0..MaxFaults, misses : 0..MaxMisses,
             crashes : 0..MaxCrashes, giveups : 0..MaxGiveUps,
             late : 0..MaxLate, commands : 0..MaxCommands,
             validations : 0..MaxValidations]

LEMMA SpendType ==
  ASSUME BudgetType,
         NEW w \in {"faults", "misses", "crashes", "giveups", "late", "commands",
                    "validations"}, Spend(w)
  PROVE  BudgetType'
BY ConstantsOK DEF BudgetType, Spend

LEMMA WithoutType ==
  ASSUME NEW q \in Seq(Handlers), NEW h PROVE Without(q, h) \in Seq(Handlers)
BY DEF Without

LEMMA EnqueueType ==
  ASSUME QueuesType, NEW h \in Handlers, Enqueue(h), UNCHANGED <<lease, scheduled>>
  PROVE  QueuesType'
BY ConstantsOK DEF QueuesType, Enqueue

LEMMA ReturnQueues ==
  ASSUME QueuesType, NEW h \in Handlers, NEW ok \in BOOLEAN, Return(h, ok)
  PROVE  QueuesType'
<1>1. ServerOf[h] \in Servers
  BY ConstantsOK
<1>2. lock' \in [Servers -> Seq(Handlers)]
  BY <1>1, WithoutType DEF QueuesType, Return
<1> QED BY <1>1, <1>2 DEF QueuesType, Return

\* Every step leaves the locks, the lease and the bounds well-typed.
LEMMA QueuesStep == TypeOK /\ Next => QueuesType' /\ BudgetType'
<1> SUFFICES ASSUME TypeOK, Next PROVE QueuesType' /\ BudgetType'
  OBVIOUS
<1>t. QueuesType /\ BudgetType
  BY DEF TypeOK, QueuesType, BudgetType
<1>k. UNCHANGED <<lock, lease, scheduled>> => QueuesType'
  BY <1>t DEF QueuesType
<1>b. UNCHANGED budget => BudgetType'
  BY <1>t DEF BudgetType
<1>1. ASSUME NEW h \in Handlers,
             Send(h) \/ StartDrain(h) \/ StartValidation(h) \/ WriteFails(h)
             \/ CommitUnknown(h) \/ \E t \in Tx : Operate(h, t)
      PROVE  QueuesType' /\ BudgetType'
  <2>1. CASE Send(h)
    BY <1>t, <1>k, <1>b, <2>1, EnqueueType, SpendType DEF Send
  <2>2. CASE StartDrain(h)
    BY <1>t, <1>k, <1>b, <2>2, EnqueueType DEF StartDrain
  <2>3. CASE StartValidation(h)
    BY <1>t, <1>k, <1>b, <2>3, EnqueueType, SpendType DEF StartValidation
  <2>4. CASE WriteFails(h)
    BY <1>t, <1>k, <1>b, <2>4, SpendType DEF WriteFails
  <2>5. CASE CommitUnknown(h)
    BY <1>t, <1>k, <1>b, <2>5, SpendType DEF CommitUnknown
  <2>6. CASE \E t \in Tx : Operate(h, t)
    BY <1>t, <1>k, <1>b, <2>6, SpendType DEF Operate, Replay, ResolveCommitted, ResolveNotCommitted
  <2> QED BY <1>1, <2>1, <2>2, <2>3, <2>4, <2>5, <2>6
<1>2. ASSUME NEW h \in Handlers, Serve(h)
      PROVE  QueuesType' /\ BudgetType'
  <2>1. CASE ApplyDirectly(h)
    BY <1>t, <1>k, <1>b, <2>1 DEF ApplyDirectly
  <2>2. CASE StageBehindSpool(h)
    BY <1>t, <1>k, <1>b, <2>2 DEF StageBehindSpool
  <2>3. CASE Mark(h)
    BY <1>t, <1>k, <1>b, <2>3 DEF Mark
  <2>4. CASE NotReady(h)
    BY <1>t, <1>k, <1>b, <2>4 DEF NotReady
  <2>5. CASE CheckpointRefused(h)
    BY <1>t, <1>k, <1>b, <2>5 DEF CheckpointRefused
  <2>6. CASE Fence(h)
    BY <1>t, <1>k, <1>b, <2>6 DEF Fence
  <2>7. CASE CommitOrDDL(h)
    BY <1>t, <1>k, <1>b, <2>7 DEF CommitOrDDL
  <2>8. CASE Checkpoint(h)
    BY <1>t, <1>k, <1>b, <2>8 DEF Checkpoint
  <2>9. CASE StoreTask(h)
    BY <1>t, <1>k, <1>b, <2>9 DEF StoreTask
  <2>10. CASE CompleteFence(h)
    BY <1>t, <1>k, <1>b, <2>10 DEF CompleteFence
  <2>11. CASE Arrive(h)
    BY <1>t, <1>k, <1>b, <2>11, EnqueueType DEF Arrive
  <2>12. CASE List(h)
    BY <1>t, <1>b, <2>12, ConstantsOK DEF List, QueuesType
  <2>13. CASE SkipDuplicate(h)
    BY <1>t, <1>k, <1>b, <2>13, SpendType DEF SkipDuplicate
  <2>14. CASE Blocked(h)
    BY <1>t, <1>k, <1>b, <2>14, SpendType DEF Blocked, PassesForNew
  <2>15. CASE Accept(h)
    BY <1>t, <1>k, <1>b, <2>15, SpendType DEF Accept, PassesForNew
  <2>16. CASE StageWhileFrozen(h)
    BY <1>t, <1>k, <1>b, <2>16, ReturnQueues DEF StageWhileFrozen
  <2>17. CASE EndDrain(h)
    BY <1>t, <1>k, <1>b, <2>17, ReturnQueues DEF EndDrain
  <2>18. CASE DirectDone(h)
    BY <1>t, <1>k, <1>b, <2>18, ReturnQueues DEF DirectDone
  <2>19. CASE ReplayDone(h)
    BY <1>t, <1>k, <1>b, <2>19, ReturnQueues DEF ReplayDone
  <2>20. CASE ReplayFailed(h)
    BY <1>t, <1>k, <1>b, <2>20, ReturnQueues DEF ReplayFailed
  <2>21. CASE ResolveDone(h)
    BY <1>t, <1>k, <1>b, <2>21, ReturnQueues DEF ResolveDone
  <2>22. CASE ResolveFailed(h)
    BY <1>t, <1>k, <1>b, <2>22, ReturnQueues DEF ResolveFailed
  <2>23. CASE EnterValidation(h)
    BY <1>t, <1>k, <1>b, <2>23, ReturnQueues DEF EnterValidation
  <2>24. CASE CaptureBarrier(h)
    BY <1>t, <1>k, <1>b, <2>24, ReturnQueues DEF CaptureBarrier
  <2>25. CASE RecordFailure(h)
    BY <1>t, <1>k, <1>b, <2>25, ReturnQueues, SpendType DEF RecordFailure
  <2> QED BY <1>2, <2>1, <2>2, <2>3, <2>4, <2>5, <2>6, <2>7, <2>8, <2>9, <2>10, <2>11, <2>12, <2>13, <2>14, <2>15, <2>16, <2>17, <2>18, <2>19, <2>20, <2>21, <2>22, <2>23, <2>24, <2>25 DEF Serve
<1>3. CASE Reconnect \/ Restart
  BY <1>t, <1>k, <1>3, SpendType DEF Reconnect, Restart
<1>4. CASE EndValidation \/ FinishSnapshot
  BY <1>t, <1>b, <1>4 DEF EndValidation, FinishSnapshot, QueuesType
<1>5. ASSUME NEW d \in Servers, Crash(d) PROVE QueuesType' /\ BudgetType'
  BY <1>t, <1>5, SpendType DEF Crash, QueuesType
<1>6. CASE LeaseExpires
  BY <1>t, <1>b, <1>6, SpendType DEF LeaseExpires, QueuesType
<1> QED BY <1>1, <1>2, <1>3, <1>4, <1>5, <1>6 DEF Next

-----------------------------------------------------------------------------
(***************************************************************************)
(* Steps that change the call of one handler, and no table.                *)
(***************************************************************************)
\* Such a step keeps the invariant when what the call now holds is right.
LEMMA Calm ==
  ASSUME IInv, QueuesType', BudgetType', UNCHANGED <<tables, reader>>,
         NEW h \in Handlers, NEW c \in Call, Goto(h, c), CallFine(c, DoneTx, KeptTx)
  PROVE  IInv'
<1>1. DoneTx' = DoneTx /\ KeptTx' = KeptTx
  BY NothingLost DEF tables
<1>2. calls' \in [Handlers -> Call] /\ CallsFine'
  BY <1>1, OneCall DEF IInv
<1>3. TypeOK'
  BY <1>2 DEF IInv, TypeOK, QueuesType, BudgetType, tables
<1>4. LatestFine' /\ ReaderFine' /\ LettersFine'
  BY <1>1 DEF IInv, LatestFine, ReaderFine, LettersFine, tables
<1>5. SpoolFine'
  BY <1>1, SpoolSame DEF IInv, tables
<1> QED BY <1>2, <1>3, <1>4, <1>5 DEF IInv

\* A call that starts holds a transaction whose predecessors were applied.
LEMMA CallAt ==
  ASSUME IInv, NEW h \in Handlers
  PROVE  /\ calls[h] \in Call /\ CallFine(calls[h], DoneTx, KeptTx)
         /\ reader.next \in 1..(MaxTx + 1) /\ latest \in 0..MaxTx
         /\ Below(latest) \subseteq DoneTx
BY ConstantsOK DEF IInv, TypeOK, CallsFine, LatestFine, Below

LEMMA SendStep ==
  ASSUME IInv, QueuesType', BudgetType', NEW h \in Handlers, Send(h) PROVE IInv'
<1> DEFINE c == [IdleCall EXCEPT !.kind = "reader", !.req = reader.next,
                                !.awaited = TRUE]
<1>1. PICK p \in {"route", "late"} : Goto(h, [c EXCEPT !.pc = p])
  BY DEF Send
<1>2. reader.next \in Tx /\ UNCHANGED <<tables, reader>>
  BY DEF Send
<1>3. [c EXCEPT !.pc = p] \in Call
  <2>1. reader.next \in 0..MaxTx
    BY <1>2 DEF Tx
  <2>2. c \in Call
    BY <2>1, IdleCallType DEF Call
  <2> QED BY <2>2, StepType
<1>4. Below(reader.next) \subseteq KeptTx
  BY DEF IInv, ReaderFine
<1>5. CallFine([c EXCEPT !.pc = p], DoneTx, KeptTx)
  BY <1>2, <1>4 DEF CallFine, IdleCall, ListingFine, Working, Applied, Below
<1> QED BY <1>1, <1>2, <1>3, <1>5, Calm

LEMMA ArriveStep ==
  ASSUME IInv, QueuesType', BudgetType', NEW h \in Handlers, Arrive(h) PROVE IInv'
<1>1. CallFine([calls[h] EXCEPT !.pc = "route"], DoneTx, KeptTx)
  BY CallAt DEF Arrive, CallFine, Call, Working, Applied
<1> QED BY <1>1, CallAt, StepType, Calm DEF Arrive, Step

LEMMA StartStep ==
  ASSUME IInv, QueuesType', BudgetType', NEW h \in Handlers,
         StartDrain(h) \/ StartValidation(h)
  PROVE  IInv'
<1> DEFINE c(k, p) == [IdleCall EXCEPT !.kind = k, !.pc = p]
<1>1. c("drain", "list") \in Call /\ c("validate", "capture") \in Call
  BY IdleCallType DEF Call
<1>2. \A D, K : CallFine(c("drain", "list"), D, K) /\ CallFine(c("validate", "capture"), D, K)
  BY DEF CallFine, IdleCall, ListingFine, Working, Applied, Below
<1> QED BY <1>1, <1>2, Calm DEF StartDrain, StartValidation

LEMMA ApplyDirectlyStep ==
  ASSUME IInv, QueuesType', BudgetType', NEW h \in Handlers, ApplyDirectly(h)
  PROVE  IInv'
<1> DEFINE c == [calls[h] EXCEPT !.pc = "check", !.tx = calls[h].req]
<1>1. PendingTx = {}
  BY DEF ApplyDirectly, MustQueue, PendingTx
<1>2. CallFine(calls[h], DoneTx, DoneTx) /\ calls[h].pc = "route" /\ calls[h] \in Call
  BY <1>1, CallAt DEF ApplyDirectly, KeptTx
<1>3. c \in Call
  BY <1>2, ConstantsOK DEF Call
<1>4. CallFine(c, DoneTx, KeptTx)
  BY <1>2 DEF CallFine, Call, Working, Applied, KeptTx
<1> QED BY <1>3, <1>4, Calm DEF ApplyDirectly

LEMMA FailStep ==
  ASSUME IInv, QueuesType', BudgetType', NEW h \in Handlers,
         NotReady(h) \/ Blocked(h) \/ CheckpointRefused(h) \/ WriteFails(h)
  PROVE  IInv'
<1>1. PICK e \in {"plain", "blocked", "lost"} : Fail(h, e) /\ UNCHANGED <<tables, reader>>
  BY DEF NotReady, Blocked, CheckpointRefused, WriteFails
<1> QED BY <1>1, CallAt, FailType, FailFine, Calm DEF Fail

LEMMA AcceptStep ==
  ASSUME IInv, QueuesType', BudgetType', NEW h \in Handlers, Accept(h) PROVE IInv'
<1> DEFINE p == IF calls[h].tx \in Heartbeats THEN "checkpoint" ELSE "apply"
<1>1. calls[h].tx \in Tx
  BY CallAt DEF Accept, CallFine, Working
<1>2. calls[h].tx \in Heartbeats => calls[h].tx \in DoneTx
  BY <1>1 DEF DoneTx, Done
<1>3. CallFine([calls[h] EXCEPT !.pc = p], DoneTx, KeptTx)
  BY <1>1, <1>2, CallAt DEF Accept, CallFine, Call, Working, Applied
<1> QED BY <1>3, CallAt, StepType, Calm DEF Accept, Step

LEMMA OperateStep ==
  ASSUME IInv, QueuesType', BudgetType', NEW h \in Handlers, NEW t \in Tx,
         Replay(h, t) \/ ResolveCommitted(h, t)
  PROVE  IInv'
<1> DEFINE c(k, p) == [IdleCall EXCEPT !.kind = k, !.pc = p, !.tx = t, !.copy = dlq[t]]
<1>1. dlq[t].status # "none"
  BY ConstantsOK DEF Replay, ResolveCommitted
<1>2. Below(t) \subseteq DoneTx /\ dlq[t] \in Letter
  BY <1>1 DEF IInv, LettersFine, TypeOK
<1>3. c("replay", "check") \in Call /\ c("resolve", "checkpoint") \in Call
  <2>1. t \in 0..MaxTx
    BY DEF Tx
  <2> QED BY <1>2, <2>1, IdleCallType DEF Call
<1>4. CallFine(c("replay", "check"), DoneTx, KeptTx)
  BY <1>2 DEF CallFine, IdleCall, ListingFine, Working, Applied
<1>5. ResolveCommitted(h, t) => t \in DoneTx
  BY DEF ResolveCommitted, DoneTx, Done
<1>6. ResolveCommitted(h, t) => CallFine(c("resolve", "checkpoint"), DoneTx, KeptTx)
  BY <1>2, <1>5 DEF CallFine, IdleCall, ListingFine, Working, Applied
<1>7. CASE Replay(h, t)
  BY <1>3, <1>4, <1>7, Calm DEF Replay
<1>8. CASE ResolveCommitted(h, t)
  BY <1>3, <1>6, <1>8, Calm DEF ResolveCommitted
<1> QED BY <1>7, <1>8

\* The first of the listed rows is taken: its predecessors were applied.
LEMMA Taken ==
  ASSUME IInv, NEW h \in Handlers, NEW rows \in SUBSET Listing, TakeFirst(h, rows),
         ListingFine(rows, DoneTx), calls[h].kind = "reader" => calls[h].req \in KeptTx
  PROVE  \E c \in Call : Goto(h, c) /\ CallFine(c, DoneTx, KeptTx)
<1>1. calls[h] \in Call /\ CallFine(calls[h], DoneTx, KeptTx)
  BY CallAt
<1>2. CASE rows = {}
  <2> DEFINE c == [calls[h] EXCEPT !.pc = "list", !.items = {}, !.tx = 0]
  <2>1. Goto(h, c)
    BY <1>2 DEF TakeFirst
  <2>2. c \in Call
    <3>1. 0 \in 0..MaxTx /\ {} \in SUBSET Listing
      BY ConstantsOK
    <3> QED BY <1>1, <3>1 DEF Call
  <2>3. c.pc = "list" /\ c.tx = 0 /\ c.items = {}
        /\ c.kind = calls[h].kind /\ c.req = calls[h].req
        /\ c.awaited = calls[h].awaited /\ c.draining = calls[h].draining
    BY <1>1 DEF Call
  <2>4. ListingFine(c.items, DoneTx) /\ Below(c.tx) = {}
    BY <2>3 DEF ListingFine, Below
  <2>5. CallFine(c, DoneTx, KeptTx)
    BY <1>1, <2>3, <2>4 DEF CallFine, Working, Applied
  <2> QED BY <2>1, <2>2, <2>5
<1>3. CASE rows # {}
  <2>1. PICK x \in rows :
          /\ \A y \in rows : x.row <= y.row
          /\ Goto(h, [calls[h] EXCEPT !.pc = "check", !.draining = TRUE,
                                      !.items = rows, !.tx = x.tx])
    BY <1>3 DEF TakeFirst
  <2> DEFINE c == [calls[h] EXCEPT !.pc = "check", !.draining = TRUE,
                                   !.items = rows, !.tx = x.tx]
  <2>2. x.tx \in Tx /\ x.row \in Nat /\ \A y \in rows : y.row \in Nat
    BY DEF Listing
  <2>3. Below(x.tx) \subseteq DoneTx
    <3> SUFFICES ASSUME NEW t \in Below(x.tx), t \notin DoneTx PROVE FALSE
      OBVIOUS
    <3>1. PICK y \in rows : y.row < x.row
      BY DEF ListingFine
    <3> QED BY <2>1, <2>2, <3>1
  <2>4. x.tx \in 0..MaxTx
    BY <2>2, ConstantsOK DEF Tx
  <2>5. c \in Call
    BY <1>1, <2>4 DEF Call
  <2>6. CallFine(c, DoneTx, KeptTx)
    BY <1>1, <2>1, <2>2, <2>3 DEF CallFine, Call, Working, Applied
  <2> QED BY <2>1, <2>5, <2>6
<1> QED BY <1>2, <1>3

LEMMA ListedFine ==
  ASSUME IInv PROVE Listed \in SUBSET Listing /\ ListingFine(Listed, DoneTx)
<1>1. spool \in Seq(Item) /\ SpoolFine
  BY DEF IInv, TypeOK
<1>2. ASSUME NEW i \in Pending PROVE i \in Nat /\ spool[i].tx \in Tx
  <2>1. i \in Nat /\ spool[i] \in Item
    BY <1>1 DEF Pending
  <2> QED BY <2>1 DEF Item
<1>3. Listed \in SUBSET Listing
  BY <1>2 DEF Listed, Listing
<1>4. ASSUME NEW x \in Listed, NEW y \in Listed, x.row = y.row PROVE x.tx = y.tx
  <2>1. PICK i \in Pending : x = [row |-> i, tx |-> spool[i].tx]
    BY DEF Listed
  <2>2. PICK j \in Pending : y = [row |-> j, tx |-> spool[j].tx]
    BY DEF Listed
  <2> QED BY <1>4, <2>1, <2>2
<1>5. ASSUME NEW i \in Pending, NEW t \in Below(spool[i].tx), t \notin DoneTx
      PROVE  \E j \in Pending : j < i /\ spool[j].tx = t
  <2>1. t \in KeptTx
    BY <1>1 DEF SpoolFine, Pending
  <2>2. PICK j \in Pending : spool[j].tx = t
    BY <1>5, <2>1 DEF KeptTx, PendingTx
  <2>3. spool[j].tx < spool[i].tx
    BY <1>2, <2>2 DEF Below, Tx
  <2>4. ~(i < j) /\ i # j
    BY <1>1, <1>2, <1>5, <2>2, <2>3 DEF SpoolFine, Tx
  <2> QED BY <1>2, <2>2, <2>4
<1>6. ASSUME NEW x \in Listed, NEW t \in Below(x.tx), t \notin DoneTx
      PROVE  \E y \in Listed : y.row < x.row /\ y.tx = t
  <2>1. PICK i \in Pending : x = [row |-> i, tx |-> spool[i].tx]
    BY DEF Listed
  <2>2. PICK j \in Pending : j < i /\ spool[j].tx = t
    BY <1>5, <1>6, <2>1
  <2>3. [row |-> j, tx |-> t] \in Listed
    BY <2>2 DEF Listed
  <2> QED BY <2>1, <2>2, <2>3
<1> QED BY <1>3, <1>4, <1>6 DEF ListingFine

LEMMA ListStep ==
  ASSUME IInv, QueuesType', BudgetType', NEW h \in Handlers, List(h) PROVE IInv'
<1>1. calls[h].kind = "reader" => calls[h].req \in KeptTx
  BY CallAt DEF List, CallFine
<1>2. PICK c \in Call : Goto(h, c) /\ CallFine(c, DoneTx, KeptTx)
  BY <1>1, ListedFine, Taken DEF List
<1> QED BY <1>2, Calm DEF List

-----------------------------------------------------------------------------
(***************************************************************************)
(* Steps that return, or write a letter.                                   *)
(***************************************************************************)
\* What a step leaves alone stays right as long as nothing is lost.
LEMMA Rest ==
  ASSUME IInv, DoneTx \subseteq DoneTx', KeptTx \subseteq KeptTx'
  PROVE  /\ UNCHANGED latest => LatestFine'
         /\ UNCHANGED reader => ReaderFine'
         /\ UNCHANGED spool => SpoolFine'
         /\ UNCHANGED dlq => LettersFine'
<1>1. UNCHANGED spool => SpoolFine'
  BY SpoolSame DEF IInv
<1> QED BY <1>1 DEF IInv, LatestFine, ReaderFine, LettersFine

LetterWritten(t, l) ==
  \/ l.status = "none"
  \/ dlq[t].status # "none"
  \/ Below(t) \subseteq DoneTx

\* A step that writes at most one letter and whose call returns.
LEMMA ReturnStep ==
  ASSUME IInv, QueuesType', BudgetType',
         UNCHANGED <<task, barrier, validating, latest, spool, target>>,
         NEW h \in Handlers, NEW ok \in BOOLEAN, Return(h, ok),
         ok /\ calls[h].awaited => calls[h].req \in KeptTx,
         NEW t, NEW l \in Letter, t \in Tx => LetterWritten(t, l),
         dlq' \in {dlq, [dlq EXCEPT ![t] = l]}
  PROVE  IInv'
<1>1. DoneTx' = DoneTx /\ KeptTx' = KeptTx
  BY NothingLost
<1>2. /\ calls' \in [Handlers -> Call] /\ CallsFine'
      /\ reader' \in [next : 1..(MaxTx + 1), acked : 0..MaxTx] /\ ReaderFine'
  BY <1>1, Returned DEF IInv
<1>3. dlq' \in [Tx -> Letter] /\ LettersFine'
  BY <1>1, OneLetter, Rest DEF IInv, TypeOK, LetterWritten
<1>4. TypeOK'
  BY <1>2, <1>3 DEF IInv, TypeOK, QueuesType, BudgetType
<1> QED BY <1>1, <1>2, <1>3, <1>4, Rest DEF IInv

\* A step that writes at most one letter and whose call goes on.
LEMMA LetterStep ==
  ASSUME IInv, QueuesType', BudgetType',
         UNCHANGED <<task, barrier, validating, latest, spool, target, reader>>,
         NEW h \in Handlers, NEW c \in Call, Goto(h, c), CallFine(c, DoneTx, KeptTx),
         NEW t, NEW l \in Letter, t \in Tx => LetterWritten(t, l),
         dlq' \in {dlq, [dlq EXCEPT ![t] = l]}
  PROVE  IInv'
<1>1. DoneTx' = DoneTx /\ KeptTx' = KeptTx
  BY NothingLost
<1>2. calls' \in [Handlers -> Call] /\ CallsFine'
  BY <1>1, OneCall DEF IInv
<1>3. dlq' \in [Tx -> Letter] /\ LettersFine'
  BY <1>1, OneLetter, Rest DEF IInv, TypeOK, LetterWritten
<1>4. TypeOK'
  BY <1>2, <1>3 DEF IInv, TypeOK, QueuesType, BudgetType
<1> QED BY <1>1, <1>2, <1>3, <1>4, Rest DEF IInv

LEMMA NoLetterType == NoLetter \in Letter /\ NoLetter.status = "none"
BY DEF NoLetter, Letter

LEMMA DirectDoneStep ==
  ASSUME IInv, QueuesType', BudgetType', NEW h \in Handlers, DirectDone(h)
  PROVE  IInv'
<1>1. calls[h].req \in KeptTx
  BY CallAt DEF DirectDone, CallFine, Working, Applied, KeptTx
<1>2. LetterWritten(0, NoLetter)
  BY NoLetterType DEF LetterWritten
<1> QED BY <1>1, <1>2, NoLetterType, ReturnStep DEF DirectDone, tables

LEMMA CaptureStep ==
  ASSUME IInv, QueuesType', BudgetType', NEW h \in Handlers, CaptureBarrier(h)
  PROVE  IInv'
<1>1. UNCHANGED tables
  BY DEF CaptureBarrier
<1>2. CASE Return(h, FALSE)
  <2>1. LetterWritten(0, NoLetter)
    BY NoLetterType DEF LetterWritten
  <2> QED BY <1>1, <1>2, <2>1, NoLetterType, ReturnStep DEF tables
<1>3. CASE ~Return(h, FALSE)
  <2> DEFINE c == [calls[h] EXCEPT !.pc = "enter", !.tx = latest]
  <2>1. Goto(h, c) /\ UNCHANGED reader /\ calls[h].pc = "capture"
    BY <1>3 DEF CaptureBarrier
  <2>2. c \in Call
    BY CallAt DEF Call
  <2>3. CallFine(c, DoneTx, KeptTx)
    BY <2>1, CallAt DEF CallFine, Call, Working, Applied
  <2> QED BY <1>1, <2>1, <2>2, <2>3, Calm
<1> QED BY <1>2, <1>3

LEMMA SkipDuplicateStep ==
  ASSUME IInv, QueuesType', BudgetType', NEW h \in Handlers, SkipDuplicate(h)
  PROVE  IInv'
<1> DEFINE t == calls[h].tx
<1>1. t \in Tx /\ t \in DoneTx
  BY CallAt, ConstantsOK
     DEF SkipDuplicate, IsDuplicate, CallFine, Working, IInv, LatestFine, Tx
<1>2. CallFine([calls[h] EXCEPT !.pc = "applied"], DoneTx, KeptTx)
  BY <1>1, CallAt DEF SkipDuplicate, CallFine, Call, Working, Applied
<1>3. dlq' \in {dlq, [dlq EXCEPT ![t] = NoLetter]}
  BY DEF SkipDuplicate
<1>4. LetterWritten(t, NoLetter)
  BY NoLetterType DEF LetterWritten
<1>5. [calls[h] EXCEPT !.pc = "applied"] \in Call
  BY CallAt, StepType
<1> QED BY <1>2, <1>3, <1>4, <1>5, NoLetterType, LetterStep DEF SkipDuplicate, Step

LEMMA FenceStep ==
  ASSUME IInv, QueuesType', BudgetType', NEW h \in Handlers, Fence(h) PROVE IInv'
<1> DEFINE t == calls[h].tx
           c == [calls[h] EXCEPT !.pc = "commit",
                   !.fence = IF dlq[t].status = "none" THEN "new" ELSE "reused"]
<1>1. t \in Tx /\ dlq[t] \in Letter
  BY CallAt DEF Fence, CallFine, Working, IInv, TypeOK
<1>2. Fenced(dlq[t]) \in Letter
  BY <1>1 DEF Fenced, Letter
<1>3. LetterWritten(t, Fenced(dlq[t]))
  BY CallAt DEF LetterWritten, CallFine
<1>4. c \in Call
  BY CallAt DEF Call
<1>5. CallFine(c, DoneTx, KeptTx)
  BY CallAt DEF Fence, CallFine, Call, Working, Applied
<1> QED BY <1>2, <1>3, <1>4, <1>5, LetterStep DEF Fence

LEMMA CompleteFenceStep ==
  ASSUME IInv, QueuesType', BudgetType', NEW h \in Handlers, CompleteFence(h)
  PROVE  IInv'
<1> DEFINE t == calls[h].tx
<1>1. t \in Tx /\ dlq[t] \in Letter /\ calls[h].pc = "complete"
  BY CallAt DEF CompleteFence, CallFine, Working, Applied, IInv, TypeOK
<1>2. Resolved(dlq[t]) \in Letter
  BY <1>1 DEF Resolved, Letter
<1>3. PICK l \in Letter : /\ dlq' \in {dlq, [dlq EXCEPT ![t] = l]}
                         /\ LetterWritten(t, l)
  <2>1. CASE calls[h].fence = "new"
    BY <2>1, NoLetterType DEF CompleteFence, LetterWritten
  <2>2. CASE calls[h].fence = "reused" /\ dlq[t].status # "none"
    BY <1>2, <2>2 DEF CompleteFence, LetterWritten
  <2>3. CASE ~(calls[h].fence = "new")
             /\ ~(calls[h].fence = "reused" /\ dlq[t].status # "none")
    <3>1. dlq' = dlq
      BY <2>3 DEF CompleteFence
    <3> QED BY <3>1, NoLetterType DEF LetterWritten
  <2> QED BY <2>1, <2>2, <2>3
<1>4. PICK c \in Call : Goto(h, c) /\ CallFine(c, DoneTx, KeptTx)
  <2>1. CASE Fail(h, "plain")
    BY <2>1, CallAt, FailType, FailFine DEF Fail
  <2>2. CASE Step(h, "applied")
    <3>1. CallFine([calls[h] EXCEPT !.pc = "applied"], DoneTx, KeptTx)
      BY <1>1, CallAt DEF CallFine, Call, Working, Applied
    <3> QED BY <2>2, <3>1, CallAt, StepType DEF Step
  <2> QED BY <2>1, <2>2 DEF CompleteFence
<1> QED BY <1>3, <1>4, LetterStep DEF CompleteFence

LEMMA RecordFailureStep ==
  ASSUME IInv, QueuesType', BudgetType', NEW h \in Handlers, RecordFailure(h)
  PROVE  IInv'
<1> DEFINE c == calls[h]
<1>1. \A l : Recorded(l, c.err) \in Letter
  BY DEF Recorded, Letter
<1>2. \A l : LetterWritten(c.tx, l)
  BY CallAt DEF CallFine, LetterWritten
<1>3. PICK l \in Letter : dlq' \in {dlq, [dlq EXCEPT ![c.tx] = l]}
  BY <1>1 DEF RecordFailure
<1> QED BY <1>2, <1>3, ReturnStep DEF RecordFailure

LEMMA UpdatedLetterWritten ==
  ASSUME NEW t, NEW l \in Letter, dlq' \in {dlq, UpdatedLetter(t, l)}
  PROVE  \E k \in Letter :
           dlq' \in {dlq, [dlq EXCEPT ![t] = k]} /\ LetterWritten(t, k)
<1>1. CASE dlq' = dlq
  BY <1>1, NoLetterType DEF LetterWritten
<1>2. CASE dlq' # dlq
  BY <1>2 DEF UpdatedLetter, LetterWritten
<1> QED BY <1>1, <1>2

\* The operator's calls return; the reader does not wait for them.
LEMMA OperatorReturns ==
  ASSUME IInv, QueuesType', BudgetType', NEW h \in Handlers,
         ReplayDone(h) \/ ReplayFailed(h) \/ ResolveDone(h) \/ ResolveFailed(h)
  PROVE  IInv'
<1> DEFINE c == calls[h]
<1>1. c.copy \in Letter /\ c.kind # "reader" /\ ~c.awaited
  BY CallAt DEF Call, CallFine, ReplayDone, ReplayFailed, ResolveDone, ResolveFailed
<1>2. PICK ok \in BOOLEAN : Return(h, ok)
  BY DEF ReplayDone, ReplayFailed, ResolveDone, ResolveFailed
<1>3. PICK l \in Letter : dlq' \in {dlq, UpdatedLetter(c.tx, l)}
  <2>1. CASE ReplayDone(h) \/ ResolveDone(h)
    BY <1>1, <2>1 DEF ReplayDone, ResolveDone, Resolved, Letter
  <2>2. CASE ReplayFailed(h)
    <3> DEFINE l == [c.copy EXCEPT !.retried = TRUE, !.fenced = FALSE,
                       !.status = IF c.err = "uncertain" THEN "COMMIT_UNCERTAIN" ELSE @]
    <3>1. l \in Letter
      BY <1>1 DEF Letter
    <3>2. dlq' \in {dlq, UpdatedLetter(c.tx, l)}
      BY <2>2 DEF ReplayFailed
    <3> QED BY <3>1, <3>2
  <2>3. CASE ResolveFailed(h)
    BY <2>3, NoLetterType DEF ResolveFailed, tables
  <2> QED BY <2>1, <2>2, <2>3
<1>4. PICK k \in Letter :
        dlq' \in {dlq, [dlq EXCEPT ![c.tx] = k]} /\ LetterWritten(c.tx, k)
  BY <1>3, UpdatedLetterWritten
<1>5. UNCHANGED <<task, barrier, validating, latest, spool, target>>
  BY DEF ReplayDone, ReplayFailed, ResolveDone, ResolveFailed, tables
<1> QED BY <1>1, <1>2, <1>4, <1>5, ReturnStep

LEMMA ResolveNotCommittedStep ==
  ASSUME IInv, QueuesType', BudgetType', NEW h \in Handlers, NEW t \in Tx,
         ResolveNotCommitted(h, t)
  PROVE  IInv'
<1> DEFINE l == [dlq[t] EXCEPT !.status = "REPLAY_REQUIRED", !.fenced = FALSE]
           c == [IdleCall EXCEPT !.kind = "replay", !.pc = "check", !.tx = t, !.copy = l]
<1>1. dlq[t] \in Letter /\ dlq[t].status = "COMMIT_UNCERTAIN"
  BY DEF ResolveNotCommitted, IInv, TypeOK
<1>2. l \in Letter
  BY <1>1 DEF Letter
<1>3. Below(t) \subseteq DoneTx
  BY <1>1 DEF IInv, LettersFine
<1>4. c \in Call
  <2>1. t \in 0..MaxTx
    BY DEF Tx
  <2> QED BY <1>2, <2>1, IdleCallType DEF Call
<1>5. CallFine(c, DoneTx, KeptTx)
  BY <1>3 DEF CallFine, IdleCall, ListingFine, Working, Applied
<1>6. LetterWritten(t, l)
  BY <1>3 DEF LetterWritten
<1>7. Goto(h, c) /\ dlq' = [dlq EXCEPT ![t] = l]
  BY DEF ResolveNotCommitted
<1> QED BY <1>2, <1>4, <1>5, <1>6, <1>7, LetterStep DEF ResolveNotCommitted

-----------------------------------------------------------------------------
(***************************************************************************)
(* Commits, checkpoints and the task row.                                  *)
(***************************************************************************)
LEMMA CommitStep ==
  ASSUME IInv, QueuesType', BudgetType', NEW h \in Handlers,
         CommitOrDDL(h) \/ CommitUnknown(h)
  PROVE  IInv'
<1> DEFINE t == calls[h].tx
<1>1. t \in Tx /\ target \in Seq(Tx) /\ target' \in {target, Append(target, t)}
  BY CallAt DEF CommitOrDDL, CommitUnknown, CallFine, Working, IInv, TypeOK
<1>2. UNCHANGED <<task, barrier, validating, latest, spool, dlq, reader>>
  BY DEF CommitOrDDL, CommitUnknown
<1>3. /\ DoneTx \subseteq DoneTx' /\ KeptTx \subseteq KeptTx' /\ target' \in Seq(Tx)
      /\ CommitOrDDL(h) => t \in DoneTx'
  <2>1. CASE target' = Append(target, t)
    BY <1>1, <1>2, <2>1, Appended
  <2>2. CASE target' # Append(target, t)
    BY <1>1, <1>2, <2>2, NothingLost DEF CommitOrDDL
  <2> QED BY <2>1, <2>2
<1>4. calls[h] \in Call /\ CallFine(calls[h], DoneTx', KeptTx')
  BY <1>3, CallAt, CallFineGrows
<1>5. PICK c \in Call : Goto(h, c) /\ CallFine(c, DoneTx', KeptTx')
  <2>1. CASE CommitOrDDL(h)
    <3>1. CallFine([calls[h] EXCEPT !.pc = "checkpoint"], DoneTx', KeptTx')
      BY <1>3, <1>4, <2>1 DEF CommitOrDDL, CallFine, Call, Working, Applied
    <3> QED BY <1>4, <2>1, <3>1, StepType DEF CommitOrDDL, Step
  <2>2. CASE CommitUnknown(h)
    BY <1>4, <2>2, FailType, FailFine DEF CommitUnknown, Fail
  <2> QED BY <2>1, <2>2
<1>6. calls' \in [Handlers -> Call] /\ CallsFine'
  BY <1>3, <1>5, OneCall DEF IInv
<1>7. TypeOK'
  BY <1>2, <1>3, <1>6 DEF IInv, TypeOK, QueuesType, BudgetType
<1> QED BY <1>2, <1>3, <1>6, <1>7, Rest DEF IInv

LEMMA CheckpointStep ==
  ASSUME IInv, QueuesType', BudgetType', NEW h \in Handlers, Checkpoint(h)
  PROVE  IInv'
<1> DEFINE t == calls[h].tx
           c == [calls[h] EXCEPT !.pc = "store",
                                 !.seen = [status |-> task, barrier |-> barrier]]
<1>1. t \in Tx /\ t \in DoneTx /\ Below(t) \subseteq DoneTx
  BY CallAt DEF Checkpoint, CallFine, Working, Applied
<1>2. DoneTx' = DoneTx /\ KeptTx' = KeptTx
  BY NothingLost DEF Checkpoint
<1>3. latest' \in 0..MaxTx /\ LatestFine'
  BY <1>1, <1>2, ConstantsOK DEF Checkpoint, LatestFine, Below, Tx
<1>4. c \in Call
  <2>1. [status |-> task, barrier |-> barrier] \in Row
    BY DEF IInv, TypeOK, Row
  <2> QED BY <2>1, CallAt DEF Call
<1>5. CallFine(c, DoneTx, KeptTx)
  BY CallAt DEF Checkpoint, CallFine, Call, Working, Applied
<1>6. calls' \in [Handlers -> Call] /\ CallsFine'
  BY <1>2, <1>4, <1>5, OneCall DEF Checkpoint, IInv
<1>7. TypeOK'
  BY <1>3, <1>6 DEF Checkpoint, IInv, TypeOK, QueuesType, BudgetType
<1> QED BY <1>2, <1>3, <1>6, <1>7, Rest DEF Checkpoint, IInv

LEMMA StoreTaskStep ==
  ASSUME IInv, QueuesType', BudgetType', NEW h \in Handlers, StoreTask(h)
  PROVE  IInv'
<1>1. DoneTx' = DoneTx /\ KeptTx' = KeptTx
  BY NothingLost DEF StoreTask
<1>2. task' \in Status /\ barrier' \in 0..MaxTx
  <2>1. calls[h].seen \in Row
    BY CallAt DEF Call
  <2> QED BY <2>1 DEF StoreTask, Row
<1>3. CallFine([calls[h] EXCEPT !.pc = "complete"], DoneTx, KeptTx)
  BY CallAt DEF StoreTask, CallFine, Call, Working, Applied
<1>4. [calls[h] EXCEPT !.pc = "complete"] \in Call
  BY CallAt, StepType
<1>5. calls' \in [Handlers -> Call] /\ CallsFine'
  BY <1>1, <1>3, <1>4, OneCall DEF StoreTask, Step, IInv
<1>6. TypeOK'
  BY <1>2, <1>5 DEF StoreTask, IInv, TypeOK, QueuesType, BudgetType
<1> QED BY <1>1, <1>5, <1>6, Rest DEF StoreTask, IInv

LEMMA EnterValidationStep ==
  ASSUME IInv, QueuesType', BudgetType', NEW h \in Handlers, EnterValidation(h)
  PROVE  IInv'
<1>1. DoneTx' = DoneTx /\ KeptTx' = KeptTx
  BY NothingLost DEF EnterValidation
<1>2. calls[h].tx \in 0..MaxTx /\ ~calls[h].awaited
  BY CallAt DEF EnterValidation, CallFine, Call
<1>3. /\ calls' \in [Handlers -> Call] /\ CallsFine'
      /\ reader' \in [next : 1..(MaxTx + 1), acked : 0..MaxTx] /\ ReaderFine'
  BY <1>1, <1>2, Returned DEF EnterValidation, IInv
<1>4. TypeOK'
  BY <1>2, <1>3 DEF EnterValidation, IInv, TypeOK, Status, QueuesType, BudgetType
<1> QED BY <1>1, <1>3, <1>4, Rest DEF EnterValidation, IInv

\* The task row changes and no call does.
LEMMA TaskStep ==
  ASSUME IInv, QueuesType', BudgetType', EndValidation \/ FinishSnapshot
  PROVE  IInv'
<1>1. UNCHANGED <<latest, spool, dlq, target, reader, calls, budget>>
  BY DEF EndValidation, FinishSnapshot
<1>2. DoneTx' = DoneTx /\ KeptTx' = KeptTx
  BY <1>1, NothingLost
<1>3. task' \in Status /\ barrier' \in 0..MaxTx /\ validating' \in BOOLEAN
  <2>1. 0 \in 0..MaxTx /\ barrier \in 0..MaxTx /\ validating \in BOOLEAN
    BY ConstantsOK DEF IInv, TypeOK
  <2>2. CASE EndValidation
    BY <2>1, <2>2 DEF EndValidation, Status
  <2>3. CASE FinishSnapshot
    BY <2>1, <2>3 DEF FinishSnapshot, Status
  <2> QED BY <2>2, <2>3
<1>4. TypeOK'
  BY <1>1, <1>3 DEF IInv, TypeOK, QueuesType, BudgetType
<1>5. CallsFine'
  BY <1>1, <1>2 DEF IInv, CallsFine
<1> QED BY <1>1, <1>2, <1>4, <1>5, Rest DEF IInv

-----------------------------------------------------------------------------
(***************************************************************************)
(* Drops, crashes and restarts.                                            *)
(***************************************************************************)
LEMMA CallsForgotten ==
  ASSUME IInv, QueuesType', BudgetType', UNCHANGED <<tables, reader>>,
         \/ calls' = calls
         \/ calls' = Dropped
         \/ \E d \in Servers :
              calls' = [h \in Handlers |->
                          IF ServerOf[h] = d THEN IdleCall ELSE calls[h]]
  PROVE  IInv'
<1>1. DoneTx' = DoneTx /\ KeptTx' = KeptTx
  BY NothingLost DEF tables
<1>2. ASSUME NEW h \in Handlers
      PROVE  calls'[h] \in Call /\ CallFine(calls'[h], DoneTx, KeptTx)
  <2>1. calls'[h] \in {calls[h], IdleCall, [calls[h] EXCEPT !.awaited = FALSE]}
    BY DEF Dropped
  <2>2. [calls[h] EXCEPT !.awaited = FALSE] \in Call
    BY CallAt DEF Call
  <2>3. CallFine([calls[h] EXCEPT !.awaited = FALSE], DoneTx, KeptTx)
    BY CallAt DEF CallFine, Call, Working, Applied
  <2> QED BY <2>1, <2>2, <2>3, CallAt, IdleCallType, IdleCallFine
<1>3. calls' \in [Handlers -> Call]
  BY <1>2 DEF Dropped, IInv, TypeOK
<1>4. CallsFine'
  BY <1>1, <1>2 DEF CallsFine
<1>5. TypeOK'
  BY <1>3 DEF IInv, TypeOK, QueuesType, BudgetType, tables
<1> QED BY <1>1, <1>4, <1>5, Rest DEF IInv, tables

LEMMA RestartStep ==
  ASSUME IInv, QueuesType', BudgetType', Restart PROVE IInv'
<1>1. UNCHANGED tables /\ calls' = Dropped
  BY DEF Restart
<1>2. DoneTx' = DoneTx /\ KeptTx' = KeptTx
  BY <1>1, NothingLost DEF tables
<1>3. PICK t \in 0..MaxTx :
        ResumesBehind(t) /\ reader' = [reader EXCEPT !.next = t + 1]
  BY DEF Restart
<1>4. Below(t + 1) \subseteq KeptTx
  <2>1. CASE Pending = {}
    BY <1>3, <2>1 DEF ResumesBehind, IInv, LatestFine, KeptTx, Below
  <2>2. CASE Pending # {}
    <3>1. PICK i \in Pending : t = spool[i].tx
      BY <1>3, <2>2 DEF ResumesBehind
    <3>2. Below(t) \subseteq KeptTx /\ t \in KeptTx
      BY <3>1 DEF IInv, SpoolFine, Pending, KeptTx, PendingTx
    <3> QED BY <3>2 DEF Below
  <2> QED BY <2>1, <2>2
<1>5. reader \in [next : 1..(MaxTx + 1), acked : 0..MaxTx]
  BY DEF IInv, TypeOK
<1>6. reader' \in [next : 1..(MaxTx + 1), acked : 0..MaxTx] /\ ReaderFine'
  BY <1>2, <1>3, <1>4, <1>5, ConstantsOK DEF IInv, ReaderFine
<1>7. ASSUME NEW h \in Handlers
      PROVE  calls'[h] \in Call /\ CallFine(calls'[h], DoneTx, KeptTx)
  BY <1>1, CallAt DEF Dropped, CallFine, Call, Working, Applied
<1>8. calls' \in [Handlers -> Call] /\ CallsFine'
  BY <1>1, <1>2, <1>7 DEF Dropped, CallsFine
<1>9. TypeOK'
  BY <1>1, <1>6, <1>8 DEF IInv, TypeOK, QueuesType, BudgetType, tables
<1> QED BY <1>1, <1>2, <1>6, <1>8, <1>9, Rest DEF IInv, tables

-----------------------------------------------------------------------------
(***************************************************************************)
(* Steps that change the spool.                                            *)
(***************************************************************************)
\* Marking what was applied loses nothing.
LEMMA Marked ==
  ASSUME spool \in Seq(Item), SpoolFine, NEW t \in DoneTx,
         spool' = MarkedApplied(t), UNCHANGED target
  PROVE  spool' \in Seq(Item) /\ SpoolFine' /\ DoneTx' = DoneTx /\ KeptTx' = KeptTx
<1>1. DoneTx' = DoneTx
  BY DEF DoneTx, Done, Committed
<1>2. /\ DOMAIN spool' = DOMAIN spool
      /\ \A i \in DOMAIN spool :
           /\ spool[i] \in Item /\ spool'[i] \in Item /\ spool'[i].tx = spool[i].tx
           /\ spool'[i].applied <=> spool[i].applied \/ spool[i].tx = t
  <2>1. DOMAIN spool' = DOMAIN spool
    BY DEF MarkedApplied
  <2>2. ASSUME NEW i \in DOMAIN spool
        PROVE  /\ spool[i] \in Item /\ spool'[i] \in Item
               /\ spool'[i].tx = spool[i].tx
               /\ spool'[i].applied <=> spool[i].applied \/ spool[i].tx = t
    <3>1. spool[i] \in Item
      OBVIOUS
    <3>2. spool'[i] = IF spool[i].tx = t THEN [spool[i] EXCEPT !.applied = TRUE]
                      ELSE spool[i]
      BY DEF MarkedApplied
    <3> QED BY <3>1, <3>2 DEF Item
  <2> QED BY <2>1, <2>2
<1>3. spool' \in Seq(Item)
  BY <1>2 DEF MarkedApplied
<1>4. Pending' = {i \in Pending : spool[i].tx # t}
  BY <1>2 DEF Pending
<1>5. KeptTx' = KeptTx
  BY <1>1, <1>2, <1>4 DEF KeptTx, PendingTx, Pending
<1>6. SpoolFine'
  BY <1>1, <1>2, <1>4, <1>5 DEF SpoolFine, Pending
<1> QED BY <1>1, <1>3, <1>5, <1>6

\* A transaction is staged once, behind its predecessors.
LEMMA StagedFine ==
  ASSUME spool \in Seq(Item), SpoolFine, NEW t \in Tx, Below(t) \subseteq KeptTx,
         spool' = Staged(t), UNCHANGED target
  PROVE  /\ spool' \in Seq(Item) /\ SpoolFine' /\ DoneTx' = DoneTx
         /\ KeptTx \subseteq KeptTx' /\ t \in KeptTx'
<1>1. DoneTx' = DoneTx
  BY DEF DoneTx, Done, Committed
<1>2. CASE \E i \in DOMAIN spool : spool[i].tx = t
  <2>1. spool' = spool
    BY <1>2 DEF Staged
  <2>2. t \in KeptTx
    BY <1>2 DEF SpoolFine, KeptTx, PendingTx, Pending
  <2>3. KeptTx' = KeptTx
    BY <2>1, NothingLost
  <2> QED BY <1>1, <2>1, <2>2, <2>3, SpoolSame
<1>3. CASE \A i \in DOMAIN spool : spool[i].tx # t
  <2> DEFINE n == Len(spool) + 1
  <2>1. spool' = Append(spool, [tx |-> t, applied |-> FALSE])
    BY <1>3 DEF Staged
  <2>2. [tx |-> t, applied |-> FALSE] \in Item
    BY DEF Item
  <2>3. /\ DOMAIN spool' = DOMAIN spool \cup {n} /\ DOMAIN spool = 1..Len(spool)
        /\ \A i \in DOMAIN spool : spool'[i] = spool[i]
        /\ spool'[n] = [tx |-> t, applied |-> FALSE]
        /\ spool' \in Seq(Item) /\ n \in Nat
    BY <2>1, <2>2
  <2>4. Pending' = Pending \cup {n}
    BY <2>3 DEF Pending
  <2>5. PendingTx' = PendingTx \cup {t}
    BY <2>3, <2>4 DEF PendingTx, Pending
  <2>6. KeptTx' = KeptTx \cup {t}
    BY <1>1, <2>5 DEF KeptTx
  <2>7. \A i \in DOMAIN spool' : spool'[i].applied => spool'[i].tx \in DoneTx'
    BY <1>1, <2>3 DEF SpoolFine
  <2>8. \A i \in DOMAIN spool' : Below(spool'[i].tx) \subseteq KeptTx'
    BY <2>3, <2>6 DEF SpoolFine
  <2>9. ASSUME NEW i \in Pending, t < spool[i].tx PROVE t \in DoneTx
    <3>1. spool[i] \in Item /\ i \in DOMAIN spool
      BY DEF Pending
    <3>2. t \in Below(spool[i].tx)
      BY <2>9, <3>1 DEF Below, Tx, Item
    <3>3. t \in KeptTx
      BY <3>1, <3>2 DEF SpoolFine
    <3>4. t \notin PendingTx
      BY <1>3 DEF PendingTx, Pending
    <3> QED BY <3>3, <3>4 DEF KeptTx
  <2>10. \A i, j \in Pending' :
           i < j /\ spool'[j].tx < spool'[i].tx => spool'[j].tx \in DoneTx'
    BY <1>1, <2>3, <2>4, <2>9 DEF SpoolFine, Pending
  <2> QED BY <1>1, <2>3, <2>6, <2>7, <2>8, <2>10 DEF SpoolFine
<1> QED BY <1>2, <1>3

\* A step that changes the spool and whose call returns.
LEMMA SpoolReturns ==
  ASSUME IInv, QueuesType', BudgetType',
         UNCHANGED <<task, barrier, validating, latest, dlq, target>>,
         NEW h \in Handlers, Return(h, TRUE), calls[h].req \in KeptTx' \/ ~calls[h].awaited,
         spool' \in Seq(Item), SpoolFine', DoneTx' = DoneTx, KeptTx \subseteq KeptTx'
  PROVE  IInv'
<1>1. /\ calls' \in [Handlers -> Call] /\ CallsFine'
      /\ reader' \in [next : 1..(MaxTx + 1), acked : 0..MaxTx] /\ ReaderFine'
  BY Returned DEF IInv
<1>2. TypeOK'
  BY <1>1 DEF IInv, TypeOK, QueuesType, BudgetType
<1> QED BY <1>1, <1>2, Rest DEF IInv

\* What the reader sends can be staged.
LEMMA Stageable ==
  ASSUME IInv, NEW h \in Handlers, calls[h].pc = "route",
         spool' = Staged(calls[h].req), UNCHANGED target
  PROVE  /\ spool' \in Seq(Item) /\ SpoolFine' /\ DoneTx' = DoneTx
         /\ KeptTx \subseteq KeptTx' /\ calls[h].req \in KeptTx'
<1>1. calls[h].req \in Tx /\ Below(calls[h].req) \subseteq KeptTx
  BY CallAt DEF CallFine
<1>2. spool \in Seq(Item) /\ SpoolFine
  BY DEF IInv, TypeOK
<1> QED BY <1>1, <1>2, StagedFine

LEMMA StageWhileFrozenStep ==
  ASSUME IInv, QueuesType', BudgetType', NEW h \in Handlers, StageWhileFrozen(h)
  PROVE  IInv'
BY Stageable, SpoolReturns DEF StageWhileFrozen

LEMMA StageBehindSpoolStep ==
  ASSUME IInv, QueuesType', BudgetType', NEW h \in Handlers, StageBehindSpool(h)
  PROVE  IInv'
<1> DEFINE c == [calls[h] EXCEPT !.pc = "list"]
<1>1. /\ spool' \in Seq(Item) /\ SpoolFine' /\ DoneTx' = DoneTx
      /\ KeptTx \subseteq KeptTx' /\ calls[h].req \in KeptTx'
  BY Stageable DEF StageBehindSpool
<1>2. calls[h] \in Call /\ CallFine(calls[h], DoneTx', KeptTx')
  BY <1>1, CallAt, CallFineGrows
<1>3. CallFine(c, DoneTx', KeptTx')
  BY <1>1, <1>2 DEF StageBehindSpool, CallFine, Call, Working, Applied
<1>4. c \in Call
  BY <1>2, StepType
<1>5. calls' \in [Handlers -> Call] /\ CallsFine'
  BY <1>1, <1>3, <1>4, OneCall DEF StageBehindSpool, Step, IInv
<1>6. TypeOK'
  BY <1>1, <1>5 DEF StageBehindSpool, IInv, TypeOK, QueuesType, BudgetType
<1> QED BY <1>1, <1>5, <1>6, Rest DEF StageBehindSpool, IInv

LEMMA EndDrainStep ==
  ASSUME IInv, QueuesType', BudgetType', NEW h \in Handlers, EndDrain(h) PROVE IInv'
<1>1. calls[h].awaited => calls[h].req \in KeptTx
  BY CallAt DEF EndDrain, CallFine
<1>2. spool' \in Seq(Item) /\ SpoolFine' /\ DoneTx' = DoneTx /\ KeptTx' = KeptTx
  <2>1. CASE spool' = spool
    BY <2>1, NothingLost, SpoolSame DEF EndDrain, IInv, TypeOK
  <2>2. CASE spool' = << >> /\ Pending = {}
    <3>1. DoneTx' = DoneTx
      BY DEF EndDrain, DoneTx, Done, Committed
    <3>2. Pending' = {}
      BY <2>2 DEF Pending
    <3>3. KeptTx' = KeptTx
      BY <2>2, <3>1, <3>2 DEF KeptTx, PendingTx
    <3> QED BY <2>2, <3>1, <3>2, <3>3 DEF SpoolFine
  <2> QED BY <2>1, <2>2 DEF EndDrain
<1> QED BY <1>1, <1>2, SpoolReturns DEF EndDrain

\* Behind the first row, which was applied, the others still stand in order.
LEMMA AfterFirstFine ==
  ASSUME IInv, NEW h \in Handlers, calls[h].pc = "applied", calls[h].draining
  PROVE  /\ AfterFirst(calls[h].items) \in SUBSET Listing
         /\ ListingFine(AfterFirst(calls[h].items), DoneTx)
<1> DEFINE rows == calls[h].items
<1>1. rows \in SUBSET Listing /\ ListingFine(rows, DoneTx) /\ calls[h].tx \in DoneTx
  BY CallAt DEF Call, CallFine, Applied
<1>2. PICK x \in rows : x.tx = calls[h].tx /\ \A y \in rows : x.row <= y.row
  BY CallAt DEF CallFine, Working, Applied
<1>3. \A y \in rows : y.row \in Nat
  BY <1>1 DEF Listing
<1>4. ASSUME NEW z \in AfterFirst(rows), NEW t \in Below(z.tx), t \notin DoneTx
      PROVE  \E y \in AfterFirst(rows) : y.row < z.row /\ y.tx = t
  <2>1. PICK y \in rows : y.row < z.row /\ y.tx = t
    BY <1>1, <1>4 DEF ListingFine, AfterFirst
  <2>2. y.row # x.row
    BY <1>1, <1>2, <1>4, <2>1 DEF ListingFine
  <2>3. x.row < y.row
    BY <1>2, <1>3, <2>2
  <2> QED BY <2>1, <2>3 DEF AfterFirst
<1> QED BY <1>1, <1>4 DEF AfterFirst, ListingFine

LEMMA MarkStep ==
  ASSUME IInv, QueuesType', BudgetType', NEW h \in Handlers, Mark(h) PROVE IInv'
<1>1. calls[h].tx \in DoneTx /\ (calls[h].kind = "reader" => calls[h].req \in KeptTx)
  BY CallAt DEF Mark, CallFine, Applied
<1>2. PICK c \in Call : Goto(h, c) /\ CallFine(c, DoneTx, KeptTx)
  BY <1>1, AfterFirstFine, Taken DEF Mark
<1>3. spool' \in Seq(Item) /\ SpoolFine' /\ DoneTx' = DoneTx /\ KeptTx' = KeptTx
  BY <1>1, Marked DEF Mark, IInv, TypeOK
<1>4. calls' \in [Handlers -> Call] /\ CallsFine'
  BY <1>2, <1>3, OneCall DEF IInv
<1>5. TypeOK'
  BY <1>3, <1>4 DEF Mark, IInv, TypeOK, QueuesType, BudgetType
<1> QED BY <1>3, <1>4, <1>5, Rest DEF Mark, IInv

-----------------------------------------------------------------------------
(***************************************************************************)
(* The theorems.                                                           *)
(***************************************************************************)
LEMMA IInvInit == Init => IInv
<1> SUFFICES ASSUME Init PROVE IInv
  OBVIOUS
<1>1. TypeOK
  <2>1. task \in Status /\ barrier \in 0..MaxTx /\ validating \in BOOLEAN
        /\ latest \in 0..MaxTx
    <3>1. 0 \in 0..MaxTx
      BY ConstantsOK
    <3> QED BY <3>1 DEF Init, Status
  <2>2. spool \in Seq(Item) /\ target \in Seq(Tx) /\ lock \in [Servers -> Seq(Handlers)]
    BY DEF Init
  <2>3. dlq \in [Tx -> Letter] /\ calls \in [Handlers -> Call]
    BY IdleCallType, NoLetterType DEF Init
  <2>4. reader \in [next : 1..(MaxTx + 1), acked : 0..MaxTx]
    BY ConstantsOK DEF Init
  <2>5. BudgetType /\ lease \in Servers \cup {"free", "stale"} /\ scheduled \in SUBSET Servers
    BY ConstantsOK DEF Init, BudgetType
  <2> QED BY <2>1, <2>2, <2>3, <2>4, <2>5 DEF TypeOK, BudgetType
<1>2. LatestFine /\ ReaderFine
  BY DEF Init, LatestFine, ReaderFine, Below
<1>3. SpoolFine
  BY DEF Init, SpoolFine, Pending
<1>4. LettersFine
  BY NoLetterType DEF Init, LettersFine
<1>5. CallsFine
  BY IdleCallFine DEF Init, CallsFine
<1> QED BY <1>1, <1>2, <1>3, <1>4, <1>5 DEF IInv

LEMMA IInvStep == IInv /\ [Next]_vars => IInv'
<1> SUFFICES ASSUME IInv, [Next]_vars PROVE IInv'
  OBVIOUS
<1>u. CASE UNCHANGED vars
  <2>1. UNCHANGED <<tables, reader>> /\ calls' = calls
    BY <1>u DEF vars, tables
  <2>2. QueuesType' /\ BudgetType'
    BY <1>u DEF vars, IInv, TypeOK, QueuesType, BudgetType
  <2> QED BY <2>1, <2>2, CallsForgotten
<1>n. CASE Next
  <2>q. QueuesType' /\ BudgetType'
    BY <1>n, QueuesStep DEF IInv
  <2>1. ASSUME NEW h \in Handlers,
               Send(h) \/ StartDrain(h) \/ StartValidation(h) \/ WriteFails(h)
               \/ CommitUnknown(h)
        PROVE  IInv'
    BY <2>q, <2>1, SendStep, StartStep, FailStep, CommitStep
  <2>2. ASSUME NEW h \in Handlers, NEW t \in Tx, Operate(h, t) PROVE IInv'
    BY <2>q, <2>2, OperateStep, ResolveNotCommittedStep DEF Operate
  <2>3. ASSUME NEW h \in Handlers, Serve(h) PROVE IInv'
    <3>1. CASE Arrive(h) \/ ApplyDirectly(h) \/ List(h) \/ Accept(h)
      BY <2>q, <3>1, ArriveStep, ApplyDirectlyStep, ListStep, AcceptStep
    <3>2. CASE StageWhileFrozen(h) \/ StageBehindSpool(h) \/ EndDrain(h) \/ Mark(h)
      BY <2>q, <3>2, StageWhileFrozenStep, StageBehindSpoolStep, EndDrainStep, MarkStep
    <3>3. CASE NotReady(h) \/ Blocked(h) \/ CheckpointRefused(h)
      BY <2>q, <3>3, FailStep
    <3>4. CASE DirectDone(h) \/ SkipDuplicate(h) \/ Fence(h) \/ CommitOrDDL(h)
      BY <2>q, <3>4, DirectDoneStep, SkipDuplicateStep, FenceStep, CommitStep
    <3>5. CASE Checkpoint(h) \/ StoreTask(h) \/ CompleteFence(h) \/ RecordFailure(h)
      BY <2>q, <3>5, CheckpointStep, StoreTaskStep, CompleteFenceStep, RecordFailureStep
    <3>6. CASE ReplayDone(h) \/ ReplayFailed(h) \/ ResolveDone(h) \/ ResolveFailed(h)
      BY <2>q, <3>6, OperatorReturns
    <3>7. CASE CaptureBarrier(h) \/ EnterValidation(h)
      BY <2>q, <3>7, CaptureStep, EnterValidationStep
    <3> QED BY <2>3, <3>1, <3>2, <3>3, <3>4, <3>5, <3>6, <3>7 DEF Serve
  <2>4. CASE Reconnect \/ LeaseExpires
    BY <2>q, <2>4, CallsForgotten DEF Reconnect, LeaseExpires
  <2>5. CASE Restart
    BY <2>q, <2>5, RestartStep
  <2>6. CASE EndValidation \/ FinishSnapshot
    BY <2>q, <2>6, TaskStep
  <2>7. ASSUME NEW d \in Servers, Crash(d) PROVE IInv'
    BY <2>q, <2>7, CallsForgotten DEF Crash
  <2> QED BY <1>n, <2>1, <2>2, <2>3, <2>4, <2>5, <2>6, <2>7 DEF Next
<1> QED BY <1>u, <1>n

THEOREM IInvCorrect == Spec => []IInv
<1> QED BY IInvInit, IInvStep, PTL DEF Spec

\* Every row, letter, call, queue and bound of the CDC path keeps its type.
THEOREM CDCTypeCorrect == Spec => []TypeOK
<1>1. IInv => TypeOK
  BY DEF IInv
<1> QED BY <1>1, IInvCorrect, PTL

\* However many handlers and servers apply, stage, replay, fail and die, no
\* checkpoint (recordCDCProgress) is ahead of a transaction that the target
\* does not have.
THEOREM CheckpointNeverAhead == Spec => []CheckpointBehindTarget
<1>1. IInv => CheckpointBehindTarget
  BY DEF IInv, LatestFine, CheckpointBehindTarget, DoneTx
<1> QED BY <1>1, IInvCorrect, PTL

\* What was acknowledged to the source (ApplyEngineJobCDCEvents), which may
\* discard it, is in the target or pending in the spool.
THEOREM AckedNeverLost == Spec => []AckedIsDurable
<1>1. IInv => AckedIsDurable
  BY DEF IInv, ReaderFine, AckedIsDurable, KeptTx, DoneTx
<1> QED BY <1>1, IInvCorrect, PTL

-----------------------------------------------------------------------------
(***************************************************************************)
(* One server whose reads do not fail and whose requests arrive in the     *)
(* order they were sent, and no operator: the spool lock then serves the   *)
(* transactions one after the other.                                       *)
(***************************************************************************)
Serial ==
  /\ \A s, t \in Servers : s = t
  /\ MaxMisses = 0 /\ MaxLate = 0 /\ MaxCommands = 0

\* A handler past its first look at the task has the lock.
Inside(c) ==
  \/ c.pc \in {"check", "apply", "commit", "checkpoint", "store", "complete",
               "applied", "failed", "enter"}
  \/ c.draining
  \/ c.pc = "list" /\ c.kind = "reader"

Queued(h) == \E i \in DOMAIN lock[ServerOf[h]] : lock[ServerOf[h]][i] = h

LockFine ==
  /\ \A s \in Servers : \A i, j \in DOMAIN lock[s] :
       /\ calls[lock[s][i]].kind # "none" /\ ServerOf[lock[s][i]] = s
       /\ i # j => lock[s][i] # lock[s][j]
  /\ \A h \in Handlers : /\ calls[h].kind # "none" => Queued(h)
                         /\ Inside(calls[h]) => Holds(h)
                         /\ calls[h].kind \in {"none", "reader", "drain", "validate"}
                         /\ calls[h].pc # "late"

\* The rows of a spool that are not applied, and their transactions.
Left(sp) == {i \in DOMAIN sp : ~sp[i].applied}

LeftTx(sp) == {sp[i].tx : i \in Left(sp)}

\* Spool sp holds, in order, what is behind checkpoint la and was sent, and the
\* reader is at the transaction behind it or, again, at the last of it.
SpoolInOrder(sp, la, next) ==
  /\ la <= next
  /\ LeftTx(sp) \subseteq la .. next
  /\ (la + 1) .. (next - 1) \subseteq LeftTx(sp)
  /\ \A i, j \in DOMAIN sp : i < j => sp[i].tx < sp[j].tx
  /\ \A i \in DOMAIN sp : sp[i].applied => sp[i].tx <= la

SpoolOrdered == SpoolInOrder(spool, latest, reader.next)

\* The reader waits for one answer at most, and waiting requests are served in
\* the order of their transactions, none of which is behind the spool's end.
\* What was acknowledged was answered.
RequestsOrdered ==
  /\ reader.acked < reader.next
  /\ \A g, h \in Handlers : calls[g].awaited /\ calls[h].awaited => g = h
  /\ \A h \in Handlers :
       LET c == calls[h] IN
       /\ c.awaited => c.req = reader.next
       /\ c.kind = "reader" => c.req <= reader.next
       /\ c.pc = "route" => latest <= c.req /\ PendingTx \subseteq 0 .. c.req
       /\ c.kind = "reader" /\ (c.pc = "list" \/ (c.draining /\ c.pc # "failed"))
            => c.req <= latest \/ c.req \in PendingTx
  /\ \A s \in Servers : \A i, j \in DOMAIN lock[s] :
       /\ i < j
       /\ calls[lock[s][i]].kind = "reader" /\ calls[lock[s][j]].kind = "reader"
       => calls[lock[s][i]].req <= calls[lock[s][j]].req

\* What a handler that has the lock is at.
WorkOrdered(c) ==
  /\ c.pc = "check" => c.tx \in {latest, latest + 1}
  /\ c.pc \in {"apply", "commit", "checkpoint"} => c.tx = latest + 1
  /\ c.pc \in {"store", "complete", "applied", "enter"} => c.tx = latest
  /\ c.pc \in {"apply", "commit", "checkpoint", "store", "complete"} => ApplyReady
  /\ c.pc = "store" => c.seen.status = "CDC_CATCHING_UP"
  /\ c.pc \in {"apply", "commit"} => c.tx \notin Heartbeats
  /\ c.pc = "apply" => Unresolved = {}
  /\ c.pc = "commit" => /\ c.tx \notin Committed
                        /\ dlq[c.tx].status = "COMMIT_UNCERTAIN"
  /\ c.pc \in Working => IF c.draining THEN c.items = Listed
                         ELSE c.kind = "reader" /\ Pending = {}
  /\ validating => /\ c.pc \notin Working \cup {"enter"}
                   /\ c.draining => c.pc = "failed"

TargetOrdered ==
  /\ AppliedOnceInOrder
  /\ \A t \in Committed :
       \/ t <= latest
       \/ t = latest + 1 /\ (t \in DDL \/ dlq[t].status = "COMMIT_UNCERTAIN")
  /\ Undisturbed => \A t \in Committed :
       t <= latest \/ \E h \in Handlers : calls[h].pc = "checkpoint"

WorkFine == \A h \in Handlers : WorkOrdered(calls[h])

BarrierFine == (validating => task = "VALIDATING") /\ BarrierHolds

SerialFine ==
  LockFine /\ SpoolOrdered /\ RequestsOrdered /\ WorkFine /\ TargetOrdered /\ BarrierFine

\* What no step does: write to the target during a validation, move the
\* checkpoint back, forget an ambiguous COMMIT.
StepFine ==
  /\ validating => target' = target
  /\ latest' >= latest
  /\ \A t \in Tx :
       dlq[t].status = "COMMIT_UNCERTAIN" /\ dlq'[t].status # "COMMIT_UNCERTAIN"
         => latest >= t

-----------------------------------------------------------------------------
LEMMA LeftIsPending ==
  /\ Pending = Left(spool) /\ PendingTx = LeftTx(spool)
  /\ Pending' = Left(spool') /\ PendingTx' = LeftTx(spool')
BY DEF Pending, PendingTx, Left, LeftTx

LEMMA ItemType ==
  /\ Tx \subseteq Nat
  /\ \A sp \in Seq(Item) : \A i \in DOMAIN sp :
       /\ sp[i] \in Item /\ i \in Nat
       /\ sp[i].tx \in Tx /\ sp[i].tx \in Nat /\ sp[i].applied \in BOOLEAN
<1>1. \A x \in Item : x.tx \in Tx /\ x.applied \in BOOLEAN
  BY DEF Item
<1>2. Tx \subseteq Nat
  BY DEF Tx
<1>3. \A sp \in Seq(Item) : \A i \in DOMAIN sp : sp[i] \in Item /\ i \in Nat
  OBVIOUS
<1> QED BY <1>1, <1>2, <1>3

\* The first row that is left is the next to apply, or was applied last.
LEMMA FirstLeft ==
  ASSUME NEW sp \in Seq(Item), NEW la \in Nat, NEW next \in Nat,
         SpoolInOrder(sp, la, next), NEW i \in Left(sp), \A j \in Left(sp) : i <= j
  PROVE  /\ sp[i].tx \in {la, la + 1}
         /\ \A j \in Left(sp) : /\ sp[i].tx <= sp[j].tx
                                /\ sp[j].tx = sp[i].tx => j = i
<1>1. \A j \in Left(sp) : j \in DOMAIN sp /\ j \in Nat /\ sp[j].tx \in Nat
  BY ItemType DEF Left
<1>2. \A j \in Left(sp) : j # i => sp[i].tx < sp[j].tx
  <2>1. \A j \in Left(sp) : j # i => i < j
    BY <1>1
  <2> QED BY <1>1, <2>1 DEF SpoolInOrder
<1>3. sp[i].tx \in la .. next
  BY DEF SpoolInOrder, LeftTx
<1>4. CASE la + 1 <= next - 1
  <2>1. la + 1 \in LeftTx(sp)
    BY <1>4 DEF SpoolInOrder
  <2>2. PICK j \in Left(sp) : sp[j].tx = la + 1
    BY <2>1 DEF LeftTx
  <2> QED BY <1>1, <1>2, <1>3, <2>2
<1>5. CASE ~(la + 1 <= next - 1)
  <2>1. sp[i].tx \in Nat /\ la <= sp[i].tx /\ sp[i].tx <= next
    BY <1>1, <1>3
  <2> QED BY <1>1, <1>2, <1>5, <2>1
<1> QED BY <1>1, <1>2, <1>4, <1>5

\* Staging a transaction that is not behind the spool's end.
LEMMA StagedInOrder ==
  ASSUME TypeOK, SpoolOrdered, NEW t \in Tx, spool' = Staged(t),
         latest <= t, t <= reader.next, PendingTx \subseteq 0 .. t
  PROVE  /\ SpoolInOrder(spool', latest, reader.next)
         /\ PendingTx' \subseteq PendingTx \cup {t}
         /\ t <= latest \/ t \in PendingTx'
<1>1. /\ spool \in Seq(Item) /\ latest \in Nat /\ reader.next \in Nat /\ t \in Nat
      /\ \A i \in DOMAIN spool : spool[i].tx \in Nat /\ spool[i].applied \in BOOLEAN
  BY ItemType DEF TypeOK
<1>2. CASE \E i \in DOMAIN spool : spool[i].tx = t
  <2>1. spool' = spool
    BY <1>2 DEF Staged
  <2>2. PendingTx' = PendingTx
    BY <2>1, LeftIsPending
  <2>3. t <= latest \/ t \in PendingTx
    <3>1. PICK i \in DOMAIN spool : spool[i].tx = t
      BY <1>2
    <3> QED BY <1>1, <3>1 DEF SpoolOrdered, SpoolInOrder, PendingTx, Pending
  <2> QED BY <2>1, <2>2, <2>3 DEF SpoolOrdered
<1>3. CASE ~ \E i \in DOMAIN spool : spool[i].tx = t
  <2> DEFINE n == Len(spool)
             r == [tx |-> t, applied |-> FALSE]
  <2>1. spool' = Append(spool, r)
    BY <1>3 DEF Staged
  <2>2. /\ n \in Nat /\ DOMAIN spool = 1 .. n /\ DOMAIN spool' = 1 .. (n + 1)
        /\ \A i \in 1 .. n : spool'[i] = spool[i]
        /\ spool'[n + 1] = r
    BY <1>1, <2>1
  <2>3. \A i \in 1 .. n : spool[i].tx < t
    <3> TAKE i \in 1 .. n
    <3>1. spool[i].tx # t
      BY <1>3, <2>2
    <3>2. CASE spool[i].applied
      BY <1>1, <2>2, <3>1, <3>2 DEF SpoolOrdered, SpoolInOrder
    <3>3. CASE ~spool[i].applied
      <4>1. spool[i].tx \in PendingTx
        BY <2>2, <3>3 DEF PendingTx, Pending
      <4> QED BY <1>1, <2>2, <3>1, <4>1
    <3> QED BY <3>2, <3>3
  <2>4. Left(spool') = Left(spool) \cup {n + 1}
    BY <2>2 DEF Left
  <2>5. LeftTx(spool') = LeftTx(spool) \cup {t}
    <3>1. \A i \in Left(spool) : i \in 1 .. n
      BY <2>2 DEF Left
    <3>2. r.tx = t
      OBVIOUS
    <3> QED BY <2>2, <2>4, <3>1, <3>2 DEF LeftTx
  <2>6. \A i, j \in DOMAIN spool' : i < j => spool'[i].tx < spool'[j].tx
    <3> SUFFICES ASSUME NEW i \in 1 .. (n + 1), NEW j \in 1 .. (n + 1), i < j
                 PROVE  spool'[i].tx < spool'[j].tx
      BY <2>2
    <3>1. i \in 1 .. n
      BY <2>2
    <3>2. CASE j \in 1 .. n
      BY <2>2, <3>1, <3>2 DEF SpoolOrdered, SpoolInOrder
    <3>3. CASE j = n + 1
      BY <2>2, <2>3, <3>1, <3>3
    <3> QED BY <2>2, <3>2, <3>3
  <2>7. \A i \in DOMAIN spool' : spool'[i].applied => spool'[i].tx <= latest
    BY <2>2 DEF SpoolOrdered, SpoolInOrder
  <2>8. t \in latest .. reader.next
    BY <1>1
  <2>9. PendingTx' = PendingTx \cup {t}
    BY <2>5, LeftIsPending
  <2> QED BY <2>5, <2>6, <2>7, <2>8, <2>9 DEF SpoolOrdered, SpoolInOrder
<1> QED BY <1>2, <1>3

\* Marking the row of the newest checkpoint.
LEMMA MarkedInOrder ==
  ASSUME TypeOK, SpoolOrdered, spool' = MarkedApplied(latest)
  PROVE  /\ SpoolInOrder(spool', latest, reader.next)
         /\ Pending' = {i \in Pending : spool[i].tx # latest}
         /\ PendingTx' = PendingTx \ {latest}
         /\ \A i \in DOMAIN spool : spool'[i].tx = spool[i].tx
         /\ DOMAIN spool' = DOMAIN spool
<1>1. /\ spool \in Seq(Item) /\ latest \in Nat /\ reader.next \in Nat
      /\ \A i \in DOMAIN spool : spool[i] \in Item /\ spool[i].tx \in Nat
  BY ItemType DEF TypeOK
<1>2. /\ DOMAIN spool' = DOMAIN spool
      /\ \A i \in DOMAIN spool :
           /\ spool'[i].tx = spool[i].tx
           /\ spool'[i].applied <=> (spool[i].applied \/ spool[i].tx = latest)
  BY <1>1 DEF MarkedApplied, Item
<1>3. Pending' = {i \in Pending : spool[i].tx # latest}
  BY <1>2 DEF Pending
<1>4. PendingTx' = PendingTx \ {latest}
  BY <1>2, <1>3 DEF PendingTx, Pending
<1>5. LeftTx(spool') = LeftTx(spool) \ {latest}
  BY <1>4, LeftIsPending
<1>6. /\ LeftTx(spool') \subseteq latest .. reader.next
      /\ (latest + 1) .. (reader.next - 1) \subseteq LeftTx(spool')
  BY <1>1, <1>5 DEF SpoolOrdered, SpoolInOrder
<1>7. \A i \in DOMAIN spool' : spool'[i].applied => spool'[i].tx <= latest
  <2>1. \A i \in DOMAIN spool : spool[i].applied => spool[i].tx <= latest
    BY DEF SpoolOrdered, SpoolInOrder
  <2> QED BY <1>1, <1>2, <2>1
<1>8. \A i, j \in DOMAIN spool' : i < j => spool'[i].tx < spool'[j].tx
  BY <1>2 DEF SpoolOrdered, SpoolInOrder
<1> QED BY <1>2, <1>3, <1>4, <1>6, <1>7, <1>8 DEF SpoolOrdered, SpoolInOrder

-----------------------------------------------------------------------------
(***************************************************************************)
(* The queue of the spool lock.                                            *)
(***************************************************************************)
LEMMA TheQueue ==
  ASSUME Serial, TypeOK
  PROVE  \A g, h \in Handlers :
           /\ ServerOf[h] \in Servers /\ ServerOf[g] = ServerOf[h]
           /\ lock[ServerOf[h]] \in Seq(Handlers) /\ calls[h] \in Call
BY ConstantsOK DEF Serial, TypeOK

\* Who holds the lock is first in the queue, and everybody else is outside.
LEMMA Alone ==
  ASSUME Serial, TypeOK, LockFine, NEW h \in Handlers, Holds(h)
  PROVE  /\ \A g \in Handlers : g # h => ~Inside(calls[g])
         /\ calls[h].kind # "none"
         /\ 1 \in DOMAIN lock[ServerOf[h]] /\ lock[ServerOf[h]][1] = h
<1>1. /\ ServerOf[h] \in Servers /\ lock[ServerOf[h]] \in Seq(Handlers)
      /\ \A g \in Handlers : ServerOf[g] = ServerOf[h]
  BY TheQueue
<1>2. lock[ServerOf[h]] # << >> /\ Head(lock[ServerOf[h]]) = h
  BY DEF Holds
<1>3. 1 \in DOMAIN lock[ServerOf[h]] /\ lock[ServerOf[h]][1] = h
  BY <1>1, <1>2
<1>4. ASSUME NEW g \in Handlers, Inside(calls[g]) PROVE g = h
  <2>1. Holds(g)
    BY <1>4 DEF LockFine
  <2> QED BY <1>1, <1>2, <2>1 DEF Holds
<1>5. calls[h].kind # "none"
  BY <1>1, <1>3 DEF LockFine
<1> QED BY <1>3, <1>4, <1>5

LEMMA OutsideOrdered ==
  ASSUME NEW c, ~Inside(c) PROVE WorkOrdered(c) /\ WorkOrdered(c)'
BY DEF Inside, WorkOrdered, Working, Applied

\* The handler that holds the lock goes on.
LEMMA GoesOn ==
  ASSUME Serial, TypeOK, LockFine, RequestsOrdered, UNCHANGED <<lock, reader>>,
         NEW h \in Handlers, Holds(h), NEW d \in Call, Goto(h, d),
         d.kind = calls[h].kind, d.req = calls[h].req, d.awaited = calls[h].awaited,
         d.pc \notin {"route", "late"},
         \A g \in Handlers : g # h /\ calls[g].pc = "route" =>
           latest' <= calls[g].req /\ PendingTx' \subseteq 0 .. calls[g].req,
         d.kind = "reader" /\ (d.pc = "list" \/ (d.draining /\ d.pc # "failed")) =>
           d.req <= latest' \/ d.req \in PendingTx',
         WorkOrdered(d)'
  PROVE  LockFine' /\ RequestsOrdered' /\ WorkFine'
<1>1. /\ calls' = [calls EXCEPT ![h] = d] /\ calls \in [Handlers -> Call]
      /\ calls'[h] = d /\ \A g \in Handlers : g # h => calls'[g] = calls[g]
      /\ \A s \in Servers : lock[s] \in Seq(Handlers)
  BY DEF Goto, TypeOK
<1>2. \A g \in Handlers : g # h => ~Inside(calls[g])
  BY Alone
<1>3. \A g \in Handlers : /\ calls'[g].kind = calls[g].kind
                          /\ calls'[g].req = calls[g].req
                          /\ calls'[g].awaited = calls[g].awaited
  BY <1>1
<1>4. \A s \in Servers : \A i \in DOMAIN lock[s] : lock[s][i] \in Handlers
  BY <1>1
<1>5. LockFine'
  <2>1. \A g \in Handlers : Queued(g) => Queued(g)'
    BY DEF Queued
  <2>2. Holds(h)'
    BY DEF Holds
  <2>3. \A g \in Handlers : Inside(calls'[g]) => Holds(g)'
    BY <1>1, <1>2, <2>2
  <2>4. \A g \in Handlers : calls'[g].pc # "late"
    BY <1>1 DEF LockFine
  <2> QED BY <1>3, <1>4, <2>1, <2>3, <2>4 DEF LockFine, Inside
<1>6. RequestsOrdered'
  <2>1. \A g \in Handlers :
          LET c == calls'[g] IN
          /\ c.awaited => c.req = reader'.next
          /\ c.kind = "reader" => c.req <= reader'.next
    BY <1>3 DEF RequestsOrdered
  <2>2. ASSUME NEW g \in Handlers
        PROVE  /\ calls'[g].pc = "route" => latest' <= calls'[g].req
                                            /\ PendingTx' \subseteq 0 .. calls'[g].req
               /\ calls'[g].kind = "reader"
                    /\ (calls'[g].pc = "list" \/ (calls'[g].draining /\ calls'[g].pc # "failed"))
                    => calls'[g].req <= latest' \/ calls'[g].req \in PendingTx'
    <3>1. CASE g = h
      BY <1>1, <3>1
    <3>2. CASE g # h
      <4>1. ~(calls[g].kind = "reader" /\ (calls[g].pc = "list" \/ calls[g].draining))
        BY <1>2, <3>2 DEF Inside
      <4> QED BY <1>1, <3>2, <4>1
    <3> QED BY <3>1, <3>2
  <2>3. \A f, g \in Handlers : calls'[f].awaited /\ calls'[g].awaited => f = g
    BY <1>3 DEF RequestsOrdered
  <2>4. \A s \in Servers : \A i, j \in DOMAIN lock'[s] :
          /\ i < j
          /\ calls'[lock'[s][i]].kind = "reader" /\ calls'[lock'[s][j]].kind = "reader"
          => calls'[lock'[s][i]].req <= calls'[lock'[s][j]].req
    BY <1>3, <1>4 DEF RequestsOrdered
  <2>5. reader'.acked < reader'.next
    BY DEF RequestsOrdered
  <2> QED BY <2>1, <2>2, <2>3, <2>4, <2>5 DEF RequestsOrdered
<1>7. WorkFine'
  <2>1. ASSUME NEW g \in Handlers PROVE WorkOrdered(calls[g])'
    <3>1. CASE g = h
      BY <1>1, <3>1 DEF WorkOrdered, ApplyReady, Unresolved, Committed, Listed, Pending
    <3>2. CASE g # h
      <4>1. PICK c : c = calls[g]
        OBVIOUS
      <4>2. WorkOrdered(c)'
        BY <1>2, <3>2, <4>1, OutsideOrdered
      <4> QED BY <1>1, <3>2, <4>1, <4>2
             DEF WorkOrdered, ApplyReady, Unresolved, Committed, Listed, Pending
    <3> QED BY <3>1, <3>2
  <2> QED BY <2>1 DEF WorkFine
<1> QED BY <1>5, <1>6, <1>7

\* A handler returns, and the next in the queue has the lock.
LEMMA Leaves ==
  ASSUME Serial, IInv, LockFine, RequestsOrdered, UNCHANGED latest,
         SpoolInOrder(spool', latest, reader.next),
         NEW h \in Handlers, Holds(h), NEW ok \in BOOLEAN, Return(h, ok),
         \A g \in Handlers : g # h /\ calls[g].pc = "route" =>
           PendingTx' \subseteq 0 .. calls[g].req,
         ok /\ calls[h].awaited => calls[h].req <= latest \/ calls[h].req \in PendingTx'
  PROVE  LockFine' /\ SpoolOrdered' /\ RequestsOrdered' /\ WorkFine'
<1> DEFINE s == ServerOf[h]
           q == lock[s]
<1>t. TypeOK
  BY DEF IInv
<1>1. /\ calls' = [calls EXCEPT ![h] = IdleCall] /\ calls \in [Handlers -> Call]
      /\ calls'[h] = IdleCall /\ \A g \in Handlers : g # h => calls'[g] = calls[g]
      /\ \A u \in Servers : lock[u] \in Seq(Handlers)
      /\ reader.next \in Nat /\ latest \in Nat
  BY <1>t DEF Return, TypeOK
<1>2. \A g \in Handlers : g # h => ~Inside(calls[g])
  BY <1>t, Alone
<1>3. /\ s \in Servers /\ q \in Seq(Handlers) /\ 1 \in DOMAIN q /\ q[1] = h
      /\ \A g \in Handlers : ServerOf[g] = s
      /\ \A u \in Servers : u = s
  BY <1>t, Alone, TheQueue DEF Serial
<1>4. lock' = [lock EXCEPT ![s] = Tail(q)]
  <2>1. q # << >> /\ Head(q) = h
    BY DEF Holds
  <2> QED BY <2>1 DEF Return, Without
<1>5. lock \in [Servers -> Seq(Handlers)]
  BY <1>t DEF TypeOK
<1>6. lock'[s] = Tail(q)
  BY <1>3, <1>4, <1>5
<1> DEFINE n == Len(q)
<1>7. /\ n \in Nat /\ DOMAIN q = 1 .. n /\ DOMAIN Tail(q) = 1 .. (n - 1)
      /\ \A i \in 1 .. (n - 1) : i + 1 \in 1 .. n /\ i + 1 # 1 /\ Tail(q)[i] = q[i + 1]
  BY <1>3
<1>8. \A i \in 1 .. n : q[i] \in Handlers
  BY <1>3, <1>7
<1>9. /\ \A i \in 1 .. n : calls[q[i]].kind # "none"
      /\ \A i, j \in 1 .. n : i # j => q[i] # q[j]
  BY <1>3, <1>7 DEF LockFine
<1>10. \A i \in 1 .. (n - 1) : Tail(q)[i] \in Handlers /\ Tail(q)[i] # h
  BY <1>3, <1>7, <1>8, <1>9
<1>11. /\ IdleCall.kind = "none" /\ ~Inside(IdleCall) /\ ~IdleCall.awaited
       /\ IdleCall.pc = "idle"
  BY DEF IdleCall, Inside
<1> HIDE DEF s, n
<1>12. LockFine'
  <2>1. ASSUME NEW u \in Servers, NEW i \in DOMAIN lock'[u], NEW j \in DOMAIN lock'[u]
        PROVE  /\ calls'[lock'[u][i]].kind # "none" /\ ServerOf[lock'[u][i]] = u
               /\ i # j => lock'[u][i] # lock'[u][j]
    <3>1. u = s /\ i \in 1 .. (n - 1) /\ j \in 1 .. (n - 1)
      BY <1>3, <1>6, <1>7, <2>1
    <3>2. calls'[Tail(q)[i]] = calls[Tail(q)[i]] /\ calls[Tail(q)[i]].kind # "none"
      BY <1>1, <1>7, <1>9, <1>10, <3>1
    <3>3. i # j => Tail(q)[i] # Tail(q)[j]
      <4>1. i # j => i + 1 # j + 1
        BY <1>7, <3>1
      <4> QED BY <1>7, <1>9, <3>1, <4>1
    <3>4. ServerOf[Tail(q)[i]] = s
      BY <1>3, <1>10, <3>1
    <3> QED BY <1>6, <3>1, <3>2, <3>3, <3>4
  <2>2. ASSUME NEW g \in Handlers
        PROVE  /\ calls'[g].kind # "none" => Queued(g)'
               /\ Inside(calls'[g]) => Holds(g)'
               /\ calls'[g].kind \in {"none", "reader", "drain", "validate"}
               /\ calls'[g].pc # "late"
    <3>1. CASE g = h
      BY <1>1, <1>11, <3>1
    <3>2. CASE g # h
      <4>1. calls'[g] = calls[g] /\ ~Inside(calls[g])
        BY <1>1, <1>2, <3>2
      <4>2. ASSUME calls[g].kind # "none" PROVE Queued(g)'
        <5>1. PICK i \in 1 .. n : q[i] = g
          BY <1>3, <1>7, <4>2 DEF LockFine, Queued
        <5>2. i - 1 \in 1 .. (n - 1) /\ (i - 1) + 1 = i
          <6>1. i # 1
            BY <1>3, <3>2, <5>1
          <6> QED BY <1>7, <6>1
        <5>3. Tail(q)[i - 1] = g
          BY <1>7, <5>1, <5>2
        <5> QED BY <1>3, <1>6, <1>7, <5>2, <5>3 DEF Queued
      <4> QED BY <4>1, <4>2 DEF LockFine
    <3> QED BY <3>1, <3>2
  <2> QED BY <2>1, <2>2 DEF LockFine, Inside
<1>13. /\ reader'.next \in Nat /\ reader.next <= reader'.next
       /\ ~(ok /\ calls[h].awaited) => reader'.next = reader.next
       /\ ok /\ calls[h].awaited =>
            /\ reader'.next = reader.next + 1
            /\ reader.next <= latest \/ reader.next \in PendingTx'
  <2>1. calls[h].awaited => calls[h].req = reader.next
    BY DEF RequestsOrdered
  <2>2. CASE ok /\ calls[h].awaited
    <3>1. reader' = [next |-> calls[h].req + 1, acked |-> Greatest(reader.acked, calls[h].req)]
      BY <2>2 DEF Return
    <3>2. reader'.next = reader.next + 1
      BY <2>1, <2>2, <3>1
    <3> QED BY <1>1, <2>1, <2>2, <3>2
  <2>3. CASE ~(ok /\ calls[h].awaited)
    <3>1. reader' = reader
      BY <2>3 DEF Return
    <3> QED BY <1>1, <2>3, <3>1
  <2> QED BY <2>2, <2>3
<1>14. SpoolOrdered'
  <2>1. LeftTx(spool') = PendingTx'
    BY LeftIsPending
  <2>2. latest <= reader'.next /\ LeftTx(spool') \subseteq latest .. reader'.next
    BY <1>1, <1>13 DEF SpoolInOrder
  <2>3. (latest + 1) .. (reader'.next - 1) \subseteq LeftTx(spool')
    <3>1. CASE ~(ok /\ calls[h].awaited)
      BY <1>13, <3>1 DEF SpoolInOrder
    <3>2. CASE ok /\ calls[h].awaited
      <4> SUFFICES ASSUME NEW t \in (latest + 1) .. (reader'.next - 1)
                   PROVE  t \in LeftTx(spool')
        OBVIOUS
      <4>1. t \in (latest + 1) .. (reader.next - 1) \/ t = reader.next
        BY <1>1, <1>13, <3>2
      <4>2. t = reader.next => t \in PendingTx'
        BY <1>1, <1>13, <3>2
      <4> QED BY <2>1, <4>1, <4>2 DEF SpoolInOrder
    <3> QED BY <3>1, <3>2
  <2> QED BY <2>2, <2>3 DEF SpoolOrdered, SpoolInOrder
<1>15. RequestsOrdered'
  <2>1. ASSUME NEW g \in Handlers
        PROVE  LET c == calls'[g] IN
               /\ c.awaited => c.req = reader'.next
               /\ c.kind = "reader" => c.req <= reader'.next
               /\ c.pc = "route" => latest' <= c.req /\ PendingTx' \subseteq 0 .. c.req
               /\ c.kind = "reader" /\ (c.pc = "list" \/ (c.draining /\ c.pc # "failed"))
                    => c.req <= latest' \/ c.req \in PendingTx'
    <3>1. CASE g = h
      BY <1>1, <1>11, <3>1
    <3>2. CASE g # h
      <4>1. calls'[g] = calls[g] /\ ~Inside(calls[g]) /\ calls[g] \in Call
        BY <1>1, <1>2, <3>2
      <4>2. calls[g].awaited => calls[g].req = reader.next /\ ~calls[h].awaited
        BY <3>2 DEF RequestsOrdered
      <4>3. calls[g].awaited => calls[g].req = reader'.next
        BY <1>13, <4>2
      <4>4. calls[g].kind = "reader" => calls[g].req <= reader'.next
        <5>1. calls[g].req \in Nat
          BY <4>1, ConstantsOK DEF Call
        <5> QED BY <1>1, <1>13, <5>1 DEF RequestsOrdered
      <4>5. calls[g].pc = "route" => latest <= calls[g].req /\ PendingTx' \subseteq 0 .. calls[g].req
        BY <3>2 DEF RequestsOrdered
      <4> QED BY <4>1, <4>3, <4>4, <4>5 DEF Inside
    <3> QED BY <3>1, <3>2
  <2>0. reader'.acked < reader'.next
    <3>1. CASE ok /\ calls[h].awaited
      <4>1. calls[h].req = reader.next
        BY <3>1 DEF RequestsOrdered
      <4>2. reader'.acked = Greatest(reader.acked, reader.next)
        BY <3>1, <4>1 DEF Return
      <4>3. reader'.acked = reader.next
        BY <1>1, <1>t, <4>2, ConstantsOK DEF Greatest, RequestsOrdered, TypeOK
      <4> QED BY <1>1, <1>13, <3>1, <4>3
    <3>2. CASE ~(ok /\ calls[h].awaited)
      <4>1. reader' = reader
        BY <3>2 DEF Return
      <4> QED BY <4>1 DEF RequestsOrdered
    <3> QED BY <3>1, <3>2
  <2>2. \A f, g \in Handlers : calls'[f].awaited /\ calls'[g].awaited => f = g
    BY <1>1, <1>11 DEF RequestsOrdered
  <2>3. ASSUME NEW u \in Servers, NEW i \in DOMAIN lock'[u], NEW j \in DOMAIN lock'[u], i < j,
               calls'[lock'[u][i]].kind = "reader", calls'[lock'[u][j]].kind = "reader"
        PROVE  calls'[lock'[u][i]].req <= calls'[lock'[u][j]].req
    <3>1. u = s /\ i \in 1 .. (n - 1) /\ j \in 1 .. (n - 1)
      BY <1>3, <1>6, <1>7, <2>3
    <3>2. PICK k \in 1 .. n, l \in 1 .. n : k = i + 1 /\ l = j + 1
      BY <1>7, <3>1
    <3>3. lock'[u][i] = q[k] /\ lock'[u][j] = q[l] /\ k < l
      <4>1. i \in Nat /\ j \in Nat
        BY <1>7, <3>1
      <4>2. k < l
        BY <2>3, <3>2, <4>1
      <4>3. lock'[u][i] = Tail(q)[i] /\ lock'[u][j] = Tail(q)[j]
        BY <1>6, <3>1
      <4> QED BY <1>7, <3>1, <3>2, <4>2, <4>3
    <3>4. calls'[q[k]] = calls[q[k]] /\ calls'[q[l]] = calls[q[l]]
      BY <1>1, <1>7, <1>10, <3>1, <3>2
    <3>5. calls[q[k]].kind = "reader" /\ calls[q[l]].kind = "reader"
      BY <2>3, <3>3, <3>4
    <3>6. calls[q[k]].req <= calls[q[l]].req
      BY <1>3, <1>7, <3>3, <3>5 DEF RequestsOrdered
    <3> QED BY <3>3, <3>4, <3>6
  <2> QED BY <2>0, <2>1, <2>2, <2>3 DEF RequestsOrdered
<1>16. WorkFine'
  <2>1. ASSUME NEW g \in Handlers PROVE WorkOrdered(calls[g])'
    <3>1. PICK c : c = calls'[g]
      OBVIOUS
    <3>2. ~Inside(c)
      BY <1>1, <1>2, <1>11, <3>1
    <3>3. WorkOrdered(c)'
      BY <3>2, OutsideOrdered
    <3> QED BY <3>1, <3>3
           DEF WorkOrdered, ApplyReady, Unresolved, Committed, Listed, Pending
  <2> QED BY <2>1 DEF WorkFine
<1> QED BY <1>12, <1>14, <1>15, <1>16

\* A call begins and waits at the end of the queue.
LEMMA Joins ==
  ASSUME Serial, TypeOK, LockFine, RequestsOrdered, SpoolOrdered, WorkFine,
         UNCHANGED <<tables, reader>>,
         NEW h \in Handlers, calls[h].kind = "none", NEW d \in Call, Goto(h, d),
         Enqueue(h), ~Inside(d), d.pc # "late", d.kind \in {"reader", "drain", "validate"},
         d.pc = "route" => d.kind = "reader", d.kind = "reader" => d.req = reader.next,
         d.awaited => d.kind = "reader" /\ ~Awaiting
  PROVE  LockFine' /\ RequestsOrdered' /\ WorkFine'
<1> DEFINE s == ServerOf[h]
           q == lock[s]
           n == Len(q)
           a == Append(q, h)
<1>1. /\ calls' = [calls EXCEPT ![h] = d] /\ calls \in [Handlers -> Call]
      /\ calls'[h] = d /\ \A g \in Handlers : g # h => calls'[g] = calls[g]
      /\ lock \in [Servers -> Seq(Handlers)]
  BY DEF Goto, TypeOK
<1>2. /\ s \in Servers /\ q \in Seq(Handlers)
      /\ \A g \in Handlers : ServerOf[g] = s
      /\ \A u \in Servers : u = s
  BY TheQueue DEF Serial
<1>3. lock'[s] = a /\ lock' = [lock EXCEPT ![s] = a]
  BY <1>1, <1>2 DEF Enqueue
<1>4. /\ n \in Nat /\ DOMAIN q = 1 .. n /\ DOMAIN a = 1 .. (n + 1)
      /\ \A i \in 1 .. n : a[i] = q[i] /\ q[i] \in Handlers
      /\ a[n + 1] = h
  BY <1>2
<1>5. \A i \in 1 .. n : q[i] # h /\ calls'[q[i]] = calls[q[i]]
  <2>1. \A i \in 1 .. n : q[i] # h
    BY <1>2, <1>4 DEF LockFine
  <2> QED BY <1>1, <1>4, <2>1
<1>6. PendingTx' = PendingTx /\ reader' = reader /\ latest' = latest
  BY LeftIsPending DEF tables, PendingTx, Pending
<1>7. /\ reader.next \in Nat /\ latest <= reader.next
      /\ PendingTx \subseteq 0 .. reader.next
  <2>1. PendingTx \subseteq latest .. reader.next /\ latest <= reader.next
    BY LeftIsPending DEF SpoolOrdered, SpoolInOrder
  <2>2. reader.next \in Nat /\ latest \in Nat
    BY DEF TypeOK
  <2> QED BY <2>1, <2>2
<1> HIDE DEF s, n, a
<1>8. LockFine'
  <2>1. ASSUME NEW u \in Servers, NEW i \in DOMAIN lock'[u], NEW j \in DOMAIN lock'[u]
        PROVE  /\ calls'[lock'[u][i]].kind # "none" /\ ServerOf[lock'[u][i]] = u
               /\ i # j => lock'[u][i] # lock'[u][j]
    <3>1. u = s /\ i \in 1 .. (n + 1) /\ j \in 1 .. (n + 1)
      BY <1>2, <1>3, <1>4, <2>1
    <3>2. \A k \in 1 .. (n + 1) : k \in 1 .. n \/ k = n + 1
      BY <1>4
    <3>3. calls'[a[i]].kind # "none" /\ ServerOf[a[i]] = s
      <4>1. CASE i \in 1 .. n
        BY <1>2, <1>4, <1>5, <4>1 DEF LockFine
      <4>2. CASE i = n + 1
        BY <1>1, <1>2, <1>4, <4>2
      <4> QED BY <3>1, <3>2, <4>1, <4>2
    <3>4. i # j => a[i] # a[j]
      <4>1. \A k, l \in 1 .. n : k # l => q[k] # q[l]
        BY <1>2, <1>4 DEF LockFine
      <4> QED BY <1>4, <1>5, <3>1, <3>2, <4>1
    <3> QED BY <1>3, <3>1, <3>3, <3>4
  <2>2. ASSUME NEW g \in Handlers
        PROVE  /\ calls'[g].kind # "none" => Queued(g)'
               /\ Inside(calls'[g]) => Holds(g)'
               /\ calls'[g].kind \in {"none", "reader", "drain", "validate"}
               /\ calls'[g].pc # "late"
    <3>1. Queued(g) => Queued(g)'
      <4> SUFFICES ASSUME NEW i \in 1 .. n, q[i] = g PROVE Queued(g)'
        BY <1>2, <1>4 DEF Queued
      <4>1. i \in 1 .. (n + 1) /\ a[i] = g
        BY <1>4
      <4> QED BY <1>2, <1>3, <1>4, <4>1 DEF Queued
    <3>2. Queued(h)'
      <4>1. n + 1 \in 1 .. (n + 1)
        BY <1>4
      <4> QED BY <1>2, <1>3, <1>4, <4>1 DEF Queued
    <3>3. Holds(g) => Holds(g)'
      <4>1. q # << >> => a # << >> /\ Head(a) = Head(q)
        BY <1>2 DEF a
      <4> QED BY <1>2, <1>3, <4>1 DEF Holds
    <3>4. CASE g = h
      BY <1>1, <3>2, <3>4
    <3>5. CASE g # h
      BY <1>1, <3>1, <3>3, <3>5 DEF LockFine
    <3> QED BY <3>4, <3>5
  <2> QED BY <2>1, <2>2 DEF LockFine, Inside
<1>9. RequestsOrdered'
  <2>1. ASSUME NEW g \in Handlers
        PROVE  LET c == calls'[g] IN
               /\ c.awaited => c.req = reader'.next
               /\ c.kind = "reader" => c.req <= reader'.next
               /\ c.pc = "route" => latest' <= c.req /\ PendingTx' \subseteq 0 .. c.req
               /\ c.kind = "reader" /\ (c.pc = "list" \/ (c.draining /\ c.pc # "failed"))
                    => c.req <= latest' \/ c.req \in PendingTx'
    <3>1. CASE g = h
      BY <1>1, <1>6, <1>7, <3>1 DEF Inside
    <3>2. CASE g # h
      BY <1>1, <1>6, <3>2 DEF RequestsOrdered
    <3> QED BY <3>1, <3>2
  <2>2. \A f, g \in Handlers : calls'[f].awaited /\ calls'[g].awaited => f = g
    BY <1>1 DEF RequestsOrdered, Awaiting
  <2>3. ASSUME NEW u \in Servers, NEW i \in DOMAIN lock'[u], NEW j \in DOMAIN lock'[u], i < j,
               calls'[lock'[u][i]].kind = "reader", calls'[lock'[u][j]].kind = "reader"
        PROVE  calls'[lock'[u][i]].req <= calls'[lock'[u][j]].req
    <3>1. u = s /\ i \in 1 .. n /\ j \in 1 .. (n + 1) /\ (j \in 1 .. n \/ j = n + 1)
      BY <1>2, <1>3, <1>4, <2>3
    <3>2. calls'[a[i]] = calls[q[i]] /\ calls[q[i]].kind = "reader"
      BY <1>3, <1>4, <1>5, <2>3, <3>1
    <3>3. CASE j \in 1 .. n
      <4>1. calls'[a[j]] = calls[q[j]] /\ calls[q[j]].kind = "reader"
        BY <1>3, <1>4, <1>5, <2>3, <3>1, <3>3
      <4>2. calls[q[i]].req <= calls[q[j]].req
        BY <1>2, <1>4, <2>3, <3>1, <3>2, <3>3, <4>1 DEF RequestsOrdered
      <4> QED BY <1>3, <3>1, <3>2, <4>1, <4>2
    <3>4. CASE j = n + 1
      <4>1. calls'[a[j]] = d /\ d.kind = "reader"
        BY <1>1, <1>3, <1>4, <2>3, <3>1, <3>4
      <4>2. calls[q[i]].req <= reader.next
        BY <1>4, <3>1, <3>2 DEF RequestsOrdered
      <4> QED BY <1>3, <3>1, <3>2, <4>1, <4>2
    <3> QED BY <3>1, <3>3, <3>4
  <2>4. reader'.acked < reader'.next
    BY <1>6 DEF RequestsOrdered
  <2> QED BY <2>1, <2>2, <2>3, <2>4 DEF RequestsOrdered
<1>10. WorkFine'
  <2>1. ASSUME NEW g \in Handlers PROVE WorkOrdered(calls[g])'
    <3>1. CASE g = h
      <4>1. WorkOrdered(d)'
        BY OutsideOrdered
      <4> QED BY <1>1, <3>1, <4>1
             DEF WorkOrdered, ApplyReady, Unresolved, Committed, Listed, Pending
    <3>2. CASE g # h
      <4>1. calls'[g] = calls[g] /\ WorkOrdered(calls[g])
        BY <1>1, <3>2 DEF WorkFine
      <4>2. UNCHANGED <<task, validating, latest, spool, dlq, target>>
        BY DEF tables
      <4> QED BY <4>1, <4>2
             DEF WorkOrdered, ApplyReady, Unresolved, Committed, Listed, Pending
    <3> QED BY <3>1, <3>2
  <2> QED BY <2>1 DEF WorkFine
<1> QED BY <1>8, <1>9, <1>10

-----------------------------------------------------------------------------
(***************************************************************************)
(* What a step leaves as it was.                                           *)
(***************************************************************************)
\* Reads do not fail, nothing is late and nobody commands.
LEMMA NeverSpent ==
  ASSUME Serial, TypeOK PROVE ~Spend("misses") /\ ~Spend("late") /\ ~Spend("commands")
<1>1. budget.misses \in 0..0 /\ budget.late \in 0..0 /\ budget.commands \in 0..0
  BY DEF Serial, TypeOK
<1> QED BY <1>1 DEF Spend

\* What was disturbed stays so, and a fault or a crash disturbs.
LEMMA StaysDisturbed ==
  ASSUME TypeOK
  PROVE  /\ UNCHANGED budget => (Undisturbed' => Undisturbed)
         /\ Spend("giveups") \/ Spend("validations") => (Undisturbed' => Undisturbed)
         /\ Spend("faults") \/ Spend("crashes") => ~Undisturbed'
<1>1. budget.faults \in 0..MaxFaults /\ budget.crashes \in 0..MaxCrashes
  BY DEF TypeOK
<1>2. MaxFaults \in Nat /\ MaxCrashes \in Nat
  BY ConstantsOK
<1>3. UNCHANGED budget => (Undisturbed' => Undisturbed)
  BY DEF Undisturbed
<1>4. Spend("giveups") \/ Spend("validations") => (Undisturbed' => Undisturbed)
  BY DEF Undisturbed, Spend, TypeOK
<1>5. Spend("faults") => budget'.faults = budget.faults - 1
  BY DEF Spend, TypeOK
<1>6. Spend("crashes") => budget'.crashes = budget.crashes - 1
  BY DEF Spend, TypeOK
<1> QED BY <1>1, <1>2, <1>3, <1>4, <1>5, <1>6 DEF Undisturbed

\* An ambiguous COMMIT that is not behind the checkpoint stays one.
LettersKept ==
  \A t \in Tx : t > latest /\ dlq[t].status = "COMMIT_UNCERTAIN" =>
                  dlq'[t].status = "COMMIT_UNCERTAIN"

LEMMA LettersSame == UNCHANGED dlq => LettersKept
BY DEF LettersKept

\* The target and the checkpoint stay.
LEMMA TargetKept ==
  ASSUME TypeOK, TargetOrdered, BarrierFine, UNCHANGED <<validating, latest, target, task>>,
         LettersKept, Undisturbed' => Undisturbed, validating => barrier' = barrier,
         Undisturbed' /\ (\E h \in Handlers : calls[h].pc = "checkpoint") =>
           \E h \in Handlers : calls'[h].pc = "checkpoint"
  PROVE  TargetOrdered' /\ BarrierFine' /\ StepFine
<1>1. /\ latest \in Nat /\ target \in Seq(Tx)
      /\ Tx \subseteq Nat
  BY ItemType DEF TypeOK
<1>2. Committed' = Committed /\ Committed \subseteq Tx
  BY <1>1 DEF Committed
<1>3. AppliedOnceInOrder'
  BY DEF TargetOrdered, AppliedOnceInOrder
<1>4. \A t \in Committed :
       \/ t <= latest
       \/ t = latest + 1 /\ (t \in DDL \/ dlq'[t].status = "COMMIT_UNCERTAIN")
  BY <1>1, <1>2 DEF TargetOrdered, LettersKept
<1>5. TargetOrdered'
  BY <1>2, <1>3, <1>4 DEF TargetOrdered
<1>6. BarrierFine'
  BY <1>2 DEF BarrierFine, BarrierHolds
<1>7. StepFine
  <2>1. \A t \in Tx : t > latest \/ latest >= t
    BY <1>1
  <2>2. latest' >= latest /\ target' = target
    BY <1>1
  <2> QED BY <2>1, <2>2 DEF StepFine, LettersKept
<1> QED BY <1>5, <1>6, <1>7

\* Nobody but the handler with the lock can be about to write a checkpoint.
LEMMA OneAtCheckpoint ==
  ASSUME Serial, TypeOK, LockFine, NEW h \in Handlers, Holds(h)
  PROVE  \A g \in Handlers : calls[g].pc = "checkpoint" => g = h
BY Alone DEF Inside

\* The handler with the lock goes on, and of the tables it changes letters only.
LEMMA Stays ==
  ASSUME Serial, IInv, SerialFine,
         UNCHANGED <<task, validating, latest, spool, target, reader, lock>>,
         validating => barrier' = barrier, LettersKept, Undisturbed' => Undisturbed,
         NEW h \in Handlers, Holds(h), calls[h].pc # "checkpoint" \/ ~Undisturbed',
         NEW d \in Call, Goto(h, d),
         d.kind = calls[h].kind, d.req = calls[h].req, d.awaited = calls[h].awaited,
         d.pc \notin {"route", "late"},
         d.kind = "reader" /\ (d.pc = "list" \/ (d.draining /\ d.pc # "failed")) =>
           d.req <= latest \/ d.req \in PendingTx,
         WorkOrdered(d)'
  PROVE  SerialFine' /\ StepFine
<1>1. TypeOK /\ LockFine /\ SpoolOrdered /\ RequestsOrdered /\ TargetOrdered /\ BarrierFine
  BY DEF IInv, SerialFine
<1>2. PendingTx' = PendingTx
  BY DEF PendingTx, Pending
<1>3. LockFine' /\ RequestsOrdered' /\ WorkFine'
  <2>1. \A g \in Handlers : g # h /\ calls[g].pc = "route" =>
           latest' <= calls[g].req /\ PendingTx' \subseteq 0 .. calls[g].req
    BY <1>1, <1>2 DEF RequestsOrdered
  <2>2. d.kind = "reader" /\ (d.pc = "list" \/ (d.draining /\ d.pc # "failed")) =>
           d.req <= latest' \/ d.req \in PendingTx'
    BY <1>2
  <2>3. UNCHANGED <<lock, reader>>
    OBVIOUS
  <2> QED BY <1>1, <2>1, <2>2, <2>3, GoesOn
<1>4. SpoolOrdered'
  BY <1>1 DEF SpoolOrdered
<1>5. TargetOrdered' /\ BarrierFine' /\ StepFine
  <2>1. \A g \in Handlers : calls[g].pc = "checkpoint" => g = h
    BY <1>1, OneAtCheckpoint
  <2> QED BY <1>1, <2>1, TargetKept
<1> QED BY <1>3, <1>4, <1>5 DEF SerialFine

-----------------------------------------------------------------------------
(***************************************************************************)
(* The steps of the handler that has the lock.                             *)
(***************************************************************************)
\* Where it is before such a step.
LEMMA HolderAt ==
  ASSUME Serial, IInv, SerialFine, NEW h \in Handlers
  PROVE  /\ TypeOK /\ calls[h] \in Call /\ LockFine /\ RequestsOrdered /\ SpoolOrdered
         /\ CallFine(calls[h], DoneTx, KeptTx) /\ WorkOrdered(calls[h])
         /\ Inside(calls[h]) => Holds(h)
         /\ calls[h].kind \notin {"replay", "resolve"} /\ calls[h].pc # "late"
         /\ ~ApplyReady \/ ~validating
         /\ latest \in Nat /\ reader.next \in Nat /\ spool \in Seq(Item)
<1>1. TypeOK /\ LockFine /\ RequestsOrdered /\ SpoolOrdered /\ WorkFine /\ CallsFine
      /\ BarrierFine
  BY DEF IInv, SerialFine
<1>2. calls[h] \in Call /\ latest \in Nat /\ reader.next \in Nat /\ spool \in Seq(Item)
  BY <1>1 DEF TypeOK
<1>3. ~ApplyReady \/ ~validating
  BY <1>1 DEF ApplyReady, BarrierFine
<1> QED BY <1>1, <1>2, <1>3 DEF LockFine, WorkFine, CallsFine

\* A step that changes no table but the letters.
LEMMA Goes ==
  ASSUME Serial, IInv, IInv', SerialFine,
         UNCHANGED <<task, barrier, validating, latest, spool, target, reader, lock>>,
         LettersKept, UNCHANGED budget \/ Spend("faults"),
         NEW h \in Handlers, Holds(h), NEW d, Goto(h, d),
         calls[h].pc # "checkpoint" \/ Spend("faults"),
         d.kind = calls[h].kind, d.req = calls[h].req, d.awaited = calls[h].awaited,
         d.pc \notin {"route", "late"},
         d.kind = "reader" /\ (d.pc = "list" \/ (d.draining /\ d.pc # "failed")) =>
           calls[h].pc = "list" \/ (calls[h].draining /\ calls[h].pc # "failed"),
         WorkOrdered(d)'
  PROVE  SerialFine' /\ StepFine
<1>1. TypeOK /\ RequestsOrdered
  BY DEF IInv, SerialFine
<1>2. d \in Call
  <2>1. calls' = [calls EXCEPT ![h] = d] /\ calls \in [Handlers -> Call]
        /\ calls' \in [Handlers -> Call]
    BY DEF Goto, IInv, TypeOK
  <2> QED BY <2>1
<1>3. Undisturbed' => Undisturbed
  BY <1>1, StaysDisturbed
<1>4. calls[h].pc # "checkpoint" \/ ~Undisturbed'
  BY <1>1, StaysDisturbed
<1>5. d.kind = "reader" /\ (d.pc = "list" \/ (d.draining /\ d.pc # "failed")) =>
           d.req <= latest \/ d.req \in PendingTx
  BY <1>1 DEF RequestsOrdered
<1>6. UNCHANGED <<task, validating, latest, spool, target, reader, lock>>
  OBVIOUS
<1> QED BY <1>2, <1>3, <1>4, <1>5, <1>6, Stays

LEMMA ApplyDirectlyFine ==
  ASSUME Serial, IInv, IInv', SerialFine, NEW h \in Handlers, ApplyDirectly(h)
  PROVE  SerialFine' /\ StepFine
<1>d. PICK d : d = [calls[h] EXCEPT !.pc = "check", !.tx = calls[h].req]
  OBVIOUS
<1>1. /\ calls[h].pc = "route" /\ Holds(h) /\ ApplyReady /\ Pending = {} /\ Goto(h, d)
      /\ UNCHANGED <<tables, reader, lock, lease, scheduled, budget>>
  BY <1>d DEF ApplyDirectly, MustQueue
<1>2. UNCHANGED <<task, barrier, validating, latest, spool, dlq, target, reader, lock, budget>>
  BY <1>1 DEF tables
<1>3. /\ d.kind = calls[h].kind /\ d.req = calls[h].req /\ d.awaited = calls[h].awaited
      /\ d.pc = "check" /\ d.tx = calls[h].req /\ d.draining = calls[h].draining
  BY <1>d, HolderAt DEF Call
<1>4. calls[h].kind = "reader" /\ ~calls[h].draining /\ ~validating
  BY <1>1, HolderAt DEF CallFine
<1>5. calls[h].req \in {latest, latest + 1}
  <2>1. latest <= calls[h].req /\ calls[h].req <= reader.next
    BY <1>1, <1>4, HolderAt DEF RequestsOrdered
  <2>2. (latest + 1) .. (reader.next - 1) = {}
    BY <1>1, HolderAt, LeftIsPending DEF SpoolOrdered, SpoolInOrder, LeftTx
  <2>3. calls[h].req \in Nat /\ latest \in Nat /\ reader.next \in Nat
    BY HolderAt, ConstantsOK DEF Call
  <2>4. ~(latest + 1 <= reader.next - 1)
    BY <2>2, <2>3
  <2> QED BY <2>1, <2>3, <2>4
<1>6. WorkOrdered(d)'
  BY <1>1, <1>2, <1>3, <1>4, <1>5 DEF WorkOrdered, Pending
<1>7. LettersKept
  BY <1>2, LettersSame
<1> QED BY <1>1, <1>2, <1>3, <1>4, <1>6, <1>7, Goes

\* A handler with the lock that fails.
LEMMA Fails ==
  ASSUME Serial, IInv, IInv', SerialFine, NEW h \in Handlers, NEW e, Fail(h, e),
         Holds(h), UNCHANGED <<tables, reader, lock>>,
         Spend("faults") \/ (UNCHANGED budget /\ calls[h].pc # "checkpoint")
  PROVE  SerialFine' /\ StepFine
<1>d. PICK d : d = [calls[h] EXCEPT !.pc = "failed", !.err = e]
  OBVIOUS
<1>1. UNCHANGED <<task, barrier, validating, latest, spool, dlq, target, reader, lock>>
  BY DEF tables
<1>2. /\ d.kind = calls[h].kind /\ d.req = calls[h].req /\ d.awaited = calls[h].awaited
      /\ d.pc = "failed"
  BY <1>d, HolderAt DEF Call
<1>3. WorkOrdered(d)'
  BY <1>2 DEF WorkOrdered, Working, Applied
<1>4. LettersKept
  BY <1>1, LettersSame
<1>5. Goto(h, d)
  BY <1>d DEF Fail
<1> QED BY <1>1, <1>2, <1>3, <1>4, <1>5, Goes

LEMMA FailuresFine ==
  ASSUME Serial, IInv, IInv', SerialFine, NEW h \in Handlers,
         NotReady(h) \/ Blocked(h) \/ CheckpointRefused(h) \/ WriteFails(h)
  PROVE  SerialFine' /\ StepFine
<1>1. CASE NotReady(h)
  <2>1. Holds(h)
    BY <1>1, HolderAt DEF NotReady, Inside
  <2> QED BY <1>1, <2>1, Fails DEF NotReady
<1>2. CASE Blocked(h)
  <2>1. Holds(h)
    BY <1>2, HolderAt DEF Blocked, Inside
  <2>2. UNCHANGED budget
    BY <1>2, HolderAt, NeverSpent DEF Blocked, PassesForNew
  <2> QED BY <1>2, <2>1, <2>2, Fails DEF Blocked
<1>3. CASE CheckpointRefused(h)
  BY <1>3, HolderAt DEF CheckpointRefused, WorkOrdered
<1>4. CASE WriteFails(h)
  <2>1. Holds(h)
    BY <1>4, HolderAt DEF WriteFails, Inside
  <2>2. Fail(h, "plain") \/ Fail(h, "lost")
    BY <1>4 DEF WriteFails
  <2>3. Spend("faults") /\ UNCHANGED <<tables, reader, lock>>
    BY <1>4 DEF WriteFails
  <2> QED BY <2>1, <2>2, <2>3, Fails
<1> QED BY <1>1, <1>2, <1>3, <1>4

LEMMA ListFine ==
  ASSUME Serial, IInv, IInv', SerialFine, NEW h \in Handlers, List(h)
  PROVE  SerialFine' /\ StepFine
<1>1. /\ calls[h].pc = "list" /\ Holds(h) /\ MayList(h) /\ Pending # {}
      /\ TakeFirst(h, Listed) /\ UNCHANGED budget
      /\ UNCHANGED <<task, barrier, validating, latest, spool, dlq, target, reader, lock>>
  BY DEF List, tables
<1>2. Listed # {}
  BY <1>1 DEF Listed
<1>3. PICK x \in Listed : /\ \A y \in Listed : x.row <= y.row
                          /\ Goto(h, [calls[h] EXCEPT !.pc = "check", !.draining = TRUE,
                                                      !.items = Listed, !.tx = x.tx])
  BY <1>1, <1>2 DEF TakeFirst
<1>d. PICK d : d = [calls[h] EXCEPT !.pc = "check", !.draining = TRUE,
                                    !.items = Listed, !.tx = x.tx]
  OBVIOUS
<1>4. /\ d.kind = calls[h].kind /\ d.req = calls[h].req /\ d.awaited = calls[h].awaited
      /\ d.pc = "check" /\ d.draining /\ d.items = Listed /\ d.tx = x.tx
  BY <1>d, HolderAt DEF Call
<1>5. x.tx \in {latest, latest + 1}
  <2>1. PICK i \in Left(spool) : x = [row |-> i, tx |-> spool[i].tx]
    BY LeftIsPending DEF Listed
  <2>2. ASSUME NEW j \in Left(spool) PROVE i <= j
    <3>1. [row |-> j, tx |-> spool[j].tx] \in Listed
      BY LeftIsPending DEF Listed
    <3> QED BY <1>3, <2>1, <3>1
  <2>3. spool[i].tx \in {latest, latest + 1}
    BY <2>2, HolderAt, FirstLeft DEF SpoolOrdered
  <2> QED BY <2>1, <2>3
<1>6. ~validating
  BY <1>1, HolderAt DEF MayList, WorkOrdered
<1>7. Listed' = Listed
  BY <1>1 DEF Listed, Pending
<1>8. WorkOrdered(d)'
  BY <1>1, <1>4, <1>5, <1>6, <1>7 DEF WorkOrdered
<1>9. LettersKept
  BY <1>1, LettersSame
<1>10. Goto(h, d)
  BY <1>3, <1>d
<1> QED BY <1>1, <1>4, <1>8, <1>9, <1>10, Goes

LEMMA SkipDuplicateFine ==
  ASSUME Serial, IInv, IInv', SerialFine, NEW h \in Handlers, SkipDuplicate(h)
  PROVE  SerialFine' /\ StepFine
<1>d. PICK d : d = [calls[h] EXCEPT !.pc = "applied"]
  OBVIOUS
<1>1. /\ calls[h].pc = "check" /\ ApplyReady /\ calls[h].tx = latest /\ Goto(h, d)
      /\ UNCHANGED <<task, barrier, validating, latest, spool, target, reader, lock>>
  BY <1>d DEF SkipDuplicate, Step, IsDuplicate
<1>2. UNCHANGED budget /\ (dlq' = dlq \/ dlq' = [dlq EXCEPT ![latest] = NoLetter])
  BY <1>1, HolderAt, NeverSpent DEF SkipDuplicate
<1>3. /\ d.kind = calls[h].kind /\ d.req = calls[h].req /\ d.awaited = calls[h].awaited
      /\ d.pc = "applied" /\ d.draining = calls[h].draining /\ d.tx = calls[h].tx
      /\ d.items = calls[h].items
  BY <1>d, HolderAt DEF Call
<1>4. Holds(h) /\ ~validating
  BY <1>1, HolderAt DEF Inside
<1>5. WorkOrdered(d)'
  <2>1. Pending' = Pending /\ Listed' = Listed
    BY <1>1 DEF Pending, Listed
  <2> QED BY <1>1, <1>3, <1>4, <2>1, HolderAt DEF WorkOrdered, Working, Applied
<1>6. LettersKept
  <2>1. dlq \in [Tx -> Letter] /\ latest \in Nat
    BY HolderAt DEF TypeOK
  <2>2. \A t \in Tx : t > latest => t # latest
    BY <2>1
  <2>3. \A t \in Tx : t # latest => dlq'[t] = dlq[t]
    BY <1>2, <2>1
  <2> QED BY <2>2, <2>3 DEF LettersKept
<1>7. UNCHANGED <<task, barrier, validating, latest, spool, target, reader, lock>>
  BY <1>1
<1> QED BY <1>1, <1>2, <1>3, <1>4, <1>5, <1>6, <1>7, Goes

LEMMA AcceptFine ==
  ASSUME Serial, IInv, IInv', SerialFine, NEW h \in Handlers, Accept(h)
  PROVE  SerialFine' /\ StepFine
<1>d. PICK d : d = [calls[h] EXCEPT !.pc = IF calls[h].tx \in Heartbeats
                                           THEN "checkpoint" ELSE "apply"]
  OBVIOUS
<1>1. /\ calls[h].pc = "check" /\ ApplyReady /\ Goto(h, d)
      /\ UNCHANGED <<tables, reader, lock, lease, scheduled>>
  BY <1>d DEF Accept, Step
<1>2. UNCHANGED budget /\ calls[h].tx # latest
  BY HolderAt, NeverSpent DEF Accept, PassesForNew, IsDuplicate
<1>3. calls[h].tx = latest + 1
  BY <1>1, <1>2, HolderAt DEF WorkOrdered
<1>4. Unresolved = {}
  <2>1. Blockers(h) = Unresolved
    BY HolderAt DEF Blockers
  <2> QED BY <2>1 DEF Accept
<1>5. /\ d.kind = calls[h].kind /\ d.req = calls[h].req /\ d.awaited = calls[h].awaited
      /\ d.pc \in {"checkpoint", "apply"} /\ d.draining = calls[h].draining
      /\ d.tx = calls[h].tx /\ d.items = calls[h].items
      /\ d.pc = "apply" => d.tx \notin Heartbeats
  BY <1>d, HolderAt DEF Call
<1>6. Holds(h) /\ ~validating
  BY <1>1, HolderAt DEF Inside
<1>7. UNCHANGED <<task, barrier, validating, latest, spool, dlq, target, reader, lock>>
  BY <1>1 DEF tables
<1>8. WorkOrdered(d)'
  <2>1. Pending' = Pending /\ Listed' = Listed /\ Unresolved' = Unresolved
    BY <1>7 DEF Pending, Listed, Unresolved
  <2> QED BY <1>1, <1>3, <1>4, <1>5, <1>6, <1>7, <2>1, HolderAt
         DEF WorkOrdered, Working, Applied, ApplyReady
<1>9. LettersKept
  BY <1>7, LettersSame
<1> QED BY <1>1, <1>2, <1>5, <1>6, <1>7, <1>8, <1>9, Goes

LEMMA FenceFine ==
  ASSUME Serial, IInv, IInv', SerialFine, NEW h \in Handlers, Fence(h)
  PROVE  SerialFine' /\ StepFine
<1>d. PICK t, f, d : /\ t = calls[h].tx
                     /\ f = (IF dlq[t].status = "none" THEN "new" ELSE "reused")
                     /\ d = [calls[h] EXCEPT !.pc = "commit", !.fence = f]
  OBVIOUS
<1>1. /\ calls[h].pc = "apply" /\ t \notin DDL /\ Goto(h, d) /\ UNCHANGED budget
      /\ dlq' = [dlq EXCEPT ![t] = Fenced(dlq[t])]
      /\ UNCHANGED <<task, barrier, validating, latest, spool, target, reader, lock>>
  BY <1>d DEF Fence
<1>2. /\ d.kind = calls[h].kind /\ d.req = calls[h].req /\ d.awaited = calls[h].awaited
      /\ d.pc = "commit" /\ d.draining = calls[h].draining
      /\ d.tx = t /\ d.items = calls[h].items
  BY <1>d, HolderAt DEF Call
<1>3. /\ Holds(h) /\ t = latest + 1 /\ ApplyReady /\ Unresolved = {} /\ ~validating
      /\ t \in Tx /\ t \notin Heartbeats
  BY <1>1, <1>d, HolderAt DEF Inside, WorkOrdered, CallFine, Working
<1>4. dlq \in [Tx -> Letter] /\ Fenced(dlq[t]).status = "COMMIT_UNCERTAIN"
  BY <1>3, HolderAt DEF TypeOK, Fenced, Letter
<1>5. /\ dlq'[t].status = "COMMIT_UNCERTAIN"
      /\ \A u \in Tx : u # t => dlq'[u] = dlq[u]
  BY <1>1, <1>3, <1>4
<1>6. t \notin Committed
  <2>1. dlq[t].status # "COMMIT_UNCERTAIN"
    BY <1>3 DEF Unresolved
  <2>2. latest \in Nat /\ ~(t <= latest)
    BY <1>3, HolderAt
  <2> QED BY <1>1, <2>1, <2>2 DEF SerialFine, TargetOrdered
<1>7. WorkOrdered(d)'
  <2>1. Pending' = Pending /\ Listed' = Listed /\ Committed' = Committed
    BY <1>1 DEF Pending, Listed, Committed
  <2> QED BY <1>1, <1>2, <1>3, <1>5, <1>6, <1>d, <2>1, HolderAt
         DEF WorkOrdered, Working, Applied, ApplyReady
<1>8. LettersKept
  BY <1>5 DEF LettersKept
<1>9. UNCHANGED <<task, barrier, validating, latest, spool, target, reader, lock>>
  BY <1>1
<1> QED BY <1>1, <1>2, <1>3, <1>7, <1>8, <1>9, Goes

LEMMA CompleteFenceFine ==
  ASSUME Serial, IInv, IInv', SerialFine, NEW h \in Handlers, CompleteFence(h)
  PROVE  SerialFine' /\ StepFine
<1>1. /\ calls[h].pc = "complete" /\ UNCHANGED budget
      /\ UNCHANGED <<task, barrier, validating, latest, spool, target, reader, lock>>
      /\ Fail(h, "plain") \/ Step(h, "applied")
  BY DEF CompleteFence
<1>2. Holds(h) /\ calls[h].tx = latest /\ ApplyReady /\ ~validating
  BY <1>1, HolderAt DEF Inside, WorkOrdered
<1>3. dlq \in [Tx -> Letter] /\ latest \in Nat /\ Tx \subseteq Nat
  BY HolderAt, ItemType DEF TypeOK
<1>4. LettersKept
  <2>1. \A t \in Tx : t # latest => dlq'[t] = dlq[t]
    BY <1>2, <1>3 DEF CompleteFence
  <2>2. \A t \in Tx : t > latest => t # latest
    BY <1>3
  <2> QED BY <2>1, <2>2 DEF LettersKept
<1>5. PICK d : Goto(h, d) /\ (\/ d = [calls[h] EXCEPT !.pc = "failed", !.err = "plain"]
                              \/ d = [calls[h] EXCEPT !.pc = "applied"])
  BY <1>1 DEF Fail, Step
<1>6. /\ d.kind = calls[h].kind /\ d.req = calls[h].req /\ d.awaited = calls[h].awaited
      /\ d.pc \in {"applied", "failed"} /\ d.draining = calls[h].draining
      /\ d.tx = calls[h].tx /\ d.items = calls[h].items
  BY <1>5, HolderAt DEF Call
<1>7. WorkOrdered(d)'
  <2>1. Pending' = Pending /\ Listed' = Listed
    BY <1>1 DEF Pending, Listed
  <2> QED BY <1>1, <1>2, <1>6, <2>1, HolderAt
         DEF WorkOrdered, Working, Applied
<1>8. UNCHANGED <<task, barrier, validating, latest, spool, target, reader, lock>>
  BY <1>1
<1> QED BY <1>1, <1>2, <1>4, <1>5, <1>6, <1>7, <1>8, Goes

\* The transaction behind the checkpoint is committed.
LEMMA TargetGrows ==
  ASSUME Serial, IInv, SerialFine, NEW h \in Handlers,
         calls[h].pc = "commit" \/ (calls[h].pc = "apply" /\ calls[h].tx \in DDL),
         target' = Append(target, calls[h].tx), UNCHANGED <<latest, dlq>>
  PROVE  /\ AppliedOnceInOrder'
         /\ \A t \in Committed' :
              \/ t <= latest
              \/ t = latest + 1 /\ (t \in DDL \/ dlq'[t].status = "COMMIT_UNCERTAIN")
<1>1. PICK t : t = calls[h].tx
  OBVIOUS
<1>2. /\ t = latest + 1 /\ t \in Tx
      /\ t \in DDL \/ (t \notin Committed /\ dlq[t].status = "COMMIT_UNCERTAIN")
  BY <1>1, HolderAt DEF WorkOrdered, CallFine, Working
<1>3. target \in Seq(Tx) /\ latest \in Nat /\ Tx \subseteq Nat
  BY HolderAt, ItemType DEF TypeOK
<1> DEFINE n == Len(target)
<1>4. /\ n \in Nat /\ DOMAIN target = 1 .. n /\ DOMAIN target' = 1 .. (n + 1)
      /\ \A i \in 1 .. n : target'[i] = target[i] /\ target[i] \in Tx
      /\ target'[n + 1] = t
  BY <1>1, <1>3
<1>5. Committed' \subseteq Committed \cup {t}
  BY <1>4 DEF Committed
<1>6. \A u \in Committed :
        \/ u <= latest
        \/ u = latest + 1 /\ (u \in DDL \/ dlq[u].status = "COMMIT_UNCERTAIN")
  BY DEF SerialFine, TargetOrdered
<1>7. \A i \in 1 .. n : target[i] < t \/ (target[i] = t /\ t \in DDL)
  <2> TAKE i \in 1 .. n
  <2>1. target[i] \in Committed /\ target[i] \in Nat
    BY <1>3, <1>4 DEF Committed
  <2>2. target[i] <= latest \/ target[i] = t
    BY <1>2, <1>6, <2>1
  <2>3. target[i] <= latest => target[i] < t
    BY <1>2, <1>3, <2>1
  <2> QED BY <1>2, <2>1, <2>2, <2>3
<1>8. AppliedOnceInOrder'
  <2> SUFFICES ASSUME NEW i \in 1 .. (n + 1), NEW j \in 1 .. (n + 1), i < j
               PROVE  target'[i] < target'[j]
                      \/ (target'[i] = target'[j] /\ target'[i] \in DDL)
    BY <1>4 DEF AppliedOnceInOrder
  <2>1. i \in 1 .. n /\ (j \in 1 .. n \/ j = n + 1)
    BY <1>4
  <2>2. CASE j \in 1 .. n
    BY <1>4, <2>1, <2>2 DEF SerialFine, TargetOrdered, AppliedOnceInOrder
  <2>3. CASE j = n + 1
    BY <1>4, <1>7, <2>1, <2>3
  <2> QED BY <2>1, <2>2, <2>3
<1> QED BY <1>2, <1>5, <1>6, <1>8

LEMMA CommitFine ==
  ASSUME Serial, IInv, IInv', SerialFine, NEW h \in Handlers,
         CommitOrDDL(h) \/ CommitUnknown(h)
  PROVE  SerialFine' /\ StepFine
<1>1. /\ calls[h].pc = "commit" \/ (calls[h].pc = "apply" /\ calls[h].tx \in DDL)
      /\ UNCHANGED <<task, barrier, validating, latest, spool, dlq, reader, lock>>
      /\ target' = target \/ target' = Append(target, calls[h].tx)
  BY DEF CommitOrDDL, CommitUnknown
<1>2. PICK d : Goto(h, d) /\ (\/ d = [calls[h] EXCEPT !.pc = "failed", !.err = "uncertain"]
                              \/ d = [calls[h] EXCEPT !.pc = "checkpoint"])
  BY DEF CommitOrDDL, CommitUnknown, Fail, Step
<1>3. /\ d.kind = calls[h].kind /\ d.req = calls[h].req /\ d.awaited = calls[h].awaited
      /\ d.pc \in {"checkpoint", "failed"} /\ d.draining = calls[h].draining
      /\ d.tx = calls[h].tx /\ d.items = calls[h].items
  BY <1>2, HolderAt DEF Call
<1>4. /\ Holds(h) /\ ApplyReady /\ ~validating /\ calls[h].pc \in Working
      /\ calls[h].pc # "failed"
      /\ calls[h].tx = latest + 1 /\ latest \in Nat
  BY <1>1, HolderAt DEF Inside, WorkOrdered, Working
<1>5. d \in Call /\ d = calls'[h]
  BY <1>2, HolderAt DEF Goto, IInv, TypeOK
<1>6. Pending' = Pending /\ Listed' = Listed /\ PendingTx' = PendingTx
  BY <1>1 DEF Pending, Listed, PendingTx
<1>7. LockFine' /\ RequestsOrdered' /\ WorkFine'
  <2>1. WorkOrdered(d)'
    BY <1>1, <1>3, <1>4, <1>6, HolderAt DEF WorkOrdered, Working, Applied, ApplyReady
  <2>2. \A g \in Handlers : g # h /\ calls[g].pc = "route" =>
           latest' <= calls[g].req /\ PendingTx' \subseteq 0 .. calls[g].req
    BY <1>1, <1>6, HolderAt DEF RequestsOrdered
  <2>3. d.kind = "reader" /\ (d.pc = "list" \/ (d.draining /\ d.pc # "failed")) =>
           d.req <= latest' \/ d.req \in PendingTx'
    BY <1>1, <1>3, <1>4, <1>6, HolderAt DEF RequestsOrdered
  <2>4. UNCHANGED <<lock, reader>> /\ d.pc \notin {"route", "late"}
    BY <1>1, <1>3
  <2> QED BY <1>2, <1>3, <1>4, <1>5, <2>1, <2>2, <2>3, <2>4, HolderAt, GoesOn
<1>8. SpoolOrdered'
  BY <1>1, HolderAt DEF SpoolOrdered
<1>9. TargetOrdered'
  <2>1. /\ AppliedOnceInOrder'
        /\ \A t \in Committed' :
             \/ t <= latest
             \/ t = latest + 1 /\ (t \in DDL \/ dlq'[t].status = "COMMIT_UNCERTAIN")
    <3>1. CASE target' = target
      BY <1>1, <3>1 DEF SerialFine, TargetOrdered, AppliedOnceInOrder, Committed
    <3>2. CASE target' = Append(target, calls[h].tx)
      BY <1>1, <3>2, TargetGrows
    <3> QED BY <1>1, <3>1, <3>2
  <2>2. Undisturbed' => \E g \in Handlers : calls'[g].pc = "checkpoint"
    <3>1. CASE CommitOrDDL(h)
      <4>1. calls'[h].pc = "checkpoint"
        BY <3>1, HolderAt DEF CommitOrDDL, Step, Goto, TypeOK, Call
      <4> QED BY <4>1
    <3>2. CASE CommitUnknown(h)
      BY <3>2, HolderAt, StaysDisturbed DEF CommitUnknown
    <3> QED BY <3>1, <3>2
  <2> QED BY <1>1, <2>1, <2>2 DEF TargetOrdered
<1>10. BarrierFine' /\ StepFine
  BY <1>1, <1>4 DEF BarrierFine, BarrierHolds, StepFine
<1> QED BY <1>7, <1>8, <1>9, <1>10 DEF SerialFine

\* Requests that wait behind a reader's request are not behind it in the log.
LEMMA Behind ==
  ASSUME Serial, IInv, SerialFine, NEW h \in Handlers, Holds(h),
         calls[h].kind = "reader", NEW g \in Handlers, g # h, calls[g].pc = "route"
  PROVE  calls[h].req <= calls[g].req
<1> DEFINE q == lock[ServerOf[h]]
<1>1. /\ 1 \in DOMAIN q /\ q[1] = h /\ ServerOf[g] = ServerOf[h] /\ ServerOf[h] \in Servers
      /\ q \in Seq(Handlers)
  BY HolderAt, Alone, TheQueue
<1>2. calls[g].kind = "reader"
  BY HolderAt DEF CallFine
<1>3. PICK j \in DOMAIN q : q[j] = g
  BY <1>1, <1>2, HolderAt DEF LockFine, Queued
<1>4. 1 < j
  BY <1>1, <1>3
<1> QED BY <1>1, <1>2, <1>3, <1>4, HolderAt DEF RequestsOrdered

\* The checkpoint moves to the transaction behind it, which no row is behind.
LEMMA MovedInOrder ==
  ASSUME Serial, IInv, SerialFine, NEW h \in Handlers, calls[h].pc = "checkpoint"
  PROVE  /\ SpoolInOrder(spool, latest + 1, reader.next)
         /\ \A g \in Handlers : g # h /\ calls[g].pc = "route" => latest + 1 <= calls[g].req
<1>1. /\ calls[h].tx = latest + 1 /\ Holds(h) /\ latest \in Nat /\ reader.next \in Nat
      /\ IF calls[h].draining THEN calls[h].items = Listed
         ELSE calls[h].kind = "reader" /\ Pending = {}
  BY HolderAt DEF WorkOrdered, Working, Applied, Inside
<1>2. /\ \A i \in Left(spool) : spool[i].tx >= latest + 1
      /\ latest + 1 <= reader.next
      /\ \A g \in Handlers : g # h /\ calls[g].pc = "route" => latest + 1 <= calls[g].req
  <2>1. CASE calls[h].draining
    <3>1. PICK x \in Listed : x.tx = latest + 1 /\ \A y \in Listed : x.row <= y.row
      BY <1>1, <2>1, HolderAt DEF CallFine, Working, Applied
    <3>2. PICK i \in Left(spool) : x = [row |-> i, tx |-> spool[i].tx]
      BY LeftIsPending DEF Listed
    <3>3. ASSUME NEW j \in Left(spool) PROVE i <= j
      <4>1. [row |-> j, tx |-> spool[j].tx] \in Listed
        BY LeftIsPending DEF Listed
      <4> QED BY <3>1, <3>2, <4>1
    <3>4. \A j \in Left(spool) : spool[i].tx <= spool[j].tx
      BY <3>3, HolderAt, FirstLeft DEF SpoolOrdered
    <3>5. spool[i].tx = latest + 1
      BY <3>1, <3>2
    <3>6. \A j \in Left(spool) : spool[j].tx \in Nat
      BY HolderAt, ItemType DEF Left
    <3>7. latest + 1 \in PendingTx
      BY <3>2, <3>5, LeftIsPending DEF LeftTx
    <3>8. latest + 1 <= reader.next
      BY <1>1, <3>7, HolderAt, LeftIsPending DEF SpoolOrdered, SpoolInOrder
    <3>9. ASSUME NEW g \in Handlers, calls[g].pc = "route" PROVE latest + 1 <= calls[g].req
      <4>1. latest + 1 \in 0 .. calls[g].req
        BY <3>7, <3>9, HolderAt DEF RequestsOrdered
      <4> QED BY <1>1, <4>1
    <3> QED BY <1>1, <3>4, <3>5, <3>6, <3>8, <3>9
  <2>2. CASE ~calls[h].draining
    <3>1. Left(spool) = {} /\ calls[h].kind = "reader"
      BY <1>1, <2>2, LeftIsPending
    <3>2. calls[h].req = latest + 1
      BY <1>1, <2>2, HolderAt DEF CallFine, Working, Applied
    <3>3. latest + 1 <= reader.next
      BY <3>1, <3>2, HolderAt DEF RequestsOrdered
    <3>4. ASSUME NEW g \in Handlers, g # h, calls[g].pc = "route"
          PROVE  latest + 1 <= calls[g].req
      BY <1>1, <3>1, <3>2, <3>4, Behind
    <3> QED BY <3>1, <3>3, <3>4
  <2> QED BY <2>1, <2>2
<1>3. LeftTx(spool) \subseteq latest .. reader.next
  BY HolderAt DEF SpoolOrdered, SpoolInOrder
<1>4. LeftTx(spool) \subseteq (latest + 1) .. reader.next
  BY <1>1, <1>2, <1>3 DEF LeftTx
<1>5. (latest + 1 + 1) .. (reader.next - 1) \subseteq LeftTx(spool)
  <2>1. (latest + 1 + 1) .. (reader.next - 1) \subseteq (latest + 1) .. (reader.next - 1)
    BY <1>1
  <2> QED BY <2>1, HolderAt DEF SpoolOrdered, SpoolInOrder
<1>6. \A i \in DOMAIN spool : spool[i].applied => spool[i].tx <= latest + 1
  <2>1. \A i \in DOMAIN spool : spool[i].tx \in Nat
    BY HolderAt, ItemType
  <2> QED BY <1>1, <2>1, HolderAt DEF SpoolOrdered, SpoolInOrder
<1> QED BY <1>2, <1>4, <1>5, <1>6, HolderAt DEF SpoolOrdered, SpoolInOrder

LEMMA CheckpointFine ==
  ASSUME Serial, IInv, IInv', SerialFine, NEW h \in Handlers, Checkpoint(h)
  PROVE  SerialFine' /\ StepFine
<1>d. PICK d : d = [calls[h] EXCEPT !.pc = "store",
                                    !.seen = [status |-> task, barrier |-> barrier]]
  OBVIOUS
<1>1. /\ calls[h].pc = "checkpoint" /\ ApplyReady /\ Goto(h, d) /\ latest' = calls[h].tx
      /\ UNCHANGED <<task, barrier, validating, spool, dlq, target, reader, lock, budget>>
  BY <1>d DEF Checkpoint
<1>2. /\ d.kind = calls[h].kind /\ d.req = calls[h].req /\ d.awaited = calls[h].awaited
      /\ d.pc = "store" /\ d.draining = calls[h].draining
      /\ d.tx = calls[h].tx /\ d.items = calls[h].items
      /\ d.seen.status = task
  BY <1>d, HolderAt DEF Call
<1>3. /\ Holds(h) /\ latest' = latest + 1 /\ ~validating /\ task = "CDC_CATCHING_UP"
      /\ latest \in Nat /\ reader.next \in Nat /\ calls[h].req \in Nat
  BY <1>1, HolderAt, ConstantsOK DEF WorkOrdered, Inside, ApplyReady, Call
<1>4. d \in Call
  <2>1. d = calls'[h]
    BY <1>1, HolderAt DEF Goto, TypeOK
  <2> QED BY <2>1 DEF IInv, TypeOK
<1>5. Pending' = Pending /\ Listed' = Listed /\ PendingTx' = PendingTx
  BY <1>1 DEF Pending, Listed, PendingTx
<1>6. LockFine' /\ RequestsOrdered' /\ WorkFine'
  <2>1. WorkOrdered(d)'
    BY <1>1, <1>2, <1>3, <1>5, HolderAt DEF WorkOrdered, Working, Applied, ApplyReady
  <2>2. \A g \in Handlers : g # h /\ calls[g].pc = "route" =>
           latest' <= calls[g].req /\ PendingTx' \subseteq 0 .. calls[g].req
    BY <1>1, <1>3, <1>5, HolderAt, MovedInOrder DEF RequestsOrdered
  <2>3. d.kind = "reader" /\ (d.pc = "list" \/ (d.draining /\ d.pc # "failed")) =>
           d.req <= latest' \/ d.req \in PendingTx'
    <3>1. d.kind = "reader" /\ d.draining => d.req <= latest \/ d.req \in PendingTx
      BY <1>1, <1>2, HolderAt DEF RequestsOrdered
    <3>2. d.req <= latest => d.req <= latest'
      BY <1>2, <1>3
    <3> QED BY <1>2, <1>5, <3>1, <3>2
  <2>4. UNCHANGED <<lock, reader>> /\ d.pc \notin {"route", "late"}
    BY <1>1, <1>2
  <2> QED BY <1>1, <1>2, <1>3, <1>4, <2>1, <2>2, <2>3, <2>4, HolderAt, GoesOn
<1>7. SpoolOrdered'
  BY <1>1, <1>3, MovedInOrder DEF SpoolOrdered
<1>8. TargetOrdered'
  <2>t. target \in Seq(Tx) /\ Tx \subseteq Nat
    BY HolderAt, ItemType DEF TypeOK
  <2>1. Committed' = Committed /\ Committed \subseteq Nat
    <3>1. \A i \in DOMAIN target : target[i] \in Tx
      BY <2>t
    <3>2. \A i \in DOMAIN target : target[i] \in Nat
      BY <2>t, <3>1
    <3> QED BY <1>1, <3>2 DEF Committed
  <2>2. \A t \in Committed : t <= latest'
    BY <1>3, <2>1 DEF SerialFine, TargetOrdered
  <2> QED BY <1>1, <2>1, <2>2 DEF SerialFine, TargetOrdered, AppliedOnceInOrder
<1>9. BarrierFine' /\ StepFine
  BY <1>1, <1>3 DEF BarrierFine, BarrierHolds, StepFine
<1> QED BY <1>6, <1>7, <1>8, <1>9 DEF SerialFine

LEMMA StoreTaskFine ==
  ASSUME Serial, IInv, IInv', SerialFine, NEW h \in Handlers, StoreTask(h)
  PROVE  SerialFine' /\ StepFine
<1>d. PICK d : d = [calls[h] EXCEPT !.pc = "complete"]
  OBVIOUS
<1>1. /\ calls[h].pc = "store" /\ Goto(h, d) /\ task' = calls[h].seen.status
      /\ UNCHANGED <<validating, latest, spool, dlq, target, reader, lock, budget>>
  BY <1>d DEF StoreTask, Step
<1>2. /\ d.kind = calls[h].kind /\ d.req = calls[h].req /\ d.awaited = calls[h].awaited
      /\ d.pc = "complete" /\ d.draining = calls[h].draining
      /\ d.tx = calls[h].tx /\ d.items = calls[h].items
  BY <1>d, HolderAt DEF Call
<1>3. Holds(h) /\ ApplyReady /\ task' = task /\ ~validating
  BY <1>1, HolderAt DEF WorkOrdered, Inside, ApplyReady
<1>4. d \in Call
  <2>1. d = calls'[h]
    BY <1>1, HolderAt DEF Goto, TypeOK
  <2> QED BY <2>1 DEF IInv, TypeOK
<1>5. Pending' = Pending /\ Listed' = Listed
  BY <1>1 DEF Pending, Listed
<1>6. WorkOrdered(d)'
  BY <1>1, <1>2, <1>3, <1>5, HolderAt DEF WorkOrdered, Working, Applied, ApplyReady
<1>7. d.kind = "reader" /\ (d.pc = "list" \/ (d.draining /\ d.pc # "failed")) =>
           d.req <= latest \/ d.req \in PendingTx
  BY <1>1, <1>2, HolderAt DEF RequestsOrdered
<1>8. LettersKept /\ (Undisturbed' => Undisturbed)
  BY <1>1, HolderAt, LettersSame, StaysDisturbed
<1>9. /\ UNCHANGED <<task, validating, latest, spool, target, reader, lock>>
      /\ validating => barrier' = barrier
      /\ calls[h].pc # "checkpoint" \/ ~Undisturbed'
      /\ d.pc \notin {"route", "late"}
  BY <1>1, <1>2, <1>3
<1> QED BY <1>1, <1>2, <1>3, <1>4, <1>6, <1>7, <1>8, <1>9, Stays

\* Staging a request behind the spool leaves the waiting requests behind it.
LEMMA StagedByHolder ==
  ASSUME Serial, IInv, SerialFine, NEW h \in Handlers, calls[h].pc = "route", Holds(h),
         spool' = Staged(calls[h].req), UNCHANGED latest
  PROVE  /\ SpoolInOrder(spool', latest, reader.next)
         /\ calls[h].req <= latest \/ calls[h].req \in PendingTx'
         /\ \A g \in Handlers : g # h /\ calls[g].pc = "route" =>
              latest <= calls[g].req /\ PendingTx' \subseteq 0 .. calls[g].req
<1>1. calls[h].req \in Tx /\ calls[h].kind = "reader"
  BY HolderAt DEF CallFine
<1>2. /\ latest <= calls[h].req /\ calls[h].req <= reader.next
      /\ PendingTx \subseteq 0 .. calls[h].req
  BY <1>1, HolderAt DEF RequestsOrdered
<1>3. /\ SpoolInOrder(spool', latest, reader.next)
      /\ PendingTx' \subseteq PendingTx \cup {calls[h].req}
      /\ calls[h].req <= latest \/ calls[h].req \in PendingTx'
  BY <1>1, <1>2, HolderAt, StagedInOrder
<1>4. ASSUME NEW g \in Handlers, g # h, calls[g].pc = "route"
      PROVE  latest <= calls[g].req /\ PendingTx' \subseteq 0 .. calls[g].req
  <2>1. calls[h].req <= calls[g].req
    BY <1>1, <1>4, Behind
  <2>2. calls[h].req \in Nat /\ calls[g].req \in Nat
    BY HolderAt, ConstantsOK DEF Call
  <2>3. latest <= calls[g].req /\ PendingTx \subseteq 0 .. calls[g].req
    BY <1>4, HolderAt DEF RequestsOrdered
  <2>4. calls[h].req \in 0 .. calls[g].req
    BY <2>1, <2>2
  <2> QED BY <1>3, <2>3, <2>4
<1> QED BY <1>3, <1>4

\* The handler with the lock goes on, and of the tables it changes the spool only.
LEMMA SpoolStep ==
  ASSUME Serial, IInv, IInv', SerialFine,
         UNCHANGED <<task, barrier, validating, latest, dlq, target, reader, lock, budget>>,
         SpoolInOrder(spool', latest, reader.next),
         NEW h \in Handlers, Holds(h), calls[h].pc # "checkpoint", NEW d, Goto(h, d),
         d.kind = calls[h].kind, d.req = calls[h].req, d.awaited = calls[h].awaited,
         d.pc \notin {"route", "late"},
         \A g \in Handlers : g # h /\ calls[g].pc = "route" =>
           latest <= calls[g].req /\ PendingTx' \subseteq 0 .. calls[g].req,
         d.kind = "reader" => d.req <= latest \/ d.req \in PendingTx',
         WorkOrdered(d)'
  PROVE  SerialFine' /\ StepFine
<1>1. TypeOK /\ LockFine /\ RequestsOrdered /\ TargetOrdered /\ BarrierFine
  BY DEF IInv, SerialFine
<1>2. d \in Call
  <2>1. calls' = [calls EXCEPT ![h] = d] /\ calls \in [Handlers -> Call]
        /\ calls' \in [Handlers -> Call]
    BY DEF Goto, IInv, TypeOK
  <2> QED BY <2>1
<1>3. LockFine' /\ RequestsOrdered' /\ WorkFine'
  <2>1. \A g \in Handlers : g # h /\ calls[g].pc = "route" =>
           latest' <= calls[g].req /\ PendingTx' \subseteq 0 .. calls[g].req
    OBVIOUS
  <2>2. d.kind = "reader" /\ (d.pc = "list" \/ (d.draining /\ d.pc # "failed")) =>
           d.req <= latest' \/ d.req \in PendingTx'
    OBVIOUS
  <2>3. UNCHANGED <<lock, reader>>
    OBVIOUS
  <2> QED BY <1>1, <1>2, <2>1, <2>2, <2>3, GoesOn
<1>4. SpoolOrdered'
  BY DEF SpoolOrdered
<1>5. TargetOrdered' /\ BarrierFine' /\ StepFine
  <2>1. \A g \in Handlers : calls[g].pc = "checkpoint" => g = h
    BY <1>1, OneAtCheckpoint
  <2>2. LettersKept /\ (Undisturbed' => Undisturbed)
    BY <1>1, LettersSame, StaysDisturbed
  <2>3. UNCHANGED <<validating, latest, target, task>> /\ barrier' = barrier
    OBVIOUS
  <2> QED BY <1>1, <2>1, <2>2, <2>3, TargetKept
<1> QED BY <1>3, <1>4, <1>5 DEF SerialFine

LEMMA StageBehindSpoolFine ==
  ASSUME Serial, IInv, IInv', SerialFine, NEW h \in Handlers, StageBehindSpool(h)
  PROVE  SerialFine' /\ StepFine
<1>d. PICK d : d = [calls[h] EXCEPT !.pc = "list"]
  OBVIOUS
<1>1. /\ calls[h].pc = "route" /\ Holds(h) /\ ApplyReady /\ Goto(h, d)
      /\ spool' = Staged(calls[h].req)
      /\ UNCHANGED <<task, barrier, validating, latest, dlq, target, reader, lock, budget>>
  BY <1>d DEF StageBehindSpool, Step
<1>2. /\ d.kind = calls[h].kind /\ d.req = calls[h].req /\ d.awaited = calls[h].awaited
      /\ d.pc = "list"
  BY <1>d, HolderAt DEF Call
<1>3. ~validating
  BY <1>1, HolderAt
<1>4. WorkOrdered(d)'
  BY <1>1, <1>2, <1>3 DEF WorkOrdered, Working, Applied
<1>5. /\ SpoolInOrder(spool', latest, reader.next)
      /\ calls[h].req <= latest \/ calls[h].req \in PendingTx'
      /\ \A g \in Handlers : g # h /\ calls[g].pc = "route" =>
           latest <= calls[g].req /\ PendingTx' \subseteq 0 .. calls[g].req
  BY <1>1, StagedByHolder
<1>6. UNCHANGED <<task, barrier, validating, latest, dlq, target, reader, lock, budget>>
  BY <1>1
<1> QED BY <1>1, <1>2, <1>4, <1>5, <1>6, SpoolStep

\* The rows behind the first are what is pending when the first is marked.
LEMMA RestIsListed ==
  ASSUME Serial, IInv, SerialFine, NEW h \in Handlers, calls[h].pc = "applied",
         calls[h].draining, spool' = MarkedApplied(calls[h].tx)
  PROVE  /\ AfterFirst(calls[h].items) = Listed'
         /\ SpoolInOrder(spool', latest, reader.next)
         /\ PendingTx' = PendingTx \ {latest}
<1>1. calls[h].tx = latest /\ calls[h].items = Listed
  BY HolderAt DEF WorkOrdered, Working, Applied
<1>2. /\ SpoolInOrder(spool', latest, reader.next)
      /\ Pending' = {i \in Pending : spool[i].tx # latest}
      /\ PendingTx' = PendingTx \ {latest}
      /\ \A i \in DOMAIN spool : spool'[i].tx = spool[i].tx
  BY <1>1, HolderAt, MarkedInOrder
<1>3. PICK x \in Listed : x.tx = latest /\ \A y \in Listed : x.row <= y.row
  BY <1>1, HolderAt DEF CallFine, Working, Applied
<1>4. PICK f \in Pending : x = [row |-> f, tx |-> spool[f].tx]
  BY DEF Listed
<1>5. \A j \in Pending : f <= j
  <2> TAKE j \in Pending
  <2>1. [row |-> j, tx |-> spool[j].tx] \in Listed
    BY DEF Listed
  <2> QED BY <1>3, <1>4, <2>1
<1>6. spool[f].tx = latest /\ \A j \in Pending : spool[j].tx = latest => j = f
  <2>1. spool[f].tx = latest
    BY <1>3, <1>4
  <2> QED BY <1>5, <2>1, HolderAt, LeftIsPending, FirstLeft DEF SpoolOrdered
<1>7. Pending' = Pending \ {f}
  BY <1>2, <1>6
<1>8. \A j \in Pending : j \in Nat /\ j \in DOMAIN spool
  BY HolderAt, ItemType DEF Pending
<1>9. ASSUME NEW i \in Pending
      PROVE  (\E y \in Listed : y.row < i) <=> i # f
  <2>1. CASE i = f
    <3>1. \A y \in Listed : ~(y.row < i)
      BY <1>3, <1>4, <1>8, <2>1 DEF Listed
    <3> QED BY <2>1, <3>1
  <2>2. CASE i # f
    <3>1. x.row < i
      BY <1>4, <1>5, <1>8, <2>2
    <3> QED BY <2>2, <3>1
  <2> QED BY <2>1, <2>2
<1>10. AfterFirst(Listed) = {[row |-> i, tx |-> spool[i].tx] : i \in Pending \ {f}}
  BY <1>9 DEF AfterFirst, Listed
<1>11. Listed' = {[row |-> i, tx |-> spool[i].tx] : i \in Pending \ {f}}
  BY <1>2, <1>7, <1>8 DEF Listed
<1> QED BY <1>1, <1>2, <1>10, <1>11

LEMMA MarkFine ==
  ASSUME Serial, IInv, IInv', SerialFine, NEW h \in Handlers, Mark(h)
  PROVE  SerialFine' /\ StepFine
<1>1. /\ calls[h].pc = "applied" /\ calls[h].draining
      /\ spool' = MarkedApplied(calls[h].tx)
      /\ TakeFirst(h, AfterFirst(calls[h].items))
      /\ UNCHANGED <<task, barrier, validating, latest, dlq, target, reader, lock, budget>>
  BY DEF Mark
<1>2. /\ AfterFirst(calls[h].items) = Listed'
      /\ SpoolInOrder(spool', latest, reader.next)
      /\ PendingTx' = PendingTx \ {latest}
  BY <1>1, RestIsListed
<1>3. Holds(h) /\ ~validating
  BY <1>1, HolderAt DEF Inside, WorkOrdered, Working, Applied
<1>4. PICK d : /\ Goto(h, d)
               /\ \/ d = [calls[h] EXCEPT !.pc = "list", !.items = {}, !.tx = 0]
                  \/ \E x \in Listed' :
                       /\ \A y \in Listed' : x.row <= y.row
                       /\ d = [calls[h] EXCEPT !.pc = "check", !.draining = TRUE,
                                               !.items = Listed', !.tx = x.tx]
  BY <1>1, <1>2 DEF TakeFirst
<1>5. d.kind = calls[h].kind /\ d.req = calls[h].req /\ d.awaited = calls[h].awaited
      /\ d.pc \in {"list", "check"}
  BY <1>4, HolderAt DEF Call
<1>6. ASSUME NEW x \in Listed', \A y \in Listed' : x.row <= y.row
      PROVE  x.tx \in {latest, latest + 1}
  <2>1. PICK i \in Left(spool') : x = [row |-> i, tx |-> spool'[i].tx]
    BY LeftIsPending DEF Listed
  <2>2. ASSUME NEW j \in Left(spool') PROVE i <= j
    <3>1. [row |-> j, tx |-> spool'[j].tx] \in Listed'
      BY LeftIsPending DEF Listed
    <3> QED BY <1>6, <2>1, <3>1
  <2>3. spool' \in Seq(Item)
    BY DEF IInv, TypeOK
  <2>4. spool'[i].tx \in {latest, latest + 1}
    BY <1>2, <2>2, <2>3, HolderAt, FirstLeft
  <2> QED BY <2>1, <2>4
<1>7. WorkOrdered(d)'
  <2>1. CASE d = [calls[h] EXCEPT !.pc = "list", !.items = {}, !.tx = 0]
    <3>1. d.pc = "list"
      BY <1>5, <2>1, HolderAt DEF Call
    <3> QED BY <1>1, <1>3, <3>1 DEF WorkOrdered, Working, Applied
  <2>2. ASSUME NEW x \in Listed', \A y \in Listed' : x.row <= y.row,
               d = [calls[h] EXCEPT !.pc = "check", !.draining = TRUE,
                                    !.items = Listed', !.tx = x.tx]
        PROVE  WorkOrdered(d)'
    <3>1. d.pc = "check" /\ d.draining /\ d.items = Listed' /\ d.tx = x.tx
      BY <2>2, HolderAt DEF Call
    <3>2. d.tx \in {latest', latest' + 1}
      BY <1>1, <1>6, <2>2, <3>1
    <3> QED BY <1>1, <1>3, <3>1, <3>2 DEF WorkOrdered, Working, Applied
  <2> QED BY <1>4, <2>1, <2>2
<1>8. \A g \in Handlers : g # h /\ calls[g].pc = "route" =>
           latest <= calls[g].req /\ PendingTx' \subseteq 0 .. calls[g].req
  BY <1>2, HolderAt DEF RequestsOrdered
<1>9. d.kind = "reader" => d.req <= latest \/ d.req \in PendingTx'
  <2>1. d.kind = "reader" => d.req <= latest \/ d.req \in PendingTx
    BY <1>1, <1>5, HolderAt DEF RequestsOrdered
  <2>2. latest <= latest
    BY HolderAt
  <2> QED BY <1>2, <2>1, <2>2
<1>10. UNCHANGED <<task, barrier, validating, latest, dlq, target, reader, lock, budget>>
  BY <1>1
<1> QED BY <1>1, <1>2, <1>3, <1>4, <1>5, <1>7, <1>8, <1>9, <1>10, SpoolStep

-----------------------------------------------------------------------------
(***************************************************************************)
(* Answers.                                                                *)
(***************************************************************************)
LEMMA Answers ==
  ASSUME Serial, IInv, SerialFine,
         UNCHANGED <<task, barrier, validating, latest, target, budget>>, LettersKept,
         SpoolInOrder(spool', latest, reader.next),
         NEW h \in Handlers, Holds(h), calls[h].pc # "checkpoint",
         NEW ok \in BOOLEAN, Return(h, ok),
         \A g \in Handlers : g # h /\ calls[g].pc = "route" =>
           PendingTx' \subseteq 0 .. calls[g].req,
         ok /\ calls[h].awaited => calls[h].req <= latest \/ calls[h].req \in PendingTx'
  PROVE  SerialFine' /\ StepFine
<1>1. TypeOK /\ LockFine /\ RequestsOrdered /\ TargetOrdered /\ BarrierFine
  BY DEF IInv, SerialFine
<1>2. LockFine' /\ SpoolOrdered' /\ RequestsOrdered' /\ WorkFine'
  <2>1. UNCHANGED latest
    OBVIOUS
  <2> QED BY <1>1, <2>1, Leaves
<1>3. TargetOrdered' /\ BarrierFine' /\ StepFine
  <2>1. \A g \in Handlers : calls[g].pc = "checkpoint" => g = h
    BY <1>1, OneAtCheckpoint
  <2>2. Undisturbed' => Undisturbed
    BY <1>1, StaysDisturbed
  <2>3. UNCHANGED <<validating, latest, target, task>> /\ barrier' = barrier
    OBVIOUS
  <2> QED BY <1>1, <2>1, <2>2, <2>3, TargetKept
<1> QED BY <1>2, <1>3 DEF SerialFine

\* The spool did not change.
LEMMA AnswersOnly ==
  ASSUME Serial, IInv, SerialFine,
         UNCHANGED <<task, barrier, validating, latest, spool, target, budget>>, LettersKept,
         NEW h \in Handlers, Holds(h), calls[h].pc # "checkpoint",
         NEW ok \in BOOLEAN, Return(h, ok),
         ok /\ calls[h].awaited => calls[h].req <= latest \/ calls[h].req \in PendingTx
  PROVE  SerialFine' /\ StepFine
<1>1. PendingTx' = PendingTx
  BY DEF PendingTx, Pending
<1>2. SpoolInOrder(spool', latest, reader.next)
  BY HolderAt DEF SpoolOrdered
<1>3. \A g \in Handlers : g # h /\ calls[g].pc = "route" =>
        PendingTx' \subseteq 0 .. calls[g].req
  BY <1>1, HolderAt DEF RequestsOrdered
<1>4. ok /\ calls[h].awaited => calls[h].req <= latest \/ calls[h].req \in PendingTx'
  BY <1>1
<1>5. UNCHANGED <<task, barrier, validating, latest, target, budget>>
  OBVIOUS
<1> QED BY <1>2, <1>3, <1>4, <1>5, Answers

LEMMA StageWhileFrozenFine ==
  ASSUME Serial, IInv, SerialFine, NEW h \in Handlers, StageWhileFrozen(h)
  PROVE  SerialFine' /\ StepFine
<1>1. /\ calls[h].pc = "route" /\ Holds(h) /\ spool' = Staged(calls[h].req)
      /\ Return(h, TRUE)
      /\ UNCHANGED <<task, barrier, validating, latest, dlq, target, budget>>
  BY DEF StageWhileFrozen
<1>2. /\ SpoolInOrder(spool', latest, reader.next)
      /\ calls[h].req <= latest \/ calls[h].req \in PendingTx'
      /\ \A g \in Handlers : g # h /\ calls[g].pc = "route" =>
           PendingTx' \subseteq 0 .. calls[g].req
  BY <1>1, StagedByHolder
<1>3. LettersKept
  BY <1>1, LettersSame
<1>4. UNCHANGED <<task, barrier, validating, latest, target, budget>>
  BY <1>1
<1> QED BY <1>1, <1>2, <1>3, <1>4, Answers

LEMMA EndDrainFine ==
  ASSUME Serial, IInv, SerialFine, NEW h \in Handlers, EndDrain(h)
  PROVE  SerialFine' /\ StepFine
<1>1. /\ calls[h].pc = "list" /\ Holds(h) /\ Return(h, TRUE)
      /\ UNCHANGED <<task, barrier, validating, latest, dlq, target, budget>>
      /\ spool' = spool \/ (spool' = << >> /\ Pending = {})
  BY DEF EndDrain
<1>2. PendingTx' = PendingTx
  <2>1. CASE spool' = spool
    BY <2>1 DEF PendingTx, Pending
  <2>2. CASE spool' = << >> /\ Pending = {}
    BY <2>2 DEF PendingTx, Pending
  <2> QED BY <1>1, <2>1, <2>2
<1>3. SpoolInOrder(spool', latest, reader.next)
  <2>1. CASE spool' = spool
    BY <2>1, HolderAt DEF SpoolOrdered
  <2>2. CASE spool' = << >>
    <3>1. LeftTx(spool') = LeftTx(spool)
      BY <1>2, LeftIsPending
    <3>2. DOMAIN spool' = {}
      BY <2>2
    <3> QED BY <3>1, <3>2, HolderAt DEF SpoolOrdered, SpoolInOrder
  <2> QED BY <1>1, <2>1, <2>2
<1>4. \A g \in Handlers : g # h /\ calls[g].pc = "route" =>
        PendingTx' \subseteq 0 .. calls[g].req
  BY <1>2, HolderAt DEF RequestsOrdered
<1>5. calls[h].awaited => calls[h].req <= latest \/ calls[h].req \in PendingTx'
  BY <1>1, <1>2, HolderAt DEF RequestsOrdered, CallFine
<1>6. LettersKept
  BY <1>1, LettersSame
<1>7. UNCHANGED <<task, barrier, validating, latest, target, budget>>
  BY <1>1
<1> QED BY <1>1, <1>3, <1>4, <1>5, <1>6, <1>7, Answers

LEMMA DirectDoneFine ==
  ASSUME Serial, IInv, SerialFine, NEW h \in Handlers, DirectDone(h)
  PROVE  SerialFine' /\ StepFine
<1>1. /\ calls[h].pc = "applied" /\ calls[h].kind = "reader" /\ ~calls[h].draining
      /\ Return(h, TRUE)
      /\ UNCHANGED <<task, barrier, validating, latest, spool, dlq, target, budget>>
  BY DEF DirectDone, tables
<1>2. Holds(h) /\ calls[h].req = latest /\ latest \in Nat
  BY <1>1, HolderAt DEF Inside, WorkOrdered, CallFine, Working, Applied
<1>3. LettersKept
  BY <1>1, LettersSame
<1>4. UNCHANGED <<task, barrier, validating, latest, spool, target, budget>>
  BY <1>1
<1>5. calls[h].req <= latest
  BY <1>2
<1> QED BY <1>1, <1>2, <1>3, <1>4, <1>5, AnswersOnly

LEMMA RecordFailureFine ==
  ASSUME Serial, IInv, SerialFine, NEW h \in Handlers, RecordFailure(h)
  PROVE  SerialFine' /\ StepFine
<1>1. /\ calls[h].pc = "failed" /\ Return(h, FALSE)
      /\ UNCHANGED <<task, barrier, validating, latest, spool, target>>
  BY DEF RecordFailure
<1>2. UNCHANGED budget
      /\ (dlq' = dlq \/ dlq' = [dlq EXCEPT ![calls[h].tx] =
                                  Recorded(dlq[calls[h].tx], calls[h].err)])
  BY HolderAt, NeverSpent DEF RecordFailure
<1>3. Holds(h)
  BY <1>1, HolderAt DEF Inside
<1>4. LettersKept
  <2>1. dlq \in [Tx -> Letter]
    BY HolderAt DEF TypeOK
  <2>2. \A t \in Tx : dlq[t].status = "COMMIT_UNCERTAIN" =>
          Recorded(dlq[t], calls[h].err).status = "COMMIT_UNCERTAIN"
    BY DEF Recorded
  <2>3. \A t \in Tx : dlq'[t] = dlq[t] \/ dlq'[t] = Recorded(dlq[t], calls[h].err)
    BY <1>2, <2>1
  <2> QED BY <2>2, <2>3 DEF LettersKept
<1>5. UNCHANGED <<task, barrier, validating, latest, spool, target, budget>>
  BY <1>1, <1>2
<1> QED BY <1>1, <1>3, <1>4, <1>5, AnswersOnly

LEMMA CaptureBarrierFine ==
  ASSUME Serial, IInv, IInv', SerialFine, NEW h \in Handlers, CaptureBarrier(h)
  PROVE  SerialFine' /\ StepFine
<1>1. /\ calls[h].pc = "capture" /\ Holds(h)
      /\ UNCHANGED <<task, barrier, validating, latest, spool, dlq, target, budget>>
  BY DEF CaptureBarrier, tables
<1>2. LettersKept
  BY <1>1, LettersSame
<1>3. CASE Return(h, FALSE)
  <2>1. UNCHANGED <<task, barrier, validating, latest, spool, target, budget>>
    BY <1>1
  <2> QED BY <1>1, <1>2, <1>3, <2>1, AnswersOnly
<1>4. CASE ~Return(h, FALSE)
  <2>1. PICK d : d = [calls[h] EXCEPT !.pc = "enter", !.tx = latest]
    OBVIOUS
  <2>2. Goto(h, d) /\ UNCHANGED <<reader, lock>> /\ task = "CDC_CATCHING_UP"
    BY <1>4, <2>1 DEF CaptureBarrier
  <2>3. /\ d.kind = calls[h].kind /\ d.req = calls[h].req /\ d.awaited = calls[h].awaited
        /\ d.pc = "enter" /\ d.tx = latest
    BY <2>1, HolderAt DEF Call
  <2>4. d.kind = "validate" /\ ~validating
    BY <1>1, <2>2, <2>3, HolderAt DEF CallFine, ApplyReady
  <2>5. WorkOrdered(d)'
    BY <1>1, <2>2, <2>3, <2>4 DEF WorkOrdered, Working, Applied
  <2>6. UNCHANGED <<task, barrier, validating, latest, spool, target, reader, lock>>
    BY <1>1, <2>2
  <2> QED BY <1>1, <1>2, <2>2, <2>3, <2>4, <2>5, <2>6, Goes
<1> QED BY <1>3, <1>4

LEMMA EnterValidationFine ==
  ASSUME Serial, IInv, SerialFine, NEW h \in Handlers, EnterValidation(h)
  PROVE  SerialFine' /\ StepFine
<1>1. /\ calls[h].pc = "enter" /\ Return(h, TRUE) /\ barrier' = calls[h].tx
      /\ task' = "VALIDATING"
      /\ UNCHANGED <<latest, spool, dlq, target, budget>>
  BY DEF EnterValidation
<1>2. Holds(h) /\ calls[h].tx = latest /\ ~calls[h].awaited /\ latest \in Nat
  BY <1>1, HolderAt DEF Inside, WorkOrdered, CallFine
<1>3. PendingTx' = PendingTx
  BY <1>1 DEF PendingTx, Pending
<1>4. LockFine' /\ SpoolOrdered' /\ RequestsOrdered' /\ WorkFine'
  <2>1. SpoolInOrder(spool', latest, reader.next)
    BY <1>1, HolderAt DEF SpoolOrdered
  <2>2. \A g \in Handlers : g # h /\ calls[g].pc = "route" =>
          PendingTx' \subseteq 0 .. calls[g].req
    BY <1>3, HolderAt DEF RequestsOrdered
  <2> QED BY <1>1, <1>2, <2>1, <2>2, HolderAt, Leaves
<1>5. Undisturbed => \A t \in Committed : t <= latest
  <2>1. \A g \in Handlers : calls[g].pc = "checkpoint" => g = h
    BY <1>2, HolderAt, OneAtCheckpoint
  <2> QED BY <1>1, <2>1 DEF SerialFine, TargetOrdered
<1>6. Committed' = Committed /\ Undisturbed' = Undisturbed
  BY <1>1 DEF Committed, Undisturbed
<1>7. TargetOrdered'
  BY <1>1, <1>5, <1>6 DEF SerialFine, TargetOrdered, AppliedOnceInOrder
<1>8. BarrierFine' /\ StepFine
  BY <1>1, <1>2, <1>5, <1>6 DEF BarrierFine, BarrierHolds, StepFine
<1> QED BY <1>4, <1>7, <1>8 DEF SerialFine

-----------------------------------------------------------------------------
(***************************************************************************)
(* Calls that begin, and the steps of nobody.                              *)
(***************************************************************************)
\* No table changes and no handler moves to or from the checkpoint.
LEMMA TablesKept ==
  ASSUME IInv, SerialFine, UNCHANGED tables, Undisturbed' => Undisturbed,
         Undisturbed' => \A h \in Handlers : calls[h].pc = "checkpoint" =>
                                               calls'[h].pc = "checkpoint"
  PROVE  TargetOrdered' /\ BarrierFine' /\ StepFine
<1>1. TypeOK /\ TargetOrdered /\ BarrierFine
  BY DEF IInv, SerialFine
<1>2. UNCHANGED <<validating, latest, target, task>> /\ barrier' = barrier /\ dlq' = dlq
  BY DEF tables
<1>3. LettersKept
  BY <1>2, LettersSame
<1> QED BY <1>1, <1>2, <1>3, TargetKept

LEMMA BeginFine ==
  ASSUME Serial, IInv, IInv', SerialFine, NEW h \in Handlers,
         Send(h) \/ StartDrain(h) \/ StartValidation(h)
  PROVE  SerialFine' /\ StepFine
<1>1. /\ calls[h].kind = "none" /\ Enqueue(h) /\ UNCHANGED <<tables, reader>>
      /\ UNCHANGED budget \/ Spend("validations")
  BY HolderAt, NeverSpent DEF Send, StartDrain, StartValidation
<1>2. PICK d : /\ Goto(h, d)
               /\ \/ /\ ~Awaiting
                     /\ d = [IdleCall EXCEPT !.kind = "reader", !.req = reader.next,
                                             !.awaited = TRUE, !.pc = "route"]
                  \/ d = [IdleCall EXCEPT !.kind = "drain", !.pc = "list"]
                  \/ d = [IdleCall EXCEPT !.kind = "validate", !.pc = "capture"]
  <2>1. CASE Send(h)
    <3>1. ~Awaiting /\ Goto(h, [[IdleCall EXCEPT !.kind = "reader", !.req = reader.next,
                                                 !.awaited = TRUE] EXCEPT !.pc = "route"])
      BY <2>1, HolderAt, NeverSpent DEF Send
    <3>2. [[IdleCall EXCEPT !.kind = "reader", !.req = reader.next,
                            !.awaited = TRUE] EXCEPT !.pc = "route"]
          = [IdleCall EXCEPT !.kind = "reader", !.req = reader.next,
                             !.awaited = TRUE, !.pc = "route"]
      BY DEF IdleCall
    <3> QED BY <3>1, <3>2
  <2>2. CASE StartDrain(h)
    BY <2>2 DEF StartDrain
  <2>3. CASE StartValidation(h)
    BY <2>3 DEF StartValidation
  <2> QED BY <2>1, <2>2, <2>3
<1>3. /\ d.kind \in {"reader", "drain", "validate"}
      /\ d.pc \in {"route", "list", "capture"} /\ ~d.draining
      /\ d.kind = "reader" => d.req = reader.next /\ d.pc = "route"
      /\ d.awaited => d.kind = "reader" /\ ~Awaiting
      /\ d.pc = "route" => d.kind = "reader"
  BY <1>2 DEF IdleCall
<1>4. d \in Call
  <2>1. d = calls'[h]
    BY <1>2, HolderAt DEF Goto, TypeOK
  <2> QED BY <2>1 DEF IInv, TypeOK
<1>5. ~Inside(d) /\ d.pc # "late"
  BY <1>3 DEF Inside
<1>6. LockFine' /\ RequestsOrdered' /\ WorkFine'
  <2>1. WorkFine
    BY DEF SerialFine
  <2> QED BY <1>1, <1>2, <1>3, <1>4, <1>5, <2>1, HolderAt, Joins
<1>7. SpoolOrdered'
  BY <1>1, HolderAt DEF SpoolOrdered, tables
<1>8. TargetOrdered' /\ BarrierFine' /\ StepFine
  <2>1. calls[h].pc # "checkpoint"
    BY <1>1, HolderAt, Alone DEF Inside
  <2>2. \A g \in Handlers : g # h => calls'[g] = calls[g]
    BY <1>2, HolderAt DEF Goto, TypeOK
  <2>3. Undisturbed' => Undisturbed
    BY <1>1, HolderAt, StaysDisturbed
  <2>4. \A g \in Handlers : calls[g].pc = "checkpoint" => calls'[g].pc = "checkpoint"
    BY <2>1, <2>2
  <2> QED BY <1>1, <2>3, <2>4, TablesKept
<1> QED BY <1>6, <1>7, <1>8 DEF SerialFine

\* The reader lets its request go, and goes on from there or further on.
LEMMA DroppedFine ==
  ASSUME IInv, SerialFine, calls' = Dropped, Spend("giveups"), UNCHANGED <<tables, lock>>,
         SpoolInOrder(spool, latest, reader'.next), reader.next <= reader'.next,
         reader'.next \in Nat, reader'.acked = reader.acked
  PROVE  SerialFine' /\ StepFine
<1>1. TypeOK /\ LockFine /\ RequestsOrdered /\ WorkFine
  BY DEF IInv, SerialFine
<1>2. /\ UNCHANGED <<task, barrier, validating, latest, spool, dlq, target, lock>>
      /\ PendingTx' = PendingTx /\ latest \in Nat /\ reader.next \in Nat
  BY <1>1 DEF tables, PendingTx, Pending, TypeOK
<1>3. \A h \in Handlers :
        /\ calls'[h].kind = calls[h].kind /\ calls'[h].pc = calls[h].pc
        /\ calls'[h].req = calls[h].req /\ calls'[h].tx = calls[h].tx
        /\ calls'[h].items = calls[h].items /\ calls'[h].draining = calls[h].draining
        /\ calls'[h].seen = calls[h].seen /\ ~calls'[h].awaited
        /\ calls[h].req \in Nat
  <2> TAKE h \in Handlers
  <2>1. PICK c \in Call : c = calls[h]
    BY <1>1 DEF TypeOK
  <2>2. calls'[h] = [c EXCEPT !.awaited = FALSE]
    BY <2>1 DEF Dropped
  <2>3. c.req \in Nat
    BY ConstantsOK DEF Call
  <2> QED BY <2>1, <2>2, <2>3 DEF Call
<1>4. LockFine'
  <2>1. \A s \in Servers : \A i \in DOMAIN lock[s] : lock[s][i] \in Handlers
    BY <1>1 DEF TypeOK
  <2>2. \A h \in Handlers : /\ Queued(h) => Queued(h)'
                            /\ Holds(h) => Holds(h)'
                            /\ Inside(calls'[h]) => Inside(calls[h])
    BY <1>2, <1>3 DEF Queued, Holds, Inside
  <2>3. \A h \in Handlers :
          /\ calls'[h].kind # "none" => Queued(h)'
          /\ Inside(calls'[h]) => Holds(h)'
          /\ calls'[h].kind \in {"none", "reader", "drain", "validate"}
          /\ calls'[h].pc # "late"
    BY <1>1, <1>3, <2>2 DEF LockFine
  <2>4. \A s \in Servers : \A i, j \in DOMAIN lock'[s] :
          /\ calls'[lock'[s][i]].kind # "none" /\ ServerOf[lock'[s][i]] = s
          /\ i # j => lock'[s][i] # lock'[s][j]
    BY <1>1, <1>2, <1>3, <2>1 DEF LockFine
  <2> QED BY <2>3, <2>4 DEF LockFine, Inside
<1>5. RequestsOrdered'
  <2>1. \A s \in Servers : \A i \in DOMAIN lock[s] : lock[s][i] \in Handlers
    BY <1>1 DEF TypeOK
  <2>2. \A h \in Handlers :
          LET c == calls'[h] IN
          /\ c.awaited => c.req = reader'.next
          /\ c.kind = "reader" => c.req <= reader'.next
          /\ c.pc = "route" => latest' <= c.req /\ PendingTx' \subseteq 0 .. c.req
          /\ c.kind = "reader" /\ (c.pc = "list" \/ (c.draining /\ c.pc # "failed"))
               => c.req <= latest' \/ c.req \in PendingTx'
    <3>1. ASSUME NEW h \in Handlers, calls[h].kind = "reader"
          PROVE  calls[h].req <= reader'.next
      <4>1. calls[h].req <= reader.next /\ calls[h].req \in Nat
        BY <1>1, <1>3, <3>1 DEF RequestsOrdered
      <4> QED BY <1>2, <4>1
    <3> QED BY <1>1, <1>2, <1>3, <3>1 DEF RequestsOrdered
  <2>3. \A s \in Servers : \A i, j \in DOMAIN lock'[s] :
          /\ i < j
          /\ calls'[lock'[s][i]].kind = "reader" /\ calls'[lock'[s][j]].kind = "reader"
          => calls'[lock'[s][i]].req <= calls'[lock'[s][j]].req
    BY <1>1, <1>2, <1>3, <2>1 DEF RequestsOrdered
  <2>4. \A f, g \in Handlers : calls'[f].awaited /\ calls'[g].awaited => f = g
    BY <1>3
  <2>5. reader'.acked < reader'.next
    <3>1. reader.acked \in Nat /\ reader.acked < reader.next
      BY <1>1, ConstantsOK DEF TypeOK, RequestsOrdered
    <3> QED BY <1>2, <3>1
  <2> QED BY <2>2, <2>3, <2>4, <2>5 DEF RequestsOrdered
<1>6. WorkFine'
  <2>1. ApplyReady' = ApplyReady /\ Unresolved' = Unresolved /\ Committed' = Committed
        /\ Listed' = Listed /\ Pending' = Pending
    BY <1>2 DEF ApplyReady, Unresolved, Committed, Listed, Pending
  <2> QED BY <1>1, <1>2, <1>3, <2>1 DEF WorkFine, WorkOrdered
<1>7. SpoolOrdered'
  BY <1>2 DEF SpoolOrdered
<1>8. TargetOrdered' /\ BarrierFine' /\ StepFine
  <2>1. Undisturbed' => Undisturbed
    BY <1>1, StaysDisturbed
  <2> QED BY <1>3, <2>1, TablesKept
<1> QED BY <1>4, <1>5, <1>6, <1>7, <1>8 DEF SerialFine

LEMMA ReconnectFine ==
  ASSUME IInv, SerialFine, Reconnect PROVE SerialFine' /\ StepFine
<1>1. SpoolInOrder(spool, latest, reader'.next) /\ reader.next <= reader'.next
      /\ reader'.next \in Nat /\ reader'.acked = reader.acked
  BY DEF Reconnect, SerialFine, SpoolOrdered, IInv, TypeOK
<1>2. calls' = Dropped /\ Spend("giveups") /\ UNCHANGED <<tables, lock>>
  BY DEF Reconnect
<1> QED BY <1>1, <1>2, DroppedFine

\* A new reader starts at the first transaction that is not durable yet, or at
\* the one behind it.
LEMMA RestartFine ==
  ASSUME IInv, SerialFine, Restart PROVE SerialFine' /\ StepFine
<1>1. PICK t \in 0..MaxTx : ResumesBehind(t) /\ reader' = [reader EXCEPT !.next = t + 1]
  BY DEF Restart
<1>2. /\ t \in Nat /\ latest \in Nat /\ reader.next \in Nat /\ reader'.next = t + 1
      /\ reader'.acked = reader.acked
      /\ \A i \in Left(spool) : spool[i].tx \in Nat /\ i \in Nat /\ i \in DOMAIN spool
  <2>1. TypeOK /\ spool \in Seq(Item)
    BY DEF IInv, TypeOK
  <2>2. reader \in [next : 1..(MaxTx + 1), acked : 0..MaxTx] /\ latest \in 0..MaxTx
    BY <2>1 DEF TypeOK
  <2>3. t \in Nat /\ latest \in Nat /\ reader.next \in Nat /\ reader'.next = t + 1
        /\ reader'.acked = reader.acked
    BY <1>1, <2>2, ConstantsOK
  <2>4. \A i \in Left(spool) : spool[i].tx \in Nat /\ i \in Nat /\ i \in DOMAIN spool
    BY <2>1, ItemType DEF Left
  <2> QED BY <2>3, <2>4
<1>3. SpoolInOrder(spool, latest, reader.next)
  BY DEF SerialFine, SpoolOrdered
<1>4. /\ LeftTx(spool) \subseteq 0 .. t /\ latest <= t
      /\ t = latest \/ t \in LeftTx(spool)
  <2>1. CASE Pending = {}
    BY <1>1, <1>2, <2>1, LeftIsPending DEF ResumesBehind, LeftTx
  <2>2. CASE Pending # {}
    <3>1. PICK i \in Left(spool) : t = spool[i].tx /\ \A j \in Left(spool) : j <= i
      BY <1>1, <2>2, LeftIsPending DEF ResumesBehind
    <3>2. \A j \in Left(spool) : spool[j].tx <= t
      <4> TAKE j \in Left(spool)
      <4>1. j = i \/ j < i
        BY <1>2, <3>1
      <4>2. j < i => spool[j].tx < spool[i].tx
        BY <1>2, <1>3 DEF SpoolInOrder
      <4> QED BY <1>2, <3>1, <4>1, <4>2
    <3>3. t \in LeftTx(spool) /\ LeftTx(spool) \subseteq 0 .. t
      BY <1>2, <3>1, <3>2 DEF LeftTx
    <3>4. latest <= t
      BY <1>2, <1>3, <3>3 DEF SpoolInOrder
    <3> QED BY <3>3, <3>4
  <2> QED BY <2>1, <2>2
<1>5. reader.next <= t + 1
  <2>1. CASE latest + 1 <= reader.next - 1
    <3>1. reader.next - 1 \in LeftTx(spool)
      BY <1>2, <1>3, <2>1 DEF SpoolInOrder
    <3> QED BY <1>2, <1>4, <3>1
  <2>2. CASE ~(latest + 1 <= reader.next - 1)
    BY <1>2, <1>4, <2>2
  <2> QED BY <2>1, <2>2
<1>6. SpoolInOrder(spool, latest, t + 1)
  <2>1. LeftTx(spool) \subseteq latest .. (t + 1)
    BY <1>2, <1>3, <1>4 DEF SpoolInOrder
  <2>2. ASSUME NEW u \in (latest + 1) .. (t + 1 - 1) PROVE u \in LeftTx(spool)
    <3>1. u \in Nat /\ latest + 1 <= u /\ u <= t
      BY <1>2, <2>2
    <3>2. t \in LeftTx(spool) /\ t <= reader.next
      BY <1>2, <1>3, <1>4, <3>1 DEF SpoolInOrder
    <3>3. CASE u <= reader.next - 1
      <4>1. u \in (latest + 1) .. (reader.next - 1)
        BY <1>2, <3>1, <3>3
      <4> QED BY <1>3, <4>1 DEF SpoolInOrder
    <3>4. CASE ~(u <= reader.next - 1)
      <4>1. u = t
        BY <1>2, <3>1, <3>2, <3>4
      <4> QED BY <3>2, <4>1
    <3> QED BY <3>3, <3>4
  <2>3. latest <= t + 1
    BY <1>2, <1>4
  <2> QED BY <1>3, <2>1, <2>2, <2>3 DEF SpoolInOrder
<1>7. calls' = Dropped /\ Spend("giveups") /\ UNCHANGED <<tables, lock>>
  BY DEF Restart
<1>8. SpoolInOrder(spool, latest, reader'.next) /\ reader.next <= reader'.next
      /\ reader'.next \in Nat /\ reader'.acked = reader.acked
  BY <1>2, <1>5, <1>6
<1> QED BY <1>7, <1>8, DroppedFine

LEMMA TaskFine ==
  ASSUME IInv, SerialFine, EndValidation \/ FinishSnapshot PROVE SerialFine' /\ StepFine
<1>1. TypeOK /\ LockFine /\ RequestsOrdered /\ WorkFine /\ SpoolOrdered /\ TargetOrdered
      /\ BarrierFine /\ latest \in Nat
  BY DEF IInv, SerialFine, TypeOK
<1>2. UNCHANGED <<latest, spool, dlq, target, reader, calls, lock, budget>>
      /\ task' = "CDC_CATCHING_UP" /\ ~validating'
  BY <1>1 DEF EndValidation, FinishSnapshot, BarrierFine
<1>3. LockFine'
  BY <1>1, <1>2 DEF LockFine, Queued, Holds, Inside
<1>4. SpoolOrdered' /\ RequestsOrdered'
  BY <1>1, <1>2 DEF SpoolOrdered, RequestsOrdered, PendingTx, Pending
<1>5. WorkFine'
  <2>1. ApplyReady' /\ Unresolved' = Unresolved /\ Committed' = Committed
        /\ Listed' = Listed /\ Pending' = Pending
    BY <1>2 DEF ApplyReady, Unresolved, Committed, Listed, Pending
  <2> QED BY <1>1, <1>2, <2>1 DEF WorkFine, WorkOrdered
<1>6. TargetOrdered'
  BY <1>1, <1>2 DEF TargetOrdered, AppliedOnceInOrder, Committed, Undisturbed
<1>7. BarrierFine' /\ StepFine
  BY <1>1, <1>2 DEF BarrierFine, BarrierHolds, StepFine
<1> QED BY <1>3, <1>4, <1>5, <1>6, <1>7 DEF SerialFine

\* The only server dies, with all its handlers.
LEMMA CrashFine ==
  ASSUME Serial, IInv, SerialFine, NEW s \in Servers, Crash(s)
  PROVE  SerialFine' /\ StepFine
<1>1. TypeOK /\ SpoolOrdered /\ TargetOrdered /\ BarrierFine
  BY DEF IInv, SerialFine
<1>2. /\ \A h \in Handlers : calls'[h] = IdleCall
      /\ \A u \in Servers : lock'[u] = << >>
  <2>1. \A h \in Handlers : ServerOf[h] = s
    BY TheQueue, <1>1, ConstantsOK DEF Serial
  <2>2. \A u \in Servers : u = s
    BY DEF Serial
  <2> QED BY <1>1, <2>1, <2>2 DEF Crash, TypeOK
<1>3. UNCHANGED <<task, barrier, validating, latest, spool, dlq, target, reader>>
  BY DEF Crash, tables
<1>4. /\ IdleCall.kind = "none" /\ ~Inside(IdleCall) /\ ~IdleCall.awaited
      /\ IdleCall.pc = "idle"
  BY DEF IdleCall, Inside
<1>5. LockFine'
  <2>1. \A u \in Servers : DOMAIN lock'[u] = {}
    BY <1>2
  <2> QED BY <1>2, <1>4, <2>1 DEF LockFine, Inside
<1>6. RequestsOrdered'
  <2>1. \A u \in Servers : DOMAIN lock'[u] = {}
    BY <1>2
  <2>2. reader'.acked < reader'.next
    BY <1>3 DEF SerialFine, RequestsOrdered
  <2> QED BY <1>2, <1>4, <2>1, <2>2 DEF RequestsOrdered
<1>7. WorkFine'
  <2>1. ASSUME NEW g \in Handlers PROVE WorkOrdered(calls[g])'
    <3>1. PICK c : c = calls'[g]
      OBVIOUS
    <3>2. WorkOrdered(c)'
      BY <1>2, <1>4, <3>1, OutsideOrdered
    <3> QED BY <3>1, <3>2
           DEF WorkOrdered, ApplyReady, Unresolved, Committed, Listed, Pending
  <2> QED BY <2>1 DEF WorkFine
<1>8. SpoolOrdered'
  BY <1>1, <1>3 DEF SpoolOrdered
<1>9. TargetOrdered' /\ BarrierFine' /\ StepFine
  <2>1. ~Undisturbed'
    BY <1>1, StaysDisturbed DEF Crash
  <2>2. UNCHANGED tables
    BY DEF Crash
  <2> QED BY <2>1, <2>2, TablesKept
<1> QED BY <1>5, <1>6, <1>7, <1>8, <1>9 DEF SerialFine

LEMMA NobodyFine ==
  ASSUME IInv, SerialFine, LeaseExpires \/ UNCHANGED vars PROVE SerialFine' /\ StepFine
<1>1. TypeOK /\ LockFine /\ RequestsOrdered /\ WorkFine /\ SpoolOrdered
  BY DEF IInv, SerialFine
<1>2. UNCHANGED <<tables, reader, calls, lock>> /\ (UNCHANGED budget \/ Spend("faults"))
  BY DEF LeaseExpires, vars, tables
<1>3. UNCHANGED <<task, barrier, validating, latest, spool, dlq, target>>
  BY <1>2 DEF tables
<1>4. LockFine'
  BY <1>1, <1>2 DEF LockFine, Queued, Holds, Inside
<1>5. SpoolOrdered' /\ RequestsOrdered'
  BY <1>1, <1>2, <1>3 DEF SpoolOrdered, RequestsOrdered, PendingTx, Pending
<1>6. WorkFine'
  <2>1. ApplyReady' = ApplyReady /\ Unresolved' = Unresolved /\ Committed' = Committed
        /\ Listed' = Listed /\ Pending' = Pending
    BY <1>3 DEF ApplyReady, Unresolved, Committed, Listed, Pending
  <2> QED BY <1>1, <1>2, <1>3, <2>1 DEF WorkFine, WorkOrdered
<1>7. TargetOrdered' /\ BarrierFine' /\ StepFine
  <2>1. Undisturbed' => Undisturbed
    BY <1>1, <1>2, StaysDisturbed
  <2> QED BY <1>2, <2>1, TablesKept
<1> QED BY <1>4, <1>5, <1>6, <1>7 DEF SerialFine

-----------------------------------------------------------------------------
LEMMA SerialInit == ASSUME Serial, Init PROVE SerialFine
<1>1. /\ \A h \in Handlers : calls[h] = IdleCall
      /\ \A s \in Servers : lock[s] = << >>
      /\ latest = 0 /\ reader.next = 1 /\ reader.acked = 0 /\ spool = << >> /\ target = << >> /\ ~validating
  BY DEF Init
<1>2. IdleCall.kind = "none" /\ ~Inside(IdleCall) /\ ~IdleCall.awaited
      /\ IdleCall.pc = "idle" /\ WorkOrdered(IdleCall)
  BY OutsideOrdered DEF IdleCall, Inside
<1>3. \A s \in Servers : DOMAIN lock[s] = {}
  BY <1>1
<1>4. LockFine
  BY <1>1, <1>2, <1>3 DEF LockFine
<1>5. RequestsOrdered
  BY <1>1, <1>2, <1>3 DEF RequestsOrdered
<1>6. WorkFine
  BY <1>1, <1>2 DEF WorkFine
<1>7. DOMAIN spool = {} /\ DOMAIN target = {}
  BY <1>1
<1>8. SpoolOrdered
  BY <1>1, <1>7 DEF SpoolOrdered, SpoolInOrder, LeftTx, Left
<1>9. TargetOrdered
  BY <1>7 DEF TargetOrdered, AppliedOnceInOrder, Committed
<1>10. BarrierFine
  BY <1>1 DEF BarrierFine, BarrierHolds
<1> QED BY <1>4, <1>5, <1>6, <1>8, <1>9, <1>10 DEF SerialFine

LEMMA SerialStep ==
  ASSUME Serial, IInv, IInv', SerialFine, [Next]_vars PROVE SerialFine' /\ StepFine
<1>1. CASE UNCHANGED vars
  BY <1>1, NobodyFine
<1>2. CASE Next
  <2>1. ASSUME NEW h \in Handlers,
               Send(h) \/ StartDrain(h) \/ StartValidation(h) \/ WriteFails(h)
               \/ CommitUnknown(h)
        PROVE  SerialFine' /\ StepFine
    BY <2>1, BeginFine, FailuresFine, CommitFine
  <2>2. ASSUME NEW h \in Handlers, NEW t \in Tx, Operate(h, t) PROVE FALSE
    BY <2>2, HolderAt, NeverSpent DEF Operate, Replay, ResolveCommitted, ResolveNotCommitted
  <2>3. ASSUME NEW h \in Handlers, Serve(h) PROVE SerialFine' /\ StepFine
    <3>1. ~Arrive(h) /\ ~ReplayDone(h) /\ ~ReplayFailed(h) /\ ~ResolveDone(h)
          /\ ~ResolveFailed(h)
      BY HolderAt DEF Arrive, ReplayDone, ReplayFailed, ResolveDone, ResolveFailed
    <3>2. CASE StageWhileFrozen(h) \/ StageBehindSpool(h) \/ ApplyDirectly(h) \/ List(h)
               \/ EndDrain(h) \/ Mark(h)
      BY <3>2, StageWhileFrozenFine, StageBehindSpoolFine, ApplyDirectlyFine, ListFine,
         EndDrainFine, MarkFine
    <3>3. CASE DirectDone(h) \/ NotReady(h) \/ SkipDuplicate(h) \/ Blocked(h) \/ Accept(h)
               \/ Fence(h)
      BY <3>3, DirectDoneFine, FailuresFine, SkipDuplicateFine, AcceptFine, FenceFine
    <3>4. CASE CommitOrDDL(h) \/ Checkpoint(h) \/ CheckpointRefused(h) \/ StoreTask(h)
               \/ CompleteFence(h) \/ RecordFailure(h)
      BY <3>4, CommitFine, CheckpointFine, FailuresFine, StoreTaskFine, CompleteFenceFine,
         RecordFailureFine
    <3>5. CASE CaptureBarrier(h) \/ EnterValidation(h)
      BY <3>5, CaptureBarrierFine, EnterValidationFine
    <3> QED BY <2>3, <3>1, <3>2, <3>3, <3>4, <3>5 DEF Serve
  <2>4. CASE Reconnect \/ Restart
    BY <2>4, ReconnectFine, RestartFine
  <2>5. CASE EndValidation \/ FinishSnapshot
    BY <2>5, TaskFine
  <2>6. ASSUME NEW s \in Servers, Crash(s) PROVE SerialFine' /\ StepFine
    BY <2>6, CrashFine
  <2>7. CASE LeaseExpires
    BY <2>7, NobodyFine
  <2> QED BY <1>2, <2>1, <2>2, <2>3, <2>4, <2>5, <2>6, <2>7 DEF Next
<1> QED BY <1>1, <1>2

LEMMA SerialAlways == ASSUME Serial PROVE Spec => []SerialFine /\ [][StepFine]_vars
<1>1. Init => SerialFine
  BY SerialInit
<1>2. IInv /\ IInv' /\ SerialFine /\ [Next]_vars => SerialFine' /\ StepFine
  BY SerialStep
<1>3. IInv /\ IInv' /\ SerialFine /\ [Next]_vars => SerialFine' /\ [StepFine]_vars
  BY <1>2
<1> QED BY <1>1, <1>3, IInvCorrect, PTL DEF Spec

\* With one server the target commits each transaction once and in source
\* order, DDL excepted, which may run again right away: whatever requests
\* overlap, the reader repeats, a COMMIT leaves open or a crash interrupts
\* (ApplyEngineJobCDCEvents, drainCDCSpoolLocked, beginCDCCommitFence).
THEOREM AppliedInOrderCorrect == ASSUME Serial PROVE Spec => []AppliedOnceInOrder
<1>1. SerialFine => AppliedOnceInOrder
  BY DEF SerialFine, TargetOrdered
<1> QED BY <1>1, SerialAlways, PTL

\* With one server and no fault or crash so far, the target holds nothing
\* behind the barrier of a validation that runs (captureValidationBarrier).
THEOREM BarrierCorrect == ASSUME Serial PROVE Spec => []BarrierHolds
<1>1. SerialFine => BarrierHolds
  BY DEF SerialFine, BarrierFine
<1> QED BY <1>1, SerialAlways, PTL

\* With one server the target does not change while a validation compares it
\* with the source (cdcApplyReady, the spool lock).
THEOREM FrozenCorrect == ASSUME Serial PROVE Spec => FrozenWhileValidating
<1>1. [StepFine]_vars => [validating => target' = target]_vars
  BY DEF StepFine
<1> QED BY <1>1, SerialAlways, PTL DEF FrozenWhileValidating

\* With one server the newest checkpoint never moves backwards: no handler
\* writes one that an overlapping request has already passed (recordCDCProgress).
THEOREM CheckpointMovesCorrect == ASSUME Serial PROVE Spec => CheckpointMoves
<1>1. [StepFine]_vars => [latest' >= latest]_vars
  BY DEF StepFine
<1> QED BY <1>1, SerialAlways, PTL DEF CheckpointMoves

\* With one server and no operator an ambiguous COMMIT stays ambiguous until
\* its transaction is checkpointed (completeCDCCommitFence, recordCDCDeadLetter).
THEOREM UncertainKeptCorrect == ASSUME Serial PROVE Spec => UncertainKept
<1>1. [StepFine]_vars =>
        [\A t \in Tx :
           /\ dlq[t].status = "COMMIT_UNCERTAIN"
           /\ dlq'[t].status # "COMMIT_UNCERTAIN"
           => \/ latest >= t
              \/ dlq'[t].status = "REPLAY_REQUIRED" /\ t \notin Committed]_vars
  BY DEF StepFine
<1> QED BY <1>1, SerialAlways, PTL DEF UncertainKept

-----------------------------------------------------------------------------
(***************************************************************************)
(* The refinement: each step commits the transaction behind the checkpoint,*)
(* moves the checkpoint, or only keeps and acknowledges.                   *)
(***************************************************************************)
LEMMA ReaderType ==
  ASSUME IInv
  PROVE  TypeOK /\ reader.acked \in Nat /\ reader.next \in Nat /\ latest \in Nat
<1>1. TypeOK
  BY DEF IInv
<1>2. reader \in [next : 1..(MaxTx + 1), acked : 0..MaxTx] /\ latest \in 0..MaxTx
  BY <1>1 DEF TypeOK
<1> QED BY <1>1, <1>2

LEMMA AckedGrows ==
  ASSUME TypeOK, NEW h \in Handlers, NEW ok \in BOOLEAN, Return(h, ok)
  PROVE  reader'.acked >= reader.acked
<1>1. reader.acked \in Nat /\ calls[h].req \in Nat
  BY ConstantsOK DEF TypeOK, Call
<1>2. CASE ok /\ calls[h].awaited
  <2>1. reader'.acked = Greatest(reader.acked, calls[h].req)
    BY <1>2 DEF Return
  <2> QED BY <1>1, <2>1 DEF Greatest
<1>3. CASE ~(ok /\ calls[h].awaited)
  BY <1>1, <1>3 DEF Return
<1> QED BY <1>2, <1>3

\* What was acknowledged is behind the reader, hence checkpointed or pending.
LEMMA Keeps ==
  ASSUME IInv, IInv', SerialFine', UNCHANGED <<target, latest>>,
         PendingTx \ PendingTx' \subseteq {latest}, reader'.acked >= reader.acked
  PROVE  Promised!Keep
<1>1. /\ latest \in Nat /\ reader'.acked \in Nat /\ reader'.next \in Nat
      /\ reader'.acked < reader'.next
  <2>1. reader' \in [next : 1..(MaxTx + 1), acked : 0..MaxTx]
    BY DEF IInv, TypeOK
  <2>2. reader'.acked < reader'.next
    BY DEF SerialFine, RequestsOrdered
  <2> QED BY <2>1, <2>2, ReaderType
<1>2. PendingTx \subseteq Tx /\ PendingTx' \subseteq Tx
  <2>1. spool \in Seq(Item) /\ spool' \in Seq(Item)
    BY DEF IInv, TypeOK
  <2> QED BY <2>1, ItemType DEF PendingTx, Pending
<1>3. PendingTx \ (1..latest) \subseteq PendingTx'
  <2>1. latest \in Tx => latest \in 1..latest
    BY <1>1 DEF Tx
  <2> QED BY <1>2, <2>1
<1>4. ASSUME NEW t \in 1..reader'.acked PROVE t \in (1..latest) \cup PendingTx'
  <2>1. t \in Nat /\ 1 <= t /\ t <= reader'.next - 1
    BY <1>1
  <2>2. CASE t <= latest
    BY <1>1, <2>1, <2>2
  <2>3. CASE latest + 1 <= t
    <3>1. t \in (latest' + 1) .. (reader'.next - 1)
      BY <1>1, <2>1, <2>3
    <3>2. t \in LeftTx(spool')
      BY <3>1 DEF SerialFine, SpoolOrdered, SpoolInOrder
    <3> QED BY <3>2, LeftIsPending
  <2> QED BY <1>1, <2>1, <2>2, <2>3
<1> QED BY <1>2, <1>3, <1>4 DEF Promised!Keep, Tx

\* The rows that a drain drops or marks are those of the checkpoint.
LEMMA PendingLeaves ==
  ASSUME Serial, IInv, SerialFine, NEW h \in Handlers,
         \/ StageWhileFrozen(h) \/ StageBehindSpool(h) \/ EndDrain(h) \/ Mark(h)
  PROVE  PendingTx \ PendingTx' \subseteq {latest}
<1>1. CASE StageWhileFrozen(h) \/ StageBehindSpool(h)
  <2>1. spool' = Staged(calls[h].req) /\ spool \in Seq(Item)
    BY <1>1, HolderAt DEF StageWhileFrozen, StageBehindSpool
  <2>2. \A i \in DOMAIN spool : i \in DOMAIN spool' /\ spool'[i] = spool[i]
    <3>1. CASE spool' = spool
      BY <3>1
    <3>2. CASE spool' = Append(spool, [tx |-> calls[h].req, applied |-> FALSE])
      BY <2>1, <3>2
    <3> QED BY <2>1, <3>1, <3>2 DEF Staged
  <2> QED BY <2>2 DEF PendingTx, Pending
<1>2. CASE EndDrain(h)
  BY <1>2 DEF EndDrain, PendingTx, Pending
<1>3. CASE Mark(h)
  <2>1. spool' = MarkedApplied(latest)
    BY <1>3, HolderAt DEF Mark, WorkOrdered
  <2> QED BY <2>1, HolderAt, MarkedInOrder
<1> QED BY <1>1, <1>2, <1>3

\* The steps of a handler that neither commit nor write a checkpoint.
LEMMA ServeKeeps ==
  ASSUME Serial, IInv, SerialFine, NEW h \in Handlers,
         Serve(h), ~CommitOrDDL(h), ~Checkpoint(h)
  PROVE  /\ UNCHANGED <<target, latest>>
         /\ PendingTx \ PendingTx' \subseteq {latest}
         /\ reader'.acked >= reader.acked
<1>1. TypeOK /\ reader.acked \in Nat
  BY ReaderType
<1>2. UNCHANGED spool => PendingTx' = PendingTx
  BY DEF PendingTx, Pending
<1>3. CASE Arrive(h) \/ ApplyDirectly(h) \/ List(h) \/ NotReady(h) \/ SkipDuplicate(h)
           \/ Blocked(h) \/ Accept(h) \/ Fence(h) \/ CheckpointRefused(h)
           \/ StoreTask(h) \/ CompleteFence(h)
  <2>1. UNCHANGED <<target, latest, spool, reader>>
    BY <1>3 DEF Arrive, ApplyDirectly, List, NotReady, SkipDuplicate, Blocked, Accept,
           Fence, CheckpointRefused, StoreTask, CompleteFence, tables
  <2> QED BY <1>1, <1>2, <2>1
<1>4. CASE \/ StageWhileFrozen(h) \/ EndDrain(h) \/ DirectDone(h) \/ RecordFailure(h)
           \/ ReplayDone(h) \/ ReplayFailed(h) \/ ResolveDone(h) \/ ResolveFailed(h)
           \/ EnterValidation(h)
  <2>1. UNCHANGED <<target, latest>> /\ (Return(h, TRUE) \/ Return(h, FALSE))
    BY <1>4 DEF StageWhileFrozen, EndDrain, DirectDone, RecordFailure, ReplayDone,
           ReplayFailed, ResolveDone, ResolveFailed, EnterValidation, tables
  <2>2. UNCHANGED spool \/ StageWhileFrozen(h) \/ EndDrain(h)
    BY <1>4 DEF DirectDone, RecordFailure, ReplayDone, ReplayFailed, ResolveDone,
           ResolveFailed, EnterValidation, tables
  <2>3. reader'.acked >= reader.acked
    BY <1>1, <2>1, AckedGrows
  <2> QED BY <1>2, <2>1, <2>2, <2>3, PendingLeaves
<1>5. CASE StageBehindSpool(h) \/ Mark(h)
  <2>1. UNCHANGED <<target, latest, reader>>
    BY <1>5 DEF StageBehindSpool, Mark
  <2> QED BY <1>1, <1>5, <2>1, PendingLeaves
<1>6. CASE CaptureBarrier(h)
  <2>1. UNCHANGED <<target, latest, spool>> /\ (reader' = reader \/ Return(h, FALSE))
    BY <1>6 DEF CaptureBarrier, tables
  <2>2. reader'.acked >= reader.acked
    <3>1. CASE reader' = reader
      BY <1>1, <3>1
    <3>2. CASE Return(h, FALSE)
      BY <1>1, <3>2, AckedGrows
    <3> QED BY <2>1, <3>1, <3>2
  <2> QED BY <1>2, <2>1, <2>2
<1> QED BY <1>3, <1>4, <1>5, <1>6 DEF Serve

LEMMA CommitsOrdered ==
  ASSUME Serial, IInv, IInv', SerialFine, SerialFine', NEW h \in Handlers,
         CommitOrDDL(h) \/ CommitUnknown(h)
  PROVE  Promised!Next
<1>1. /\ calls[h].pc = "commit" \/ (calls[h].pc = "apply" /\ calls[h].tx \in DDL)
      /\ UNCHANGED <<latest, spool, reader>>
      /\ target' = target \/ target' = Append(target, calls[h].tx)
  BY DEF CommitOrDDL, CommitUnknown
<1>2. PendingTx' = PendingTx
  BY <1>1 DEF PendingTx, Pending
<1>3. CASE target' = target
  <2>1. reader'.acked >= reader.acked
    BY <1>1, ConstantsOK DEF IInv, TypeOK
  <2> QED BY <1>1, <1>2, <1>3, <2>1, Keeps DEF Promised!Next
<1>4. CASE target' = Append(target, calls[h].tx)
  <2>1. /\ calls[h].tx = latest + 1 /\ calls[h].tx \in Tx
        /\ calls[h].tx \notin Heartbeats
        /\ calls[h].tx \in DDL \/ calls[h].tx \notin Committed
    BY <1>1, HolderAt DEF WorkOrdered, CallFine, Working
  <2>2. Promised!Commit
    BY <1>1, <1>2, <1>4, <2>1 DEF Promised!Commit, Promised!InTarget, Committed, Tx
  <2> QED BY <2>2 DEF Promised!Next
<1> QED BY <1>1, <1>3, <1>4

LEMMA CheckpointAdvances ==
  ASSUME Serial, IInv, SerialFine, NEW h \in Handlers, Checkpoint(h)
  PROVE  Promised!Next
<1>1. /\ calls[h].pc = "checkpoint" /\ latest' = calls[h].tx
      /\ UNCHANGED <<target, spool, reader>>
  BY DEF Checkpoint
<1>2. calls[h].tx = latest + 1 /\ calls[h].tx \in DoneTx
  BY <1>1, HolderAt DEF WorkOrdered, CallFine, Applied
<1>3. PendingTx' = PendingTx
  BY <1>1 DEF PendingTx, Pending
<1>4. Promised!Advance
  BY <1>1, <1>2, <1>3 DEF Promised!Advance, Promised!InTarget, DoneTx, Done, Committed
<1> QED BY <1>4 DEF Promised!Next

LEMMA StepPromised ==
  ASSUME Serial, IInv, IInv', SerialFine, SerialFine', [Next]_vars
  PROVE  Promised!Next
<1>1. TypeOK /\ reader.acked \in Nat
  BY ReaderType
<1>2. ASSUME UNCHANGED <<target, latest, spool>>, reader'.acked = reader.acked
      PROVE  Promised!Next
  <2>1. PendingTx' = PendingTx
    BY <1>2 DEF PendingTx, Pending
  <2>2. reader'.acked >= reader.acked
    BY <1>1, <1>2
  <2> QED BY <1>2, <2>1, <2>2, Keeps DEF Promised!Next
<1>3. CASE UNCHANGED vars
  BY <1>2, <1>3 DEF vars
<1>4. CASE Next
  <2>1. ASSUME NEW h \in Handlers,
               Send(h) \/ StartDrain(h) \/ StartValidation(h) \/ WriteFails(h)
        PROVE  Promised!Next
    BY <1>2, <2>1 DEF Send, StartDrain, StartValidation, WriteFails, tables
  <2>2. ASSUME NEW h \in Handlers, NEW t \in Tx, Operate(h, t) PROVE FALSE
    BY <2>2, HolderAt, NeverSpent DEF Operate, Replay, ResolveCommitted, ResolveNotCommitted
  <2>3. ASSUME NEW h \in Handlers, Serve(h) \/ CommitUnknown(h) PROVE Promised!Next
    <3>1. CASE CommitOrDDL(h) \/ CommitUnknown(h)
      BY <3>1, CommitsOrdered
    <3>2. CASE Checkpoint(h)
      BY <3>2, CheckpointAdvances
    <3>3. CASE Serve(h) /\ ~CommitOrDDL(h) /\ ~Checkpoint(h)
      BY <3>3, ServeKeeps, Keeps DEF Promised!Next
    <3> QED BY <2>3, <3>1, <3>2, <3>3
  <2>4. CASE Reconnect \/ LeaseExpires \/ \E s \in Servers : Crash(s)
    BY <1>2, <2>4 DEF Reconnect, LeaseExpires, Crash, tables
  <2>5. CASE Restart
    <3>1. UNCHANGED <<target, latest, spool>> /\ reader'.acked = reader.acked
      BY <1>1, <2>5 DEF Restart, tables, TypeOK
    <3> QED BY <1>2, <3>1
  <2>6. CASE EndValidation \/ FinishSnapshot
    BY <1>2, <2>6 DEF EndValidation, FinishSnapshot
  <2> QED BY <1>4, <2>1, <2>2, <2>3, <2>4, <2>5, <2>6 DEF Next
<1> QED BY <1>3, <1>4

\* With one server and no operator staging, draining, fences, retries, crashes
\* and restarts of the reader together implement an apply in order: each step
\* commits the transaction behind the checkpoint, moves the checkpoint to it, or
\* keeps and acknowledges (ApplyEngineJobCDCEvents, ApplyCDCEvents).
THEOREM AppliesInOrderCorrect == ASSUME Serial PROVE Spec => AppliesInOrder
<1>1. Init => Promised!Init
  BY DEF Init, Promised!Init, PendingTx, Pending
<1>2. IInv /\ IInv' /\ SerialFine /\ SerialFine' /\ [Next]_vars =>
        [Promised!Next]_<<target, latest, PendingTx, reader.acked>>
  BY StepPromised
<1> QED BY <1>1, <1>2, IInvCorrect, SerialAlways, PTL
       DEF Spec, AppliesInOrder, Promised!Spec
=============================================================================
