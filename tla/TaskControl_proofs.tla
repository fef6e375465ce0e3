-------------------------- MODULE TaskControl_proofs --------------------------
(***************************************************************************)
(* Proofs about TaskControl for every set of servers, handlers and         *)
(* runners, every start and every bound.                                   *)
(***************************************************************************)
EXTENDS TaskControl, FiniteSetTheorems, TLAPS

-----------------------------------------------------------------------------
(***************************************************************************)
(* The runners: every one at work but one was passed by a lease that       *)
(* expired under it.                                                       *)
(***************************************************************************)
AtWork == {p \in Procs : Working(p)}

Holding == lease.live /\ Held

Allowance == expired + (IF Holding THEN 1 ELSE 0)

\* Phases of a runner that holds the lease.
Runs == {"precheck", "checked", "preparing", "plan", "planned", "delete", "compare",
         "finish", "release"}

\* Phases of a handler that holds no lease.
Handling == {"stop", "wait", "drain", "sync", "finalize", "rollback"}

PhaseFine(p) ==
  LET pc == proc[p].pc
      then == proc[p].then
  IN
  /\ then \in {"idle", "plan", "release", "launch", "ensure", "validate", "sync"}
  /\ pc = "idle" => ~Working(p)
  /\ pc \in Runs => Working(p)
  /\ pc = "fail" => then \in {"idle", "release"}
  /\ pc \in {"store", "fail"} /\ then \in {"plan", "release"} => Working(p)
  /\ pc = "launch" \/ (pc = "store" /\ then = "launch") => p \in Calls /\ proc[p].op = "prepare"
  /\ pc = "acquire" /\ p \in Calls => then = "launch"
  /\ pc \in Handling => then \notin {"plan", "release", "launch"}
  /\ pc \in Handling \cup {"ensure"} \/ then \in {"sync", "ensure"} => p \in Calls

RunnersFine ==
  /\ \A p \in Procs : PhaseFine(p)
  /\ IsFiniteSet(AtWork) /\ Cardinality(AtWork) <= Allowance

-----------------------------------------------------------------------------
(***************************************************************************)
(* The preparation: a status that was left on the way to PREPARING is not  *)
(* reached again, so one runner gets to plan.                              *)
(***************************************************************************)
Before == {"CREATED", "PRECHECKING", "PRECHECK_SUCCESS"}

Pausable == Streaming \cup {"FULL_MIGRATING", "VALIDATING"}

RowFine(row) == row.status = "PAUSED" => row.from \in Pausable

\* The processes that are going to prepare the target.
Preparers == {p \in Procs : \/ At(p, "preparing") \/ At(p, "plan")
                            \/ (At(p, "store") /\ proc[p].then = "plan")}

\* The process will store the row it is going to store at some later step.
Writes(p) ==
  \/ proc[p].pc \in {"store", "wait", "drain", "sync"}
  \/ At(p, "stop") /\ proc[p].seen.status = "READY_FOR_CUTOVER"
  \/ At(p, "acquire") /\ p \notin Servers

RowsFine ==
  /\ RowFine(task)
  /\ \A p \in Procs : RowFine(proc[p].seen) /\ RowFine(proc[p].to)

PreparedFine ==
  ~overwrote =>
    /\ \A p \in Procs : Writes(p) /\ proc[p].to.status \in Before =>
                          proc[p].seen.status = "CREATED" /\ proc[p].then # "sync"
    /\ \A p, q \in Preparers : p = q
    /\ Preparers # {} => target.prepared = 0 /\ task.status \notin Before
    /\ task.status \in Before => target.prepared = 0
    /\ target.prepared <= 1

-----------------------------------------------------------------------------
(***************************************************************************)
(* The cutover, when the commands come one at a time.                      *)
(***************************************************************************)
Quiet == forward \notin {"active", "stopping"}

Complete == captured = applied /\ target.synced /\ target.finalized

CutoverStatuses == {"READY_FOR_CUTOVER", "CUTOVER_RUNNING", "FINISHED"}

\* The statuses of cutover come from the handler of a command.
CutoverWrites(p) ==
  Writes(p) /\ proc[p].to # proc[p].seen =>
    /\ proc[p].to.status \in CutoverStatuses => p \in Calls
    /\ proc[p].to.status = "CUTOVER_RUNNING" => proc[p].seen.status = "READY_FOR_CUTOVER"
    /\ proc[p].to.status = "FINISHED" =>
         At(p, "store") /\ proc[p].seen.status = "CUTOVER_RUNNING"

\* What the handler has read and is going to store in each phase.
CutoverRows(c) ==
  LET seen == proc[c].seen.status
      to == proc[c].to.status
      then == proc[c].then
  IN
  /\ At(c, "acquire") => to = "PRECHECKING"
  /\ At(c, "stop") /\ seen = "READY_FOR_CUTOVER" => to = "CUTOVER_RUNNING"
  /\ At(c, "wait") \/ At(c, "drain") => seen = "READY_FOR_CUTOVER" /\ to = "CUTOVER_RUNNING"
  /\ At(c, "sync") => IF seen = "CUTOVER_RUNNING" THEN proc[c].to = proc[c].seen
                      ELSE to = "CDC_CATCHING_UP" /\ then = "idle"
  /\ At(c, "finalize") => seen = "CUTOVER_RUNNING"
  /\ Writes(c) /\ ~At(c, "sync") /\ then = "sync" =>
       seen = "READY_FOR_CUTOVER" /\ to = "CUTOVER_RUNNING"

\* What holds of the spool and the target in each phase of the handler, unless
\* the task left the status of this phase.
CutoverStage(c) ==
  /\ task.status = "READY_FOR_CUTOVER" =>
       /\ At(c, "drain") => Quiet
       /\ At(c, "store") /\ proc[c].to.status = "CUTOVER_RUNNING" => Quiet /\ captured = applied
  /\ task.status = "CUTOVER_RUNNING" =>
       /\ At(c, "sync") => Quiet /\ captured = applied
       /\ At(c, "finalize") => Quiet /\ captured = applied /\ target.synced
       /\ At(c, "store") /\ proc[c].to.status = "FINISHED" => Quiet /\ Complete

CutoverHolds ==
  /\ \A p \in Procs : CutoverWrites(p)
  /\ \A c \in Calls : CutoverRows(c) /\ CutoverStage(c)
  /\ task.status = "FINISHED" => Complete

Watched == setup.mode # "FULL" /\ ~overwrote

CutoverFine == Watched => CutoverHolds

IInv == TypeOK /\ RunnersFine /\ RowsFine /\ PreparedFine

-----------------------------------------------------------------------------
(***************************************************************************)
(* Types, and what the helpers do to a process.                            *)
(***************************************************************************)
LEMMA RowTypes ==
  /\ NewRow \in Row
  /\ \A row \in Row, status \in Statuses : With(row, status) \in Row
  /\ \A row \in Row, status, from \in Statuses : [With(row, status) EXCEPT !.from = from] \in Row
  /\ \A row \in Row, status \in Statuses, empty \in BOOLEAN :
       [With(row, status) EXCEPT !.empty = empty] \in Row
  /\ \A row \in Row, status \in Statuses, barrier \in {NoBarrier} \cup (0 .. MaxTx) :
       [With(row, status) EXCEPT !.barrier = barrier] \in Row
<1>1. NewRow \in Row
  BY DEF NewRow, Row, Statuses
<1>2. ASSUME NEW row \in Row, NEW status \in Statuses
      PROVE  /\ With(row, status) \in Row
             /\ \A from \in Statuses : [With(row, status) EXCEPT !.from = from] \in Row
             /\ \A empty \in BOOLEAN : [With(row, status) EXCEPT !.empty = empty] \in Row
             /\ \A barrier \in {NoBarrier} \cup (0 .. MaxTx) :
                  [With(row, status) EXCEPT !.barrier = barrier] \in Row
  BY DEF With, Row
<1> QED BY <1>1, <1>2

LEMMA WithIs ==
  ASSUME NEW row \in Row, NEW status
  PROVE  /\ With(row, status).status = status
         /\ With(row, status).from = row.from
         /\ With(row, status).empty = row.empty
         /\ With(row, status).barrier = row.barrier
BY DEF With, Row

LEMMA RestType ==
  /\ \A s \in Servers \cup {NoServer} : Idle(s) \in Process
  /\ \A p \in Procs : Rest(p) \in Process
<1>1. ASSUME NEW s \in Servers \cup {NoServer} PROVE Idle(s) \in Process
  BY RowTypes DEF Idle, Process, Operation, Pc
<1>2. ASSUME NEW p \in Procs PROVE Rest(p) \in Process
  BY <1>1 DEF Rest
<1> QED BY <1>1, <1>2

LEMMA RestIs ==
  ASSUME NEW p
  PROVE  /\ Rest(p).op = "none" /\ Rest(p).pc = "idle" /\ Rest(p).then = "idle"
         /\ Rest(p).seen = NewRow /\ Rest(p).to = NewRow
BY DEF Rest, Idle

\* The process works for the same lease.
SameWork(p) == proc'[p].op = proc[p].op /\ proc'[p].server = proc[p].server

SameRows(p) == proc'[p].seen = proc[p].seen /\ proc'[p].to = proc[p].to

\* Nothing of it changes, or it is cancelled.
Same(p) == /\ SameWork(p) /\ SameRows(p)
           /\ proc'[p].pc = proc[p].pc /\ proc'[p].then = proc[p].then

\* Only process p changes, though others may be cancelled.
Only(p) == proc' \in [Procs -> Process] /\ \A q \in Procs : q # p => Same(q)

LEMMA GotoEffect ==
  ASSUME TypeOK, NEW p \in Procs, NEW pc \in Pc, Goto(p, pc)
  PROVE  /\ Only(p) /\ SameWork(p) /\ SameRows(p)
         /\ proc'[p].pc = pc /\ proc'[p].then = proc[p].then
BY DEF TypeOK, Goto, Only, Same, SameWork, SameRows, Process

LEMMA WillStoreEffect ==
  ASSUME TypeOK, NEW p \in Procs, NEW row \in Row, NEW then \in Pc, WillStore(p, row, then)
  PROVE  /\ Only(p) /\ SameWork(p)
         /\ proc'[p].pc = "store" /\ proc'[p].then = then
         /\ proc'[p].seen = task /\ proc'[p].to = row
<1> DEFINE x == [proc[p] EXCEPT !.pc = "store", !.seen = task, !.to = row, !.then = then]
<1>1. proc[p] \in Process /\ task \in Row /\ "store" \in Pc
  BY DEF TypeOK, Pc
<1>2. /\ x \in Process /\ x.op = proc[p].op /\ x.server = proc[p].server
      /\ x.pc = "store" /\ x.then = then /\ x.seen = task /\ x.to = row
  BY <1>1 DEF Process
<1>3. proc' = [proc EXCEPT ![p] = x]
  BY DEF WillStore, TypeOK
<1> HIDE DEF x
<1> QED BY <1>2, <1>3 DEF Only, Same, SameWork, SameRows, TypeOK

LEMMA FailsEffect ==
  ASSUME TypeOK, NEW p \in Procs, NEW then \in Pc, Fails(p, then)
  PROVE  /\ Only(p) /\ SameWork(p) /\ SameRows(p)
         /\ proc'[p].pc = "fail" /\ proc'[p].then = then
<1>1. "fail" \in Pc
  BY DEF Pc
<1> QED BY <1>1 DEF TypeOK, Fails, Only, Same, SameWork, SameRows, Process

LEMMA EndsEffect ==
  ASSUME TypeOK, NEW p \in Procs, Ends(p)
  PROVE  /\ Only(p) /\ proc'[p].op = "none" /\ proc'[p].pc = "idle" /\ proc'[p].then = "idle"
         /\ proc'[p].seen = NewRow /\ proc'[p].to = NewRow
<1>1. Only(p) /\ proc'[p] = Rest(p)
  BY RestType DEF TypeOK, Ends, Only, Same, SameWork, SameRows
<1> QED BY <1>1, RestIs

-----------------------------------------------------------------------------
(***************************************************************************)
(* The number of those at work.                                            *)
(***************************************************************************)
Phases == \A p \in Procs : PhaseFine(p)

LEMMA Count ==
  ASSUME RunnersFine, TypeOK
  PROVE  /\ IsFiniteSet(AtWork) /\ Cardinality(AtWork) \in Nat
         /\ expired \in Nat
         /\ Cardinality(AtWork) <= expired + 1
         /\ ~Holding => Cardinality(AtWork) <= expired
BY FS_CardinalityType DEF RunnersFine, TypeOK, Allowance

LEMMA AddOne ==
  ASSUME NEW S, IsFiniteSet(S), NEW x
  PROVE  IsFiniteSet(S \cup {x}) /\ Cardinality(S \cup {x}) <= Cardinality(S) + 1
<1>1. IsFiniteSet(S \cup {x})
      /\ Cardinality(S \cup {x}) = IF x \in S THEN Cardinality(S) ELSE Cardinality(S) + 1
  BY FS_AddElement
<1>2. Cardinality(S) \in Nat
  BY FS_CardinalityType
<1> QED BY <1>1, <1>2

\* Someone stopped to work, or the lease was nobody's.
LEMMA FewerFine ==
  ASSUME TypeOK, TypeOK', RunnersFine, Phases', AtWork' \subseteq AtWork, expired' = expired,
         AtWork' # AtWork \/ ~Holding
  PROVE  RunnersFine'
<1>1. IsFiniteSet(AtWork') /\ Cardinality(AtWork') <= Cardinality(AtWork)
      /\ (AtWork' # AtWork => Cardinality(AtWork') # Cardinality(AtWork))
  BY Count, FS_Subset
<1>2. Cardinality(AtWork') \in Nat
  BY <1>1, FS_CardinalityType
<1>3. Cardinality(AtWork') <= expired
  BY <1>1, <1>2, Count
<1> QED BY <1>1, <1>2, <1>3 DEF RunnersFine, Phases, Allowance, TypeOK

\* Nobody starts to work, and the lease stays.
LEMMA KeptFine ==
  ASSUME TypeOK, TypeOK', RunnersFine, Phases', UNCHANGED <<lease, expired>>,
         \A p \in Procs : Working(p)' => Working(p) /\ SameWork(p)
  PROVE  RunnersFine'
<1>1. AtWork' \subseteq AtWork
  BY DEF AtWork
<1>2. CASE AtWork' = AtWork
  <2>1. Held => Held'
    BY <1>2 DEF Held, AtWork, SameWork
  <2>2. Allowance <= Allowance'
    BY <2>1 DEF Allowance, Holding, TypeOK
  <2> QED BY <1>2, <2>2, Count DEF RunnersFine, Phases, Allowance, TypeOK
<1>3. CASE AtWork' # AtWork
  BY <1>1, <1>3, FewerFine
<1> QED BY <1>2, <1>3

\* Process p takes the lease that nobody holds.
LEMMA TakenFine ==
  ASSUME TypeOK, TypeOK', RunnersFine, Phases', expired' = expired, ~lease.live,
         NEW p \in Procs, AtWork' \subseteq AtWork \cup {p}, p \in AtWork',
         lease' = [op |-> proc'[p].op, owner |-> proc'[p].server, live |-> TRUE]
  PROVE  RunnersFine'
<1>1. IsFiniteSet(AtWork \cup {p}) /\ Cardinality(AtWork \cup {p}) <= Cardinality(AtWork) + 1
  BY Count, AddOne
<1>2. IsFiniteSet(AtWork') /\ Cardinality(AtWork') <= Cardinality(AtWork \cup {p})
  BY <1>1, FS_Subset
<1>3. Cardinality(AtWork') \in Nat /\ Cardinality(AtWork \cup {p}) \in Nat
  BY <1>1, <1>2, FS_CardinalityType
<1>4. Cardinality(AtWork) <= expired
  BY Count DEF Holding
<1>5. Holding'
  BY DEF Holding, Held, AtWork
<1> QED BY <1>1, <1>2, <1>3, <1>4, <1>5, Count DEF RunnersFine, Phases, Allowance, TypeOK

\* Process c hands its work over to process r.
LEMMA HandedFine ==
  ASSUME TypeOK, TypeOK', RunnersFine, Phases', UNCHANGED <<lease, expired>>,
         NEW c \in Procs, NEW r \in Procs, Working(c), c # r,
         ~Working(c)', proc'[r].op = proc[c].op, proc'[r].server = proc[c].server,
         \A p \in Procs \ {c, r} : SameWork(p)
  PROVE  RunnersFine'
<1> DEFINE rest == AtWork \ {c}
<1>1. AtWork' = rest \cup {r}
  BY DEF AtWork, SameWork, Working
<1>2. c \in AtWork
  BY DEF AtWork
<1>3. IsFiniteSet(rest) /\ Cardinality(rest) = Cardinality(AtWork) - 1
  BY <1>2, Count, FS_RemoveElement
<1>4. IsFiniteSet(rest \cup {r}) /\ Cardinality(rest \cup {r}) <= Cardinality(rest) + 1
  BY <1>3, AddOne
<1>5. Cardinality(AtWork') <= Cardinality(AtWork) /\ Cardinality(AtWork') \in Nat
  BY <1>1, <1>3, <1>4, Count, FS_CardinalityType
<1>6. CASE Working(r)
  <2>1. AtWork' # AtWork /\ AtWork' \subseteq AtWork
    BY <1>1, <1>2, <1>6 DEF AtWork
  <2> QED BY <2>1, FewerFine
<1>7. CASE ~Working(r)
  <2>1. Held => Held'
    BY <1>7 DEF Held, SameWork, Working
  <2>2. Allowance <= Allowance'
    BY <2>1 DEF Allowance, Holding, TypeOK
  <2> QED BY <1>1, <1>4, <1>5, <2>2, Count DEF RunnersFine, Phases, Allowance, TypeOK
<1> QED BY <1>6, <1>7

-----------------------------------------------------------------------------
(***************************************************************************)
(* A step of one process.                                                  *)
(***************************************************************************)
\* Statuses that were left are not reached again.
RowStep == RowFine(task') /\ (task'.status \in Before => task.status \in Before)

\* What the process is going to store.
ProcStep(p) ==
  /\ RowFine(proc'[p].seen) /\ RowFine(proc'[p].to)
  /\ ~overwrote /\ Writes(p)' /\ proc'[p].to.status \in Before =>
       proc'[p].seen.status = "CREATED" /\ proc'[p].then # "sync"

LEMMA PreparedStep ==
  ASSUME IInv, NEW p \in Procs, Only(p), RowStep, ProcStep(p),
         overwrote' = overwrote, target'.prepared = target.prepared,
         p \in Preparers' => p \in Preparers
  PROVE  RowsFine' /\ PreparedFine'
<1>1. RowsFine'
  BY DEF IInv, RowsFine, Only, Same, SameWork, SameRows, RowStep, ProcStep
<1>2. Preparers' \subseteq Preparers
  BY DEF Preparers, Only, Same, SameWork, SameRows, At
<1>3. \A q \in Procs : q # p => Writes(q)' = Writes(q) /\ Same(q)
  BY DEF Only, Same, SameWork, SameRows, Writes, At
<1>4. PreparedFine'
  <2> SUFFICES ASSUME ~overwrote
               PROVE  /\ \A q \in Procs : Writes(q)' /\ proc'[q].to.status \in Before =>
                                           proc'[q].seen.status = "CREATED" /\ proc'[q].then # "sync"
                      /\ \A q, r \in Preparers' : q = r
                      /\ Preparers' # {} => target'.prepared = 0 /\ task'.status \notin Before
                      /\ task'.status \in Before => target'.prepared = 0
                      /\ target'.prepared <= 1
    BY DEF PreparedFine
  <2> QED BY <1>2, <1>3 DEF IInv, PreparedFine, RowStep, ProcStep, Same, SameRows
<1> QED BY <1>1, <1>4

LEMMA PhasesStep ==
  ASSUME Phases, NEW p \in Procs, Only(p), PhaseFine(p)'
  PROVE  Phases'
BY DEF Phases, Only, Same, SameWork, SameRows, PhaseFine, Working

LEMMA ProcessStep ==
  ASSUME IInv, TypeOK', NEW p \in Procs, Only(p),
         SameWork(p) \/ proc'[p].op = "none", PhaseFine(p)',
         RowStep, ProcStep(p), p \in Preparers' => p \in Preparers,
         UNCHANGED <<lease, overwrote, expired>>, target'.prepared = target.prepared
  PROVE  IInv'
<1>1. Phases'
  BY PhasesStep DEF IInv, RunnersFine, Phases
<1>2. \A q \in Procs : Working(q)' => Working(q) /\ SameWork(q)
  BY DEF Only, Same, SameWork, SameRows, Working
<1>3. RunnersFine'
  BY <1>1, <1>2, KeptFine DEF IInv
<1> QED BY <1>3, PreparedStep DEF IInv

\* The row of the task stays, or becomes one that is past PREPARING.
LEMMA RowStays == ASSUME IInv, UNCHANGED task PROVE RowStep
BY DEF IInv, RowsFine, RowStep

LEMMA RowAdvances ==
  ASSUME task'.status # "PAUSED", task'.status \in Before => task.status \in Before
  PROVE  RowStep
BY DEF RowStep, RowFine

\* A process goes to a phase in which it is not about to store or to prepare.
Aside == Pc \ {"store", "acquire", "stop", "wait", "drain", "sync", "preparing", "plan"}

LEMMA GotoStep ==
  ASSUME IInv, TypeOK', NEW p \in Procs, Only(p), SameWork(p) \/ proc'[p].op = "none",
         SameRows(p), proc'[p].pc \in Aside, PhaseFine(p)',
         RowStep, UNCHANGED <<lease, overwrote, expired>>, target'.prepared = target.prepared
  PROVE  IInv'
<1>1. ~Writes(p)' /\ p \notin Preparers'
  BY DEF Writes, Aside, Preparers, At
<1>2. ProcStep(p)
  BY <1>1 DEF ProcStep, SameRows, IInv, RowsFine
<1> QED BY <1>1, <1>2, ProcessStep

LEMMA FailsStep ==
  ASSUME IInv, TypeOK', NEW p \in Procs, NEW then \in {"idle", "release"},
         then = "release" => Working(p), Fails(p, then), RowStep,
         UNCHANGED <<lease, overwrote, expired>>, target'.prepared = target.prepared
  PROVE  IInv'
<1>1. then \in Pc /\ "fail" \in Aside
  BY DEF Pc, Aside
<1>2. /\ Only(p) /\ SameWork(p) /\ SameRows(p)
      /\ proc'[p].pc = "fail" /\ proc'[p].then = then
  BY <1>1, FailsEffect DEF IInv
<1>3. PhaseFine(p)'
  BY <1>2 DEF PhaseFine, Working, SameWork, Runs, Handling
<1> QED BY <1>1, <1>2, <1>3, GotoStep

LEMMA EndsStep ==
  ASSUME IInv, TypeOK', NEW p \in Procs, Ends(p), RowStep,
         UNCHANGED <<lease, overwrote, expired>>, target'.prepared = target.prepared
  PROVE  IInv'
<1>1. /\ Only(p) /\ proc'[p].op = "none" /\ proc'[p].pc = "idle" /\ proc'[p].then = "idle"
      /\ proc'[p].seen = NewRow /\ proc'[p].to = NewRow
  BY EndsEffect DEF IInv
<1>2. PhaseFine(p)'
  BY <1>1 DEF PhaseFine, Working, Runs, Handling
<1>3. ~Writes(p)' /\ p \notin Preparers'
  BY <1>1 DEF Writes, Preparers, At
<1>4. ProcStep(p)
  BY <1>1, <1>3 DEF ProcStep, RowFine, NewRow
<1> QED BY <1>1, <1>2, <1>3, <1>4, ProcessStep

LEMMA SpendType ==
  ASSUME TypeOK, NEW what \in {"commands", "faults"}, Spend(what)
  PROVE  budget' \in [commands : Nat, faults : Nat]
BY DEF TypeOK, Spend

\* Types when only a process and the task's row change.
LEMMA TypeStep ==
  ASSUME TypeOK, NEW p, Only(p), task' \in Row, results' \in {"none", "good", "bad"},
         UNCHANGED <<setup, lease, current, cdc, target, overwrote, expired, budget>>
  PROVE  TypeOK'
BY DEF TypeOK, Only, Same, SameWork, SameRows, cdc

\* A step that gives up, or ends, and leaves everything else alone.
LEMMA FailsAlone ==
  ASSUME IInv, NEW p \in Procs, NEW then \in {"idle", "release"},
         then = "release" => Working(p), Fails(p, then), UNCHANGED world
  PROVE  IInv'
<1>1. then \in Pc /\ task \in Row /\ results \in {"none", "good", "bad"}
  BY DEF Pc, IInv, TypeOK
<1>2. Only(p)
  BY <1>1, FailsEffect DEF IInv
<1>3. TypeOK'
  BY <1>1, <1>2, TypeStep DEF IInv, world, hist
<1> QED BY <1>3, RowStays, FailsStep DEF world, hist

LEMMA EndsAlone ==
  ASSUME IInv, NEW p \in Procs, Ends(p), UNCHANGED world
  PROVE  IInv'
<1>1. task \in Row /\ results \in {"none", "good", "bad"}
  BY DEF IInv, TypeOK
<1>2. Only(p)
  BY EndsEffect DEF IInv
<1>3. TypeOK'
  BY <1>1, <1>2, TypeStep DEF IInv, world, hist
<1> QED BY <1>3, RowStays, EndsStep DEF world, hist

-----------------------------------------------------------------------------
(***************************************************************************)
(* The steps of a runner.                                                  *)
(***************************************************************************)
LEMMA PrecheckStep == ASSUME IInv, NEW r \in Procs, Precheck(r) PROVE IInv'
<1>1. TypeOK /\ Working(r) /\ task \in Row
  BY DEF Precheck, IInv, RunnersFine, PhaseFine, At, Runs, TypeOK
<1>2. CASE task.status = "PRECHECKING" /\ Put(r, With(task, "PRECHECK_SUCCESS"), "checked")
  <2>1. "checked" \in Pc /\ "checked" \in Aside /\ "PRECHECK_SUCCESS" \in Statuses
    BY DEF Pc, Aside, Statuses
  <2>2. Goto(r, "checked") /\ task' = With(task, "PRECHECK_SUCCESS")
    BY <1>2 DEF Put, GoOn
  <2>3. Only(r) /\ SameWork(r) /\ SameRows(r) /\ proc'[r].pc = "checked" /\ proc'[r].then = proc[r].then
    BY <1>1, <2>1, <2>2, GotoEffect
  <2>4. task' \in Row /\ task'.status = "PRECHECK_SUCCESS"
    BY <1>1, <2>1, <2>2, RowTypes, WithIs
  <2>5. PhaseFine(r)'
    BY <1>1, <2>3 DEF IInv, RunnersFine, PhaseFine, SameWork, Working, Runs, Handling
  <2>6. RowStep
    BY <1>2, <2>4, RowAdvances DEF Before
  <2>7. TypeOK'
    BY <1>1, <2>3, <2>4, TypeStep DEF Precheck, hist, TypeOK
  <2> QED BY <2>1, <2>3, <2>5, <2>6, <2>7, GotoStep DEF Precheck, hist
<1>3. CASE Fails(r, "release") /\ UNCHANGED task
  BY <1>1, <1>3, FailsAlone DEF Precheck, world
<1> QED BY <1>2, <1>3 DEF Precheck

LEMMA CheckedStep == ASSUME IInv, NEW r \in Procs, Checked(r) PROVE IInv'
<1>1. TypeOK /\ Working(r) /\ task \in Row
  BY DEF Checked, IInv, RunnersFine, PhaseFine, At, Runs, TypeOK
<1>2. CASE task.status = "PRECHECK_SUCCESS"
  <2>1. "preparing" \in Pc /\ "PREPARING" \in Statuses
    BY DEF Pc, Statuses
  <2>2. Goto(r, "preparing") /\ task' = With(task, "PREPARING")
    BY <1>2 DEF Checked, Put, GoOn
  <2>3. /\ Only(r) /\ SameWork(r) /\ SameRows(r)
        /\ proc'[r].pc = "preparing" /\ proc'[r].then = proc[r].then
    BY <1>1, <2>1, <2>2, GotoEffect
  <2>4. task' \in Row /\ task'.status = "PREPARING"
    BY <1>1, <2>1, <2>2, RowTypes, WithIs
  <2>5. TypeOK'
    BY <1>1, <2>3, <2>4, TypeStep DEF Checked, hist, TypeOK
  <2>6. PhaseFine(r)'
    BY <1>1, <2>3 DEF IInv, RunnersFine, PhaseFine, SameWork, Working, Runs, Handling
  <2>7. RunnersFine'
    <3>1. Phases'
      BY <2>3, <2>6, PhasesStep DEF IInv, RunnersFine, Phases
    <3>2. \A q \in Procs : Working(q)' => Working(q) /\ SameWork(q)
      BY <2>3 DEF Only, Same, SameWork, SameRows, Working
    <3> QED BY <2>5, <3>1, <3>2, KeptFine DEF IInv, Checked, hist
  <2>8. RowsFine'
    BY <2>3, <2>4 DEF IInv, RowsFine, RowFine, Only, Same, SameWork, SameRows
  <2>9. Preparers' \subseteq Preparers \cup {r} /\ ~Writes(r)'
    BY <2>3 DEF Preparers, Only, Same, SameWork, SameRows, At, Writes
  <2>10. \A q \in Procs : q # r => Writes(q)' = Writes(q) /\ Same(q)
    BY <2>3 DEF Only, Same, SameWork, SameRows, Writes, At
  <2>11. PreparedFine'
    <3> SUFFICES ASSUME ~overwrote
                 PROVE  /\ \A q \in Procs : Writes(q)' /\ proc'[q].to.status \in Before =>
                                             proc'[q].seen.status = "CREATED" /\ proc'[q].then # "sync"
                        /\ \A p, q \in Preparers' : p = q
                        /\ Preparers' # {} => target'.prepared = 0 /\ task'.status \notin Before
                        /\ task'.status \in Before => target'.prepared = 0
                        /\ target'.prepared <= 1
      BY DEF PreparedFine, Checked, hist
    <3>1. target' = target /\ target.prepared = 0 /\ Preparers = {}
      BY <1>2 DEF Checked, IInv, PreparedFine, Before
    <3>2. \A q \in Procs : Writes(q)' /\ proc'[q].to.status \in Before =>
                              proc'[q].seen.status = "CREATED" /\ proc'[q].then # "sync"
      BY <2>9, <2>10 DEF IInv, PreparedFine, Same, SameRows
    <3> QED BY <2>4, <2>9, <3>1, <3>2 DEF Before
  <2> QED BY <2>5, <2>7, <2>8, <2>11 DEF IInv
<1>3. CASE task.status # "PRECHECK_SUCCESS"
  BY <1>1, <1>3, FailsAlone DEF Checked, world
<1> QED BY <1>2, <1>3

\* The start position is stored later, with the row as it is now.
LEMMA PreparingStep == ASSUME IInv, NEW r \in Procs, Preparing(r) PROVE IInv'
<1>1. /\ TypeOK /\ Working(r) /\ task \in Row /\ results \in {"none", "good", "bad"}
      /\ r \in Preparers /\ "plan" \in Pc
  BY DEF Preparing, IInv, RunnersFine, PhaseFine, At, Runs, TypeOK, Preparers, Pc
<1>2. RowStep /\ UNCHANGED <<lease, overwrote, expired>> /\ target'.prepared = target.prepared
  BY RowStays DEF Preparing, world, hist
<1>3. CASE Goto(r, "plan")
  <2>1. /\ Only(r) /\ SameWork(r) /\ SameRows(r)
        /\ proc'[r].pc = "plan" /\ proc'[r].then = proc[r].then
    BY <1>1, <1>3, GotoEffect
  <2>2. TypeOK'
    BY <1>1, <2>1, TypeStep DEF Preparing, world, hist
  <2>3. PhaseFine(r)'
    BY <1>1, <2>1 DEF IInv, RunnersFine, PhaseFine, SameWork, Working, Runs, Handling
  <2>4. ProcStep(r)
    BY <2>1 DEF ProcStep, SameRows, Writes, At, IInv, RowsFine
  <2> QED BY <1>1, <1>2, <2>1, <2>2, <2>3, <2>4, ProcessStep
<1>4. CASE WillStore(r, task, "plan")
  <2>1. /\ Only(r) /\ SameWork(r) /\ proc'[r].pc = "store" /\ proc'[r].then = "plan"
        /\ proc'[r].seen = task /\ proc'[r].to = task
    BY <1>1, <1>4, WillStoreEffect
  <2>2. TypeOK'
    BY <1>1, <2>1, TypeStep DEF Preparing, world, hist
  <2>3. PhaseFine(r)'
    BY <1>1, <2>1 DEF IInv, RunnersFine, PhaseFine, SameWork, Working, Runs, Handling
  <2>4. ProcStep(r)
    BY <1>1, <2>1 DEF ProcStep, IInv, RowsFine, PreparedFine
  <2> QED BY <1>1, <1>2, <2>1, <2>2, <2>3, <2>4, ProcessStep
<1>5. CASE Fails(r, "release")
  BY <1>1, <1>5, FailsAlone DEF Preparing
<1> QED BY <1>3, <1>4, <1>5 DEF Preparing

\* The target is prepared by the one process that was going to.
LEMMA PlanStep == ASSUME IInv, NEW r \in Procs, Plan(r) PROVE IInv'
<1>1. TypeOK /\ Working(r) /\ r \in Preparers /\ "planned" \in Pc /\ "release" \in Pc
  BY DEF Plan, IInv, RunnersFine, PhaseFine, At, Runs, Preparers, Pc
<1>2. /\ Only(r) /\ SameWork(r) /\ SameRows(r)
      /\ \/ proc'[r].pc = "planned" /\ proc'[r].then = proc[r].then
         \/ proc'[r].pc = "fail" /\ proc'[r].then = "release"
  BY <1>1, GotoEffect, FailsEffect DEF Plan
<1>3. /\ target' \in [prepared : 0 .. 2, synced : BOOLEAN, finalized : BOOLEAN]
      /\ target'.prepared = IF target.prepared = 2 THEN 2 ELSE target.prepared + 1
  BY DEF Plan, IInv, TypeOK
<1>4. UNCHANGED <<task, lease, overwrote, expired>>
  BY DEF Plan, hist
<1>5. TypeOK'
  BY <1>2, <1>3 DEF Plan, IInv, TypeOK, Only, Same, SameWork, SameRows, cdc, hist
<1>6. RunnersFine'
  <2>1. PhaseFine(r)'
    BY <1>1, <1>2 DEF IInv, RunnersFine, PhaseFine, SameWork, Working, Runs, Handling
  <2>2. Phases'
    BY <1>2, <2>1, PhasesStep DEF IInv, RunnersFine, Phases
  <2>3. \A q \in Procs : Working(q)' => Working(q) /\ SameWork(q)
    BY <1>2 DEF Only, Same, SameWork, SameRows, Working
  <2> QED BY <1>4, <1>5, <2>2, <2>3, KeptFine DEF IInv
<1>7. RowsFine'
  BY <1>2, <1>4 DEF IInv, RowsFine, RowFine, Only, Same, SameWork, SameRows
<1>8. Preparers' \subseteq Preparers \ {r} /\ ~Writes(r)'
  BY <1>2 DEF Preparers, Only, Same, SameWork, SameRows, At, Writes
<1>9. \A q \in Procs : q # r => Writes(q)' = Writes(q) /\ Same(q)
  BY <1>2 DEF Only, Same, SameWork, SameRows, Writes, At
<1>10. PreparedFine'
  <2> SUFFICES ASSUME ~overwrote
               PROVE  /\ \A q \in Procs : Writes(q)' /\ proc'[q].to.status \in Before =>
                                           proc'[q].seen.status = "CREATED" /\ proc'[q].then # "sync"
                      /\ \A p, q \in Preparers' : p = q
                      /\ Preparers' # {} => target'.prepared = 0 /\ task'.status \notin Before
                      /\ task'.status \in Before => target'.prepared = 0
                      /\ target'.prepared <= 1
    BY <1>4 DEF PreparedFine
  <2>1. target.prepared = 0 /\ task.status \notin Before /\ Preparers' = {}
    BY <1>1, <1>8 DEF IInv, PreparedFine
  <2>2. target'.prepared = 1
    BY <1>3, <2>1
  <2> QED BY <1>4, <1>8, <1>9, <2>1, <2>2 DEF IInv, PreparedFine, Same, SameRows
<1> QED BY <1>5, <1>6, <1>7, <1>10 DEF IInv

\* A step that works on, with the row and the lease as they are.
LEMMA GoesOn ==
  ASSUME IInv, NEW p \in Procs, Working(p), Only(p), SameWork(p), SameRows(p),
         proc'[p].pc \in Runs \ {"preparing", "plan"}, proc'[p].then = proc[p].then,
         results' \in {"none", "good", "bad"},
         UNCHANGED <<setup, task, lease, current, cdc, target, hist, budget>>
  PROVE  IInv'
<1>1. task \in Row /\ proc'[p].pc \in Aside
  BY DEF IInv, TypeOK, Runs, Aside, Pc
<1>2. TypeOK'
  BY <1>1, TypeStep DEF IInv, hist
<1>3. PhaseFine(p)'
  BY DEF IInv, RunnersFine, PhaseFine, SameWork, Working, Runs, Handling
<1> QED BY <1>1, <1>2, <1>3, RowStays, GotoStep DEF hist

LEMMA DeleteResultsStep == ASSUME IInv, NEW r \in Procs, DeleteResults(r) PROVE IInv'
<1>1. Working(r) /\ "compare" \in Pc
  BY DEF DeleteResults, IInv, RunnersFine, PhaseFine, At, Runs, Pc
<1>2. /\ Only(r) /\ SameWork(r) /\ SameRows(r)
      /\ proc'[r].pc = "compare" /\ proc'[r].then = proc[r].then
  BY <1>1, GotoEffect DEF DeleteResults, IInv
<1> QED BY <1>1, <1>2, GoesOn DEF DeleteResults, Runs

LEMMA CompareStep == ASSUME IInv, NEW r \in Procs, Compare(r) PROVE IInv'
<1>1. /\ TypeOK /\ Working(r) /\ results \in {"none", "good", "bad"}
      /\ "finish" \in Pc /\ "release" \in Pc
  BY DEF Compare, IInv, RunnersFine, PhaseFine, At, Runs, TypeOK, Pc
<1>2. UNCHANGED <<setup, task, lease, current, cdc, target, hist, budget>>
  BY DEF Compare
<1>3. CASE Fails(r, "release") /\ UNCHANGED results
  BY <1>1, <1>2, <1>3, FailsAlone DEF world
<1>4. CASE (Goto(r, "finish") \/ Goto(r, "release")) /\ UNCHANGED results
  BY <1>1, <1>2, <1>4, GotoEffect, GoesOn DEF Runs
<1>5. CASE \E bad \in BOOLEAN :
             /\ results' = IF bad THEN "bad" ELSE "good"
             /\ proc' = [proc EXCEPT ![r].pc = "finish", ![r].bad = bad]
  <2>1. PICK bad \in BOOLEAN :
               /\ results' = IF bad THEN "bad" ELSE "good"
               /\ proc' = [proc EXCEPT ![r].pc = "finish", ![r].bad = bad]
    BY <1>5
  <2>2. /\ Only(r) /\ SameWork(r) /\ SameRows(r)
        /\ proc'[r].pc = "finish" /\ proc'[r].then = proc[r].then
    BY <1>1, <2>1 DEF TypeOK, Only, Same, SameWork, SameRows, Process
  <2> QED BY <1>1, <1>2, <2>1, <2>2, GoesOn DEF Runs
<1> QED BY <1>3, <1>4, <1>5 DEF Compare

LEMMA VerdictTypes ==
  ASSUME TypeOK, NEW r, NEW status \in Verdicts(r)
  PROVE  status \in Statuses /\ status \in {"CDC_CATCHING_UP", "FAILED", "FINISHED"}
BY DEF Verdicts, Statuses

LEMMA FinishStep == ASSUME IInv, NEW r \in Procs, Finish(r) PROVE IInv'
<1> DEFINE drifted == setup.mode # "FULL" /\ task.barrier # applied
<1>1. /\ TypeOK /\ Working(r) /\ task \in Row /\ results \in {"none", "good", "bad"}
      /\ "release" \in Pc
  BY DEF Finish, IInv, RunnersFine, PhaseFine, At, Runs, TypeOK, Pc
<1>2. UNCHANGED <<setup, task, lease, current, cdc, target, hist, budget>>
  BY DEF Finish
<1>3. CASE proc[r].cancelled
  <2>1. Goto(r, "release") /\ UNCHANGED results
    BY <1>3 DEF Finish
  <2> QED BY <1>1, <1>2, <2>1, GotoEffect, GoesOn DEF Runs
<1>4. CASE ~proc[r].cancelled
  <2> DEFINE Row1(status) == [With(task, status) EXCEPT !.barrier = IF drifted THEN NoBarrier ELSE @]
  <2>1. /\ results' = IF drifted THEN "none" ELSE results
        /\ \E status \in Verdicts(r) : WillStore(r, Row1(status), "release")
    BY <1>4 DEF Finish
  <2>2. PICK status \in Verdicts(r) : WillStore(r, Row1(status), "release")
    BY <2>1
  <2>3. Row1(status) \in Row /\ Row1(status).status \in {"CDC_CATCHING_UP", "FAILED", "FINISHED"}
    <3>1. With(task, status) \in Row /\ With(task, status).status = status
      BY <1>1, VerdictTypes, RowTypes, WithIs
    <3> QED BY <1>1, <3>1, VerdictTypes DEF Row
  <2> HIDE DEF Row1
  <2>4. /\ Only(r) /\ SameWork(r) /\ proc'[r].pc = "store" /\ proc'[r].then = "release"
        /\ proc'[r].seen = task /\ proc'[r].to = Row1(status)
    BY <1>1, <2>2, <2>3, WillStoreEffect
  <2>5. TypeOK'
    BY <1>1, <1>2, <2>1, <2>4, TypeStep DEF hist
  <2>6. PhaseFine(r)'
    BY <1>1, <2>4 DEF IInv, RunnersFine, PhaseFine, SameWork, Working, Runs, Handling
  <2>7. ProcStep(r)
    BY <2>3, <2>4 DEF ProcStep, IInv, RowsFine, RowFine, Before
  <2>8. r \notin Preparers'
    BY <2>4 DEF Preparers, At
  <2> QED BY <1>2, <2>4, <2>5, <2>6, <2>7, <2>8, RowStays, ProcessStep DEF hist
<1> QED BY <1>3, <1>4

LEMMA AfterPlanningIs ==
  ASSUME NEW empty \in BOOLEAN
  PROVE  AfterPlanning(empty) \in Statuses \ (Before \cup {"PAUSED"})
BY DEF AfterPlanning, Statuses, Before

LEMMA PlannedStep == ASSUME IInv, NEW r \in Procs, Planned(r) PROVE IInv'
<1>1. /\ TypeOK /\ Working(r) /\ task \in Row /\ results \in {"none", "good", "bad"}
      /\ "release" \in Pc
  BY DEF Planned, IInv, RunnersFine, PhaseFine, At, Runs, TypeOK, Pc
<1>2. UNCHANGED <<setup, results, lease, current, reverse, captured, applied, behind, target, hist>>
  BY DEF Planned
<1>3. CASE task.status = "PREPARING"
  <2>1. PICK empty \in BOOLEAN :
          task' = [With(task, AfterPlanning(empty)) EXCEPT !.empty = empty]
    BY <1>3 DEF Planned
  <2> DEFINE row == [With(task, AfterPlanning(empty)) EXCEPT !.empty = empty]
  <2>2. row \in Row /\ row.status = AfterPlanning(empty)
    <3>1. /\ With(task, AfterPlanning(empty)) \in Row
          /\ With(task, AfterPlanning(empty)).status = AfterPlanning(empty)
      BY <1>1, AfterPlanningIs, RowTypes, WithIs
    <3> QED BY <3>1 DEF Row
  <2>3. task' = row
    BY <2>1
  <2> HIDE DEF row
  <2>4. Goto(r, "release") \/ Fails(r, "release")
    BY <1>3 DEF Planned
  <2>5. forward' \in Job /\ budget' \in [commands : Nat, faults : Nat]
    BY <1>1, SpendType DEF Planned, Ensured, TypeOK, Job
  <2>6. TypeOK'
    <3>1. Only(r)
      BY <1>1, <2>4, GotoEffect, FailsEffect
    <3> QED BY <1>1, <1>2, <2>2, <2>3, <2>5, <3>1 DEF TypeOK, Only, hist
  <2>7. RowStep /\ "release" \in Aside
    BY <2>2, <2>3, AfterPlanningIs, RowAdvances DEF Aside, Pc
  <2>8. CASE Goto(r, "release")
    <3>1. /\ Only(r) /\ SameWork(r) /\ SameRows(r)
          /\ proc'[r].pc = "release" /\ proc'[r].then = proc[r].then
      BY <1>1, <2>8, GotoEffect
    <3>2. PhaseFine(r)'
      BY <1>1, <3>1 DEF IInv, RunnersFine, PhaseFine, SameWork, Working, Runs, Handling
    <3> QED BY <1>2, <2>6, <2>7, <3>1, <3>2, GotoStep DEF hist
  <2>9. CASE Fails(r, "release")
    BY <1>1, <1>2, <2>6, <2>7, <2>9, FailsStep DEF hist
  <2> QED BY <2>4, <2>8, <2>9
<1>4. CASE task.status # "PREPARING"
  BY <1>1, <1>4, FailsAlone DEF Planned, world, cdc
<1> QED BY <1>3, <1>4

-----------------------------------------------------------------------------
(***************************************************************************)
(* How runners start, fail and end.                                        *)
(***************************************************************************)
LEMMA FailStep == ASSUME IInv, NEW p \in Procs, Fail(p) PROVE IInv'
<1>1. /\ TypeOK /\ task \in Row /\ results \in {"none", "good", "bad"}
      /\ "release" \in Pc /\ "release" \in Aside /\ "FAILED" \in Statuses
      /\ proc[p].then \in {"idle", "release"} /\ (proc[p].then = "release" => Working(p))
  BY DEF Fail, IInv, RunnersFine, PhaseFine, At, TypeOK, Pc, Aside, Statuses
<1>2. UNCHANGED <<setup, results, lease, current, cdc, target, hist, budget>>
  BY DEF Fail
<1>3. GoOn(p, proc[p].then) /\ (task' = task \/ task' = With(task, "FAILED"))
  BY DEF Fail, Put
<1>4. task' \in Row /\ RowStep
  <2>1. CASE task' = task
    BY <1>1, <2>1, RowStays
  <2>2. CASE task' = With(task, "FAILED")
    <3>1. task' \in Row /\ task'.status = "FAILED"
      BY <1>1, <2>2, RowTypes, WithIs
    <3> QED BY <3>1, RowAdvances DEF Before
  <2> QED BY <1>3, <2>1, <2>2
<1>5. CASE proc[p].then = "idle"
  <2>1. Ends(p)
    BY <1>3, <1>5 DEF GoOn
  <2>2. Only(p)
    BY <1>1, <2>1, EndsEffect
  <2>3. TypeOK'
    BY <1>1, <1>2, <1>4, <2>2, TypeStep DEF hist
  <2> QED BY <1>2, <1>4, <2>1, <2>3, EndsStep DEF hist
<1>6. CASE proc[p].then = "release"
  <2>1. Goto(p, "release")
    BY <1>3, <1>6 DEF GoOn
  <2>2. /\ Only(p) /\ SameWork(p) /\ SameRows(p)
        /\ proc'[p].pc = "release" /\ proc'[p].then = proc[p].then
    BY <1>1, <2>1, GotoEffect
  <2>3. TypeOK'
    BY <1>1, <1>2, <1>4, <2>2, TypeStep DEF hist
  <2>4. PhaseFine(p)'
    BY <1>1, <1>6, <2>2 DEF IInv, RunnersFine, PhaseFine, SameWork, Working, Runs, Handling
  <2> QED BY <1>1, <1>2, <1>4, <2>2, <2>3, <2>4, GotoStep DEF hist
<1> QED BY <1>1, <1>5, <1>6

\* The end of one's work, whatever becomes of the lease.
LEMMA ReleaseStep == ASSUME IInv, NEW p \in Procs, Release(p) PROVE IInv'
<1>1. /\ TypeOK /\ Working(p) /\ task \in Row
      /\ "revalidate" \in Pc /\ "revalidate" \in Aside /\ "none" \in Operation
  BY DEF Release, IInv, RunnersFine, PhaseFine, At, Runs, TypeOK, Pc, Aside, Operation
<1>2. UNCHANGED <<setup, task, results, cdc, target, hist>>
  BY DEF Release
<1>3. /\ Only(p) /\ proc'[p].op = "none"
      /\ \/ /\ proc'[p].pc = "revalidate" /\ SameRows(p) /\ proc'[p].then = proc[p].then
         \/ /\ proc'[p].pc = "idle" /\ proc'[p].then = "idle"
            /\ proc'[p].seen = NewRow /\ proc'[p].to = NewRow
  <2>1. CASE p \in Runners /\ proc[p].op = "prepare"
    <3>1. proc' = [proc EXCEPT ![p].pc = "revalidate", ![p].op = "none"]
      BY <2>1 DEF Release
    <3> QED BY <1>1, <3>1 DEF TypeOK, Only, Same, SameWork, SameRows, Process
  <2>2. CASE ~(p \in Runners /\ proc[p].op = "prepare")
    BY <1>1, <2>2, EndsEffect DEF Release
  <2> QED BY <2>1, <2>2
<1>4. /\ lease' \in [op : Operation, owner : Servers \cup {NoServer}, live : BOOLEAN]
      /\ current' \in [Servers -> Runners \cup {NoRunner}]
      /\ budget' \in [commands : Nat, faults : Nat]
  <2>1. lease' \in [op : Operation, owner : Servers \cup {NoServer}, live : BOOLEAN]
    <3>1. lease \in [op : Operation, owner : Servers \cup {NoServer}, live : BOOLEAN]
      BY <1>1 DEF TypeOK
    <3>2. NoLease \in [op : Operation, owner : Servers \cup {NoServer}, live : BOOLEAN]
      BY <1>1 DEF NoLease
    <3>3. lease' = lease \/ lease' = NoLease
      BY DEF Release, Released
    <3> QED BY <3>1, <3>2, <3>3
  <2>2. current' \in [Servers -> Runners \cup {NoRunner}]
    <3>1. current \in [Servers -> Runners \cup {NoRunner}]
      BY <1>1 DEF TypeOK
    <3>2. current' = current \/ current' = [current EXCEPT ![proc[p].server] = NoRunner]
      BY DEF Release
    <3> QED BY <3>1, <3>2
  <2>3. budget' \in [commands : Nat, faults : Nat]
    BY <1>1, SpendType DEF Release, TypeOK
  <2> QED BY <2>1, <2>2, <2>3
<1>5. TypeOK'
  BY <1>2, <1>3, <1>4 DEF IInv, TypeOK, Only, Same, SameWork, SameRows, cdc, hist
<1>6. PhaseFine(p)'
  BY <1>3 DEF IInv, RunnersFine, PhaseFine, Working, Runs, Handling
<1>7. RunnersFine'
  <2>1. Phases'
    BY <1>3, <1>6, PhasesStep DEF IInv, RunnersFine, Phases
  <2>2. AtWork' \subseteq AtWork /\ AtWork' # AtWork
    BY <1>1, <1>3 DEF AtWork, Only, Same, SameWork, SameRows, Working
  <2> QED BY <1>2, <1>5, <2>1, <2>2, FewerFine DEF IInv, hist
<1>8. ~Writes(p)' /\ p \notin Preparers'
  BY <1>3 DEF Writes, Preparers, At
<1>9. ProcStep(p)
  BY <1>3, <1>8 DEF ProcStep, SameRows, IInv, RowsFine, RowFine, NewRow
<1>10. RowsFine' /\ PreparedFine'
  BY <1>2, <1>3, <1>8, <1>9, RowStays, PreparedStep DEF hist
<1> QED BY <1>5, <1>7, <1>10 DEF IInv

\* A runner is installed by process p, which is done.
Installed(p, s, op, pc) ==
  /\ proc' \in [Procs -> Process] /\ current' \in [Servers -> Runners \cup {NoRunner}]
  /\ \E new \in Runners :
       /\ new = p \/ ~Working(new)
       /\ proc'[new].op = op /\ proc'[new].server = s /\ proc'[new].pc = pc
       /\ proc'[new].then = "idle" /\ proc'[new].seen = NewRow /\ proc'[new].to = NewRow
       /\ new # p => /\ proc'[p].op = "none" /\ proc'[p].pc = "idle" /\ proc'[p].then = "idle"
                     /\ proc'[p].seen = NewRow /\ proc'[p].to = NewRow
       /\ \A q \in Procs \ {new, p} : Same(q)

LEMMA InstallEffect ==
  ASSUME IInv, NEW p \in Procs, NEW s \in Servers \cup {NoServer},
         NEW op \in Operation, NEW pc \in Pc, Install(After(p, Rest(p)), s, op, pc)
  PROVE  Installed(p, s, op, pc)
<1> DEFINE after == After(p, Rest(p))
           new == CHOOSE r \in Runners : after[r].pc = "idle"
           first == [Idle(s) EXCEPT !.op = op, !.pc = pc]
<1>1. after \in [Procs -> Process] /\ after[p] = Rest(p) /\ \A q \in Procs \ {p} : after[q] = proc[q]
  BY RestType DEF After, IInv, TypeOK
<1>2. new \in Runners /\ after[new].pc = "idle"
  BY DEF Install
<1>3. /\ proc' = [q \in Procs |->
                  IF q = new THEN first
                  ELSE IF q = current[s] THEN [after[q] EXCEPT !.cancelled = TRUE] ELSE after[q]]
      /\ current' = [current EXCEPT ![s] = new]
  BY DEF Install
<1>4. Idle(s) \in Process /\ Idle(s).then = "idle" /\ Idle(s).seen = NewRow /\ Idle(s).to = NewRow
      /\ Idle(s).server = s
  BY RestType DEF Idle
<1>5. /\ first \in Process /\ first.op = op /\ first.server = s /\ first.pc = pc
      /\ first.then = "idle" /\ first.seen = NewRow /\ first.to = NewRow
  BY <1>4 DEF Process
<1>6. new \in Procs /\ (new = p \/ ~Working(new))
  <2>1. new \in Procs
    BY <1>2 DEF Procs
  <2> QED BY <1>1, <1>2, <2>1 DEF IInv, RunnersFine, PhaseFine, At
<1> HIDE DEF after, new, first
<1>7. ASSUME NEW q \in Procs, q # new
      PROVE  LET y == proc'[q]
                 x == after[q]
             IN  /\ y \in Process /\ y.op = x.op /\ y.server = x.server /\ y.pc = x.pc
                 /\ y.then = x.then /\ y.seen = x.seen /\ y.to = x.to
  <2>1. after[q] \in Process
    BY <1>1
  <2>2. proc'[q] = [after[q] EXCEPT !.cancelled = TRUE] \/ proc'[q] = after[q]
    BY <1>3, <1>7
  <2> QED BY <2>1, <2>2 DEF Process
<1>8. proc'[new] = first
  BY <1>3, <1>6
<1>9. proc' \in [Procs -> Process]
  BY <1>3, <1>5, <1>7, <1>8
<1>10. current' \in [Servers -> Runners \cup {NoRunner}]
  BY <1>2, <1>3 DEF IInv, TypeOK
<1>11. new # p => /\ proc'[p].op = "none" /\ proc'[p].pc = "idle" /\ proc'[p].then = "idle"
                 /\ proc'[p].seen = NewRow /\ proc'[p].to = NewRow
  BY <1>1, <1>7, RestIs
<1>12. \A q \in Procs \ {new, p} : Same(q)
  BY <1>1, <1>7 DEF Same, SameWork, SameRows
<1> QED BY <1>2, <1>5, <1>6, <1>8, <1>9, <1>10, <1>11, <1>12 DEF Installed

\* What installing a runner does to everything but the lease.
LEMMA InstalledFine ==
  ASSUME IInv, NEW p \in Procs, NEW s \in Servers \cup {NoServer},
         NEW op \in Operation \ {"none"}, NEW pc \in {"precheck", "delete"},
         Installed(p, s, op, pc), UNCHANGED <<task, target, overwrote>>
  PROVE  Phases' /\ RowsFine' /\ PreparedFine'
<1>1. PICK new \in Runners :
       /\ proc'[new].op = op /\ proc'[new].server = s /\ proc'[new].pc = pc
       /\ proc'[new].then = "idle" /\ proc'[new].seen = NewRow /\ proc'[new].to = NewRow
       /\ new # p => /\ proc'[p].op = "none" /\ proc'[p].pc = "idle" /\ proc'[p].then = "idle"
                     /\ proc'[p].seen = NewRow /\ proc'[p].to = NewRow
       /\ \A q \in Procs \ {new, p} : Same(q)
  BY DEF Installed
<1>2. new \in Procs
  BY DEF Procs
<1>3. Phases'
  <2>1. PhaseFine(new)'
    BY <1>1 DEF PhaseFine, Working, Runs, Handling
  <2>2. new # p => PhaseFine(p)'
    BY <1>1 DEF PhaseFine, Working, Runs, Handling
  <2>3. \A q \in Procs \ {new, p} : PhaseFine(q)'
    BY <1>1 DEF IInv, RunnersFine, PhaseFine, Working, Same, SameWork
  <2> QED BY <2>1, <2>2, <2>3 DEF Phases
<1>4. RowsFine'
  BY <1>1 DEF IInv, RowsFine, RowFine, NewRow, Same, SameRows
<1>5. Preparers' \subseteq Preparers /\ \A q \in Procs : Writes(q)' => Writes(q) /\ Same(q)
  BY <1>1 DEF Preparers, Writes, At, Same, SameRows
<1>6. PreparedFine'
  BY <1>5 DEF IInv, PreparedFine, Same, SameRows
<1> QED BY <1>3, <1>4, <1>6

LEMMA TakeAndInstall ==
  ASSUME IInv, NEW p \in Procs, NEW s \in Servers \cup {NoServer},
         NEW op \in Operation \ {"none"}, NEW pc \in {"precheck", "delete"},
         Acquire(op, s), Install(After(p, Rest(p)), s, op, pc),
         UNCHANGED <<setup, task, results, cdc, target, hist, budget>>
  PROVE  IInv'
<1>1. pc \in Pc /\ Installed(p, s, op, pc)
  BY InstallEffect DEF Pc
<1>2. ~lease.live /\ lease' = [op |-> op, owner |-> s, live |-> TRUE]
  BY DEF Acquire, Obtainable
<1>3. TypeOK'
  BY <1>1, <1>2 DEF IInv, TypeOK, Installed, cdc, hist
<1>4. RunnersFine'
  <2>1. PICK new \in Runners :
          /\ proc'[new].op = op /\ proc'[new].server = s
          /\ new # p => proc'[p].op = "none"
          /\ \A q \in Procs \ {new, p} : SameWork(q)
    BY <1>1 DEF Installed, Same
  <2>2. new \in Procs
    BY DEF Procs
  <2>3. AtWork' \subseteq AtWork \cup {new} /\ new \in AtWork'
    BY <2>1, <2>2 DEF AtWork, Working, SameWork
  <2> QED BY <1>1, <1>2, <1>3, <2>1, <2>2, <2>3, InstalledFine, TakenFine DEF IInv, hist
<1> QED BY <1>1, <1>3, <1>4, InstalledFine DEF IInv, hist

LEMMA StartValidationStep ==
  ASSUME IInv, NEW p \in Procs, StartValidation(p),
         UNCHANGED <<setup, task, results, cdc, target, hist, budget>>
  PROVE  IInv'
<1>1. proc[p].server \in Servers \cup {NoServer}
  BY DEF IInv, TypeOK, Process
<1>2. CASE ~Obtainable(proc[p].server)
  <2>1. CASE p \in Runners
    BY <1>2, <2>1, FailsAlone DEF StartValidation, world
  <2>2. CASE p \notin Runners
    BY <1>2, <2>2, EndsAlone DEF StartValidation, world
  <2> QED BY <2>1, <2>2
<1>3. CASE Obtainable(proc[p].server)
  BY <1>1, <1>3, TakeAndInstall DEF StartValidation, Operation
<1> QED BY <1>2, <1>3

LEMMA RevalidateStep == ASSUME IInv, NEW r \in Procs, Revalidate(r) PROVE IInv'
<1>1. CASE task.status = "VALIDATING"
  BY <1>1, StartValidationStep DEF Revalidate
<1>2. CASE task.status # "VALIDATING"
  BY <1>2, EndsAlone DEF Revalidate, world
<1> QED BY <1>1, <1>2

LEMMA ValidateStep == ASSUME IInv, NEW p \in Procs, Validate(p) PROVE IInv'
BY StartValidationStep DEF Validate

-----------------------------------------------------------------------------
(***************************************************************************)
(* The lease, crashes, and what a process stores.                          *)
(***************************************************************************)
Resting(p) == /\ proc'[p].op = "none" /\ proc'[p].pc = "idle" /\ proc'[p].then = "idle"
              /\ proc'[p].seen = NewRow /\ proc'[p].to = NewRow

\* Processes go on where they are, or end.
LEMMA SomeEnd ==
  ASSUME IInv, \A q \in Procs : Same(q) \/ Resting(q), RowStep,
         overwrote' = overwrote, target'.prepared = target.prepared
  PROVE  Phases' /\ RowsFine' /\ PreparedFine' /\ AtWork' \subseteq AtWork
<1>1. Phases'
  <2> SUFFICES ASSUME NEW q \in Procs PROVE PhaseFine(q)'
    BY DEF Phases
  <2>1. CASE Same(q)
    BY <2>1 DEF IInv, RunnersFine, PhaseFine, Same, SameWork, Working
  <2>2. CASE Resting(q)
    BY <2>2 DEF Resting, PhaseFine, Working, Runs, Handling
  <2> QED BY <2>1, <2>2
<1>2. RowsFine'
  BY DEF IInv, RowsFine, RowFine, RowStep, NewRow, Resting, Same, SameRows
<1>3. Preparers' \subseteq Preparers
  BY DEF Preparers, At, Same, Resting
<1>4. \A q \in Procs : Writes(q)' => Writes(q) /\ Same(q)
  BY DEF Writes, At, Same, Resting, SameRows
<1>5. PreparedFine'
  <2> SUFFICES ASSUME ~overwrote
               PROVE  /\ \A q \in Procs : Writes(q)' /\ proc'[q].to.status \in Before =>
                                           proc'[q].seen.status = "CREATED" /\ proc'[q].then # "sync"
                      /\ \A q, r \in Preparers' : q = r
                      /\ Preparers' # {} => target'.prepared = 0 /\ task'.status \notin Before
                      /\ task'.status \in Before => target'.prepared = 0
                      /\ target'.prepared <= 1
    BY DEF PreparedFine
  <2> QED BY <1>3, <1>4 DEF IInv, PreparedFine, RowStep, Same, SameRows
<1>6. AtWork' \subseteq AtWork
  BY DEF AtWork, Working, Same, SameWork, Resting
<1> QED BY <1>1, <1>2, <1>5, <1>6

\* Nothing of the processes and of the lease changes but that one may be cancelled.
LEMMA AllSame ==
  ASSUME IInv, TypeOK', \A q \in Procs : Same(q), RowStep,
         UNCHANGED <<lease, overwrote, expired>>, target'.prepared = target.prepared
  PROVE  IInv'
<1>1. Phases' /\ RowsFine' /\ PreparedFine'
  BY SomeEnd
<1>2. \A q \in Procs : Working(q)' => Working(q) /\ SameWork(q)
  BY DEF Same, Working, SameWork
<1> QED BY <1>1, <1>2, KeptFine DEF IInv

LEMMA StillSame == ASSUME UNCHANGED proc PROVE \A q \in Procs : Same(q)
BY DEF Same, SameWork, SameRows

LEMMA RenewStep == ASSUME IInv, NEW r \in Procs, Renew(r) PROVE IInv'
<1>1. UNCHANGED <<setup, task, results, current, cdc, target, hist, budget>> /\ RowStep
  BY RowStays DEF Renew
<1>2. CASE lease.op = proc[r].op /\ lease.owner = proc[r].server
  <2>1. ~lease.live /\ lease' = [lease EXCEPT !.live = TRUE] /\ UNCHANGED proc
    BY <1>2 DEF Renew
  <2>2. TypeOK'
    BY <1>1, <2>1 DEF IInv, TypeOK, cdc, hist
  <2>3. Phases' /\ RowsFine' /\ PreparedFine' /\ AtWork' \subseteq AtWork
    BY <1>1, <2>1, StillSame, SomeEnd DEF hist
  <2> QED BY <1>1, <2>1, <2>2, <2>3, FewerFine DEF Holding, IInv, hist
<1>3. CASE ~(lease.op = proc[r].op /\ lease.owner = proc[r].server)
  <2>1. proc' = [proc EXCEPT ![r].cancelled = TRUE] /\ UNCHANGED lease
    BY <1>3 DEF Renew
  <2>2. proc' \in [Procs -> Process] /\ \A q \in Procs : Same(q)
    BY <2>1 DEF IInv, TypeOK, Process, Same, SameWork, SameRows
  <2>3. TypeOK'
    BY <1>1, <2>1, <2>2 DEF IInv, TypeOK, cdc, hist
  <2> QED BY <1>1, <2>1, <2>2, <2>3, AllSame DEF hist
<1> QED BY <1>2, <1>3

LEMMA ExpireHeldStep == ASSUME IInv, ExpireHeld PROVE IInv'
<1>1. /\ UNCHANGED <<setup, task, results, proc, current, cdc, target, overwrote>> /\ RowStep
      /\ lease' = [lease EXCEPT !.live = FALSE] /\ expired' = expired + 1
      /\ budget' \in [commands : Nat, faults : Nat]
  BY RowStays, SpendType DEF ExpireHeld, Expired, IInv
<1>2. TypeOK'
  <2>1. lease' \in [op : Operation, owner : Servers \cup {NoServer}, live : BOOLEAN]
    BY <1>1 DEF IInv, TypeOK
  <2>2. expired' \in Nat
    BY <1>1 DEF IInv, TypeOK
  <2> QED BY <1>1, <2>1, <2>2 DEF IInv, TypeOK, cdc
<1>3. Phases' /\ RowsFine' /\ PreparedFine'
  BY <1>1, StillSame, SomeEnd
<1>4. AtWork' = AtWork /\ ~Holding'
  BY <1>1 DEF AtWork, Working, Holding, IInv, TypeOK
<1> QED BY <1>1, <1>2, <1>3, <1>4, Count DEF IInv, RunnersFine, Phases, Allowance

LEMMA ExpireAbandonedStep == ASSUME IInv, ExpireAbandoned PROVE IInv'
<1>1. /\ UNCHANGED <<setup, task, results, proc, current, cdc, target, hist, budget>> /\ RowStep
      /\ lease' = [lease EXCEPT !.live = FALSE] /\ ~Holding
  BY RowStays DEF ExpireAbandoned, Expired, Holding
<1>2. TypeOK'
  BY <1>1 DEF IInv, TypeOK, cdc, hist
<1>3. Phases' /\ RowsFine' /\ PreparedFine' /\ AtWork' \subseteq AtWork
  BY <1>1, StillSame, SomeEnd DEF hist
<1> QED BY <1>1, <1>2, <1>3, FewerFine DEF IInv, hist

LEMMA CrashStep == ASSUME IInv, NEW s \in Servers, Crash(s) PROVE IInv'
<1>1. /\ UNCHANGED <<setup, task, results, cdc, target, hist>> /\ RowStep
      /\ proc' = [p \in Procs |-> IF proc[p].server = s THEN Rest(p) ELSE proc[p]]
      /\ lease' = IF lease.owner = s THEN [lease EXCEPT !.owner = NoServer] ELSE lease
      /\ current' = [current EXCEPT ![s] = NoRunner]
      /\ budget' \in [commands : Nat, faults : Nat]
  BY RowStays, SpendType DEF Crash, IInv
<1>2. TypeOK'
  BY <1>1, RestType DEF IInv, TypeOK, cdc, hist
<1>3. \A q \in Procs : IF proc[q].server = s THEN Resting(q) ELSE proc'[q] = proc[q]
  BY <1>1, RestIs DEF Resting
<1>4. \A q \in Procs : Same(q) \/ Resting(q)
  BY <1>3 DEF Same, SameWork, SameRows
<1>5. Phases' /\ RowsFine' /\ PreparedFine' /\ AtWork' \subseteq AtWork
  BY <1>1, <1>4, SomeEnd DEF hist
<1>6. RunnersFine'
  <2>1. CASE AtWork' # AtWork \/ ~Holding
    BY <1>1, <1>2, <1>5, <2>1, FewerFine DEF IInv, hist
  <2>2. CASE AtWork' = AtWork /\ Holding
    <3>1. PICK q \in Procs : Working(q) /\ proc[q].op = lease.op /\ proc[q].server = lease.owner
      BY <2>2 DEF Holding, Held
    <3>2. Working(q)'
      BY <2>2, <3>1 DEF AtWork
    <3>3. proc'[q] = proc[q] /\ lease' = lease
      BY <1>1, <1>3, <3>1, <3>2 DEF Resting, Working
    <3>4. Holding'
      BY <2>2, <3>1, <3>3 DEF Holding, Held, Working
    <3> QED BY <1>1, <1>5, <2>2, <3>4 DEF IInv, RunnersFine, Phases, Allowance, hist
  <2> QED BY <2>1, <2>2
<1> QED BY <1>2, <1>5, <1>6 DEF IInv

LEMMA StoreRowEffect ==
  ASSUME TypeOK, NEW p \in Procs, proc[p].then \in Pc, StoreRow(p)
  PROVE  /\ Only(p) /\ proc'[p].pc = proc[p].then
         /\ IF proc[p].then = "idle" THEN Resting(p)
            ELSE /\ SameWork(p) /\ proc'[p].then = proc[p].then
                 /\ proc'[p].seen = proc'[p].to
                 /\ proc'[p].to = IF p \in Calls THEN proc[p].to ELSE NewRow
<1> DEFINE then == proc[p].then
           rows == IF p \in Calls THEN proc[p].to ELSE NewRow
           next == [proc[p] EXCEPT !.pc = then, !.seen = rows, !.to = rows]
<1>1. CASE then = "idle"
  BY <1>1, EndsEffect DEF StoreRow, Resting
<1>2. CASE then # "idle"
  <2>1. proc' = [proc EXCEPT ![p] = next]
    BY <1>2 DEF StoreRow, TypeOK
  <2>2. proc[p] \in Process /\ rows \in Row
    BY RowTypes DEF TypeOK, Process
  <2>3. /\ next \in Process /\ next.op = proc[p].op /\ next.server = proc[p].server
        /\ next.pc = then /\ next.then = then /\ next.seen = rows /\ next.to = rows
    BY <2>2 DEF Process
  <2> HIDE DEF next
  <2> QED BY <1>2, <2>1, <2>3 DEF TypeOK, Only, Same, SameWork, SameRows
<1> QED BY <1>1, <1>2

\* A stored row is newer than the one it replaces, unless it overwrote one.
LEMMA StoreRowStep == ASSUME IInv, NEW p \in Procs, StoreRow(p) PROVE IInv'
<1> DEFINE then == proc[p].then
<1>1. /\ TypeOK /\ proc[p].pc = "store" /\ proc[p].to \in Row /\ RowFine(proc[p].to)
      /\ then \in {"idle", "plan", "release", "launch", "ensure", "validate", "sync"}
      /\ then \in {"plan", "release"} => Working(p)
      /\ then = "launch" => p \in Calls /\ proc[p].op = "prepare"
      /\ then \in {"sync", "ensure"} => p \in Calls
  BY DEF StoreRow, At, IInv, RunnersFine, PhaseFine, RowsFine, TypeOK, Process
<1>2. /\ UNCHANGED <<setup, results, lease, current, cdc, target, expired, budget>>
      /\ task' = proc[p].to /\ overwrote' = (overwrote \/ task # proc[p].seen)
  BY DEF StoreRow
<1>3. /\ Only(p) /\ (SameWork(p) \/ ~Working(p)') /\ PhaseFine(p)'
      /\ RowFine(proc'[p].seen) /\ RowFine(proc'[p].to)
      /\ p \in Preparers' => p \in Preparers
      /\ Writes(p)' => then = "sync" /\ proc'[p].to = proc[p].to
  <2>1. then \in Pc
    BY <1>1 DEF Pc
  <2>2. CASE then = "idle"
    <3>1. Only(p) /\ Resting(p)
      BY <1>1, <2>1, <2>2, StoreRowEffect
    <3>2. PhaseFine(p)' /\ ~Writes(p)' /\ p \notin Preparers'
      BY <3>1 DEF Resting, PhaseFine, Working, Runs, Handling, Writes, Preparers, At
    <3>3. RowFine(proc'[p].seen) /\ RowFine(proc'[p].to) /\ ~Working(p)'
      BY <3>1 DEF Resting, RowFine, NewRow, Working
    <3> QED BY <3>1, <3>2, <3>3
  <2>3. CASE then # "idle"
    <3>1. /\ Only(p) /\ SameWork(p) /\ proc'[p].pc = then /\ proc'[p].then = then
          /\ proc'[p].seen = proc'[p].to
          /\ proc'[p].to = IF p \in Calls THEN proc[p].to ELSE NewRow
      BY <1>1, <2>1, <2>3, StoreRowEffect
    <3>2. PhaseFine(p)'
      BY <1>1, <2>3, <3>1 DEF PhaseFine, SameWork, Working, Runs, Handling
    <3>3. Writes(p)' => then = "sync" /\ proc'[p].to = proc[p].to
      BY <1>1, <3>1 DEF Writes, At
    <3>4. p \in Preparers' => p \in Preparers
      BY <1>1, <3>1 DEF Preparers, At
    <3>5. RowFine(proc'[p].seen) /\ RowFine(proc'[p].to)
      BY <1>1, <3>1 DEF RowFine, NewRow
    <3> QED BY <3>1, <3>2, <3>3, <3>4, <3>5
  <2> QED BY <2>2, <2>3
<1> HIDE DEF then
<1>4. TypeOK'
  BY <1>1, <1>2, <1>3 DEF TypeOK, Only, cdc
<1>5. RunnersFine'
  <2>1. Phases'
    BY <1>3, PhasesStep DEF IInv, RunnersFine, Phases
  <2>2. \A q \in Procs : Working(q)' => Working(q) /\ SameWork(q)
    BY <1>3 DEF Only, Same, Working, SameWork
  <2> QED BY <1>1, <1>2, <1>4, <2>1, <2>2, KeptFine DEF IInv
<1>6. RowsFine'
  BY <1>1, <1>2, <1>3 DEF IInv, RowsFine, RowFine, Only, Same, SameRows
<1>7. Preparers' \subseteq Preparers
  BY <1>3 DEF Preparers, Only, Same, At
<1>8. \A q \in Procs : q # p => Writes(q)' = Writes(q) /\ Same(q)
  BY <1>3 DEF Only, Same, Writes, At, SameRows
<1>9. PreparedFine'
  <2> SUFFICES ASSUME ~overwrote'
               PROVE  /\ \A q \in Procs : Writes(q)' /\ proc'[q].to.status \in Before =>
                                           proc'[q].seen.status = "CREATED" /\ proc'[q].then # "sync"
                      /\ \A q, r \in Preparers' : q = r
                      /\ Preparers' # {} => target'.prepared = 0 /\ task'.status \notin Before
                      /\ task'.status \in Before => target'.prepared = 0
                      /\ target'.prepared <= 1
    BY DEF PreparedFine
  <2>1. ~overwrote /\ task = proc[p].seen /\ target' = target
    BY <1>2
  <2>2. task'.status \in Before => task.status \in Before /\ then # "sync"
    BY <1>1, <1>2, <2>1 DEF IInv, PreparedFine, Writes, then, Before
  <2>3. \A q \in Procs : Writes(q)' /\ proc'[q].to.status \in Before =>
                            proc'[q].seen.status = "CREATED" /\ proc'[q].then # "sync"
    BY <1>2, <1>3, <1>8, <2>1, <2>2 DEF IInv, PreparedFine, Same, SameRows
  <2> QED BY <1>7, <2>1, <2>2, <2>3 DEF IInv, PreparedFine
<1> QED BY <1>4, <1>5, <1>6, <1>9 DEF IInv

LEMMA AcquireStartStep == ASSUME IInv, NEW c \in Procs, AcquireStart(c) PROVE IInv'
<1>1. /\ UNCHANGED <<setup, task, results, current, cdc, target, hist, budget>>
      /\ c \in Calls /\ c \notin Servers /\ proc[c].pc = "acquire" /\ proc[c].then = "launch"
  BY ConstantsOK DEF AcquireStart, At, IInv, RunnersFine, PhaseFine
<1>2. CASE Ends(c) /\ UNCHANGED lease
  BY <1>1, <1>2, EndsAlone DEF world
<1>3. CASE Acquire("prepare", proc[c].server)
           /\ proc' = [proc EXCEPT ![c].op = "prepare", ![c].pc = "store"]
  <2>1. "prepare" \in Operation /\ "store" \in Pc /\ proc[c].server \in Servers \cup {NoServer}
    BY DEF Operation, Pc, IInv, TypeOK, Process
  <2>2. /\ Only(c) /\ SameRows(c) /\ proc'[c].op = "prepare" /\ proc'[c].pc = "store"
        /\ proc'[c].then = "launch" /\ proc'[c].server = proc[c].server
    BY <1>1, <1>3, <2>1 DEF IInv, TypeOK, Only, Same, SameWork, SameRows, Process
  <2>3. ~lease.live /\ lease' = [op |-> "prepare", owner |-> proc[c].server, live |-> TRUE]
    BY <1>3 DEF Acquire, Obtainable
  <2>4. TypeOK'
    BY <1>1, <2>1, <2>2, <2>3 DEF IInv, TypeOK, Only, cdc, hist
  <2>5. PhaseFine(c)'
    BY <1>1, <2>2 DEF PhaseFine, Working, Runs, Handling
  <2>6. Phases'
    BY <2>2, <2>5, PhasesStep DEF IInv, RunnersFine, Phases
  <2>7. AtWork' \subseteq AtWork \cup {c} /\ c \in AtWork'
    BY <2>2 DEF AtWork, Working, Only, Same, SameWork
  <2>8. RunnersFine'
    BY <1>1, <2>2, <2>3, <2>4, <2>6, <2>7, TakenFine DEF IInv, hist
  <2>9. ProcStep(c)
    BY <1>1, <2>2 DEF ProcStep, SameRows, IInv, RowsFine, PreparedFine, Writes, At
  <2>10. c \notin Preparers' /\ RowStep
    BY <1>1, <2>2, RowStays DEF Preparers, At
  <2> QED BY <1>1, <2>2, <2>4, <2>8, <2>9, <2>10, PreparedStep DEF IInv, hist
<1> QED BY <1>2, <1>3 DEF AcquireStart

LEMMA StartAbortedStep == ASSUME IInv, NEW c \in Calls, StartAborted(c) PROVE IInv'
<1>1. /\ c \in Procs /\ Working(c) /\ proc[c].pc = "store" /\ UNCHANGED world
      /\ "release" \in Pc /\ results \in {"none", "good", "bad"}
  BY DEF StartAborted, At, Working, Procs, Pc, IInv, TypeOK
<1>2. /\ Only(c) /\ SameWork(c) /\ SameRows(c)
      /\ proc'[c].pc = "release" /\ proc'[c].then = proc[c].then
  BY <1>1, GotoEffect DEF StartAborted, IInv
<1> QED BY <1>1, <1>2, GoesOn DEF Runs, world

\* The handler hands the lease over to the runner that it starts.
LEMMA LaunchStep == ASSUME IInv, NEW c \in Procs, Launch(c) PROVE IInv'
<1>1. /\ c \in Calls /\ c \notin Runners /\ proc[c].op = "prepare"
      /\ proc[c].server \in Servers \cup {NoServer}
      /\ "prepare" \in Operation \ {"none"} /\ "precheck" \in Pc
  BY ConstantsOK DEF Launch, At, IInv, RunnersFine, PhaseFine, TypeOK, Process, Operation, Pc
<1>2. UNCHANGED <<setup, task, results, lease, cdc, target, hist, budget>>
  BY DEF Launch
<1>3. Installed(c, proc[c].server, "prepare", "precheck")
  BY <1>1, InstallEffect DEF Launch
<1>4. TypeOK'
  BY <1>2, <1>3 DEF IInv, TypeOK, Installed, cdc, hist
<1>5. Phases' /\ RowsFine' /\ PreparedFine'
  BY <1>1, <1>2, <1>3, InstalledFine DEF hist
<1>6. RunnersFine'
  <2>1. PICK new \in Runners :
          /\ proc'[new].op = "prepare" /\ proc'[new].server = proc[c].server
          /\ new # c => proc'[c].op = "none"
          /\ \A q \in Procs \ {new, c} : SameWork(q)
    BY <1>3 DEF Installed, Same
  <2>2. new \in Procs /\ c # new /\ Working(c) /\ ~Working(c)'
    BY <1>1, <2>1 DEF Procs, Working
  <2> QED BY <1>1, <1>2, <1>4, <1>5, <2>1, <2>2, HandedFine DEF IInv, hist
<1> QED BY <1>4, <1>5, <1>6 DEF IInv

-----------------------------------------------------------------------------
(***************************************************************************)
(* The recovery.                                                           *)
(***************************************************************************)
LEMMA RecoverAsStep ==
  ASSUME IInv, NEW s \in Servers, NEW status, RecoverAs(s, status),
         UNCHANGED <<setup, task, results, cdc, target, hist, budget>>
  PROVE  IInv'
<1>1. s \in Procs /\ "prepare" \in Operation \ {"none"}
  BY DEF Procs, Operation
<1>2. CASE status = "VALIDATING"
  BY <1>1, <1>2, StartValidationStep DEF RecoverAs
<1>3. CASE status # "VALIDATING" /\ ~Obtainable(s)
  BY <1>1, <1>3, EndsAlone DEF RecoverAs, world
<1>4. CASE status = "PRECHECKING" /\ Obtainable(s)
  BY <1>1, <1>4, TakeAndInstall DEF RecoverAs
<1>5. CASE status \notin {"VALIDATING", "PRECHECKING"} /\ Obtainable(s)
  <2> DEFINE new == [Rest(s) EXCEPT !.op = "recovery", !.pc = "fail", !.then = "release"]
  <2>1. proc' = [proc EXCEPT ![s] = new] /\ UNCHANGED current
    BY <1>5 DEF RecoverAs
  <2>2. ~lease.live /\ lease' = [op |-> "recovery", owner |-> s, live |-> TRUE]
    BY <1>5 DEF RecoverAs, Acquire, Obtainable
  <2>3. "recovery" \in Operation /\ "fail" \in Pc /\ "release" \in Pc
    BY DEF Operation, Pc
  <2>4. Rest(s) \in Process /\ Rest(s).server = s /\ Rest(s).seen = NewRow /\ Rest(s).to = NewRow
    BY <1>1, RestType, RestIs DEF Rest, Idle
  <2>5. /\ new \in Process /\ new.op = "recovery" /\ new.pc = "fail" /\ new.then = "release"
        /\ new.server = s /\ new.seen = NewRow /\ new.to = NewRow
    BY <2>3, <2>4 DEF Process
  <2> HIDE DEF new
  <2>6. /\ Only(s) /\ proc'[s].op = "recovery" /\ proc'[s].pc = "fail" /\ proc'[s].then = "release"
        /\ proc'[s].server = s /\ proc'[s].seen = NewRow /\ proc'[s].to = NewRow
    BY <1>1, <2>1, <2>5 DEF IInv, TypeOK, Only, Same, SameWork, SameRows
  <2>7. TypeOK'
    BY <2>1, <2>2, <2>3, <2>6 DEF IInv, TypeOK, Only, cdc, hist
  <2>8. PhaseFine(s)'
    BY <2>6 DEF PhaseFine, Working, Runs, Handling
  <2>9. Phases'
    BY <1>1, <2>6, <2>8, PhasesStep DEF IInv, RunnersFine, Phases
  <2>10. AtWork' \subseteq AtWork \cup {s} /\ s \in AtWork'
    BY <1>1, <2>6 DEF AtWork, Working, Only, Same, SameWork
  <2>11. RunnersFine'
    BY <1>1, <2>2, <2>6, <2>7, <2>9, <2>10, TakenFine DEF IInv, hist
  <2>12. ProcStep(s) /\ s \notin Preparers'
    BY <2>6 DEF ProcStep, RowFine, NewRow, Writes, Preparers, At
  <2> QED BY <1>1, <2>6, <2>7, <2>11, <2>12, RowStays, PreparedStep DEF IInv, hist
<1> QED BY <1>2, <1>3, <1>4, <1>5

LEMMA ScanStep == ASSUME IInv, NEW s \in Servers, Scan(s) PROVE IInv'
BY RecoverAsStep DEF Scan

LEMMA RecoverStep == ASSUME IInv, NEW s, Recover(s) PROVE IInv'
BY RecoverAsStep DEF Recover

LEMMA ScanSlowStep == ASSUME IInv, NEW s \in Servers, ScanSlow(s) PROVE IInv'
<1> DEFINE listed == With(NewRow, task.status)
<1>1. /\ TypeOK /\ s \in Procs /\ s \notin Calls /\ proc[s].pc = "idle" /\ ~Working(s)
      /\ proc[s].then # "sync" /\ RowFine(proc[s].to)
      /\ "acquire" \in Pc /\ task.status \in Statuses /\ task.status # "PAUSED"
  BY ConstantsOK DEF ScanSlow, At, IInv, RunnersFine, PhaseFine, RowsFine, TypeOK, Procs, Pc,
     Row, Interrupted
<1>2. /\ proc' = [proc EXCEPT ![s].pc = "acquire", ![s].seen = listed]
      /\ UNCHANGED <<setup, task, results, lease, current, cdc, target, hist>>
      /\ budget' \in [commands : Nat, faults : Nat]
  BY <1>1, SpendType DEF ScanSlow
<1>3. listed \in Row /\ RowFine(listed)
  <2>1. listed \in Row /\ listed.status = task.status
    BY <1>1, RowTypes, WithIs
  <2> QED BY <1>1, <2>1 DEF RowFine
<1> HIDE DEF listed
<1>4. /\ Only(s) /\ SameWork(s) /\ proc'[s].pc = "acquire" /\ proc'[s].then = proc[s].then
      /\ proc'[s].seen = listed /\ proc'[s].to = proc[s].to
  <2> DEFINE new == [proc[s] EXCEPT !.pc = "acquire", !.seen = listed]
  <2>1. /\ new \in Process /\ new.op = proc[s].op /\ new.server = proc[s].server
        /\ new.pc = "acquire" /\ new.then = proc[s].then /\ new.seen = listed /\ new.to = proc[s].to
    <3>1. proc[s] \in Process
      BY <1>1 DEF TypeOK
    <3> QED BY <1>1, <1>3, <3>1 DEF Process
  <2>2. proc' = [proc EXCEPT ![s] = new]
    BY <1>1, <1>2 DEF TypeOK
  <2> HIDE DEF new
  <2> QED BY <1>1, <2>1, <2>2 DEF TypeOK, Only, Same, SameWork, SameRows
<1>5. TypeOK'
  BY <1>1, <1>2, <1>4 DEF TypeOK, Only, cdc, hist
<1>6. PhaseFine(s)'
  BY <1>1, <1>4 DEF IInv, RunnersFine, PhaseFine, Runs, Handling
<1>7. ~Writes(s)' /\ s \notin Preparers'
  BY <1>4 DEF Writes, Preparers, At
<1>8. ProcStep(s)
  BY <1>1, <1>3, <1>4, <1>7 DEF ProcStep
<1> QED BY <1>1, <1>2, <1>4, <1>5, <1>6, <1>7, <1>8, RowStays, ProcessStep DEF hist

-----------------------------------------------------------------------------
(***************************************************************************)
(* The commands.                                                           *)
(***************************************************************************)
LEMMA BeganEffect ==
  ASSUME TypeOK, NEW c \in Calls, NEW s \in Servers, NEW pc \in Pc, NEW row \in Row,
         NEW then \in Pc, Handles(c, s, pc, row, then)
  PROVE  /\ Only(c) /\ proc'[c].op = "none" /\ proc'[c].pc = pc /\ proc'[c].then = then
         /\ proc'[c].seen = task /\ proc'[c].to = row
<1> DEFINE new == [Rest(c) EXCEPT !.server = s, !.pc = pc, !.seen = task, !.to = row,
                                  !.then = then]
<1>1. c \in Procs /\ task \in Row /\ proc \in [Procs -> Process]
  BY DEF Procs, TypeOK
<1>2. Rest(c) \in Process /\ Rest(c).op = "none"
  BY <1>1, RestType, RestIs
<1>3. /\ new \in Process /\ new.op = "none" /\ new.pc = pc /\ new.then = then
      /\ new.seen = task /\ new.to = row
  BY <1>1, <1>2 DEF Process
<1>4. proc' = [proc EXCEPT ![c] = new]
  BY DEF Handles, Began
<1> HIDE DEF new
<1> QED BY <1>1, <1>3, <1>4 DEF Only, Same, SameWork, SameRows

LEMMA BeginStep ==
  ASSUME IInv, NEW c \in Calls, NEW s \in Servers,
         NEW pc \in {"acquire", "validate", "store", "stop", "sync"}, NEW row \in Row,
         NEW then \in {"idle", "launch", "ensure", "sync", "validate"},
         pc = "acquire" <=> then = "launch", RowFine(row),
         \/ pc = "validate" \/ row.status \notin Before
         \/ task.status = "CREATED" /\ then # "sync",
         Handles(c, s, pc, row, then), budget' \in [commands : Nat, faults : Nat],
         UNCHANGED <<setup, task, results, lease, current, cdc, target, hist>>
  PROVE  IInv'
<1>1. c \in Procs /\ pc \in Pc /\ then \in Pc /\ RowFine(task)
  BY DEF Procs, Pc, IInv, RowsFine
<1>2. /\ Only(c) /\ proc'[c].op = "none" /\ proc'[c].pc = pc /\ proc'[c].then = then
      /\ proc'[c].seen = task /\ proc'[c].to = row
  BY <1>1, BeganEffect DEF IInv
<1>3. TypeOK'
  BY <1>2 DEF IInv, TypeOK, Only, cdc, hist
<1>4. PhaseFine(c)'
  BY <1>2 DEF PhaseFine, Working, Runs, Handling
<1>5. ProcStep(c)
  BY <1>1, <1>2 DEF ProcStep, Writes, At
<1>6. c \notin Preparers'
  BY <1>2 DEF Preparers, At
<1> QED BY <1>1, <1>2, <1>3, <1>4, <1>5, <1>6, RowStays, ProcessStep DEF hist

\* The handler is done, or goes on after the row that it stored.
Followed(c, row, then) ==
  /\ Only(c)
  /\ IF then = "idle" THEN Same(c)
     ELSE /\ proc'[c].op = "none" /\ proc'[c].pc = then /\ proc'[c].then = "idle"
          /\ proc'[c].seen = row /\ proc'[c].to = row

LEMMA StoredEffect ==
  ASSUME IInv, NEW c \in Calls, NEW s \in Servers, NEW row \in Row, NEW then \in Pc
  PROVE  LET stored == Stored(c, s, row, then) IN
         /\ stored \in [Procs -> Process]
         /\ proc' = stored => Followed(c, row, then)
         /\ \A p \in Runners : proc' = [stored EXCEPT ![p].cancelled = TRUE] => Followed(c, row, then)
<1> DEFINE new == [Rest(c) EXCEPT !.server = s, !.pc = then, !.seen = row, !.to = row]
           stored == Stored(c, s, row, then)
<1>1. c \in Procs /\ proc \in [Procs -> Process] /\ Runners \subseteq Procs /\ c \notin Runners
  BY ConstantsOK DEF Procs, IInv, TypeOK
<1>2. Rest(c) \in Process /\ Rest(c).op = "none" /\ Rest(c).then = "idle"
  BY <1>1, RestType, RestIs
<1>3. /\ new \in Process /\ new.op = "none" /\ new.pc = then /\ new.then = "idle"
      /\ new.seen = row /\ new.to = row
  BY <1>2 DEF Process
<1>4. /\ stored \in [Procs -> Process]
      /\ \A q \in Procs \ {c} : stored[q] = proc[q]
      /\ stored[c] = IF then = "idle" THEN proc[c] ELSE new
  BY <1>1, <1>3 DEF Stored
<1> HIDE DEF new, stored
<1>5. ASSUME proc' \in [Procs -> Process], proc'[c] = stored[c],
             \A q \in Procs \ {c} : \/ proc'[q] = stored[q]
                                    \/ proc'[q] = [stored[q] EXCEPT !.cancelled = TRUE]
      PROVE  Followed(c, row, then)
  <2>1. \A q \in Procs \ {c} : Same(q)
    BY <1>1, <1>4, <1>5 DEF Same, SameWork, SameRows, Process
  <2> QED BY <1>1, <1>3, <1>4, <1>5, <2>1 DEF Followed, Only, Same, SameWork, SameRows
<1>6. ASSUME proc' = stored PROVE Followed(c, row, then)
  BY <1>4, <1>5, <1>6
<1>7. ASSUME NEW p \in Runners, proc' = [stored EXCEPT ![p].cancelled = TRUE]
      PROVE  Followed(c, row, then)
  <2>1. [stored[p] EXCEPT !.cancelled = TRUE] \in Process /\ p # c
    BY <1>1, <1>4 DEF Process
  <2>2. proc' \in [Procs -> Process] /\ proc'[c] = stored[c]
    BY <1>1, <1>4, <1>7, <2>1
  <2>3. \A q \in Procs \ {c} : \/ proc'[q] = stored[q]
                               \/ proc'[q] = [stored[q] EXCEPT !.cancelled = TRUE]
    BY <1>1, <1>4, <1>7
  <2> QED BY <1>5, <2>2, <2>3
<1> QED BY <1>4, <1>6, <1>7 DEF stored

LEMMA FollowedStep ==
  ASSUME IInv, NEW c \in Calls, NEW row \in Row,
         NEW then \in {"idle", "ensure", "validate", "rollback", "stop"},
         then = "stop" => row.status # "READY_FOR_CUTOVER",
         Followed(c, row, then), task' = row, RowStep,
         current' \in [Servers -> Runners \cup {NoRunner}],
         budget' \in [commands : Nat, faults : Nat],
         UNCHANGED <<setup, results, lease, cdc, target, hist>>
  PROVE  IInv'
<1>1. c \in Procs /\ Only(c)
  BY DEF Procs, Followed
<1>2. TypeOK'
  BY <1>1 DEF IInv, TypeOK, Only, cdc, hist
<1>3. CASE then = "idle"
  <2>1. \A q \in Procs : Same(q)
    BY <1>3 DEF Followed, Only
  <2> QED BY <1>2, <2>1, AllSame DEF hist
<1>4. CASE then # "idle"
  <2>1. /\ proc'[c].op = "none" /\ proc'[c].pc = then /\ proc'[c].then = "idle"
        /\ proc'[c].seen = row /\ proc'[c].to = row
    BY <1>4 DEF Followed
  <2>2. PhaseFine(c)'
    BY <1>4, <2>1 DEF PhaseFine, Working, Runs, Handling
  <2>3. ~Writes(c)' /\ c \notin Preparers'
    BY <2>1 DEF Writes, Preparers, At
  <2>4. ProcStep(c)
    BY <2>1, <2>3 DEF ProcStep, RowStep
  <2> QED BY <1>1, <1>2, <2>1, <2>2, <2>3, <2>4, ProcessStep DEF hist
<1> QED BY <1>3, <1>4

LEMMA SetStep ==
  ASSUME IInv, NEW c \in Calls, NEW s \in Servers, NEW row \in Row,
         NEW then \in {"idle", "ensure", "validate", "rollback"}, Set(c, s, row, then),
         row.status # "PAUSED", row.status \in Before => task.status \in Before
  PROVE  IInv'
<1>1. then \in Pc /\ budget' \in [commands : Nat, faults : Nat]
      /\ current' \in [Servers -> Runners \cup {NoRunner}]
  BY SpendType DEF Pc, Set, IInv, TypeOK
<1>2. Followed(c, row, then) /\ task' = row
  BY <1>1, StoredEffect DEF Set
<1>3. RowStep
  BY <1>2, RowAdvances
<1> QED BY <1>1, <1>2, <1>3, FollowedStep DEF Set

LEMMA SetCancellingStep ==
  ASSUME IInv, NEW c \in Calls, NEW s \in Servers, NEW row \in Row, NEW then \in {"idle", "stop"},
         SetCancelling(c, s, row, then), RowFine(row), row.status \in {"PAUSED", "CANCELLED"}
  PROVE  IInv'
<1>1. then \in Pc /\ budget' \in [commands : Nat, faults : Nat]
      /\ current \in [Servers -> Runners \cup {NoRunner}]
      /\ current' \in [Servers -> Runners \cup {NoRunner}]
  BY SpendType DEF Pc, SetCancelling, IInv, TypeOK
<1>2. Followed(c, row, then)
  <2>1. CASE current[s] = NoRunner
    BY <1>1, <2>1, StoredEffect DEF SetCancelling
  <2>2. CASE current[s] # NoRunner
    BY <1>1, <2>2, StoredEffect DEF SetCancelling
  <2> QED BY <2>1, <2>2
<1>3. task' = row /\ RowStep
  BY DEF SetCancelling, RowStep, Before
<1> QED BY <1>1, <1>2, <1>3, FollowedStep DEF SetCancelling

LEMMA StartStep == ASSUME IInv, NEW c \in Calls, NEW s \in Servers, Start(c, s) PROVE IInv'
<1> DEFINE row == With(task, "PRECHECKING")
<1>1. task \in Row /\ "PRECHECKING" \in Statuses
  BY DEF IInv, TypeOK, Statuses
<1>2. row \in Row /\ row.status = "PRECHECKING" /\ task.status = "CREATED"
  BY <1>1, RowTypes, WithIs DEF Start
<1>3. RowFine(row) /\ budget' \in [commands : Nat, faults : Nat]
  BY <1>2, SpendType DEF RowFine, Start, Begin, IInv
<1> HIDE DEF row
<1> QED BY <1>2, <1>3, BeginStep DEF Start, Begin, row

LEMMA ResumeStep == ASSUME IInv, NEW c \in Calls, NEW s \in Servers, Resume(c, s) PROVE IInv'
<1> DEFINE row == [With(task, task.from) EXCEPT !.from = "CREATED"]
           then == IF task.from \in Streaming THEN "ensure"
                   ELSE IF task.from = "VALIDATING" THEN "validate" ELSE "idle"
<1>1. task \in Row /\ "CREATED" \in Statuses /\ task.from \in Pausable /\ task.from \in Statuses
  BY DEF Resume, IInv, TypeOK, RowsFine, RowFine, Statuses, Row
<1>2. row \in Row /\ row.status = task.from
  <2>1. With(task, task.from) \in Row /\ With(task, task.from).status = task.from
    BY <1>1, RowTypes, WithIs
  <2> QED BY <1>1, <2>1, RowTypes DEF Row
<1>3. row.status # "PAUSED" /\ row.status \notin Before
  BY <1>1, <1>2 DEF Pausable, Streaming, Before
<1>4. then \in {"idle", "ensure", "validate", "rollback"} /\ Set(c, s, row, then)
  BY DEF Resume
<1> HIDE DEF row, then
<1> QED BY <1>2, <1>3, <1>4, SetStep

LEMMA PauseStep == ASSUME IInv, NEW c \in Calls, NEW s \in Servers, Pause(c, s) PROVE IInv'
<1> DEFINE row == [With(task, "PAUSED") EXCEPT !.from = task.status]
           then == IF task.status \in Streaming THEN "stop" ELSE "idle"
<1>1. task \in Row /\ "PAUSED" \in Statuses /\ task.status \in Statuses /\ task.status \in Pausable
  BY DEF Pause, IInv, TypeOK, Statuses, Row, Pausable
<1>2. row \in Row /\ row.status = "PAUSED" /\ row.from = task.status
  <2>1. With(task, "PAUSED") \in Row /\ With(task, "PAUSED").status = "PAUSED"
    BY <1>1, RowTypes, WithIs
  <2> QED BY <1>1, <2>1, RowTypes DEF Row
<1>3. then \in {"idle", "stop"} /\ SetCancelling(c, s, row, then) /\ RowFine(row)
  BY <1>1, <1>2 DEF Pause, RowFine
<1> HIDE DEF row, then
<1> QED BY <1>2, <1>3, SetCancellingStep

LEMMA CancelStep == ASSUME IInv, NEW c \in Calls, NEW s \in Servers, Cancel(c, s) PROVE IInv'
<1> DEFINE row == With(task, "CANCELLED")
<1>1. task \in Row /\ "CANCELLED" \in Statuses
  BY DEF IInv, TypeOK, Statuses
<1>2. row \in Row /\ row.status = "CANCELLED"
  BY <1>1, RowTypes, WithIs
<1>3. SetCancelling(c, s, row, "idle") /\ RowFine(row)
  BY <1>2 DEF Cancel, RowFine
<1> HIDE DEF row
<1> QED BY <1>2, <1>3, SetCancellingStep

LEMMA BarrierRow ==
  ASSUME TypeOK
  PROVE  AtBarrier \in Row /\ AtBarrier.status = "VALIDATING"
<1>1. task \in Row /\ "VALIDATING" \in Statuses /\ applied \in {NoBarrier} \cup (0 .. MaxTx)
  BY ConstantsOK DEF TypeOK, Statuses
<1>2. With(task, "VALIDATING") \in Row /\ With(task, "VALIDATING").status = "VALIDATING"
  BY <1>1, RowTypes, WithIs
<1> QED BY <1>1, <1>2 DEF AtBarrier, Row

LEMMA ValidateNowStep ==
  ASSUME IInv, NEW c \in Calls, NEW s \in Servers, ValidateNow(c, s) PROVE IInv'
<1>1. task \in Row /\ RowFine(task) /\ AtBarrier \in Row /\ AtBarrier.status = "VALIDATING"
  BY BarrierRow DEF IInv, TypeOK, RowsFine
<1>2. CASE Begin(c, s, "validate", task, "idle")
  <2>1. budget' \in [commands : Nat, faults : Nat]
    BY <1>2, SpendType DEF Begin, IInv
  <2> QED BY <1>1, <1>2, <2>1, BeginStep DEF Begin
<1>3. CASE Set(c, s, AtBarrier, "validate")
  BY <1>1, <1>3, SetStep DEF Before
<1> QED BY <1>2, <1>3 DEF ValidateNow

LEMMA AutoValidateStep ==
  ASSUME IInv, NEW c \in Calls, NEW s \in Servers, AutoValidate(c, s) PROVE IInv'
<1>1. /\ AtBarrier \in Row /\ AtBarrier.status = "VALIDATING" /\ "validate" \in Pc
      /\ current' \in [Servers -> Runners \cup {NoRunner}]
      /\ budget' \in [commands : Nat, faults : Nat]
  BY BarrierRow DEF AutoValidate, IInv, TypeOK, Pc
<1>2. /\ task' = AtBarrier /\ proc' = Stored(c, s, AtBarrier, "validate")
      /\ UNCHANGED <<setup, results, lease, cdc, target, hist>>
  BY DEF AutoValidate
<1>3. Followed(c, AtBarrier, "validate")
  BY <1>1, <1>2, StoredEffect
<1>4. RowStep
  BY <1>1, <1>2, RowAdvances DEF Before
<1> QED BY <1>1, <1>2, <1>3, <1>4, FollowedStep

\* A command that will store the row with a status past the preparation.
LEMMA BeginWithStep ==
  ASSUME IInv, NEW c \in Calls, NEW s \in Servers, NEW pc \in {"store", "stop", "sync"},
         NEW status \in Statuses \ (Before \cup {"PAUSED"}),
         NEW then \in {"idle", "ensure", "sync", "validate"},
         Handles(c, s, pc, With(task, status), then), budget' \in [commands : Nat, faults : Nat],
         UNCHANGED <<setup, task, results, lease, current, cdc, target, hist>>
  PROVE  IInv'
<1> DEFINE row == With(task, status)
<1>1. task \in Row
  BY DEF IInv, TypeOK
<1>2. row \in Row /\ row.status = status
  BY <1>1, RowTypes, WithIs
<1>3. RowFine(row) /\ row.status \notin Before /\ Handles(c, s, pc, row, then)
  BY <1>2 DEF RowFine
<1> HIDE DEF row
<1> QED BY <1>2, <1>3, BeginStep

LEMMA BeginsWithStep ==
  ASSUME IInv, NEW c \in Calls, NEW s \in Servers, NEW pc \in {"store", "stop", "sync"},
         NEW status \in Statuses \ (Before \cup {"PAUSED"}),
         NEW then \in {"idle", "ensure", "sync", "validate"},
         Begin(c, s, pc, With(task, status), then)
  PROVE  IInv'
<1>1. budget' \in [commands : Nat, faults : Nat]
  BY SpendType DEF Begin, IInv
<1> QED BY <1>1, BeginWithStep DEF Begin

LEMMA SetWithStep ==
  ASSUME IInv, NEW c \in Calls, NEW s \in Servers,
         NEW status \in Statuses \ (Before \cup {"PAUSED"}),
         NEW then \in {"idle", "ensure", "validate", "rollback"},
         Set(c, s, With(task, status), then)
  PROVE  IInv'
<1> DEFINE row == With(task, status)
<1>1. task \in Row
  BY DEF IInv, TypeOK
<1>2. row \in Row /\ row.status = status
  BY <1>1, RowTypes, WithIs
<1>3. Set(c, s, row, then)
  OBVIOUS
<1> HIDE DEF row
<1> QED BY <1>2, <1>3, SetStep

LEMMA CommandStep ==
  ASSUME IInv, NEW c \in Calls, NEW s \in Servers, Command(c, s) PROVE IInv'
<1> DEFINE Late == Statuses \ (Before \cup {"PAUSED"})
<1>1. /\ {"FULL_MIGRATING", "READY_FOR_CUTOVER", "CUTOVER_RUNNING", "ROLLBACK_PREPARING",
          "ROLLBACK_READY", "ROLLBACK_RUNNING"} \subseteq Late
      /\ AfterCopy \in Late
  BY DEF Statuses, Before, AfterCopy
<1> HIDE DEF Late
<1>2. CASE RepairValidation(c, s)
  BY <1>1, <1>2, BeginsWithStep DEF RepairValidation, Late
<1>3. CASE ReadyForCutover(c, s)
  BY <1>1, <1>3, BeginsWithStep DEF ReadyForCutover, Late
<1>4. CASE Cutover(c, s)
  BY <1>1, <1>4, BeginsWithStep DEF Cutover, Late
<1>5. CASE PrepareRollback(c, s)
  BY <1>1, <1>5, BeginsWithStep DEF PrepareRollback, Late
<1>6. CASE ReadyForRollback(c, s)
  BY <1>1, <1>6, SetWithStep DEF ReadyForRollback, Late
<1>7. CASE Rollback(c, s)
  BY <1>1, <1>7, SetWithStep DEF Rollback, Late
<1>8. CASE CopyDone(c, s)
  <2>1. budget' \in [commands : Nat, faults : Nat]
        /\ UNCHANGED <<setup, task, results, lease, current, cdc, target, hist>>
    BY <1>8 DEF CopyDone, world, IInv, TypeOK
  <2>2. CASE AfterCopy = "VALIDATING"
    BY <1>1, <1>8, <2>1, <2>2, BeginWithStep DEF CopyDone, Late
  <2>3. CASE AfterCopy # "VALIDATING"
    BY <1>1, <1>8, <2>1, <2>3, BeginWithStep DEF CopyDone, Late
  <2> QED BY <2>2, <2>3
<1> QED BY <1>2, <1>3, <1>4, <1>5, <1>6, <1>7, <1>8, StartStep, ResumeStep, PauseStep, CancelStep,
          ValidateNowStep, AutoValidateStep DEF Command

-----------------------------------------------------------------------------
(***************************************************************************)
(* What the handlers do after their first step.                            *)
(***************************************************************************)
\* A step of a handler that keeps its rows, or ends.
LEMMA HandlerStep ==
  ASSUME IInv, TypeOK', NEW p \in Procs, proc[p].pc \in Handling,
         \/ Ends(p)
         \/ \E pc \in Handling \cup {"store"} : Goto(p, pc) /\ (Writes(p)' => Writes(p)),
         UNCHANGED <<task, lease, hist>>, target'.prepared = target.prepared
  PROVE  IInv'
<1>1. CASE Ends(p)
  BY <1>1, RowStays, EndsStep DEF hist
<1>2. CASE \E pc \in Handling \cup {"store"} : Goto(p, pc) /\ (Writes(p)' => Writes(p))
  <2>1. PICK pc \in Handling \cup {"store"} : Goto(p, pc) /\ (Writes(p)' => Writes(p))
    BY <1>2
  <2>2. pc \in Pc
    BY DEF Handling, Pc
  <2>3. /\ Only(p) /\ SameWork(p) /\ SameRows(p)
        /\ proc'[p].pc = pc /\ proc'[p].then = proc[p].then
    BY <2>1, <2>2, GotoEffect DEF IInv
  <2>4. PhaseFine(p)'
    BY <2>3 DEF IInv, RunnersFine, PhaseFine, SameWork, Working, Runs, Handling
  <2>5. ProcStep(p)
    BY <2>1, <2>3 DEF ProcStep, SameRows, IInv, RowsFine, PreparedFine
  <2>6. p \notin Preparers'
    BY <2>3, <2>4 DEF Preparers, At, Handling, PhaseFine, IInv, RunnersFine
  <2> QED BY <2>3, <2>4, <2>5, <2>6, RowStays, ProcessStep DEF hist
<1> QED BY <1>1, <1>2

LEMMA SetJobType ==
  ASSUME TypeOK, NEW p, SetJob(p, Ensured) \/ SetJob(p, Stopped)
  PROVE  forward' \in Job /\ reverse' \in Job /\ UNCHANGED <<captured, applied, behind>>
BY DEF TypeOK, SetJob, Ensured, Stopped, Job

LEMMA EnsureStep == ASSUME IInv, NEW p \in Procs, Ensure(p) PROVE IInv'
<1>1. Only(p) /\ forward' \in Job /\ reverse' \in Job /\ UNCHANGED <<captured, applied, behind>>
  BY EndsEffect, SetJobType DEF Ensure, IInv
<1>2. TypeOK'
  BY <1>1 DEF Ensure, IInv, TypeOK, Only, hist
<1> QED BY <1>2, RowStays, EndsStep DEF Ensure, hist

LEMMA StopStep == ASSUME IInv, NEW c \in Procs, Stop(c) PROVE IInv'
<1>1. "wait" \in Pc /\ "wait" \in Handling /\ proc[c].pc \in Handling
  BY DEF Stop, At, Pc, Handling
<1>2. Only(c) /\ forward' \in Job /\ reverse' \in Job /\ UNCHANGED <<captured, applied, behind>>
  BY <1>1, EndsEffect, GotoEffect, SetJobType DEF Stop, IInv
<1>3. TypeOK'
  BY <1>2 DEF Stop, IInv, TypeOK, Only, hist
<1>4. proc[c].seen.status = "READY_FOR_CUTOVER" => Writes(c)
  BY DEF Stop, Writes
<1> QED BY <1>1, <1>3, <1>4, HandlerStep DEF Stop

LEMMA WaitStep == ASSUME IInv, NEW c \in Procs, Wait(c) PROVE IInv'
<1>1. "drain" \in Pc /\ "drain" \in Handling /\ proc[c].pc \in Handling /\ Writes(c)
  BY DEF Wait, At, Pc, Handling, Writes
<1>2. Only(c)
  BY <1>1, EndsEffect, GotoEffect DEF Wait, IInv
<1>3. TypeOK'
  BY <1>2 DEF Wait, IInv, TypeOK, Only, world, cdc, hist
<1> QED BY <1>1, <1>3, HandlerStep DEF Wait, world

LEMMA DrainStep == ASSUME IInv, NEW c \in Procs, Drain(c) PROVE IInv'
<1>1. "store" \in Pc /\ proc[c].pc \in Handling /\ Writes(c)
  BY DEF Drain, At, Pc, Handling, Writes
<1>2. Only(c)
  BY <1>1, EndsEffect, GotoEffect DEF Drain, IInv
<1>3. TypeOK'
  BY <1>2 DEF Drain, IInv, TypeOK, Only, world, cdc, hist
<1> QED BY <1>1, <1>3, HandlerStep DEF Drain, world

\* A handler is going to store its row with the status it ends in.
WillEnd(c, status) ==
  proc' = [proc EXCEPT ![c].pc = "store", ![c].to = With(proc[c].seen, status),
                       ![c].then = "idle"]

LEMMA WillEndEffect ==
  ASSUME TypeOK, NEW c \in Procs, NEW status \in Statuses, WillEnd(c, status)
  PROVE  /\ Only(c) /\ SameWork(c) /\ proc'[c].pc = "store" /\ proc'[c].then = "idle"
         /\ proc'[c].seen = proc[c].seen /\ proc'[c].to = With(proc[c].seen, status)
<1> DEFINE row == With(proc[c].seen, status)
           new == [proc[c] EXCEPT !.pc = "store", !.to = row, !.then = "idle"]
<1>1. /\ proc[c] \in Process /\ proc[c].seen \in Row /\ "store" \in Pc /\ "idle" \in Pc
  BY DEF TypeOK, Process, Pc
<1>2. row \in Row
  BY <1>1, RowTypes
<1>3. proc' = [proc EXCEPT ![c].pc = "store", ![c].to = row, ![c].then = "idle"]
  BY DEF WillEnd
<1> HIDE DEF row
<1>4. /\ new \in Process /\ new.op = proc[c].op /\ new.server = proc[c].server
      /\ new.pc = "store" /\ new.then = "idle" /\ new.seen = proc[c].seen /\ new.to = row
  BY <1>1, <1>2 DEF Process
<1>5. proc' = [proc EXCEPT ![c] = new]
  BY <1>3 DEF TypeOK
<1> HIDE DEF new
<1>6. proc' \in [Procs -> Process] /\ proc'[c] = new /\ \A q \in Procs : q # c => proc'[q] = proc[q]
  BY <1>4, <1>5 DEF TypeOK
<1> QED BY <1>4, <1>6 DEF Only, Same, SameWork, SameRows, row

LEMMA WillEndStep ==
  ASSUME IInv, NEW c \in Procs, NEW status \in {"FAILED", "FINISHED"}, proc[c].pc \in Handling,
         WillEnd(c, status),
         target' \in [prepared : 0 .. 2, synced : BOOLEAN, finalized : BOOLEAN],
         target'.prepared = target.prepared,
         UNCHANGED <<setup, task, results, lease, current, cdc, hist, budget>>
  PROVE  IInv'
<1>1. proc[c].seen \in Row /\ RowFine(proc[c].seen) /\ status \in Statuses
  BY DEF IInv, TypeOK, Process, Statuses, RowsFine
<1>2. /\ Only(c) /\ SameWork(c) /\ proc'[c].pc = "store" /\ proc'[c].then = "idle"
      /\ proc'[c].seen = proc[c].seen /\ proc'[c].to.status = status
  BY <1>1, WillEndEffect, WithIs DEF IInv
<1>3. TypeOK'
  BY <1>2 DEF IInv, TypeOK, Only, cdc, hist
<1>4. PhaseFine(c)'
  BY <1>2 DEF PhaseFine, Runs, Handling
<1>5. ProcStep(c) /\ c \notin Preparers'
  BY <1>1, <1>2 DEF ProcStep, RowFine, Before, Preparers, At
<1> QED BY <1>2, <1>3, <1>4, <1>5, RowStays, ProcessStep DEF hist

LEMMA SyncStep == ASSUME IInv, NEW c \in Procs, Sync(c) PROVE IInv'
<1>1. /\ UNCHANGED <<setup, task, results, lease, current, cdc, hist, budget>>
      /\ proc[c].pc \in Handling /\ Writes(c)
      /\ "finalize" \in Handling /\ "finalize" \in Pc /\ "store" \in Pc
  BY DEF Sync, At, Handling, Writes, Pc
<1>2. CASE /\ target' = [target EXCEPT !.synced = TRUE]
           /\ Goto(c, IF Last(c) THEN "finalize" ELSE "store")
  <2>1. /\ target' \in [prepared : 0 .. 2, synced : BOOLEAN, finalized : BOOLEAN]
        /\ target'.prepared = target.prepared
    BY <1>2 DEF IInv, TypeOK
  <2>2. Only(c)
    BY <1>1, <1>2, GotoEffect DEF IInv
  <2>3. TypeOK'
    BY <1>1, <2>1, <2>2 DEF IInv, TypeOK, Only, cdc, hist
  <2>4. \E pc \in Handling \cup {"store"} : Goto(c, pc)
    BY <1>1, <1>2
  <2> QED BY <1>1, <2>1, <2>3, <2>4, HandlerStep
<1>3. CASE StoreFailed(c) /\ UNCHANGED target
  <2>1. target \in [prepared : 0 .. 2, synced : BOOLEAN, finalized : BOOLEAN]
    BY DEF IInv, TypeOK
  <2> QED BY <1>1, <1>3, <2>1, WillEndStep DEF StoreFailed, WillEnd
<1> QED BY <1>2, <1>3 DEF Sync

LEMMA FinalizeStep == ASSUME IInv, NEW c \in Procs, Finalize(c) PROVE IInv'
<1>1. /\ UNCHANGED <<setup, task, results, lease, current, cdc, hist, budget>>
      /\ proc[c].pc \in Handling
      /\ target \in [prepared : 0 .. 2, synced : BOOLEAN, finalized : BOOLEAN]
  BY DEF Finalize, At, Handling, IInv, TypeOK
<1>2. CASE /\ target' = [target EXCEPT !.finalized = TRUE]
           /\ proc' = [proc EXCEPT ![c].pc = "store", ![c].then = "idle",
                                   ![c].to = With(proc[c].seen, "FINISHED")]
  <2>1. WillEnd(c, "FINISHED")
    BY <1>2 DEF IInv, TypeOK, Process, WillEnd
  <2>2. /\ target' \in [prepared : 0 .. 2, synced : BOOLEAN, finalized : BOOLEAN]
        /\ target'.prepared = target.prepared
    BY <1>1, <1>2
  <2> QED BY <1>1, <2>1, <2>2, WillEndStep
<1>3. CASE StoreFailed(c) /\ UNCHANGED target
  BY <1>1, <1>3, WillEndStep DEF StoreFailed, WillEnd
<1> QED BY <1>2, <1>3 DEF Finalize

LEMMA RolledBackStep == ASSUME IInv, NEW c \in Procs, RolledBack(c) PROVE IInv'
<1> DEFINE row == With(proc[c].seen, "ROLLED_BACK")
           new == [proc[c] EXCEPT !.pc = "stop", !.seen = row]
<1>1. /\ proc[c] \in Process /\ proc[c].seen \in Row /\ proc[c].pc = "rollback"
      /\ "ROLLED_BACK" \in Statuses /\ "stop" \in Pc
  BY DEF RolledBack, At, IInv, TypeOK, Process, Statuses, Pc
<1>2. row \in Row /\ row.status = "ROLLED_BACK"
  BY <1>1, RowTypes, WithIs
<1>3. /\ task' = row /\ overwrote' = (overwrote \/ task # proc[c].seen)
      /\ proc' = [proc EXCEPT ![c].pc = "stop", ![c].seen = row]
      /\ UNCHANGED <<setup, results, lease, current, cdc, target, expired, budget>>
  BY DEF RolledBack
<1> HIDE DEF row
<1>4. /\ new \in Process /\ new.op = proc[c].op /\ new.server = proc[c].server
      /\ new.pc = "stop" /\ new.then = proc[c].then /\ new.seen = row /\ new.to = proc[c].to
      /\ proc' = [proc EXCEPT ![c] = new]
  <2>1. proc' = [proc EXCEPT ![c] = new]
    BY <1>3 DEF IInv, TypeOK
  <2> QED BY <1>1, <1>2, <2>1 DEF Process
<1> HIDE DEF new
<1>5. /\ Only(c) /\ SameWork(c) /\ proc'[c].pc = "stop" /\ proc'[c].then = proc[c].then
      /\ proc'[c].seen = row /\ proc'[c].to = proc[c].to
  BY <1>4 DEF IInv, TypeOK, Only, Same, SameWork, SameRows
<1>6. TypeOK'
  BY <1>2, <1>3, <1>5 DEF IInv, TypeOK, Only, cdc
<1>7. RunnersFine'
  <2>1. PhaseFine(c)'
    BY <1>1, <1>5 DEF IInv, RunnersFine, PhaseFine, SameWork, Working, Runs, Handling
  <2>2. Phases'
    BY <1>5, <2>1, PhasesStep DEF IInv, RunnersFine, Phases
  <2>3. \A q \in Procs : Working(q)' => Working(q) /\ SameWork(q)
    BY <1>5 DEF Only, Same, Working, SameWork
  <2> QED BY <1>3, <1>6, <2>2, <2>3, KeptFine DEF IInv
<1>8. RowsFine'
  BY <1>2, <1>3, <1>5 DEF IInv, RowsFine, RowFine, Only, Same, SameRows
<1>9. /\ Preparers' \subseteq Preparers /\ ~Writes(c)'
      /\ \A q \in Procs : q # c => Writes(q)' = Writes(q) /\ Same(q)
  BY <1>2, <1>5 DEF Preparers, Only, Same, SameRows, Writes, At
<1>10. PreparedFine'
  <2> SUFFICES ASSUME ~overwrote'
               PROVE  /\ \A q \in Procs : Writes(q)' /\ proc'[q].to.status \in Before =>
                                           proc'[q].seen.status = "CREATED" /\ proc'[q].then # "sync"
                      /\ \A q, r \in Preparers' : q = r
                      /\ Preparers' # {} => target'.prepared = 0 /\ task'.status \notin Before
                      /\ task'.status \in Before => target'.prepared = 0
                      /\ target'.prepared <= 1
    BY DEF PreparedFine
  <2>1. ~overwrote /\ target' = target /\ task'.status \notin Before
    BY <1>2, <1>3 DEF Before
  <2> QED BY <1>9, <2>1 DEF IInv, PreparedFine, Same, SameRows
<1> QED BY <1>6, <1>7, <1>8, <1>10 DEF IInv

-----------------------------------------------------------------------------
(***************************************************************************)
(* The workers.                                                            *)
(***************************************************************************)
LEMMA ReaderStartsStep == ASSUME IInv, ReaderStarts PROVE IInv'
<1>1. PICK status \in {"CDC_CATCHING_UP", "FULL_MIGRATING", "ROLLBACK_SYNCING"} :
        task' = With(task, status)
  BY DEF ReaderStarts
<1>2. task \in Row /\ status \in Statuses
  BY DEF IInv, TypeOK, Statuses
<1>3. task' \in Row /\ task'.status = status
  BY <1>1, <1>2, RowTypes, WithIs
<1>4. RowStep
  BY <1>3, RowAdvances DEF Before
<1>5. TypeOK'
  BY <1>3 DEF ReaderStarts, IInv, TypeOK, cdc, hist
<1> QED BY <1>4, <1>5, StillSame, AllSame DEF ReaderStarts, hist

LEMMA WorkersStep ==
  ASSUME IInv, Capture \/ Apply \/ ReaderStops \/ ReverseFlow PROVE IInv'
<1>1. /\ UNCHANGED <<setup, task, results, lease, proc, current, hist>>
      /\ forward' \in Job /\ reverse' \in Job /\ captured' \in 0 .. MaxTx
      /\ applied' \in 0 .. captured' /\ behind' \in BOOLEAN
      /\ target' \in [prepared : 0 .. 2, synced : BOOLEAN, finalized : BOOLEAN]
      /\ target'.prepared = target.prepared /\ budget' \in [commands : Nat, faults : Nat]
  <2>1. CASE Capture
    BY <2>1, ConstantsOK DEF Capture, IInv, TypeOK
  <2>2. CASE Apply
    <3>1. TypeOK /\ budget \in [commands : Nat, faults : Nat]
      BY DEF IInv, TypeOK
    <3>2. budget' \in [commands : Nat, faults : Nat]
      BY <2>2, <3>1, SpendType DEF Apply
    <3>3. applied' \in 0 .. captured
      BY <2>2, <3>1, ConstantsOK DEF Apply, TypeOK
    <3>4. /\ target' \in [prepared : 0 .. 2, synced : BOOLEAN, finalized : BOOLEAN]
          /\ target'.prepared = target.prepared
      BY <2>2, <3>1 DEF Apply, TypeOK
    <3> QED BY <2>2, <3>1, <3>2, <3>3, <3>4 DEF Apply, TypeOK
  <2>3. CASE ReaderStops
    BY <2>3 DEF ReaderStops, IInv, TypeOK, Job
  <2>4. CASE ReverseFlow
    BY <2>4 DEF ReverseFlow, IInv, TypeOK
  <2> QED BY <2>1, <2>2, <2>3, <2>4
<1>2. TypeOK'
  BY <1>1 DEF IInv, TypeOK, hist
<1> QED BY <1>1, <1>2, RowStays, StillSame, AllSame DEF hist

-----------------------------------------------------------------------------
(***************************************************************************)
(* The theorems.                                                           *)
(***************************************************************************)
LEMMA InitHolds == ASSUME Init PROVE IInv
<1>1. PICK start \in Starts, validates \in BOOLEAN :
         /\ setup = [mode |-> start.mode, validates |-> validates]
         /\ task = [NewRow EXCEPT !.status = start.status,
                                  !.empty = start.status = "CREATED" \/ start.mode = "INCREMENTAL"]
         /\ forward = CASE start.status = "CREATED" -> "none"
                        [] start.status = "CDC_CATCHING_UP" -> "active"
                        [] start.status = "FINISHED" -> "stopped"
         /\ target = [prepared |-> IF start.status = "CREATED" THEN 0 ELSE 1,
                      synced |-> start.status # "CREATED", finalized |-> start.status = "FINISHED"]
         /\ budget = [commands |-> start.commands, faults |-> start.faults]
  BY DEF Init
<1>2. /\ start.status \in {"CREATED", "CDC_CATCHING_UP", "FINISHED"}
      /\ start.commands \in Nat /\ start.faults \in Nat
  BY ConstantsOK
<1>3. task \in Row /\ task.status = start.status
  <2>1. start.status \in Statuses
    BY <1>2 DEF Statuses
  <2> QED BY <1>1, <2>1, RowTypes DEF Row
<1>4. TypeOK
  <2>1. setup \in [mode : {st.mode : st \in Starts}, validates : BOOLEAN]
    BY <1>1
  <2>2. lease \in [op : Operation, owner : Servers \cup {NoServer}, live : BOOLEAN]
    BY DEF Init, NoLease, Operation
  <2>3. proc \in [Procs -> Process]
    BY RestType DEF Init
  <2>4. forward \in Job /\ target \in [prepared : 0 .. 2, synced : BOOLEAN, finalized : BOOLEAN]
    BY <1>1, <1>2 DEF Job
  <2>5. budget \in [commands : Nat, faults : Nat]
    BY <1>1, <1>2
  <2>6. current \in [Servers -> Runners \cup {NoRunner}] /\ reverse \in Job
    BY DEF Init, Job
  <2>7. captured \in 0 .. MaxTx /\ applied \in 0 .. captured /\ behind \in BOOLEAN
    <3>1. captured = 0 /\ applied = 0 /\ behind = FALSE
      BY DEF Init
    <3>2. 0 \in 0 .. MaxTx /\ 0 \in 0 .. 0
      BY ConstantsOK
    <3> QED BY <3>1, <3>2
  <2>8. overwrote \in BOOLEAN /\ expired \in Nat /\ results \in {"none", "good", "bad"}
    BY DEF Init
  <2> QED BY <1>3, <2>1, <2>2, <2>3, <2>4, <2>5, <2>6, <2>7, <2>8 DEF TypeOK
<1>5. \A p \in Procs : /\ proc[p].op = "none" /\ proc[p].pc = "idle" /\ proc[p].then = "idle"
                       /\ proc[p].seen = NewRow /\ proc[p].to = NewRow
  BY RestIs DEF Init
<1>6. RunnersFine
  <2>1. \A p \in Procs : PhaseFine(p)
    BY <1>5 DEF PhaseFine, Working, Runs, Handling
  <2>2. AtWork = {}
    BY <1>5 DEF AtWork, Working
  <2>3. IsFiniteSet(AtWork) /\ Cardinality(AtWork) = 0
    BY <2>2, FS_EmptySet
  <2> QED BY <2>1, <2>3 DEF RunnersFine, Allowance, Init
<1>7. RowsFine
  BY <1>2, <1>3, <1>5 DEF RowsFine, RowFine, NewRow
<1>8. PreparedFine
  <2>1. Preparers = {} /\ \A p \in Procs : ~Writes(p)
    BY <1>5 DEF Preparers, Writes, At
  <2>2. (task.status \in Before => target.prepared = 0) /\ target.prepared <= 1
    BY <1>1, <1>2, <1>3 DEF Before
  <2> QED BY <2>1, <2>2 DEF PreparedFine
<1> QED BY <1>4, <1>6, <1>7, <1>8 DEF IInv

LEMMA StepHolds == ASSUME IInv, NEW p \in Procs, Step(p) PROVE IInv'
BY StoreRowStep, FailStep, ReleaseStep, ValidateStep, EnsureStep, PrecheckStep, CheckedStep,
   PreparingStep, PlanStep, PlannedStep, DeleteResultsStep, CompareStep, FinishStep,
   RevalidateStep, RecoverStep, AcquireStartStep, LaunchStep, StopStep, WaitStep, DrainStep,
   SyncStep, FinalizeStep, RolledBackStep
   DEF Step

LEMMA NextHolds == ASSUME IInv, [Next]_vars PROVE IInv'
<1>1. CASE UNCHANGED vars
  <2>1. TypeOK'
    BY <1>1 DEF IInv, TypeOK, vars, world, cdc, hist
  <2> QED BY <1>1, <2>1, RowStays, StillSame, AllSame DEF vars, world, cdc, hist
<1>2. CASE \E p \in Procs : Step(p)
  BY <1>2, StepHolds
<1>3. CASE \E c \in Calls, s \in Servers : Command(c, s)
  BY <1>3, CommandStep
<1>4. CASE \E c \in Calls : StartAborted(c)
  BY <1>4, StartAbortedStep
<1>5. CASE \E s \in Servers : Scan(s) \/ ScanSlow(s) \/ Crash(s)
  BY <1>5, ScanStep, ScanSlowStep, CrashStep
<1>6. CASE \E r \in Runners : Renew(r)
  BY <1>6, RenewStep DEF Procs
<1>7. CASE ExpireHeld \/ ExpireAbandoned
  BY <1>7, ExpireHeldStep, ExpireAbandonedStep
<1>8. CASE ReaderStarts \/ Capture \/ Apply \/ ReaderStops \/ ReverseFlow
  BY <1>8, ReaderStartsStep, WorkersStep
<1> QED BY <1>1, <1>2, <1>3, <1>4, <1>5, <1>6, <1>7, <1>8 DEF Next

LEMMA Inductive == Spec => []IInv
<1>1. Init => IInv
  BY InitHolds
<1>2. IInv /\ [Next]_vars => IInv'
  BY NextHolds
<1> QED BY <1>1, <1>2, PTL DEF Spec

\* Every variable keeps its type: among others, a row that is stored is a row
\* that was read or decided, and the lease belongs to a known server or to none.
THEOREM TypeCorrect == Spec => []TypeOK
<1>1. IInv => TypeOK
  BY DEF IInv
<1> QED BY <1>1, Inductive, PTL

\* However the leases expire, are renewed or released, and whoever crashes, one
\* runner works on the task and one more for each lease that expired under its
\* holder (service.go: launchPrepareWithLease, startValidation, RecoverInterrupted).
THEOREM RunnersBoundedCorrect == Spec => []RunnersBounded
<1>1. IInv => RunnersBounded
  <2> SUFFICES ASSUME IInv PROVE RunnersBounded
    OBVIOUS
  <2> DEFINE working == {r \in Runners : Working(r)}
  <2>1. working \subseteq AtWork
    BY DEF AtWork, Procs
  <2>2. Cardinality(working) <= Cardinality(AtWork) /\ Cardinality(working) \in Nat
    BY <2>1, Count, FS_Subset, FS_CardinalityType DEF IInv
  <2>3. Cardinality(working) <= 1 + expired
    BY <2>2, Count DEF IInv
  <2> QED BY <2>3 DEF RunnersBounded
<1> QED BY <1>1, Inductive, PTL

\* The target is prepared at most once while no stored row is older than the one
\* it replaces: a task gets past PREPARING for one runner and never comes back
\* (service.go: prepareTask).
THEOREM PreparedOnceCorrect == Spec => []PreparedOnce
<1>1. IInv => PreparedOnce
  BY DEF IInv, TypeOK, PreparedFine, PreparedOnce
<1> QED BY <1>1, Inductive, PTL

-----------------------------------------------------------------------------
(***************************************************************************)
(* The cutover, step by step.                                              *)
(***************************************************************************)
OneHandler == \A c, d \in Calls : c = d

\* A phase in which a handler holds a row for later, or is cutting over.
Firm == {"store", "acquire", "stop", "wait", "drain", "sync", "finalize"}

\* The process is in none of them after the step, or holds what it should.
OwnFine(p) ==
  \/ proc'[p].pc \notin Firm
  \/ CutoverWrites(p)' /\ (p \in Calls => CutoverRows(p)' /\ CutoverStage(p)')

\* The status is not one of those of cutover, or it was it before and nothing
\* that the handler relies on changed.
Kept ==
  task'.status \in CutoverStatuses =>
    /\ task'.status = task.status
    /\ Quiet => Quiet'
    /\ (Quiet \/ task.status = "FINISHED") /\ captured = applied =>
         captured' = applied' /\ target'.synced = target.synced
    /\ target'.finalized = target.finalized

LEMMA CutoverStep ==
  ASSUME CutoverHolds, \A q \in Procs : Same(q) \/ OwnFine(q), Kept
  PROVE  CutoverHolds'
<1>1. ASSUME NEW q \in Procs PROVE CutoverWrites(q)'
  BY <1>1 DEF CutoverHolds, CutoverWrites, OwnFine, Firm, Same, SameRows, Writes, At
<1>2. ASSUME NEW c \in Calls PROVE CutoverRows(c)' /\ CutoverStage(c)'
  <2>1. c \in Procs
    BY DEF Procs
  <2>2. CASE Same(c)
    <3>1. CutoverRows(c)'
      BY <2>2 DEF CutoverHolds, CutoverRows, Same, SameRows, Writes, At
    <3>2. CutoverStage(c)'
      BY <2>2 DEF CutoverHolds, CutoverStage, Kept, CutoverStatuses, Complete, Same, SameRows, At
    <3> QED BY <3>1, <3>2
  <2>3. CASE proc'[c].pc \notin Firm
    BY <2>3 DEF CutoverRows, CutoverStage, Firm, Writes, At
  <2> QED BY <2>1, <2>2, <2>3 DEF OwnFine
<1>3. task'.status = "FINISHED" => Complete'
  BY DEF CutoverHolds, Kept, Complete, CutoverStatuses
<1> QED BY <1>1, <1>2, <1>3 DEF CutoverHolds

\* A step of the handler, when there is no other.
LEMMA HandlerCutover ==
  ASSUME CutoverHolds, OneHandler, NEW c \in Calls, Only(c), OwnFine(c),
         task'.status = "FINISHED" => Complete'
  PROVE  CutoverHolds'
<1>1. \A q \in Procs : q # c => Same(q)
  BY DEF Only
<1>2. \A d \in Calls : d = c
  BY DEF OneHandler
<1>3. ASSUME NEW q \in Procs PROVE CutoverWrites(q)'
  BY <1>1, <1>3 DEF CutoverHolds, CutoverWrites, OwnFine, Firm, Same, SameRows, Writes, At
<1>4. CutoverRows(c)' /\ CutoverStage(c)'
  BY DEF OwnFine, CutoverRows, CutoverStage, Firm, Writes, At
<1> QED BY <1>2, <1>3, <1>4 DEF CutoverHolds

LEMMA RowKept ==
  ASSUME UNCHANGED <<cdc, target>>, task'.status = task.status \/ task'.status \notin CutoverStatuses
  PROVE  Kept
BY DEF Kept, Quiet, cdc

\* A process that goes to another phase, fails or ends.
LEMMA GoesFine ==
  ASSUME TypeOK, NEW p \in Procs, NEW pc \in Pc \ Firm,
         Goto(p, pc) \/ Fails(p, "release") \/ Fails(p, "idle") \/ Ends(p)
  PROVE  \A q \in Procs : Same(q) \/ OwnFine(q)
<1>1. "release" \in Pc /\ "idle" \in Pc
  BY DEF Pc
<1>2. Only(p) /\ proc'[p].pc \in {pc, "fail", "idle"}
  BY <1>1, GotoEffect, FailsEffect, EndsEffect
<1> QED BY <1>2 DEF Only, OwnFine, Firm

LEMMA InstalledGoes ==
  ASSUME NEW p \in Procs, NEW s, NEW op, NEW pc \in {"precheck", "delete"}, Installed(p, s, op, pc)
  PROVE  \A q \in Procs : Same(q) \/ OwnFine(q)
BY DEF Installed, OwnFine, Firm

LEMMA StartValidationCutover ==
  ASSUME IInv, NEW p \in Procs, StartValidation(p)
  PROVE  \A q \in Procs : Same(q) \/ OwnFine(q)
<1>1. /\ TypeOK /\ proc[p].server \in Servers \cup {NoServer} /\ "validation" \in Operation
      /\ "delete" \in Pc /\ "idle" \in Pc \ Firm
  BY DEF IInv, TypeOK, Process, Operation, Pc, Firm
<1>2. CASE ~Obtainable(proc[p].server)
  <2>1. Fails(p, "idle") \/ Ends(p)
    BY <1>2 DEF StartValidation
  <2> QED BY <1>1, <2>1, GoesFine
<1>3. CASE Obtainable(proc[p].server)
  <2>1. Installed(p, proc[p].server, "validation", "delete")
    BY <1>1, <1>3, InstallEffect DEF StartValidation
  <2> QED BY <2>1, InstalledGoes
<1> QED BY <1>2, <1>3

\* The steps of a runner, and of others, that store nothing of cutover.
LEMMA RunnerCutover ==
  ASSUME IInv, CutoverHolds, Watched, NEW p \in Procs,
         \/ Precheck(p) \/ Checked(p) \/ Plan(p) \/ Planned(p) \/ DeleteResults(p) \/ Compare(p)
         \/ Fail(p)
  PROVE  CutoverHolds'
<1> DEFINE fine == \A q \in Procs : Same(q) \/ OwnFine(q)
<1>1. /\ TypeOK /\ task \in Row
      /\ {"checked", "preparing", "planned", "release", "compare", "finish", "idle"} \subseteq Pc \ Firm
      /\ {"PRECHECK_SUCCESS", "PREPARING", "FAILED"} \subseteq Statuses \ CutoverStatuses
  BY DEF IInv, TypeOK, Pc, Firm, Statuses, CutoverStatuses
<1>2. \A status \in Statuses : With(task, status).status = status
  BY <1>1, WithIs
<1>3. CASE Precheck(p)
  <2>1. Goto(p, "checked") \/ Fails(p, "release")
    BY <1>3 DEF Precheck, Put, GoOn
  <2>2. fine
    BY <1>1, <2>1, GoesFine
  <2>3. Kept
    BY <1>1, <1>2, <1>3, RowKept DEF Precheck, Put
  <2> QED BY <2>2, <2>3, CutoverStep
<1>4. CASE Checked(p)
  <2>1. Goto(p, "preparing") \/ Fails(p, "release")
    BY <1>4 DEF Checked, Put, GoOn
  <2>2. fine
    BY <1>1, <2>1, GoesFine
  <2>3. Kept
    BY <1>1, <1>2, <1>4, RowKept DEF Checked, Put
  <2> QED BY <2>2, <2>3, CutoverStep
<1>5. CASE Plan(p)
  <2>1. fine
    BY <1>1, <1>5, GoesFine DEF Plan
  <2>2. target'.synced = target.synced /\ target'.finalized = target.finalized
    BY <1>1, <1>5 DEF Plan, TypeOK
  <2>3. Kept
    BY <1>5, <2>2 DEF Plan, Kept, Quiet, cdc
  <2> QED BY <2>1, <2>3, CutoverStep
<1>6. CASE Planned(p)
  <2>1. Goto(p, "release") \/ Fails(p, "release")
    BY <1>6 DEF Planned
  <2>2. fine
    BY <1>1, <2>1, GoesFine
  <2>3. CASE task.status = "PREPARING"
    <3>1. PICK empty \in BOOLEAN : task' = [With(task, AfterPlanning(empty)) EXCEPT !.empty = empty]
      BY <1>6, <2>3 DEF Planned
    <3>2. AfterPlanning(empty) = "CDC_INITIALIZING"
      BY DEF AfterPlanning, Watched
    <3>3. With(task, "CDC_INITIALIZING") \in Row /\ With(task, "CDC_INITIALIZING").status = "CDC_INITIALIZING"
      BY <1>1, RowTypes, WithIs DEF Statuses
    <3>4. task'.status = "CDC_INITIALIZING"
      BY <3>1, <3>2, <3>3 DEF Row
    <3>5. Kept
      BY <3>4 DEF Kept, CutoverStatuses
    <3> QED BY <2>2, <3>5, CutoverStep
  <2>4. CASE task.status # "PREPARING"
    <3>1. Kept
      BY <1>6, <2>4, RowKept DEF Planned, cdc
    <3> QED BY <2>2, <3>1, CutoverStep
  <2> QED BY <2>3, <2>4
<1>7. CASE DeleteResults(p)
  <2>1. fine
    BY <1>1, <1>7, GoesFine DEF DeleteResults
  <2>2. Kept
    BY <1>7, RowKept DEF DeleteResults
  <2> QED BY <2>1, <2>2, CutoverStep
<1>8. CASE Compare(p)
  <2>1. Kept
    BY <1>8, RowKept DEF Compare
  <2>2. CASE Goto(p, "finish") \/ Goto(p, "release") \/ Fails(p, "release")
    <3>1. fine
      BY <1>1, <2>2, GoesFine
    <3> QED BY <2>1, <3>1, CutoverStep
  <2>3. CASE \E bad \in BOOLEAN : proc' = [proc EXCEPT ![p].pc = "finish", ![p].bad = bad]
    <3> PICK bad \in BOOLEAN : proc' = [proc EXCEPT ![p].pc = "finish", ![p].bad = bad]
      BY <2>3
    <3>1. /\ proc'[p].pc = "finish"
          /\ \A q \in Procs : q # p => proc'[q] = proc[q]
      BY <1>1 DEF TypeOK, Process
    <3>2. fine
      BY <3>1 DEF Same, SameWork, SameRows, OwnFine, Firm
    <3> QED BY <2>1, <3>2, CutoverStep
  <2> QED BY <1>8, <2>2, <2>3 DEF Compare
<1>9. CASE Fail(p)
  <2>1. proc[p].then \in {"idle", "release"}
    BY <1>9 DEF Fail, At, IInv, RunnersFine, PhaseFine
  <2>2. Goto(p, "release") \/ Ends(p)
    BY <1>9, <2>1 DEF Fail, Put, GoOn
  <2>3. fine
    BY <1>1, <2>2, GoesFine
  <2>4. Kept
    BY <1>1, <1>2, <1>9, RowKept DEF Fail, Put
  <2> QED BY <2>3, <2>4, CutoverStep
<1> QED BY <1>3, <1>4, <1>5, <1>6, <1>7, <1>8, <1>9

LEMMA PreparingCutover ==
  ASSUME IInv, CutoverHolds, NEW p \in Procs, Preparing(p)
  PROVE  CutoverHolds'
<1>1. /\ TypeOK /\ task \in Row /\ "plan" \in Pc \ Firm
      /\ UNCHANGED <<task, forward, captured, applied, target>>
  BY DEF Preparing, world, cdc, IInv, TypeOK, Pc, Firm
<1>2. Kept
  BY <1>1 DEF Kept, Quiet
<1>3. CASE Goto(p, "plan") \/ Fails(p, "release")
  BY <1>1, <1>2, <1>3, GoesFine, CutoverStep
<1>4. CASE WillStore(p, task, "plan")
  <2>1. /\ Only(p) /\ proc'[p].pc = "store" /\ proc'[p].then = "plan"
        /\ proc'[p].seen = task /\ proc'[p].to = task
    BY <1>1, <1>4, WillStoreEffect
  <2>2. CutoverWrites(p)' /\ CutoverRows(p)' /\ CutoverStage(p)'
    BY <1>1, <2>1 DEF CutoverWrites, CutoverRows, CutoverStage, At
  <2> QED BY <1>2, <2>1, <2>2, CutoverStep DEF Only, OwnFine
<1> QED BY <1>3, <1>4 DEF Preparing

LEMMA FinishCutover ==
  ASSUME IInv, CutoverHolds, Watched, NEW p \in Procs, Finish(p)
  PROVE  CutoverHolds'
<1>1. TypeOK /\ task \in Row /\ "release" \in Pc \ Firm /\ "release" \in Pc
  BY DEF IInv, TypeOK, Pc, Firm
<1>2. Kept
  BY RowKept DEF Finish
<1>3. CASE proc[p].cancelled
  BY <1>1, <1>2, <1>3, GoesFine, CutoverStep DEF Finish
<1>4. CASE ~proc[p].cancelled
  <2> DEFINE drifted == setup.mode # "FULL" /\ task.barrier # applied
             Row1(status) == [With(task, status) EXCEPT !.barrier = IF drifted THEN NoBarrier ELSE @]
  <2>1. PICK status \in Verdicts(p) : WillStore(p, Row1(status), "release")
    BY <1>4 DEF Finish
  <2>2. Row1(status) \in Row /\ Row1(status).status \in {"CDC_CATCHING_UP", "FAILED"}
    <3>1. status \in Statuses /\ status \in {"CDC_CATCHING_UP", "FAILED"}
      BY DEF Verdicts, Watched, Statuses
    <3>2. With(task, status) \in Row /\ With(task, status).status = status
      BY <1>1, <3>1, RowTypes, WithIs
    <3> QED BY <3>1, <3>2 DEF Row
  <2> HIDE DEF Row1
  <2>3. /\ Only(p) /\ proc'[p].pc = "store" /\ proc'[p].then = "release"
        /\ proc'[p].to.status \in {"CDC_CATCHING_UP", "FAILED"}
    BY <1>1, <2>1, <2>2, WillStoreEffect
  <2>4. CutoverWrites(p)' /\ CutoverRows(p)' /\ CutoverStage(p)'
    BY <2>3 DEF CutoverWrites, CutoverRows, CutoverStage, CutoverStatuses, At
  <2> QED BY <1>2, <2>3, <2>4, CutoverStep DEF Only, OwnFine
<1> QED BY <1>3, <1>4

\* The leases, the recovery and crashes.
LEMMA OtherCutover ==
  ASSUME IInv, CutoverHolds,
         \/ \E p \in Procs : Release(p) \/ Validate(p) \/ Revalidate(p) \/ Recover(p) \/ Launch(p)
         \/ \E c \in Calls : StartAborted(c)
         \/ \E s \in Servers : Scan(s) \/ ScanSlow(s) \/ Crash(s)
         \/ \E r \in Runners : Renew(r)
         \/ ExpireHeld \/ ExpireAbandoned
  PROVE  CutoverHolds'
<1> DEFINE fine == \A q \in Procs : Same(q) \/ OwnFine(q)
<1>1. Kept
  BY RowKept DEF Release, Validate, Revalidate, Recover, Launch, StartAborted, Scan, ScanSlow, Crash,
     Renew, ExpireHeld, ExpireAbandoned, world
<1>2. TypeOK /\ {"idle", "release", "revalidate"} \subseteq Pc \ Firm
  BY DEF IInv, Pc, Firm
<1>3. ASSUME NEW p \in Procs, Release(p) PROVE fine
  <2>1. Ends(p) \/ proc' = [proc EXCEPT ![p].pc = "revalidate", ![p].op = "none"]
    BY <1>3 DEF Release
  <2>2. CASE Ends(p)
    BY <1>2, <2>2, GoesFine
  <2>3. CASE proc' = [proc EXCEPT ![p].pc = "revalidate", ![p].op = "none"]
    <3>1. proc'[p].pc = "revalidate" /\ \A q \in Procs : q # p => proc'[q] = proc[q]
      BY <1>2, <2>3 DEF TypeOK, Process
    <3> QED BY <3>1 DEF Same, SameWork, SameRows, OwnFine, Firm
  <2> QED BY <2>1, <2>2, <2>3
<1>4. ASSUME NEW p \in Procs, Validate(p) \/ Revalidate(p) PROVE fine
  BY <1>2, <1>4, StartValidationCutover, GoesFine DEF Validate, Revalidate
<1>5. ASSUME NEW s \in Servers, NEW status, RecoverAs(s, status) PROVE fine
  <2>1. s \in Procs /\ s \in Servers \cup {NoServer} /\ "prepare" \in Operation /\ "precheck" \in Pc
    BY DEF Procs, Operation, Pc
  <2>2. CASE status = "VALIDATING"
    BY <1>5, <2>1, <2>2, StartValidationCutover DEF RecoverAs
  <2>3. CASE Ends(s)
    BY <1>2, <2>1, <2>3, GoesFine
  <2>4. CASE Install(After(s, Rest(s)), s, "prepare", "precheck")
    BY <2>1, <2>4, InstallEffect, InstalledGoes
  <2>5. CASE proc' = [proc EXCEPT ![s] = [Rest(s) EXCEPT !.op = "recovery", !.pc = "fail",
                                                         !.then = "release"]]
    <3>1. proc'[s].pc = "fail" /\ \A q \in Procs : q # s => proc'[q] = proc[q]
      BY <1>2, <2>1, <2>5 DEF TypeOK, Rest, Idle
    <3> QED BY <3>1 DEF Same, SameWork, SameRows, OwnFine, Firm
  <2> QED BY <1>5, <2>2, <2>3, <2>4, <2>5 DEF RecoverAs
<1>6. ASSUME NEW p \in Procs, Launch(p) PROVE fine
  <2>1. proc[p].server \in Servers \cup {NoServer} /\ "prepare" \in Operation /\ "precheck" \in Pc
    BY <1>2 DEF TypeOK, Process, Operation, Pc
  <2> QED BY <1>6, <2>1, InstallEffect, InstalledGoes DEF Launch
<1>7. ASSUME NEW c \in Calls, StartAborted(c) PROVE fine
  <2>1. c \in Procs
    BY DEF Procs
  <2> QED BY <1>2, <1>7, <2>1, GoesFine DEF StartAborted
<1>8. ASSUME NEW s \in Servers, ScanSlow(s) PROVE fine
  <2>1. s \in Procs /\ s \notin Calls
    BY ConstantsOK DEF Procs
  <2>2. proc'[s].pc = "acquire" /\ \A q \in Procs : q # s => proc'[q] = proc[q]
    BY <1>2, <1>8, <2>1 DEF ScanSlow, TypeOK, Process
  <2>3. CutoverWrites(s)'
    BY <2>1, <2>2 DEF CutoverWrites, Writes, At
  <2> QED BY <2>1, <2>2, <2>3 DEF Same, SameWork, SameRows, OwnFine
<1>9. ASSUME NEW s \in Servers, Crash(s) PROVE fine
  <2>1. ASSUME NEW q \in Procs PROVE proc'[q] = proc[q] \/ proc'[q].pc = "idle"
    BY <1>9, RestIs DEF Crash
  <2> QED BY <2>1 DEF Same, SameWork, SameRows, OwnFine, Firm
<1>10. ASSUME NEW r \in Runners, Renew(r) PROVE fine
  <2>1. proc' = proc \/ proc' = [proc EXCEPT ![r].cancelled = TRUE]
    BY <1>10 DEF Renew
  <2> QED BY <1>2, <2>1 DEF TypeOK, Process, Same, SameWork, SameRows
<1>11. ASSUME ExpireHeld \/ ExpireAbandoned PROVE fine
  BY <1>11, StillSame DEF ExpireHeld, ExpireAbandoned
<1>12. fine
  <2>1. ASSUME NEW s \in Servers, Scan(s) \/ Recover(s) PROVE fine
    BY <1>5, <2>1 DEF Scan, Recover
  <2>2. \A p : Recover(p) => p \in Servers
    BY DEF Recover
  <2> HIDE DEF fine
  <2> QED BY <1>3, <1>4, <1>6, <1>7, <1>8, <1>9, <1>10, <1>11, <2>1, <2>2
<1> QED BY <1>1, <1>12, CutoverStep

\* The workers capture nothing once the reader has stopped, and apply nothing
\* when everything is applied.
LEMMA WorkersCutover ==
  ASSUME IInv, CutoverHolds,
         ReaderStarts \/ Capture \/ Apply \/ ReaderStops \/ ReverseFlow
  PROVE  CutoverHolds'
<1>1. UNCHANGED proc
  BY DEF ReaderStarts, Capture, Apply, ReaderStops, ReverseFlow
<1>2. TypeOK /\ task \in Row
  BY DEF IInv, TypeOK
<1>3. CASE ReaderStarts
  <2>1. PICK status \in {"CDC_CATCHING_UP", "FULL_MIGRATING", "ROLLBACK_SYNCING"} :
          task' = With(task, status)
    BY <1>3 DEF ReaderStarts
  <2>2. task'.status \notin CutoverStatuses
    BY <1>2, <2>1, WithIs DEF CutoverStatuses
  <2>3. Kept
    BY <2>2 DEF Kept
  <2> QED BY <1>1, <2>3, StillSame, CutoverStep
<1>4. CASE Capture
  <2>1. Kept
    BY <1>4 DEF Capture, Kept, Quiet, CutoverStatuses, CaptureReady
  <2> QED BY <1>1, <2>1, StillSame, CutoverStep
<1>5. CASE Apply
  <2>1. applied # captured
    BY <1>2, <1>5 DEF Apply, TypeOK
  <2>2. target'.finalized = target.finalized /\ UNCHANGED <<task, forward>>
    BY <1>2, <1>5 DEF Apply, TypeOK
  <2>3. Kept
    BY <2>1, <2>2 DEF Kept, Quiet
  <2> QED BY <1>1, <2>3, StillSame, CutoverStep
<1>6. CASE ReaderStops \/ ReverseFlow
  <2>1. Kept
    BY <1>6 DEF ReaderStops, ReverseFlow, Kept, Quiet
  <2> QED BY <1>1, <2>1, StillSame, CutoverStep
<1> QED BY <1>3, <1>4, <1>5, <1>6

\* Of the commands only the handlers of cutover hold its statuses.
LEMMA BeginCutover ==
  ASSUME IInv, CutoverHolds, OneHandler, NEW c \in Calls, NEW s \in Servers,
         NEW pc \in {"acquire", "validate", "store", "stop", "sync"}, NEW status \in Statuses,
         NEW then \in {"idle", "launch", "ensure", "sync", "validate"},
         \/ pc = "acquire" /\ status = "PRECHECKING" /\ then # "sync"
         \/ pc = "store" /\ status \notin {"CUTOVER_RUNNING", "FINISHED"} /\ then # "sync"
         \/ pc = "stop" /\ status = "CUTOVER_RUNNING" /\ task.status = "READY_FOR_CUTOVER"
         \/ pc = "sync" /\ status = "CDC_CATCHING_UP" /\ then = "idle"
            /\ task.status = "FULL_MIGRATING",
         Handles(c, s, pc, With(task, status), then),
         UNCHANGED <<task, cdc, target>>
  PROVE  CutoverHolds'
<1>1. /\ TypeOK /\ task \in Row /\ pc \in Pc /\ then \in Pc
  BY DEF IInv, TypeOK, Pc
<1>2. With(task, status) \in Row /\ With(task, status).status = status
  BY <1>1, RowTypes, WithIs
<1>3. /\ Only(c) /\ proc'[c].pc = pc /\ proc'[c].then = then
      /\ proc'[c].seen = task /\ proc'[c].to.status = status
  BY <1>1, <1>2, BeganEffect
<1>4. CutoverWrites(c)' /\ CutoverRows(c)' /\ CutoverStage(c)'
  BY <1>3 DEF CutoverWrites, CutoverRows, CutoverStage, CutoverStatuses, Writes, At
<1>5. task'.status = "FINISHED" => Complete'
  BY DEF CutoverHolds, Complete, cdc
<1> QED BY <1>3, <1>4, <1>5, HandlerCutover DEF OwnFine

LEMMA FollowedCutover ==
  ASSUME CutoverHolds, OneHandler, NEW c \in Calls, NEW row, NEW then,
         Followed(c, row, then), then = "stop" => row.status # "READY_FOR_CUTOVER",
         then \in {"idle", "ensure", "validate", "rollback", "stop"},
         task'.status \notin CutoverStatuses
  PROVE  CutoverHolds'
<1>1. Kept /\ Only(c)
  BY DEF Kept, Followed
<1>2. CASE then = "idle"
  <2>1. \A q \in Procs : Same(q)
    BY <1>2 DEF Followed, Only
  <2> QED BY <1>1, <2>1, CutoverStep
<1>3. CASE then # "idle"
  <2>1. proc'[c].pc = then /\ proc'[c].seen = row /\ proc'[c].to = row /\ proc'[c].then = "idle"
    BY <1>3 DEF Followed
  <2>2. OwnFine(c)
    BY <1>3, <2>1 DEF OwnFine, Firm, CutoverWrites, CutoverRows, CutoverStage, Writes, At
  <2> QED BY <1>1, <2>2, CutoverStep DEF Only
<1> QED BY <1>2, <1>3

LEMMA SetCutover ==
  ASSUME IInv, CutoverHolds, OneHandler, NEW c \in Calls, NEW s \in Servers, NEW row \in Row,
         NEW then \in {"idle", "ensure", "validate", "rollback", "stop"},
         \/ Set(c, s, row, then) \/ SetCancelling(c, s, row, then)
         \/ task' = row /\ proc' = Stored(c, s, row, then),
         row.status \notin CutoverStatuses
  PROVE  CutoverHolds'
<1>1. then \in Pc /\ current \in [Servers -> Runners \cup {NoRunner}] /\ task' = row
  BY DEF Pc, IInv, TypeOK, Set, SetCancelling
<1>2. Followed(c, row, then)
  <2>1. CASE proc' = Stored(c, s, row, then)
    BY <1>1, <2>1, StoredEffect
  <2>2. CASE SetCancelling(c, s, row, then)
    <3>1. CASE current[s] = NoRunner
      BY <1>1, <2>2, <3>1, StoredEffect DEF SetCancelling
    <3>2. CASE current[s] # NoRunner
      BY <1>1, <2>2, <3>2, StoredEffect DEF SetCancelling
    <3> QED BY <3>1, <3>2
  <2> QED BY <2>1, <2>2 DEF Set
<1> QED BY <1>1, <1>2, FollowedCutover DEF CutoverStatuses

LEMMA CommandCutover ==
  ASSUME IInv, CutoverHolds, Watched, OneHandler, NEW c \in Calls, NEW s \in Servers, Command(c, s)
  PROVE  CutoverHolds'
<1>1. task \in Row /\ TypeOK /\ RowFine(task)
  BY DEF IInv, TypeOK, RowsFine
<1>2. \A status \in Statuses : With(task, status) \in Row /\ With(task, status).status = status
  BY <1>1, RowTypes, WithIs
<1>3. {"PRECHECKING", "PAUSED", "CANCELLED", "FULL_MIGRATING", "READY_FOR_CUTOVER", "CUTOVER_RUNNING",
       "ROLLBACK_PREPARING", "ROLLBACK_READY", "ROLLBACK_RUNNING", "CDC_CATCHING_UP"} \subseteq Statuses
  BY DEF Statuses
<1>4. CASE Start(c, s)
  BY <1>3, <1>4, BeginCutover DEF Start, Begin
<1>5. CASE Resume(c, s)
  <2> DEFINE row == [With(task, task.from) EXCEPT !.from = "CREATED"]
             then == IF task.from \in Streaming THEN "ensure"
                     ELSE IF task.from = "VALIDATING" THEN "validate" ELSE "idle"
  <2>1. task.from \in Pausable /\ task.from \in Statuses /\ "CREATED" \in Statuses
    BY <1>1, <1>5 DEF Resume, RowFine, Row, Statuses
  <2>2. row \in Row /\ row.status = task.from
    <3>1. With(task, task.from) \in Row /\ With(task, task.from).status = task.from
      BY <1>2, <2>1
    <3> QED BY <1>1, <2>1, <3>1, RowTypes DEF Row
  <2>3. row.status \notin CutoverStatuses
    BY <2>1, <2>2 DEF Pausable, Streaming, CutoverStatuses
  <2>4. Set(c, s, row, then) /\ then \in {"idle", "ensure", "validate", "rollback", "stop"}
    BY <1>5 DEF Resume
  <2> HIDE DEF row, then
  <2> QED BY <2>2, <2>3, <2>4, SetCutover
<1>6. CASE Pause(c, s)
  <2> DEFINE row == [With(task, "PAUSED") EXCEPT !.from = task.status]
             then == IF task.status \in Streaming THEN "stop" ELSE "idle"
  <2>1. row \in Row /\ row.status = "PAUSED"
    <3>1. task.status \in Statuses
      BY <1>1 DEF Row
    <3>2. With(task, "PAUSED") \in Row /\ With(task, "PAUSED").status = "PAUSED"
      BY <1>2, <1>3
    <3> QED BY <1>1, <1>3, <3>1, <3>2, RowTypes DEF Row
  <2>2. SetCancelling(c, s, row, then) /\ then \in {"idle", "ensure", "validate", "rollback", "stop"}
    BY <1>6 DEF Pause
  <2> HIDE DEF row, then
  <2> QED BY <2>1, <2>2, SetCutover DEF CutoverStatuses
<1>7. CASE Cancel(c, s)
  BY <1>2, <1>3, <1>7, SetCutover DEF Cancel, CutoverStatuses
<1>8. CASE ValidateNow(c, s)
  <2>1. CASE Begin(c, s, "validate", task, "idle")
    <3>1. "validate" \in Pc /\ "idle" \in Pc /\ "validate" \notin Firm
      BY DEF Pc, Firm
    <3>2. Only(c) /\ proc'[c].pc = "validate"
      BY <1>1, <2>1, <3>1, BeganEffect DEF Begin
    <3>3. Kept
      BY <2>1, RowKept DEF Begin
    <3> QED BY <3>1, <3>2, <3>3, CutoverStep DEF Only, OwnFine
  <2>2. CASE Set(c, s, AtBarrier, "validate")
    BY <1>1, <2>2, BarrierRow, SetCutover DEF CutoverStatuses
  <2> QED BY <1>8, <2>1, <2>2 DEF ValidateNow
<1>9. CASE AutoValidate(c, s)
  BY <1>1, <1>9, BarrierRow, SetCutover DEF AutoValidate, CutoverStatuses
<1>10. CASE RepairValidation(c, s) \/ ReadyForCutover(c, s) \/ PrepareRollback(c, s)
  <2>1. \E status \in Statuses \ {"CUTOVER_RUNNING", "FINISHED"}, then \in {"idle", "ensure"} :
          Begin(c, s, "store", With(task, status), then)
    BY <1>3, <1>10 DEF RepairValidation, ReadyForCutover, PrepareRollback
  <2> QED BY <2>1, BeginCutover DEF Begin
<1>11. CASE Cutover(c, s)
  BY <1>3, <1>11, BeginCutover DEF Cutover, Begin
<1>12. CASE ReadyForRollback(c, s)
  BY <1>2, <1>3, <1>12, SetCutover DEF ReadyForRollback, CutoverStatuses
<1>13. CASE Rollback(c, s)
  BY <1>2, <1>3, <1>13, SetCutover DEF Rollback, CutoverStatuses
<1>14. CASE CopyDone(c, s)
  <2>1. AfterCopy = "CDC_CATCHING_UP"
    BY DEF AfterCopy, Watched
  <2>2. Handles(c, s, "sync", With(task, "CDC_CATCHING_UP"), "idle")
    BY <1>14, <2>1 DEF CopyDone
  <2> QED BY <1>3, <1>14, <2>2, BeginCutover DEF CopyDone, world
<1> QED BY <1>4, <1>5, <1>6, <1>7, <1>8, <1>9, <1>10, <1>11, <1>12, <1>13, <1>14 DEF Command

LEMMA StoreRowCutover ==
  ASSUME IInv, CutoverHolds, Watched', OneHandler, NEW p \in Procs, StoreRow(p)
  PROVE  CutoverHolds'
<1>1. /\ TypeOK /\ proc[p].pc = "store" /\ proc[p].then \in Pc
      /\ proc[p].then \in {"idle", "plan", "release", "launch", "ensure", "validate", "sync"}
      /\ proc[p].then = "sync" => p \in Calls
  BY DEF StoreRow, At, IInv, RunnersFine, PhaseFine, Pc
<1>2. task' = proc[p].to /\ task = proc[p].seen /\ UNCHANGED <<cdc, target>>
  BY DEF StoreRow, Watched
<1>3. /\ Only(p) /\ proc'[p].pc = proc[p].then
      /\ proc[p].then = "sync" => proc'[p].seen = proc'[p].to /\ proc'[p].to = proc[p].to
  BY <1>1, StoreRowEffect
<1>4. Writes(p) /\ ~At(p, "sync") /\ CutoverWrites(p)
  BY <1>1 DEF Writes, At, CutoverHolds
<1>5. CASE p \notin Calls
  <2>1. task' = task \/ task'.status \notin CutoverStatuses
    BY <1>2, <1>4, <1>5 DEF CutoverWrites
  <2>2. Kept
    BY <1>2, <2>1, RowKept
  <2>3. OwnFine(p)
    BY <1>1, <1>3, <1>5 DEF OwnFine, Firm
  <2> QED BY <1>3, <2>2, <2>3, CutoverStep DEF Only
<1>6. CASE p \in Calls
  <2>1. CutoverRows(p) /\ CutoverStage(p)
    BY <1>6 DEF CutoverHolds
  <2>2. task'.status = "FINISHED" => Complete'
    <3> SUFFICES ASSUME task'.status = "FINISHED" PROVE Complete
      BY <1>2 DEF Complete, cdc
    <3>1. CASE task' = task
      BY <3>1 DEF CutoverHolds
    <3>2. CASE task' # task
      BY <1>2, <1>4, <2>1, <3>2 DEF CutoverWrites, CutoverStage
    <3> QED BY <3>1, <3>2
  <2>3. CASE proc[p].then # "sync"
    <3>1. OwnFine(p)
      BY <1>1, <1>3, <2>3 DEF OwnFine, Firm
    <3> QED BY <1>3, <1>6, <2>2, <3>1, HandlerCutover
  <2>4. CASE proc[p].then = "sync"
    <3>1. proc'[p].pc = "sync" /\ proc'[p].seen = proc'[p].to /\ proc'[p].to = proc[p].to
          /\ task'.status = "CUTOVER_RUNNING" /\ task.status = "READY_FOR_CUTOVER"
      BY <1>2, <1>3, <1>4, <2>1, <2>4 DEF CutoverRows
    <3>2. Quiet /\ captured = applied
      BY <1>1, <1>2, <2>1, <3>1 DEF CutoverStage, At
    <3>3. OwnFine(p)
      BY <1>2, <3>1, <3>2 DEF OwnFine, CutoverWrites, CutoverRows, CutoverStage, At, Quiet, cdc
    <3> QED BY <1>3, <1>6, <2>2, <3>3, HandlerCutover
  <2> QED BY <2>3, <2>4
<1> QED BY <1>5, <1>6

LEMMA AcquireStartCutover ==
  ASSUME IInv, CutoverHolds, NEW c \in Procs, AcquireStart(c)
  PROVE  CutoverHolds'
<1>1. /\ TypeOK /\ c \in Calls /\ c \notin Servers /\ proc[c].pc = "acquire" /\ proc[c].then = "launch"
      /\ "idle" \in Pc \ Firm
  BY ConstantsOK DEF AcquireStart, At, IInv, RunnersFine, PhaseFine, Pc, Firm
<1>2. Kept
  BY RowKept DEF AcquireStart
<1>3. CASE Ends(c)
  BY <1>1, <1>2, <1>3, GoesFine, CutoverStep
<1>4. CASE proc' = [proc EXCEPT ![c].op = "prepare", ![c].pc = "store"]
  <2>1. Only(c) /\ SameRows(c) /\ proc'[c].pc = "store" /\ proc'[c].then = "launch"
    BY <1>1, <1>4 DEF TypeOK, Only, Same, SameWork, SameRows, Process, Pc, Operation
  <2>2. proc[c].to.status = "PRECHECKING"
    BY <1>1 DEF CutoverHolds, CutoverRows, At
  <2>3. OwnFine(c)
    BY <2>1, <2>2 DEF OwnFine, CutoverWrites, CutoverRows, CutoverStage, CutoverStatuses, SameRows, At
  <2> QED BY <1>2, <2>1, <2>3, CutoverStep DEF Only
<1> QED BY <1>3, <1>4 DEF AcquireStart

\* What the handler does after its first step.
LEMMA HandlingCutover ==
  ASSUME IInv, CutoverHolds, OneHandler, Watched', NEW c \in Procs,
         Ensure(c) \/ Stop(c) \/ Wait(c) \/ Drain(c) \/ Sync(c) \/ Finalize(c) \/ RolledBack(c)
  PROVE  CutoverHolds'
<1>1. /\ TypeOK /\ c \in Calls
      /\ proc[c] \in Process /\ proc[c].seen \in Row
  BY DEF Ensure, Stop, Wait, Drain, Sync, Finalize, RolledBack, At, IInv, TypeOK, RunnersFine,
     PhaseFine, Handling, Process
<1>2. CutoverRows(c) /\ CutoverStage(c) /\ CutoverWrites(c)
  BY <1>1 DEF CutoverHolds
<1>3. {"wait", "drain", "store", "finalize", "stop", "idle"} \subseteq Pc
      /\ {"FAILED", "FINISHED", "ROLLED_BACK"} \subseteq Statuses
  BY DEF Pc, Statuses
<1>4. \A status \in Statuses : With(proc[c].seen, status).status = status
  BY <1>1, WithIs
<1>5. ASSUME Ends(c) PROVE Only(c) /\ OwnFine(c)
  BY <1>1, <1>5, EndsEffect DEF OwnFine, Firm
<1>6. ASSUME NEW pc \in Pc, Goto(c, pc)
      PROVE  Only(c) /\ SameRows(c) /\ proc'[c].pc = pc /\ proc'[c].then = proc[c].then
  BY <1>1, <1>6, GotoEffect
<1>7. ASSUME StoreFailed(c)
      PROVE  Only(c) /\ OwnFine(c)
  <2>1. WillEnd(c, "FAILED")
    BY <1>7 DEF StoreFailed, WillEnd
  <2>2. /\ Only(c) /\ proc'[c].pc = "store" /\ proc'[c].then = "idle"
        /\ proc'[c].to.status = "FAILED"
    BY <1>1, <1>3, <1>4, <2>1, WillEndEffect
  <2> QED BY <2>2 DEF OwnFine, CutoverWrites, CutoverRows, CutoverStage, CutoverStatuses, At
<1>8. CASE Ensure(c)
  <2>1. task'.status = "FINISHED" => Complete'
    BY <1>8 DEF Ensure, SetJob, CutoverHolds, Complete
  <2> QED BY <1>1, <1>5, <1>8, <2>1, HandlerCutover DEF Ensure
<1>9. CASE Stop(c)
  <2>1. task'.status = "FINISHED" => Complete'
    BY <1>9 DEF Stop, SetJob, CutoverHolds, Complete
  <2>2. CASE proc[c].seen.status = "READY_FOR_CUTOVER"
    <3>1. SameRows(c) /\ Only(c) /\ proc'[c].pc = "wait" /\ proc'[c].then = proc[c].then
      BY <1>3, <1>6, <1>9, <2>2 DEF Stop
    <3>2. proc[c].pc = "stop" /\ Writes(c)
      BY <1>9, <2>2 DEF Stop, At, Writes
    <3>3. OwnFine(c)
      BY <1>2, <2>2, <3>1, <3>2 DEF OwnFine, CutoverWrites, CutoverRows, CutoverStage, SameRows, At
    <3> QED BY <1>1, <2>1, <3>1, <3>3, HandlerCutover
  <2>3. CASE proc[c].seen.status # "READY_FOR_CUTOVER"
    BY <1>1, <1>5, <1>9, <2>1, <2>3, HandlerCutover DEF Stop
  <2> QED BY <2>2, <2>3
<1>10. CASE Wait(c)
  <2>1. (task'.status = "FINISHED" => Complete') /\ proc[c].pc = "wait"
    BY <1>10 DEF Wait, At, CutoverHolds, Complete, world, cdc
  <2>2. CASE Goto(c, "drain") /\ Quiet
    <3>1. SameRows(c) /\ Only(c) /\ proc'[c].pc = "drain" /\ proc'[c].then = proc[c].then
      BY <1>3, <1>6, <2>2
    <3>2. Quiet' /\ task' = task
      BY <1>10, <2>2 DEF Wait, world, cdc, Quiet
    <3>3. OwnFine(c)
      BY <1>2, <2>1, <3>1, <3>2
         DEF OwnFine, CutoverWrites, CutoverRows, CutoverStage, SameRows, At, Writes
    <3> QED BY <1>1, <2>1, <3>1, <3>3, HandlerCutover
  <2>3. CASE Ends(c)
    BY <1>1, <1>5, <2>1, <2>3, HandlerCutover
  <2> QED BY <1>10, <2>2, <2>3 DEF Wait, Quiet
<1>11. CASE Drain(c)
  <2>1. (task'.status = "FINISHED" => Complete') /\ proc[c].pc = "drain"
    BY <1>11 DEF Drain, At, CutoverHolds, Complete, world, cdc
  <2>2. CASE Goto(c, "store") /\ CaughtUp
    <3>1. SameRows(c) /\ Only(c) /\ proc'[c].pc = "store" /\ proc'[c].then = proc[c].then
      BY <1>3, <1>6, <2>2
    <3>2. /\ task' = task /\ captured' = applied' /\ Quiet' = Quiet
      BY <1>11, <2>2 DEF Drain, CaughtUp, world, cdc, Quiet
    <3>3. OwnFine(c)
      BY <1>2, <2>1, <3>1, <3>2
         DEF OwnFine, CutoverWrites, CutoverRows, CutoverStage, SameRows, At, Writes
    <3> QED BY <1>1, <2>1, <3>1, <3>3, HandlerCutover
  <2>3. CASE Ends(c)
    BY <1>1, <1>5, <2>1, <2>3, HandlerCutover
  <2> QED BY <1>11, <2>2, <2>3 DEF Drain
<1>12. CASE Sync(c)
  <2>1. proc[c].pc = "sync" /\ UNCHANGED <<task, cdc>>
    BY <1>12 DEF Sync, At
  <2>2. CASE /\ target' = [target EXCEPT !.synced = TRUE]
             /\ Goto(c, IF Last(c) THEN "finalize" ELSE "store")
    <3>1. target'.synced = TRUE /\ target'.finalized = target.finalized
      BY <1>1, <2>2 DEF TypeOK
    <3>2. task'.status = "FINISHED" => Complete'
      BY <2>1, <3>1 DEF CutoverHolds, Complete, cdc
    <3>3. /\ SameRows(c) /\ Only(c) /\ proc'[c].then = proc[c].then
          /\ proc'[c].pc = IF Last(c) THEN "finalize" ELSE "store"
      BY <1>3, <1>6, <2>2
    <3>4. OwnFine(c)
      <4>1. CASE proc[c].seen.status = "CUTOVER_RUNNING"
        <5>1. proc'[c].pc = "finalize"
          BY <3>3, <4>1 DEF Last
        <5> QED BY <1>2, <2>1, <3>1, <3>3, <4>1, <5>1
               DEF OwnFine, CutoverWrites, CutoverRows, CutoverStage, SameRows, At, Writes, Quiet, cdc
      <4>2. CASE proc[c].seen.status # "CUTOVER_RUNNING"
        <5>1. proc[c].to.status = "CDC_CATCHING_UP" /\ proc[c].then = "idle"
          BY <1>2, <2>1, <4>2 DEF CutoverRows, At
        <5>2. proc'[c].pc = "store"
          BY <3>3, <4>2, <5>1 DEF Last
        <5> QED BY <3>3, <5>1, <5>2
               DEF OwnFine, CutoverWrites, CutoverRows, CutoverStage, CutoverStatuses, SameRows, At
      <4> QED BY <4>1, <4>2
    <3> QED BY <1>1, <3>2, <3>3, <3>4, HandlerCutover
  <2>3. CASE StoreFailed(c) /\ UNCHANGED target
    <3>1. task'.status = "FINISHED" => Complete'
      BY <2>1, <2>3 DEF CutoverHolds, Complete, cdc
    <3> QED BY <1>1, <1>7, <2>3, <3>1, HandlerCutover
  <2> QED BY <1>12, <2>2, <2>3 DEF Sync
<1>13. CASE Finalize(c)
  <2>1. /\ proc[c].pc = "finalize" /\ UNCHANGED <<task, cdc>>
        /\ proc[c].seen.status = "CUTOVER_RUNNING"
    BY <1>2, <1>13 DEF Finalize, At, CutoverRows
  <2>2. CASE /\ target' = [target EXCEPT !.finalized = TRUE]
             /\ proc' = [proc EXCEPT ![c].pc = "store", ![c].then = "idle",
                                     ![c].to = With(proc[c].seen, "FINISHED")]
    <3>1. target'.synced = target.synced /\ target'.finalized = TRUE
      BY <1>1, <2>2 DEF TypeOK
    <3>2. task'.status = "FINISHED" => Complete'
      BY <2>1, <3>1 DEF CutoverHolds, Complete, cdc
    <3>3. WillEnd(c, "FINISHED")
      BY <1>1, <2>2 DEF TypeOK, Process, WillEnd
    <3>4. /\ Only(c) /\ proc'[c].pc = "store" /\ proc'[c].then = "idle"
          /\ proc'[c].seen = proc[c].seen /\ proc'[c].to.status = "FINISHED"
      BY <1>1, <1>3, <1>4, <3>3, WillEndEffect
    <3>5. OwnFine(c)
      BY <1>1, <1>2, <2>1, <3>1, <3>4
         DEF OwnFine, CutoverWrites, CutoverRows, CutoverStage, Complete, At, Quiet, cdc
    <3> QED BY <1>1, <3>2, <3>4, <3>5, HandlerCutover
  <2>3. CASE StoreFailed(c) /\ UNCHANGED target
    <3>1. task'.status = "FINISHED" => Complete'
      BY <2>1, <2>3 DEF CutoverHolds, Complete, cdc
    <3> QED BY <1>1, <1>7, <2>3, <3>1, HandlerCutover
  <2> QED BY <1>13, <2>2, <2>3 DEF Finalize
<1>14. CASE RolledBack(c)
  <2>1. task'.status = "ROLLED_BACK"
    BY <1>3, <1>4, <1>14 DEF RolledBack
  <2>2. proc' = [proc EXCEPT ![c].pc = "stop", ![c].seen = task'] /\ task' \in Row
    BY <1>1, <1>3, <1>14, RowTypes DEF RolledBack
  <2>3. Only(c) /\ proc'[c].pc = "stop" /\ proc'[c].seen = task'
    BY <1>1, <1>3, <2>2 DEF TypeOK, Only, Same, SameWork, SameRows, Process
  <2>4. OwnFine(c)
    BY <2>1, <2>3 DEF OwnFine, CutoverWrites, CutoverRows, CutoverStage, Writes, At
  <2> QED BY <1>1, <2>1, <2>3, <2>4, HandlerCutover
<1> QED BY <1>8, <1>9, <1>10, <1>11, <1>12, <1>13, <1>14

\* A row that was overwritten stays so for the history.
LEMMA WatchedBefore ==
  ASSUME IInv, [Next]_vars, Watched' PROVE Watched
<1>1. ASSUME NEW p \in Procs, Step(p) PROVE setup' = setup /\ (overwrote => overwrote')
  <2>1. CASE StoreRow(p) \/ RolledBack(p)
    BY <2>1 DEF StoreRow, RolledBack
  <2>2. CASE Precheck(p) \/ Checked(p) \/ Preparing(p) \/ Plan(p) \/ Planned(p) \/ DeleteResults(p)
             \/ Compare(p) \/ Finish(p) \/ Revalidate(p) \/ Fail(p) \/ Release(p) \/ Validate(p)
    BY <2>2 DEF Precheck, Checked, Preparing, Plan, Planned, DeleteResults, Compare, Finish,
       Revalidate, Fail, Release, Validate, world, hist
  <2>3. CASE Ensure(p) \/ Recover(p) \/ AcquireStart(p) \/ Launch(p) \/ Stop(p) \/ Wait(p)
             \/ Drain(p) \/ Sync(p) \/ Finalize(p)
    BY <2>3 DEF Ensure, Recover, AcquireStart, Launch, Stop, Wait, Drain, Sync, Finalize, world, hist
  <2> QED BY <1>1, <2>1, <2>2, <2>3 DEF Step
<1>2. ASSUME NEW c \in Calls, NEW s \in Servers, Command(c, s)
      PROVE  setup' = setup /\ overwrote' = overwrote
  <2>1. CASE \E pc, row, then : Begin(c, s, pc, row, then) \/ Set(c, s, row, then)
                                \/ SetCancelling(c, s, row, then)
    BY <2>1 DEF Begin, Set, SetCancelling, hist
  <2>2. CASE AutoValidate(c, s) \/ CopyDone(c, s)
    BY <2>2 DEF AutoValidate, CopyDone, world, hist
  <2> QED BY <1>2, <2>1, <2>2 DEF Command, Start, Resume, Pause, Cancel, ValidateNow, RepairValidation,
             ReadyForCutover, Cutover, PrepareRollback, ReadyForRollback, Rollback
<1>3. ASSUME NEW s \in Servers, Scan(s) \/ ScanSlow(s) \/ Crash(s)
      PROVE  setup' = setup /\ overwrote' = overwrote
  BY <1>3 DEF Scan, ScanSlow, Crash, hist
<1>4. ASSUME \/ \E c \in Calls : StartAborted(c)
             \/ \E r \in Runners : Renew(r)
             \/ ExpireHeld \/ ExpireAbandoned
             \/ ReaderStarts \/ Capture \/ Apply \/ ReaderStops \/ ReverseFlow
      PROVE  setup' = setup /\ overwrote' = overwrote
  BY <1>4 DEF StartAborted, Renew, ExpireHeld, ExpireAbandoned, ReaderStarts, Capture, Apply,
     ReaderStops, ReverseFlow, world, hist
<1>5. CASE UNCHANGED vars
  BY <1>5 DEF vars, world, hist, Watched
<1>6. CASE Next
  <2>1. setup' = setup /\ (overwrote => overwrote')
    BY <1>1, <1>2, <1>3, <1>4, <1>6 DEF Next
  <2> QED BY <2>1 DEF Watched
<1> QED BY <1>5, <1>6

LEMMA CutoverNext ==
  ASSUME IInv, OneHandler, CutoverFine, [Next]_vars PROVE CutoverFine'
<1> SUFFICES ASSUME Watched' PROVE CutoverHolds'
  BY DEF CutoverFine
<1>1. Watched /\ CutoverHolds
  BY WatchedBefore DEF CutoverFine
<1>2. CASE UNCHANGED vars
  <2>1. Kept /\ UNCHANGED proc
    BY <1>2, RowKept DEF vars, world
  <2> QED BY <1>1, <2>1, StillSame, CutoverStep
<1>3. ASSUME NEW p \in Procs, Step(p) PROVE CutoverHolds'
  <2>1. CASE Release(p) \/ Validate(p) \/ Revalidate(p) \/ Recover(p) \/ Launch(p)
    BY <1>1, <2>1, OtherCutover
  <2>2. CASE \/ Precheck(p) \/ Checked(p) \/ Plan(p) \/ Planned(p) \/ DeleteResults(p)
             \/ Compare(p) \/ Fail(p)
    BY <1>1, <2>2, RunnerCutover
  <2>3. CASE Ensure(p) \/ Stop(p) \/ Wait(p) \/ Drain(p) \/ Sync(p) \/ Finalize(p) \/ RolledBack(p)
    BY <1>1, <2>3, HandlingCutover
  <2> QED BY <1>1, <1>3, <2>1, <2>2, <2>3, StoreRowCutover, PreparingCutover, FinishCutover,
             AcquireStartCutover DEF Step
<1>4. CASE \E c \in Calls, s \in Servers : Command(c, s)
  BY <1>1, <1>4, CommandCutover
<1>5. CASE \/ \E c \in Calls : StartAborted(c)
           \/ \E s \in Servers : Scan(s) \/ ScanSlow(s) \/ Crash(s)
           \/ \E r \in Runners : Renew(r)
           \/ ExpireHeld \/ ExpireAbandoned
  BY <1>1, <1>5, OtherCutover
<1>6. CASE ReaderStarts \/ Capture \/ Apply \/ ReaderStops \/ ReverseFlow
  BY <1>1, <1>6, WorkersCutover
<1> QED BY <1>2, <1>3, <1>4, <1>5, <1>6 DEF Next

LEMMA InitCutover == ASSUME Init PROVE CutoverFine
<1>1. \A p \in Procs : proc[p].pc = "idle"
  BY RestIs DEF Init
<1>2. \A p \in Procs : CutoverWrites(p)
  BY <1>1 DEF CutoverWrites, Writes, At
<1>3. \A c \in Calls : CutoverRows(c) /\ CutoverStage(c)
  BY <1>1 DEF CutoverRows, CutoverStage, Procs, Writes, At
<1>4. task.status = "FINISHED" => Complete
  <2>1. PICK start \in Starts :
          /\ \E empty : task = [NewRow EXCEPT !.status = start.status, !.empty = empty]
          /\ target = [prepared |-> IF start.status = "CREATED" THEN 0 ELSE 1,
                       synced |-> start.status # "CREATED", finalized |-> start.status = "FINISHED"]
    BY DEF Init
  <2>2. task.status = start.status
    BY <2>1 DEF NewRow
  <2>3. captured = 0 /\ applied = 0
    BY DEF Init
  <2> QED BY <2>1, <2>2, <2>3 DEF Complete
<1> QED BY <1>2, <1>3, <1>4 DEF CutoverFine, CutoverHolds

\* When the operator's commands come one at a time, a task that is cut over has
\* applied all that was captured and has synchronized its generated values after
\* it, whatever the runners, recovery and crashes of servers do meanwhile, unless
\* a row older than the table's was stored (service.go: Cutover).
THEOREM CutoverCompleteCorrect == ASSUME OneHandler PROVE Spec => []CutoverComplete
<1>1. Init => CutoverFine
  BY InitCutover
<1>2. IInv /\ CutoverFine /\ [Next]_vars => CutoverFine'
  BY CutoverNext
<1>3. CutoverFine => CutoverComplete
  BY DEF CutoverFine, Watched, CutoverHolds, Complete, CutoverComplete
<1> QED BY <1>1, <1>2, <1>3, Inductive, PTL DEF Spec
=============================================================================
