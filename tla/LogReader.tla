----------------------------- MODULE LogReader -----------------------------
(***************************************************************************)
(* The readers that follow an interleaved log record by record and put its *)
(* transactions together themselves: GBase 8s (cdc/gbase8scdc/reader.go)   *)
(* and Db2 (cdc/db2log/reader.go).  A Db2 log has no BEGIN record; a       *)
(* transaction is open from its first selected change.                     *)
(***************************************************************************)
EXTENDS ReaderRuntime

Streamed == {"gbase8s", "db2"}
GBase == scenario.dialect = "gbase8s"
Db2 == scenario.dialect = "db2"

IsOpen(t) == reader.open[t].begin # 0
Others(t) == {u \in Txs \ {t} : IsOpen(u)}

\* Behind the record: the cursor moves, open and ready are what it made them.
Pass(open, ready) ==
  reader' = [reader EXCEPT !.cursor = @ + 1, !.loading = TRUE,
                           !.open = open, !.ready = ready]

Collect(t, x) == Pass([reader.open EXCEPT ![t] = x], reader.ready)

\* The transaction that a change belongs to: Db2 opens it on the way.
State(rec) ==
  IF Db2 /\ ~IsOpen(rec.tx) THEN [NotOpen EXCEPT !.begin = rec.scn]
                            ELSE reader.open[rec.tx]

\* The GBase 8s provider, in a session opened at a sequence, returns the
\* records of the transactions that began there or later.
Hidden(rec) == GBase /\ src[rec.tx].begin < reader.session.restart

OnBegin(rec) ==
  /\ rec.kind = "BEGIN"
  /\ IF Db2 THEN Pass(reader.open, reader.ready)
     ELSE IF IsOpen(rec.tx) THEN Fail
     ELSE Collect(rec.tx, [NotOpen EXCEPT !.begin = rec.scn])

OnRow(rec) ==
  /\ rec.kind = "ROW"
  /\ LET x == State(rec) IN
     IF x.begin = 0 \/ (Db2 /\ x.half # 0) THEN Fail
     ELSE Collect(rec.tx, [x EXCEPT !.rows = Append(@, rec.scn)])

\* The image before an update; in Db2 the DELETE of a decomposed update.
OnBefore(rec) ==
  /\ rec.kind = "BEFORE"
  /\ LET x == State(rec) IN
     IF x.begin = 0 \/ x.half # 0 THEN Fail
     ELSE Collect(rec.tx, [x EXCEPT !.half = rec.scn])

OnAfter(rec) ==
  /\ rec.kind = "AFTER"
  /\ LET x == State(rec) IN
     IF x.half = 0 THEN Fail
     ELSE Collect(rec.tx, [x EXCEPT !.rows = Append(@, rec.scn), !.half = 0])

\* GBase 8s: what a DISCARD record leaves of a transaction.
Discarded(x, s) ==
  [x EXCEPT !.rows = Before(@, s), !.half = IF @ >= s THEN 0 ELSE @]

\* Db2: a compensation takes back the latest change of its row.  All changes
\* are to one row here, where the choice is hardest.
Compensated(x) == [x EXCEPT !.rows = Front(@)]

OnUndo(rec) ==
  /\ rec.kind = "UNDO"
  /\ LET x == State(rec) IN
     IF x.begin = 0 \/ (Db2 /\ x.rows = <<>>) THEN Fail
     ELSE Collect(rec.tx, IF GBase THEN Discarded(x, rec.arg) ELSE Compensated(x))

OnAbort(rec) == rec.kind = "ABORT" /\ Collect(rec.tx, NotOpen)

\* Faulty variants: the position forgets the transactions still open; it is
\* the least of theirs, and nothing when there is none.
RestartAtCommit(t, commit) == commit
RestartAtOpen(t, commit) ==
  IF Others(t) = {} THEN 0 ELSE Min({reader.open[u].begin : u \in Others(t)})

\* GBase 8s reads again from the oldest transaction that is still open.
RestartAt(t, commit) == Min({commit} \cup {reader.open[u].begin : u \in Others(t)})

Complete(rec, x, pos) ==
  Pass([reader.open EXCEPT ![rec.tx] = NotOpen],
       Append(reader.ready,
              Request(IF x.rows = <<>> THEN <<>>
                      ELSE <<Transaction(rec.tx, x.rows, rec.scn)>>, pos)))

\* A faulty variant: a commit is handed out again after a restart.
CommitAgain(rec, x) ==
  IF x.begin = 0 \/ x.half # 0 THEN Fail
  ELSE Complete(rec, x, Position(RestartAt(rec.tx, rec.scn), rec.scn))

\* A commit taken in before is not handed out again; one without changes
\* moves the position only.
CommitGBase(rec, x) ==
  IF x.begin = 0 \/ x.half # 0 THEN Fail
  ELSE IF rec.scn <= reader.acked.commit THEN Collect(rec.tx, NotOpen)
  ELSE Complete(rec, x, Position(RestartAt(rec.tx, rec.scn), rec.scn))

\* Db2 reads again from the record after the commit.
CommitDb2(rec, x) ==
  IF x.begin = 0 \/ (x.half = 0 /\ x.rows = <<>>) THEN Collect(rec.tx, NotOpen)
  ELSE IF x.half # 0 THEN Fail
  ELSE Complete(rec, x, Position(rec.scn + 1, rec.scn))

OnCommit(rec) ==
  /\ rec.kind = "COMMIT"
  /\ IF GBase THEN CommitGBase(rec, reader.open[rec.tx])
              ELSE CommitDb2(rec, reader.open[rec.tx])

Handle(rec) ==
  \/ OnBegin(rec) \/ OnRow(rec) \/ OnBefore(rec) \/ OnAfter(rec)
  \/ OnUndo(rec) \/ OnAbort(rec) \/ OnCommit(rec)

\* One record.  Db2 reads a window of any length before it hands out the first
\* transaction of it; GBase 8s stops at every transaction.
Process ==
  /\ scenario.dialect \in Streamed
  /\ Reading /\ reader.cursor <= Len(log)
  /\ reader.ready = <<>> \/ (Db2 /\ reader.loading)
  /\ LET rec == log[reader.cursor] IN
     IF Hidden(rec) THEN Pass(reader.open, reader.ready) ELSE Handle(rec)
  /\ UNCHANGED <<durable, accepted, crashes>>

\* Db2 at the end of the log with nothing open: the position moves although
\* no transaction was complete.
NothingOpen == \A t \in Txs : ~IsOpen(t)

IdleCheckpoint ==
  /\ Db2 /\ Reading /\ reader.ready = <<>>
  /\ reader.cursor > Len(log) /\ NothingOpen
  /\ reader.cursor > reader.acked.restart
  /\ reader' = [reader EXCEPT !.ready =
                  <<Request(<<>>, Position(reader.cursor, reader.cursor - 1))>>]
  /\ UNCHANGED <<durable, accepted, crashes>>

=============================================================================
