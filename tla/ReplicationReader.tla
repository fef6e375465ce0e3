-------------------------- MODULE ReplicationReader --------------------------
(***************************************************************************)
(* The readers to which the source itself sends what has been committed,   *)
(* in commit order: the binary log of MySQL (cdc/mysqlbinlog), followed    *)
(* from a position in a file or from a set of GTIDs, the logical           *)
(* replication of PostgreSQL (cdc/pgoutput, connector/postgres), and the   *)
(* provider beside a GBase 8a cluster (cdc/gbase8acdc).                    *)
(***************************************************************************)
EXTENDS ReaderRuntime

ByGTID == scenario.dialect = "gtid"
MySQL == ByGTID \/ scenario.dialect = "mysql"

-----------------------------------------------------------------------------
(* The binary log (NativeReader.Next, Assembler.Push). *)

\* With GTIDs the source leaves out the groups that the session's set holds.
Skipped(rec) == ByGTID /\ rec.tx \in reader.session.executed

\* Behind an event: its GTID, the group collected now and what is handed out.
Behind(gtid, open, requests) ==
  reader' = [reader EXCEPT !.cursor = @ + 1, !.gtid = gtid, !.open = open,
                           !.ready = @ \o requests]

NoGroup == [t \in Txs |-> NotOpen]

\* The position behind the group that an event ends, from the one acknowledged.
Reached(rec) ==
  IF ByGTID THEN [Origin EXCEPT !.executed = reader.acked.executed \cup {reader.gtid}]
            ELSE Position(rec.scn + 1, rec.scn)

\* A group without a GTID cannot be recorded in the set.
HandOut(rec, gtid, open, txs) ==
  IF ByGTID /\ reader.gtid = 0 THEN Fail
  ELSE Behind(gtid, open, <<Request(txs, Reached(rec))>>)

GTIDEvent(rec) == rec.kind = "GTID" /\ Behind(rec.tx, reader.open, <<>>)

BeginEvent(rec) ==
  /\ rec.kind = "BEGIN"
  /\ Behind(reader.gtid, [NoGroup EXCEPT ![rec.tx].begin = rec.scn], <<>>)

RowsEvent(rec) ==
  /\ rec.kind = "ROW"
  /\ Behind(reader.gtid, [reader.open EXCEPT ![rec.tx].rows = Append(@, rec.scn)], <<>>)

\* An XID or COMMIT; a group without selected rows moves the position only.
CommitEvent(rec) ==
  /\ rec.kind = "COMMIT"
  /\ LET rows == reader.open[rec.tx].rows
     IN HandOut(rec, 0, NoGroup,
                IF rows = <<>> THEN <<>> ELSE <<Transaction(rec.tx, rows, rec.scn)>>)

RollbackEvent(rec) == rec.kind = "ROLLBACK" /\ Behind(0, NoGroup, <<>>)

\* A DDL is a group of its own; the server sees it if it is about a selected
\* table.  Its GTID is kept until it has been acknowledged.
DDLEvent(rec) ==
  /\ rec.kind \in {"DDL", "FOREIGN_DDL"}
  /\ HandOut(rec, reader.gtid, reader.open,
             IF rec.kind = "DDL" THEN <<Transaction(rec.tx, <<rec.scn>>, rec.scn)>> ELSE <<>>)

\* Any other statement is passed over, and its GTID is never added to the set.
StatementEvent(rec) ==
  rec.kind = "STATEMENT" /\ Behind(reader.gtid, reader.open, <<>>)

Event(rec) ==
  \/ GTIDEvent(rec) \/ BeginEvent(rec) \/ RowsEvent(rec) \/ CommitEvent(rec)
  \/ RollbackEvent(rec) \/ DDLEvent(rec) \/ StatementEvent(rec)

FollowBinlog ==
  /\ MySQL
  /\ Reading /\ reader.ready = <<>> /\ reader.cursor <= Len(log)
  /\ LET rec == log[reader.cursor] IN
     IF Skipped(rec) THEN Behind(reader.gtid, reader.open, <<>>) ELSE Event(rec)
  /\ UNCHANGED <<durable, accepted, crashes>>

-----------------------------------------------------------------------------
(* Logical replication (Decoder.Push, logicalStream.Next). *)

\* What the source sends next: the whole of the transaction whose commit comes
\* first in the log, behind the position asked for and the slot's.
NextCommit ==
  LET ahead == {i \in DOMAIN log : log[i].kind = "COMMIT" /\ log[i].scn >= reader.cursor}
  IN IF ahead = {} THEN <<>> ELSE <<log[Min(ahead)]>>

\* The transaction is complete with its COMMIT.  One without rows of the
\* publication moves the position only.
FollowSlot ==
  /\ scenario.dialect = "postgres"
  /\ Reading /\ reader.ready = <<>> /\ NextCommit # <<>>
  /\ LET rec == Head(NextCommit)
         rows == src[rec.tx].rows
         txs == IF rows = <<>> THEN <<>> ELSE <<Transaction(rec.tx, rows, rec.scn)>>
     IN reader' = [reader EXCEPT !.cursor = rec.scn + 1,
                                 !.ready = <<Request(txs, Position(rec.scn + 1, rec.scn))>>]
  /\ UNCHANGED <<durable, accepted, crashes>>

-----------------------------------------------------------------------------
\* The connection breaks, or the answer of the server is lost: the process goes
\* on in a new session, from what it has acknowledged (cmd/mysql-cdc/main.go,
\* cmd/postgres-cdc/main.go).
Reconnect ==
  /\ MySQL \/ scenario.dialect = "postgres"
  /\ reader.up /\ crashes < scenario.crashes
  /\ reader' = Started(reader.acked, reader.slot)
  /\ crashes' = crashes + 1
  /\ UNCHANGED <<durable, accepted>>

-----------------------------------------------------------------------------
(* The provider of GBase 8a (cdc/gbase8acdc/reader.go). *)

\* The next transactions, at most as many as a read may return.
Provided ==
  LET more == SelectSeq(committed, LAMBDA x : x.scn >= reader.cursor)
  IN SubSeq(more, 1, Min({Len(more), scenario.window}))

\* Next takes an answer without transactions for the end: the process ends, and
\* reports no error.
Poll ==
  /\ scenario.dialect = "gbase8a"
  /\ Reading /\ reader.ready = <<>>
  /\ reader' =
       IF Provided = <<>> THEN [reader EXCEPT !.up = FALSE, !.ended = TRUE]
       ELSE [reader EXCEPT !.cursor = Last(Provided).scn + 1,
               !.ready = [i \in DOMAIN Provided |->
                            Request(<<Provided[i]>>,
                                    Position(Provided[i].scn + 1, Provided[i].scn))]]
  /\ UNCHANGED <<durable, accepted, crashes>>

=============================================================================
