----------------------------- MODULE CDCReaders -----------------------------
(***************************************************************************)
(* A source, the change reader of its dialect and the server that takes    *)
(* the transactions in, with a reader process that may die at any step.    *)
(* The hazard is the stored position: a reader starts again there, so it   *)
(* must lie behind nothing that is still needed, although the transactions *)
(* of the log overlap and commit in another order than they began in.      *)
(***************************************************************************)
EXTENDS LogReader, LogMining, ReplicationReader

vars == <<scenario, sourceVars, readerVars>>

Init == SourceInit /\ ReaderInit

ReaderStep ==
  \/ Process \/ IdleCheckpoint \/ Mine \/ FollowBinlog \/ FollowSlot \/ Poll
  \/ Take \/ Apply \/ Acknowledge \/ Restart

Next ==
  \/ SourceStep /\ UNCHANGED readerVars
  \/ (ReaderStep \/ Reconnect \/ Crash) /\ UNCHANGED <<scenario, sourceVars>>

Spec == Init /\ [][Next]_vars

\* The engine job is claimed again after every end of the process, and the
\* reader's loop and the server go on; the source may stop at any time.
FairSpec == Spec /\ WF_vars(ReaderStep /\ UNCHANGED <<scenario, sourceVars>>)

-----------------------------------------------------------------------------
Numbers == 1 .. Top + 1
Positions == [restart : Numbers, commit : 0 .. Top, executed : SUBSET Txs]
Kept == [tx : Txs, rows : Seq(Numbers), scn : Numbers]
Requested == [stage : {"none", "read", "applied"}, txs : Seq(Kept), pos : Positions]
Collected == [begin : 0 .. Top, rows : Seq(Numbers), half : 0 .. Top]

TypeOK ==
  /\ src \in [Txs -> [state : States, begin : 0 .. Top, rows : Seq(Numbers), half : 0 .. Top]]
  /\ committed \in Seq(Kept) /\ accepted \in Seq(Kept)
  /\ reader \in [up : BOOLEAN, ended : BOOLEAN, session : Positions, cursor : Numbers,
                 open : [Txs -> Collected], gtid : Txs \cup {0},
                 ready : Seq(Requested), loading : BOOLEAN,
                 acked : Positions, slot : Numbers, flight : Requested]
  /\ durable \in Positions /\ crashes \in 0 .. scenario.crashes

\* Every transaction the source commits is taken in once, whole and in commit
\* order: the readers and the server implement CommittedStream.
Delivered == INSTANCE CommittedStream
DeliveredOnceInOrder == Delivered!Spec

\* A transaction is needed as long as it is open at the source or committed
\* and not taken in.
Taken == {accepted[i].tx : i \in DOMAIN accepted}
Needed(t) ==
  \/ src[t].state = "OPEN"
  \/ (\E i \in DOMAIN committed : committed[i].tx = t) /\ t \notin Taken

\* The stored position never passes a change of a transaction that is needed:
\* what a new reader process reads holds all of it.  PostgreSQL and GBase 8a
\* send whole transactions by their commit, which neither the position nor the
\* slot may have passed, and with GTIDs the set may not hold it.  (Dameng goes back
\* by itself and SQL Server returns whole transactions.)
RestartCovers ==
  \A t \in Txs : Needed(t) =>
    CASE scenario.dialect \in {"gbase8s", "db2", "oracle", "mysql"} ->
           \A i \in DOMAIN src[t].rows : src[t].rows[i] >= durable.restart
      [] scenario.dialect = "gtid" -> t \notin durable.executed
      [] scenario.dialect \in {"postgres", "gbase8a"} ->
           \A i \in DOMAIN committed : committed[i].tx = t =>
             committed[i].scn >= durable.restart /\ committed[i].scn >= reader.slot
      [] OTHER -> TRUE

\* An acknowledgement never has to be refused: after every restart the reader
\* hands out positions at or behind the one it started from.
AcksMoveForward == reader.flight.stage = "applied" => ~Regresses(reader.flight.pos)

\* What the source commits arrives, whatever process died in between.  Excepted
\* is a GBase 8a reader that has found its source idle: it has ended for good.
EveryCommitArrives ==
  \A t \in Txs :
    (\E i \in DOMAIN committed : committed[i].tx = t) ~> (t \in Taken \/ reader.ended)

=============================================================================
