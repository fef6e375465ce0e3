----------------------------- MODULE LogMining -----------------------------
(***************************************************************************)
(* The readers that ask the source for the transactions committed in a     *)
(* window of its log: Oracle and Dameng with LogMiner (connector/oracle,   *)
(* connector/dameng logminer.go), SQL Server with its change tables        *)
(* (connector/sqlserver/cdc.go).  LogMiner returns the changes recorded in *)
(* the mined part of the log; change tables hold whole transactions.       *)
(***************************************************************************)
EXTENDS ReaderRuntime

Mined == {"oracle", "dameng"}

Commits == SelectSeq(log, LAMBDA r : r.kind = "COMMIT")
CommitsIn(from, to) == SelectSeq(Commits, LAMBDA r : from < r.scn /\ r.scn <= to)

\* Where the next window ends: a bounded way on in the log, or after a
\* bounded number of commits.
WindowEnd(from) ==
  IF scenario.dialect \in Mined
  THEN IF Top > from + scenario.window THEN from + scenario.window ELSE Top
  ELSE LET later == CommitsIn(from, Top) IN
       IF Len(later) > scenario.window THEN later[scenario.window].scn
       ELSE IF later = <<>> THEN from ELSE Last(later).scn

\* A faulty variant: only the window itself is mined.
MineWindow(from, to) == IF scenario.dialect = "sqlserver" THEN 1 ELSE from + 1

\* The first record that is mined.  Dameng goes back to where the oldest
\* transaction of the window began.
MineFrom(from, to) ==
  LET begins == {src[r.tx].begin : r \in ToSet(CommitsIn(from, to))}
  IN CASE scenario.dialect = "oracle" -> from + 1
       [] scenario.dialect = "dameng" -> Min({from + 1} \cup begins)
       [] scenario.dialect = "sqlserver" -> 1

Changes(t, first) ==
  LET mine == SelectSeq(log, LAMBDA r : r.tx = t /\ r.kind = "ROW" /\ r.scn >= first)
  IN [i \in DOMAIN mine |-> mine[i].scn]

\* The transactions with changes that the window holds, in commit order.
Found(from, to) ==
  LET commits == CommitsIn(from, to)
      all == [i \in DOMAIN commits |->
                Transaction(commits[i].tx,
                            Changes(commits[i].tx, MineFrom(from, to)), commits[i].scn)]
  IN SelectSeq(all, LAMBDA x : x.rows # <<>>)

At(scn) == Position(scn + 1, scn)

\* Oracle and SQL Server hand out every transaction on its own.
OneByOne(found) == [i \in DOMAIN found |-> Request(<<found[i]>>, At(found[i].scn))]

\* Dameng puts the transactions of one commit number into one request.
ByCommit(found) ==
  FoldLeft(LAMBDA requests, x :
             IF requests # <<>> /\ Last(requests).pos = At(x.scn)
             THEN Front(requests) \o <<[Last(requests) EXCEPT !.txs = Append(@, x)]>>
             ELSE Append(requests, Request(<<x>>, At(x.scn))),
           <<>>, found)

\* A faulty variant: an empty window hands out nothing.
RequestsFound(found, to) == OneByOne(found)

\* An empty window moves the position to its end; Dameng always ends there.
Requests(found, to) ==
  LET requests == IF scenario.dialect = "dameng" THEN ByCommit(found) ELSE OneByOne(found)
      ended == found # <<>> /\ (scenario.dialect # "dameng" \/ Last(found).scn = to)
  IN IF ended THEN requests ELSE Append(requests, Request(<<>>, At(to)))

\* One window behind the acknowledged position.
Mine ==
  /\ scenario.dialect \in Mined \cup {"sqlserver"}
  /\ Reading /\ reader.ready = <<>>
  /\ LET from == reader.acked.commit
         to == WindowEnd(from)
     IN /\ to > from
        /\ reader' = [reader EXCEPT !.ready = Requests(Found(from, to), to)]
  /\ UNCHANGED <<durable, accepted, crashes>>

=============================================================================
