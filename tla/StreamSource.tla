---------------------------- MODULE StreamSource ----------------------------
(***************************************************************************)
(* A source whose changes come in several streams, as its readers see it:  *)
(* TiDB through TiCDC and the partitions of a Kafka topic, the primaries   *)
(* of a GaussDB cluster, the log streams of Db2 pureScale.  None of them   *)
(* is part of the repository.  A transaction has a number in a global      *)
(* order (a commit TSO, a CSN, a global sequence) and rows in one or more  *)
(* streams; a stream shows its rows in that order, but later than the      *)
(* commit; TiCDC, which writes every table on its own, in that order only  *)
(* if source.sorted.  A resolved watermark R promises that no row of order *)
(* R or less is to come.                                                   *)
(***************************************************************************)
EXTENDS Naturals, Sequences, FiniteSetsExt

CONSTANTS
  Streams,   \* the streams: 1 .. n
  Sources,   \* the sources looked at: dialect, transactions, faults and their bounds,
             \* and limit, the rows at which a read of a stream may stop (clusters)
  MaxTxs     \* bound: transactions of any of them

ASSUME StreamsAssumption ==
  /\ Streams \subseteq Nat \ {0}
  /\ \A x \in Sources :
       /\ x.dialect \in {"ticdc", "gaussdb", "purescale"}
       /\ x.streams \in Nat \ {0} /\ 1 .. x.streams \subseteq Streams
       /\ x.txs \in Nat /\ x.txs <= MaxTxs /\ x.limit \in Nat \ {0}
       /\ x.started => x.dialect = "ticdc"
       /\ \A shape \in x.shapes :
            shape \in [Streams -> Nat] /\ \E s \in 1 .. x.streams : shape[s] > 0

VARIABLES
  source,     \* the source of this behaviour
  pending,    \* the rows that a stream has still to show
  log,        \* what a stream has shown, in order
  resolved,   \* the newest watermark of every stream
  slot,       \* how much of a stream was acknowledged to it (GaussDB)
  committed,  \* what the source has committed, in commit order
  resends     \* how often TiCDC sent rows again

sourceVars == <<pending, log, resolved, slot, committed, resends>>

Active == {s \in Streams : s <= source.streams}

\* Commits have even orders; an odd number lies between two commits.
NextOrder == 2 * (Len(committed) + 1)

Row(order, part) == [kind |-> "row", order |-> order, part |-> part]
Watermark(order) == [kind |-> "resolved", order |-> order, part |-> 0]

\* The rows that a transaction with the given shape has in stream s, and all.
RowsIn(shape, order, s) == {Row(order, p) : p \in 1 .. shape[s]}
Transaction(shape, order) ==
  [order |-> order, rows |-> UNION {{<<s, p>> : p \in 1 .. shape[s]} : s \in Active}]

SourceInit ==
  /\ source \in Sources
  \* A reader that starts behind a checkpoint: every stream has had a watermark.
  /\ log = [s \in Streams |->
               IF source.started /\ s \in Active THEN <<Watermark(1)>> ELSE <<>>]
  /\ resolved = [s \in Streams |-> 1]
  /\ pending = [s \in Streams |-> {}]
  /\ slot = [s \in Streams |-> 0]
  /\ committed = <<>> /\ resends = 0

Commit ==
  /\ Len(committed) < source.txs
  /\ \E shape \in source.shapes :
       /\ committed' = Append(committed, Transaction(shape, NextOrder))
       /\ pending' = [s \in Streams |->
            IF s \in Active THEN pending[s] \cup RowsIn(shape, NextOrder, s) ELSE {}]
  /\ UNCHANGED <<log, resolved, slot, resends>>

Precedes(x, y) == x.order < y.order \/ (x.order = y.order /\ x.part < y.part)

Emit(s) ==
  /\ \E r \in pending[s] :
       /\ source.sorted => \A other \in pending[s] : ~Precedes(other, r)
       /\ log' = [log EXCEPT ![s] = Append(@, r)]
       /\ pending' = [pending EXCEPT ![s] = @ \ {r}]
  /\ UNCHANGED <<resolved, slot, committed, resends>>

\* The most that stream s can promise.
Frontier(s) == Min({NextOrder} \cup {r.order : r \in pending[s]}) - 1

\* TiCDC writes a watermark into every partition, behind rows that it has not
\* passed unless the partition is sorted.
ResolveInStream(s) ==
  /\ source.dialect = "ticdc" /\ s \in Active /\ Frontier(s) > resolved[s]
  /\ source.sorted => \A i \in DOMAIN log[s] : log[s][i].order <= Frontier(s)
  /\ resolved' = [resolved EXCEPT ![s] = Frontier(s)]
  /\ log' = [log EXCEPT ![s] = Append(@, Watermark(Frontier(s)))]
  /\ UNCHANGED <<pending, slot, committed, resends>>

\* The clusters answer with a watermark of their own for every stream, or with
\* one for all of them.
ResolveAlone(s) ==
  /\ source.dialect # "ticdc" /\ s \in Active /\ ~source.clusterwide
  /\ Frontier(s) > resolved[s]
  /\ resolved' = [resolved EXCEPT ![s] = Frontier(s)]
  /\ UNCHANGED <<pending, log, slot, committed, resends>>

ResolveTogether ==
  /\ source.dialect # "ticdc" /\ source.clusterwide
  /\ LET frontier == Min({Frontier(s) : s \in Active}) IN
     /\ \E s \in Active : frontier > resolved[s]
     /\ resolved' = [s \in Streams |-> frontier]
  /\ UNCHANGED <<pending, log, slot, committed, resends>>

\* The rows of stream s that were committed after the order c.
CommittedIn(s, c) ==
  UNION {{Row(committed[i].order, r[2]) : r \in {x \in committed[i].rows : x[1] = s}}
           : i \in {n \in DOMAIN committed : committed[n].order > c}}

\* A changefeed that restarts sends again what lies behind its checkpoint, which
\* no watermark has passed.
Resend ==
  /\ source.dialect = "ticdc" /\ resends < source.resends
  /\ \E c \in 0 .. Min({resolved[s] : s \in Active}) :
       /\ c % 2 = 0
       /\ pending' = [s \in Streams |-> CommittedIn(s, c)]
  /\ pending' # pending
  /\ resends' = resends + 1
  /\ UNCHANGED <<log, resolved, slot, committed>>

Shows(s) == Emit(s) \/ ResolveInStream(s) \/ ResolveAlone(s)

SourceStep ==
  \/ Commit \/ ResolveTogether \/ Resend
  \/ \E s \in Streams : Shows(s)

=============================================================================
