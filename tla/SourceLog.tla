----------------------------- MODULE SourceLog -----------------------------
(***************************************************************************)
(* The log of a source database, as the change readers see it.  The        *)
(* database is not part of the repository: a transaction writes a BEGIN    *)
(* record, its row changes and a COMMIT or ABORT, records of several open  *)
(* transactions interleave, and every record has a number (a sequence, an  *)
(* LRI, an LSN or an SCN).  A row change is the number of its record; that *)
(* of an update in two images is the number of the second.  What the rows  *)
(* hold is left out.                                                       *)
(***************************************************************************)
EXTENDS Naturals, Sequences, SequencesExt, FiniteSets

CONSTANTS
  Txs,         \* the transactions of the source: 1 .. n
  Scenarios    \* the sources looked at: dialect, log and fault bounds

ASSUME TxsAssumption == Txs \subseteq Nat \ {0}

VARIABLES
  scenario,    \* the source of this behaviour
  log,         \* the records of the source's log
  src,         \* the source's own view of its transactions
  committed    \* what the source has committed, in commit order

sourceVars == <<log, src, committed>>

Dialects ==
  {"gbase8s", "db2", "oracle", "dameng", "sqlserver", "mysql", "gtid", "postgres",
   "gbase8a"}
States == {"NEW", "OPEN", "DONE"}
Unborn == [state |-> "NEW", begin |-> 0, rows |-> <<>>, half |-> 0]

\* The number of the newest record, and that of the next one.
Top == IF log = <<>> THEN 0 ELSE Last(log).scn
NextScn == Top + 1

Record(kind, t, scn, arg) == [kind |-> kind, tx |-> t, scn |-> scn, arg |-> arg]
Transaction(t, rows, scn) == [tx |-> t, rows |-> rows, scn |-> scn]

Room(n) == Len(log) + n <= scenario.records
Write(kind, t, arg) == log' = Append(log, Record(kind, t, NextScn, arg))
Has(kind) == kind \in scenario.kinds

\* A transaction may start: one at a time unless the source interleaves them.
MayBegin(t) ==
  /\ src[t].state = "NEW" /\ t <= scenario.txs
  /\ \A u \in Txs : u < t => src[u].state # "NEW"
  /\ scenario.interleaved \/ \A u \in Txs : src[u].state # "OPEN"

SourceInit ==
  /\ scenario \in Scenarios
  /\ log = <<>>
  /\ src = [t \in Txs |-> Unborn]
  /\ committed = <<>>

Begin(t) ==
  /\ Room(1) /\ MayBegin(t)
  /\ Write("BEGIN", t, 0)
  /\ src' = [src EXCEPT ![t] = [Unborn EXCEPT !.state = "OPEN", !.begin = NextScn]]
  /\ UNCHANGED committed

Working(t) == src[t].state = "OPEN" /\ src[t].half = 0

Change(t) ==
  /\ Room(1) /\ Working(t)
  /\ Write("ROW", t, 0)
  /\ src' = [src EXCEPT ![t].rows = Append(@, NextScn)]
  /\ UNCHANGED committed

\* An update in two records: the image before and the image after.
UpdateBefore(t) ==
  /\ Room(1) /\ Working(t) /\ Has("UPDATE")
  /\ Write("BEFORE", t, 0)
  /\ src' = [src EXCEPT ![t].half = NextScn]
  /\ UNCHANGED committed

UpdateAfter(t) ==
  /\ Room(1) /\ src[t].half # 0
  /\ Write("AFTER", t, 0)
  /\ src' = [src EXCEPT ![t].rows = Append(@, NextScn), ![t].half = 0]
  /\ UNCHANGED committed

\* What of ascending rows comes before record s.
Before(rows, s) == SubSeq(rows, 1, Cardinality({i \in DOMAIN rows : rows[i] < s}))

\* GBase 8s rolls back to a savepoint: one record discards what the
\* transaction wrote from the record numbered s on.
Discard(t, s) ==
  /\ Room(1) /\ src[t].state = "OPEN" /\ Has("DISCARD")
  /\ \E i \in DOMAIN log :
       log[i].scn = s /\ log[i].tx = t /\ log[i].kind \in {"ROW", "BEFORE"}
  /\ src[t].half >= s \/ \E i \in DOMAIN src[t].rows : src[t].rows[i] >= s
  /\ Write("UNDO", t, s)
  /\ src' = [src EXCEPT ![t].rows = Before(@, s),
                        ![t].half = IF @ >= s THEN 0 ELSE @]
  /\ UNCHANGED committed

\* Db2 compensates the newest change of a transaction.
Compensate(t) ==
  /\ Room(1) /\ Working(t) /\ Has("COMPENSATE") /\ src[t].rows # <<>>
  /\ Write("UNDO", t, 0)
  /\ src' = [src EXCEPT ![t].rows = Front(@)]
  /\ UNCHANGED committed

\* What the commit of t adds to the committed transactions.
Effect(t, scn) ==
  IF src[t].rows = <<>> THEN <<>> ELSE <<Transaction(t, src[t].rows, scn)>>

Commit(t) ==
  /\ Room(1) /\ Working(t)
  /\ Write("COMMIT", t, 0)
  /\ committed' = committed \o Effect(t, NextScn)
  /\ src' = [src EXCEPT ![t].state = "DONE"]

\* Two transactions commit with one commit number.  They cannot depend on one
\* another, so their order means nothing: they are listed by identifier.
CommitTogether(t, u) ==
  /\ Room(2) /\ Working(t) /\ Working(u) /\ t < u /\ Has("TOGETHER")
  /\ log' = log \o <<Record("COMMIT", t, NextScn, 0), Record("COMMIT", u, NextScn, 0)>>
  /\ committed' = committed \o Effect(t, NextScn) \o Effect(u, NextScn)
  /\ src' = [src EXCEPT ![t].state = "DONE", ![u].state = "DONE"]

Abort(t) ==
  /\ Room(1) /\ src[t].state = "OPEN" /\ Has("ABORT")
  /\ Write("ABORT", t, 0)
  /\ src' = [src EXCEPT ![t].state = "DONE", ![t].half = 0]
  /\ UNCHANGED committed

\* What reaches the log at once: a transaction of one statement, begun and
\* committed between two polls, and the groups of a MySQL binary log, which a
\* commit writes as a whole.  Besides transactions these are DDL, other
\* statements (GRANT and the like), what touches only tables that are not
\* selected, and a transaction that is rolled back after all.
Groups == [BURST       |-> <<"BEGIN", "ROW", "COMMIT">>,
           TRANSACTION |-> <<"GTID", "BEGIN", "ROW", "COMMIT">>,
           FOREIGN     |-> <<"GTID", "BEGIN", "COMMIT">>,
           ROLLBACK    |-> <<"GTID", "BEGIN", "ROW", "ROLLBACK">>,
           DDL         |-> <<"GTID", "DDL">>,
           FOREIGN_DDL |-> <<"GTID", "FOREIGN_DDL">>,
           STATEMENT   |-> <<"GTID", "STATEMENT">>]

WriteGroup(t, g) ==
  LET records == [i \in DOMAIN Groups[g] |-> Record(Groups[g][i], t, Top + i, 0)]
      changes == SelectSeq(records, LAMBDA r : r.kind \in {"ROW", "DDL"} /\ g # "ROLLBACK")
      rows == [i \in DOMAIN changes |-> changes[i].scn]
  IN /\ Room(Len(records)) /\ MayBegin(t)
     /\ log' = log \o records
     /\ src' = [src EXCEPT ![t] = [state |-> "DONE", begin |-> NextScn,
                                   rows |-> rows, half |-> 0]]
     /\ committed' = IF rows = <<>> THEN committed
                     ELSE Append(committed, Transaction(t, rows, Last(records).scn))

\* What one transaction of the source does next.
Step(t) ==
  \/ Begin(t) \/ Change(t) \/ UpdateBefore(t) \/ UpdateAfter(t) \/ Compensate(t)
  \/ Commit(t) \/ Abort(t)
  \/ \E s \in 1 .. Top : Discard(t, s)
  \/ \E u \in Txs : CommitTogether(t, u)

SourceStep ==
  /\ \E t \in Txs :
       IF scenario.kinds \cap DOMAIN Groups = {} THEN Step(t)
       ELSE \E g \in scenario.kinds : WriteGroup(t, g)
  /\ UNCHANGED scenario

=============================================================================
