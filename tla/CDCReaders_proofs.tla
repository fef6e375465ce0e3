--------------------------- MODULE CDCReaders_proofs ---------------------------
(***************************************************************************)
(* Proofs about CDCReaders for the reader of GBase 8s, which puts the      *)
(* transactions of an interleaved log together itself, and for PostgreSQL, *)
(* whose slot sends each with its commit: for any number of transactions,  *)
(* logs of any length and any number of crashes and reconnects, each       *)
(* committed transaction is taken in once, whole and in commit order, and  *)
(* the stored position forgets nothing that is still needed.               *)
(***************************************************************************)
EXTENDS CDCReaders, FiniteSetTheorems, SequenceTheorems, TLAPS

\* The sources looked at: changes in one record or two images, savepoints and
\* rollbacks, transactions that overlap or not.
Followed ==
  \A s \in Scenarios : /\ s.dialect \in {"gbase8s", "postgres"}
                       /\ s.kinds \subseteq {"UPDATE", "DISCARD", "ABORT"}

Slotted == scenario.dialect = "postgres"

-----------------------------------------------------------------------------
(* The source. *)

Kinds == {"BEGIN", "ROW", "BEFORE", "AFTER", "UNDO", "COMMIT", "ABORT"}
Entries == [kind : Kinds, tx : Txs, scn : Nat, arg : Nat]
Views == [begin : Nat, rows : Seq(Nat), half : Nat]
Transactions == [state : States, begin : Nat, rows : Seq(Nat), half : Nat]
Whole == [tx : Txs, rows : Seq(Nat), scn : Nat]

View(begin, rows, half) == [begin |-> begin, rows |-> rows, half |-> half]

\* What of a transaction is open.
ViewOf(x) == IF x.state = "OPEN" THEN View(x.begin, x.rows, x.half) ELSE NotOpen

CommitAt(i) == i \in DOMAIN log /\ log[i].kind = "COMMIT"

SourceFine ==
  /\ scenario \in Scenarios
  /\ log \in Seq(Entries)
  /\ src \in [Txs -> Transactions]
  /\ \A t \in Txs :
       /\ src[t].begin \in 0 .. Len(log)
       /\ src[t].state = "OPEN" => src[t].begin # 0
       /\ src[t].half # 0 => src[t].state = "OPEN"
       /\ src[t].state = "NEW" => src[t] = Unborn
       /\ \A j \in DOMAIN src[t].rows : src[t].rows[j] >= src[t].begin

CommittedFine ==
  /\ committed \in Seq(Whole)
  /\ \A k \in DOMAIN committed :
       LET c == committed[k] IN
       /\ CommitAt(c.scn) /\ log[c.scn].tx = c.tx
       /\ c.rows = src[c.tx].rows /\ c.rows # <<>>
  /\ \A i \in DOMAIN log : CommitAt(i) =>
       src[log[i].tx].rows = <<>> \/ \E k \in DOMAIN committed : committed[k].scn = i
  /\ \A k, l \in DOMAIN committed : k < l => committed[k].scn < committed[l].scn

\* How record r, the i-th, changes the view of its transaction, which is s at
\* the source today, from x to y.
Turns(i, r, s, x, y) ==
  IF r.kind = "BEGIN" THEN x = NotOpen /\ y = View(i, <<>>, 0) /\ s.begin = i
  ELSE
    /\ x.begin # 0
    /\ r.kind = "ROW" => y = View(x.begin, Append(x.rows, i), x.half)
    /\ r.kind = "BEFORE" => y = View(x.begin, x.rows, i)
    /\ r.kind = "AFTER" => y = View(x.begin, Append(x.rows, i), 0)
    /\ r.kind = "UNDO" =>
         y = View(x.begin, Before(x.rows, r.arg), IF x.half >= r.arg THEN 0 ELSE x.half)
    /\ r.kind = "COMMIT" => s.rows = x.rows
    /\ r.kind \in {"COMMIT", "ABORT"} => y = NotOpen /\ s.state = "DONE"

\* h is what was open at the source behind every record.
History(h) ==
  /\ h \in [0 .. Len(log) -> [Txs -> Views]]
  /\ \A t \in Txs : h[0][t] = NotOpen /\ h[Len(log)][t] = ViewOf(src[t])
  /\ \A i \in DOMAIN log :
       /\ log[i].scn = i
       /\ Turns(i, log[i], src[log[i].tx], h[i - 1][log[i].tx], h[i][log[i].tx])
       /\ \A u \in Txs \ {log[i].tx} : h[i][u] = h[i - 1][u]
  /\ \A i \in 0 .. Len(log), t \in Txs : h[i][t].begin # 0 =>
       /\ h[i][t].begin = src[t].begin /\ src[t].begin <= i
       /\ \A j \in src[t].begin .. i : h[j][t].begin = src[t].begin

-----------------------------------------------------------------------------
(* The reader. *)

Places == [restart : Nat, commit : Nat, executed : {{}}]
Asks == [stage : {"none", "read", "applied"}, txs : Seq(Whole), pos : Places]
Readers == [up : BOOLEAN, ended : BOOLEAN, session : Places, cursor : Nat,
            open : [Txs -> Views], gtid : {0}, ready : Seq(Asks), loading : BOOLEAN,
            acked : Places, slot : Nat, flight : Asks]

\* No commit lies between two records.
NoCommit(from, to) == \A j \in DOMAIN log : from < j /\ j < to => log[j].kind # "COMMIT"

\* A position is right: what is open behind its commit began at its restart or
\* later.
Right(h, p) ==
  /\ p \in Places
  /\ p.commit \in 0 .. Len(log) /\ p.restart \in 1 .. p.commit + 1
  /\ IF Slotted THEN p.restart = p.commit + 1
     ELSE \A t \in Txs : h[p.commit][t].begin # 0 => h[p.commit][t].begin >= p.restart

\* What the commit at record c hands out.
Handed(c) ==
  LET t == log[c].tx IN
  IF src[t].rows = <<>> THEN <<>> ELSE <<Transaction(t, src[t].rows, c)>>

\* A request is about the commit after the one acknowledged last.
Asked(h, q) ==
  LET c == q.pos.commit IN
  /\ Right(h, q.pos)
  /\ CommitAt(c) /\ reader.acked.commit < c /\ NoCommit(reader.acked.commit, c)
  /\ q.txs = Handed(c)
  /\ q.pos.restart >= reader.acked.restart
  /\ reader.cursor = c + 1

\* The server has what was acknowledged, or the request that comes next.
InStep ==
  \/ durable = reader.acked
  \/ /\ Slotted
     /\ CommitAt(durable.commit) /\ reader.acked.commit < durable.commit
     /\ NoCommit(reader.acked.commit, durable.commit)

\* What the reader of GBase 8s has collected behind record i: what was open at
\* the source, but for the transactions that its session hides.
Held(h, i) ==
  [t \in Txs |-> IF h[i][t].begin >= reader.session.restart THEN h[i][t] ELSE NotOpen]

Collecting(h) ==
  /\ Right(h, reader.session)
  /\ reader.session.commit <= reader.acked.commit
  /\ reader.cursor \in reader.session.restart .. Len(log) + 1
  /\ reader.open = Held(h, reader.cursor - 1)

Awake(h) ==
  /\ reader.flight.stage = "none" => reader.flight = Nothing
  /\ reader.ready # <<>> =>
       reader.flight = Nothing /\ Len(reader.ready) = 1
       /\ reader.ready[1].stage = "read" /\ Asked(h, reader.ready[1])
  /\ reader.flight # Nothing =>
       reader.flight.stage \in {"read", "applied"} /\ Asked(h, reader.flight)
  /\ reader.ready = <<>> /\ reader.flight = Nothing =>
       /\ NoCommit(reader.acked.commit, reader.cursor)
       /\ Slotted => reader.cursor = reader.acked.restart
  /\ IF reader.flight.stage = "applied" THEN durable = reader.flight.pos ELSE InStep
  /\ ~Slotted => Collecting(h)

ReaderFine(h) ==
  /\ reader \in Readers
  /\ Right(h, durable) /\ Right(h, reader.acked)
  /\ ~Slotted => reader.slot = 1
  /\ reader.slot \in 1 .. reader.acked.restart /\ reader.acked.restart <= durable.restart
  /\ IF reader.up THEN Awake(h) ELSE AcksMoveForward

\* The server has taken in what was committed up to its position.
DeliveryFine ==
  \E n \in 0 .. Len(committed) :
    /\ accepted = SubSeq(committed, 1, n)
    /\ \A k \in DOMAIN committed : k <= n <=> committed[k].scn <= durable.commit

IInv == /\ SourceFine /\ CommittedFine /\ DeliveryFine
        /\ \E h : History(h) /\ ReaderFine(h)

-----------------------------------------------------------------------------
(* Facts about the operators. *)

\* The dialect is one of the two, and none of the kinds is a fault of another.
LEMMA Selected ==
  ASSUME Followed, SourceFine
  PROVE  /\ scenario.dialect \in {"gbase8s", "postgres"}
         /\ ~Has("COMPENSATE") /\ ~Has("TOGETHER")
         /\ scenario.kinds \cap DOMAIN Groups = {}
<1>1. scenario.kinds \subseteq {"UPDATE", "DISCARD", "ABORT"}
  BY DEF Followed, SourceFine
<1>2. DOMAIN Groups = {"BURST", "TRANSACTION", "FOREIGN", "ROLLBACK", "DDL", "FOREIGN_DDL",
                       "STATEMENT"}
  BY DEF Groups
<1> QED BY <1>1, <1>2 DEF Followed, SourceFine, Has

\* Records are numbered from 1 on: the newest number is the length of the log.
LEMMA Numbered ==
  ASSUME SourceFine, NEW h, History(h)
  PROVE  /\ Top = Len(log) /\ NextScn = Len(log) + 1 /\ Len(log) \in Nat
         /\ DOMAIN log = 1 .. Len(log)
<1>1. Len(log) \in Nat /\ DOMAIN log = 1 .. Len(log)
  BY DEF SourceFine
<1>2. CASE log = <<>>
  BY <1>1, <1>2 DEF Top, NextScn
<1>3. CASE log # <<>>
  <2>1. Len(log) \in DOMAIN log
    BY <1>1, <1>3 DEF SourceFine
  <2>2. log[Len(log)].scn = Len(log)
    BY <2>1 DEF History
  <2> QED BY <1>1, <1>3, <2>2 DEF Top, NextScn, Last
<1> QED BY <1>2, <1>3

\* What is discarded leaves rows that were there.
LEMMA BeforeKeeps ==
  ASSUME NEW rows \in Seq(Nat), NEW s \in Nat
  PROVE  /\ Before(rows, s) \in Seq(Nat)
         /\ \A j \in DOMAIN Before(rows, s) : \E i \in DOMAIN rows : Before(rows, s)[j] = rows[i]
<1> DEFINE D == {i \in DOMAIN rows : rows[i] < s}
           n == Cardinality(D)
<1>1. IsFiniteSet(1 .. Len(rows)) /\ Cardinality(1 .. Len(rows)) = Len(rows)
  <2>1. PICK k \in Nat : k = Len(rows)
    OBVIOUS
  <2>2. 1 \in Int /\ k \in Int
    BY <2>1
  <2>3. IsFiniteSet(1 .. k)
    BY <2>2, FS_Interval
  <2>4. Cardinality(1 .. k) = IF 1 > k THEN 0 ELSE k - 1 + 1
    BY <2>2, FS_Interval
  <2>5. (IF 1 > k THEN 0 ELSE k - 1 + 1) = k
    BY <2>1
  <2>6. Cardinality(1 .. k) = k
    BY <2>4, <2>5
  <2> QED BY <2>1, <2>3, <2>6
<1>2. D \in SUBSET (1 .. Len(rows))
  OBVIOUS
<1>3. n \in Nat /\ n <= Len(rows)
  BY <1>1, <1>2, FS_Subset, FS_CardinalityType
<1> HIDE DEF n
<1>4. SubSeq(rows, 1, n) \in Seq(Nat) /\ Len(SubSeq(rows, 1, n)) = n
  BY <1>3
<1>5. \A j \in 1 .. n : SubSeq(rows, 1, n)[j] = rows[j] /\ j \in DOMAIN rows
  BY <1>3
<1>6. Before(rows, s) = SubSeq(rows, 1, n)
  BY DEF Before, n
<1>7. DOMAIN SubSeq(rows, 1, n) = 1 .. n
  BY <1>3, <1>4
<1> QED BY <1>4, <1>5, <1>6, <1>7

\* The larger of two numbers is their maximum.
LEMMA MaxOfTwo ==
  ASSUME NEW a \in Nat, NEW b \in Nat, b <= a
  PROVE  Max({a, b}) = a
<1>1. \A x \in {a, b} : x <= a
  OBVIOUS
<1>2. \A x \in {a, b} : (\A y \in {a, b} : x >= y) => x = a
  OBVIOUS
<1> QED BY <1>1, <1>2 DEF Max

Less == {ss \in Nat \X Nat : ss[1] < ss[2]}

\* The least element of a set of numbers is in it and below the others.
LEMMA MinIn ==
  ASSUME NEW S \in SUBSET Nat, S # {}
  PROVE  Min(S) \in S /\ \A x \in S : Min(S) <= x
<1>1. Less = OpToRel(<, Nat)
  BY DEF Less, OpToRel
<1>2. IsWellFoundedOn(Less, Nat)
  BY <1>1, NatLessThanWellFounded
<1>3. PICK x \in S : \A y \in S : ~(<<y, x>> \in Less)
  BY <1>2, WFMin
<1>4. \A y \in S : ~(y < x)
  BY <1>3 DEF Less
<1>5. \A y \in S : x <= y
  BY <1>4
<1> QED BY <1>5 DEF Min

-----------------------------------------------------------------------------
(* Steps of the source. *)

\* The source has gone on, and what was in the log is there unchanged.
Grown(h, g) ==
  /\ scenario' = scenario
  /\ Len(log') = Len(log) + 1
  /\ \A i \in DOMAIN log : i \in DOMAIN log' /\ log'[i] = log[i]
  /\ \A i \in 0 .. Len(log) : g[i] = h[i]
  /\ \A i : CommitAt(i) => src'[log[i].tx] = src[log[i].tx]
  /\ \/ committed' = committed
     \/ \E c \in Whole : committed' = Append(committed, c) /\ c.scn = Len(log) + 1

\* Record r moves transaction t, which is then x at the source.
Moves(t, r, x) ==
  /\ r \in Entries /\ r.tx = t /\ r.scn = Len(log) + 1
  /\ x \in Transactions /\ x.state # "NEW" /\ (x.half # 0 => x.state = "OPEN")
  /\ src[t].state = IF r.kind = "BEGIN" THEN "NEW" ELSE "OPEN"
  /\ x.begin = IF r.kind = "BEGIN" THEN Len(log) + 1 ELSE src[t].begin
  /\ Turns(Len(log) + 1, r, x, ViewOf(src[t]), ViewOf(x))
  /\ \A j \in DOMAIN x.rows : x.rows[j] >= x.begin
  /\ r.kind = "COMMIT" => x.rows = src[t].rows
  /\ scenario' = scenario
  /\ log' = Append(log, r)
  /\ src' = [src EXCEPT ![t] = x]
  /\ committed' = IF r.kind = "COMMIT" THEN committed \o Effect(t, Len(log) + 1) ELSE committed

\* What is open of a transaction has a type.
LEMMA ViewTyped ==
  ASSUME NEW x \in Transactions
  PROVE  ViewOf(x) \in Views
BY DEF ViewOf, View, Views, Transactions, NotOpen

\* A history continues with each record of the source.
LEMMA HistoryGrows ==
  ASSUME SourceFine, NEW h, History(h), NEW t \in Txs, NEW r, NEW x, Moves(t, r, x)
  PROVE  \E g : History(g)' /\ \A i \in 0 .. Len(log) : g[i] = h[i]
<1>1. PICK n : n = Len(log)
  OBVIOUS
<1>2. n \in Nat /\ DOMAIN log = 1 .. n /\ Len(log') = n + 1 /\ DOMAIN log' = 1 .. (n + 1)
      /\ log'[n + 1] = r /\ \A i \in 1 .. n : log'[i] = log[i]
  BY <1>1 DEF SourceFine, Moves
<1>3. PICK g : g = [i \in 0 .. (n + 1) |-> IF i <= n THEN h[i] ELSE [h[n] EXCEPT ![t] = ViewOf(x)]]
  OBVIOUS
<1>4. \A i \in 0 .. n : g[i] = h[i]
  BY <1>2, <1>3
<1>5. g[n + 1] = [h[n] EXCEPT ![t] = ViewOf(x)] /\ h[n] \in [Txs -> Views]
  BY <1>1, <1>2, <1>3 DEF History
<1>6. src[t] \in Transactions /\ src' = [src EXCEPT ![t] = x] /\ x \in Transactions /\ r.tx = t
  BY DEF SourceFine, Moves
<1>7. \A u \in Txs : u # t => src'[u] = src[u] /\ g[n + 1][u] = h[n][u]
  BY <1>5, <1>6 DEF SourceFine
<1>8. src'[t] = x /\ g[n + 1][t] = ViewOf(x)
  BY <1>5, <1>6 DEF SourceFine
<1>9. h[n][t] = ViewOf(src[t])
  BY <1>1 DEF History
<1>10. g \in [0 .. Len(log') -> [Txs -> Views]]
  <2>1. \A i \in 0 .. n : h[i] \in [Txs -> Views]
    BY <1>1 DEF History
  <2>2. [h[n] EXCEPT ![t] = ViewOf(x)] \in [Txs -> Views]
    BY <1>5, <1>6, ViewTyped
  <2> QED BY <1>2, <1>3, <2>1, <2>2
<1>11. \A u \in Txs : g[0][u] = NotOpen /\ g[n + 1][u] = ViewOf(src'[u])
  BY <1>1, <1>2, <1>4, <1>7, <1>8 DEF History
<1>12. ASSUME NEW i \in 1 .. n
       PROVE  /\ log'[i].scn = i
              /\ Turns(i, log'[i], src'[log'[i].tx], g[i - 1][log'[i].tx], g[i][log'[i].tx])
              /\ \A u \in Txs \ {log'[i].tx} : g[i][u] = g[i - 1][u]
  <2>1. log'[i] = log[i] /\ log[i].tx \in Txs /\ g[i] = h[i] /\ g[i - 1] = h[i - 1]
    <3>1. log[i] \in Entries
      BY <1>2 DEF SourceFine
    <3>2. i \in 0 .. n /\ i - 1 \in 0 .. n
      BY <1>2
    <3> QED BY <1>2, <1>4, <3>1, <3>2 DEF Entries
  <2>2. /\ log[i].scn = i
        /\ Turns(i, log[i], src[log[i].tx], h[i - 1][log[i].tx], h[i][log[i].tx])
        /\ \A u \in Txs \ {log[i].tx} : h[i][u] = h[i - 1][u]
    BY <1>2 DEF History
  <2>3. CASE log[i].tx # t
    BY <1>7, <2>1, <2>2, <2>3
  <2>4. CASE log[i].tx = t
    <3>1. src[t].begin # 0
      <4>1. h[i - 1][t].begin # 0 => h[i - 1][t].begin = src[t].begin
        BY <1>1, <1>2 DEF History
      <4> QED BY <2>2, <2>4, <4>1 DEF Turns
    <3>2. src[t].state # "NEW"
      BY <3>1 DEF SourceFine, Unborn
    <3>3. src[t].state = "OPEN" /\ x.begin = src[t].begin
      BY <3>2 DEF Moves
    <3>4. log[i].kind \notin {"COMMIT", "ABORT"}
      BY <2>2, <2>4, <3>3 DEF Turns
    <3> QED BY <1>8, <2>1, <2>2, <2>4, <3>3, <3>4 DEF Turns
  <2> QED BY <2>3, <2>4
<1>13. /\ log'[n + 1].scn = n + 1
       /\ Turns(n + 1, log'[n + 1], src'[t], g[n][t], g[n + 1][t])
       /\ \A u \in Txs \ {t} : g[n + 1][u] = g[n][u]
  BY <1>1, <1>2, <1>4, <1>7, <1>8, <1>9 DEF Moves
<1>14. ASSUME NEW i \in 0 .. n, NEW u \in Txs, g[i][u].begin # 0
       PROVE  /\ g[i][u].begin = src'[u].begin /\ src'[u].begin <= i
              /\ \A j \in src'[u].begin .. i : g[j][u].begin = src'[u].begin
  <2>1. /\ h[i][u].begin = src[u].begin /\ src[u].begin <= i
        /\ \A j \in src[u].begin .. i : h[j][u].begin = src[u].begin
    BY <1>1, <1>4, <1>14 DEF History
  <2>2. src[u].begin # 0 /\ src[u].begin \in Nat
    BY <1>4, <1>14, <2>1 DEF SourceFine, Transactions
  <2>3. src[u].state # "NEW"
    BY <2>2 DEF SourceFine, Unborn
  <2>4. src'[u].begin = src[u].begin
    BY <1>7, <1>8, <2>3 DEF Moves
  <2>5. \A j \in src[u].begin .. i : g[j] = h[j]
    BY <1>2, <1>4, <2>2
  <2> QED BY <1>4, <2>1, <2>4, <2>5
<1>15. ASSUME NEW u \in Txs, g[n + 1][u].begin # 0
       PROVE  /\ g[n + 1][u].begin = src'[u].begin /\ src'[u].begin <= n + 1
              /\ \A j \in src'[u].begin .. (n + 1) : g[j][u].begin = src'[u].begin
  <2>1. CASE u = t /\ r.kind = "BEGIN"
    <3>1. x.begin = n + 1 /\ g[n + 1][t].begin = n + 1
      BY <1>1, <1>8, <1>15, <2>1 DEF Moves, ViewOf, View, NotOpen
    <3> QED BY <1>2, <1>8, <2>1, <3>1
  <2>2. CASE ~(u = t /\ r.kind = "BEGIN")
    <3>1. src'[u].begin = src[u].begin /\ g[n + 1][u].begin = g[n][u].begin
      <4>1. CASE u # t
        BY <1>2, <1>4, <1>7, <4>1
      <4>2. CASE u = t
        <5>1. x.begin = src[t].begin /\ src[t].state = "OPEN"
          BY <2>2, <4>2 DEF Moves
        <5>2. ViewOf(x).begin # 0 => ViewOf(x).begin = x.begin
          BY DEF ViewOf, View, NotOpen
        <5>3. h[n][t].begin = src[t].begin
          BY <1>9, <5>1 DEF ViewOf, View
        <5> QED BY <1>2, <1>4, <1>8, <1>15, <4>2, <5>1, <5>2, <5>3
      <4> QED BY <4>1, <4>2
    <3>2. /\ g[n][u].begin = src'[u].begin /\ src'[u].begin <= n
          /\ \A j \in src'[u].begin .. n : g[j][u].begin = src'[u].begin
      BY <1>2, <1>14, <1>15, <3>1
    <3>3. src'[u].begin \in Nat
      BY <3>1 DEF SourceFine, Transactions
    <3>4. \A j \in src'[u].begin .. (n + 1) : j \in src'[u].begin .. n \/ j = n + 1
      BY <1>2, <3>3
    <3> QED BY <1>2, <3>1, <3>2, <3>3, <3>4
  <2> QED BY <2>1, <2>2
<1>16. History(g)'
  <2>1. \A i \in DOMAIN log' :
          /\ log'[i].scn = i
          /\ Turns(i, log'[i], src'[log'[i].tx], g[i - 1][log'[i].tx], g[i][log'[i].tx])
          /\ \A u \in Txs \ {log'[i].tx} : g[i][u] = g[i - 1][u]
    <3>1. \A i \in DOMAIN log' : i \in 1 .. n \/ i = n + 1
      BY <1>2
    <3>2. (n + 1) - 1 = n
      BY <1>2
    <3> QED BY <1>2, <1>6, <1>12, <1>13, <3>1, <3>2
  <2>2. \A i \in 0 .. Len(log'), u \in Txs : g[i][u].begin # 0 =>
          /\ g[i][u].begin = src'[u].begin /\ src'[u].begin <= i
          /\ \A j \in src'[u].begin .. i : g[j][u].begin = src'[u].begin
    <3>1. \A i \in 0 .. Len(log') : i \in 0 .. n \/ i = n + 1
      BY <1>2
    <3> QED BY <1>14, <1>15, <3>1
  <2> QED BY <1>2, <1>10, <1>11, <2>1, <2>2 DEF History
<1> QED BY <1>1, <1>4, <1>16

\* A transaction that has its commit in the log was open before it.
LEMMA CommitDone ==
  ASSUME SourceFine, NEW h, History(h), NEW i, CommitAt(i)
  PROVE  /\ i \in 1 .. Len(log) /\ i \in Nat /\ i - 1 \in 0 .. Len(log) /\ log[i].scn = i
         /\ log[i].tx \in Txs
         /\ src[log[i].tx].state = "DONE"
         /\ h[i - 1][log[i].tx].begin # 0
         /\ src[log[i].tx].rows = h[i - 1][log[i].tx].rows
         /\ h[i][log[i].tx] = NotOpen
<1>1. i \in DOMAIN log /\ log[i].kind = "COMMIT" /\ i \in 1 .. Len(log) /\ i \in Nat
      /\ i - 1 \in 0 .. Len(log)
  BY DEF CommitAt, SourceFine
<1>2. log[i] \in Entries
  BY <1>1 DEF SourceFine
<1>3. log[i].scn = i /\ Turns(i, log[i], src[log[i].tx], h[i - 1][log[i].tx], h[i][log[i].tx])
  BY <1>1 DEF History
<1> QED BY <1>1, <1>2, <1>3 DEF Turns, Entries

\* A record leaves the source well formed, and a transaction that has committed
\* has no record after its COMMIT.
LEMMA SourceKept ==
  ASSUME SourceFine, NEW h, History(h), NEW t \in Txs, NEW r, NEW x, Moves(t, r, x)
  PROVE  /\ SourceFine'
         /\ \A i : CommitAt(i) => log[i].tx # t
<1>1. log \in Seq(Entries) /\ r \in Entries /\ log' = Append(log, r)
  BY DEF SourceFine, Moves
<1>2. log' \in Seq(Entries) /\ Len(log') = Len(log) + 1 /\ Len(log) \in Nat
  BY <1>1
<1>3. src' = [src EXCEPT ![t] = x] /\ x \in Transactions /\ src \in [Txs -> Transactions]
  BY DEF SourceFine, Moves
<1>4. src' \in [Txs -> Transactions] /\ src'[t] = x /\ \A u \in Txs : u # t => src'[u] = src[u]
  BY <1>3
<1>5. ASSUME NEW u \in Txs
      PROVE  /\ src'[u].begin \in 0 .. Len(log')
             /\ src'[u].state = "OPEN" => src'[u].begin # 0
             /\ src'[u].half # 0 => src'[u].state = "OPEN"
             /\ src'[u].state = "NEW" => src'[u] = Unborn
             /\ \A j \in DOMAIN src'[u].rows : src'[u].rows[j] >= src'[u].begin
  <2>1. CASE u = t
    <3>1. x.begin \in 0 .. Len(log')
      BY <1>2 DEF SourceFine, Moves
    <3>2. x.begin # 0
      BY <1>2 DEF SourceFine, Moves
    <3> QED BY <1>4, <2>1, <3>1, <3>2 DEF Moves
  <2>2. CASE u # t
    BY <1>2, <1>4, <2>2 DEF SourceFine
  <2> QED BY <2>1, <2>2
<1>6. scenario' \in Scenarios
  BY DEF SourceFine, Moves
<1>7. \A i : CommitAt(i) => log[i].tx # t
  BY CommitDone DEF Moves
<1> QED BY <1>2, <1>4, <1>5, <1>6, <1>7 DEF SourceFine

CommitNext(i) == i \in DOMAIN log' /\ log'[i].kind = "COMMIT"

\* A COMMIT adds its transaction at the end of the committed ones; other records
\* add none.
LEMMA CommittedGrows ==
  ASSUME SourceFine, CommittedFine, NEW h, History(h), NEW t \in Txs, NEW r, NEW x, Moves(t, r, x)
  PROVE  /\ CommittedFine'
         /\ \/ committed' = committed
            \/ \E c \in Whole : committed' = Append(committed, c) /\ c.scn = Len(log) + 1
<1>1. PICK n : n = Len(log)
  OBVIOUS
<1>2. n \in Nat /\ DOMAIN log = 1 .. n /\ Len(log') = n + 1 /\ DOMAIN log' = 1 .. (n + 1)
      /\ log'[n + 1] = r /\ \A i \in 1 .. n : log'[i] = log[i]
  BY <1>1 DEF SourceFine, Moves
<1>3. src'[t] = x /\ \A u \in Txs : u # t => src'[u] = src[u]
  BY DEF SourceFine, Moves
<1>4. ASSUME NEW i, CommitAt(i)
      PROVE  /\ CommitNext(i) /\ log'[i] = log[i] /\ log[i].tx \in Txs
             /\ src'[log[i].tx] = src[log[i].tx] /\ i \in 1 .. n
  BY <1>1, <1>2, <1>3, <1>4, CommitDone, SourceKept DEF CommitAt, CommitNext
<1>5. \A i : CommitNext(i) => CommitAt(i) \/ (i = n + 1 /\ r.kind = "COMMIT")
  <2>1. ASSUME NEW i, CommitNext(i) PROVE i \in 1 .. n \/ i = n + 1
    BY <1>2, <2>1 DEF CommitAt, CommitNext
  <2> QED BY <1>2, <2>1 DEF CommitAt, CommitNext
<1>6. ASSUME NEW k \in DOMAIN committed
      PROVE  LET c == committed[k] IN
             /\ CommitNext(c.scn) /\ log'[c.scn].tx = c.tx
             /\ c.rows = src'[c.tx].rows /\ c.rows # <<>> /\ c.scn \in 1 .. n
  BY <1>4 DEF CommittedFine
<1>7. CASE committed' = committed /\ (r.kind = "COMMIT" => x.rows = <<>>)
  <2>1. \A k \in DOMAIN committed' :
          LET c == committed'[k] IN
          /\ CommitNext(c.scn) /\ log'[c.scn].tx = c.tx
          /\ c.rows = src'[c.tx].rows /\ c.rows # <<>>
    BY <1>6, <1>7
  <2>2. \A i \in DOMAIN log' : CommitNext(i) =>
          src'[log'[i].tx].rows = <<>> \/ \E k \in DOMAIN committed' : committed'[k].scn = i
    <3>1. \A i : CommitAt(i) =>
            src[log[i].tx].rows = <<>> \/ \E k \in DOMAIN committed : committed[k].scn = i
      BY DEF CommittedFine, CommitAt
    <3>2. r.tx = t
      BY DEF Moves
    <3> QED BY <1>2, <1>3, <1>4, <1>5, <1>7, <3>1, <3>2
  <2> QED BY <1>7, <2>1, <2>2 DEF CommittedFine, CommitAt, CommitNext
<1>8. CASE r.kind = "COMMIT" /\ x.rows # <<>>
  <2>1. PICK c : c = Transaction(t, src[t].rows, n + 1)
    OBVIOUS
  <2>2. committed' = Append(committed, c) /\ x.rows = src[t].rows /\ r.tx = t
    <3>1. committed' = committed \o Effect(t, n + 1) /\ x.rows = src[t].rows /\ r.tx = t
      BY <1>1, <1>8 DEF Moves
    <3>2. Effect(t, n + 1) = <<c>>
      BY <1>8, <2>1, <3>1 DEF Effect
    <3>3. committed \in Seq(Whole) /\ c \in Whole
      BY <1>2, <2>1 DEF CommittedFine, SourceFine, Transactions, Transaction, Whole
    <3>4. committed \o <<c>> = Append(committed, c)
      BY <3>3
    <3> QED BY <3>1, <3>2, <3>4
  <2>3. c \in Whole /\ c.scn = n + 1 /\ c.tx = t /\ c.rows = src[t].rows
    BY <1>2, <2>1 DEF SourceFine, Transactions, Transaction, Whole
  <2>4. PICK m : m = Len(committed)
    OBVIOUS
  <2>5. /\ m \in Nat /\ DOMAIN committed = 1 .. m /\ DOMAIN committed' = 1 .. (m + 1)
        /\ committed'[m + 1] = c /\ \A k \in 1 .. m : committed'[k] = committed[k]
        /\ committed' \in Seq(Whole)
    BY <2>2, <2>3, <2>4 DEF CommittedFine
  <2>6. CommitNext(n + 1) /\ log'[n + 1].tx = t
    BY <1>2, <1>8, <2>2 DEF CommitAt, CommitNext
  <2>7. ASSUME NEW k \in DOMAIN committed'
        PROVE  LET d == committed'[k] IN
               /\ CommitNext(d.scn) /\ log'[d.scn].tx = d.tx
               /\ d.rows = src'[d.tx].rows /\ d.rows # <<>>
    <3>1. CASE k \in 1 .. m
      BY <1>6, <2>5, <3>1
    <3>2. CASE k = m + 1
      BY <1>3, <1>8, <2>2, <2>3, <2>5, <2>6, <3>2
    <3> QED BY <2>5, <3>1, <3>2
  <2>8. ASSUME NEW i \in DOMAIN log', CommitNext(i)
        PROVE  src'[log'[i].tx].rows = <<>> \/ \E k \in DOMAIN committed' : committed'[k].scn = i
    <3>1. CASE i = n + 1
      <4>1. m + 1 \in DOMAIN committed'
        BY <2>5
      <4> QED BY <2>3, <2>5, <3>1, <4>1
    <3>2. CASE CommitAt(i)
      <4>1. src[log[i].tx].rows = <<>> \/ \E k \in DOMAIN committed : committed[k].scn = i
        BY <3>2 DEF CommittedFine, CommitAt
      <4>2. \A k \in DOMAIN committed : k \in DOMAIN committed' /\ committed'[k] = committed[k]
        BY <2>5
      <4> QED BY <1>4, <3>2, <4>1, <4>2
    <3> QED BY <1>5, <2>8, <3>1, <3>2
  <2>9. ASSUME NEW k \in DOMAIN committed', NEW l \in DOMAIN committed', k < l
        PROVE  committed'[k].scn < committed'[l].scn
    <3>1. CASE l \in 1 .. m
      <4>1. k \in 1 .. m
        BY <2>5, <2>9, <3>1
      <4> QED BY <2>5, <2>9, <3>1, <4>1 DEF CommittedFine
    <3>2. CASE l = m + 1
      <4>1. k \in 1 .. m
        BY <2>5, <2>9, <3>2
      <4>2. committed[k].scn \in 1 .. n
        BY <1>6, <2>5, <4>1
      <4> QED BY <1>2, <2>3, <2>5, <3>2, <4>1, <4>2
    <3> QED BY <2>5, <3>1, <3>2
  <2> QED BY <1>1, <2>2, <2>3, <2>5, <2>7, <2>8, <2>9 DEF CommittedFine, CommitAt, CommitNext
<1>9. \/ committed' = committed /\ (r.kind = "COMMIT" => x.rows = <<>>)
      \/ r.kind = "COMMIT" /\ x.rows # <<>>
  <2>1. CASE r.kind # "COMMIT"
    BY <2>1 DEF Moves
  <2>2. CASE r.kind = "COMMIT" /\ x.rows = <<>>
    <3>1. committed' = committed \o Effect(t, n + 1) /\ src[t].rows = <<>>
      BY <1>1, <2>2 DEF Moves
    <3>2. Effect(t, n + 1) = <<>>
      BY <3>1 DEF Effect
    <3> QED BY <2>2, <3>1, <3>2 DEF CommittedFine
  <2> QED BY <2>1, <2>2
<1> QED BY <1>7, <1>8, <1>9

\* The fields of a view.
LEMMA ViewFields ==
  \A begin, rows, half : LET v == View(begin, rows, half) IN
    v.begin = begin /\ v.rows = rows /\ v.half = half
BY DEF View

\* Every step of the source is one record of one transaction.
LEMMA SourceMoves ==
  ASSUME Followed, SourceFine, NEW h, History(h), SourceStep
  PROVE  \E t \in Txs : \E r, x : Moves(t, r, x)
<1>1. PICK n : n = Len(log)
  OBVIOUS
<1>2. n \in Nat /\ Top = n /\ NextScn = n + 1 /\ scenario' = scenario
  BY <1>1, Numbered DEF SourceStep
<1>3. PICK t \in Txs : Step(t)
  BY Selected DEF SourceStep
<1> SUFFICES \E r, x : Moves(t, r, x)
  OBVIOUS
<1>4. PICK y : y = src[t]
  OBVIOUS
<1>5. /\ y \in Transactions /\ src \in [Txs -> Transactions]
      /\ y.begin \in Nat /\ y.rows \in Seq(Nat) /\ y.half \in Nat /\ y.state \in States
      /\ y.begin <= n
      /\ y.state = "OPEN" => y.begin # 0
      /\ y.half # 0 => y.state = "OPEN"
      /\ y.state = "NEW" => y = Unborn
      /\ \A j \in DOMAIN y.rows : y.rows[j] >= y.begin
  <2>1. y \in Transactions /\ src \in [Txs -> Transactions]
    BY <1>4 DEF SourceFine
  <2>2. /\ y.begin \in 0 .. n
        /\ y.state = "OPEN" => y.begin # 0
        /\ y.half # 0 => y.state = "OPEN"
        /\ y.state = "NEW" => y = Unborn
        /\ \A j \in DOMAIN y.rows : y.rows[j] >= y.begin
    BY <1>1, <1>4 DEF SourceFine
  <2>3. y.begin \in Nat /\ y.begin <= n
    BY <1>2, <2>2
  <2>4. y.rows \in Seq(Nat) /\ y.half \in Nat /\ y.state \in States
    BY <2>1 DEF Transactions
  <2> QED BY <2>1, <2>2, <2>3, <2>4
<1>6. ASSUME NEW kind \in Kinds, NEW arg \in Nat, NEW x \in Transactions,
             x.state # "NEW", x.half # 0 => x.state = "OPEN",
             y.state = IF kind = "BEGIN" THEN "NEW" ELSE "OPEN",
             x.begin = IF kind = "BEGIN" THEN n + 1 ELSE y.begin,
             Turns(n + 1, Record(kind, t, n + 1, arg), x, ViewOf(y), ViewOf(x)),
             \A j \in DOMAIN x.rows : x.rows[j] >= x.begin,
             kind = "COMMIT" => x.rows = y.rows,
             Write(kind, t, arg), src' = [src EXCEPT ![t] = x],
             committed' = IF kind = "COMMIT" THEN committed \o Effect(t, n + 1) ELSE committed
      PROVE  \E r : Moves(t, r, x)
  <2>1. PICK r : r = Record(kind, t, n + 1, arg)
    OBVIOUS
  <2>2. r \in Entries /\ r.tx = t /\ r.scn = n + 1 /\ r.kind = kind
    BY <1>2, <2>1 DEF Record, Entries
  <2>3. log' = Append(log, r)
    BY <1>2, <1>6, <2>1 DEF Write
  <2> QED BY <1>1, <1>2, <1>4, <1>6, <2>1, <2>2, <2>3 DEF Moves
<1>7. y.state = "OPEN" =>
        /\ ViewOf(y) = View(y.begin, y.rows, y.half)
        /\ ViewOf(y).begin = y.begin /\ ViewOf(y).rows = y.rows /\ ViewOf(y).half = y.half
  BY ViewFields DEF ViewOf
<1>8. CASE Begin(t)
  <2>1. PICK x : x = [Unborn EXCEPT !.state = "OPEN", !.begin = n + 1]
    OBVIOUS
  <2>2. /\ x \in Transactions /\ x.state = "OPEN" /\ x.begin = n + 1
        /\ x.rows = <<>> /\ x.half = 0
    <3>1. Unborn \in Transactions /\ Unborn.rows = <<>> /\ Unborn.half = 0
      BY DEF Unborn, Transactions, States
    <3>2. PICK z : z = [Unborn EXCEPT !.state = "OPEN"]
      OBVIOUS
    <3>3. z \in Transactions /\ z.state = "OPEN" /\ z.rows = <<>> /\ z.half = 0
      BY <3>1, <3>2 DEF Transactions, States
    <3>4. x = [z EXCEPT !.begin = n + 1] /\ n + 1 \in Nat
      BY <1>2, <2>1, <3>2
    <3> QED BY <3>3, <3>4 DEF Transactions
  <2>3. src' = [src EXCEPT ![t] = x]
    BY <1>2, <1>8, <2>1 DEF Begin
  <2>4. y.state = "NEW" /\ Write("BEGIN", t, 0) /\ committed' = committed
    BY <1>4, <1>8 DEF Begin, MayBegin
  <2>5. Turns(n + 1, Record("BEGIN", t, n + 1, 0), x, ViewOf(y), ViewOf(x))
    <3>1. ViewOf(y) = NotOpen
      BY <2>4 DEF ViewOf
    <3>2. ViewOf(x) = View(n + 1, <<>>, 0)
      BY <2>2 DEF ViewOf
    <3> QED BY <2>2, <3>1, <3>2 DEF Turns, Record
  <2>6. /\ "BEGIN" \in Kinds /\ 0 \in Nat /\ x.half = 0 /\ x.state # "NEW"
        /\ \A j \in DOMAIN x.rows : x.rows[j] >= x.begin
    BY <2>2 DEF Kinds
  <2> QED BY <1>6, <2>2, <2>3, <2>4, <2>5, <2>6
<1>9. CASE Change(t)
  <2>1. PICK x : x = [y EXCEPT !.rows = Append(y.rows, n + 1)]
    OBVIOUS
  <2>2. Append(y.rows, n + 1) \in Seq(Nat)
    BY <1>2, <1>5
  <2>3. /\ x \in Transactions /\ x.state = y.state /\ x.begin = y.begin /\ x.half = y.half
        /\ x.rows = Append(y.rows, n + 1)
    BY <1>5, <2>1, <2>2 DEF Transactions
  <2>4. src' = [src EXCEPT ![t] = x]
    BY <1>2, <1>4, <1>9, <2>1 DEF Change
  <2>5. y.state = "OPEN" /\ Write("ROW", t, 0) /\ committed' = committed
    BY <1>4, <1>9 DEF Change, Working
  <2>6. ViewOf(x) = View(y.begin, Append(y.rows, n + 1), y.half)
    BY <2>3, <2>5 DEF ViewOf
  <2>7. Turns(n + 1, Record("ROW", t, n + 1, 0), x, ViewOf(y), ViewOf(x))
    BY <1>5, <1>7, <2>5, <2>6 DEF Turns, Record
  <2>8. \A j \in DOMAIN x.rows : x.rows[j] >= x.begin
    BY <1>2, <1>5, <2>3
  <2> QED BY <1>2, <1>5, <1>6, <2>3, <2>4, <2>5, <2>7, <2>8 DEF Kinds
<1>10. CASE UpdateBefore(t)
  <2>1. PICK x : x = [y EXCEPT !.half = n + 1]
    OBVIOUS
  <2>2. /\ x \in Transactions /\ x.state = y.state /\ x.begin = y.begin /\ x.half = n + 1
        /\ x.rows = y.rows
    <3>1. n + 1 \in Nat
      BY <1>2
    <3> QED BY <1>5, <2>1, <3>1 DEF Transactions
  <2>3. src' = [src EXCEPT ![t] = x]
    BY <1>2, <1>4, <1>10, <2>1 DEF UpdateBefore
  <2>4. y.state = "OPEN" /\ Write("BEFORE", t, 0) /\ committed' = committed
    BY <1>4, <1>10 DEF UpdateBefore, Working
  <2>5. ViewOf(x) = View(y.begin, y.rows, n + 1)
    BY <2>2, <2>4 DEF ViewOf
  <2>6. Turns(n + 1, Record("BEFORE", t, n + 1, 0), x, ViewOf(y), ViewOf(x))
    BY <1>5, <1>7, <2>4, <2>5 DEF Turns, Record
  <2> QED BY <1>2, <1>5, <1>6, <2>2, <2>3, <2>4, <2>6 DEF Kinds
<1>11. CASE UpdateAfter(t)
  <2>1. PICK x : x = [y EXCEPT !.rows = Append(y.rows, n + 1), !.half = 0]
    OBVIOUS
  <2>2. Append(y.rows, n + 1) \in Seq(Nat)
    BY <1>2, <1>5
  <2>3. /\ x \in Transactions /\ x.state = y.state /\ x.begin = y.begin /\ x.half = 0
        /\ x.rows = Append(y.rows, n + 1)
    BY <1>5, <2>1, <2>2 DEF Transactions
  <2>4. src' = [src EXCEPT ![t] = x]
    BY <1>2, <1>4, <1>11, <2>1 DEF UpdateAfter
  <2>5. y.state = "OPEN" /\ Write("AFTER", t, 0) /\ committed' = committed
    BY <1>4, <1>5, <1>11 DEF UpdateAfter
  <2>6. ViewOf(x) = View(y.begin, Append(y.rows, n + 1), 0)
    BY <2>3, <2>5 DEF ViewOf
  <2>7. Turns(n + 1, Record("AFTER", t, n + 1, 0), x, ViewOf(y), ViewOf(x))
    BY <1>5, <1>7, <2>5, <2>6 DEF Turns, Record
  <2>8. \A j \in DOMAIN x.rows : x.rows[j] >= x.begin
    BY <1>2, <1>5, <2>3
  <2>9. "AFTER" \in Kinds /\ 0 \in Nat /\ x.half = 0 /\ x.state # "NEW"
    BY <2>3, <2>5 DEF Kinds
  <2> QED BY <1>6, <2>3, <2>4, <2>5, <2>7, <2>8, <2>9
<1>12. ASSUME NEW s \in 1 .. Top, Discard(t, s) PROVE \E r, x : Moves(t, r, x)
  <2>1. PICK m : m = IF y.half >= s THEN 0 ELSE y.half
    OBVIOUS
  <2>2. PICK x : x = [y EXCEPT !.rows = Before(y.rows, s), !.half = m]
    OBVIOUS
  <2>3. s \in Nat /\ m \in Nat /\ Before(y.rows, s) \in Seq(Nat)
    BY <1>2, <1>5, <2>1, BeforeKeeps
  <2>4. /\ x \in Transactions /\ x.state = y.state /\ x.begin = y.begin /\ x.half = m
        /\ x.rows = Before(y.rows, s)
    BY <1>5, <2>2, <2>3 DEF Transactions
  <2>5. src' = [src EXCEPT ![t] = x]
    BY <1>4, <1>12, <2>1, <2>2 DEF Discard
  <2>6. y.state = "OPEN" /\ Write("UNDO", t, s) /\ committed' = committed
    BY <1>4, <1>12 DEF Discard
  <2>8. ViewOf(x) = View(y.begin, Before(y.rows, s), m)
    BY <2>4, <2>6 DEF ViewOf
  <2>9. Turns(n + 1, Record("UNDO", t, n + 1, s), x, ViewOf(y), ViewOf(x))
    BY <1>5, <1>7, <2>1, <2>6, <2>8 DEF Turns, Record
  <2>10. \A j \in DOMAIN x.rows : x.rows[j] >= x.begin
    <3>1. ASSUME NEW j \in DOMAIN x.rows PROVE x.rows[j] >= x.begin
      <4>1. \A k \in DOMAIN Before(y.rows, s) :
              \E i \in DOMAIN y.rows : Before(y.rows, s)[k] = y.rows[i]
        BY <1>5, <2>3, BeforeKeeps
      <4>2. PICK i \in DOMAIN y.rows : x.rows[j] = y.rows[i]
        BY <2>4, <4>1
      <4> QED BY <1>5, <2>4, <4>2
    <3> QED BY <3>1
  <2> QED BY <1>2, <1>5, <1>6, <2>3, <2>4, <2>5, <2>6, <2>9, <2>10 DEF Kinds
<1>13. CASE Commit(t)
  <2>1. PICK x : x = [y EXCEPT !.state = "DONE"]
    OBVIOUS
  <2>2. /\ x \in Transactions /\ x.state = "DONE" /\ x.begin = y.begin /\ x.half = y.half
        /\ x.rows = y.rows
    BY <1>5, <2>1 DEF Transactions, States
  <2>3. src' = [src EXCEPT ![t] = x]
    BY <1>4, <1>13, <2>1 DEF Commit
  <2>4. /\ y.state = "OPEN" /\ y.half = 0 /\ Write("COMMIT", t, 0)
        /\ committed' = committed \o Effect(t, n + 1)
    BY <1>2, <1>4, <1>13 DEF Commit, Working
  <2>5. Turns(n + 1, Record("COMMIT", t, n + 1, 0), x, ViewOf(y), ViewOf(x))
    BY <1>5, <1>7, <2>2, <2>4 DEF Turns, Record, ViewOf
  <2> QED BY <1>2, <1>5, <1>6, <2>2, <2>3, <2>4, <2>5 DEF Kinds
<1>14. CASE Abort(t)
  <2>1. PICK x : x = [y EXCEPT !.state = "DONE", !.half = 0]
    OBVIOUS
  <2>2. /\ x \in Transactions /\ x.state = "DONE" /\ x.begin = y.begin /\ x.rows = y.rows
        /\ x.half = 0
    BY <1>5, <2>1 DEF Transactions, States
  <2>3. src' = [src EXCEPT ![t] = x]
    BY <1>4, <1>14, <2>1 DEF Abort
  <2>4. y.state = "OPEN" /\ Write("ABORT", t, 0) /\ committed' = committed
    BY <1>4, <1>14 DEF Abort
  <2>5. Turns(n + 1, Record("ABORT", t, n + 1, 0), x, ViewOf(y), ViewOf(x))
    BY <1>5, <1>7, <2>2, <2>4 DEF Turns, Record, ViewOf
  <2>6. /\ "ABORT" \in Kinds /\ 0 \in Nat /\ x.half = 0 /\ x.state # "NEW"
        /\ \A j \in DOMAIN x.rows : x.rows[j] >= x.begin
    BY <1>5, <2>2 DEF Kinds
  <2> QED BY <1>6, <2>2, <2>3, <2>4, <2>5, <2>6
<1>15. ~Compensate(t) /\ ~\E u \in Txs : CommitTogether(t, u)
  BY Selected DEF Compensate, CommitTogether
<1> QED BY <1>3, <1>8, <1>9, <1>10, <1>11, <1>12, <1>13, <1>14, <1>15 DEF Step

\* A step of the source keeps its invariants and extends the history.
LEMMA SourceGrows ==
  ASSUME Followed, SourceFine, CommittedFine, NEW h, History(h), SourceStep
  PROVE  /\ SourceFine' /\ CommittedFine'
         /\ \E g : History(g)' /\ Grown(h, g)
<1>0. PICK t \in Txs : \E r, x : Moves(t, r, x)
  BY SourceMoves
<1>1. PICK r, x : Moves(t, r, x)
  BY <1>0
<1>2. PICK g : History(g)' /\ \A i \in 0 .. Len(log) : g[i] = h[i]
  BY <1>1, HistoryGrows
<1>3. SourceFine' /\ \A i : CommitAt(i) => log[i].tx # t
  BY <1>1, SourceKept
<1>4. /\ CommittedFine'
      /\ \/ committed' = committed
         \/ \E c \in Whole : committed' = Append(committed, c) /\ c.scn = Len(log) + 1
  BY <1>1, CommittedGrows
<1>5. Len(log') = Len(log) + 1 /\ \A i \in DOMAIN log : i \in DOMAIN log' /\ log'[i] = log[i]
  BY <1>1 DEF Moves, SourceFine
<1>6. ASSUME NEW i, CommitAt(i) PROVE src'[log[i].tx] = src[log[i].tx]
  BY <1>1, <1>3, <1>6, CommitDone DEF Moves, SourceFine
<1>7. scenario' = scenario
  BY <1>1 DEF Moves
<1> QED BY <1>2, <1>3, <1>4, <1>5, <1>6, <1>7 DEF Grown

\* What was said of the reader stays true while the source goes on.
LEMMA RightStays ==
  ASSUME SourceFine, NEW h, NEW g, Grown(h, g), NEW p, Right(h, p)
  PROVE  Right(g, p)'
<1>1. Len(log) \in Nat /\ Len(log') = Len(log) + 1 /\ p.commit \in 0 .. Len(log)
  BY DEF SourceFine, Grown, Right, Places
<1>2. p.commit \in 0 .. Len(log') /\ g[p.commit] = h[p.commit]
  BY <1>1 DEF Grown
<1>3. Slotted' = Slotted
  BY DEF Grown, Slotted
<1> QED BY <1>2, <1>3 DEF Right, Places

\* Where no commit lay none appears: records are added behind the log only.
LEMMA NoCommitStays ==
  ASSUME SourceFine, NEW h, NEW g, Grown(h, g), NEW a \in Nat, NEW b \in Nat, b <= Len(log) + 1,
         NoCommit(a, b)
  PROVE  NoCommit(a, b)'
<1>1. ASSUME NEW j \in DOMAIN log', a < j, j < b PROVE log'[j].kind # "COMMIT"
  <2>1. DOMAIN log = 1 .. Len(log) /\ DOMAIN log' \subseteq Nat \ {0} /\ Len(log) \in Nat
    <3>1. DOMAIN log = 1 .. Len(log) /\ Len(log) \in Nat
      BY DEF SourceFine
    <3> QED BY <1>1, <3>1
  <2>2. j \in DOMAIN log
    BY <1>1, <2>1
  <2> QED BY <1>1, <2>2 DEF Grown, NoCommit
<1> QED BY <1>1 DEF NoCommit

\* A commit stays where it is and hands out the same.
LEMMA CommitStays ==
  ASSUME SourceFine, NEW h, NEW g, Grown(h, g), NEW i, CommitAt(i)
  PROVE  CommitAt(i)' /\ Handed(i)' = Handed(i)
<1>1. i \in DOMAIN log /\ i \in DOMAIN log' /\ log'[i] = log[i] /\ src'[log[i].tx] = src[log[i].tx]
  BY DEF Grown, CommitAt
<1> QED BY <1>1 DEF CommitAt, Handed

\* A request stays about the next commit while the source goes on.
LEMMA AskedStays ==
  ASSUME SourceFine, NEW h, NEW g, Grown(h, g), NEW q, Asked(h, q), Right(h, reader.acked),
         reader' = reader
  PROVE  Asked(g, q)'
<1>1. PICK c : c = q.pos.commit
  OBVIOUS
<1>2. PICK a : a = reader.acked.commit
  OBVIOUS
<1>3. c \in Nat /\ a \in Nat /\ c <= Len(log) + 1
  BY <1>1, <1>2 DEF Asked, Right, Places, SourceFine
<1>4. Right(h, q.pos) /\ CommitAt(c) /\ a < c /\ NoCommit(a, c) /\ q.txs = Handed(c)
      /\ q.pos.restart >= reader.acked.restart /\ reader.cursor = c + 1
  BY <1>1, <1>2 DEF Asked
<1>5. Right(g, q.pos)' /\ CommitAt(c)' /\ NoCommit(a, c)' /\ Handed(c)' = Handed(c)
  BY <1>3, <1>4, RightStays, NoCommitStays, CommitStays
<1> QED BY <1>1, <1>2, <1>4, <1>5 DEF Asked

\* What is true of the reader stays true while the source goes on.
LEMMA ReaderStays ==
  ASSUME SourceFine, NEW h, NEW g, Grown(h, g), ReaderFine(h),
         UNCHANGED <<reader, durable>>
  PROVE  ReaderFine(g)'
<1>1. Right(h, durable) /\ Right(h, reader.acked) /\ reader' = reader /\ durable' = durable
  BY DEF ReaderFine
<1>2. Right(g, durable)' /\ Right(g, reader.acked)'
  BY <1>1, RightStays
<1>3. Slotted' = Slotted
  BY DEF Grown, Slotted
<1>4. PICK a : a = reader.acked.commit
  OBVIOUS
<1>5. Len(log) \in Nat /\ Len(log') = Len(log) + 1 /\ a \in Nat /\ a <= Len(log)
      /\ reader.acked.restart \in Nat /\ durable.commit \in Nat /\ durable.commit <= Len(log)
  BY <1>1, <1>4 DEF Right, Places, Grown, SourceFine
<1>6. ASSUME reader.up PROVE Awake(g)'
  <2>1. Awake(h)
    BY <1>6 DEF ReaderFine
  <2>2. reader.ready # <<>> => Asked(g, reader.ready[1])'
    <3>1. PICK q : q = reader.ready[1]
      OBVIOUS
    <3> QED BY <1>1, <2>1, <3>1, AskedStays DEF Awake
  <2>3. reader.flight # Nothing => Asked(g, reader.flight)'
    <3>1. PICK q : q = reader.flight
      OBVIOUS
    <3> QED BY <1>1, <2>1, <3>1, AskedStays DEF Awake
  <2>4. reader.ready = <<>> /\ reader.flight = Nothing => NoCommit(reader.acked.commit, reader.cursor)'
    <3> SUFFICES ASSUME reader.ready = <<>> /\ reader.flight = Nothing
                 PROVE  NoCommit(reader.acked.commit, reader.cursor)'
      OBVIOUS
    <3>1. PICK c : c = reader.cursor
      OBVIOUS
    <3>2. NoCommit(a, c)
      BY <1>4, <2>1, <3>1 DEF Awake
    <3>3. c \in Nat /\ c <= Len(log) + 1
      <4>1. CASE Slotted
        BY <1>1, <1>5, <2>1, <3>1, <4>1 DEF Awake, Collecting, Right, Places
      <4>2. CASE ~Slotted
        <5>1. reader.session.restart \in Nat /\ c \in reader.session.restart .. Len(log) + 1
          BY <2>1, <3>1, <4>2 DEF Awake, Collecting, Right, Places
        <5> QED BY <1>5, <5>1
      <4> QED BY <4>1, <4>2
    <3>4. NoCommit(a, c)'
      BY <1>5, <3>2, <3>3, NoCommitStays
    <3> QED BY <1>1, <1>4, <3>1, <3>4
  <2>5. IF reader.flight.stage = "applied" THEN durable = reader.flight.pos ELSE InStep'
    <3> SUFFICES ASSUME InStep, reader.flight.stage # "applied" PROVE InStep'
      BY <2>1 DEF Awake
    <3>1. CASE durable = reader.acked
      BY <1>1, <3>1 DEF InStep
    <3>2. CASE durable # reader.acked
      <4>1. PICK c : c = durable.commit
        OBVIOUS
      <4>2. CommitAt(c) /\ NoCommit(a, c) /\ a < c /\ Slotted
        BY <1>4, <3>2, <4>1 DEF InStep
      <4>3. CommitAt(c)' /\ NoCommit(a, c)'
        BY <1>5, <4>1, <4>2, CommitStays, NoCommitStays
      <4> QED BY <1>1, <1>3, <1>4, <4>1, <4>2, <4>3 DEF InStep
    <3> QED BY <3>1, <3>2
  <2>6. ASSUME ~Slotted
        PROVE  Collecting(g)'
    <3>1. /\ Right(h, reader.session)
          /\ reader.session.commit <= reader.acked.commit
          /\ reader.cursor \in reader.session.restart .. Len(log) + 1
          /\ reader.open = Held(h, reader.cursor - 1)
      BY <2>1, <2>6 DEF Awake, Collecting
    <3>2. Right(g, reader.session)'
      <4>1. PICK p : p = reader.session
        OBVIOUS
      <4>2. Right(g, p)'
        BY <3>1, <4>1, RightStays
      <4> QED BY <1>1, <4>1, <4>2
    <3>3. reader.session.restart \in Nat \ {0}
      BY <3>1 DEF Right, Places
    <3>4. reader.cursor - 1 \in 0 .. Len(log) /\ reader.cursor \in reader.session.restart .. Len(log') + 1
      BY <1>5, <3>1, <3>3
    <3>5. g[reader.cursor - 1] = h[reader.cursor - 1]
      BY <3>4 DEF Grown
    <3> QED BY <1>1, <3>1, <3>2, <3>4, <3>5 DEF Collecting, Held
  <2> QED BY <1>1, <1>3, <2>1, <2>2, <2>3, <2>4, <2>5, <2>6 DEF Awake
<1>7. ASSUME ~reader.up PROVE AcksMoveForward'
  <2>1. AcksMoveForward /\ scenario' = scenario
    BY <1>7 DEF ReaderFine, Grown
  <2> QED BY <1>1, <2>1 DEF AcksMoveForward, Regresses
<1> QED BY <1>1, <1>2, <1>3, <1>6, <1>7 DEF ReaderFine

\* What is true of the server stays true while the source goes on.
LEMMA DeliveryStays ==
  ASSUME SourceFine, CommittedFine, DeliveryFine, NEW h, NEW g, Grown(h, g), Right(h, durable),
         UNCHANGED <<durable, accepted>>
  PROVE  DeliveryFine'
<1>1. PICK n \in 0 .. Len(committed) :
        /\ accepted = SubSeq(committed, 1, n)
        /\ \A k \in DOMAIN committed : k <= n <=> committed[k].scn <= durable.commit
  BY DEF DeliveryFine
<1>2. committed \in Seq(Whole) /\ Len(log) \in Nat /\ durable.commit \in Nat /\ durable.commit <= Len(log)
  BY DEF CommittedFine, SourceFine, Right, Places
<1>3. CASE committed' = committed
  BY <1>1, <1>3 DEF DeliveryFine
<1>4. ASSUME NEW c \in Whole, committed' = Append(committed, c), c.scn = Len(log) + 1
      PROVE  DeliveryFine'
  <2>1. PICK m : m = Len(committed)
    OBVIOUS
  <2>2. /\ m \in Nat /\ n \in 0 .. m /\ DOMAIN committed' = 1 .. (m + 1) /\ Len(committed') = m + 1
        /\ committed'[m + 1] = c /\ \A k \in 1 .. m : committed'[k] = committed[k] /\ k \in DOMAIN committed
    BY <1>1, <1>2, <1>4, <2>1
  <2>3. SubSeq(committed', 1, n) = SubSeq(committed, 1, n)
    BY <1>2, <1>4, <2>1, <2>2
  <2>4. ASSUME NEW k \in 1 .. (m + 1) PROVE k <= n <=> committed'[k].scn <= durable.commit
    <3>1. CASE k \in 1 .. m
      BY <1>1, <2>2, <3>1
    <3>2. CASE k = m + 1
      <4>1. ~(m + 1 <= n) /\ ~(Len(log) + 1 <= durable.commit)
        BY <1>2, <2>2
      <4> QED BY <1>4, <2>2, <3>2, <4>1
    <3> QED BY <2>2, <3>1, <3>2
  <2>5. n \in 0 .. Len(committed')
    BY <2>2
  <2> QED BY <1>1, <2>2, <2>3, <2>4, <2>5 DEF DeliveryFine
<1> QED BY <1>3, <1>4 DEF Grown

-----------------------------------------------------------------------------
(* Steps of the reader and the server: the source stands still. *)

\* A step of the reader leaves everything about the source as it is.
LEMMA SourceStill ==
  ASSUME SourceFine, CommittedFine, NEW h, History(h), UNCHANGED <<scenario, sourceVars>>
  PROVE  /\ SourceFine' /\ CommittedFine' /\ History(h)' /\ Slotted' = Slotted
         /\ log' = log /\ src' = src /\ committed' = committed /\ scenario' = scenario
         /\ \A p : Right(h, p) => Right(h, p)'
         /\ \A i : CommitAt(i) => CommitAt(i)' /\ Handed(i)' = Handed(i)
         /\ \A a, b : NoCommit(a, b) => NoCommit(a, b)'
<1>1. log' = log /\ src' = src /\ committed' = committed /\ scenario' = scenario
  BY DEF sourceVars
<1>2. SourceFine' /\ CommittedFine' /\ History(h)' /\ Slotted' = Slotted
  <2>1. SourceFine'
    BY <1>1 DEF SourceFine
  <2>2. CommittedFine'
    BY <1>1 DEF CommittedFine, CommitAt
  <2>3. History(h)'
    BY <1>1 DEF History
  <2> QED BY <1>1, <2>1, <2>2, <2>3 DEF Slotted
<1>3. \A p : Right(h, p) => Right(h, p)'
  BY <1>1, <1>2 DEF Right
<1>4. \A i : CommitAt(i) => CommitAt(i)' /\ Handed(i)' = Handed(i)
  BY <1>1 DEF CommitAt, Handed
<1>5. \A a, b : NoCommit(a, b) => NoCommit(a, b)'
  BY <1>1 DEF NoCommit
<1> QED BY <1>1, <1>2, <1>3, <1>4, <1>5

\* What was asked is asked for as long as nothing is acknowledged or read.
LEMMA AskedStill ==
  ASSUME SourceFine, CommittedFine, NEW h, History(h), UNCHANGED <<scenario, sourceVars>>,
         NEW q, Asked(h, q), reader'.acked = reader.acked, reader'.cursor = reader.cursor
  PROVE  Asked(h, q)'
<1>1. PICK c : c = q.pos.commit
  OBVIOUS
<1>2. PICK a : a = reader.acked.commit
  OBVIOUS
<1>3. PICK p : p = q.pos
  OBVIOUS
<1>4. Right(h, p) /\ CommitAt(c) /\ a < c /\ NoCommit(a, c) /\ q.txs = Handed(c)
      /\ q.pos.restart >= reader.acked.restart /\ reader.cursor = c + 1
  BY <1>1, <1>2, <1>3 DEF Asked
<1>5. Right(h, p)' /\ CommitAt(c)' /\ NoCommit(a, c)' /\ Handed(c)' = Handed(c)
  BY <1>4, SourceStill
<1> QED BY <1>1, <1>2, <1>3, <1>4, <1>5 DEF Asked

\* What is collected is right as long as session and cursor are the same.
LEMMA CollectingStill ==
  ASSUME SourceFine, CommittedFine, NEW h, History(h), UNCHANGED <<scenario, sourceVars>>,
         Collecting(h), reader'.session = reader.session, reader'.cursor = reader.cursor,
         reader'.open = reader.open, reader'.acked.commit >= reader.acked.commit,
         reader'.acked \in Places, reader.acked \in Places
  PROVE  Collecting(h)'
<1>1. PICK p : p = reader.session
  OBVIOUS
<1>2. Right(h, p) /\ p \in Places
  BY <1>1 DEF Collecting, Right
<1>3. Right(h, p)' /\ log' = log
  BY <1>2, SourceStill
<1>4. p.commit <= reader'.acked.commit
  BY <1>1, <1>2 DEF Collecting, Places
<1> QED BY <1>1, <1>3, <1>4 DEF Collecting, Held

\* The oldest complete transaction is handed out.
LEMMA TakeKeeps ==
  ASSUME SourceFine, CommittedFine, NEW h, History(h), ReaderFine(h), Take,
         UNCHANGED <<scenario, sourceVars>>
  PROVE  ReaderFine(h)' /\ UNCHANGED <<durable, accepted>>
<1>1. /\ reader.up /\ reader.flight = Nothing /\ reader.ready # <<>>
      /\ reader' = [reader EXCEPT !.flight = Head(reader.ready), !.ready = Tail(reader.ready),
                                  !.loading = FALSE]
      /\ durable' = durable /\ accepted' = accepted
  BY DEF Take, Reading
<1>2. reader \in Readers /\ Awake(h) /\ Right(h, durable) /\ Right(h, reader.acked)
  BY <1>1 DEF ReaderFine
<1>3. PICK q : q = reader.ready[1]
  OBVIOUS
<1>4. q \in Asks /\ Head(reader.ready) = q /\ Tail(reader.ready) = <<>> /\ q.stage = "read"
      /\ Asked(h, q)
  <2>1. PICK w : w = reader.ready
    OBVIOUS
  <2>2. w \in Seq(Asks) /\ Len(w) = 1
    BY <1>1, <1>2, <2>1 DEF Awake, Readers
  <2>3. w[1] \in Asks /\ Head(w) = w[1] /\ Tail(w) = <<>>
    <3>1. w # <<>>
      BY <1>1, <2>1
    <3>2. Tail(w) = <<>>
      <4>1. Tail(w) \in Seq(Asks) /\ Len(Tail(w)) = Len(w) - 1
        BY <2>2, <3>1, HeadTailProperties, Zenon
      <4>2. Len(w) - 1 = 0 /\ 0 \notin Nat \ {0}
        BY <2>2
      <4> QED BY <4>1, <4>2, EmptySeq, Zenon
    <3>3. w[1] \in Asks /\ Head(w) = w[1]
      BY <2>2
    <3> QED BY <3>2, <3>3
  <2> QED BY <1>1, <1>2, <1>3, <2>1, <2>3 DEF Awake
<1>5. /\ reader' \in Readers /\ reader'.flight = q /\ reader'.ready = <<>> /\ reader'.up
      /\ reader'.acked = reader.acked /\ reader'.cursor = reader.cursor
      /\ reader'.session = reader.session /\ reader'.open = reader.open
      /\ reader'.slot = reader.slot
  <2>1. reader' = [reader EXCEPT !.flight = q, !.ready = <<>>, !.loading = FALSE]
    BY <1>1, <1>4
  <2>2. <<>> \in Seq(Asks)
    OBVIOUS
  <2> QED BY <1>1, <1>2, <1>4, <2>1, <2>2 DEF Readers
<1>6. Asked(h, q)'
  BY <1>4, <1>5, AskedStill
<1>7. InStep'
  <2>1. InStep
    BY <1>1, <1>2 DEF Awake, Nothing
  <2>2. PICK a, c : a = reader.acked.commit /\ c = durable.commit
    OBVIOUS
  <2>3. CASE durable = reader.acked
    BY <1>1, <1>5, <2>3 DEF InStep
  <2>4. CASE Slotted /\ CommitAt(c) /\ a < c /\ NoCommit(a, c)
    <3>1. Slotted' /\ CommitAt(c)' /\ NoCommit(a, c)'
      BY <2>4, SourceStill
    <3> QED BY <1>1, <1>5, <2>2, <2>4, <3>1 DEF InStep
  <2> QED BY <2>1, <2>2, <2>3, <2>4 DEF InStep
<1>8. ~Slotted => Collecting(h)'
  <2>1. reader.acked \in Places /\ reader.acked.commit >= reader.acked.commit
    BY <1>2 DEF Readers, Places
  <2> QED BY <1>2, <1>5, <2>1, CollectingStill DEF Awake
<1>9. Awake(h)'
  BY <1>4, <1>5, <1>6, <1>7, <1>8, SourceStill DEF Awake, Nothing
<1>10. Right(h, durable)' /\ Right(h, reader.acked)'
  <2>1. PICK p, d : p = reader.acked /\ d = durable
    OBVIOUS
  <2>2. Right(h, p)' /\ Right(h, d)'
    BY <1>2, <2>1, SourceStill
  <2> QED BY <1>1, <1>5, <2>1, <2>2
<1> QED BY <1>1, <1>5, <1>9, <1>10, SourceStill DEF ReaderFine

\* What the commit at record c hands out is what was committed next.
LEMMA NextTaken ==
  ASSUME SourceFine, CommittedFine, NEW h, History(h),
         NEW c \in Nat, NEW d \in Nat, CommitAt(c), d < c, NoCommit(d, c),
         NEW n \in 0 .. Len(committed),
         \A k \in DOMAIN committed : k <= n <=> committed[k].scn <= d
  PROVE  \E m \in n .. Len(committed) :
           /\ SubSeq(committed, 1, n) \o Handed(c) = SubSeq(committed, 1, m)
           /\ \A k \in DOMAIN committed : k <= m <=> committed[k].scn <= c
<1>1. committed \in Seq(Whole) /\ Len(committed) \in Nat /\ DOMAIN committed = 1 .. Len(committed)
      /\ n \in Nat
  BY DEF CommittedFine
<1>2. ASSUME NEW k \in DOMAIN committed
      PROVE  /\ committed[k].scn \in Nat /\ CommitAt(committed[k].scn)
             /\ committed[k].scn <= d \/ committed[k].scn = c \/ committed[k].scn > c
             /\ committed[k].rows # <<>> /\ committed[k].rows = src[committed[k].tx].rows
             /\ log[committed[k].scn].tx = committed[k].tx
             /\ k \in Nat
  <2>1. CommitAt(committed[k].scn) /\ committed[k] \in Whole /\ k \in Nat
    BY <1>1 DEF CommittedFine
  <2>2. committed[k].scn \in Nat /\ committed[k].scn \in DOMAIN log
        /\ log[committed[k].scn].kind = "COMMIT"
    BY <2>1 DEF CommitAt, Whole
  <2>3. ~(d < committed[k].scn /\ committed[k].scn < c)
    BY <2>2 DEF NoCommit
  <2>4. committed[k].scn <= d \/ committed[k].scn = c \/ committed[k].scn > c
    BY <2>2, <2>3
  <2> QED BY <2>1, <2>2, <2>4 DEF CommittedFine
<1>3. CASE src[log[c].tx].rows = <<>>
  <2>1. Handed(c) = <<>>
    BY <1>3 DEF Handed
  <2>2. SubSeq(committed, 1, n) \in Seq(Whole)
    BY <1>1
  <2>3. SubSeq(committed, 1, n) \o Handed(c) = SubSeq(committed, 1, n)
    BY <2>1, <2>2
  <2>4. ASSUME NEW k \in DOMAIN committed PROVE k <= n <=> committed[k].scn <= c
    <3>1. committed[k].scn # c
      BY <1>2, <1>3
    <3>2. committed[k].scn <= c <=> committed[k].scn <= d
      BY <1>2, <3>1
    <3> QED BY <3>2
  <2>5. n \in n .. Len(committed)
    BY <1>1
  <2> QED BY <2>3, <2>4, <2>5
<1>4. CASE src[log[c].tx].rows # <<>>
  <2>1. PICK k \in DOMAIN committed : committed[k].scn = c
    BY <1>4 DEF CommittedFine, CommitAt
  <2>2. k \in Nat /\ k > n /\ k <= Len(committed)
    <3>1. ~(k <= n)
      BY <2>1
    <3> QED BY <1>1, <3>1
  <2>3. k = n + 1
    <3>1. n + 1 \in DOMAIN committed /\ ~(n + 1 <= n)
      BY <1>1, <2>2
    <3>2. ~(committed[n + 1].scn <= d)
      BY <3>1
    <3>3. committed[n + 1].scn >= c
      BY <1>2, <3>1, <3>2
    <3>4. n + 1 < k => committed[n + 1].scn < committed[k].scn
      BY <2>1, <3>1 DEF CommittedFine
    <3>5. committed[n + 1].scn \in Nat
      BY <1>2, <3>1
    <3>6. ~(n + 1 < k)
      BY <2>1, <3>3, <3>4, <3>5
    <3> QED BY <1>1, <2>2, <3>6
  <2>4. Handed(c) = <<committed[k]>>
    <3>1. committed[k] \in Whole
      BY <1>1, <2>1
    <3>2. committed[k].tx = log[c].tx /\ committed[k].rows = src[log[c].tx].rows
      BY <1>2, <2>1
    <3>3. committed[k] = Transaction(log[c].tx, src[log[c].tx].rows, c)
      BY <2>1, <3>1, <3>2 DEF Transaction, Whole
    <3> QED BY <1>4, <3>3 DEF Handed
  <2>5. SubSeq(committed, 1, n) \o <<committed[k]>> = SubSeq(committed, 1, n + 1)
    BY <1>1, <2>2, <2>3
  <2>6. ASSUME NEW l \in DOMAIN committed PROVE l <= n + 1 <=> committed[l].scn <= c
    <3>1. l \in Nat /\ committed[l].scn \in Nat
      BY <1>2
    <3>2. CASE l < k
      <4>1. committed[l].scn < committed[k].scn
        BY <2>1, <3>2 DEF CommittedFine
      <4> QED BY <1>1, <2>1, <2>3, <3>1, <3>2, <4>1
    <3>3. CASE l = k
      BY <1>1, <2>1, <2>3, <3>1, <3>3
    <3>4. CASE l > k
      <4>1. committed[k].scn < committed[l].scn
        BY <2>1, <2>2, <3>1, <3>4 DEF CommittedFine
      <4> QED BY <1>1, <2>1, <2>3, <3>1, <3>4, <4>1
    <3> QED BY <2>2, <3>1, <3>2, <3>3, <3>4
  <2>7. n + 1 \in n .. Len(committed)
    BY <1>1, <2>2, <2>3
  <2> QED BY <2>4, <2>5, <2>6, <2>7
<1> QED BY <1>3, <1>4

\* Two positions with the same restart and commit are one.
LEMMA PlacesEqual ==
  ASSUME NEW p \in Places, NEW r \in Places, p.restart = r.restart, p.commit = r.commit
  PROVE  p = r
<1>1. p = [restart |-> p.restart, commit |-> p.commit, executed |-> {}]
  BY DEF Places
<1>2. r = [restart |-> r.restart, commit |-> r.commit, executed |-> {}]
  BY DEF Places
<1> QED BY <1>1, <1>2

\* How the server's transactions change: not at all, or by what comes next.
Receives ==
  \/ accepted' = accepted
  \/ \E m \in Len(accepted) + 1 .. Len(committed) : accepted' = SubSeq(committed, 1, m)

\* The server takes a request in: as the next transaction, or as a duplicate.
LEMMA ApplyKeeps ==
  ASSUME SourceFine, CommittedFine, DeliveryFine, NEW h, History(h), ReaderFine(h), Apply,
         UNCHANGED <<scenario, sourceVars>>
  PROVE  ReaderFine(h)' /\ DeliveryFine' /\ Receives
<1>1. PICK q : q = reader.flight
  OBVIOUS
<1>2. /\ reader.up /\ q.stage = "read" /\ durable' = q.pos
      /\ reader' = [reader EXCEPT !.flight = [q EXCEPT !.stage = "applied"]]
      /\ accepted' = IF q.pos = durable THEN accepted ELSE accepted \o q.txs
  BY <1>1 DEF Apply, IsDuplicate
<1>3. reader \in Readers /\ Awake(h) /\ Right(h, durable) /\ Right(h, reader.acked) /\ q \in Asks
  BY <1>1, <1>2 DEF ReaderFine, Readers
<1>4. reader.flight # Nothing /\ reader.flight.stage # "applied" /\ reader.flight.stage # "none"
  BY <1>1, <1>2 DEF Nothing
<1>5. Asked(h, q) /\ InStep /\ reader.ready = <<>>
  BY <1>1, <1>3, <1>4 DEF Awake
<1>6. PICK c, a, d : c = q.pos.commit /\ a = reader.acked.commit /\ d = durable.commit
  OBVIOUS
<1>7. /\ c \in Nat /\ a \in Nat /\ d \in Nat
      /\ Right(h, q.pos) /\ CommitAt(c) /\ a < c /\ NoCommit(a, c) /\ q.txs = Handed(c)
      /\ q.pos.restart >= reader.acked.restart /\ reader.cursor = c + 1
  BY <1>3, <1>5, <1>6 DEF Asked, Right, Places
<1>8. PICK z : z = [q EXCEPT !.stage = "applied"]
  OBVIOUS
<1>9. z \in Asks /\ z.stage = "applied" /\ z.pos = q.pos /\ z.txs = q.txs
  BY <1>3, <1>8 DEF Asks
<1>10. /\ reader' \in Readers /\ reader'.flight = z /\ reader'.ready = reader.ready /\ reader'.up
       /\ reader'.acked = reader.acked /\ reader'.cursor = reader.cursor
       /\ reader'.session = reader.session /\ reader'.open = reader.open
       /\ reader'.slot = reader.slot
  BY <1>2, <1>3, <1>8, <1>9 DEF Readers
<1>11. ReaderFine(h)'
  <2>1. Asked(h, z)
    BY <1>5, <1>9 DEF Asked
  <2>2. Asked(h, z)'
    BY <1>10, <2>1, AskedStill
  <2>3. ~Slotted => Collecting(h)'
    <3>1. reader.acked \in Places /\ reader.acked.commit >= reader.acked.commit
      BY <1>3 DEF Readers, Places
    <3> QED BY <1>3, <1>10, <3>1, CollectingStill DEF Awake
  <2>4. Awake(h)'
    BY <1>2, <1>5, <1>9, <1>10, <2>2, <2>3, SourceStill DEF Awake, Nothing
  <2>5. Right(h, durable)' /\ Right(h, reader.acked)'
    <3>1. PICK p, r : p = q.pos /\ r = reader.acked
      OBVIOUS
    <3>2. Right(h, p)' /\ Right(h, r)'
      BY <1>3, <1>7, <3>1, SourceStill
    <3> QED BY <1>2, <1>10, <3>1, <3>2
  <2>6. reader'.acked.restart <= durable'.restart
    BY <1>2, <1>3, <1>7, <1>10 DEF Right, Places
  <2> QED BY <1>10, <2>4, <2>5, <2>6, SourceStill DEF ReaderFine
<1>12. CASE d = a
  <2>1. durable # q.pos
    <3>1. durable = q.pos => c = d
      BY <1>6
    <3>2. c # d
      BY <1>7, <1>12
    <3> QED BY <3>1, <3>2
  <2>2. accepted' = accepted \o Handed(c)
    BY <1>2, <1>7, <2>1
  <2>3. PICK n \in 0 .. Len(committed) :
          /\ accepted = SubSeq(committed, 1, n)
          /\ \A k \in DOMAIN committed : k <= n <=> committed[k].scn <= d
    BY <1>6 DEF DeliveryFine
  <2>4. PICK m \in n .. Len(committed) :
          /\ SubSeq(committed, 1, n) \o Handed(c) = SubSeq(committed, 1, m)
          /\ \A k \in DOMAIN committed : k <= m <=> committed[k].scn <= c
    BY <1>7, <1>12, <2>3, NextTaken
  <2>5. accepted' = SubSeq(committed, 1, m) /\ m \in 0 .. Len(committed)
    BY <2>2, <2>3, <2>4
  <2>6. DeliveryFine'
    BY <1>2, <1>6, <2>4, <2>5, SourceStill DEF DeliveryFine
  <2>7. Len(accepted) = n /\ n \in Nat /\ Len(committed) \in Nat
    BY <2>3 DEF CommittedFine
  <2>8. m = n \/ m \in Len(accepted) + 1 .. Len(committed)
    BY <2>4, <2>7
  <2>9. Receives
    BY <2>3, <2>5, <2>8 DEF Receives
  <2> QED BY <1>11, <2>6, <2>9
<1>13. CASE d # a
  <2>1. Slotted /\ CommitAt(d) /\ a < d /\ NoCommit(a, d)
    BY <1>5, <1>6, <1>13 DEF InStep
  <2>2. d = c
    <3>1. ~(d < c) /\ ~(c < d)
      BY <1>7, <2>1 DEF NoCommit, CommitAt
    <3> QED BY <1>7, <3>1
  <2>3. durable \in Places /\ q.pos \in Places /\ durable.restart = d + 1 /\ q.pos.restart = c + 1
    BY <1>3, <1>6, <1>7, <2>1 DEF Right
  <2>4. durable = q.pos
    BY <1>6, <2>2, <2>3, PlacesEqual
  <2>5. accepted' = accepted /\ durable' = durable
    BY <1>2, <2>4
  <2>6. DeliveryFine' /\ Receives
    BY <2>5, SourceStill DEF DeliveryFine, Receives
  <2> QED BY <1>11, <2>6
<1> QED BY <1>12, <1>13

\* The reader acknowledges what the server stored, and the slot moves with it.
LEMMA AcknowledgeKeeps ==
  ASSUME Followed, SourceFine, CommittedFine, NEW h, History(h), ReaderFine(h), Acknowledge,
         UNCHANGED <<scenario, sourceVars>>
  PROVE  ReaderFine(h)' /\ UNCHANGED <<durable, accepted>>
<1>1. PICK q : q = reader.flight
  OBVIOUS
<1>2. reader.up /\ q.stage = "applied" /\ durable' = durable /\ accepted' = accepted
  BY <1>1 DEF Acknowledge
<1>3. reader \in Readers /\ Awake(h) /\ Right(h, durable) /\ Right(h, reader.acked) /\ q \in Asks
      /\ (~Slotted => reader.slot = 1)
  BY <1>1, <1>2 DEF ReaderFine, Readers
<1>4. reader.flight # Nothing
  BY <1>1, <1>2 DEF Nothing
<1>5. Asked(h, q) /\ durable = q.pos /\ reader.ready = <<>>
  BY <1>1, <1>2, <1>3, <1>4 DEF Awake
<1>6. PICK c, a, p : c = q.pos.commit /\ a = reader.acked.commit /\ p = q.pos
  OBVIOUS
<1>7. /\ c \in Nat /\ a \in Nat /\ p \in Places /\ Right(h, p) /\ a < c
      /\ p.restart >= reader.acked.restart /\ reader.cursor = c + 1
      /\ p.restart \in 1 .. c + 1 /\ reader.acked.restart \in Nat
      /\ (Slotted => p.restart = c + 1)
  BY <1>3, <1>5, <1>6 DEF Asked, Right, Places
<1>8. ~Regresses(p)
  BY <1>6, <1>7 DEF Regresses, Places
<1>9. PICK s : s = IF Slotted THEN p.restart ELSE reader.slot
  OBVIOUS
<1>10. s \in 1 .. p.restart /\ (~Slotted => s = 1) /\ s \in Nat
  BY <1>3, <1>7, <1>9
<1>11. reader' = [reader EXCEPT !.acked = p, !.flight = Nothing, !.gtid = 0, !.slot = s]
  <2>1. scenario.dialect \in {"postgres", "gbase8a"} <=> Slotted
    BY Selected DEF Slotted
  <2> QED BY <1>1, <1>6, <1>8, <1>9, <2>1 DEF Acknowledge, Acknowledged
<1>12. Nothing \in Asks
  BY DEF Nothing, Asks, Origin, Position, Places
<1>13. /\ reader' \in Readers /\ reader'.flight = Nothing /\ reader'.ready = reader.ready
       /\ reader'.up /\ reader'.acked = p /\ reader'.cursor = reader.cursor
       /\ reader'.session = reader.session /\ reader'.open = reader.open /\ reader'.slot = s
  BY <1>2, <1>3, <1>7, <1>10, <1>11, <1>12 DEF Readers
<1>14. ~Slotted => Collecting(h)'
  <2>1. reader.acked \in Places /\ reader'.acked.commit >= reader.acked.commit
    BY <1>3, <1>6, <1>7, <1>13 DEF Readers, Places
  <2> QED BY <1>3, <1>7, <1>13, <2>1, CollectingStill DEF Awake
<1>15. Awake(h)'
  <2>1. NoCommit(c, c + 1)'
    <3>1. \A j \in DOMAIN log' : ~(c < j /\ j < c + 1)
      BY <1>7, SourceStill DEF SourceFine
    <3> QED BY <3>1 DEF NoCommit
  <2>2. NoCommit(reader.acked.commit, reader.cursor)'
    BY <1>6, <1>7, <1>13, <2>1
  <2>3. InStep'
    BY <1>2, <1>5, <1>6, <1>13 DEF InStep
  <2> QED BY <1>5, <1>7, <1>13, <1>14, <2>2, <2>3, SourceStill DEF Awake, Nothing
<1>16. Right(h, durable)' /\ Right(h, reader.acked)'
  <2>1. Right(h, p)'
    BY <1>7, SourceStill
  <2> QED BY <1>2, <1>5, <1>6, <1>13, <2>1
<1>17. durable'.restart = p.restart /\ p.restart <= p.restart
  BY <1>2, <1>5, <1>6, <1>7
<1> QED BY <1>2, <1>10, <1>13, <1>15, <1>16, <1>17, SourceStill DEF ReaderFine

\* No position that the server has stored has to be refused.
LEMMA Forward ==
  ASSUME NEW h, ReaderFine(h)
  PROVE  AcksMoveForward
<1>1. SUFFICES ASSUME reader.flight.stage = "applied", reader.up
               PROVE  ~Regresses(reader.flight.pos)
  BY DEF AcksMoveForward, ReaderFine
<1>2. reader.flight # Nothing
  BY <1>1 DEF Nothing
<1>3. Asked(h, reader.flight) /\ Right(h, reader.acked)
  BY <1>1, <1>2 DEF ReaderFine, Awake
<1> QED BY <1>3 DEF Regresses, Asked, Right, Places

\* A reader process that ends leaves the positions that the server and the
\* source have.
LEMMA EndKeeps ==
  ASSUME SourceFine, CommittedFine, NEW h, History(h), ReaderFine(h),
         reader' = [reader EXCEPT !.up = FALSE], durable' = durable,
         UNCHANGED <<scenario, sourceVars>>
  PROVE  ReaderFine(h)'
<1>1. /\ reader \in Readers /\ Right(h, durable) /\ Right(h, reader.acked)
      /\ (~Slotted => reader.slot = 1)
      /\ reader.slot \in 1 .. reader.acked.restart /\ reader.acked.restart <= durable.restart
  BY DEF ReaderFine
<1>2. reader' \in Readers /\ ~reader'.up /\ reader'.acked = reader.acked /\ reader'.slot = reader.slot
      /\ reader'.flight = reader.flight
  BY <1>1 DEF Readers
<1>3. Right(h, durable)' /\ Right(h, reader.acked)'
  <2>1. PICK p, d : p = reader.acked /\ d = durable
    OBVIOUS
  <2>2. Right(h, p)' /\ Right(h, d)'
    BY <1>1, <2>1, SourceStill
  <2> QED BY <1>2, <2>1, <2>2
<1>4. AcksMoveForward'
  <2>1. AcksMoveForward /\ scenario' = scenario
    BY Forward, SourceStill
  <2> QED BY <1>2, <2>1 DEF AcksMoveForward, Regresses
<1> QED BY <1>1, <1>2, <1>3, <1>4, SourceStill DEF ReaderFine

\* A reader that starts at a right position has collected what was open there:
\* nothing, since all of it began at the restart or later.
LEMMA StartFine ==
  ASSUME SourceFine, CommittedFine, NEW h, History(h), UNCHANGED <<scenario, sourceVars>>,
         NEW p, Right(h, p), NEW s \in 1 .. p.restart, Right(h, durable), durable' = durable,
         ~Slotted => s = 1, p.restart <= durable.restart,
         reader' = Started(p, s), durable = p \/ (InStep /\ p = reader.acked)
  PROVE  ReaderFine(h)'
<1>1. /\ p \in Places /\ p.restart \in Nat \ {0} /\ p.commit \in Nat /\ p.commit <= Len(log)
      /\ p.restart <= p.commit + 1 /\ (Slotted => p.restart = p.commit + 1)
      /\ Len(log) \in Nat /\ s \in Nat /\ s <= p.restart
  BY DEF Right, Places, SourceFine
<1>2. Max({p.restart, s}) = p.restart
  BY <1>1, MaxOfTwo
<1>3. PICK o : o = [t \in Txs |-> NotOpen]
  OBVIOUS
<1>4. o \in [Txs -> Views]
  BY <1>3 DEF NotOpen, Views
<1>5. Nothing \in Asks /\ <<>> \in Seq(Asks)
  BY DEF Nothing, Asks, Origin, Position, Places
<1>6. reader' = [up |-> TRUE, ended |-> FALSE, session |-> p, cursor |-> p.restart,
                 open |-> o, gtid |-> 0, ready |-> <<>>, loading |-> FALSE,
                 acked |-> p, slot |-> s, flight |-> Nothing]
  BY <1>2, <1>3 DEF Started
<1>7. /\ reader' \in Readers /\ reader'.up /\ reader'.session = p /\ reader'.cursor = p.restart
      /\ reader'.open = o /\ reader'.ready = <<>> /\ reader'.acked = p /\ reader'.slot = s
      /\ reader'.flight = Nothing
  BY <1>1, <1>4, <1>5, <1>6 DEF Readers
<1>8. Right(h, p)' /\ Right(h, durable)'
  <2>1. PICK d : d = durable
    OBVIOUS
  <2>2. Right(h, p)' /\ Right(h, d)'
    BY <2>1, SourceStill
  <2> QED BY <2>1, <2>2
<1>9. Right(h, reader.acked)' /\ Right(h, reader.session)'
  BY <1>7, <1>8
<1>10. NoCommit(reader.acked.commit, reader.cursor)'
  <2>1. \A j \in DOMAIN log' : ~(p.commit < j /\ j < p.restart)
    BY <1>1, SourceStill DEF SourceFine
  <2>2. \A j \in DOMAIN log' : ~(reader'.acked.commit < j /\ j < reader'.cursor)
    BY <1>7, <2>1
  <2> QED BY <2>2 DEF NoCommit
<1>11. InStep'
  <2>1. CASE durable = p
    BY <1>7, <2>1 DEF InStep
  <2>2. CASE InStep /\ p = reader.acked
    <3>1. PICK a, c : a = reader.acked.commit /\ c = durable.commit
      OBVIOUS
    <3>2. CASE Slotted /\ CommitAt(c) /\ a < c /\ NoCommit(a, c)
      <4>1. Slotted' /\ CommitAt(c)' /\ NoCommit(a, c)'
        BY <3>2, SourceStill
      <4> QED BY <1>7, <2>2, <3>1, <3>2, <4>1 DEF InStep
    <3>3. CASE durable = reader.acked
      BY <1>7, <2>2, <3>3 DEF InStep
    <3> QED BY <2>2, <3>1, <3>2, <3>3 DEF InStep
  <2> QED BY <2>1, <2>2
<1>12. ASSUME ~Slotted PROVE Collecting(h)'
  <2>1. ASSUME NEW t \in Txs PROVE ~(h[p.restart - 1][t].begin >= p.restart)
    <3>1. p.restart - 1 \in 0 .. Len(log) /\ h[p.restart - 1] \in [Txs -> Views]
      BY <1>1 DEF History
    <3>2. h[p.restart - 1][t].begin \in Nat
      BY <3>1 DEF Views
    <3>3. h[p.restart - 1][t].begin # 0 => h[p.restart - 1][t].begin <= p.restart - 1
      BY <3>1 DEF History
    <3> QED BY <1>1, <3>2, <3>3
  <2>2. o = [t \in Txs |-> IF h[p.restart - 1][t].begin >= p.restart
                           THEN h[p.restart - 1][t] ELSE NotOpen]
    BY <1>3, <2>1
  <2>3. p.restart \in p.restart .. Len(log') + 1 /\ p.commit <= p.commit
    BY <1>1, SourceStill
  <2> QED BY <1>7, <1>9, <2>2, <2>3 DEF Collecting, Held
<1>13. Awake(h)'
  BY <1>7, <1>10, <1>11, <1>12, SourceStill DEF Awake, Nothing
<1>14. s \in 1 .. reader'.acked.restart /\ reader'.acked.restart <= durable'.restart
  BY <1>7
<1> QED BY <1>7, <1>8, <1>9, <1>13, <1>14, SourceStill DEF ReaderFine

\* A new process starts at the stored position with nothing collected.
LEMMA RestartKeeps ==
  ASSUME SourceFine, CommittedFine, NEW h, History(h), ReaderFine(h), Restart,
         UNCHANGED <<scenario, sourceVars>>
  PROVE  ReaderFine(h)' /\ UNCHANGED <<durable, accepted>>
<1>1. reader' = Started(durable, reader.slot) /\ durable' = durable /\ accepted' = accepted
  BY DEF Restart
<1>2. PICK p, s : p = durable /\ s = reader.slot
  OBVIOUS
<1>3. /\ Right(h, p) /\ Right(h, durable) /\ Right(h, reader.acked) /\ (~Slotted => s = 1)
      /\ s \in 1 .. reader.acked.restart /\ reader.acked.restart <= p.restart
  BY <1>2 DEF ReaderFine
<1>4. s \in 1 .. p.restart /\ p.restart <= p.restart
  <2>1. reader.acked.restart \in Nat /\ p.restart \in Nat
    BY <1>3 DEF Right, Places
  <2> QED BY <1>3, <2>1
<1>5. reader' = Started(p, s) /\ p.restart <= durable.restart
  BY <1>1, <1>2, <1>4
<1>6. ReaderFine(h)'
  BY <1>1, <1>2, <1>3, <1>4, <1>5, StartFine
<1> QED BY <1>1, <1>6

\* The server may have stored the position in flight: that of the commit that
\* comes next.
LEMMA ReconnectKeeps ==
  ASSUME Followed, SourceFine, CommittedFine, NEW h, History(h), ReaderFine(h), Reconnect,
         UNCHANGED <<scenario, sourceVars>>
  PROVE  ReaderFine(h)' /\ UNCHANGED <<durable, accepted>>
<1>1. reader' = Started(reader.acked, reader.slot) /\ durable' = durable /\ accepted' = accepted
      /\ reader.up
  BY DEF Reconnect
<1>2. Slotted
  BY Selected DEF Reconnect, MySQL, ByGTID, Slotted
<1>3. PICK p, s : p = reader.acked /\ s = reader.slot
  OBVIOUS
<1>4. /\ Right(h, p) /\ Right(h, durable) /\ s \in 1 .. p.restart /\ p.restart <= durable.restart
      /\ Awake(h)
  BY <1>1, <1>3 DEF ReaderFine
<1>5. InStep
  <2>1. CASE reader.flight.stage # "applied"
    BY <1>4, <2>1 DEF Awake
  <2>2. CASE reader.flight.stage = "applied"
    <3>1. reader.flight # Nothing
      BY <2>2 DEF Nothing
    <3>2. durable = reader.flight.pos /\ Asked(h, reader.flight)
      BY <1>4, <2>2, <3>1 DEF Awake
    <3> QED BY <1>2, <3>2 DEF Asked, InStep
  <2> QED BY <2>1, <2>2
<1>6. ReaderFine(h)'
  BY <1>1, <1>2, <1>3, <1>4, <1>5, StartFine
<1> QED BY <1>1, <1>6

\* PostgreSQL sends what was committed after the newest acknowledgement.
LEMMA FollowSlotKeeps ==
  ASSUME SourceFine, CommittedFine, NEW h, History(h), ReaderFine(h), FollowSlot,
         UNCHANGED <<scenario, sourceVars>>
  PROVE  ReaderFine(h)' /\ UNCHANGED <<durable, accepted>>
<1>1. Slotted /\ reader.up /\ reader.flight = Nothing /\ reader.ready = <<>> /\ NextCommit # <<>>
      /\ durable' = durable /\ accepted' = accepted
  BY DEF FollowSlot, Reading, Slotted
<1>2. /\ reader \in Readers /\ Awake(h) /\ Right(h, durable) /\ Right(h, reader.acked)
      /\ reader.slot \in 1 .. reader.acked.restart /\ reader.acked.restart <= durable.restart
  BY <1>1 DEF ReaderFine
<1>3. PICK a : a = reader.acked.commit
  OBVIOUS
<1>4. a \in Nat /\ reader.cursor = a + 1 /\ reader.acked.restart = a + 1 /\ InStep
  BY <1>1, <1>2, <1>3 DEF Awake, Right, Places, Nothing
<1>5. PICK ahead : ahead = {i \in DOMAIN log : log[i].kind = "COMMIT" /\ log[i].scn >= reader.cursor}
  OBVIOUS
<1>6. PICK c : c = Min(ahead)
  OBVIOUS
<1>7. ahead # {} /\ Head(NextCommit) = log[c]
  <2>1. NextCommit = IF ahead = {} THEN <<>> ELSE <<log[c]>>
    BY <1>5, <1>6 DEF NextCommit
  <2> QED BY <1>1, <2>1
<1>8. DOMAIN log = 1 .. Len(log) /\ Len(log) \in Nat /\ ahead \in SUBSET Nat
      /\ \A i \in DOMAIN log : log[i].scn = i
  BY <1>5 DEF SourceFine, History
<1>9. c \in ahead /\ \A i \in ahead : c <= i
  BY <1>6, <1>7, <1>8, MinIn
<1>10. CommitAt(c) /\ c \in Nat /\ a < c /\ NoCommit(a, c) /\ log[c].scn = c /\ log[c].tx \in Txs
       /\ c <= Len(log)
  <2>1. c \in DOMAIN log /\ log[c].kind = "COMMIT" /\ log[c].scn = c /\ c >= a + 1
    BY <1>4, <1>5, <1>8, <1>9
  <2>2. ASSUME NEW j \in DOMAIN log, a < j, j < c, log[j].kind = "COMMIT" PROVE FALSE
    <3>1. j \in ahead
      BY <1>4, <1>5, <1>8, <2>2
    <3> QED BY <1>8, <1>9, <2>1, <2>2, <3>1
  <2>3. CommitAt(c)
    BY <2>1 DEF CommitAt
  <2> QED BY <1>4, <1>8, <2>1, <2>2, <2>3, CommitDone DEF NoCommit
<1>11. PICK p : p = Position(c + 1, c)
  OBVIOUS
<1>12. p \in Places /\ p.restart = c + 1 /\ p.commit = c
  BY <1>10, <1>11 DEF Places, Position
<1>13. PICK q : q = Request(Handed(c), p)
  OBVIOUS
<1>14. q \in Asks /\ q.stage = "read" /\ q.txs = Handed(c) /\ q.pos = p
  <2>1. Handed(c) \in Seq(Whole)
    <3>1. src[log[c].tx].rows \in Seq(Nat)
      BY <1>10 DEF SourceFine, Transactions
    <3>2. Transaction(log[c].tx, src[log[c].tx].rows, c) \in Whole
      BY <1>10, <3>1 DEF Whole, Transaction
    <3> QED BY <3>2 DEF Handed
  <2> QED BY <1>12, <1>13, <2>1 DEF Asks, Request
<1>15. PICK w : w = <<q>>
  OBVIOUS
<1>16. /\ reader' \in Readers /\ reader'.flight = Nothing /\ reader'.ready = w /\ reader'.up
       /\ reader'.acked = reader.acked /\ reader'.cursor = c + 1 /\ reader'.slot = reader.slot
  <2>1. reader' = [reader EXCEPT !.cursor = c + 1, !.ready = w]
    BY <1>7, <1>10, <1>11, <1>13, <1>15 DEF FollowSlot, Handed
  <2>2. w \in Seq(Asks) /\ c + 1 \in Nat
    BY <1>10, <1>14, <1>15
  <2> QED BY <1>1, <1>2, <2>1, <2>2 DEF Readers
<1>17. Right(h, p)
  BY <1>1, <1>8, <1>10, <1>12 DEF Right
<1>18. Asked(h, q)'
  <2>1. Right(h, p)' /\ CommitAt(c)' /\ NoCommit(a, c)' /\ Handed(c)' = Handed(c)
    BY <1>10, <1>17, SourceStill
  <2> QED BY <1>3, <1>4, <1>10, <1>12, <1>14, <1>16, <2>1 DEF Asked
<1>19. InStep'
  <2>1. PICK d : d = durable.commit
    OBVIOUS
  <2>2. CASE durable = reader.acked
    BY <1>1, <1>16, <2>2 DEF InStep
  <2>3. CASE CommitAt(d) /\ a < d /\ NoCommit(a, d)
    <3>1. CommitAt(d)' /\ NoCommit(a, d)' /\ Slotted'
      BY <1>1, <2>3, SourceStill
    <3> QED BY <1>1, <1>3, <1>16, <2>1, <2>3, <3>1 DEF InStep
  <2> QED BY <1>3, <1>4, <2>1, <2>2, <2>3 DEF InStep
<1>20. Awake(h)'
  <2>1. w # <<>> /\ Len(w) = 1 /\ w[1] = q
    BY <1>15
  <2>2. reader'.ready[1] = q /\ Len(reader'.ready) = 1 /\ reader'.ready # <<>>
    BY <1>16, <2>1
  <2>3. Asked(h, reader.ready[1])'
    BY <1>18, <2>2
  <2>4. reader'.flight.stage = "none"
    BY <1>16 DEF Nothing
  <2>5. Slotted'
    BY <1>1, SourceStill
  <2> QED BY <1>14, <1>16, <1>19, <2>2, <2>3, <2>4, <2>5 DEF Awake
<1>21. Right(h, durable)' /\ Right(h, reader.acked)'
  <2>1. PICK r, d : r = reader.acked /\ d = durable
    OBVIOUS
  <2>2. Right(h, r)' /\ Right(h, d)'
    BY <1>2, <2>1, SourceStill
  <2> QED BY <1>1, <1>16, <2>1, <2>2
<1> QED BY <1>1, <1>2, <1>16, <1>20, <1>21, SourceStill DEF ReaderFine

\* What is open behind the commit of a right position began at its restart or
\* later.
LEMMA BeganLater ==
  ASSUME SourceFine, NEW h, History(h), ~Slotted, NEW p, Right(h, p),
         NEW i \in 0 .. Len(log), p.commit <= i, NEW u \in Txs, h[i][u].begin # 0
  PROVE  h[i][u].begin >= p.restart
<1>1. /\ p.commit \in Nat /\ p.commit \in 0 .. Len(log) /\ p.restart \in Nat
      /\ p.restart <= p.commit + 1 /\ h[i][u].begin = src[u].begin
  BY DEF Right, Places, History
<1>2. src[u].begin \in Nat /\ \A j \in src[u].begin .. i : h[j][u].begin = src[u].begin
  BY DEF SourceFine, Transactions, History
<1>3. CASE src[u].begin <= p.commit
  <2>1. p.commit \in src[u].begin .. i
    BY <1>1, <1>2, <1>3
  <2>2. h[p.commit][u].begin = h[i][u].begin
    BY <1>1, <1>2, <2>1
  <2> QED BY <2>2 DEF Right
<1>4. CASE ~(src[u].begin <= p.commit)
  BY <1>1, <1>2, <1>4
<1> QED BY <1>3, <1>4

\* Behind record i the reader has collected o and is ready to hand out w.
LEMMA BehindFine ==
  ASSUME SourceFine, CommittedFine, NEW h, History(h), ReaderFine(h),
         UNCHANGED <<scenario, sourceVars>>, durable' = durable,
         ~Slotted, reader.up, reader.flight = Nothing, reader.ready = <<>>,
         NEW i, i = reader.cursor, i <= Len(log), NEW o, NEW w,
         o = Held(h, i),
         reader' = [reader EXCEPT !.cursor = i + 1, !.loading = TRUE, !.open = o, !.ready = w],
         \/ w = <<>> /\ (log[i].kind # "COMMIT" \/ i <= reader.acked.commit)
         \/ \E q \in Asks :
              /\ w = <<q>> /\ q.stage = "read" /\ Right(h, q.pos) /\ q.pos.commit = i
              /\ CommitAt(i) /\ reader.acked.commit < i /\ q.txs = Handed(i)
              /\ q.pos.restart >= reader.acked.restart
  PROVE  ReaderFine(h)'
<1>1. /\ reader \in Readers /\ Awake(h) /\ Right(h, durable) /\ Right(h, reader.acked)
      /\ reader.slot = 1 /\ Collecting(h)
      /\ reader.slot \in 1 .. reader.acked.restart /\ reader.acked.restart <= durable.restart
  BY DEF ReaderFine, Awake
<1>2. PICK a, s : a = reader.acked.commit /\ s = reader.session
  OBVIOUS
<1>3. /\ a \in Nat /\ i \in Nat \ {0} /\ NoCommit(a, i) /\ durable = reader.acked
      /\ Right(h, s) /\ s.restart \in Nat /\ i \in s.restart .. Len(log) + 1
  <2>1. a \in Nat /\ s.restart \in Nat \ {0} /\ Right(h, s) /\ i \in s.restart .. Len(log) + 1
    BY <1>1, <1>2 DEF Collecting, Right, Places
  <2>2. NoCommit(a, i) /\ InStep
    BY <1>1, <1>2 DEF Awake, Nothing
  <2>3. i \in Nat \ {0}
    BY <2>1 DEF SourceFine
  <2> QED BY <2>1, <2>2, <2>3 DEF InStep
<1>4. o \in [Txs -> Views]
  <2>1. i \in 0 .. Len(log)
    BY <1>3 DEF SourceFine
  <2>2. h[i] \in [Txs -> Views] /\ NotOpen \in Views
    BY <2>1 DEF History, NotOpen, Views
  <2> QED BY <2>2 DEF Held
<1>5. w \in Seq(Asks)
  <2>1. w = <<>> \/ \E q \in Asks : w = <<q>>
    OBVIOUS
  <2>2. <<>> \in Seq(Asks) /\ \A q \in Asks : <<q>> \in Seq(Asks)
    OBVIOUS
  <2> QED BY <2>1, <2>2, Zenon
<1>6. /\ reader' \in Readers /\ reader'.flight = Nothing /\ reader'.ready = w /\ reader'.up
      /\ reader'.acked = reader.acked /\ reader'.cursor = i + 1 /\ reader'.slot = reader.slot
      /\ reader'.session = s /\ reader'.open = o
  <2>1. i + 1 \in Nat
    BY <1>3
  <2> QED BY <1>1, <1>2, <1>4, <1>5, <2>1 DEF Readers
<1>7. Collecting(h)'
  <2>1. Right(h, s)' /\ log' = log
    BY <1>3, SourceStill
  <2>2. i + 1 \in s.restart .. Len(log) + 1 /\ (i + 1) - 1 = i
    BY <1>3 DEF SourceFine
  <2>3. s.commit <= reader'.acked.commit
    BY <1>1, <1>2, <1>6 DEF Collecting
  <2> QED BY <1>2, <1>6, <2>1, <2>2, <2>3 DEF Collecting, Held
<1>8. Right(h, durable)' /\ Right(h, reader.acked)' /\ InStep'
  <2>1. PICK d : d = durable
    OBVIOUS
  <2>2. Right(h, d)'
    BY <1>1, <2>1, SourceStill
  <2> QED BY <1>3, <1>6, <2>1, <2>2 DEF InStep
<1>9. CASE w = <<>> /\ (log[i].kind # "COMMIT" \/ i <= reader.acked.commit)
  <2>1. NoCommit(a, i + 1)
    <3>1. ASSUME NEW j \in DOMAIN log, a < j, j < i + 1 PROVE log[j].kind # "COMMIT"
      <4>1. j \in Nat
        BY DEF SourceFine
      <4>2. j < i \/ j = i
        BY <1>3, <3>1, <4>1
      <4>3. CASE j < i
        BY <1>3, <3>1, <4>3 DEF NoCommit
      <4>4. CASE j = i
        BY <1>2, <1>3, <1>9, <3>1, <4>4
      <4> QED BY <4>2, <4>3, <4>4
    <3> QED BY <3>1 DEF NoCommit
  <2>2. NoCommit(reader.acked.commit, reader.cursor)'
    <3>1. NoCommit(a, i + 1)'
      BY <2>1, SourceStill
    <3> QED BY <1>2, <1>6, <3>1
  <2>3. Awake(h)'
    BY <1>6, <1>7, <1>8, <1>9, <2>2, SourceStill DEF Awake, Nothing
  <2> QED BY <1>1, <1>6, <1>8, <2>3, SourceStill DEF ReaderFine
<1>10. ASSUME NEW q \in Asks, w = <<q>>, q.stage = "read", Right(h, q.pos), q.pos.commit = i,
              CommitAt(i), reader.acked.commit < i, q.txs = Handed(i),
              q.pos.restart >= reader.acked.restart
       PROVE  ReaderFine(h)'
  <2>1. Asked(h, q)'
    <3>1. PICK p : p = q.pos
      OBVIOUS
    <3>2. Right(h, p)' /\ CommitAt(i)' /\ NoCommit(a, i)' /\ Handed(i)' = Handed(i)
      BY <1>3, <1>10, <3>1, SourceStill
    <3> QED BY <1>2, <1>3, <1>6, <1>10, <3>1, <3>2 DEF Asked
  <2>2. reader'.ready[1] = q /\ Len(reader'.ready) = 1 /\ reader'.ready # <<>>
    BY <1>6, <1>10
  <2>3. Asked(h, reader.ready[1])'
    BY <2>1, <2>2
  <2>4. reader'.flight.stage = "none"
    BY <1>6 DEF Nothing
  <2>5. Awake(h)'
    BY <1>6, <1>7, <1>8, <1>10, <2>2, <2>3, <2>4 DEF Awake
  <2> QED BY <1>1, <1>6, <1>8, <2>5, SourceStill DEF ReaderFine
<1> QED BY <1>9, <1>10

\* The handlers of the reader turn what is open as the records did.
LEMMA Made ==
  ASSUME NEW x \in Views, NEW i \in Nat, NEW s \in Nat
  PROVE  /\ [NotOpen EXCEPT !.begin = i] = View(i, <<>>, 0)
         /\ [x EXCEPT !.rows = Append(@, i)] = View(x.begin, Append(x.rows, i), x.half)
         /\ [x EXCEPT !.half = i] = View(x.begin, x.rows, i)
         /\ [x EXCEPT !.rows = Append(@, i), !.half = 0] = View(x.begin, Append(x.rows, i), 0)
         /\ Discarded(x, s) =
              View(x.begin, Before(x.rows, s), IF x.half >= s THEN 0 ELSE x.half)
<1>1. ASSUME NEW z \in Views, NEW r, NEW k, z.begin = x.begin, z.rows = r, z.half = k
      PROVE  z = View(x.begin, r, k)
  <2>1. z = [begin |-> z.begin, rows |-> z.rows, half |-> z.half]
    BY DEF Views
  <2> QED BY <1>1, <2>1 DEF View
<1>2. [NotOpen EXCEPT !.begin = i] = View(i, <<>>, 0)
  BY DEF NotOpen, View
<1>3. ASSUME NEW r \in Seq(Nat) PROVE [x EXCEPT !.rows = r] = View(x.begin, r, x.half)
  <2>1. PICK z : z = [x EXCEPT !.rows = r]
    OBVIOUS
  <2>2. z \in Views /\ z.begin = x.begin /\ z.rows = r /\ z.half = x.half
    BY <2>1 DEF Views
  <2> QED BY <1>1, <2>1, <2>2
<1>4. [x EXCEPT !.half = i] = View(x.begin, x.rows, i)
  <2>1. PICK z : z = [x EXCEPT !.half = i]
    OBVIOUS
  <2>2. z \in Views /\ z.begin = x.begin /\ z.rows = x.rows /\ z.half = i
    BY <2>1 DEF Views
  <2> QED BY <1>1, <2>1, <2>2
<1>5. ASSUME NEW r \in Seq(Nat), NEW k \in Nat
      PROVE  [x EXCEPT !.rows = r, !.half = k] = View(x.begin, r, k)
  <2>1. PICK z : z = [x EXCEPT !.rows = r, !.half = k]
    OBVIOUS
  <2>2. z \in Views /\ z.begin = x.begin /\ z.rows = r /\ z.half = k
    BY <2>1 DEF Views
  <2> QED BY <1>1, <2>1, <2>2
<1>6. Append(x.rows, i) \in Seq(Nat) /\ Before(x.rows, s) \in Seq(Nat) /\ 0 \in Nat
      /\ (IF x.half >= s THEN 0 ELSE x.half) \in Nat
  <2>1. x.rows \in Seq(Nat) /\ x.half \in Nat
    BY DEF Views
  <2> QED BY <2>1, BeforeKeeps
<1>7. [x EXCEPT !.rows = Append(@, i)] = View(x.begin, Append(x.rows, i), x.half)
  BY <1>3, <1>6
<1>8. [x EXCEPT !.rows = Append(@, i), !.half = 0] = View(x.begin, Append(x.rows, i), 0)
  BY <1>5, <1>6
<1>9. Discarded(x, s) = View(x.begin, Before(x.rows, s), IF x.half >= s THEN 0 ELSE x.half)
  BY <1>5, <1>6 DEF Discarded
<1> QED BY <1>2, <1>4, <1>7, <1>8, <1>9

\* What the reader has collected when record i, of transaction t, has turned what
\* is open there: nothing new if its session hides the transaction.
LEMMA OpenTurns ==
  ASSUME SourceFine, NEW h, History(h), Collecting(h), NEW i, i = reader.cursor, i <= Len(log),
         NEW t, t = log[i].tx
  PROVE  /\ i \in DOMAIN log /\ i \in Nat /\ i - 1 \in 0 .. Len(log) /\ i \in 0 .. Len(log)
         /\ t \in Txs /\ log[i].scn = i /\ log[i] \in Entries
         /\ h[i - 1][t] \in Views /\ h[i][t] \in Views
         /\ Turns(i, log[i], src[t], h[i - 1][t], h[i][t])
         /\ \A u \in Txs \ {t} : h[i][u] = h[i - 1][u]
         /\ reader.open = Held(h, i - 1)
         /\ src[t].begin < reader.session.restart => reader.open = Held(h, i)
         /\ ~(src[t].begin < reader.session.restart) =>
              /\ [reader.open EXCEPT ![t] = h[i][t]] = Held(h, i)
              /\ h[i - 1][t].begin # 0 => reader.open[t] = h[i - 1][t]
              /\ reader.open[t].begin # 0 => reader.open[t] = h[i - 1][t]
              /\ h[i - 1][t] = NotOpen => reader.open[t] = NotOpen
<1>1. PICK r : r = reader.session.restart
  OBVIOUS
<1>2. r \in Nat \ {0} /\ i \in r .. Len(log) + 1 /\ Len(log) \in Nat /\ DOMAIN log = 1 .. Len(log)
  BY <1>1 DEF Collecting, Right, Places, SourceFine
<1>3. i \in DOMAIN log /\ i \in Nat /\ i - 1 \in 0 .. Len(log) /\ i \in 0 .. Len(log)
  BY <1>2
<1>4. log[i] \in Entries /\ t \in Txs /\ log[i].scn = i
  <2>1. log[i] \in Entries
    BY <1>3 DEF SourceFine
  <2> QED BY <1>3, <2>1 DEF Entries, History
<1>5. h[i - 1] \in [Txs -> Views] /\ h[i] \in [Txs -> Views]
  BY <1>3 DEF History
<1>6. PICK x, y : x = h[i - 1][t] /\ y = h[i][t]
  OBVIOUS
<1>7. x \in Views /\ y \in Views /\ x.begin \in Nat /\ y.begin \in Nat
  BY <1>4, <1>5, <1>6 DEF Views
<1>8. Turns(i, log[i], src[t], x, y) /\ \A u \in Txs \ {t} : h[i][u] = h[i - 1][u]
  BY <1>3, <1>6 DEF History
<1>9. /\ x.begin # 0 => x.begin = src[t].begin
      /\ y.begin # 0 => y.begin = src[t].begin
  BY <1>3, <1>4, <1>6 DEF History
<1>10. reader.open = [u \in Txs |-> IF h[i - 1][u].begin >= r THEN h[i - 1][u] ELSE NotOpen]
  BY <1>1 DEF Collecting, Held
<1>11. src[t].begin \in Nat
  BY <1>4 DEF SourceFine, Transactions
<1>12. ASSUME src[t].begin < r PROVE reader.open = Held(h, i)
  <2>1. ~(x.begin >= r) /\ ~(y.begin >= r)
    BY <1>2, <1>7, <1>9, <1>11, <1>12
  <2>2. \A u \in Txs : (IF h[i - 1][u].begin >= r THEN h[i - 1][u] ELSE NotOpen)
                       = (IF h[i][u].begin >= r THEN h[i][u] ELSE NotOpen)
    BY <1>6, <1>8, <2>1
  <2> QED BY <1>1, <1>10, <2>2 DEF Held
<1>13. ASSUME ~(src[t].begin < r)
       PROVE  /\ [reader.open EXCEPT ![t] = y] = Held(h, i)
              /\ x.begin # 0 => reader.open[t] = x
              /\ reader.open[t].begin # 0 => reader.open[t] = x
              /\ x = NotOpen => reader.open[t] = NotOpen
  <2>1. (x.begin # 0 => x.begin >= r) /\ (y.begin # 0 => y.begin >= r)
    BY <1>2, <1>7, <1>9, <1>11, <1>13
  <2>2. reader.open[t] = IF x.begin >= r THEN x ELSE NotOpen
    BY <1>4, <1>6, <1>10
  <2>3. y.begin >= r \/ y = NotOpen
    <3>1. y = NotOpen \/ y.begin # 0
      <4>1. \A b, w, k : View(b, w, k).begin = b
        BY DEF View
      <4>2. log[i].kind \in Kinds
        BY <1>4 DEF Entries
      <4> QED BY <1>3, <1>8, <4>1, <4>2 DEF Turns, Kinds
    <3> QED BY <2>1, <3>1
  <2>4. y = IF y.begin >= r THEN y ELSE NotOpen
    BY <2>3
  <2>5. \A u \in Txs : ([reader.open EXCEPT ![t] = y])[u]
                       = (IF h[i][u].begin >= r THEN h[i][u] ELSE NotOpen)
    BY <1>4, <1>6, <1>8, <1>10, <2>4
  <2>6. [reader.open EXCEPT ![t] = y]
          = [u \in Txs |-> IF h[i][u].begin >= r THEN h[i][u] ELSE NotOpen]
    <3>1. reader.open = [u \in Txs |-> reader.open[u]]
      BY <1>10
    <3>2. [reader.open EXCEPT ![t] = y] = [u \in Txs |-> ([reader.open EXCEPT ![t] = y])[u]]
      BY <3>1
    <3> QED BY <2>5, <3>2
  <2> QED BY <1>1, <2>1, <2>2, <2>6 DEF Held, NotOpen
<1> QED BY <1>1, <1>3, <1>4, <1>6, <1>7, <1>8, <1>10, <1>12, <1>13 DEF Held

\* One record of the log of GBase 8s.
LEMMA ProcessKeeps ==
  ASSUME Followed, SourceFine, CommittedFine, NEW h, History(h), ReaderFine(h), Process,
         UNCHANGED <<scenario, sourceVars>>
  PROVE  ReaderFine(h)' /\ UNCHANGED <<durable, accepted>>
<1>1. /\ ~Slotted /\ GBase /\ ~Db2 /\ reader.up /\ reader.flight = Nothing
      /\ reader.ready = <<>> /\ reader.cursor <= Len(log)
      /\ durable' = durable /\ accepted' = accepted
  <2>1. scenario.dialect = "gbase8s"
    BY Selected DEF Process, Streamed
  <2> QED BY <2>1 DEF Process, Reading, Slotted, GBase, Db2
<1>2. PICK i, rec, t : i = reader.cursor /\ rec = log[i] /\ t = rec.tx
  OBVIOUS
<1>3. PICK x, y : x = h[i - 1][t] /\ y = h[i][t]
  OBVIOUS
<1>4. /\ reader \in Readers /\ Awake(h) /\ Collecting(h) /\ Right(h, reader.acked)
      /\ NoCommit(reader.acked.commit, i)
  BY <1>1, <1>2 DEF ReaderFine, Awake
<1>5. PICK s, a : s = reader.session /\ a = reader.acked
  OBVIOUS
<1>6. /\ i \in DOMAIN log /\ i \in Nat /\ i - 1 \in 0 .. Len(log) /\ i \in 0 .. Len(log)
      /\ t \in Txs /\ rec.scn = i /\ rec \in Entries /\ x \in Views /\ y \in Views
      /\ Turns(i, rec, src[t], x, y)
      /\ \A u \in Txs \ {t} : h[i][u] = h[i - 1][u]
      /\ reader.open = Held(h, i - 1)
      /\ src[t].begin < s.restart => reader.open = Held(h, i)
      /\ ~(src[t].begin < s.restart) =>
           /\ [reader.open EXCEPT ![t] = y] = Held(h, i)
           /\ x.begin # 0 => reader.open[t] = x
           /\ reader.open[t].begin # 0 => reader.open[t] = x
           /\ x = NotOpen => reader.open[t] = NotOpen
  BY <1>1, <1>2, <1>3, <1>4, <1>5, OpenTurns
<1>7. /\ Right(h, s) /\ Right(h, a) /\ s.commit \in Nat /\ a.commit \in Nat /\ s.commit <= a.commit
      /\ s.restart \in Nat /\ a.restart \in Nat /\ a.restart <= a.commit + 1
      /\ s \in Places /\ a \in Places
  BY <1>4, <1>5 DEF Collecting, Right, Places
<1>8. ASSUME NEW o, o = Held(h, i), Pass(o, reader.ready), rec.kind # "COMMIT" \/ i <= a.commit
      PROVE  ReaderFine(h)'
  <2>1. reader' = [reader EXCEPT !.cursor = i + 1, !.loading = TRUE, !.open = o, !.ready = <<>>]
    BY <1>1, <1>2, <1>8 DEF Pass
  <2> QED BY <1>1, <1>2, <1>5, <1>8, <2>1, BehindFine
<1>9. CASE Hidden(rec)
  <2>1. src[t].begin < s.restart /\ Pass(reader.open, reader.ready)
    BY <1>1, <1>2, <1>5, <1>9 DEF Process, Hidden
  <2>2. ASSUME rec.kind = "COMMIT", ~(i <= a.commit) PROVE FALSE
    <3>1. CommitAt(i)
      BY <1>2, <1>6, <2>2 DEF CommitAt
    <3>2. h[i - 1][t].begin # 0
      BY <1>2, <3>1, CommitDone
    <3>3. s.commit <= i - 1
      BY <1>6, <1>7, <2>2
    <3>4. h[i - 1][t].begin >= s.restart
      BY <1>1, <1>6, <1>7, <3>2, <3>3, BeganLater
    <3>5. h[i - 1][t].begin = src[t].begin
      BY <1>6, <3>2 DEF History
    <3>6. src[t].begin \in Nat
      BY <1>6 DEF SourceFine, Transactions
    <3> QED BY <1>7, <2>1, <3>4, <3>5, <3>6
  <2> QED BY <1>1, <1>6, <1>8, <2>1, <2>2
<1>10. ASSUME ~Hidden(rec) PROVE ReaderFine(h)'
  <2>1. ~(src[t].begin < s.restart) /\ Handle(rec)
    BY <1>1, <1>2, <1>5, <1>10 DEF Process, Hidden
  <2>2. /\ [reader.open EXCEPT ![t] = y] = Held(h, i)
        /\ x.begin # 0 => reader.open[t] = x
        /\ reader.open[t].begin # 0 => reader.open[t] = x
        /\ x = NotOpen => reader.open[t] = NotOpen
    BY <1>6, <2>1
  <2>3. State(rec) = reader.open[t]
    BY <1>1, <1>2 DEF State
  <2>4. ASSUME Collect(t, y), rec.kind # "COMMIT" \/ i <= a.commit PROVE ReaderFine(h)'
    BY <1>8, <2>2, <2>4 DEF Collect
  <2>5. ASSUME Fail PROVE ReaderFine(h)'
    BY <1>1, <2>5, EndKeeps DEF Fail
  <2>6. rec.kind # "BEGIN" => x.begin # 0 /\ reader.open[t] = x
    BY <1>6, <2>2 DEF Turns
  <2>7. rec.arg \in Nat /\ x \in Views /\ i \in Nat
    BY <1>6 DEF Entries
  <2>8. CASE OnBegin(rec)
    <3>1. x = NotOpen /\ y = View(i, <<>>, 0) /\ rec.kind = "BEGIN"
      BY <1>6, <2>8 DEF Turns, OnBegin
    <3>2. ~IsOpen(t)
      BY <2>2, <3>1 DEF IsOpen, NotOpen
    <3>3. Collect(t, [NotOpen EXCEPT !.begin = i])
      BY <1>1, <1>2, <1>6, <2>8, <3>2 DEF OnBegin
    <3>4. [NotOpen EXCEPT !.begin = i] = y
      BY <2>7, <3>1, Made, Zenon
    <3> QED BY <2>4, <3>1, <3>3, <3>4
  <2>9. CASE OnRow(rec)
    <3>1. y = View(x.begin, Append(x.rows, i), x.half) /\ rec.kind = "ROW" /\ reader.open[t] = x
      BY <1>6, <2>6, <2>9 DEF Turns, OnRow
    <3>2. Fail \/ Collect(t, [x EXCEPT !.rows = Append(@, i)])
      BY <1>2, <1>6, <2>3, <2>9, <3>1 DEF OnRow
    <3>3. [x EXCEPT !.rows = Append(@, i)] = y
      BY <2>7, <3>1, Made, Zenon
    <3> QED BY <2>4, <2>5, <3>1, <3>2, <3>3
  <2>10. CASE OnBefore(rec)
    <3>1. y = View(x.begin, x.rows, i) /\ rec.kind = "BEFORE" /\ reader.open[t] = x
      BY <1>6, <2>6, <2>10 DEF Turns, OnBefore
    <3>2. Fail \/ Collect(t, [x EXCEPT !.half = i])
      BY <1>2, <1>6, <2>3, <2>10, <3>1 DEF OnBefore
    <3>3. [x EXCEPT !.half = i] = y
      BY <2>7, <3>1, Made, Zenon
    <3> QED BY <2>4, <2>5, <3>1, <3>2, <3>3
  <2>11. CASE OnAfter(rec)
    <3>1. y = View(x.begin, Append(x.rows, i), 0) /\ rec.kind = "AFTER" /\ reader.open[t] = x
      BY <1>6, <2>6, <2>11 DEF Turns, OnAfter
    <3>2. Fail \/ Collect(t, [x EXCEPT !.rows = Append(@, i), !.half = 0])
      BY <1>2, <1>6, <2>3, <2>11, <3>1 DEF OnAfter
    <3>3. [x EXCEPT !.rows = Append(@, i), !.half = 0] = y
      BY <2>7, <3>1, Made, Zenon
    <3> QED BY <2>4, <2>5, <3>1, <3>2, <3>3
  <2>12. CASE OnUndo(rec)
    <3>1. /\ y = View(x.begin, Before(x.rows, rec.arg), IF x.half >= rec.arg THEN 0 ELSE x.half)
          /\ rec.kind = "UNDO" /\ reader.open[t] = x
      BY <1>6, <2>6, <2>12 DEF Turns, OnUndo
    <3>2. Fail \/ Collect(t, Discarded(x, rec.arg))
      BY <1>1, <1>2, <2>3, <2>12, <3>1 DEF OnUndo
    <3>3. Discarded(x, rec.arg) = y
      BY <2>7, <3>1, Made, Zenon
    <3> QED BY <2>4, <2>5, <3>1, <3>2, <3>3
  <2>13. CASE OnAbort(rec)
    <3>1. y = NotOpen /\ rec.kind = "ABORT"
      BY <1>6, <2>13 DEF Turns, OnAbort
    <3> QED BY <1>2, <2>4, <2>13, <3>1 DEF OnAbort
  <2>14. CASE OnCommit(rec)
    <3>1. /\ y = NotOpen /\ rec.kind = "COMMIT" /\ reader.open[t] = x /\ x.begin # 0
          /\ src[t].rows = x.rows /\ CommitGBase(rec, x)
      BY <1>1, <1>2, <1>6, <2>6, <2>14 DEF Turns, OnCommit
    <3>2. CASE Fail
      BY <2>5, <3>2
    <3>3. CASE i <= a.commit /\ Collect(t, NotOpen)
      BY <2>4, <3>1, <3>3
    <3>4. ASSUME ~(i <= a.commit), Complete(rec, x, Position(RestartAt(t, i), i))
          PROVE  ReaderFine(h)'
      <4>1. PICK begins : begins = {reader.open[u].begin : u \in Others(t)}
        OBVIOUS
      <4>2. ASSUME NEW u \in Txs, h[i][u].begin # 0
            PROVE  /\ u # t /\ h[i - 1][u].begin = h[i][u].begin
                   /\ reader.open[u] = h[i - 1][u] /\ u \in Others(t)
        <5>1. u # t
          <6>1. h[i][t].begin = 0
            BY <1>3, <3>1 DEF NotOpen
          <6> QED BY <4>2, <6>1
        <5>2. h[i - 1][u] = h[i][u] /\ s.commit <= i - 1
          BY <1>6, <1>7, <3>4, <5>1
        <5>3. h[i - 1][u].begin >= s.restart
          BY <1>1, <1>6, <1>7, <4>2, <5>2, BeganLater
        <5>4. reader.open[u] = h[i - 1][u]
          BY <1>5, <1>6, <5>3 DEF Held
        <5> QED BY <4>2, <5>1, <5>2, <5>4 DEF Others, IsOpen
      <4>3. ASSUME NEW b \in begins PROVE b \in Nat \ {0} /\ b >= a.restart
        <5>1. PICK u \in Others(t) : b = reader.open[u].begin
          BY <4>1
        <5>2. u \in Txs /\ u # t /\ reader.open[u].begin # 0
          BY <5>1 DEF Others, IsOpen
        <5>3. reader.open[u] = h[i - 1][u]
          BY <1>6, <5>2 DEF Held, NotOpen
        <5>4. a.commit <= i - 1 /\ h[i - 1][u].begin # 0
          BY <1>6, <1>7, <3>4, <5>2, <5>3
        <5>5. b >= a.restart
          BY <1>1, <1>6, <1>7, <5>1, <5>2, <5>3, <5>4, BeganLater
        <5>6. h[i - 1][u] \in Views
          BY <1>6, <5>2 DEF History
        <5> QED BY <5>1, <5>2, <5>3, <5>5, <5>6 DEF Views
      <4>4. PICK m : m = Min({i} \cup begins)
        OBVIOUS
      <4>5. m \in {i} \cup begins /\ \A b \in {i} \cup begins : m <= b
        <5>1. {i} \cup begins \in SUBSET Nat /\ {i} \cup begins # {}
          BY <1>6, <4>3
        <5> QED BY <4>4, <5>1, MinIn
      <4>6. m \in Nat /\ 1 <= m /\ m <= i /\ m >= a.restart /\ i # 0
        <5>1. i \in Nat /\ i > a.commit /\ i >= a.restart /\ i # 0
          BY <1>6, <1>7, <3>4
        <5>2. m \in Nat /\ 1 <= m /\ m >= a.restart
          BY <4>3, <4>5, <5>1
        <5> QED BY <4>5, <5>1, <5>2
      <4>7. PICK p : p = Position(m, i)
        OBVIOUS
      <4>8. p \in Places /\ p.restart = m /\ p.commit = i
        BY <1>6, <4>6, <4>7 DEF Position, Places
      <4>9. Right(h, p)
        <5>1. ASSUME NEW u \in Txs, h[i][u].begin # 0 PROVE h[i][u].begin >= m
          <6>1. h[i][u].begin \in begins
            BY <4>1, <4>2, <5>1
          <6>2. h[i][u].begin \in Nat
            BY <4>3, <6>1
          <6> QED BY <4>5, <4>6, <6>1, <6>2
        <5>2. p.restart \in 1 .. p.commit + 1 /\ p.commit \in 0 .. Len(log)
          BY <1>6, <4>6, <4>8
        <5> QED BY <1>1, <4>8, <5>1, <5>2 DEF Right
      <4>10. PICK q : q = Request(Handed(i), p)
        OBVIOUS
      <4>11. q \in Asks /\ q.stage = "read" /\ q.txs = Handed(i) /\ q.pos = p
        <5>1. Handed(i) \in Seq(Whole)
          <6>1. src[t].rows \in Seq(Nat)
            BY <1>6 DEF SourceFine, Transactions
          <6>2. Transaction(t, src[t].rows, i) \in Whole
            BY <1>6, <6>1 DEF Whole, Transaction
          <6> QED BY <1>2, <6>2 DEF Handed
        <5> QED BY <4>8, <4>10, <5>1 DEF Asks, Request
      <4>12. PICK w, o : w = <<q>> /\ o = [reader.open EXCEPT ![t] = NotOpen]
        OBVIOUS
      <4>13. reader' = [reader EXCEPT !.cursor = i + 1, !.loading = TRUE, !.open = o, !.ready = w]
        <5>1. Request(IF x.rows = <<>> THEN <<>> ELSE <<Transaction(t, x.rows, i)>>,
                      Position(RestartAt(t, i), i)) = q
          BY <1>2, <3>1, <4>1, <4>4, <4>7, <4>10 DEF Handed, RestartAt
        <5>2. Append(reader.ready, q) = w
          BY <1>1, <4>12
        <5> QED BY <1>2, <1>6, <3>4, <4>12, <5>1, <5>2 DEF Complete, Pass
      <4>14. CommitAt(i) /\ reader.acked.commit < i
        BY <1>2, <1>5, <1>6, <1>7, <3>1, <3>4 DEF CommitAt
      <4>15. o = Held(h, i)
        BY <2>2, <3>1, <4>12
      <4>16. /\ w = <<q>> /\ q \in Asks /\ q.stage = "read" /\ Right(h, q.pos) /\ q.pos.commit = i
             /\ q.txs = Handed(i) /\ q.pos.restart >= reader.acked.restart
        BY <1>5, <4>6, <4>8, <4>9, <4>11, <4>12
      <4> QED BY <1>1, <1>2, <1>6, <4>13, <4>14, <4>15, <4>16, BehindFine
    <3> QED BY <1>2, <1>5, <1>6, <3>1, <3>2, <3>3, <3>4 DEF CommitGBase
  <2> QED BY <2>1, <2>8, <2>9, <2>10, <2>11, <2>12, <2>13, <2>14 DEF Handle
<1> QED BY <1>1, <1>9, <1>10

-----------------------------------------------------------------------------
(* The invariant, and what follows from it. *)

\* The invariant holds at the start.
LEMMA InitIInv ==
  ASSUME Init
  PROVE  IInv
<1>1. /\ scenario \in Scenarios /\ log = <<>> /\ src = [t \in Txs |-> Unborn] /\ committed = <<>>
      /\ durable = Origin /\ accepted = <<>> /\ reader = Started(Origin, Origin.restart)
  BY DEF Init, SourceInit, ReaderInit
<1>2. Len(log) = 0 /\ DOMAIN log = {}
  BY <1>1
<1>3. Unborn \in Transactions /\ Unborn.begin = 0 /\ Unborn.half = 0 /\ Unborn.rows = <<>>
      /\ Unborn.state = "NEW"
  BY DEF Unborn, Transactions, States
<1>4. SourceFine
  <2>1. src \in [Txs -> Transactions] /\ log \in Seq(Entries)
    BY <1>1, <1>3
  <2>2. \A t \in Txs : src[t] = Unborn /\ DOMAIN Unborn.rows = {}
    BY <1>1, <1>3
  <2> QED BY <1>1, <1>2, <1>3, <2>1, <2>2 DEF SourceFine
<1>5. CommittedFine
  <2>1. committed \in Seq(Whole) /\ DOMAIN committed = {}
    BY <1>1
  <2> QED BY <1>2, <2>1 DEF CommittedFine
<1>6. DeliveryFine
  <2>1. Len(committed) = 0 /\ DOMAIN committed = {} /\ SubSeq(committed, 1, 0) = <<>>
        /\ 0 \in 0 .. 0
    BY <1>1
  <2> QED BY <1>1, <2>1 DEF DeliveryFine
<1>7. PICK h : h = [i \in 0 .. 0 |-> [t \in Txs |-> NotOpen]]
  OBVIOUS
<1>8. \A t \in Txs : h[0][t] = NotOpen /\ NotOpen \in Views /\ NotOpen.begin = 0
  BY <1>7 DEF NotOpen, Views
<1>9. History(h)
  <2>1. h \in [0 .. 0 -> [Txs -> Views]]
    BY <1>7, <1>8
  <2>2. \A t \in Txs : ViewOf(src[t]) = NotOpen
    BY <1>1, <1>3 DEF ViewOf
  <2>3. \A i \in 0 .. 0, t \in Txs : h[i][t].begin = 0
    BY <1>8
  <2> QED BY <1>2, <1>8, <2>1, <2>2, <2>3 DEF History
<1>10. Origin \in Places /\ Origin.restart = 1 /\ Origin.commit = 0
  BY DEF Origin, Position, Places
<1>11. Right(h, Origin)
  BY <1>2, <1>8, <1>10 DEF Right
<1>12. PICK o : o = [t \in Txs |-> NotOpen]
  OBVIOUS
<1>13. o \in [Txs -> Views] /\ Nothing \in Asks /\ <<>> \in Seq(Asks)
  BY <1>8, <1>10, <1>12 DEF Nothing, Asks
<1>14. reader = [up |-> TRUE, ended |-> FALSE, session |-> Origin, cursor |-> 1,
                 open |-> o, gtid |-> 0, ready |-> <<>>, loading |-> FALSE,
                 acked |-> Origin, slot |-> 1, flight |-> Nothing]
  <2>1. Max({1, 1}) = 1
    BY MaxOfTwo
  <2> QED BY <1>1, <1>10, <1>12, <2>1 DEF Started
<1>15. /\ reader \in Readers /\ reader.up /\ reader.session = Origin /\ reader.cursor = 1
       /\ reader.open = o /\ reader.ready = <<>> /\ reader.acked = Origin /\ reader.slot = 1
       /\ reader.flight = Nothing
  BY <1>10, <1>13, <1>14 DEF Readers
<1>16. Awake(h)
  <2>1. NoCommit(reader.acked.commit, reader.cursor)
    BY <1>2 DEF NoCommit
  <2>2. InStep
    BY <1>1, <1>15 DEF InStep
  <2>3. Collecting(h)
    <3>1. Held(h, 0) = o
      BY <1>8, <1>10, <1>12, <1>15 DEF Held
    <3>2. reader.cursor - 1 = 0 /\ reader.cursor \in 1 .. Len(log) + 1 /\ 0 <= 0
      BY <1>2, <1>15
    <3> QED BY <1>10, <1>11, <1>15, <3>1, <3>2 DEF Collecting
  <2>4. Nothing.stage = "none"
    BY DEF Nothing
  <2> QED BY <1>10, <1>15, <2>1, <2>2, <2>3, <2>4 DEF Awake
<1>17. ReaderFine(h)
  BY <1>1, <1>10, <1>11, <1>15, <1>16 DEF ReaderFine
<1> QED BY <1>4, <1>5, <1>6, <1>9, <1>17 DEF IInv

\* The step of CommittedStream that a step implements.
Delivers == Delivered!Next \/ UNCHANGED <<committed, accepted>>

\* Every step keeps the invariant, and delivers in order.
LEMMA NextIInv ==
  ASSUME Followed, IInv, [Next]_vars
  PROVE  IInv' /\ Delivers
<1>1. SourceFine /\ CommittedFine /\ DeliveryFine
  BY DEF IInv
<1>2. PICK h : History(h) /\ ReaderFine(h)
  BY DEF IInv
<1>3. CASE SourceStep /\ UNCHANGED readerVars
  <2>1. reader' = reader /\ durable' = durable /\ accepted' = accepted
    BY <1>3 DEF readerVars
  <2>2. PICK g : SourceFine' /\ CommittedFine' /\ History(g)' /\ Grown(h, g)
    BY <1>1, <1>2, <1>3, SourceGrows
  <2>3. ReaderFine(g)'
    BY <1>1, <1>2, <2>1, <2>2, ReaderStays
  <2>4. DeliveryFine'
    BY <1>1, <1>2, <2>1, <2>2, DeliveryStays DEF ReaderFine
  <2>5. Delivers
    <3>1. CASE committed' = committed
      BY <2>1, <3>1 DEF Delivers
    <3>2. ASSUME NEW c \in Whole, committed' = Append(committed, c) PROVE Delivers
      <4>1. committed \in Seq(Whole)
        BY <1>1 DEF CommittedFine
      <4>2. Len(committed') > Len(committed) /\ SubSeq(committed', 1, Len(committed)) = committed
        BY <3>2, <4>1
      <4> QED BY <2>1, <4>2 DEF Delivers, Delivered!Next, Delivered!Commit
    <3> QED BY <2>2, <3>1, <3>2 DEF Grown
  <2> QED BY <2>2, <2>3, <2>4, <2>5 DEF IInv
<1>4. ASSUME UNCHANGED <<scenario, sourceVars>>,
             \/ ReaderFine(h)' /\ UNCHANGED <<durable, accepted>>
             \/ ReaderFine(h)' /\ DeliveryFine' /\ Receives
      PROVE  IInv' /\ Delivers
  <2>1. SourceFine' /\ CommittedFine' /\ History(h)' /\ committed' = committed
    BY <1>1, <1>2, <1>4, SourceStill
  <2>2. DeliveryFine' /\ ReaderFine(h)'
    BY <1>1, <1>4, <2>1 DEF DeliveryFine
  <2>3. Delivers
    BY <1>4, <2>1 DEF Delivers, Receives, Delivered!Next, Delivered!Accept
  <2> QED BY <2>1, <2>2, <2>3 DEF IInv
<1>5. CASE (ReaderStep \/ Reconnect \/ Crash) /\ UNCHANGED <<scenario, sourceVars>>
  <2>1. CASE Process
    BY <1>1, <1>2, <1>4, <1>5, <2>1, ProcessKeeps
  <2>2. CASE FollowSlot
    BY <1>1, <1>2, <1>4, <1>5, <2>2, FollowSlotKeeps
  <2>3. CASE Take
    BY <1>1, <1>2, <1>4, <1>5, <2>3, TakeKeeps
  <2>4. CASE Apply
    BY <1>1, <1>2, <1>4, <1>5, <2>4, ApplyKeeps
  <2>5. CASE Acknowledge
    BY <1>1, <1>2, <1>4, <1>5, <2>5, AcknowledgeKeeps
  <2>6. CASE Restart
    BY <1>1, <1>2, <1>4, <1>5, <2>6, RestartKeeps
  <2>7. CASE Reconnect
    BY <1>1, <1>2, <1>4, <1>5, <2>7, ReconnectKeeps
  <2>8. CASE Crash
    <3>1. reader' = [reader EXCEPT !.up = FALSE] /\ UNCHANGED <<durable, accepted>>
      BY <2>8 DEF Crash
    <3> QED BY <1>1, <1>2, <1>4, <1>5, <3>1, EndKeeps
  <2>9. ~IdleCheckpoint /\ ~Mine /\ ~FollowBinlog /\ ~Poll
    BY <1>1, Selected DEF IdleCheckpoint, Db2, Mine, Mined, FollowBinlog, MySQL, ByGTID, Poll
  <2> QED BY <1>5, <2>1, <2>2, <2>3, <2>4, <2>5, <2>6, <2>7, <2>8, <2>9 DEF ReaderStep
<1>6. CASE UNCHANGED vars
  <2>1. UNCHANGED <<scenario, sourceVars>> /\ reader' = reader /\ durable' = durable
        /\ accepted' = accepted
    BY <1>6 DEF vars, readerVars
  <2>2. ReaderFine(h)'
    <3>1. log' = log /\ scenario' = scenario /\ src' = src
      BY <2>1, <1>1, <1>2, SourceStill
    <3> QED BY <1>2, <2>1, <3>1 DEF ReaderFine, Right, Awake, Asked, Handed, CommitAt, NoCommit,
             InStep, Collecting, Held, Slotted, AcksMoveForward, Regresses
  <2> QED BY <1>4, <2>1, <2>2
<1> QED BY <1>3, <1>5, <1>6 DEF Next

\* The invariant holds for ever, and so does the order of delivery.
LEMMA Inductive == ASSUME Followed PROVE Spec => []IInv /\ [][Delivers]_vars
<1>1. Init => IInv
  BY InitIInv
<1>2. IInv /\ [Next]_vars => IInv' /\ Delivers
  BY NextIInv
<1> QED BY <1>1, <1>2, PTL DEF Spec

\* The stored position never forgets what is needed: where a new reader starts,
\* the log still holds every change of a transaction that is open at the source
\* or not taken in, however the transactions overlap (GBase 8s), and no commit
\* that is not taken in has been passed or given up by the slot (PostgreSQL).
THEOREM RestartCoversCorrect ==
  ASSUME Followed
  PROVE  Spec => []RestartCovers
<1>1. ASSUME IInv PROVE RestartCovers
  <2>1. PICK h : History(h) /\ ReaderFine(h)
    BY <1>1 DEF IInv
  <2>2. SourceFine /\ CommittedFine /\ Right(h, durable) /\ Right(h, reader.acked)
    BY <1>1, <2>1 DEF IInv, ReaderFine
  <2>3. PICK n \in 0 .. Len(committed) :
          /\ accepted = SubSeq(committed, 1, n)
          /\ \A k \in DOMAIN committed : k <= n <=> committed[k].scn <= durable.commit
    BY <1>1 DEF IInv, DeliveryFine
  <2>4. /\ durable.commit \in Nat /\ durable.commit <= Len(log) /\ Len(log) \in Nat
        /\ durable.restart \in Nat
    BY <2>2 DEF Right, Places, SourceFine
  <2>5. ASSUME NEW t \in Txs, NEW k \in DOMAIN committed, committed[k].tx = t
        PROVE  /\ CommitAt(committed[k].scn) /\ src[t].state = "DONE"
               /\ committed[k].scn - 1 \in 0 .. Len(log) /\ committed[k].scn \in Nat
               /\ h[committed[k].scn - 1][t].begin # 0
               /\ t \notin Taken => committed[k].scn > durable.commit
    <3>1. CommitAt(committed[k].scn) /\ log[committed[k].scn].tx = t
      BY <2>2, <2>5 DEF CommittedFine
    <3>2. /\ src[t].state = "DONE" /\ h[committed[k].scn - 1][t].begin # 0
          /\ committed[k].scn - 1 \in 0 .. Len(log) /\ committed[k].scn \in Nat
      BY <2>1, <2>2, <3>1, CommitDone
    <3>3. ASSUME k <= n PROVE t \in Taken
      <4>1. committed \in Seq(Whole)
        BY <2>2 DEF CommittedFine
      <4>2. k \in DOMAIN accepted /\ accepted[k] = committed[k]
        BY <2>3, <3>3, <4>1
      <4> QED BY <2>5, <4>2 DEF Taken
    <3>4. ~(k <= n) => committed[k].scn > durable.commit
      BY <2>3, <2>4, <3>2
    <3> QED BY <3>1, <3>2, <3>3, <3>4
  <2>6. ASSUME NEW t \in Txs, Needed(t), ~Slotted, NEW j \in DOMAIN src[t].rows
        PROVE  src[t].rows[j] >= durable.restart
    <3>1. src[t].begin \in Nat /\ src[t].rows[j] \in Nat /\ src[t].rows[j] >= src[t].begin
      BY <2>2 DEF SourceFine, Transactions
    <3>2. ASSUME NEW i \in 0 .. Len(log), durable.commit <= i, h[i][t].begin # 0
          PROVE  src[t].begin >= durable.restart
      <4>1. h[i][t].begin >= durable.restart
        BY <2>1, <2>2, <2>6, <3>2, BeganLater
      <4> QED BY <2>1, <3>2, <4>1 DEF History
    <3>3. CASE src[t].state = "OPEN"
      <4>1. h[Len(log)][t] = ViewOf(src[t]) /\ src[t].begin # 0
        BY <2>1, <2>2, <3>3 DEF History, SourceFine
      <4>2. h[Len(log)][t].begin # 0
        BY <3>3, <4>1 DEF ViewOf, View
      <4>3. src[t].begin >= durable.restart
        BY <2>4, <3>2, <4>2
      <4> QED BY <2>4, <3>1, <4>3
    <3>4. CASE src[t].state # "OPEN"
      <4>1. PICK k \in DOMAIN committed : committed[k].tx = t /\ t \notin Taken
        BY <2>6, <3>4 DEF Needed
      <4>2. /\ committed[k].scn - 1 \in 0 .. Len(log) /\ committed[k].scn \in Nat
            /\ h[committed[k].scn - 1][t].begin # 0 /\ committed[k].scn > durable.commit
        BY <2>5, <4>1
      <4>3. durable.commit <= committed[k].scn - 1
        BY <2>4, <4>2
      <4>4. src[t].begin >= durable.restart
        BY <3>2, <4>2, <4>3
      <4> QED BY <2>4, <3>1, <4>4
    <3> QED BY <3>3, <3>4
  <2>7. ASSUME NEW t \in Txs, Needed(t), Slotted, NEW k \in DOMAIN committed, committed[k].tx = t
        PROVE  committed[k].scn >= durable.restart /\ committed[k].scn >= reader.slot
    <3>1. t \notin Taken
      BY <2>5, <2>7 DEF Needed
    <3>2. committed[k].scn > durable.commit /\ committed[k].scn \in Nat
      BY <2>5, <2>7, <3>1
    <3>3. durable.restart = durable.commit + 1
      BY <2>2, <2>7 DEF Right
    <3>4. /\ reader.slot \in Nat /\ reader.acked.restart \in Nat
          /\ reader.slot <= reader.acked.restart /\ reader.acked.restart <= durable.restart
      <4>1. reader.acked.restart \in Nat
        BY <2>2 DEF Right, Places
      <4> QED BY <2>1, <4>1 DEF ReaderFine
    <3> QED BY <2>4, <3>2, <3>3, <3>4
  <2>8. scenario.dialect \in {"gbase8s", "postgres"}
    BY <2>2, Selected
  <2> QED BY <2>6, <2>7, <2>8 DEF RestartCovers, Slotted
<1> QED BY <1>1, Inductive, PTL

\* No acknowledgement has to be refused: after any number of restarts and
\* reconnects the reader hands out positions at or behind the one it has
\* acknowledged.
THEOREM AcksMoveForwardCorrect ==
  ASSUME Followed
  PROVE  Spec => []AcksMoveForward
<1>1. IInv => AcksMoveForward
  BY Forward DEF IInv
<1> QED BY <1>1, Inductive, PTL

\* The reader and the server implement CommittedStream: every transaction that
\* the source commits is taken in at most once, whole, and in commit order,
\* whatever died in between.
THEOREM DeliveredOnceInOrderCorrect ==
  ASSUME Followed
  PROVE  Spec => DeliveredOnceInOrder
<1>1. Init => Delivered!Init
  BY DEF Init, SourceInit, ReaderInit, Delivered!Init
<1>2. [Delivers]_vars => [Delivered!Next]_<<committed, accepted>>
  BY DEF Delivers, vars, sourceVars, readerVars
<1> QED BY <1>1, <1>2, Inductive, PTL DEF Spec, DeliveredOnceInOrder, Delivered!Spec
=============================================================================
