------------------------ MODULE StreamReaders_proofs ------------------------
(***************************************************************************)
(* Proofs about the readers of several streams: for any number of streams, *)
(* transactions and rows, every order in which the streams show them, and  *)
(* any number of crashes, lost answers and rows that are sent again.       *)
(***************************************************************************)
EXTENDS StreamReaders, FiniteSetTheorems, WellFoundedInduction, SequenceTheorems, TLAPS

LastOnly(x) == \A shape \in x.shapes : \A s \in 1 .. x.streams : s # x.streams => shape[s] = 0
Everywhere(x) == \A shape \in x.shapes : \A s \in 1 .. x.streams : shape[s] > 0

\* The sources that the readers follow.  A topic of several partitions may hold
\* its rows in any order and any number of times if the changefeed was there
\* before the reader; one partition has to be in order; a cluster answers with
\* one watermark for all, or has rows only behind the last one, and every member
\* of pureScale has a part in every transaction.
Followed(x) ==
  /\ x.dialect = "ticdc" => \/ x.streams > 1 /\ (x.started \/ x.sorted)
                            \/ x.streams = 1 /\ x.sorted /\ x.resends = 0
  /\ x.dialect # "ticdc" => x.sorted
  /\ x.dialect = "gaussdb" => x.clusterwide \/ LastOnly(x)
  /\ x.dialect = "purescale" => x.clusterwide /\ Everywhere(x)

\* No answer is lost between several partitions and the server.
Answered(x) == x.dialect = "ticdc" /\ x.streams > 1 => ~x.lossy

(***************************************************************************)
(* The invariant.  First the types.                                        *)
(***************************************************************************)
RowRecords == [kind : {"row"}, order : Nat, part : Nat]
Records == [kind : {"row", "resolved"}, order : Nat, part : Nat]
Txs == [order : Nat, rows : SUBSET (Streams \X Nat)]
Stored == [order : Nat, at : [Streams -> Nat]]
Flights == [stage : {"none", "read", "applied"}, txs : Seq(Txs), pos : Stored, acks : SUBSET Streams]
Items == [order : Nat, part : Nat, offset : Nat]
Parts == [stream : Streams, offset : Nat, order : Nat, part : Nat]
Merged == [order : Nat, rows : SUBSET Parts]
Readers ==
  [up : BOOLEAN, cursor : [Streams -> Nat], acked : Stored, hasDurableAck : BOOLEAN,
   queue : [Streams -> SUBSET Items], seen : [Streams -> Nat],
   phase : {"seed", "idle", "fence"}, candidate : Nat,
   batch : Seq([resolved : Nat, rows : SUBSET Parts]), descriptors : [Streams -> Nat],
   ready : SUBSET Merged, base : Stored, flight : Flights]

SourceTypes ==
  /\ source \in Sources /\ Followed(source)
  /\ pending \in [Streams -> SUBSET RowRecords] /\ log \in [Streams -> Seq(Records)]
  /\ resolved \in [Streams -> Nat] /\ slot \in [Streams -> Nat]
  /\ committed \in Seq(Txs) /\ resends \in Nat

ReaderTypes == reader \in Readers /\ durable \in Stored /\ accepted \in Seq(Txs)

(***************************************************************************)
(* What the source has committed is pending or shown; what a watermark has *)
(* passed is shown before it.                                              *)
(***************************************************************************)
Odd(o) == \E k \in Nat : o = 2 * k + 1

Numbered == \A i \in DOMAIN committed :
  /\ committed[i].order = 2 * i
  /\ committed[i].rows # {} /\ \A r \in committed[i].rows : r[1] \in Active

Shaped == \A i \in DOMAIN committed :
  /\ source.dialect = "purescale" => \A s \in Active : \E r \in committed[i].rows : r[1] = s
  /\ source.dialect = "gaussdb" /\ ~source.clusterwide =>
       \A r \in committed[i].rows : r[1] = source.streams

Known(list, s, order, part) ==
  \E i \in DOMAIN list : list[i].order = order /\ <<s, part>> \in list[i].rows

InLog(stream, order, part, n) == \E m \in 1 .. n : stream[m] = Row(order, part)

Real ==
  /\ \A s \in Active :
       /\ \A r \in pending[s] : Known(committed, s, r.order, r.part)
       /\ \A n \in 1 .. Len(log[s]) :
            log[s][n].kind = "row" => Known(committed, s, log[s][n].order, log[s][n].part)
  /\ \A s \in Streams \ Active : pending[s] = {}

Complete == \A i \in DOMAIN committed : \A r \in committed[i].rows :
  \/ Row(committed[i].order, r[2]) \in pending[r[1]]
  \/ InLog(log[r[1]], committed[i].order, r[2], Len(log[r[1]]))

\* The rows before an order are among the first n records of stream s.
Shown(list, stream, s, order, n) == \A i \in DOMAIN list : \A r \in list[i].rows :
  list[i].order < order /\ r[1] = s => InLog(stream, list[i].order, r[2], n)

Promised == \A s \in Active : /\ resolved[s] < NextOrder /\ Odd(resolved[s])
                              /\ Shown(committed, log[s], s, resolved[s] + 1, Len(log[s]))

Marks == \A s \in Active : \A n \in 1 .. Len(log[s]) : log[s][n].kind = "resolved" =>
  /\ Odd(log[s][n].order) /\ log[s][n].order <= resolved[s]
  /\ Shown(committed, log[s], s, log[s][n].order + 1, n)

\* The first copy of every row comes in order, whatever is sent again.
Firsts == Multi /\ source.sorted => \A s \in Active : \A n \in 1 .. Len(log[s]) :
  log[s][n].kind = "row" => Shown(committed, log[s], s, log[s][n].order, n)

\* Where nothing is sent again the log is in order.
Ascending == ~Multi => \A s \in Active :
  /\ \A n \in 1 .. Len(log[s]) :
       /\ \A m \in 1 .. n - 1 : /\ log[s][m].order <= log[s][n].order
                                /\ log[s][m].kind = "resolved" => log[s][m].order < log[s][n].order
       /\ \A r \in pending[s] : log[s][n].order <= r.order
  /\ \A r \in pending[s] : resolved[s] < r.order

OnlyRows == Merging =>
  /\ \A s \in Active : \A n \in 1 .. Len(log[s]) : log[s][n].kind = "row"
  /\ source.clusterwide => \A s, t \in Active : resolved[s] = resolved[t]

SourceInv ==
  /\ SourceTypes /\ Numbered /\ Shaped /\ Real /\ Complete /\ Promised /\ Marks
  /\ Firsts /\ Ascending /\ OnlyRows

-----------------------------------------------------------------------------
(* Numbers and sequences. *)
\* The least element of a set of numbers is in it and below the others.
LEMMA MinIn ==
  ASSUME NEW S \in SUBSET Nat, S # {}
  PROVE  Min(S) \in S /\ \A x \in S : Min(S) <= x
<1> DEFINE Less == {ss \in Nat \X Nat : ss[1] < ss[2]}
<1>1. Less = OpToRel(<, Nat)
  BY DEF OpToRel
<1>2. IsWellFoundedOn(Less, Nat)
  BY <1>1, NatLessThanWellFounded
<1>3. PICK x \in S : \A y \in S : ~(<<y, x>> \in Less)
  BY <1>2, WFMin
<1>4. \A y \in S : ~(y < x)
  BY <1>3
<1>5. \A y \in S : x <= y
  BY <1>4
<1> QED BY <1>5 DEF Min

\* So is the greatest of a set that has a bound.
LEMMA MaxIn ==
  ASSUME NEW S \in SUBSET Nat, S # {}, NEW b \in Nat, \A x \in S : x <= b
  PROVE  Max(S) \in S /\ \A x \in S : x <= Max(S)
<1> DEFINE gaps == {b - x : x \in S}
<1>1. gaps \in SUBSET Nat /\ gaps # {}
  <2>1. \A x \in S : b - x \in Nat
    OBVIOUS
  <2> QED BY <2>1
<1>2. Min(gaps) \in gaps /\ \A g \in gaps : Min(gaps) <= g
  BY <1>1, MinIn
<1>3. PICK x \in S : Min(gaps) = b - x
  BY <1>2
<1>4. \A y \in S : y <= x
  <2> SUFFICES ASSUME NEW y \in S PROVE y <= x
    OBVIOUS
  <2>1. b - y \in gaps
    OBVIOUS
  <2>2. b - x <= b - y
    BY <1>2, <1>3, <2>1
  <2> QED BY <2>2
<1>5. \A y \in S : x >= y
  BY <1>4
<1> QED BY <1>5 DEF Max

\* An even number is not odd.
LEMMA Parity ==
  ASSUME NEW k \in Nat
  PROVE  ~Odd(2 * k) /\ Odd(2 * k + 1) /\ (k # 0 => Odd(2 * k - 1))
<1>1. k # 0 => k - 1 \in Nat /\ 2 * k - 1 = 2 * (k - 1) + 1
  OBVIOUS
<1> QED BY <1>1 DEF Odd

\* A record is appended behind the others.
LEMMA Appends ==
  ASSUME NEW S, NEW q \in Seq(S), NEW x \in S
  PROVE  /\ Append(q, x) \in Seq(S) /\ Len(Append(q, x)) = Len(q) + 1
         /\ \A n \in 1 .. Len(q) : Append(q, x)[n] = q[n]
         /\ Append(q, x)[Len(q) + 1] = x
OBVIOUS

-----------------------------------------------------------------------------
(* What the types and the numbers of the source say. *)
\* The streams are numbered from 1 on.
LEMMA ActiveStreams ==
  ASSUME SourceTypes
  PROVE  /\ source.streams \in Nat \ {0} /\ Active = 1 .. source.streams
         /\ Active \subseteq Streams /\ 1 \in Active /\ Streams \subseteq Nat
         /\ source.dialect \in {"ticdc", "gaussdb", "purescale"}
         /\ Single => Active = {1}
<1>1. /\ source.streams \in Nat \ {0} /\ 1 .. source.streams \subseteq Streams
      /\ source.dialect \in {"ticdc", "gaussdb", "purescale"} /\ Streams \subseteq Nat \ {0}
  BY StreamsAssumption DEF SourceTypes
<1>2. Active = 1 .. source.streams
  <2>1. \A s : s \in Active => s \in 1 .. source.streams
    BY <1>1 DEF Active
  <2>2. \A s : s \in 1 .. source.streams => s \in Active
    BY <1>1 DEF Active
  <2> QED BY <2>1, <2>2
<1> QED BY <1>1, <1>2 DEF Single

\* There are three kinds of readers.
LEMMA Kinds ==
  ASSUME SourceTypes
  PROVE  /\ Multi \/ Single \/ Merging
         /\ Multi => ~Single /\ ~Merging
         /\ Single => ~Merging /\ source.sorted /\ source.resends = 0
         /\ Merging => source.sorted /\ source.dialect # "ticdc" /\ ~source.started
         /\ Multi => source.started \/ source.sorted
         /\ Multi \/ Single <=> source.dialect = "ticdc"
<1>1. source.streams \in Nat \ {0} /\ source.dialect \in {"ticdc", "gaussdb", "purescale"}
  BY ActiveStreams
<1>2. source.started => source.dialect = "ticdc"
  BY StreamsAssumption DEF SourceTypes
<1> QED BY <1>1, <1>2 DEF SourceTypes, Followed, Multi, Single, Merging

\* What a stream holds are records.
LEMMA LogIs ==
  ASSUME SourceTypes, NEW s \in Streams
  PROVE  /\ log[s] \in Seq(Records) /\ Len(log[s]) \in Nat
         /\ \A n \in 1 .. Len(log[s]) :
              /\ log[s][n] \in Records /\ log[s][n].order \in Nat /\ log[s][n].part \in Nat
              /\ log[s][n].kind \in {"row", "resolved"}
         /\ pending[s] \subseteq RowRecords
         /\ \A r \in pending[s] : /\ r.order \in Nat /\ r.part \in Nat /\ r.kind = "row"
                                  /\ r \in Records /\ r = Row(r.order, r.part)
         /\ resolved[s] \in Nat /\ slot[s] \in Nat
<1>1. log[s] \in Seq(Records) /\ pending[s] \subseteq RowRecords /\ resolved[s] \in Nat /\ slot[s] \in Nat
  BY DEF SourceTypes
<1>2. \A n \in 1 .. Len(log[s]) : log[s][n] \in Records
  BY <1>1
<1>3. \A r \in RowRecords : r \in Records /\ r = Row(r.order, r.part)
  BY DEF RowRecords, Records, Row
<1> QED BY <1>1, <1>2, <1>3 DEF Records, RowRecords

\* Transactions are numbered by twos.
LEMMA CommitIs ==
  ASSUME SourceTypes, Numbered
  PROVE  /\ Len(committed) \in Nat /\ DOMAIN committed = 1 .. Len(committed)
         /\ NextOrder \in Nat /\ NextOrder = 2 * (Len(committed) + 1)
         /\ \A i \in DOMAIN committed :
              /\ committed[i] \in Txs /\ committed[i].order = 2 * i /\ committed[i].order \in Nat
              /\ committed[i].order < NextOrder /\ ~Odd(committed[i].order)
              /\ \A r \in committed[i].rows : r[1] \in Active /\ r[2] \in Nat /\ r = <<r[1], r[2]>>
<1>1. committed \in Seq(Txs)
  BY DEF SourceTypes
<1>2. Len(committed) \in Nat /\ DOMAIN committed = 1 .. Len(committed)
  BY <1>1
<1>3. ASSUME NEW i \in DOMAIN committed
      PROVE  /\ committed[i] \in Txs /\ committed[i].order = 2 * i
             /\ committed[i].order < NextOrder /\ ~Odd(committed[i].order)
             /\ \A r \in committed[i].rows : r[1] \in Active /\ r[2] \in Nat /\ r = <<r[1], r[2]>>
  <2>1. committed[i] \in Txs
    BY <1>1
  <2>2. committed[i].order = 2 * i /\ \A r \in committed[i].rows : r[1] \in Active
    BY DEF Numbered
  <2>3. \A r \in committed[i].rows : r[2] \in Nat /\ r = <<r[1], r[2]>>
    BY <2>1 DEF Txs
  <2>4. committed[i].order < NextOrder /\ ~Odd(committed[i].order)
    BY <1>2, <2>2, Parity DEF NextOrder
  <2> QED BY <2>1, <2>2, <2>3, <2>4
<1> QED BY <1>2, <1>3 DEF NextOrder

\* A row that was committed has an order of its transaction.
LEMMA KnownIs ==
  ASSUME SourceTypes, Numbered, NEW s, NEW order, NEW part, Known(committed, s, order, part)
  PROVE  /\ order \in Nat /\ 2 <= order /\ order < NextOrder /\ ~Odd(order)
         /\ \E k \in Nat : k # 0 /\ order = 2 * k
         /\ part \in Nat /\ s \in Active
<1>1. PICK i \in DOMAIN committed : committed[i].order = order /\ <<s, part>> \in committed[i].rows
  BY DEF Known
<1> QED BY <1>1, CommitIs

\* The most that a stream can promise lies between two commits, before all that
\* is pending.
LEMMA FrontierIs ==
  ASSUME SourceTypes, Numbered, Real, NEW s \in Active
  PROVE  /\ Frontier(s) \in Nat /\ Odd(Frontier(s)) /\ Frontier(s) < NextOrder
         /\ \A r \in pending[s] : Frontier(s) < r.order
         /\ Frontier(s) + 1 = NextOrder \/ \E r \in pending[s] : Frontier(s) + 1 = r.order
<1> DEFINE all == {NextOrder} \cup {r.order : r \in pending[s]}
<1>1. s \in Streams
  BY ActiveStreams
<1>2. NextOrder \in Nat /\ NextOrder = 2 * (Len(committed) + 1) /\ Len(committed) \in Nat
  BY CommitIs
<1>3. \A r \in pending[s] : r.order \in Nat /\ \E k \in Nat : k # 0 /\ r.order = 2 * k
  <2> SUFFICES ASSUME NEW r \in pending[s] PROVE r.order \in Nat /\ \E k \in Nat : k # 0 /\ r.order = 2 * k
    OBVIOUS
  <2>1. Known(committed, s, r.order, r.part)
    BY DEF Real
  <2> QED BY <2>1, KnownIs
<1>4. all \in SUBSET Nat /\ all # {}
  BY <1>2, <1>3
<1>5. Min(all) \in all /\ \A x \in all : Min(all) <= x
  BY <1>4, MinIn
<1>6. PICK k \in Nat : k # 0 /\ Min(all) = 2 * k
  <2>1. CASE Min(all) = NextOrder
    <3>1. Len(committed) + 1 \in Nat /\ Len(committed) + 1 # 0
      BY <1>2
    <3> QED BY <1>2, <2>1, <3>1
  <2>2. CASE Min(all) # NextOrder
    BY <1>3, <1>5, <2>2
  <2> QED BY <2>1, <2>2
<1>7. Frontier(s) = 2 * k - 1
  BY <1>6 DEF Frontier
<1>8. Frontier(s) \in Nat /\ Odd(Frontier(s)) /\ Frontier(s) + 1 = Min(all)
  BY <1>6, <1>7, Parity
<1>9. \A r \in pending[s] : Frontier(s) < r.order
  <2> SUFFICES ASSUME NEW r \in pending[s] PROVE Frontier(s) < r.order
    OBVIOUS
  <2>1. r.order \in all /\ r.order \in Nat
    BY <1>3
  <2>2. Min(all) <= r.order
    BY <1>5, <2>1
  <2> QED BY <1>8, <2>1, <2>2
<1>10. Frontier(s) < NextOrder
  <2>1. Min(all) <= NextOrder
    BY <1>5
  <2> QED BY <1>2, <1>8, <2>1
<1> QED BY <1>5, <1>8, <1>9, <1>10

-----------------------------------------------------------------------------
(* Steps of the source. *)
\* A stream and the list of the commits only grow.
Grows ==
  /\ source' = source
  /\ \A s \in Streams : /\ Len(log[s]) <= Len(log'[s])
                        /\ \A n \in 1 .. Len(log[s]) : log'[s][n] = log[s][n]
  /\ Len(committed) <= Len(committed')
  /\ \A i \in 1 .. Len(committed) : committed'[i] = committed[i]
  /\ \A s \in Active : resolved[s] <= resolved'[s]

\* Where nothing is sent again, a record that arrives was pending or is a
\* watermark before all that is, and what becomes pending is the next commit.
Arrivals == ~Multi => \A s \in Active :
  /\ \A n \in Len(log[s]) + 1 .. Len(log'[s]) :
       \/ log'[s][n] \in pending[s]
       \/ /\ log'[s][n].kind = "resolved" /\ Odd(log'[s][n].order) /\ resolved[s] < log'[s][n].order
          /\ \/ log'[s][n].order + 1 = NextOrder
             \/ \E r \in pending[s] : log'[s][n].order + 1 = r.order
  /\ \A r \in pending'[s] : r \in pending[s] \/ r.order = NextOrder

\* One record more in one stream.
LEMMA LogAppends ==
  ASSUME SourceTypes, NEW s \in Streams, NEW x \in Records, log' = [log EXCEPT ![s] = Append(@, x)]
  PROVE  /\ log' \in [Streams -> Seq(Records)]
         /\ Len(log'[s]) = Len(log[s]) + 1 /\ log'[s][Len(log[s]) + 1] = x
         /\ \A n \in 1 .. Len(log[s]) : log'[s][n] = log[s][n]
         /\ \A t \in Streams : t # s => log'[t] = log[t]
         /\ \A t \in Streams : /\ Len(log[t]) <= Len(log'[t])
                               /\ \A n \in 1 .. Len(log[t]) : log'[t][n] = log[t][n]
<1>1. log \in [Streams -> Seq(Records)]
  BY DEF SourceTypes
<1>2. log'[s] = Append(log[s], x) /\ \A t \in Streams : t # s => log'[t] = log[t]
  BY <1>1
<1>3. log[s] \in Seq(Records)
  BY <1>1
<1>4. /\ Append(log[s], x) \in Seq(Records) /\ Len(Append(log[s], x)) = Len(log[s]) + 1
      /\ \A n \in 1 .. Len(log[s]) : Append(log[s], x)[n] = log[s][n]
      /\ Append(log[s], x)[Len(log[s]) + 1] = x
  BY <1>3, Appends
<1>5. log' \in [Streams -> Seq(Records)]
  BY <1>1, <1>4
<1>6. \A t \in Streams : Len(log[t]) \in Nat
  BY LogIs
<1> QED BY <1>2, <1>4, <1>5, <1>6

\* A row in the log, and one that was committed, stays there.
LEMMA InLogStays ==
  ASSUME SourceTypes, Grows, NEW s \in Streams, NEW order, NEW part, NEW n \in Nat, n <= Len(log[s]),
         InLog(log[s], order, part, n)
  PROVE  \A k \in Nat : n <= k => InLog(log'[s], order, part, k)
<1>1. PICK m \in 1 .. n : log[s][m] = Row(order, part)
  BY DEF InLog
<1>2. Len(log[s]) \in Nat
  BY LogIs
<1>3. log'[s][m] = Row(order, part)
  BY <1>1, <1>2 DEF Grows
<1> QED BY <1>1, <1>3 DEF InLog, Row

\* A row that was committed stays one of a committed transaction.
LEMMA KnownStays ==
  ASSUME SourceTypes, Numbered, Grows, DOMAIN committed' = 1 .. Len(committed'), Len(committed') \in Nat,
         NEW s, NEW order, NEW part, Known(committed, s, order, part)
  PROVE  Known(committed', s, order, part)
<1>1. PICK i \in DOMAIN committed : committed[i].order = order /\ <<s, part>> \in committed[i].rows
  BY DEF Known
<1>2. i \in DOMAIN committed' /\ committed'[i] = committed[i]
  BY <1>1, CommitIs DEF Grows
<1> QED BY <1>1, <1>2 DEF Known

\* What was shown is shown: commits to come have a greater order.
LEMMA ShownStays ==
  ASSUME SourceTypes, Numbered, Grows, committed' \in Seq(Txs), Numbered',
         NEW s \in Streams, NEW order \in Nat, order <= NextOrder, NEW n \in Nat, n <= Len(log[s]),
         Shown(committed, log[s], s, order, n)
  PROVE  Shown(committed', log'[s], s, order, n)
<1> SUFFICES ASSUME NEW i \in DOMAIN committed', NEW r \in committed'[i].rows,
                    committed'[i].order < order, r[1] = s
             PROVE  InLog(log'[s], committed'[i].order, r[2], n)
  BY DEF Shown
<1>1. /\ Len(committed) \in Nat /\ DOMAIN committed = 1 .. Len(committed)
      /\ NextOrder = 2 * (Len(committed) + 1)
  BY CommitIs
<1>2. DOMAIN committed' = 1 .. Len(committed') /\ Len(committed') \in Nat
  OBVIOUS
<1>3. committed'[i].order = 2 * i
  BY DEF Numbered
<1>4. i \in DOMAIN committed
  BY <1>1, <1>2, <1>3
<1>5. committed'[i] = committed[i]
  BY <1>1, <1>4 DEF Grows
<1>6. InLog(log[s], committed[i].order, r[2], n)
  BY <1>4, <1>5 DEF Shown
<1>7. \A k \in Nat : n <= k => InLog(log'[s], committed[i].order, r[2], k)
  BY <1>6, InLogStays
<1> QED BY <1>5, <1>7

\* More records show no less.
LEMMA ShownLater ==
  ASSUME NEW list, NEW stream, NEW s, NEW order, NEW n \in Nat, NEW k \in Nat, n <= k,
         Shown(list, stream, s, order, n)
  PROVE  Shown(list, stream, s, order, k)
BY DEF Shown, InLog

\* What the log held it holds.
LEMMA CompleteStays ==
  ASSUME SourceTypes, Numbered, Grows, NEW i \in DOMAIN committed, NEW r \in committed[i].rows,
         InLog(log[r[1]], committed[i].order, r[2], Len(log[r[1]])), log' \in [Streams -> Seq(Records)]
  PROVE  InLog(log'[r[1]], committed[i].order, r[2], Len(log'[r[1]]))
<1>1. r[1] \in Streams
  BY CommitIs, ActiveStreams
<1>2. Len(log[r[1]]) \in Nat /\ Len(log'[r[1]]) \in Nat /\ Len(log[r[1]]) <= Len(log'[r[1]])
  BY <1>1, LogIs DEF Grows
<1> QED BY <1>1, <1>2, InLogStays

\* The source commits.
LEMMA CommitStep ==
  ASSUME SourceInv, source' = source, Commit
  PROVE  SourceInv' /\ Grows /\ Arrivals
<1>t. SourceTypes /\ Numbered
  BY DEF SourceInv
<1>1. PICK shape \in source.shapes :
        /\ committed' = Append(committed, Transaction(shape, NextOrder))
        /\ pending' = [s \in Streams |->
             IF s \in Active THEN pending[s] \cup RowsIn(shape, NextOrder, s) ELSE {}]
        /\ UNCHANGED <<log, resolved, slot, resends>>
  BY DEF Commit
<1>2. /\ shape \in [Streams -> Nat] /\ \E s \in Active : shape[s] > 0
      /\ source.dialect = "purescale" => \A s \in Active : shape[s] > 0
      /\ source.dialect = "gaussdb" /\ ~source.clusterwide =>
           \A s \in Active : s # source.streams => shape[s] = 0
  BY <1>t, ActiveStreams, StreamsAssumption DEF SourceTypes, Followed, LastOnly, Everywhere
<1>3. /\ Active \subseteq Streams /\ Active' = Active
      /\ Multi' = Multi /\ Merging' = Merging
  BY <1>t, ActiveStreams DEF Active, Multi, Merging
<1>4. /\ Len(committed) \in Nat /\ DOMAIN committed = 1 .. Len(committed)
      /\ NextOrder \in Nat /\ NextOrder = 2 * (Len(committed) + 1)
  BY <1>t, CommitIs
<1> DEFINE tx == Transaction(shape, NextOrder)
<1>5. /\ tx \in Txs /\ tx.order = NextOrder
      /\ \A s \in Active : \A p : <<s, p>> \in tx.rows <=> p \in 1 .. shape[s]
      /\ \A r \in tx.rows : r[1] \in Active /\ r[2] \in 1 .. shape[r[1]] /\ r = <<r[1], r[2]>>
  BY <1>2, <1>3, <1>4 DEF Transaction, Txs
<1>6. /\ committed' \in Seq(Txs) /\ Len(committed') = Len(committed) + 1
      /\ \A i \in 1 .. Len(committed) : committed'[i] = committed[i]
      /\ committed'[Len(committed) + 1] = tx /\ DOMAIN committed' = 1 .. Len(committed')
  BY <1>1, <1>5, <1>t, Appends DEF SourceTypes
<1>7. NextOrder' \in Nat /\ NextOrder' = NextOrder + 2
  BY <1>4, <1>6 DEF NextOrder
<1>8. ASSUME NEW s \in Streams
      PROVE  /\ RowsIn(shape, NextOrder, s) \subseteq RowRecords
             /\ \A r \in RowsIn(shape, NextOrder, s) : r.order = NextOrder /\ r.part \in 1 .. shape[s]
             /\ \A p \in 1 .. shape[s] : Row(NextOrder, p) \in RowsIn(shape, NextOrder, s)
  BY <1>2, <1>4 DEF RowsIn, Row, RowRecords
<1>9. Grows
  BY <1>1, <1>3, <1>4, <1>6, <1>t, LogIs DEF Grows
<1>10. Arrivals
  BY <1>1, <1>3, <1>8, <1>t, LogIs DEF Arrivals
<1>11. SourceTypes'
  <2>1. pending' \in [Streams -> SUBSET RowRecords]
    <3>1. \A s \in Streams : pending[s] \in SUBSET RowRecords
      BY <1>t DEF SourceTypes
    <3> QED BY <1>1, <1>8, <3>1
  <2> QED BY <1>1, <1>6, <1>t, <2>1 DEF SourceTypes
<1>12. Numbered'
  <2> SUFFICES ASSUME NEW i \in DOMAIN committed'
               PROVE  /\ committed'[i].order = 2 * i
                      /\ committed'[i].rows # {} /\ \A r \in committed'[i].rows : r[1] \in Active
    BY <1>3 DEF Numbered
  <2>1. CASE i = Len(committed) + 1
    <3>1. PICK s \in Active : shape[s] > 0
      BY <1>2
    <3>2. <<s, 1>> \in tx.rows
      BY <1>2, <1>3, <1>5, <3>1
    <3> QED BY <1>4, <1>5, <1>6, <2>1, <3>2
  <2>2. CASE i # Len(committed) + 1
    BY <1>4, <1>6, <1>t, <2>2 DEF Numbered
  <2> QED BY <2>1, <2>2
<1>13. Shaped'
  <2> SUFFICES ASSUME NEW i \in DOMAIN committed'
               PROVE  /\ source.dialect = "purescale" => \A s \in Active : \E r \in committed'[i].rows : r[1] = s
                      /\ source.dialect = "gaussdb" /\ ~source.clusterwide =>
                           \A r \in committed'[i].rows : r[1] = source.streams
    BY <1>3 DEF Shaped
  <2>1. CASE i = Len(committed) + 1
    <3>1. ASSUME source.dialect = "purescale", NEW s \in Active PROVE \E r \in tx.rows : r[1] = s
      <4>1. shape[s] > 0 /\ shape[s] \in Nat
        BY <1>2, <1>3, <3>1
      <4>2. <<s, 1>> \in tx.rows
        BY <1>5, <4>1
      <4> QED BY <4>2
    <3>2. ASSUME source.dialect = "gaussdb", ~source.clusterwide, NEW r \in tx.rows
          PROVE  r[1] = source.streams
      BY <1>2, <1>3, <1>5, <3>2
    <3> QED BY <1>6, <2>1, <3>1, <3>2
  <2>2. CASE i # Len(committed) + 1
    BY <1>4, <1>6, <2>2 DEF SourceInv, Shaped
  <2> QED BY <2>1, <2>2
<1>14. Real'
  <2>1. ASSUME NEW s, NEW order, NEW part, Known(committed, s, order, part)
        PROVE  Known(committed', s, order, part)
    BY <1>4, <1>6, <1>9, <1>t, <2>1, KnownStays
  <2>2. ASSUME NEW s \in Active, NEW r \in pending'[s] PROVE Known(committed', s, r.order, r.part)
    <3>1. CASE r \in pending[s]
      BY <2>1, <3>1 DEF SourceInv, Real
    <3>2. CASE r \in RowsIn(shape, NextOrder, s)
      <4>1. r.order = NextOrder /\ r.part \in 1 .. shape[s]
        BY <1>3, <1>8, <3>2
      <4>2. <<s, r.part>> \in tx.rows
        BY <1>5, <4>1
      <4> QED BY <1>4, <1>5, <1>6, <4>1, <4>2 DEF Known
    <3> QED BY <1>1, <1>3, <3>1, <3>2
  <2>3. ASSUME NEW s \in Active, NEW n \in 1 .. Len(log[s]), log[s][n].kind = "row"
        PROVE  Known(committed', s, log[s][n].order, log[s][n].part)
    BY <2>1, <2>3 DEF SourceInv, Real
  <2>4. \A s \in Streams \ Active : pending'[s] = {}
    BY <1>1
  <2> QED BY <1>1, <1>3, <2>2, <2>3, <2>4 DEF Real
<1>15. Complete'
  <2> SUFFICES ASSUME NEW i \in DOMAIN committed', NEW r \in committed'[i].rows
               PROVE  \/ Row(committed'[i].order, r[2]) \in pending'[r[1]]
                      \/ InLog(log[r[1]], committed'[i].order, r[2], Len(log[r[1]]))
    BY <1>1 DEF Complete
  <2>1. CASE i = Len(committed) + 1
    <3>1. r[1] \in Active /\ r[2] \in 1 .. shape[r[1]] /\ committed'[i].order = NextOrder
      BY <1>5, <1>6, <2>1
    <3>2. Row(NextOrder, r[2]) \in RowsIn(shape, NextOrder, r[1])
      BY <1>3, <1>8, <3>1
    <3> QED BY <1>1, <1>3, <3>1, <3>2
  <2>2. CASE i # Len(committed) + 1
    <3>1. i \in DOMAIN committed /\ committed'[i] = committed[i]
      BY <1>4, <1>6, <2>2
    <3>2. r[1] \in Active
      BY <1>t, <3>1, CommitIs
    <3>3. pending[r[1]] \subseteq pending'[r[1]]
      BY <1>1, <1>3, <3>2
    <3> QED BY <3>1, <3>3 DEF SourceInv, Complete
  <2> QED BY <2>1, <2>2
<1>16. ASSUME NEW s \in Active, NEW order \in Nat, order <= NextOrder, NEW n \in Nat, n <= Len(log[s]),
              Shown(committed, log[s], s, order, n)
       PROVE  Shown(committed', log[s], s, order, n)
  BY <1>1, <1>3, <1>6, <1>9, <1>12, <1>16, <1>t, ShownStays
<1>17. Promised'
  <2> SUFFICES ASSUME NEW s \in Active
               PROVE  /\ resolved[s] < NextOrder' /\ Odd(resolved[s])
                      /\ Shown(committed', log[s], s, resolved[s] + 1, Len(log[s]))
    BY <1>1, <1>3 DEF Promised
  <2>1. /\ resolved[s] \in Nat /\ resolved[s] < NextOrder /\ Odd(resolved[s])
        /\ Shown(committed, log[s], s, resolved[s] + 1, Len(log[s])) /\ Len(log[s]) \in Nat
    BY <1>3, <1>t, LogIs DEF SourceInv, Promised
  <2> QED BY <1>4, <1>7, <1>16, <2>1
<1>18. Marks'
  <2> SUFFICES ASSUME NEW s \in Active, NEW n \in 1 .. Len(log[s]), log[s][n].kind = "resolved"
               PROVE  /\ Odd(log[s][n].order) /\ log[s][n].order <= resolved[s]
                      /\ Shown(committed', log[s], s, log[s][n].order + 1, n)
    BY <1>1, <1>3 DEF Marks
  <2>1. /\ Odd(log[s][n].order) /\ log[s][n].order <= resolved[s]
        /\ Shown(committed, log[s], s, log[s][n].order + 1, n)
    BY DEF SourceInv, Marks
  <2>2. /\ log[s][n].order \in Nat /\ resolved[s] \in Nat /\ resolved[s] < NextOrder /\ Len(log[s]) \in Nat
    BY <1>3, <1>t, LogIs DEF SourceInv, Promised
  <2> QED BY <1>4, <1>16, <2>1, <2>2
<1>19. Firsts'
  <2> SUFFICES ASSUME Multi, source.sorted, NEW s \in Active, NEW n \in 1 .. Len(log[s]), log[s][n].kind = "row"
               PROVE  Shown(committed', log[s], s, log[s][n].order, n)
    BY <1>1, <1>3 DEF Firsts
  <2>1. Shown(committed, log[s], s, log[s][n].order, n) /\ Known(committed, s, log[s][n].order, log[s][n].part)
    BY DEF SourceInv, Firsts, Real
  <2>2. log[s][n].order \in Nat /\ log[s][n].order < NextOrder
    BY <1>t, <2>1, KnownIs
  <2> QED BY <1>3, <1>4, <1>16, <1>t, <2>1, <2>2, LogIs
<1>20. Ascending'
  <2> SUFFICES ASSUME ~Multi, NEW s \in Active
               PROVE  /\ \A n \in 1 .. Len(log[s]) :
                           /\ \A m \in 1 .. n - 1 : /\ log[s][m].order <= log[s][n].order
                                                    /\ log[s][m].kind = "resolved" => log[s][m].order < log[s][n].order
                           /\ \A r \in pending'[s] : log[s][n].order <= r.order
                      /\ \A r \in pending'[s] : resolved[s] < r.order
    BY <1>1, <1>3 DEF Ascending
  <2>1. \A r \in pending'[s] : r \in pending[s] \/ r.order = NextOrder
    BY <1>1, <1>3, <1>8
  <2>2. resolved[s] < NextOrder
    BY DEF SourceInv, Promised
  <2>3. ASSUME NEW n \in 1 .. Len(log[s]) PROVE log[s][n].order <= NextOrder
    <3>1. log[s][n].order \in Nat /\ log[s][n].kind \in {"row", "resolved"} /\ resolved[s] \in Nat
      BY <1>3, <1>t, LogIs
    <3>2. CASE log[s][n].kind = "row"
      <4>1. Known(committed, s, log[s][n].order, log[s][n].part)
        BY <3>2 DEF SourceInv, Real
      <4>2. log[s][n].order < NextOrder
        BY <1>t, <4>1, KnownIs
      <4> QED BY <1>4, <3>1, <4>2
    <3>3. CASE log[s][n].kind = "resolved"
      BY <1>4, <2>2, <3>1, <3>3 DEF SourceInv, Marks
    <3> QED BY <3>1, <3>2, <3>3
  <2> QED BY <2>1, <2>2, <2>3 DEF SourceInv, Ascending
<1>21. OnlyRows'
  BY <1>1, <1>3 DEF SourceInv, OnlyRows
<1> QED BY <1>9, <1>10, <1>11, <1>12, <1>13, <1>14, <1>15, <1>17, <1>18, <1>19, <1>20, <1>21 DEF SourceInv

\* What holds of the records of the logs when one of them gets one more, and
\* nothing is committed: the parts of the invariant that only look at the past.
LEMMA OneMore ==
  ASSUME SourceInv, source' = source, NEW s \in Active, NEW x \in Records,
         log' = [log EXCEPT ![s] = Append(@, x)], committed' = committed,
         \A t \in Active : resolved[t] <= resolved'[t], resolved' \in [Streams -> Nat]
  PROVE  /\ Grows /\ Numbered' /\ Shaped' /\ NextOrder' = NextOrder
         /\ Active' = Active /\ Active \subseteq Streams
         /\ Multi' = Multi /\ Single' = Single /\ Merging' = Merging
         /\ log' \in [Streams -> Seq(Records)]
         /\ \A t \in Active : Len(log[t]) \in Nat /\ Len(log'[t]) \in Nat
         /\ Len(log'[s]) = Len(log[s]) + 1 /\ log'[s][Len(log[s]) + 1] = x
         /\ \A n \in 1 .. Len(log[s]) : log'[s][n] = log[s][n]
         /\ \A t \in Active : t # s => log'[t] = log[t]
         /\ \A t \in Active, order \in Nat, n \in Nat, k \in Nat :
              order <= NextOrder /\ n <= Len(log[t]) /\ n <= k /\ Shown(committed, log[t], t, order, n)
                => Shown(committed, log'[t], t, order, k)
         /\ \A i \in DOMAIN committed : \A r \in committed[i].rows :
              InLog(log[r[1]], committed[i].order, r[2], Len(log[r[1]]))
                => InLog(log'[r[1]], committed[i].order, r[2], Len(log'[r[1]]))
<1>t. SourceTypes /\ Numbered
  BY DEF SourceInv
<1>1. Active \subseteq Streams /\ s \in Streams
  BY <1>t, ActiveStreams
<1>2. /\ log' \in [Streams -> Seq(Records)]
      /\ Len(log'[s]) = Len(log[s]) + 1 /\ log'[s][Len(log[s]) + 1] = x
      /\ \A n \in 1 .. Len(log[s]) : log'[s][n] = log[s][n]
      /\ \A t \in Streams : t # s => log'[t] = log[t]
      /\ \A t \in Streams : /\ Len(log[t]) <= Len(log'[t])
                            /\ \A n \in 1 .. Len(log[t]) : log'[t][n] = log[t][n]
  BY <1>t, <1>1, LogAppends
<1>3. \A t \in Active : Len(log[t]) \in Nat /\ Len(log'[t]) \in Nat
  <2> SUFFICES ASSUME NEW t \in Active PROVE Len(log[t]) \in Nat /\ Len(log'[t]) \in Nat
    OBVIOUS
  <2>1. log[t] \in Seq(Records) /\ log'[t] \in Seq(Records)
    BY <1>t, <1>1, <1>2, LogIs
  <2> QED BY <2>1
<1>4. Grows
  <2>1. Len(committed) \in Nat
    BY <1>t, CommitIs
  <2> QED BY <1>2, <2>1 DEF Grows
<1>5. Numbered' /\ Shaped' /\ NextOrder' = NextOrder /\ Active' = Active
  <2>1. Active' = Active
    BY DEF Active
  <2> QED BY <2>1 DEF SourceInv, Numbered, Shaped, NextOrder
<1>6. ASSUME NEW t \in Active, NEW order \in Nat, NEW n \in Nat, NEW k \in Nat,
             order <= NextOrder, n <= Len(log[t]), n <= k, Shown(committed, log[t], t, order, n)
      PROVE  Shown(committed, log'[t], t, order, k)
  <2>1. Shown(committed', log'[t], t, order, n)
    <3>1. committed' \in Seq(Txs)
      BY <1>t DEF SourceTypes
    <3> QED BY <1>t, <1>1, <1>4, <1>5, <1>6, <3>1, ShownStays
  <2> QED BY <1>6, <2>1, ShownLater
<1>7. ASSUME NEW i \in DOMAIN committed, NEW r \in committed[i].rows,
             InLog(log[r[1]], committed[i].order, r[2], Len(log[r[1]]))
      PROVE  InLog(log'[r[1]], committed[i].order, r[2], Len(log'[r[1]]))
  BY <1>t, <1>2, <1>4, <1>7, CompleteStays
<1>8. Multi' = Multi /\ Single' = Single /\ Merging' = Merging
  BY DEF Multi, Single, Merging
<1> QED BY <1>1, <1>2, <1>3, <1>4, <1>5, <1>6, <1>7, <1>8

\* A stream shows a row.
LEMMA EmitStep ==
  ASSUME SourceInv, source' = source, NEW s \in Streams, Emit(s)
  PROVE  SourceInv' /\ Grows /\ Arrivals
<1>t. SourceTypes /\ Numbered
  BY DEF SourceInv
<1>1. PICK x \in pending[s] :
        /\ source.sorted => \A other \in pending[s] : ~Precedes(other, x)
        /\ log' = [log EXCEPT ![s] = Append(@, x)]
        /\ pending' = [pending EXCEPT ![s] = @ \ {x}]
        /\ UNCHANGED <<resolved, slot, committed, resends>>
  BY DEF Emit
<1>2. s \in Active
  BY DEF SourceInv, Real
<1>3. /\ x \in Records /\ x.order \in Nat /\ x.part \in Nat /\ x.kind = "row" /\ x = Row(x.order, x.part)
      /\ \A t \in Streams : resolved[t] \in Nat
  BY <1>t, <1>1, LogIs
<1>4. /\ Grows /\ Numbered' /\ Shaped' /\ NextOrder' = NextOrder
      /\ Active' = Active /\ Active \subseteq Streams
      /\ Multi' = Multi /\ Single' = Single /\ Merging' = Merging
      /\ log' \in [Streams -> Seq(Records)]
      /\ \A t \in Active : Len(log[t]) \in Nat /\ Len(log'[t]) \in Nat
      /\ Len(log'[s]) = Len(log[s]) + 1 /\ log'[s][Len(log[s]) + 1] = x
      /\ \A n \in 1 .. Len(log[s]) : log'[s][n] = log[s][n]
      /\ \A t \in Active : t # s => log'[t] = log[t]
  <2>1. /\ \A t \in Active : resolved[t] <= resolved'[t]
        /\ resolved' \in [Streams -> Nat] /\ committed' = committed
    BY <1>t, <1>1, <1>3, ActiveStreams DEF SourceTypes
  <2> QED BY <1>1, <1>2, <1>3, <2>1, OneMore
<1>5. /\ \A t \in Active, order \in Nat, n \in Nat, k \in Nat :
           order <= NextOrder /\ n <= Len(log[t]) /\ n <= k /\ Shown(committed, log[t], t, order, n)
             => Shown(committed, log'[t], t, order, k)
      /\ \A i \in DOMAIN committed : \A r \in committed[i].rows :
           InLog(log[r[1]], committed[i].order, r[2], Len(log[r[1]]))
             => InLog(log'[r[1]], committed[i].order, r[2], Len(log'[r[1]]))
  <2>1. /\ \A t \in Active : resolved[t] <= resolved'[t]
        /\ resolved' \in [Streams -> Nat] /\ committed' = committed
    BY <1>t, <1>1, <1>3, ActiveStreams DEF SourceTypes
  <2> QED BY <1>1, <1>2, <1>3, <2>1, OneMore
<1>6. /\ pending'[s] = pending[s] \ {x} /\ pending' \in [Streams -> SUBSET RowRecords]
      /\ \A t \in Active : t # s => pending'[t] = pending[t]
  BY <1>t, <1>1, <1>4 DEF SourceTypes
<1>7. NextOrder \in Nat /\ x.order < NextOrder /\ Known(committed, s, x.order, x.part)
  <2>1. Known(committed, s, x.order, x.part)
    BY <1>1, <1>2 DEF SourceInv, Real
  <2> QED BY <1>t, <2>1, KnownIs, CommitIs
<1>8. Arrivals
  <2> SUFFICES ASSUME NEW t \in Active
               PROVE  /\ \A n \in Len(log[t]) + 1 .. Len(log'[t]) : log'[t][n] \in pending[t]
                      /\ \A r \in pending'[t] : r \in pending[t]
    BY DEF Arrivals
  <2>1. CASE t = s
    BY <1>1, <1>4, <1>6, <2>1
  <2>2. CASE t # s
    BY <1>4, <1>6, <2>2
  <2> QED BY <2>1, <2>2
<1>9. SourceTypes'
  BY <1>t, <1>1, <1>4, <1>6 DEF SourceTypes
<1>10. Real'
  <2>1. ASSUME NEW t \in Active, NEW r \in pending'[t] PROVE Known(committed, t, r.order, r.part)
    BY <1>6, <2>1 DEF SourceInv, Real
  <2>2. ASSUME NEW t \in Active, NEW n \in 1 .. Len(log'[t]), log'[t][n].kind = "row"
        PROVE  Known(committed, t, log'[t][n].order, log'[t][n].part)
    <3>1. CASE t = s /\ n = Len(log[s]) + 1
      BY <1>4, <1>7, <3>1
    <3>2. CASE ~(t = s /\ n = Len(log[s]) + 1)
      <4>1. n \in 1 .. Len(log[t]) /\ log'[t][n] = log[t][n]
        BY <1>4, <3>2
      <4> QED BY <2>2, <4>1 DEF SourceInv, Real
    <3> QED BY <3>1, <3>2
  <2>3. \A t \in Streams \ Active : pending'[t] = {}
    BY <1>1, <1>t DEF SourceInv, Real, SourceTypes
  <2> QED BY <1>1, <1>4, <2>1, <2>2, <2>3 DEF Real
<1>11. Complete'
  <2> SUFFICES ASSUME NEW i \in DOMAIN committed, NEW r \in committed[i].rows
               PROVE  \/ Row(committed[i].order, r[2]) \in pending'[r[1]]
                      \/ InLog(log'[r[1]], committed[i].order, r[2], Len(log'[r[1]]))
    BY <1>1 DEF Complete
  <2>1. r[1] \in Active
    BY <1>t, CommitIs
  <2>2. CASE InLog(log[r[1]], committed[i].order, r[2], Len(log[r[1]]))
    BY <1>5, <2>2
  <2>3. CASE Row(committed[i].order, r[2]) \in pending[r[1]]
    <3>1. CASE r[1] = s /\ Row(committed[i].order, r[2]) = x
      <4>1. log'[r[1]][Len(log[s]) + 1] = Row(committed[i].order, r[2])
        BY <1>4, <3>1
      <4> QED BY <1>2, <1>4, <3>1, <4>1 DEF InLog
    <3>2. CASE ~(r[1] = s /\ Row(committed[i].order, r[2]) = x)
      BY <1>6, <2>1, <2>3, <3>2
    <3> QED BY <3>1, <3>2
  <2> QED BY <2>2, <2>3 DEF SourceInv, Complete
<1>12. Promised'
  <2> SUFFICES ASSUME NEW t \in Active
               PROVE  /\ resolved[t] < NextOrder /\ Odd(resolved[t])
                      /\ Shown(committed, log'[t], t, resolved[t] + 1, Len(log'[t]))
    BY <1>1, <1>4 DEF Promised
  <2>1. /\ resolved[t] < NextOrder /\ Odd(resolved[t])
        /\ Shown(committed, log[t], t, resolved[t] + 1, Len(log[t]))
    BY DEF SourceInv, Promised
  <2>2. resolved[t] \in Nat /\ resolved[t] + 1 <= NextOrder /\ Len(log[t]) <= Len(log'[t])
    BY <1>3, <1>4, <1>7, <2>1 DEF Grows
  <2> QED BY <1>4, <1>5, <2>1, <2>2
<1>13. Marks'
  <2> SUFFICES ASSUME NEW t \in Active, NEW n \in 1 .. Len(log'[t]), log'[t][n].kind = "resolved"
               PROVE  /\ Odd(log'[t][n].order) /\ log'[t][n].order <= resolved[t]
                      /\ Shown(committed, log'[t], t, log'[t][n].order + 1, n)
    BY <1>1, <1>4 DEF Marks
  <2>1. n \in 1 .. Len(log[t]) /\ log'[t][n] = log[t][n]
    BY <1>3, <1>4
  <2>2. /\ Odd(log[t][n].order) /\ log[t][n].order <= resolved[t]
        /\ Shown(committed, log[t], t, log[t][n].order + 1, n)
    BY <2>1 DEF SourceInv, Marks
  <2>3. log[t][n].order \in Nat /\ resolved[t] \in Nat /\ resolved[t] < NextOrder
    BY <1>4, <1>t, <2>1, LogIs DEF SourceInv, Promised
  <2>4. Shown(committed, log'[t], t, log[t][n].order + 1, n)
    <3>1. log[t][n].order + 1 \in Nat /\ log[t][n].order + 1 <= NextOrder
      BY <1>7, <2>2, <2>3
    <3>2. n \in Nat /\ n <= Len(log[t]) /\ n <= n
      BY <1>4, <2>1
    <3> QED BY <1>5, <2>2, <3>1, <3>2
  <2> QED BY <2>1, <2>2, <2>4
<1>14. Firsts'
  <2> SUFFICES ASSUME Multi, source.sorted, NEW t \in Active, NEW n \in 1 .. Len(log'[t]), log'[t][n].kind = "row"
               PROVE  Shown(committed, log'[t], t, log'[t][n].order, n)
    BY <1>1, <1>4 DEF Firsts
  <2>1. CASE t = s /\ n = Len(log[s]) + 1
    <3> SUFFICES ASSUME NEW i \in DOMAIN committed, NEW r \in committed[i].rows,
                        committed[i].order < x.order, r[1] = s
                 PROVE  InLog(log'[s], committed[i].order, r[2], n)
      BY <1>4, <2>1 DEF Shown
    <3>1. Row(committed[i].order, r[2]) \notin pending[s]
      <4>1. ASSUME Row(committed[i].order, r[2]) \in pending[s] PROVE FALSE
        <5>1. Precedes(Row(committed[i].order, r[2]), x)
          BY DEF Precedes, Row
        <5> QED BY <1>1, <4>1, <5>1
      <4> QED BY <4>1
    <3>2. InLog(log'[s], committed[i].order, r[2], Len(log'[s]))
      BY <1>5, <3>1 DEF SourceInv, Complete
    <3> QED BY <1>4, <2>1, <3>2
  <2>2. CASE ~(t = s /\ n = Len(log[s]) + 1)
    <3>1. n \in 1 .. Len(log[t]) /\ log'[t][n] = log[t][n]
      BY <1>4, <2>2
    <3>2. Shown(committed, log[t], t, log[t][n].order, n) /\ Known(committed, t, log[t][n].order, log[t][n].part)
      BY <3>1 DEF SourceInv, Firsts, Real
    <3>3. log[t][n].order \in Nat /\ log[t][n].order <= NextOrder
      BY <1>7, <1>t, <3>2, KnownIs
    <3>4. n \in Nat /\ n <= Len(log[t]) /\ n <= n
      BY <1>4, <3>1
    <3>5. Shown(committed, log'[t], t, log[t][n].order, n)
      BY <1>5, <3>2, <3>3, <3>4
    <3> QED BY <3>1, <3>5
  <2> QED BY <2>1, <2>2
<1>15. Ascending'
  <2> SUFFICES ASSUME ~Multi, NEW t \in Active
               PROVE  /\ \A n \in 1 .. Len(log'[t]) :
                           /\ \A m \in 1 .. n - 1 : /\ log'[t][m].order <= log'[t][n].order
                                                    /\ log'[t][m].kind = "resolved" => log'[t][m].order < log'[t][n].order
                           /\ \A r \in pending'[t] : log'[t][n].order <= r.order
                      /\ \A r \in pending'[t] : resolved[t] < r.order
    BY <1>1, <1>4 DEF Ascending
  <2>1. /\ \A n \in 1 .. Len(log[t]) :
             /\ \A m \in 1 .. n - 1 : /\ log[t][m].order <= log[t][n].order
                                      /\ log[t][m].kind = "resolved" => log[t][m].order < log[t][n].order
             /\ \A r \in pending[t] : log[t][n].order <= r.order
        /\ \A r \in pending[t] : resolved[t] < r.order
    BY DEF SourceInv, Ascending
  <2>2. CASE t # s
    BY <1>4, <1>6, <2>1, <2>2
  <2>3. CASE t = s
    <3>1. \A r \in pending[s] : x.order <= r.order
      <4> SUFFICES ASSUME NEW r \in pending[s] PROVE x.order <= r.order
        OBVIOUS
      <4>1. source.sorted
        BY <1>t, Kinds
      <4>2. ~(r.order < x.order)
        BY <1>1, <4>1 DEF Precedes
      <4>3. r.order \in Nat
        BY <1>t, LogIs
      <4> QED BY <1>3, <4>2, <4>3
    <3>2. ASSUME NEW m \in 1 .. Len(log[s])
          PROVE  log[s][m].order <= x.order /\ (log[s][m].kind = "resolved" => log[s][m].order < x.order)
      <4>1. log[s][m].order <= x.order /\ resolved[s] < x.order
        BY <1>1, <2>1, <2>3
      <4>2. log[s][m].kind = "resolved" => log[s][m].order <= resolved[s]
        BY <1>2 DEF SourceInv, Marks
      <4>3. log[s][m].order \in Nat /\ resolved[s] \in Nat
        BY <1>t, LogIs
      <4> QED BY <1>3, <4>1, <4>2, <4>3
    <3>3. ASSUME NEW n \in 1 .. Len(log'[s]), NEW m \in 1 .. n - 1
          PROVE  /\ log'[s][m].order <= log'[s][n].order
                 /\ log'[s][m].kind = "resolved" => log'[s][m].order < log'[s][n].order
      <4>1. m \in 1 .. Len(log[s]) /\ log'[s][m] = log[s][m]
        BY <1>2, <1>4
      <4>2. CASE n = Len(log[s]) + 1
        BY <1>4, <3>2, <4>1, <4>2
      <4>3. CASE n # Len(log[s]) + 1
        <5>1. n \in 1 .. Len(log[s]) /\ log'[s][n] = log[s][n]
          BY <1>2, <1>4, <4>3
        <5> QED BY <2>1, <2>3, <4>1, <5>1
      <4> QED BY <4>2, <4>3
    <3>4. ASSUME NEW n \in 1 .. Len(log'[s]), NEW r \in pending'[s] PROVE log'[s][n].order <= r.order
      <4>1. r \in pending[s]
        BY <1>6
      <4>2. CASE n = Len(log[s]) + 1
        BY <1>4, <3>1, <4>1, <4>2
      <4>3. CASE n # Len(log[s]) + 1
        <5>1. n \in 1 .. Len(log[s]) /\ log'[s][n] = log[s][n]
          BY <1>2, <1>4, <4>3
        <5> QED BY <2>1, <2>3, <4>1, <5>1
      <4> QED BY <4>2, <4>3
    <3> QED BY <1>6, <2>1, <2>3, <3>3, <3>4
  <2> QED BY <2>2, <2>3
<1>16. OnlyRows'
  <2>1. ASSUME Merging, NEW t \in Active, NEW n \in 1 .. Len(log'[t]) PROVE log'[t][n].kind = "row"
    <3>1. CASE t = s /\ n = Len(log[s]) + 1
      BY <1>3, <1>4, <3>1
    <3>2. CASE ~(t = s /\ n = Len(log[s]) + 1)
      <4>1. n \in 1 .. Len(log[t]) /\ log'[t][n] = log[t][n]
        BY <1>4, <3>2
      <4> QED BY <2>1, <4>1 DEF SourceInv, OnlyRows
    <3> QED BY <3>1, <3>2
  <2>2. Merging /\ source.clusterwide => \A u, t \in Active : resolved[u] = resolved[t]
    BY DEF SourceInv, OnlyRows
  <2> QED BY <1>1, <1>4, <2>1, <2>2 DEF OnlyRows
<1> QED BY <1>4, <1>8, <1>9, <1>10, <1>11, <1>12, <1>13, <1>14, <1>15, <1>16 DEF SourceInv

\* The rows before what a stream can promise are in its log.
LEMMA FrontierShown ==
  ASSUME SourceInv, NEW s \in Active, NEW order \in Nat, \A r \in pending[s] : order <= r.order
  PROVE  Shown(committed, log[s], s, order, Len(log[s]))
<1> SUFFICES ASSUME NEW i \in DOMAIN committed, NEW r \in committed[i].rows,
                    committed[i].order < order, r[1] = s
             PROVE  InLog(log[s], committed[i].order, r[2], Len(log[s]))
  BY DEF Shown
<1>1. Row(committed[i].order, r[2]) \notin pending[s]
  <2>1. ASSUME Row(committed[i].order, r[2]) \in pending[s] PROVE FALSE
    <3>1. order <= Row(committed[i].order, r[2]).order
      BY <2>1
    <3>2. Row(committed[i].order, r[2]).order = committed[i].order
      BY DEF Row
    <3>3. committed[i].order \in Nat
      BY CommitIs DEF SourceInv
    <3> QED BY <3>1, <3>2, <3>3
  <2> QED BY <2>1
<1> QED BY <1>1 DEF SourceInv, Complete

\* TiCDC writes a watermark.
LEMMA MarkStep ==
  ASSUME SourceInv, source' = source, ~Merging, NEW s \in Active, NEW order \in Nat,
         Odd(order), order < NextOrder, resolved[s] <= order,
         Shown(committed, log[s], s, order + 1, Len(log[s])),
         log' = [log EXCEPT ![s] = Append(@, Watermark(order))],
         resolved' = [resolved EXCEPT ![s] = order],
         UNCHANGED <<pending, slot, committed, resends>>,
         ~Multi => /\ resolved[s] < order /\ \A n \in 1 .. Len(log[s]) : log[s][n].order <= order
                   /\ \A r \in pending[s] : order < r.order
                   /\ order + 1 = NextOrder \/ \E r \in pending[s] : order + 1 = r.order
  PROVE  SourceInv' /\ Grows /\ Arrivals
<1>t. SourceTypes /\ Numbered
  BY DEF SourceInv
<1> DEFINE x == Watermark(order)
<1>1. x \in Records /\ x.order = order /\ x.kind = "resolved"
  BY DEF Records, Watermark
<1>2. /\ resolved' \in [Streams -> Nat] /\ resolved'[s] = order
      /\ \A t \in Active : t # s => resolved'[t] = resolved[t]
      /\ \A t \in Active : resolved[t] \in Nat /\ resolved[t] <= resolved'[t]
  <2>1. resolved \in [Streams -> Nat] /\ Active \subseteq Streams
    BY <1>t, ActiveStreams DEF SourceTypes
  <2> QED BY <2>1
<1>4. /\ Grows /\ Numbered' /\ Shaped' /\ NextOrder' = NextOrder
      /\ Active' = Active /\ Active \subseteq Streams
      /\ Multi' = Multi /\ Single' = Single /\ Merging' = Merging
      /\ log' \in [Streams -> Seq(Records)]
      /\ \A t \in Active : Len(log[t]) \in Nat /\ Len(log'[t]) \in Nat
      /\ Len(log'[s]) = Len(log[s]) + 1 /\ log'[s][Len(log[s]) + 1] = x
      /\ \A n \in 1 .. Len(log[s]) : log'[s][n] = log[s][n]
      /\ \A t \in Active : t # s => log'[t] = log[t]
  BY <1>1, <1>2, OneMore
<1>5. /\ \A t \in Active, o \in Nat, n \in Nat, k \in Nat :
           o <= NextOrder /\ n <= Len(log[t]) /\ n <= k /\ Shown(committed, log[t], t, o, n)
             => Shown(committed, log'[t], t, o, k)
      /\ \A i \in DOMAIN committed : \A r \in committed[i].rows :
           InLog(log[r[1]], committed[i].order, r[2], Len(log[r[1]]))
             => InLog(log'[r[1]], committed[i].order, r[2], Len(log'[r[1]]))
  BY <1>1, <1>2, OneMore
<1>7. NextOrder \in Nat
  BY <1>t, CommitIs
<1>8. Arrivals
  <2> SUFFICES ASSUME ~Multi, NEW t \in Active
               PROVE  \A n \in Len(log[t]) + 1 .. Len(log'[t]) :
                        /\ log'[t][n].kind = "resolved" /\ Odd(log'[t][n].order) /\ resolved[t] < log'[t][n].order
                        /\ \/ log'[t][n].order + 1 = NextOrder
                           \/ \E r \in pending[t] : log'[t][n].order + 1 = r.order
    BY DEF Arrivals
  <2>1. CASE t = s
    <3>1. \A n \in Len(log[s]) + 1 .. Len(log'[s]) : log'[s][n] = x
      BY <1>4
    <3> QED BY <1>1, <2>1, <3>1
  <2>2. CASE t # s
    BY <1>4, <2>2
  <2> QED BY <2>1, <2>2
<1>9. SourceTypes'
  BY <1>t, <1>2, <1>4 DEF SourceTypes
<1>r. ASSUME NEW t \in Active, NEW n \in 1 .. Len(log'[t])
      PROVE  \/ t = s /\ n = Len(log[s]) + 1 /\ log'[t][n] = x
             \/ n \in 1 .. Len(log[t]) /\ log'[t][n] = log[t][n]
  BY <1>4
<1>10. Real'
  <2>1. ASSUME NEW t \in Active, NEW n \in 1 .. Len(log'[t]), log'[t][n].kind = "row"
        PROVE  Known(committed, t, log'[t][n].order, log'[t][n].part)
    <3>1. n \in 1 .. Len(log[t]) /\ log'[t][n] = log[t][n]
      BY <1>1, <1>r, <2>1
    <3> QED BY <2>1, <3>1 DEF SourceInv, Real
  <2>2. \A t \in Streams \ Active : pending[t] = {}
    BY DEF SourceInv, Real
  <2>3. \A t \in Active : \A r \in pending[t] : Known(committed, t, r.order, r.part)
    BY DEF SourceInv, Real
  <2> QED BY <1>4, <2>1, <2>2, <2>3 DEF Real
<1>11. Complete'
  <2>1. ASSUME NEW i \in DOMAIN committed, NEW r \in committed[i].rows
        PROVE  \/ Row(committed[i].order, r[2]) \in pending[r[1]]
               \/ InLog(log'[r[1]], committed[i].order, r[2], Len(log'[r[1]]))
    BY <1>5 DEF SourceInv, Complete
  <2> QED BY <2>1 DEF Complete
<1>12. Promised'
  <2> SUFFICES ASSUME NEW t \in Active
               PROVE  /\ resolved'[t] < NextOrder /\ Odd(resolved'[t])
                      /\ Shown(committed, log'[t], t, resolved'[t] + 1, Len(log'[t]))
    BY <1>4 DEF Promised
  <2>1. CASE t = s
    <3>1. order + 1 <= NextOrder /\ Len(log[s]) <= Len(log'[s])
      BY <1>4, <1>7
    <3> QED BY <1>2, <1>4, <1>5, <2>1, <3>1
  <2>2. CASE t # s
    <3>1. /\ resolved[t] < NextOrder /\ Odd(resolved[t])
          /\ Shown(committed, log[t], t, resolved[t] + 1, Len(log[t]))
      BY DEF SourceInv, Promised
    <3>2. resolved[t] \in Nat /\ resolved[t] + 1 <= NextOrder
      BY <1>2, <1>7, <3>1
    <3> QED BY <1>2, <1>4, <2>2, <3>1
  <2> QED BY <2>1, <2>2
<1>13. Marks'
  <2> SUFFICES ASSUME NEW t \in Active, NEW n \in 1 .. Len(log'[t]), log'[t][n].kind = "resolved"
               PROVE  /\ Odd(log'[t][n].order) /\ log'[t][n].order <= resolved'[t]
                      /\ Shown(committed, log'[t], t, log'[t][n].order + 1, n)
    BY <1>4 DEF Marks
  <2>1. CASE t = s /\ n = Len(log[s]) + 1 /\ log'[t][n] = x
    <3>1. order + 1 <= NextOrder /\ n \in Nat /\ Len(log[s]) <= n /\ Len(log[s]) <= Len(log[s])
      BY <1>4, <1>7, <2>1
    <3>2. Shown(committed, log'[s], s, order + 1, n)
      BY <1>4, <1>5, <3>1
    <3> QED BY <1>1, <1>2, <2>1, <3>2
  <2>2. CASE n \in 1 .. Len(log[t]) /\ log'[t][n] = log[t][n]
    <3>1. /\ Odd(log[t][n].order) /\ log[t][n].order <= resolved[t]
          /\ Shown(committed, log[t], t, log[t][n].order + 1, n)
      BY <2>2 DEF SourceInv, Marks
    <3>2. log[t][n].order \in Nat /\ resolved[t] \in Nat /\ resolved[t] < NextOrder
      BY <1>4, <1>t, <2>2, LogIs DEF SourceInv, Promised
    <3>3. log[t][n].order + 1 \in Nat /\ log[t][n].order + 1 <= NextOrder
      BY <1>7, <3>1, <3>2
    <3>4. n \in Nat /\ n <= Len(log[t]) /\ n <= n
      BY <1>4, <2>2
    <3>5. Shown(committed, log'[t], t, log[t][n].order + 1, n)
      BY <1>5, <3>1, <3>3, <3>4
    <3>6. log[t][n].order <= resolved'[t]
      BY <1>2, <3>1, <3>2
    <3> QED BY <2>2, <3>1, <3>5, <3>6
  <2> QED BY <1>r, <2>1, <2>2
<1>14. Firsts'
  <2> SUFFICES ASSUME Multi, source.sorted, NEW t \in Active, NEW n \in 1 .. Len(log'[t]), log'[t][n].kind = "row"
               PROVE  Shown(committed, log'[t], t, log'[t][n].order, n)
    BY <1>4 DEF Firsts
  <2>1. n \in 1 .. Len(log[t]) /\ log'[t][n] = log[t][n]
    BY <1>1, <1>r
  <2>2. Shown(committed, log[t], t, log[t][n].order, n) /\ Known(committed, t, log[t][n].order, log[t][n].part)
    BY <2>1 DEF SourceInv, Firsts, Real
  <2>3. log[t][n].order \in Nat /\ log[t][n].order <= NextOrder
    BY <1>7, <1>t, <2>2, KnownIs
  <2>4. n \in Nat /\ n <= Len(log[t]) /\ n <= n
    BY <1>4, <2>1
  <2>5. Shown(committed, log'[t], t, log[t][n].order, n)
    BY <1>5, <2>2, <2>3, <2>4
  <2> QED BY <2>1, <2>5
<1>15. Ascending'
  <2> SUFFICES ASSUME ~Multi, NEW t \in Active
               PROVE  /\ \A n \in 1 .. Len(log'[t]) :
                           /\ \A m \in 1 .. n - 1 : /\ log'[t][m].order <= log'[t][n].order
                                                    /\ log'[t][m].kind = "resolved" => log'[t][m].order < log'[t][n].order
                           /\ \A r \in pending[t] : log'[t][n].order <= r.order
                      /\ \A r \in pending[t] : resolved'[t] < r.order
    BY <1>4 DEF Ascending
  <2>1. /\ \A n \in 1 .. Len(log[t]) :
             /\ \A m \in 1 .. n - 1 : /\ log[t][m].order <= log[t][n].order
                                      /\ log[t][m].kind = "resolved" => log[t][m].order < log[t][n].order
             /\ \A r \in pending[t] : log[t][n].order <= r.order
        /\ \A r \in pending[t] : resolved[t] < r.order
    BY DEF SourceInv, Ascending
  <2>2. CASE t # s
    BY <1>2, <1>4, <2>1, <2>2
  <2>3. CASE t = s
    <3>1. ASSUME NEW m \in 1 .. Len(log[s])
          PROVE  log[s][m].order <= order /\ (log[s][m].kind = "resolved" => log[s][m].order < order)
      <4>1. log[s][m].kind = "resolved" => log[s][m].order <= resolved[s]
        BY DEF SourceInv, Marks
      <4>2. log[s][m].order \in Nat /\ resolved[s] \in Nat
        BY <1>t, <1>4, LogIs
      <4> QED BY <4>1, <4>2
    <3>2. ASSUME NEW n \in 1 .. Len(log'[s]), NEW m \in 1 .. n - 1
          PROVE  /\ log'[s][m].order <= log'[s][n].order
                 /\ log'[s][m].kind = "resolved" => log'[s][m].order < log'[s][n].order
      <4>1. m \in 1 .. Len(log[s]) /\ log'[s][m] = log[s][m]
        BY <1>4
      <4>2. CASE n = Len(log[s]) + 1
        BY <1>1, <1>4, <3>1, <4>1, <4>2
      <4>3. CASE n # Len(log[s]) + 1
        <5>1. n \in 1 .. Len(log[s]) /\ log'[s][n] = log[s][n]
          BY <1>4, <4>3
        <5> QED BY <2>1, <2>3, <4>1, <5>1
      <4> QED BY <4>2, <4>3
    <3>3. ASSUME NEW n \in 1 .. Len(log'[s]), NEW r \in pending[s] PROVE log'[s][n].order <= r.order
      <4>1. order < r.order /\ r.order \in Nat
        BY <1>t, <1>4, LogIs
      <4>2. CASE n = Len(log[s]) + 1
        BY <1>1, <1>4, <4>1, <4>2
      <4>3. CASE n # Len(log[s]) + 1
        <5>1. n \in 1 .. Len(log[s]) /\ log'[s][n] = log[s][n]
          BY <1>4, <4>3
        <5> QED BY <2>1, <2>3, <5>1
      <4> QED BY <4>2, <4>3
    <3> QED BY <1>2, <2>3, <3>2, <3>3
  <2> QED BY <2>2, <2>3
<1>16. OnlyRows'
  BY <1>4 DEF OnlyRows
<1> QED BY <1>4, <1>8, <1>9, <1>10, <1>11, <1>12, <1>13, <1>14, <1>15, <1>16 DEF SourceInv

\* A watermark of TiCDC is written behind the rows that it has passed.
LEMMA ResolveInStreamStep ==
  ASSUME SourceInv, source' = source, NEW s \in Streams, ResolveInStream(s)
  PROVE  SourceInv' /\ Grows /\ Arrivals
<1>t. SourceTypes /\ Numbered /\ Real
  BY DEF SourceInv
<1>1. /\ source.dialect = "ticdc" /\ s \in Active /\ Frontier(s) > resolved[s]
      /\ source.sorted => \A i \in DOMAIN log[s] : log[s][i].order <= Frontier(s)
      /\ resolved' = [resolved EXCEPT ![s] = Frontier(s)]
      /\ log' = [log EXCEPT ![s] = Append(@, Watermark(Frontier(s)))]
      /\ UNCHANGED <<pending, slot, committed, resends>>
  BY DEF ResolveInStream
<1>2. /\ Frontier(s) \in Nat /\ Odd(Frontier(s)) /\ Frontier(s) < NextOrder
      /\ \A r \in pending[s] : Frontier(s) < r.order
      /\ Frontier(s) + 1 = NextOrder \/ \E r \in pending[s] : Frontier(s) + 1 = r.order
  BY <1>t, <1>1, FrontierIs
<1>3. resolved[s] \in Nat /\ log[s] \in Seq(Records) /\ \A r \in pending[s] : r.order \in Nat
  BY <1>t, LogIs
<1>4. Shown(committed, log[s], s, Frontier(s) + 1, Len(log[s]))
  <2>1. \A r \in pending[s] : Frontier(s) + 1 <= r.order
    BY <1>2, <1>3
  <2>2. Frontier(s) + 1 \in Nat
    BY <1>2
  <2> QED BY <1>1, <2>1, <2>2, FrontierShown
<1>5. ~Merging /\ (~Multi => source.sorted)
  BY <1>t, <1>1, Kinds
<1>6. ~Multi => \A n \in 1 .. Len(log[s]) : log[s][n].order <= Frontier(s)
  BY <1>1, <1>3, <1>5
<1>7. resolved[s] < Frontier(s) /\ resolved[s] <= Frontier(s)
  BY <1>1, <1>2, <1>3
<1> QED BY <1>1, <1>2, <1>4, <1>5, <1>6, <1>7, MarkStep

\* One without news says what its predecessor said.
LEMMA ResolveAgainStep ==
  ASSUME SourceInv, source' = source, NEW s \in Streams, ResolveAgain(s)
  PROVE  SourceInv' /\ Grows /\ Arrivals
<1>t. SourceTypes /\ Numbered
  BY DEF SourceInv
<1>1. /\ Multi /\ s \in Active
      /\ log' = [log EXCEPT ![s] = Append(@, Watermark(resolved[s]))]
      /\ UNCHANGED <<pending, resolved, slot, committed, resends>>
  BY DEF ResolveAgain
<1>2. /\ resolved[s] < NextOrder /\ Odd(resolved[s])
      /\ Shown(committed, log[s], s, resolved[s] + 1, Len(log[s]))
  BY <1>1 DEF SourceInv, Promised
<1>3. resolved[s] \in Nat /\ resolved[s] <= resolved[s]
  BY <1>t, LogIs
<1>4. resolved' = [resolved EXCEPT ![s] = resolved[s]]
  BY <1>1, <1>t DEF SourceTypes
<1>5. ~Merging
  BY <1>t, <1>1, Kinds
<1> QED BY <1>1, <1>2, <1>3, <1>4, <1>5, MarkStep

\* A cluster answers with watermarks of its own.
LEMMA TellStep ==
  ASSUME SourceInv, source' = source, Merging, resolved' \in [Streams -> Nat],
         \A s \in Active : /\ resolved[s] <= resolved'[s] /\ resolved'[s] < NextOrder /\ Odd(resolved'[s])
                           /\ \A r \in pending[s] : resolved'[s] < r.order,
         source.clusterwide => \A s, t \in Active : resolved'[s] = resolved'[t],
         UNCHANGED <<pending, log, slot, committed, resends>>
  PROVE  SourceInv' /\ Grows /\ Arrivals
<1>t. SourceTypes /\ Numbered
  BY DEF SourceInv
<1>1. /\ Active' = Active /\ Multi' = Multi /\ Merging' = Merging /\ Active \subseteq Streams
      /\ NextOrder' = NextOrder
  BY <1>t, ActiveStreams DEF Active, Multi, Merging, NextOrder
<1>2. ~Multi /\ \A s \in Active : Len(log[s]) \in Nat
  BY <1>t, <1>1, Kinds, LogIs
<1>3. Grows /\ Arrivals
  <2>1. \A s \in Streams : Len(log[s]) \in Nat
    BY <1>t, LogIs
  <2>2. Len(committed) \in Nat
    BY <1>t, CommitIs
  <2> QED BY <1>1, <1>2, <2>1, <2>2 DEF Grows, Arrivals
<1>4. SourceTypes' /\ Numbered' /\ Shaped' /\ Real' /\ Complete' /\ Firsts'
  BY <1>t, <1>1, <1>2 DEF SourceInv, SourceTypes, Numbered, Shaped, Real, Complete, Firsts
<1>5. Promised'
  <2>1. ASSUME NEW s \in Active PROVE Shown(committed, log[s], s, resolved'[s] + 1, Len(log[s]))
    <3>1. \A r \in pending[s] : resolved'[s] + 1 <= r.order
      BY <1>1, <1>t, LogIs
    <3>2. resolved'[s] + 1 \in Nat
      BY <1>1
    <3> QED BY <3>1, <3>2, FrontierShown
  <2> QED BY <1>1, <2>1 DEF Promised
<1>6. Marks'
  <2>1. \A s \in Active : \A n \in 1 .. Len(log[s]) : log[s][n].kind # "resolved"
    BY DEF SourceInv, OnlyRows
  <2> QED BY <1>1, <2>1 DEF Marks
<1>7. Ascending' /\ OnlyRows'
  BY <1>1, <1>2 DEF SourceInv, Ascending, OnlyRows
<1> QED BY <1>3, <1>4, <1>5, <1>6, <1>7 DEF SourceInv

\* A cluster that answers for one stream promises what that stream has shown.
LEMMA ResolveAloneStep ==
  ASSUME SourceInv, source' = source, NEW s \in Streams, ResolveAlone(s)
  PROVE  SourceInv' /\ Grows /\ Arrivals
<1>t. SourceTypes /\ Numbered /\ Real
  BY DEF SourceInv
<1>1. /\ source.dialect # "ticdc" /\ s \in Active /\ ~source.clusterwide /\ Frontier(s) > resolved[s]
      /\ resolved' = [resolved EXCEPT ![s] = Frontier(s)]
      /\ UNCHANGED <<pending, log, slot, committed, resends>>
  BY DEF ResolveAlone
<1>2. /\ Frontier(s) \in Nat /\ Odd(Frontier(s)) /\ Frontier(s) < NextOrder
      /\ \A r \in pending[s] : Frontier(s) < r.order
  BY <1>t, <1>1, FrontierIs
<1>3. resolved \in [Streams -> Nat] /\ Active \subseteq Streams
  BY <1>t, ActiveStreams DEF SourceTypes
<1>4. Merging /\ ~Multi
  BY <1>t, <1>1, Kinds
<1>5. ASSUME NEW t \in Active
      PROVE  /\ resolved[t] <= resolved'[t] /\ resolved'[t] < NextOrder /\ Odd(resolved'[t])
             /\ \A r \in pending[t] : resolved'[t] < r.order
  <2>1. CASE t = s
    BY <1>1, <1>2, <1>3, <2>1
  <2>2. CASE t # s
    <3>1. resolved'[t] = resolved[t] /\ resolved[t] \in Nat
      BY <1>1, <1>3, <2>2
    <3> QED BY <1>4, <3>1 DEF SourceInv, Promised, Ascending
  <2> QED BY <2>1, <2>2
<1>6. resolved' \in [Streams -> Nat]
  BY <1>1, <1>2, <1>3
<1> QED BY <1>1, <1>4, <1>5, <1>6, TellStep

\* One that answers for all promises what every stream has shown.
LEMMA ResolveTogetherStep ==
  ASSUME SourceInv, source' = source, ResolveTogether
  PROVE  SourceInv' /\ Grows /\ Arrivals
<1>t. SourceTypes /\ Numbered /\ Real
  BY DEF SourceInv
<1> DEFINE frontiers == {Frontier(s) : s \in Active}
           frontier == Min(frontiers)
<1>1. /\ source.dialect # "ticdc" /\ source.clusterwide
      /\ \E s \in Active : frontier > resolved[s]
      /\ resolved' = [s \in Streams |-> frontier]
      /\ UNCHANGED <<pending, log, slot, committed, resends>>
  BY DEF ResolveTogether
<1>2. \A s \in Active : /\ Frontier(s) \in Nat /\ Odd(Frontier(s)) /\ Frontier(s) < NextOrder
                        /\ \A r \in pending[s] : Frontier(s) < r.order
  BY <1>t, FrontierIs
<1>3. frontiers \in SUBSET Nat /\ frontiers # {}
  BY <1>1, <1>2
<1>4. frontier \in frontiers /\ \A x \in frontiers : frontier <= x
  BY <1>3, MinIn
<1>5. resolved \in [Streams -> Nat] /\ Active \subseteq Streams
  BY <1>t, ActiveStreams DEF SourceTypes
<1>6. Merging
  BY <1>t, <1>1, Kinds
<1>7. frontier \in Nat /\ Odd(frontier) /\ frontier < NextOrder
  BY <1>2, <1>4
<1>8. ASSUME NEW t \in Active
      PROVE  /\ resolved[t] <= frontier
             /\ \A r \in pending[t] : frontier < r.order
  <2>1. PICK s \in Active : frontier > resolved[s]
    BY <1>1
  <2>2. resolved[s] = resolved[t]
    BY <1>1, <1>6 DEF SourceInv, OnlyRows
  <2>3. resolved[t] <= frontier
    BY <1>5, <1>7, <2>1, <2>2
  <2>4. ASSUME NEW r \in pending[t] PROVE frontier < r.order
    <3>1. frontier <= Frontier(t) /\ Frontier(t) < r.order /\ Frontier(t) \in Nat
      BY <1>2, <1>4
    <3>2. r.order \in Nat
      BY <1>t, <1>5, LogIs
    <3> QED BY <1>7, <3>1, <3>2
  <2> QED BY <2>3, <2>4
<1>9. resolved' \in [Streams -> Nat] /\ \A s \in Active : resolved'[s] = frontier
  BY <1>1, <1>5, <1>7
<1>10. /\ \A s \in Active : /\ resolved[s] <= resolved'[s] /\ resolved'[s] < NextOrder /\ Odd(resolved'[s])
                            /\ \A r \in pending[s] : resolved'[s] < r.order
       /\ \A s, t \in Active : resolved'[s] = resolved'[t]
  BY <1>7, <1>8, <1>9
<1> QED BY <1>1, <1>6, <1>9, <1>10, TellStep

\* A changefeed starts again.
LEMMA ResendStep ==
  ASSUME SourceInv, source' = source, Resend
  PROVE  SourceInv' /\ Grows /\ Arrivals
<1>t. SourceTypes /\ Numbered
  BY DEF SourceInv
<1>1. PICK c \in 0 .. Min({resolved[s] : s \in Active}) :
        /\ source.dialect = "ticdc" /\ resends < source.resends
        /\ pending' = [s \in Streams |-> CommittedIn(s, c)]
        /\ resends' = resends + 1
        /\ UNCHANGED <<log, resolved, slot, committed>>
  BY DEF Resend
<1>2. Multi /\ ~Merging
  <2>1. ~(resends < 0)
    BY <1>t DEF SourceTypes
  <2> QED BY <1>t, <1>1, <2>1, Kinds
<1>3. /\ Active' = Active /\ Multi' = Multi /\ Merging' = Merging /\ Active \subseteq Streams
      /\ NextOrder' = NextOrder
  BY <1>t, <1>1, ActiveStreams DEF Active, Multi, Merging, NextOrder
<1>4. \A s \in Active : resolved[s] \in Nat /\ c <= resolved[s]
  <2>1. {resolved[s] : s \in Active} \in SUBSET Nat /\ {resolved[s] : s \in Active} # {}
    BY <1>t, ActiveStreams, LogIs
  <2>2. /\ Min({resolved[s] : s \in Active}) \in {resolved[s] : s \in Active}
        /\ \A x \in {resolved[s] : s \in Active} : Min({resolved[s] : s \in Active}) <= x
    BY <2>1, MinIn
  <2>3. Min({resolved[s] : s \in Active}) \in Nat
    BY <2>1, <2>2
  <2>4. \A t \in Active : resolved[t] \in Nat /\ Min({resolved[s] : s \in Active}) <= resolved[t]
    BY <2>1, <2>2
  <2> HIDE DEF Min
  <2> QED BY <2>3, <2>4
<1>5. ASSUME NEW s \in Streams, NEW r
      PROVE  r \in CommittedIn(s, c)
               <=> \E i \in DOMAIN committed : /\ committed[i].order > c
                                               /\ \E x \in committed[i].rows :
                                                    x[1] = s /\ r = Row(committed[i].order, x[2])
  BY DEF CommittedIn
<1>6. /\ \A i \in DOMAIN committed :
           /\ committed[i].order \in Nat
           /\ \A x \in committed[i].rows : x[1] \in Active /\ x[2] \in Nat /\ x = <<x[1], x[2]>>
  BY <1>t, CommitIs
<1>7. ASSUME NEW s \in Streams, NEW r \in CommittedIn(s, c)
      PROVE  r \in RowRecords /\ Known(committed, s, r.order, r.part) /\ s \in Active
  <2>p. PICK i \in DOMAIN committed :
          \E x \in committed[i].rows : x[1] = s /\ r = Row(committed[i].order, x[2])
    BY <1>5
  <2>1. PICK x \in committed[i].rows : x[1] = s /\ r = Row(committed[i].order, x[2])
    BY <2>p
  <2>2. r.order = committed[i].order /\ r.part = x[2] /\ r.kind = "row"
    BY <2>1 DEF Row
  <2>3. r \in RowRecords
    BY <1>6, <2>1 DEF Row, RowRecords
  <2>4. <<s, r.part>> \in committed[i].rows
    BY <1>6, <2>1, <2>2
  <2> QED BY <1>6, <2>1, <2>2, <2>3, <2>4 DEF Known
<1>8. SourceTypes'
  <2>1. pending' \in [Streams -> SUBSET RowRecords]
    BY <1>1, <1>7
  <2> QED BY <1>1, <1>t, <2>1 DEF SourceTypes
<1>9. Grows /\ Arrivals
  <2>1. \A s \in Streams : Len(log[s]) \in Nat
    BY <1>t, LogIs
  <2>2. Len(committed) \in Nat
    BY <1>t, CommitIs
  <2> QED BY <1>1, <1>2, <1>4, <2>1, <2>2 DEF Grows, Arrivals
<1>10. Real'
  <2>1. \A s \in Active : \A r \in pending'[s] : Known(committed, s, r.order, r.part)
    BY <1>1, <1>3, <1>7
  <2>2. \A s \in Streams \ Active : pending'[s] = {}
    <3> SUFFICES ASSUME NEW s \in Streams \ Active PROVE CommittedIn(s, c) = {}
      BY <1>1
    <3>1. \A r : r \notin CommittedIn(s, c)
      BY <1>7
    <3> QED BY <3>1
  <2>3. \A s \in Active : \A n \in 1 .. Len(log[s]) :
          log[s][n].kind = "row" => Known(committed, s, log[s][n].order, log[s][n].part)
    BY DEF SourceInv, Real
  <2> QED BY <1>1, <1>3, <2>1, <2>2, <2>3 DEF Real
<1>11. Complete'
  <2> SUFFICES ASSUME NEW i \in DOMAIN committed, NEW r \in committed[i].rows
               PROVE  \/ Row(committed[i].order, r[2]) \in pending'[r[1]]
                      \/ InLog(log[r[1]], committed[i].order, r[2], Len(log[r[1]]))
    BY <1>1 DEF Complete
  <2>1. r[1] \in Active /\ r[1] \in Streams /\ committed[i].order \in Nat
    BY <1>3, <1>6
  <2>2. CASE committed[i].order > c
    <3>1. Row(committed[i].order, r[2]) \in CommittedIn(r[1], c)
      BY <1>5, <2>1, <2>2
    <3> QED BY <1>1, <2>1, <3>1
  <2>3. CASE committed[i].order <= c
    <3>1. Shown(committed, log[r[1]], r[1], resolved[r[1]] + 1, Len(log[r[1]]))
      BY <2>1 DEF SourceInv, Promised
    <3>2. committed[i].order < resolved[r[1]] + 1
      BY <1>4, <2>1, <2>3
    <3> QED BY <3>1, <3>2 DEF Shown
  <2>4. c \in Nat
    BY <1>1
  <2> QED BY <2>1, <2>2, <2>3, <2>4
<1>12. Numbered' /\ Shaped' /\ Promised' /\ Marks' /\ Firsts'
  BY <1>1, <1>3 DEF SourceInv, Numbered, Shaped, Promised, Marks, Firsts
<1>13. Ascending' /\ OnlyRows'
  BY <1>2, <1>3 DEF Ascending, OnlyRows
<1> QED BY <1>8, <1>9, <1>10, <1>11, <1>12, <1>13 DEF SourceInv

\* Everything the source does, and the watermarks without news.
LEMMA SourceMoves ==
  ASSUME SourceInv, source' = source, SourceStep \/ \E s \in Streams : ResolveAgain(s)
  PROVE  SourceInv' /\ Grows /\ Arrivals
<1>1. CASE Commit
  BY <1>1, CommitStep
<1>2. CASE ResolveTogether
  BY <1>2, ResolveTogetherStep
<1>3. CASE Resend
  BY <1>3, ResendStep
<1>4. ASSUME NEW s \in Streams, Shows(s) PROVE SourceInv' /\ Grows /\ Arrivals
  BY <1>4, EmitStep, ResolveInStreamStep, ResolveAloneStep DEF Shows
<1>5. ASSUME NEW s \in Streams, ResolveAgain(s) PROVE SourceInv' /\ Grows /\ Arrivals
  BY <1>5, ResolveAgainStep
<1> QED BY <1>1, <1>2, <1>3, <1>4, <1>5 DEF SourceStep

(***************************************************************************)
(* What the invariant says of the readers.  A position is right if nothing *)
(* behind its order lies before its places; where nothing is sent again    *)
(* all that lies behind the places is also behind the order.               *)
(***************************************************************************)
Right(p) ==
  /\ p.order >= 1 /\ p.order < NextOrder
  /\ \A s \in Active : /\ p.at[s] <= Len(log[s])
                       /\ \A n \in 1 .. p.at[s] : log[s][n].kind = "row" => log[s][n].order <= p.order
                       /\ source.started => p.at[s] >= 1
  /\ \A s \in Streams \ Active : p.at[s] = 0
  /\ Merging \/ p.order = 1 \/ \E s \in Active : p.at[s] > 0

Above(p) == \A s \in Active :
  /\ \A n \in p.at[s] + 1 .. Len(log[s]) : p.order < log[s][n].order
  /\ \A r \in pending[s] : p.order < r.order
  /\ Odd(p.order) => p.order <= resolved[s]

Good == {p \in Stored : Right(p) /\ (~Multi => Above(p))}

\* Everything up to the order of the position was taken in.
Taken == {p \in Stored : \A i \in DOMAIN committed :
                           committed[i].order <= p.order => committed[i].order \in TakenIn}

Positioned == /\ durable \in Good /\ durable \in Taken
              /\ reader.acked \in Good /\ reader.acked \in Taken
              /\ reader.base \in Good

\* A request between two orders carries no transaction, if there is none, or
\* the only one.
Brings(list, txs, from, to) ==
  \/ txs = <<>> /\ \A i \in DOMAIN list : list[i].order <= to => list[i].order <= from
  \/ \E j \in DOMAIN list : /\ txs = <<list[j]>> /\ list[j].order = to
                            /\ \A i \in DOMAIN list : list[i].order <= from <=> i < j

\* A GaussDB primary that was not acknowledged shows again what was taken in.
Carries ==
  \/ Brings(committed, reader.flight.txs, reader.acked.order, reader.flight.pos.order)
  \/ Merging /\ Len(reader.flight.txs) = 1 /\ reader.flight.pos = reader.acked /\ durable = reader.acked

Flying == reader.flight.stage # "none"

InFlight ==
  /\ ~Flying => reader.flight = Nothing
  /\ ~Merging => reader.ready = {} /\ reader.batch = <<>>
  /\ source.dialect # "gaussdb" => reader.flight.acks = {}
  /\ Flying => /\ reader.flight.pos \in Good
               /\ reader.flight.pos.order >= reader.acked.order
               /\ \A s \in Streams : reader.flight.pos.at[s] >= reader.acked.at[s]
               /\ reader.up => Carries

\* The position that one partition leads to after p: behind the next watermark,
\* or behind the next group of rows.
IsNext(stream, p, q) ==
  /\ p.at[1] < q.at[1] /\ q.at[1] <= Len(stream)
  /\ \A s \in Streams : s # 1 => q.at[s] = 0
  /\ \A n \in p.at[1] + 1 .. q.at[1] : stream[n].order = q.order
  /\ \/ q.at[1] = p.at[1] + 1 /\ stream[q.at[1]].kind = "resolved"
     \/ /\ \A n \in p.at[1] + 1 .. q.at[1] : stream[n].kind = "row"
        /\ q.at[1] < Len(stream) /\ stream[q.at[1] + 1].order # q.order

\* The server is not ahead of the reader, or by the answer that was lost.
Link == reader.up =>
  IF reader.flight.stage = "applied" THEN durable = reader.flight.pos
  ELSE \/ durable = reader.acked
       \/ Single /\ IsNext(log[1], reader.acked, durable)
       \/ Multi /\ source.lossy

Here == IF Flying THEN reader.flight.pos ELSE reader.acked

\* What was read of a partition and is behind the order is queued.
Reads(stream, at, order, cursor, queue, seen) ==
  /\ at <= cursor /\ cursor <= Len(stream)
  /\ \A n \in at + 1 .. cursor :
       stream[n].kind = "row" /\ stream[n].order > order => Item(stream[n], n) \in queue
  /\ \A x \in queue : /\ at < x.offset /\ x.offset <= cursor
                      /\ stream[x.offset] = Row(x.order, x.part)
  /\ seen = 0 \/ \E n \in 1 .. cursor : stream[n].kind = "resolved" /\ stream[n].order = seen

MultiInv == Multi /\ reader.up =>
  /\ \A s \in Active : Reads(log[s], Here.at[s], Here.order, reader.cursor[s], reader.queue[s], reader.seen[s])
  /\ reader.hasDurableAck \/ reader.acked.order = 1
  /\ reader.phase = "fence" =>
       /\ ~Flying /\ reader.candidate > reader.acked.order
       /\ \E s \in Active : \E x \in reader.queue[s] : x.order = reader.candidate

\* One partition: the group is what was read behind the position.
Gathers(stream, at, cursor, queue) ==
  /\ at <= cursor /\ cursor <= Len(stream)
  /\ queue = {Item(stream[n], n) : n \in at + 1 .. cursor}
  /\ \A n \in at + 1 .. cursor : /\ stream[n].kind = "row"
                                 /\ stream[n].order = stream[at + 1].order

SingleInv == Single /\ reader.up =>
  /\ Gathers(log[1], Here.at[1], reader.cursor[1], reader.queue[1])
  /\ Flying => /\ reader.cursor[1] = reader.flight.pos.at[1]
               /\ IsNext(log[1], reader.acked, reader.flight.pos)

\* What a GaussDB primary was not acknowledged is part of the last transaction.
Slots == source.dialect = "gaussdb" =>
  \A s \in Active : /\ slot[s] <= durable.at[s]
                    /\ \A n \in slot[s] + 1 .. durable.at[s] : log[s][n].order = durable.order

\* The record at place n of stream s.
Piece(s, stream, n) == [stream |-> s, offset |-> n, order |-> stream[n].order, part |-> stream[n].part]

\* What was read of stream s is all that lies behind from and up to the watermark.
Fragmented(s, stream, waiting, from, rows, mark) ==
  \E last \in 0 .. Len(stream) :
    /\ rows = {Piece(s, stream, n) : n \in from + 1 .. last}
    /\ \A n \in last + 1 .. Len(stream) : mark < stream[n].order
    /\ \A r \in waiting : mark < r.order

Batched == Merging /\ reader.up /\ reader.batch # <<>> =>
  /\ ~Flying /\ reader.ready = {} /\ Len(reader.batch) <= source.streams
  /\ \A k \in 1 .. Len(reader.batch) :
       /\ Fragmented(k, log[k], pending[k], ReadFrom(reader.acked)[k],
                     reader.batch[k].rows, reader.batch[k].resolved)
       /\ reader.batch[k].resolved < NextOrder
       /\ source.clusterwide => /\ reader.batch[1].resolved <= reader.batch[k].resolved
                                /\ \A s \in Active : reader.batch[1].resolved <= resolved[s]

FlightStreams == {r[1] : r \in reader.flight.txs[1].rows}
Floor(s) == IF Flying /\ s \in FlightStreams THEN reader.flight.pos.at[s] ELSE ReadFrom(reader.acked)[s]

\* The groups of a batch are whole, and the groups before a group are there.
Holds(s, stream, waiting, from, ready, g) ==
  /\ \A f \in g.rows : f.stream = s => /\ from < f.offset /\ f.offset <= Len(stream)
                                       /\ f = Piece(s, stream, f.offset) /\ f.order = g.order
  /\ \A n \in from + 1 .. Len(stream) :
       stream[n].order <= g.order => \E h \in ready : Piece(s, stream, n) \in h.rows
  /\ \A r \in waiting : g.order < r.order

Readied == Merging /\ reader.up => \A g \in reader.ready :
  /\ g.rows # {} /\ g.order < NextOrder /\ \A f \in g.rows : f.stream \in Active
  /\ \A s \in Active : Holds(s, log[s], pending[s], Floor(s), reader.ready, g)
  /\ \A h \in reader.ready : g.order = h.order => g = h
  /\ Flying => reader.flight.pos.order < g.order

\* A group on its way to the server, and the streams that were told of it.
Handed == Merging /\ reader.up /\ Flying =>
  /\ Len(reader.flight.txs) = 1
  /\ source.dialect = "purescale" => FlightStreams = Active
  /\ \A s \in Active : \A n \in ReadFrom(reader.acked)[s] + 1 .. reader.flight.pos.at[s] :
       log[s][n].order = reader.flight.pos.order
  /\ source.dialect = "gaussdb" =>
       /\ reader.flight.acks \subseteq FlightStreams
       /\ \A s \in FlightStreams \ reader.flight.acks : slot[s] = reader.flight.pos.at[s]

\* The server has the transactions up to its position and no other.
Exact == Answered(source) =>
  /\ Len(accepted) <= Len(committed) /\ \A i \in 1 .. Len(accepted) : accepted[i] = committed[i]
  /\ \A i \in 1 .. Len(committed) : i <= Len(accepted) <=> committed[i].order <= durable.order

ReaderInv ==
  /\ ReaderTypes /\ Positioned /\ InFlight /\ Link /\ MultiInv /\ SingleInv
  /\ Slots /\ Batched /\ Readied /\ Handed /\ Exact

-----------------------------------------------------------------------------
(* Whatever the source does, the readers stand where they stood. *)
\* A commit up to an order that the source has reached is not a new one.
LEMMA OldCommit ==
  ASSUME SourceTypes, Numbered, SourceTypes', Numbered', Grows, NEW i \in DOMAIN committed',
         committed'[i].order < NextOrder
  PROVE  i \in DOMAIN committed /\ committed'[i] = committed[i]
<1>1. /\ Len(committed) \in Nat /\ DOMAIN committed = 1 .. Len(committed)
      /\ NextOrder = 2 * (Len(committed) + 1)
  BY CommitIs
<1>2. DOMAIN committed' = 1 .. Len(committed') /\ Len(committed') \in Nat
  BY DEF SourceTypes
<1>3. committed'[i].order = 2 * i
  BY DEF Numbered
<1> QED BY <1>1, <1>2, <1>3 DEF Grows

\* The elements of a list are what the list is of.
LEMMA Elements ==
  /\ \A list \in Seq(Txs) : \A i \in DOMAIN list : list[i] \in Txs /\ list[i].order \in Nat
  /\ \A list \in Seq(Records) : \A i \in 1 .. Len(list) :
       list[i] \in Records /\ list[i].order \in Nat
<1>1. ASSUME NEW list \in Seq(Txs), NEW i \in DOMAIN list PROVE list[i] \in Txs /\ list[i].order \in Nat
  <2>1. list[i] \in Txs
    OBVIOUS
  <2> QED BY <2>1 DEF Txs
<1>2. ASSUME NEW list \in Seq(Records), NEW i \in 1 .. Len(list)
      PROVE  list[i] \in Records /\ list[i].order \in Nat
  <2>1. list[i] \in Records
    OBVIOUS
  <2> QED BY <2>1 DEF Records
<1> QED BY <1>1, <1>2

\* A right position stays right while the source goes on.
LEMMA GoodStays ==
  ASSUME SourceInv, SourceInv', Grows, Arrivals
  PROVE  Good \subseteq Good' /\ Active' = Active /\ NextOrder <= NextOrder'
<1>t. SourceTypes /\ Numbered /\ SourceTypes' /\ Numbered'
  BY DEF SourceInv
<1>1. /\ Active' = Active /\ Multi' = Multi /\ Merging' = Merging /\ Active \subseteq Streams
      /\ source' = source
  BY <1>t, ActiveStreams DEF Grows, Active, Multi, Merging
<1>2. NextOrder \in Nat /\ NextOrder' \in Nat /\ NextOrder <= NextOrder'
  <2>1. Len(committed) \in Nat /\ Len(committed') \in Nat /\ Len(committed) <= Len(committed')
    BY <1>t, CommitIs DEF Grows, SourceTypes
  <2> QED BY <2>1 DEF NextOrder
<1>3. \A s \in Active : /\ Len(log[s]) \in Nat /\ Len(log'[s]) \in Nat /\ Len(log[s]) <= Len(log'[s])
                        /\ \A n \in 1 .. Len(log[s]) : log'[s][n] = log[s][n]
                        /\ resolved[s] <= resolved'[s] /\ resolved[s] \in Nat /\ resolved'[s] \in Nat
  <2>1. \A s \in Active : Len(log[s]) \in Nat /\ resolved[s] \in Nat
    BY <1>1, <1>t, LogIs
  <2>2. \A s \in Active : Len(log'[s]) \in Nat /\ resolved'[s] \in Nat
    BY <1>1, <1>t DEF SourceTypes
  <2> QED BY <1>1, <2>1, <2>2 DEF Grows
<1> SUFFICES ASSUME NEW p \in Good PROVE p \in Good'
  BY <1>1, <1>2
<1>4. p \in Stored /\ Right(p) /\ (~Multi => Above(p))
  BY DEF Good
<1>5. p.order \in Nat /\ p.at \in [Streams -> Nat] /\ p.order < NextOrder
  BY <1>4 DEF Stored, Right
<1>6. Right(p)'
  <2>1. p.order >= 1 /\ p.order < NextOrder'
    BY <1>2, <1>4, <1>5 DEF Right
  <2>2. ASSUME NEW s \in Active
        PROVE  /\ p.at[s] <= Len(log'[s])
               /\ \A n \in 1 .. p.at[s] : log'[s][n].kind = "row" => log'[s][n].order <= p.order
               /\ source.started => p.at[s] >= 1
    <3>1. p.at[s] \in Nat /\ p.at[s] <= Len(log[s])
      BY <1>1, <1>4, <1>5 DEF Right
    <3> QED BY <1>3, <1>4, <3>1 DEF Right
  <2>3. /\ \A s \in Streams \ Active : p.at[s] = 0
        /\ Merging \/ p.order = 1 \/ \E s \in Active : p.at[s] > 0
    BY <1>4 DEF Right
  <2> QED BY <1>1, <2>1, <2>2, <2>3 DEF Right
<1>7. ~Multi => Above(p)'
  <2> SUFFICES ASSUME ~Multi, NEW s \in Active
               PROVE  /\ \A n \in p.at[s] + 1 .. Len(log'[s]) : p.order < log'[s][n].order
                      /\ \A r \in pending'[s] : p.order < r.order
                      /\ Odd(p.order) => p.order <= resolved'[s]
    BY <1>1 DEF Above
  <2>1. /\ \A n \in p.at[s] + 1 .. Len(log[s]) : p.order < log[s][n].order
        /\ \A r \in pending[s] : p.order < r.order
        /\ Odd(p.order) => p.order <= resolved[s]
    BY <1>4 DEF Above
  <2>2. \A r \in pending'[s] : p.order < r.order
    BY <1>5, <2>1 DEF Arrivals
  <2>3. Odd(p.order) => p.order <= resolved'[s]
    BY <1>3, <1>5, <2>1
  <2>4. ASSUME NEW n \in p.at[s] + 1 .. Len(log'[s]) PROVE p.order < log'[s][n].order
    <3>1. p.at[s] \in Nat /\ p.at[s] <= Len(log[s])
      BY <1>1, <1>4, <1>5 DEF Right
    <3>2. CASE n <= Len(log[s])
      <4>1. n \in 1 .. Len(log[s]) /\ n \in p.at[s] + 1 .. Len(log[s])
        BY <1>3, <3>1, <3>2
      <4> QED BY <1>3, <2>1, <4>1
    <3>3. CASE ~(n <= Len(log[s]))
      <4>1. n \in Len(log[s]) + 1 .. Len(log'[s]) /\ n \in 1 .. Len(log'[s])
        BY <1>3, <3>1, <3>3
      <4>2. CASE log'[s][n] \in pending[s]
        BY <2>1, <4>2
      <4>3. CASE /\ log'[s][n].kind = "resolved" /\ Odd(log'[s][n].order) /\ resolved[s] < log'[s][n].order
                 /\ \/ log'[s][n].order + 1 = NextOrder
                    \/ \E r \in pending[s] : log'[s][n].order + 1 = r.order
        <5> DEFINE W == log'[s][n].order
        <5>1. W \in Nat
          <6>1. log'[s] \in Seq(Records)
            BY <1>1, <1>t DEF SourceTypes
          <6> QED BY <4>1, <6>1, Elements
        <5>2. p.order < W + 1
          BY <1>5, <2>1, <4>3
        <5>3. p.order # W
          BY <1>3, <1>5, <2>1, <4>3, <5>1
        <5> QED BY <1>5, <5>1, <5>2, <5>3
      <4> QED BY <4>1, <4>2, <4>3 DEF Arrivals
    <3> QED BY <3>2, <3>3
  <2> QED BY <2>2, <2>3, <2>4
<1> QED BY <1>1, <1>4, <1>6, <1>7 DEF Good

\* What was taken in up to a position stays all there is up to it.
LEMMA TakenStays ==
  ASSUME SourceInv, SourceInv', Grows, accepted' = accepted, NEW p \in Taken, p.order < NextOrder
  PROVE  p \in Taken'
<1>t. SourceTypes /\ Numbered /\ SourceTypes' /\ Numbered'
  BY DEF SourceInv
<1>1. p \in Stored /\ p.order \in Nat /\ NextOrder \in Nat
  BY <1>t, CommitIs DEF Taken, Stored
<1>2. TakenIn' = TakenIn
  BY DEF TakenIn
<1>3. ASSUME NEW i \in DOMAIN committed', committed'[i].order <= p.order
      PROVE  committed'[i].order \in TakenIn
  <2>1. committed'[i].order \in Nat
    BY <1>t, Elements DEF SourceTypes
  <2>2. committed'[i].order < NextOrder
    BY <1>1, <1>3, <2>1
  <2>3. i \in DOMAIN committed /\ committed'[i] = committed[i]
    BY <1>t, <2>2, OldCommit
  <2> QED BY <1>3, <2>3 DEF Taken
<1> QED BY <1>1, <1>2, <1>3 DEF Taken

\* A request stays the next one while the source commits behind it.
LEMMA BringsStays ==
  ASSUME SourceInv, SourceInv', Grows, NEW txs, NEW from \in Nat, NEW to \in Nat,
         from < NextOrder, to < NextOrder, Brings(committed, txs, from, to)
  PROVE  Brings(committed', txs, from, to)
<1>t. SourceTypes /\ Numbered /\ SourceTypes' /\ Numbered'
  BY DEF SourceInv
<1>1. /\ Len(committed) \in Nat /\ DOMAIN committed = 1 .. Len(committed) /\ NextOrder \in Nat
      /\ Len(committed') \in Nat /\ DOMAIN committed' = 1 .. Len(committed')
  BY <1>t, CommitIs DEF SourceTypes
<1>2. \A i \in DOMAIN committed : i \in DOMAIN committed' /\ committed'[i] = committed[i]
  BY <1>1 DEF Grows
<1>3. \A i \in DOMAIN committed' : committed'[i].order \in Nat
  BY <1>t, Elements DEF SourceTypes
<1>4. \A i \in DOMAIN committed' : committed'[i].order < NextOrder
        => i \in DOMAIN committed /\ committed'[i] = committed[i]
  BY <1>t, OldCommit
<1>5. CASE txs = <<>> /\ \A i \in DOMAIN committed : committed[i].order <= to => committed[i].order <= from
  <2>1. ASSUME NEW i \in DOMAIN committed', committed'[i].order <= to PROVE committed'[i].order <= from
    BY <1>1, <1>3, <1>4, <1>5, <2>1
  <2> QED BY <1>5, <2>1 DEF Brings
<1>6. CASE \E j \in DOMAIN committed : /\ txs = <<committed[j]>> /\ committed[j].order = to
                                       /\ \A i \in DOMAIN committed : committed[i].order <= from <=> i < j
  <2>1. PICK j \in DOMAIN committed : /\ txs = <<committed[j]>> /\ committed[j].order = to
                                      /\ \A i \in DOMAIN committed : committed[i].order <= from <=> i < j
    BY <1>6
  <2>2. ASSUME NEW i \in DOMAIN committed' PROVE committed'[i].order <= from <=> i < j
    <3>1. CASE i \in DOMAIN committed
      BY <1>2, <2>1, <3>1
    <3>2. CASE i \notin DOMAIN committed
      <4>1. ~(i < j)
        BY <1>1, <3>2
      <4>2. ~(committed'[i].order <= from)
        BY <1>1, <1>3, <1>4, <3>2
      <4> QED BY <4>1, <4>2
    <3> QED BY <3>1, <3>2
  <2> QED BY <1>2, <2>1, <2>2 DEF Brings
<1> QED BY <1>5, <1>6 DEF Brings

\* The next position in one partition stays the next one.
LEMMA NextStays ==
  ASSUME NEW a \in Seq(Records), NEW b \in Seq(Records), Len(a) <= Len(b), \A n \in 1 .. Len(a) : b[n] = a[n],
         1 \in Streams, NEW p \in Stored, NEW q \in Stored, IsNext(a, p, q)
  PROVE  IsNext(b, p, q)
<1>1. p.at[1] \in Nat /\ q.at[1] \in Nat /\ Len(a) \in Nat /\ Len(b) \in Nat
  BY DEF Stored
<1>2. p.at[1] < q.at[1] /\ q.at[1] <= Len(a)
  BY DEF IsNext
<1>3. \A n \in p.at[1] + 1 .. q.at[1] : n \in 1 .. Len(a)
  BY <1>1, <1>2
<1>4. q.at[1] \in p.at[1] + 1 .. q.at[1]
  BY <1>1, <1>2
<1>5. q.at[1] < Len(a) => q.at[1] + 1 \in 1 .. Len(a) /\ q.at[1] < Len(b)
  BY <1>1
<1>6. q.at[1] <= Len(b)
  BY <1>1, <1>2
<1> QED BY <1>2, <1>3, <1>4, <1>5, <1>6 DEF IsNext

\* Only one position comes next.
LEMMA NextUnique ==
  ASSUME NEW a \in Seq(Records), 1 \in Streams,
         NEW p \in Stored, NEW q \in Stored, NEW r \in Stored, IsNext(a, p, q), IsNext(a, p, r)
  PROVE  q = r
<1>1. /\ p.at[1] \in Nat /\ q.at[1] \in Nat /\ r.at[1] \in Nat
      /\ p.at[1] < q.at[1] /\ p.at[1] < r.at[1]
  BY DEF Stored, IsNext
<1>2. p.at[1] + 1 \in p.at[1] + 1 .. q.at[1] /\ p.at[1] + 1 \in p.at[1] + 1 .. r.at[1]
  BY <1>1
<1>3. q.order = r.order
  BY <1>2 DEF IsNext
<1>4. q.at[1] = r.at[1]
  <2>1. CASE a[p.at[1] + 1].kind = "resolved"
    <3>1. ~(a[p.at[1] + 1].kind = "row")
      BY <2>1
    <3>2. q.at[1] = p.at[1] + 1
      BY <1>2, <3>1 DEF IsNext
    <3>3. r.at[1] = p.at[1] + 1
      BY <1>2, <3>1 DEF IsNext
    <3> QED BY <3>2, <3>3
  <2>2. CASE a[p.at[1] + 1].kind # "resolved"
    <3>1. q.at[1] < Len(a) /\ a[q.at[1] + 1].order # q.order
      BY <2>2 DEF IsNext
    <3>2. r.at[1] < Len(a) /\ a[r.at[1] + 1].order # r.order
      BY <2>2 DEF IsNext
    <3>3. ~(q.at[1] < r.at[1])
      <4> SUFFICES ASSUME q.at[1] < r.at[1] PROVE FALSE
        OBVIOUS
      <4>1. q.at[1] + 1 \in p.at[1] + 1 .. r.at[1]
        BY <1>1
      <4> QED BY <1>3, <3>1, <4>1 DEF IsNext
    <3>4. ~(r.at[1] < q.at[1])
      <4> SUFFICES ASSUME r.at[1] < q.at[1] PROVE FALSE
        OBVIOUS
      <4>1. r.at[1] + 1 \in p.at[1] + 1 .. q.at[1]
        BY <1>1
      <4> QED BY <1>3, <3>2, <4>1 DEF IsNext
    <3> QED BY <1>1, <3>3, <3>4
  <2> QED BY <2>1, <2>2
<1>5. \A s \in Streams : q.at[s] = r.at[s]
  BY <1>4 DEF IsNext
<1>6. q.at = r.at
  BY <1>5 DEF Stored
<1> QED BY <1>3, <1>6 DEF Stored

\* The fields of the reader.
LEMMA ReaderIs ==
  ASSUME ReaderTypes
  PROVE  /\ reader \in Readers /\ durable \in Stored /\ accepted \in Seq(Txs)
         /\ reader.up \in BOOLEAN /\ reader.cursor \in [Streams -> Nat] /\ reader.acked \in Stored
         /\ reader.hasDurableAck \in BOOLEAN /\ reader.queue \in [Streams -> SUBSET Items]
         /\ reader.seen \in [Streams -> Nat] /\ reader.phase \in {"seed", "idle", "fence"}
         /\ reader.candidate \in Nat /\ reader.batch \in Seq([resolved : Nat, rows : SUBSET Parts])
         /\ reader.descriptors \in [Streams -> Nat] /\ reader.ready \in SUBSET Merged
         /\ reader.base \in Stored /\ reader.flight \in Flights
         /\ reader.flight.stage \in {"none", "read", "applied"} /\ reader.flight.txs \in Seq(Txs)
         /\ reader.flight.pos \in Stored /\ reader.flight.acks \in SUBSET Streams
BY DEF ReaderTypes, Readers, Flights

\* The parts of a position are numbers.
LEMMA StoredIs ==
  \A p \in Stored : /\ p.order \in Nat /\ p.at \in [Streams -> Nat] /\ p = Position(p.order, p.at)
                    /\ \A s \in Streams : p.at[s] \in Nat
BY DEF Stored, Position

\* A batch, too.
LEMMA BatchIs ==
  ASSUME ReaderTypes
  PROVE  /\ Len(reader.batch) \in Nat /\ DOMAIN reader.batch = 1 .. Len(reader.batch)
         /\ \A k \in 1 .. Len(reader.batch) :
              reader.batch[k].resolved \in Nat /\ reader.batch[k].rows \in SUBSET Parts
<1> DEFINE Batches == [resolved : Nat, rows : SUBSET Parts]
<1>1. reader.batch \in Seq(Batches)
  BY ReaderIs
<1>2. \A k \in 1 .. Len(reader.batch) : reader.batch[k] \in Batches
  <2> HIDE DEF Batches
  <2> QED BY <1>1, ElementOfSeq
<1>3. \A x \in Batches : x.resolved \in Nat /\ x.rows \in SUBSET Parts
  OBVIOUS
<1>4. Len(reader.batch) \in Nat /\ DOMAIN reader.batch = 1 .. Len(reader.batch)
  BY <1>1
<1> QED BY <1>2, <1>3, <1>4

\* The groups of a merged batch are made of fragments.
LEMMA MergedIs ==
  ASSUME ReaderTypes
  PROVE  \A g \in reader.ready :
           /\ g \in Merged /\ g.order \in Nat /\ g.rows \in SUBSET Parts
           /\ \A f \in g.rows : /\ f \in Parts /\ f.offset \in Nat /\ f.order \in Nat /\ f.part \in Nat
                                /\ f.stream \in Streams
BY ReaderIs DEF Merged, Parts

-----------------------------------------------------------------------------
\* What was read of a partition stays read while the partition grows.
LEMMA ReadsStays ==
  ASSUME NEW a \in Seq(Records), NEW b \in Seq(Records), Len(a) <= Len(b), \A n \in 1 .. Len(a) : b[n] = a[n],
         NEW at \in Nat, NEW order \in Nat, NEW cursor \in Nat, NEW queue \in SUBSET Items, NEW seen,
         Reads(a, at, order, cursor, queue, seen)
  PROVE  Reads(b, at, order, cursor, queue, seen)
<1>1. Len(a) \in Nat /\ Len(b) \in Nat
  OBVIOUS
<1>2. at <= cursor /\ cursor <= Len(a) /\ cursor <= Len(b)
  BY <1>1 DEF Reads
<1>3. \A n \in at + 1 .. cursor : n \in 1 .. Len(a)
  BY <1>1, <1>2
<1>4. \A n \in 1 .. cursor : n \in 1 .. Len(a)
  BY <1>1, <1>2
<1>5. ASSUME NEW n \in at + 1 .. cursor, b[n].kind = "row", b[n].order > order PROVE Item(b[n], n) \in queue
  BY <1>3, <1>5 DEF Reads
<1>6. ASSUME NEW x \in queue
      PROVE  at < x.offset /\ x.offset <= cursor /\ b[x.offset] = Row(x.order, x.part)
  <2>1. x.offset \in Nat
    BY DEF Items
  <2>2. at < x.offset /\ x.offset <= cursor /\ a[x.offset] = Row(x.order, x.part)
    BY DEF Reads
  <2>3. x.offset \in at + 1 .. cursor
    BY <2>1, <2>2
  <2> QED BY <1>3, <2>2, <2>3
<1>7. seen = 0 \/ \E n \in 1 .. cursor : b[n].kind = "resolved" /\ b[n].order = seen
  BY <1>4 DEF Reads
<1> QED BY <1>2, <1>5, <1>6, <1>7 DEF Reads

\* So does the group of a single partition.
LEMMA GathersStays ==
  ASSUME NEW a \in Seq(Records), NEW b \in Seq(Records), Len(a) <= Len(b), \A n \in 1 .. Len(a) : b[n] = a[n],
         NEW at \in Nat, NEW cursor \in Nat, NEW queue, Gathers(a, at, cursor, queue)
  PROVE  Gathers(b, at, cursor, queue)
<1>1. Len(a) \in Nat /\ Len(b) \in Nat
  OBVIOUS
<1>2. at <= cursor /\ cursor <= Len(a) /\ cursor <= Len(b)
  BY <1>1 DEF Gathers
<1>3. \A n \in at + 1 .. cursor : n \in 1 .. Len(a) /\ b[n] = a[n]
  BY <1>1, <1>2
<1>4. {Item(b[n], n) : n \in at + 1 .. cursor} = {Item(a[n], n) : n \in at + 1 .. cursor}
  BY <1>3
<1>5. ASSUME NEW n \in at + 1 .. cursor PROVE b[n].kind = "row" /\ b[n].order = b[at + 1].order
  <2>1. at + 1 \in at + 1 .. cursor
    OBVIOUS
  <2> QED BY <1>3, <2>1 DEF Gathers
<1> QED BY <1>2, <1>4, <1>5 DEF Gathers

\* A record that arrives lies behind the mark.
LEMMA FragmentedStays ==
  ASSUME NEW a \in Seq(Records), NEW b \in Seq(Records), Len(a) <= Len(b), \A n \in 1 .. Len(a) : b[n] = a[n],
         NEW s, NEW waiting, NEW later, NEW from \in Nat, NEW rows, NEW mark \in Nat,
         \A n \in Len(a) + 1 .. Len(b) : b[n] \in waiting,
         \A r \in later : r \in waiting \/ mark < r.order,
         Fragmented(s, a, waiting, from, rows, mark)
  PROVE  Fragmented(s, b, later, from, rows, mark)
<1>1. Len(a) \in Nat /\ Len(b) \in Nat
  OBVIOUS
<1>2. PICK last \in 0 .. Len(a) :
        /\ rows = {Piece(s, a, n) : n \in from + 1 .. last}
        /\ \A n \in last + 1 .. Len(a) : mark < a[n].order
        /\ \A r \in waiting : mark < r.order
  BY DEF Fragmented
<1>3. last \in 0 .. Len(b)
  BY <1>1
<1>4. \A n \in from + 1 .. last : n \in 1 .. Len(a)
  BY <1>1
<1>5. {Piece(s, b, n) : n \in from + 1 .. last} = {Piece(s, a, n) : n \in from + 1 .. last}
  BY <1>4 DEF Piece
<1>6. ASSUME NEW n \in last + 1 .. Len(b) PROVE mark < b[n].order
  <2>1. CASE n <= Len(a)
    <3>1. n \in 1 .. Len(a) /\ n \in last + 1 .. Len(a)
      BY <1>1, <2>1
    <3> QED BY <1>2, <3>1
  <2>2. CASE ~(n <= Len(a))
    <3>1. n \in Len(a) + 1 .. Len(b)
      BY <1>1, <2>2
    <3> QED BY <1>2, <3>1
  <2> QED BY <2>1, <2>2
<1>7. \A r \in later : mark < r.order
  BY <1>2
<1> QED BY <1>2, <1>3, <1>5, <1>6, <1>7 DEF Fragmented

\* A group stays whole: what arrives or is committed later is behind it.
LEMMA HoldsStays ==
  ASSUME NEW a \in Seq(Records), NEW b \in Seq(Records), Len(a) <= Len(b), \A n \in 1 .. Len(a) : b[n] = a[n],
         NEW s, NEW waiting, NEW later, NEW from \in Nat, NEW ready, NEW g \in Merged,
         \A n \in Len(a) + 1 .. Len(b) : b[n] \in waiting,
         \A r \in later : r \in waiting \/ g.order < r.order,
         \A r \in waiting : r.order \in Nat,
         Holds(s, a, waiting, from, ready, g)
  PROVE  Holds(s, b, later, from, ready, g)
<1>1. Len(a) \in Nat /\ Len(b) \in Nat /\ g.order \in Nat
  BY DEF Merged
<1>2. ASSUME NEW f \in g.rows, f.stream = s
      PROVE  from < f.offset /\ f.offset <= Len(b) /\ f = Piece(s, b, f.offset) /\ f.order = g.order
  <2>1. from < f.offset /\ f.offset <= Len(a) /\ f = Piece(s, a, f.offset) /\ f.order = g.order
    BY <1>2 DEF Holds
  <2>2. f.offset \in Nat
    BY DEF Merged, Parts
  <2>3. f.offset \in 1 .. Len(a) /\ f.offset <= Len(b)
    BY <1>1, <2>1, <2>2
  <2> QED BY <2>1, <2>3 DEF Piece
<1>3. \A r \in waiting : g.order < r.order
  BY DEF Holds
<1>4. ASSUME NEW n \in from + 1 .. Len(b), b[n].order <= g.order
      PROVE  \E h \in ready : Piece(s, b, n) \in h.rows
  <2>1. n \in from + 1 .. Len(a) /\ n \in 1 .. Len(a)
    <3>1. ~(n \in Len(a) + 1 .. Len(b))
      <4> SUFFICES ASSUME n \in Len(a) + 1 .. Len(b) PROVE FALSE
        OBVIOUS
      <4>1. b[n] \in waiting
        OBVIOUS
      <4>2. g.order < b[n].order /\ b[n].order \in Nat
        BY <1>3, <4>1
      <4> QED BY <1>1, <1>4, <4>2
    <3> QED BY <1>1, <3>1
  <2>2. b[n] = a[n]
    BY <2>1
  <2>3. \E h \in ready : Piece(s, a, n) \in h.rows
    BY <1>4, <2>1, <2>2 DEF Holds
  <2> QED BY <2>2, <2>3 DEF Piece
<1>5. \A r \in later : g.order < r.order
  BY <1>3
<1> QED BY <1>2, <1>4, <1>5 DEF Holds

\* A stream that is followed is one of the numbers up to source.streams.
LEMMA KeepSlot ==
  ASSUME SourceStep \/ \E s \in Streams : ResolveAgain(s)
  PROVE  slot' = slot
<1>1. ASSUME NEW s \in Streams, Shows(s) \/ ResolveAgain(s) PROVE slot' = slot
  BY <1>1 DEF Shows, Emit, ResolveInStream, ResolveAlone, ResolveAgain
<1>2. ASSUME Commit \/ ResolveTogether \/ Resend PROVE slot' = slot
  BY <1>2 DEF Commit, ResolveTogether, Resend
<1> QED BY <1>1, <1>2 DEF SourceStep

\* A step of the source keeps the invariant.
LEMMA SourceKeeps ==
  ASSUME SourceInv, ReaderInv, UNCHANGED <<source, readerVars>>,
         SourceStep \/ \E s \in Streams : ResolveAgain(s)
  PROVE  SourceInv' /\ ReaderInv'
<1>s. /\ SourceInv' /\ Grows /\ Arrivals /\ slot' = slot /\ source' = source
      /\ reader' = reader /\ durable' = durable /\ accepted' = accepted
  BY SourceMoves, KeepSlot DEF readerVars
<1>t. SourceTypes /\ Numbered /\ SourceTypes' /\ Numbered' /\ ReaderTypes
  BY <1>s DEF SourceInv, ReaderInv
<1>g. Good \subseteq Good' /\ Active' = Active /\ NextOrder <= NextOrder'
  BY <1>s, GoodStays
<1>d. /\ Multi' = Multi /\ Merging' = Merging /\ Single' = Single /\ Active \subseteq Streams
      /\ Answered(source') = Answered(source) /\ Nothing' = Nothing /\ Active = 1 .. source.streams
      /\ Merging => ~Multi
  BY <1>s, <1>t, ActiveStreams, Kinds
     DEF Multi, Merging, Single, Nothing, Request, Origin, Position, Active
<1>r. /\ reader.acked \in Stored /\ durable \in Stored /\ reader.flight.pos \in Stored
      /\ reader.cursor \in [Streams -> Nat] /\ reader.queue \in [Streams -> SUBSET Items]
      /\ slot \in [Streams -> Nat]
  BY <1>t, ReaderIs DEF SourceTypes
<1>p. \A p \in Good : p.order < NextOrder /\ p.order \in Nat /\ \A s \in Active : p.at[s] <= Len(log[s])
  BY StoredIs DEF Good, Right
<1>l. \A s \in Active : /\ log[s] \in Seq(Records) /\ log'[s] \in Seq(Records)
                        /\ Len(log[s]) \in Nat /\ Len(log[s]) <= Len(log'[s]) /\ Len(log'[s]) \in Nat
                        /\ \A n \in 1 .. Len(log[s]) : log'[s][n] = log[s][n]
                        /\ resolved[s] \in Nat /\ resolved'[s] \in Nat /\ resolved[s] <= resolved'[s]
                        /\ \A x \in pending[s] : x.order \in Nat
  <2>1. \A s \in Active : Len(log[s]) <= Len(log'[s]) /\ \A n \in 1 .. Len(log[s]) : log'[s][n] = log[s][n]
    BY <1>s, <1>d DEF Grows
  <2>2. \A s \in Active : log'[s] \in Seq(Records) /\ resolved'[s] \in Nat
    BY <1>t, <1>d DEF SourceTypes
  <2>3. \A s \in Active : resolved[s] <= resolved'[s]
    BY <1>s DEF Grows
  <2>4. \A s \in Active : Len(log'[s]) \in Nat
    BY <2>2
  <2> QED BY <1>t, <1>d, <2>1, <2>2, <2>3, <2>4, LogIs
<1>n. NextOrder \in Nat /\ NextOrder' \in Nat /\ Len(committed) \in Nat /\ Len(committed') \in Nat
  <2>1. Len(committed') \in Nat
    BY <1>t DEF SourceTypes
  <2> QED BY <1>t, <2>1, CommitIs DEF NextOrder
<1>1. ReaderTypes'
  BY <1>s, <1>t DEF ReaderTypes
<1>2. Positioned'
  <2>1. /\ durable \in Good /\ durable \in Taken /\ reader.acked \in Good /\ reader.acked \in Taken
        /\ reader.base \in Good
    BY DEF ReaderInv, Positioned
  <2>2. durable \in Taken' /\ reader.acked \in Taken'
    BY <1>s, <1>p, <2>1, TakenStays
  <2> QED BY <1>s, <1>g, <2>1, <2>2 DEF Positioned
<1>3. InFlight'
  <2>1. InFlight
    BY DEF ReaderInv
  <2>2. ASSUME Flying, reader.up PROVE Carries'
    <3>1. Carries /\ reader.flight.pos \in Good /\ reader.acked \in Good
      BY <2>1, <2>2 DEF InFlight, ReaderInv, Positioned
    <3>2. CASE Brings(committed, reader.flight.txs, reader.acked.order, reader.flight.pos.order)
      BY <1>s, <1>p, <3>1, <3>2, BringsStays DEF Carries
    <3>3. CASE /\ Merging /\ Len(reader.flight.txs) = 1
               /\ reader.flight.pos = reader.acked /\ durable = reader.acked
      BY <1>s, <1>d, <3>3 DEF Carries
    <3> QED BY <3>1, <3>2, <3>3 DEF Carries
  <2> QED BY <1>s, <1>g, <1>d, <2>1, <2>2 DEF InFlight, Flying
<1>4. Link'
  <2>1. Link
    BY DEF ReaderInv
  <2>2. Single => 1 \in Active /\ 1 \in Streams
    BY <1>t, <1>d, ActiveStreams
  <2>3. Single /\ IsNext(log[1], reader.acked, durable) => IsNext(log'[1], reader.acked, durable)
    BY <1>r, <1>l, <2>2, NextStays
  <2> QED BY <1>s, <1>d, <2>1, <2>3 DEF Link
<1>h. Here' = Here /\ Here \in Stored
  BY <1>s, <1>r DEF Here, Flying
<1>5. MultiInv'
  <2>1. MultiInv
    BY DEF ReaderInv
  <2>2. ASSUME Multi, reader.up, NEW s \in Active
        PROVE  Reads(log'[s], Here.at[s], Here.order, reader.cursor[s], reader.queue[s], reader.seen[s])
    <3>1. Reads(log[s], Here.at[s], Here.order, reader.cursor[s], reader.queue[s], reader.seen[s])
      BY <2>1, <2>2 DEF MultiInv
    <3>2. /\ Here.at[s] \in Nat /\ Here.order \in Nat /\ reader.cursor[s] \in Nat
          /\ reader.queue[s] \in SUBSET Items
      BY <1>r, <1>h, <1>d, StoredIs
    <3> QED BY <1>l, <3>1, <3>2, ReadsStays
  <2> QED BY <1>s, <1>d, <1>g, <1>h, <2>1, <2>2 DEF MultiInv, Flying
<1>6. SingleInv'
  <2>1. SingleInv
    BY DEF ReaderInv
  <2>2. ASSUME Single, reader.up
        PROVE  /\ Gathers(log'[1], Here.at[1], reader.cursor[1], reader.queue[1])
               /\ Flying => IsNext(log'[1], reader.acked, reader.flight.pos)
    <3>1. 1 \in Active /\ 1 \in Streams
      BY <1>t, <1>d, ActiveStreams
    <3>2. /\ Here.at[1] \in Nat /\ reader.cursor[1] \in Nat
      BY <1>r, <1>h, <3>1, StoredIs
    <3>3. Gathers(log'[1], Here.at[1], reader.cursor[1], reader.queue[1])
      BY <1>l, <2>1, <2>2, <3>1, <3>2, GathersStays DEF SingleInv
    <3>4. Flying => IsNext(log'[1], reader.acked, reader.flight.pos)
      BY <1>l, <1>r, <2>1, <2>2, <3>1, NextStays DEF SingleInv
    <3> QED BY <3>3, <3>4
  <2> QED BY <1>s, <1>d, <1>h, <2>1, <2>2 DEF SingleInv, Flying
<1>7. Slots'
  <2>1. ASSUME source.dialect = "gaussdb", NEW s \in Active
        PROVE  /\ slot[s] <= durable.at[s]
               /\ \A n \in slot[s] + 1 .. durable.at[s] : log'[s][n].order = durable.order
    <3>1. /\ slot[s] <= durable.at[s]
          /\ \A n \in slot[s] + 1 .. durable.at[s] : log[s][n].order = durable.order
      BY <2>1 DEF ReaderInv, Slots
    <3>2. durable.at[s] <= Len(log[s]) /\ durable.at[s] \in Nat /\ slot[s] \in Nat
      BY <1>p, <1>d, <1>r, StoredIs DEF ReaderInv, Positioned
    <3>3. \A n \in slot[s] + 1 .. durable.at[s] : n \in 1 .. Len(log[s])
      BY <1>l, <3>1, <3>2
    <3> QED BY <1>l, <3>1, <3>3
  <2> QED BY <1>s, <1>g, <2>1 DEF Slots
<1>m. Merging => \A s \in Active :
        /\ \A n \in Len(log[s]) + 1 .. Len(log'[s]) : log'[s][n] \in pending[s]
        /\ \A r \in pending'[s] : r \in pending[s] \/ r.order = NextOrder
  <2> SUFFICES ASSUME Merging, NEW s \in Active
               PROVE  /\ \A n \in Len(log[s]) + 1 .. Len(log'[s]) : log'[s][n] \in pending[s]
                      /\ \A r \in pending'[s] : r \in pending[s] \/ r.order = NextOrder
    OBVIOUS
  <2>1. \A n \in 1 .. Len(log'[s]) : log'[s][n].kind = "row"
    BY <1>s, <1>d, <1>g DEF SourceInv, OnlyRows
  <2>2. \A n \in Len(log[s]) + 1 .. Len(log'[s]) : n \in 1 .. Len(log'[s])
    BY <1>l
  <2>3. \A n \in Len(log[s]) + 1 .. Len(log'[s]) : log'[s][n].kind # "resolved"
    BY <2>1, <2>2
  <2> QED BY <1>s, <1>d, <2>3 DEF Arrivals
<1>8. Batched'
  <2> SUFFICES ASSUME Merging, reader.up, reader.batch # <<>>
               PROVE  Batched'
    BY <1>s, <1>d DEF Batched
  <2>1. /\ ~Flying /\ reader.ready = {} /\ Len(reader.batch) <= source.streams
        /\ \A k \in 1 .. Len(reader.batch) :
             /\ Fragmented(k, log[k], pending[k], ReadFrom(reader.acked)[k],
                           reader.batch[k].rows, reader.batch[k].resolved)
             /\ reader.batch[k].resolved < NextOrder
             /\ source.clusterwide => /\ reader.batch[1].resolved <= reader.batch[k].resolved
                                      /\ \A s \in Active : reader.batch[1].resolved <= resolved[s]
    BY DEF ReaderInv, Batched
  <2>2. ReadFrom(reader.acked) \in [Streams -> Nat]
    BY <1>r, StoredIs DEF ReadFrom
  <2>3. /\ Len(reader.batch) \in Nat /\ \A k \in 1 .. Len(reader.batch) : reader.batch[k].resolved \in Nat
    BY <1>t, BatchIs
  <2>4. source.streams \in Nat
    BY <1>t, ActiveStreams
  <2>5. \A k \in 1 .. Len(reader.batch) : k \in Active
    BY <1>d, <2>1, <2>3, <2>4
  <2>6. ASSUME NEW k \in 1 .. Len(reader.batch)
        PROVE  /\ Fragmented(k, log'[k], pending'[k], ReadFrom(reader.acked)[k],
                             reader.batch[k].rows, reader.batch[k].resolved)
               /\ reader.batch[k].resolved < NextOrder'
               /\ source.clusterwide => /\ reader.batch[1].resolved <= reader.batch[k].resolved
                                        /\ \A s \in Active : reader.batch[1].resolved <= resolved'[s]
    <3>1. k \in Active /\ k \in Streams /\ reader.batch[k].resolved \in Nat /\ ReadFrom(reader.acked)[k] \in Nat
      BY <1>d, <2>2, <2>3, <2>5
    <3>2. /\ \A n \in Len(log[k]) + 1 .. Len(log'[k]) : log'[k][n] \in pending[k]
          /\ \A r \in pending'[k] : r \in pending[k] \/ reader.batch[k].resolved < r.order
      BY <1>m, <2>1, <3>1
    <3>3. Fragmented(k, log[k], pending[k], ReadFrom(reader.acked)[k],
                     reader.batch[k].rows, reader.batch[k].resolved)
      BY <2>1
    <3>4. Fragmented(k, log'[k], pending'[k], ReadFrom(reader.acked)[k],
                     reader.batch[k].rows, reader.batch[k].resolved)
      BY <1>l, <3>1, <3>2, <3>3, FragmentedStays
    <3>5. reader.batch[k].resolved < NextOrder'
      BY <1>n, <1>g, <2>1, <3>1
    <3>6. 1 \in 1 .. Len(reader.batch) /\ reader.batch[1].resolved \in Nat
      BY <2>3
    <3>7. source.clusterwide => \A s \in Active : reader.batch[1].resolved <= resolved'[s]
      <4> SUFFICES ASSUME source.clusterwide, NEW s \in Active
                   PROVE reader.batch[1].resolved <= resolved'[s]
        OBVIOUS
      <4>1. reader.batch[1].resolved <= resolved[s]
        BY <2>1
      <4>2. resolved[s] \in Nat /\ resolved'[s] \in Nat /\ resolved[s] <= resolved'[s]
        BY <1>l
      <4> QED BY <3>6, <4>1, <4>2
    <3> QED BY <2>1, <3>4, <3>5, <3>7
  <2> QED BY <1>s, <1>g, <2>1, <2>6 DEF Batched, Flying, ReadFrom
<1>9. Readied'
  <2> SUFFICES ASSUME Merging, reader.up
               PROVE  Readied'
    BY <1>s, <1>d DEF Readied
  <2>1. \A s \in Active : Floor(s) \in Nat
    BY <1>r, <1>d, StoredIs DEF Floor, ReadFrom
  <2>2. ASSUME NEW g \in reader.ready
        PROVE  /\ g.rows # {} /\ g.order < NextOrder' /\ \A f \in g.rows : f.stream \in Active
               /\ \A s \in Active : Holds(s, log'[s], pending'[s], Floor(s), reader.ready, g)
               /\ \A h \in reader.ready : g.order = h.order => g = h
               /\ Flying => reader.flight.pos.order < g.order
    <3>1. /\ g.rows # {} /\ g.order < NextOrder /\ \A f \in g.rows : f.stream \in Active
          /\ \A s \in Active : Holds(s, log[s], pending[s], Floor(s), reader.ready, g)
          /\ \A h \in reader.ready : g.order = h.order => g = h
          /\ Flying => reader.flight.pos.order < g.order
      BY DEF ReaderInv, Readied
    <3>2. g \in Merged /\ g.order \in Nat
      BY <1>t, MergedIs
    <3>3. g.order < NextOrder'
      BY <1>g, <1>n, <3>1, <3>2
    <3>4. ASSUME NEW s \in Active PROVE Holds(s, log'[s], pending'[s], Floor(s), reader.ready, g)
      <4>1. /\ \A n \in Len(log[s]) + 1 .. Len(log'[s]) : log'[s][n] \in pending[s]
            /\ \A r \in pending'[s] : r \in pending[s] \/ g.order < r.order
        BY <1>m, <3>1
      <4>2. /\ log[s] \in Seq(Records) /\ log'[s] \in Seq(Records) /\ Len(log[s]) <= Len(log'[s])
            /\ \A n \in 1 .. Len(log[s]) : log'[s][n] = log[s][n]
            /\ \A r \in pending[s] : r.order \in Nat
        BY <1>l
      <4>3. Floor(s) \in Nat /\ Holds(s, log[s], pending[s], Floor(s), reader.ready, g)
        BY <2>1, <3>1
      <4> QED BY <3>2, <4>1, <4>2, <4>3, HoldsStays
    <3> QED BY <3>1, <3>3, <3>4
  <2> QED BY <1>s, <1>g, <2>2 DEF Readied, Flying, Floor, ReadFrom, FlightStreams
<1>10. Handed'
  <2> SUFFICES ASSUME Merging, reader.up, Flying PROVE Handed'
    BY <1>s, <1>d DEF Handed, Flying
  <2>1. Handed /\ reader.flight.pos \in Good
    BY DEF ReaderInv, InFlight
  <2>2. ASSUME NEW s \in Active
        PROVE  \A n \in ReadFrom(reader.acked)[s] + 1 .. reader.flight.pos.at[s] :
                 log'[s][n].order = reader.flight.pos.order
    <3>1. ReadFrom(reader.acked)[s] \in Nat /\ reader.flight.pos.at[s] \in Nat
      BY <1>r, <1>d, StoredIs DEF ReadFrom
    <3>2. reader.flight.pos.at[s] <= Len(log[s])
      BY <1>p, <2>1
    <3>3. \A n \in ReadFrom(reader.acked)[s] + 1 .. reader.flight.pos.at[s] : n \in 1 .. Len(log[s])
      BY <1>l, <3>1, <3>2
    <3> QED BY <1>l, <2>1, <3>3 DEF Handed
  <2> QED BY <1>s, <1>g, <2>1, <2>2 DEF Handed, Flying, ReadFrom, FlightStreams
<1>11. Exact'
  <2> SUFFICES ASSUME Answered(source)
               PROVE  /\ Len(accepted) <= Len(committed')
                      /\ \A i \in 1 .. Len(accepted) : accepted[i] = committed'[i]
                      /\ \A i \in 1 .. Len(committed') : i <= Len(accepted) <=> committed'[i].order <= durable.order
    BY <1>s, <1>d DEF Exact
  <2>1. /\ Len(accepted) <= Len(committed) /\ \A i \in 1 .. Len(accepted) : accepted[i] = committed[i]
        /\ \A i \in 1 .. Len(committed) : i <= Len(accepted) <=> committed[i].order <= durable.order
    BY DEF ReaderInv, Exact
  <2>2. Len(accepted) \in Nat
    BY <1>t DEF ReaderTypes
  <2>3. /\ Len(committed) <= Len(committed') /\ \A i \in 1 .. Len(committed) : committed'[i] = committed[i]
    BY <1>s DEF Grows
  <2>4. ASSUME NEW i \in 1 .. Len(committed') PROVE i <= Len(accepted) <=> committed'[i].order <= durable.order
    <3>1. CASE i <= Len(committed)
      BY <1>n, <2>1, <2>3, <3>1
    <3>2. CASE ~(i <= Len(committed))
      <4>1. i \in DOMAIN committed' /\ committed'[i].order = 2 * i
        BY <1>t DEF SourceTypes, Numbered
      <4>2. NextOrder = 2 * (Len(committed) + 1)
        BY DEF NextOrder
      <4>3. durable.order < NextOrder /\ durable.order \in Nat
        BY <1>p DEF ReaderInv, Positioned
      <4> QED BY <1>n, <2>1, <2>2, <3>2, <4>1, <4>2, <4>3
    <3> QED BY <3>1, <3>2
  <2> QED BY <1>n, <2>1, <2>2, <2>3, <2>4
<1> QED BY <1>s, <1>1, <1>2, <1>3, <1>4, <1>5, <1>6, <1>7, <1>8, <1>9, <1>10, <1>11 DEF ReaderInv

-----------------------------------------------------------------------------
(* Steps of the readers leave the source as it is. *)
LEMMA SourceSame ==
  ASSUME SourceInv, UNCHANGED <<source, Unshown>>, slot' \in [Streams -> Nat]
  PROVE  /\ SourceInv' /\ Good' = Good /\ Active' = Active /\ NextOrder' = NextOrder
         /\ Multi' = Multi /\ Merging' = Merging /\ Single' = Single
         /\ Answered(source') = Answered(source) /\ Nothing' = Nothing /\ Origin' = Origin
         /\ source' = source /\ log' = log /\ pending' = pending /\ resolved' = resolved
         /\ committed' = committed
<1>1. /\ source' = source /\ log' = log /\ pending' = pending /\ resolved' = resolved
      /\ committed' = committed /\ resends' = resends
  BY DEF Unshown
<1>2. /\ Active' = Active /\ NextOrder' = NextOrder /\ Origin' = Origin
      /\ Multi' = Multi /\ Merging' = Merging /\ Single' = Single /\ Nothing' = Nothing
  BY <1>1 DEF Active, NextOrder, Multi, Merging, Single, Origin, Position, Nothing, Request
<1>3. SourceTypes' /\ Numbered' /\ Shaped' /\ Real' /\ Complete'
  BY <1>1, <1>2 DEF SourceInv, SourceTypes, Numbered, Shaped, Real, Complete
<1>4. Promised' /\ Marks' /\ Firsts' /\ Ascending' /\ OnlyRows'
  BY <1>1, <1>2 DEF SourceInv, Promised, Marks, Firsts, Ascending, OnlyRows
<1>5. Good' = Good
  BY <1>1, <1>2 DEF Good, Right, Above
<1> QED BY <1>1, <1>2, <1>3, <1>4, <1>5 DEF SourceInv

\* The server only takes in more.
LEMMA TakenGrows ==
  ASSUME ReaderTypes, committed' = committed, NEW txs \in Seq(Txs),
         accepted' = accepted \/ accepted' = accepted \o txs
  PROVE  Taken \subseteq Taken' /\ TakenIn \subseteq TakenIn'
<1>1. accepted \in Seq(Txs)
  BY DEF ReaderTypes
<1>2. ASSUME NEW i \in DOMAIN accepted PROVE i \in DOMAIN accepted' /\ accepted'[i] = accepted[i]
  <2>1. CASE accepted' = accepted
    BY <2>1
  <2>2. CASE accepted' = accepted \o txs
    BY <1>1, <2>2
  <2> QED BY <2>1, <2>2
<1>3. TakenIn \subseteq TakenIn'
  BY <1>2 DEF TakenIn
<1> QED BY <1>3 DEF Taken

\* What a position that is good says.
LEMMA GoodIs ==
  ASSUME SourceTypes, NEW p \in Good
  PROVE  /\ p \in Stored /\ p.order \in Nat /\ p.order >= 1 /\ p.order < NextOrder
         /\ \A s \in Streams : p.at[s] \in Nat
         /\ \A s \in Active : /\ p.at[s] \in Nat /\ p.at[s] <= Len(log[s])
                              /\ \A n \in 1 .. p.at[s] : log[s][n].kind = "row" => log[s][n].order <= p.order
                              /\ source.started => p.at[s] >= 1
         /\ \A s \in Streams \ Active : p.at[s] = 0
         /\ Merging \/ p.order = 1 \/ \E s \in Active : p.at[s] > 0
         /\ ~Multi => \A s \in Active :
              /\ \A n \in p.at[s] + 1 .. Len(log[s]) : p.order < log[s][n].order
              /\ \A r \in pending[s] : p.order < r.order
              /\ Odd(p.order) => p.order <= resolved[s]
<1>1. p \in Stored /\ Right(p) /\ (~Multi => Above(p))
  BY DEF Good
<1>2. Active \subseteq Streams
  BY ActiveStreams
<1>3. p.order \in Nat /\ \A s \in Streams : p.at[s] \in Nat
  BY <1>1, StoredIs
<1> QED BY <1>1, <1>2, <1>3 DEF Right, Above

\* A reader without a request has none that carries anything.
LEMMA NothingIs == Nothing.stage = "none" /\ Nothing.acks = {} /\ Nothing \in Flights
<1>1. Origin \in Stored
  BY DEF Origin, Position, Stored
<1>2. Nothing = [stage |-> "none", txs |-> <<>>, pos |-> Origin, acks |-> {}]
  <2>1. ASSUME NEW txs, NEW p, NEW acks
        PROVE  [Request(txs, p, acks) EXCEPT !.stage = "none"]
                 = [stage |-> "none", txs |-> txs, pos |-> p, acks |-> acks]
    BY DEF Request
  <2> QED BY <2>1 DEF Nothing
<1>3. <<>> \in Seq(Txs)
  OBVIOUS
<1> HIDE DEF Origin, Stored
<1>4. {} \in SUBSET Streams /\ "none" \in {"none", "read", "applied"}
  OBVIOUS
<1>5. Nothing \in Flights
  BY <1>1, <1>2, <1>3, <1>4 DEF Flights
<1> QED BY <1>2, <1>5

\* A new reader at a position.
LEMMA StartedStep ==
  ASSUME SourceInv, ReaderInv, UNCHANGED <<source, Unshown>>, slot' = slot,
         NEW pos \in Good, pos \in Taken, reader' = Started(pos), durable' = durable, accepted' = accepted,
         durable = pos \/ (Single /\ IsNext(log[1], pos, durable)) \/ (Multi /\ source.lossy)
  PROVE  SourceInv' /\ ReaderInv'
<1>t. SourceTypes /\ Numbered /\ ReaderTypes /\ slot \in [Streams -> Nat]
  BY DEF SourceInv, ReaderInv, SourceTypes
<1>s. /\ SourceInv' /\ Good' = Good /\ Active' = Active /\ NextOrder' = NextOrder
      /\ Multi' = Multi /\ Merging' = Merging /\ Single' = Single
      /\ Answered(source') = Answered(source) /\ Nothing' = Nothing
      /\ source' = source /\ log' = log /\ pending' = pending /\ resolved' = resolved
      /\ committed' = committed
  BY <1>t, SourceSame
<1>p. /\ pos \in Stored /\ pos.order \in Nat
      /\ \A s \in Streams : pos.at[s] \in Nat
      /\ \A s \in Active : pos.at[s] <= Len(log[s])
      /\ pos.at \in [Streams -> Nat]
  BY <1>t, GoodIs, StoredIs
<1>r. /\ reader'.up = TRUE /\ reader'.cursor = ReadFrom(pos) /\ reader'.acked = pos
      /\ reader'.hasDurableAck = (\E s \in Streams : pos.at[s] > 0)
      /\ reader'.queue = [s \in Streams |-> {}] /\ reader'.seen = [s \in Streams |-> 0]
      /\ reader'.phase = "seed" /\ reader'.candidate = 0 /\ reader'.batch = <<>>
      /\ reader'.descriptors = resolved /\ reader'.ready = {} /\ reader'.base = pos
      /\ reader'.flight = Nothing
  BY DEF Started
<1>n. Nothing.stage = "none" /\ Nothing.acks = {} /\ Nothing \in Flights
  BY NothingIs
<1>1. ReaderTypes'
  <2>1. ReadFrom(pos) \in [Streams -> Nat]
    BY <1>t, <1>p DEF ReadFrom
  <2>2. resolved \in [Streams -> Nat] /\ <<>> \in Seq([resolved : Nat, rows : SUBSET Parts])
    BY <1>t DEF SourceTypes
  <2>3. Started(pos) \in Readers
    <3> HIDE DEF Items, Parts, Merged, Stored, Flights, ReadFrom, Nothing
    <3> QED BY <1>p, <1>n, <2>1, <2>2 DEF Started, Readers
  <2> QED BY <1>t, <2>3 DEF ReaderTypes
<1>f. ~(Flying') /\ Here' = pos
  BY <1>r, <1>n DEF Flying, Here
<1>2. Positioned'
  <2>1. durable \in Good /\ durable \in Taken
    BY DEF ReaderInv, Positioned
  <2>2. Taken' = Taken
    BY <1>s DEF Taken, TakenIn
  <2> QED BY <1>s, <1>r, <2>1, <2>2 DEF Positioned
<1>3. InFlight' /\ Link'
  BY <1>s, <1>r, <1>n, <1>f DEF InFlight, Link
<1>5. MultiInv'
  <2> SUFFICES ASSUME Multi PROVE MultiInv'
    BY <1>s DEF MultiInv
  <2>1. source.dialect # "gaussdb"
    BY DEF Multi
  <2>2. ASSUME NEW s \in Active
        PROVE Reads(log[s], pos.at[s], pos.order, reader'.cursor[s], reader'.queue[s], reader'.seen[s])
    <3>1. /\ s \in Streams /\ reader'.cursor[s] = pos.at[s] /\ reader'.queue[s] = {} /\ reader'.seen[s] = 0
          /\ pos.at[s] \in Nat /\ pos.at[s] <= Len(log[s])
      BY <1>t, <1>r, <1>p, <2>1, ActiveStreams DEF ReadFrom
    <3>2. pos.at[s] <= pos.at[s] /\ pos.at[s] + 1 .. pos.at[s] = {}
      BY <3>1
    <3> QED BY <3>1, <3>2 DEF Reads
  <2>3. reader'.hasDurableAck \/ pos.order = 1
    <3>1. Active \subseteq Streams /\ ~Merging
      BY <1>t, ActiveStreams, Kinds
    <3> QED BY <1>t, <1>r, <3>1, GoodIs
  <2> QED BY <1>s, <1>r, <1>f, <2>2, <2>3 DEF MultiInv
<1>6. SingleInv'
  <2> SUFFICES ASSUME Single PROVE SingleInv'
    BY <1>s DEF SingleInv
  <2>1. source.dialect # "gaussdb"
    BY DEF Single
  <2>2. Gathers(log[1], pos.at[1], reader'.cursor[1], reader'.queue[1])
    <3>1. /\ 1 \in Streams /\ reader'.cursor[1] = pos.at[1] /\ reader'.queue[1] = {}
          /\ pos.at[1] \in Nat /\ pos.at[1] <= Len(log[1])
      BY <1>t, <1>r, <1>p, <2>1, ActiveStreams DEF ReadFrom
    <3>2. pos.at[1] <= pos.at[1] /\ pos.at[1] + 1 .. pos.at[1] = {}
      BY <3>1
    <3> QED BY <3>1, <3>2 DEF Gathers
  <2> QED BY <1>s, <1>r, <1>f, <2>2 DEF SingleInv
<1>7. Slots'
  BY <1>s DEF ReaderInv, Slots
<1>8. Batched' /\ Readied' /\ Handed'
  BY <1>r, <1>f DEF Batched, Readied, Handed
<1>11. Exact'
  BY <1>s DEF ReaderInv, Exact
<1> QED BY <1>s, <1>1, <1>2, <1>3, <1>5, <1>6, <1>7, <1>8, <1>11 DEF ReaderInv

\* A new process starts at the stored position.
LEMMA RestartStep ==
  ASSUME SourceInv, ReaderInv, UNCHANGED <<source, Unshown>>, slot' = slot, Restart
  PROVE  SourceInv' /\ ReaderInv'
<1>1. durable \in Good /\ durable \in Taken
  BY DEF ReaderInv, Positioned
<1> QED BY <1>1, StartedStep DEF Restart

\* A new reader in the same process starts at the acknowledged position.
LEMMA ReconnectStep ==
  ASSUME SourceInv, ReaderInv, UNCHANGED <<source, Unshown>>, slot' = slot, Reconnect
  PROVE  SourceInv' /\ ReaderInv'
<1>1. /\ reader.acked \in Good /\ reader.acked \in Taken /\ SourceTypes
  BY DEF ReaderInv, Positioned, SourceInv
<1>2. reader.up /\ source.dialect = "ticdc" /\ source.lossy
  BY DEF Reconnect
<1>3. durable = reader.acked \/ (Single /\ IsNext(log[1], reader.acked, durable)) \/ (Multi /\ source.lossy)
  <2>1. CASE Multi
    BY <1>2, <2>1
  <2>2. CASE Single
    <3>1. CASE reader.flight.stage = "applied"
      BY <1>2, <2>2, <3>1 DEF ReaderInv, Link, SingleInv, Flying
    <3>2. CASE reader.flight.stage # "applied"
      BY <1>2, <3>2 DEF ReaderInv, Link
    <3> QED BY <3>1, <3>2
  <2> QED BY <1>1, <1>2, <2>1, <2>2, Kinds
<1> QED BY <1>1, <1>3, StartedStep DEF Reconnect

\* The process dies.
LEMMA CrashStep ==
  ASSUME SourceInv, ReaderInv, UNCHANGED <<source, Unshown>>, slot' = slot,
         reader' = [reader EXCEPT !.up = FALSE], durable' = durable, accepted' = accepted
  PROVE  SourceInv' /\ ReaderInv'
<1>t. SourceTypes /\ ReaderTypes /\ slot \in [Streams -> Nat]
  BY DEF SourceInv, ReaderInv, SourceTypes
<1>s. /\ SourceInv' /\ Good' = Good /\ Active' = Active /\ NextOrder' = NextOrder
      /\ Multi' = Multi /\ Merging' = Merging /\ Single' = Single
      /\ Answered(source') = Answered(source) /\ Nothing' = Nothing
      /\ source' = source /\ log' = log /\ pending' = pending /\ resolved' = resolved
      /\ committed' = committed
  BY <1>t, SourceSame
<1>r. /\ reader'.up = FALSE /\ reader'.acked = reader.acked /\ reader'.base = reader.base
      /\ reader'.flight = reader.flight /\ reader'.ready = reader.ready /\ reader'.batch = reader.batch
      /\ reader' \in Readers
  BY <1>t DEF ReaderTypes, Readers
<1>1. ReaderTypes'
  BY <1>t, <1>r DEF ReaderTypes
<1>2. Positioned'
  <2>1. Taken' = Taken
    BY <1>s DEF Taken, TakenIn
  <2> QED BY <1>s, <1>r, <2>1 DEF ReaderInv, Positioned
<1>3. InFlight' /\ Link' /\ MultiInv' /\ SingleInv'
  BY <1>s, <1>r DEF ReaderInv, InFlight, Link, MultiInv, SingleInv, Flying
<1>4. Slots' /\ Exact'
  BY <1>s DEF ReaderInv, Slots, Exact
<1>5. Batched' /\ Readied' /\ Handed'
  BY <1>r DEF Batched, Readied, Handed
<1> QED BY <1>s, <1>1, <1>2, <1>3, <1>4, <1>5 DEF ReaderInv

\* A group that is carried is a transaction that the source has committed.
LEMMA ApplyStep ==
  ASSUME SourceInv, ReaderInv, UNCHANGED <<source, Unshown>>, slot' = slot, Apply
  PROVE  SourceInv' /\ ReaderInv'
<1>t. SourceTypes /\ Numbered /\ ReaderTypes /\ slot \in [Streams -> Nat]
  BY DEF SourceInv, ReaderInv, SourceTypes
<1>s. /\ SourceInv' /\ Good' = Good /\ Active' = Active /\ NextOrder' = NextOrder
      /\ Multi' = Multi /\ Merging' = Merging /\ Single' = Single
      /\ Answered(source') = Answered(source) /\ Nothing' = Nothing
      /\ source' = source /\ log' = log /\ pending' = pending /\ resolved' = resolved
      /\ committed' = committed
  BY <1>t, SourceSame
<1> DEFINE flight == reader.flight
<1>a. /\ reader.up /\ flight.stage = "read"
      /\ reader' = [reader EXCEPT !.flight.stage = "applied"]
      /\ durable' = flight.pos
      /\ accepted' = IF flight.pos = durable THEN accepted ELSE accepted \o flight.txs
  BY DEF Apply, IsDuplicate
<1>r. /\ reader'.up = reader.up /\ reader'.cursor = reader.cursor /\ reader'.acked = reader.acked
      /\ reader'.hasDurableAck = reader.hasDurableAck /\ reader'.queue = reader.queue
      /\ reader'.seen = reader.seen /\ reader'.phase = reader.phase
      /\ reader'.candidate = reader.candidate /\ reader'.batch = reader.batch
      /\ reader'.ready = reader.ready /\ reader'.base = reader.base
      /\ reader'.flight.stage = "applied" /\ reader'.flight.txs = flight.txs
      /\ reader'.flight.pos = flight.pos /\ reader'.flight.acks = flight.acks
      /\ reader' \in Readers
  <2>1. reader \in Readers /\ flight \in Flights
    BY <1>t, ReaderIs
  <2>2. [flight EXCEPT !.stage = "applied"] \in Flights
    BY <2>1 DEF Flights
  <2>3. reader' = [reader EXCEPT !.flight = [flight EXCEPT !.stage = "applied"]]
    BY <1>a
  <2> DEFINE next == [flight EXCEPT !.stage = "applied"]
  <2>4. /\ next.stage = "applied" /\ next.txs = flight.txs /\ next.pos = flight.pos /\ next.acks = flight.acks
        /\ next \in Flights
    BY <2>1, <2>2 DEF Flights
  <2> HIDE DEF next
  <2>5. reader' = [reader EXCEPT !.flight = next]
    BY <2>3 DEF next
  <2>6. reader' \in Readers /\ reader'.flight = next
    BY <2>1, <2>4, <2>5 DEF Readers
  <2> QED BY <2>1, <2>4, <2>5, <2>6 DEF Readers
<1>k. /\ flight.pos \in Good /\ flight.pos \in Stored /\ flight.txs \in Seq(Txs)
      /\ flight.pos.order \in Nat /\ reader.acked.order \in Nat
      /\ flight.pos.order >= reader.acked.order
      /\ \A s \in Streams : flight.pos.at[s] >= reader.acked.at[s]
      /\ Carries /\ reader.acked \in Good /\ reader.acked \in Taken
      /\ durable \in Good /\ durable \in Taken
  BY <1>a, <1>t, ReaderIs, StoredIs DEF ReaderInv, InFlight, Flying, Positioned
<1>f. Flying /\ Flying' /\ Here' = Here
  BY <1>a, <1>r DEF Flying, Here
<1>c. /\ Len(committed) \in Nat /\ DOMAIN committed = 1 .. Len(committed)
      /\ \A i \in DOMAIN committed : committed[i].order = 2 * i /\ committed[i].order \in Nat
  BY <1>t, CommitIs
<1>g. Taken \subseteq Taken' /\ TakenIn \subseteq TakenIn'
  BY <1>t, <1>s, <1>a, <1>k, TakenGrows
<1>1. ReaderTypes'
  <2>1. accepted' \in Seq(Txs)
    BY <1>a, <1>k, <1>t DEF ReaderTypes
  <2> QED BY <1>a, <1>k, <1>r, <2>1 DEF ReaderTypes
<1>2. flight.pos \in Taken'
  <2>1. CASE flight.pos = durable
    BY <1>g, <1>k, <2>1
  <2>2. CASE flight.pos # durable
    <3>1. Brings(committed, flight.txs, reader.acked.order, flight.pos.order)
      BY <1>k, <2>2 DEF Carries
    <3> SUFFICES ASSUME NEW i \in DOMAIN committed, committed[i].order <= flight.pos.order
                 PROVE  committed[i].order \in TakenIn'
      BY <1>k, <1>s DEF Taken
    <3>2. CASE committed[i].order <= reader.acked.order
      BY <1>g, <1>k, <3>2 DEF Taken
    <3>3. CASE ~(committed[i].order <= reader.acked.order)
      <4>1. PICK j \in DOMAIN committed :
              /\ flight.txs = <<committed[j]>> /\ committed[j].order = flight.pos.order
              /\ \A n \in DOMAIN committed : committed[n].order <= reader.acked.order <=> n < j
        BY <3>1, <3>3 DEF Brings
      <4>2. i = j
        BY <1>c, <3>3, <4>1
      <4>3. accepted' = accepted \o <<committed[j]>> /\ accepted \in Seq(Txs) /\ committed[j] \in Txs
        BY <1>a, <1>t, <2>2, <4>1, CommitIs DEF ReaderTypes
      <4>4. Len(accepted) + 1 \in DOMAIN accepted' /\ accepted'[Len(accepted) + 1] = committed[j]
        BY <4>3
      <4> QED BY <4>2, <4>4 DEF TakenIn
    <3> QED BY <3>2, <3>3
  <2> QED BY <2>1, <2>2
<1>3. Positioned'
  BY <1>s, <1>r, <1>a, <1>k, <1>g, <1>2 DEF ReaderInv, Positioned
<1>4. InFlight' /\ Link'
  <2>1. Carries'
    BY <1>s, <1>r, <1>a, <1>k DEF Carries
  <2> QED BY <1>s, <1>r, <1>a, <1>f, <2>1 DEF ReaderInv, InFlight, Flying, Link
<1>5. MultiInv' /\ SingleInv'
  BY <1>s, <1>r, <1>f DEF ReaderInv, MultiInv, SingleInv
<1>6. Slots'
  <2> SUFFICES ASSUME source.dialect = "gaussdb", NEW s \in Active
               PROVE  /\ slot[s] <= flight.pos.at[s]
                      /\ \A n \in slot[s] + 1 .. flight.pos.at[s] : log[s][n].order = flight.pos.order
    BY <1>s, <1>a DEF Slots
  <2>1. Merging /\ ~Single /\ ~Multi
    BY DEF Merging, Single, Multi
  <2>2. durable = reader.acked
    BY <1>a, <2>1 DEF ReaderInv, Link
  <2>3. slot[s] <= durable.at[s]
    BY DEF ReaderInv, Slots
  <2>4. s \in Streams /\ slot[s] \in Nat /\ durable.at[s] \in Nat /\ flight.pos.at[s] \in Nat
    BY <1>t, <1>k, ActiveStreams, GoodIs
  <2>5. slot[s] <= flight.pos.at[s]
    BY <1>k, <2>2, <2>3, <2>4
  <2> QED BY <1>a, <1>f, <2>1, <2>5 DEF ReaderInv, Handed, ReadFrom
<1>7. Batched' /\ Readied' /\ Handed'
  BY <1>s, <1>r, <1>f DEF ReaderInv, Batched, Readied, Handed, Floor, ReadFrom, FlightStreams
<1>8. Exact'
  <2> SUFFICES ASSUME Answered(source)
               PROVE  /\ Len(accepted') <= Len(committed)
                      /\ \A i \in 1 .. Len(accepted') : accepted'[i] = committed[i]
                      /\ \A i \in 1 .. Len(committed) : i <= Len(accepted') <=> committed[i].order <= flight.pos.order
    BY <1>s, <1>a DEF Exact
  <2>1. /\ Len(accepted) <= Len(committed) /\ \A i \in 1 .. Len(accepted) : accepted[i] = committed[i]
        /\ \A i \in 1 .. Len(committed) : i <= Len(accepted) <=> committed[i].order <= durable.order
    BY DEF ReaderInv, Exact
  <2>2. accepted \in Seq(Txs) /\ Len(accepted) \in Nat
    BY <1>t DEF ReaderTypes
  <2>3. CASE flight.pos = durable
    BY <1>a, <2>1, <2>3
  <2>4. CASE flight.pos # durable
    <3>1. Brings(committed, flight.txs, reader.acked.order, flight.pos.order)
      BY <1>k, <2>4 DEF Carries
    <3>2. durable = reader.acked
      <4>1. ~(Multi /\ source.lossy)
        BY DEF Answered, Multi
      <4>2. ~(Single /\ IsNext(log[1], reader.acked, durable))
        <5> SUFFICES ASSUME Single, IsNext(log[1], reader.acked, durable) PROVE FALSE
          OBVIOUS
        <5>1. IsNext(log[1], reader.acked, flight.pos)
          BY <1>a, <1>f DEF ReaderInv, SingleInv
        <5>2. 1 \in Streams /\ log[1] \in Seq(Records)
          BY <1>t, ActiveStreams, LogIs
        <5>3. durable \in Stored /\ reader.acked \in Stored
          BY <1>t, ReaderIs
        <5> QED BY <1>k, <2>4, <5>1, <5>2, <5>3, NextUnique
      <4> QED BY <1>a, <4>1, <4>2 DEF ReaderInv, Link
    <3>3. accepted' = accepted \o flight.txs
      BY <1>a, <2>4
    <3>4. CASE flight.txs = <<>> /\ \A i \in DOMAIN committed :
                 committed[i].order <= flight.pos.order => committed[i].order <= reader.acked.order
      <4>1. accepted' = accepted
        BY <2>2, <3>3, <3>4
      <4>2. \A i \in 1 .. Len(committed) : committed[i].order <= durable.order <=> committed[i].order <= flight.pos.order
        BY <1>c, <1>k, <3>2, <3>4
      <4> QED BY <2>1, <4>1, <4>2
    <3>5. CASE \E j \in DOMAIN committed :
                 /\ flight.txs = <<committed[j]>> /\ committed[j].order = flight.pos.order
                 /\ \A n \in DOMAIN committed : committed[n].order <= reader.acked.order <=> n < j
      <4>1. PICK j \in DOMAIN committed :
                 /\ flight.txs = <<committed[j]>> /\ committed[j].order = flight.pos.order
                 /\ \A n \in DOMAIN committed : committed[n].order <= reader.acked.order <=> n < j
        BY <3>5
      <4>2. \A n \in 1 .. Len(committed) : n <= Len(accepted) <=> n < j
        BY <1>c, <2>1, <3>2, <4>1
      <4>3. j = Len(accepted) + 1
        <5>1. ~(j <= Len(accepted))
          BY <1>c, <4>1, <4>2
        <5>2. ~(Len(accepted) + 1 < j)
          <6> SUFFICES ASSUME Len(accepted) + 1 < j PROVE FALSE
            OBVIOUS
          <6>1. Len(accepted) + 1 \in 1 .. Len(committed)
            BY <1>c, <2>2
          <6> QED BY <2>2, <4>2, <6>1
        <5> QED BY <1>c, <2>2, <5>1, <5>2
      <4>4. committed[j] \in Txs
        BY <1>t, CommitIs
      <4>5. /\ Len(accepted') = Len(accepted) + 1 /\ accepted'[Len(accepted) + 1] = committed[j]
            /\ \A i \in 1 .. Len(accepted) : accepted'[i] = accepted[i]
        BY <2>2, <3>3, <4>1, <4>4
      <4>6. \A i \in 1 .. Len(committed) : i <= j <=> committed[i].order <= flight.pos.order
        BY <1>c, <4>1
      <4> QED BY <1>c, <2>1, <2>2, <4>3, <4>5, <4>6
    <3> QED BY <3>1, <3>4, <3>5 DEF Brings
  <2> QED BY <2>3, <2>4
<1> QED BY <1>s, <1>1, <1>3, <1>4, <1>5, <1>6, <1>7, <1>8 DEF ReaderInv

\* A request that was applied and whose streams know of it is done with.
LEMMA AcknowledgeStep ==
  ASSUME SourceInv, ReaderInv, UNCHANGED <<source, Unshown>>, slot' = slot, Acknowledge
  PROVE  SourceInv' /\ ReaderInv'
<1>t. SourceTypes /\ ReaderTypes /\ slot \in [Streams -> Nat]
  BY DEF SourceInv, ReaderInv, SourceTypes
<1>s. /\ SourceInv' /\ Good' = Good /\ Active' = Active /\ NextOrder' = NextOrder
      /\ Multi' = Multi /\ Merging' = Merging /\ Single' = Single
      /\ Answered(source') = Answered(source) /\ Nothing' = Nothing
      /\ source' = source /\ log' = log /\ pending' = pending /\ resolved' = resolved
      /\ committed' = committed
  BY <1>t, SourceSame
<1> DEFINE flight == reader.flight
<1>a. /\ reader.up /\ flight.stage = "applied" /\ flight.acks = {}
      /\ durable' = durable /\ accepted' = accepted
  BY DEF Acknowledge
<1>k. /\ flight.pos \in Good /\ flight.pos \in Stored
      /\ flight.pos.order >= reader.acked.order
      /\ \A s \in Streams : flight.pos.at[s] >= reader.acked.at[s]
      /\ durable = flight.pos /\ durable \in Good /\ durable \in Taken
  BY <1>a, <1>t, ReaderIs DEF ReaderInv, InFlight, Flying, Positioned, Link
<1>b. ~Regresses(flight.pos)
  <2>1. flight.pos.order \in Nat /\ reader.acked.order \in Nat
    BY <1>t, <1>k, ReaderIs, StoredIs
  <2>2. \A s \in Streams : flight.pos.at[s] \in Nat /\ reader.acked.at[s] \in Nat
    BY <1>t, <1>k, ReaderIs, StoredIs
  <2> QED BY <1>k, <2>1, <2>2 DEF Regresses
<1>c. reader' = [reader EXCEPT !.acked = flight.pos, !.hasDurableAck = TRUE, !.flight = Nothing]
  BY <1>b DEF Acknowledge
<1>r. /\ reader'.up = reader.up /\ reader'.cursor = reader.cursor /\ reader'.acked = flight.pos
      /\ reader'.hasDurableAck = TRUE /\ reader'.queue = reader.queue
      /\ reader'.seen = reader.seen /\ reader'.phase = reader.phase
      /\ reader'.candidate = reader.candidate /\ reader'.batch = reader.batch
      /\ reader'.ready = reader.ready /\ reader'.base = reader.base
      /\ reader'.flight = Nothing /\ reader' \in Readers
  <2>1. reader \in Readers /\ Nothing \in Flights
    BY <1>t, ReaderIs, NothingIs
  <2> HIDE DEF Nothing, flight
  <2> QED BY <1>c, <1>k, <2>1 DEF Readers
<1>f. Flying /\ ~(Flying') /\ Here' = Here /\ Here = flight.pos
  BY <1>a, <1>r, NothingIs DEF Flying, Here
<1>1. ReaderTypes'
  BY <1>a, <1>r, <1>t DEF ReaderTypes
<1>2. Positioned'
  <2>1. Taken' = Taken
    BY <1>s, <1>a DEF Taken, TakenIn
  <2> QED BY <1>s, <1>r, <1>a, <1>k, <2>1 DEF ReaderInv, Positioned
<1>3. InFlight' /\ Link'
  BY <1>s, <1>r, <1>a, <1>f, <1>k, NothingIs DEF ReaderInv, InFlight, Link
<1>4. MultiInv'
  BY <1>s, <1>r, <1>f DEF ReaderInv, MultiInv
<1>5. SingleInv'
  BY <1>s, <1>r, <1>f DEF ReaderInv, SingleInv
<1>6. Slots' /\ Exact'
  BY <1>s, <1>a DEF ReaderInv, Slots, Exact
<1>7. Batched' /\ Handed'
  BY <1>s, <1>r, <1>f DEF ReaderInv, Batched, Handed
<1>8. Readied'
  <2> SUFFICES ASSUME Merging PROVE Readied'
    BY <1>s DEF Readied
  <2>1. ASSUME NEW s \in Active PROVE Floor(s) = ReadFrom(flight.pos)[s]
    <3>1. CASE source.dialect = "gaussdb"
      BY <1>a, <1>f, <3>1 DEF ReaderInv, Handed, Floor, ReadFrom
    <3>2. CASE source.dialect # "gaussdb"
      <4>1. source.dialect = "purescale"
        BY <3>2 DEF Merging
      <4>2. s \in FlightStreams
        BY <1>a, <1>f, <4>1 DEF ReaderInv, Handed
      <4> QED BY <1>f, <3>2, <4>2 DEF Floor, ReadFrom
    <3> QED BY <3>1, <3>2
  <2>2. ReadFrom(flight.pos) = IF source.dialect = "gaussdb" THEN slot ELSE flight.pos.at
    BY DEF ReadFrom
  <2>3. ASSUME NEW g \in reader.ready
        PROVE  /\ g.rows # {} /\ g.order < NextOrder /\ \A f \in g.rows : f.stream \in Active
               /\ \A s \in Active : Holds(s, log[s], pending[s], ReadFrom(flight.pos)[s], reader.ready, g)
               /\ \A h \in reader.ready : g.order = h.order => g = h
    BY <1>a, <2>1 DEF ReaderInv, Readied
  <2> QED BY <1>s, <1>r, <1>f, <2>2, <2>3 DEF Readied, Floor, ReadFrom
<1> QED BY <1>s, <1>1, <1>2, <1>3, <1>4, <1>5, <1>6, <1>7, <1>8 DEF ReaderInv

\* One primary is acknowledged up to its last row of the transaction.
LEMMA AcknowledgeStreamStep ==
  ASSUME SourceInv, ReaderInv, UNCHANGED <<source, Unshown>>, AcknowledgeStream
  PROVE  SourceInv' /\ ReaderInv'
<1>t. SourceTypes /\ ReaderTypes /\ slot \in [Streams -> Nat]
  BY DEF SourceInv, ReaderInv, SourceTypes
<1> DEFINE flight == reader.flight
           s == Min(flight.acks)
<1>a. /\ reader.up /\ flight.stage = "applied" /\ flight.acks # {}
      /\ slot' = [slot EXCEPT ![s] = flight.pos.at[s]]
      /\ reader' = [reader EXCEPT !.flight.acks = @ \ {s}]
      /\ durable' = durable /\ accepted' = accepted
  BY DEF AcknowledgeStream
<1>m. flight.acks \in SUBSET Streams /\ flight.pos \in Stored /\ flight.txs \in Seq(Txs)
  BY <1>t, ReaderIs
<1>u. s \in flight.acks /\ s \in Streams
  <2>1. flight.acks \in SUBSET Nat
    BY <1>t, <1>m, ActiveStreams
  <2> HIDE DEF flight
  <2> QED BY <1>a, <1>m, <2>1, MinIn
<1> HIDE DEF s
<1>v. flight.pos.at[s] \in Nat /\ slot' \in [Streams -> Nat]
  BY <1>a, <1>m, <1>t, <1>u, StoredIs
<1>s. /\ SourceInv' /\ Good' = Good /\ Active' = Active /\ NextOrder' = NextOrder
      /\ Multi' = Multi /\ Merging' = Merging /\ Single' = Single
      /\ Answered(source') = Answered(source) /\ Nothing' = Nothing
      /\ source' = source /\ log' = log /\ pending' = pending /\ resolved' = resolved
      /\ committed' = committed
  BY <1>v, SourceSame
<1>r. /\ reader'.up = reader.up /\ reader'.cursor = reader.cursor /\ reader'.acked = reader.acked
      /\ reader'.hasDurableAck = reader.hasDurableAck /\ reader'.queue = reader.queue
      /\ reader'.seen = reader.seen /\ reader'.phase = reader.phase
      /\ reader'.candidate = reader.candidate /\ reader'.batch = reader.batch
      /\ reader'.ready = reader.ready /\ reader'.base = reader.base
      /\ reader'.flight.stage = "applied" /\ reader'.flight.txs = flight.txs
      /\ reader'.flight.pos = flight.pos /\ reader'.flight.acks = flight.acks \ {s}
      /\ reader' \in Readers
  <2>1. reader \in Readers /\ flight \in Flights
    BY <1>t, ReaderIs
  <2> DEFINE next == [flight EXCEPT !.acks = flight.acks \ {s}]
  <2>2. /\ next.stage = "applied" /\ next.txs = flight.txs /\ next.pos = flight.pos
        /\ next.acks = flight.acks \ {s} /\ next \in Flights
    BY <1>a, <2>1 DEF Flights
  <2>3. reader' = [reader EXCEPT !.flight = next]
    BY <1>a, <2>1 DEF Readers
  <2> HIDE DEF next
  <2>4. reader' \in Readers /\ reader'.flight = next
    BY <2>1, <2>2, <2>3 DEF Readers
  <2> QED BY <2>1, <2>2, <2>3, <2>4 DEF Readers
<1>g. source.dialect = "gaussdb" /\ Merging /\ ~Single /\ ~Multi
  BY <1>a DEF ReaderInv, InFlight, Merging, Single, Multi
<1>k. /\ flight.pos \in Good /\ durable = flight.pos
      /\ Flying /\ Handed
  BY <1>a DEF ReaderInv, InFlight, Flying, Link
<1>f. Flying' /\ FlightStreams' = FlightStreams
  BY <1>r DEF Flying, FlightStreams
<1>w. flight.acks \subseteq FlightStreams
  BY <1>a, <1>g, <1>k DEF Handed
<1>1. ReaderTypes'
  BY <1>a, <1>r, <1>t DEF ReaderTypes
<1>2. Positioned'
  <2>1. Taken' = Taken
    BY <1>s, <1>a DEF Taken, TakenIn
  <2> QED BY <1>s, <1>r, <1>a, <2>1 DEF ReaderInv, Positioned
<1>3. InFlight' /\ Link'
  <2>1. Carries'
    BY <1>s, <1>r, <1>a, <1>k DEF Carries, ReaderInv, InFlight
  <2> QED BY <1>s, <1>r, <1>a, <1>g, <1>f, <1>k, <2>1 DEF ReaderInv, InFlight, Link
<1>4. MultiInv' /\ SingleInv'
  BY <1>s, <1>g DEF MultiInv, SingleInv
<1>5. Exact'
  BY <1>s, <1>a DEF ReaderInv, Exact
<1>z. \A t \in Active : /\ slot'[t] = (IF t = s THEN durable.at[t] ELSE slot[t])
                        /\ slot[t] <= slot'[t] /\ slot[t] \in Nat /\ slot'[t] \in Nat
                        /\ slot'[t] <= durable.at[t] /\ durable.at[t] \in Nat
  <2> SUFFICES ASSUME NEW t \in Active
               PROVE  /\ slot'[t] = (IF t = s THEN durable.at[t] ELSE slot[t])
                      /\ slot[t] <= slot'[t] /\ slot[t] \in Nat /\ slot'[t] \in Nat
                      /\ slot'[t] <= durable.at[t] /\ durable.at[t] \in Nat
    OBVIOUS
  <2>1. t \in Streams /\ slot[t] \in Nat /\ slot'[t] \in Nat /\ durable.at[t] \in Nat
    BY <1>t, <1>v, <1>k, ActiveStreams, GoodIs
  <2>2. slot'[t] = (IF t = s THEN durable.at[t] ELSE slot[t])
    BY <1>a, <1>t, <1>k, <1>u, <2>1
  <2>3. slot[t] <= durable.at[t]
    BY <1>g DEF ReaderInv, Slots
  <2> QED BY <2>1, <2>2, <2>3
<1>6. Slots'
  <2>1. ASSUME NEW t \in Active, NEW n \in slot'[t] + 1 .. durable.at[t]
        PROVE  log[t][n].order = durable.order
    <3>1. n \in slot[t] + 1 .. durable.at[t]
      BY <1>z
    <3> QED BY <1>g, <3>1 DEF ReaderInv, Slots
  <2> QED BY <1>s, <1>a, <1>z, <2>1 DEF Slots
<1>7. Batched'
  BY <1>k, <1>a, <1>r, <1>s DEF ReaderInv, Batched
<1>8. Readied'
  <2>1. \A t \in Active : Floor(t) = IF t \in FlightStreams THEN flight.pos.at[t] ELSE slot[t]
    BY <1>k, <1>g DEF Floor, ReadFrom
  <2>2. \A t \in Active : t \notin FlightStreams => slot'[t] = slot[t]
    BY <1>z, <1>u, <1>w
  <2>3. ASSUME NEW g \in reader.ready
        PROVE  /\ g.rows # {} /\ g.order < NextOrder /\ \A f \in g.rows : f.stream \in Active
               /\ \A t \in Active : Holds(t, log[t], pending[t],
                                          IF t \in FlightStreams THEN flight.pos.at[t] ELSE slot'[t], reader.ready, g)
               /\ \A h \in reader.ready : g.order = h.order => g = h
               /\ flight.pos.order < g.order
    BY <1>a, <1>g, <1>k, <2>1, <2>2 DEF ReaderInv, Readied
  <2> QED BY <1>s, <1>r, <1>f, <1>g, <2>3 DEF Readied, Floor, ReadFrom
<1>9. Handed'
  <2>1. ASSUME NEW t \in Active, NEW n \in slot'[t] + 1 .. flight.pos.at[t]
        PROVE  log[t][n].order = flight.pos.order
    <3>1. n \in slot[t] + 1 .. flight.pos.at[t]
      BY <1>z, <1>k
    <3> QED BY <1>a, <1>g, <1>k, <3>1 DEF Handed, ReadFrom
  <2>2. \A t \in FlightStreams \ (flight.acks \ {s}) : slot'[t] = flight.pos.at[t]
    <3> SUFFICES ASSUME NEW t \in FlightStreams \ (flight.acks \ {s}) PROVE slot'[t] = flight.pos.at[t]
      OBVIOUS
    <3>1. CASE t = s
      BY <1>a, <1>u, <1>t, <3>1
    <3>2. CASE t # s
      <4>1. slot[t] = flight.pos.at[t]
        BY <1>a, <1>g, <1>k, <3>2 DEF Handed
      <4>2. slot'[t] = slot[t]
        BY <1>a, <1>t, <3>2
      <4> QED BY <4>1, <4>2
    <3> QED BY <3>1, <3>2
  <2>3. Len(flight.txs) = 1
    BY <1>a, <1>g, <1>k DEF Handed
  <2> QED BY <1>s, <1>r, <1>f, <1>g, <1>w, <2>1, <2>2, <2>3 DEF Handed, ReadFrom
<1> QED BY <1>s, <1>1, <1>2, <1>3, <1>4, <1>5, <1>6, <1>7, <1>8, <1>9 DEF ReaderInv

-----------------------------------------------------------------------------
(* TiCDC: steps that read or hand out a request. *)
LEMMA ReadingIs ==
  ASSUME ReaderInv, Reading
  PROVE  /\ reader.up /\ reader.flight = Nothing /\ ~Flying /\ Here = reader.acked
         /\ reader.flight.stage = "none" /\ reader.flight.acks = {}
BY NothingIs DEF Reading, Flying, Here

\* A step of a TiCDC reader: what its parts have to satisfy, and the rest stays.
LEMMA ReadStep ==
  ASSUME SourceInv, ReaderInv, UNCHANGED <<source, Unshown>>, slot' = slot,
         durable' = durable, accepted' = accepted, ~Merging, Reading,
         reader' \in Readers, reader'.up = reader.up, reader'.acked = reader.acked,
         reader'.batch = reader.batch, reader'.ready = reader.ready, reader'.base = reader.base,
         \/ reader'.flight = Nothing
         \/ /\ reader'.flight.stage = "read" /\ reader'.flight.acks = {} /\ reader'.flight.pos \in Good
            /\ reader'.flight.pos.order >= reader.acked.order
            /\ \A s \in Streams : reader'.flight.pos.at[s] >= reader.acked.at[s]
            /\ Brings(committed, reader'.flight.txs, reader.acked.order, reader'.flight.pos.order),
         MultiInv', SingleInv'
  PROVE  SourceInv' /\ ReaderInv'
<1>t. SourceTypes /\ ReaderTypes /\ slot \in [Streams -> Nat]
  BY DEF SourceInv, ReaderInv, SourceTypes
<1>s. /\ SourceInv' /\ Good' = Good /\ Active' = Active /\ NextOrder' = NextOrder
      /\ Multi' = Multi /\ Merging' = Merging /\ Single' = Single
      /\ Answered(source') = Answered(source) /\ Nothing' = Nothing
      /\ source' = source /\ log' = log /\ pending' = pending /\ resolved' = resolved
      /\ committed' = committed
  BY <1>t, SourceSame
<1>n. reader.flight.stage = "none" /\ Nothing.stage = "none" /\ Nothing.acks = {}
  BY ReadingIs, NothingIs
<1>1. ReaderTypes'
  BY <1>t DEF ReaderTypes
<1>2. Positioned'
  <2>1. Taken' = Taken
    BY <1>s DEF Taken, TakenIn
  <2> QED BY <1>s, <2>1 DEF ReaderInv, Positioned
<1>3. InFlight'
  BY <1>s, <1>n DEF ReaderInv, InFlight, Flying, Carries
<1>4. Link'
  BY <1>s, <1>n DEF ReaderInv, Link
<1>5. source.dialect # "gaussdb"
  BY DEF Merging
<1>6. Slots' /\ Batched' /\ Readied' /\ Handed'
  BY <1>s, <1>5 DEF Slots, Batched, Readied, Handed
<1>7. Exact'
  BY <1>s DEF ReaderInv, Exact
<1> QED BY <1>s, <1>1, <1>2, <1>3, <1>4, <1>6, <1>7 DEF ReaderInv

\* The greatest of two numbers is one of them.
LEMMA MaxOfTwo ==
  ASSUME NEW a \in Nat, NEW b \in Nat
  PROVE  Max({a, b}) \in {a, b}
<1>1. {a, b} \in SUBSET Nat /\ {a, b} # {} /\ a + b \in Nat /\ \A x \in {a, b} : x <= a + b
  OBVIOUS
<1> QED BY <1>1, MaxIn

\* A fetch returns the rows and the newest watermark of a part of a stream.
LEMMA WatermarkIs ==
  ASSUME SourceInv, NEW s \in Active, NEW i \in Nat, NEW j \in Nat, i >= 1, j <= Len(log[s])
  PROVE  /\ WatermarkIn(s, i, j) \in Nat
         /\ \/ WatermarkIn(s, i, j) = 0
            \/ \E n \in i .. j : log[s][n].kind = "resolved" /\ log[s][n].order = WatermarkIn(s, i, j)
<1> DEFINE marks == {log[s][n].order : n \in {m \in i .. j : log[s][m].kind = "resolved"}}
           all == {0} \cup marks
<1>1. SourceTypes /\ Marks /\ s \in Streams
  BY ActiveStreams DEF SourceInv
<1>2. \A n \in i .. j : n \in 1 .. Len(log[s])
  BY <1>1, LogIs
<1>3. resolved[s] \in Nat
  BY <1>1, LogIs
<1>4. ASSUME NEW x \in marks PROVE x \in Nat /\ x <= resolved[s]
  <2>1. PICK n \in i .. j : log[s][n].kind = "resolved" /\ x = log[s][n].order
    BY <1>4
  <2>2. n \in 1 .. Len(log[s])
    BY <1>2
  <2> QED BY <1>1, <2>1, <2>2, LogIs DEF Marks
<1>5. all \in SUBSET Nat /\ all # {} /\ \A x \in all : x <= resolved[s]
  BY <1>3, <1>4
<1>6. Max(all) \in all
  BY <1>3, <1>5, MaxIn
<1>7. Max(all) \in Nat
  BY <1>5, <1>6
<1>8. WatermarkIn(s, i, j) = Max(all)
  BY DEF WatermarkIn
<1> HIDE DEF all
<1>9. CASE Max(all) = 0
  BY <1>7, <1>8, <1>9
<1>10. CASE Max(all) # 0
  <2>1. Max(all) \in marks
    BY <1>6, <1>10 DEF all
  <2> QED BY <1>7, <1>8, <2>1
<1> QED BY <1>9, <1>10

\* A fetch queues every row in its range, with its place.
LEMMA FetchedIs ==
  ASSUME SourceTypes, NEW s \in Active, NEW i \in Nat, NEW j \in Nat, i >= 1, j <= Len(log[s])
  PROVE  /\ Fetched(s, i, j) \in SUBSET Items
         /\ \A n \in i .. j : log[s][n].kind = "row" => Item(log[s][n], n) \in Fetched(s, i, j)
         /\ \A x \in Fetched(s, i, j) : /\ x.offset \in i .. j
                                        /\ log[s][x.offset] = Row(x.order, x.part)
<1>1. s \in Streams
  BY ActiveStreams
<1>2. \A n \in i .. j : n \in 1 .. Len(log[s]) /\ n \in Nat
  BY <1>1, LogIs
<1>3. ASSUME NEW n \in i .. j, log[s][n].kind = "row"
      PROVE  /\ Item(log[s][n], n) \in Items
             /\ Item(log[s][n], n).offset = n
             /\ log[s][n] = Row(Item(log[s][n], n).order, Item(log[s][n], n).part)
  <2>1. log[s][n] \in Records
    BY <1>1, <1>2, LogIs
  <2> QED BY <1>2, <1>3, <2>1 DEF Item, Items, Records, Row
<1>4. ASSUME NEW x \in Fetched(s, i, j)
      PROVE  x \in Items /\ x.offset \in i .. j /\ log[s][x.offset] = Row(x.order, x.part)
  <2>1. PICK n \in i .. j : log[s][n].kind = "row" /\ x = Item(log[s][n], n)
    BY DEF Fetched
  <2> QED BY <1>3, <2>1
<1>5. \A n \in i .. j : log[s][n].kind = "row" => Item(log[s][n], n) \in Fetched(s, i, j)
  BY DEF Fetched
<1> QED BY <1>4, <1>5

\* A fetch from one partition keeps the invariant.
LEMMA PumpStep ==
  ASSUME SourceInv, ReaderInv, UNCHANGED <<source, Unshown>>, slot' = slot, Pump
  PROVE  SourceInv' /\ ReaderInv'
<1>t. SourceTypes /\ ReaderTypes /\ slot \in [Streams -> Nat]
  BY DEF SourceInv, ReaderInv, SourceTypes
<1>s. /\ Active' = Active /\ Multi' = Multi /\ Single' = Single /\ log' = log /\ Nothing' = Nothing
  BY <1>t, SourceSame
<1> DEFINE s == Min(Wanting)
           from == reader.cursor[s] + 1
<1>a. /\ Multi /\ Reading /\ Wanting # {} /\ from <= Len(log[s])
      /\ durable' = durable /\ accepted' = accepted
  BY DEF Pump
<1>b. PICK to \in {from, Len(log[s])} :
        reader' = [reader EXCEPT !.cursor[s] = to,
                     !.queue[s] = @ \cup Fetched(s, from, to),
                     !.seen[s] = Max({@, WatermarkIn(s, from, to)})]
  BY DEF Pump
<1>u. s \in Active /\ s \in Streams
  <2>1. Wanting \in SUBSET Nat /\ Wanting \subseteq Active /\ Active \subseteq Streams
    BY <1>t, ActiveStreams DEF Wanting
  <2> QED BY <1>a, <2>1, MinIn
<1>c. /\ reader.cursor[s] \in Nat /\ reader.queue[s] \in SUBSET Items /\ reader.seen[s] \in Nat
      /\ reader.acked.at[s] \in Nat /\ reader.acked.order \in Nat
  BY <1>t, <1>u, ReaderIs, StoredIs
<1>d. Len(log[s]) \in Nat
  BY <1>t, <1>u, LogIs
<1> HIDE DEF s
<1>e. from \in Nat /\ to \in Nat /\ from >= 1 /\ from <= to /\ to <= Len(log[s]) /\ reader.cursor[s] < to
  BY <1>a, <1>b, <1>c, <1>d
<1> DEFINE mark == WatermarkIn(s, from, to)
           rows == Fetched(s, from, to)
<1>f. /\ mark \in Nat
      /\ mark = 0 \/ \E n \in from .. to : log[s][n].kind = "resolved" /\ log[s][n].order = mark
  BY <1>e, <1>u, WatermarkIs
<1>g. /\ rows \in SUBSET Items
      /\ \A n \in from .. to : log[s][n].kind = "row" => Item(log[s][n], n) \in rows
      /\ \A x \in rows : x.offset \in from .. to /\ log[s][x.offset] = Row(x.order, x.part)
  BY <1>e, <1>u, <1>t, FetchedIs
<1>h. Max({reader.seen[s], mark}) \in {reader.seen[s], mark}
  BY <1>c, <1>f, MaxOfTwo
<1> HIDE DEF mark, rows
<1> DEFINE newest == Max({reader.seen[s], mark})
           queue == reader.queue[s] \cup rows
<1>i. newest \in Nat /\ newest \in {reader.seen[s], mark} /\ queue \in SUBSET Items
  BY <1>c, <1>f, <1>g, <1>h
<1>j. reader' = [reader EXCEPT !.cursor[s] = to, !.queue[s] = queue, !.seen[s] = newest]
  BY <1>b, <1>u DEF mark, rows
<1> HIDE DEF newest, queue
<1>r. /\ reader' \in Readers /\ reader'.up = reader.up /\ reader'.acked = reader.acked
      /\ reader'.hasDurableAck = reader.hasDurableAck
      /\ reader'.phase = reader.phase /\ reader'.candidate = reader.candidate
      /\ reader'.batch = reader.batch /\ reader'.ready = reader.ready /\ reader'.base = reader.base
      /\ reader'.flight = reader.flight
      /\ reader'.cursor = [reader.cursor EXCEPT ![s] = to]
      /\ reader'.queue = [reader.queue EXCEPT ![s] = queue]
      /\ reader'.seen = [reader.seen EXCEPT ![s] = newest]
  <2>1. reader \in Readers
    BY <1>t, ReaderIs
  <2> HIDE DEF Nothing
  <2> QED BY <1>e, <1>i, <1>j, <1>u, <2>1 DEF Readers
<1>k. /\ reader.up /\ ~Flying /\ Here = reader.acked /\ reader.flight = Nothing
  BY <1>a, ReadingIs
<1>l. ~(Flying') /\ Here' = reader.acked
  BY <1>r, <1>k DEF Flying, Here
<1>m. MultiInv
  BY DEF ReaderInv
<1>1. ASSUME NEW t \in Active
      PROVE  Reads(log[t], reader.acked.at[t], reader.acked.order, reader'.cursor[t], reader'.queue[t], reader'.seen[t])
  <2>1. Reads(log[t], reader.acked.at[t], reader.acked.order, reader.cursor[t], reader.queue[t], reader.seen[t])
    BY <1>a, <1>k, <1>m DEF MultiInv
  <2>2. t \in Streams
    BY <1>t, ActiveStreams
  <2>3. CASE t # s
    <3>1. /\ reader'.cursor[t] = reader.cursor[t] /\ reader'.queue[t] = reader.queue[t]
          /\ reader'.seen[t] = reader.seen[t]
      BY <1>r, <1>t, <2>2, <2>3, ReaderIs
    <3> QED BY <2>1, <3>1
  <2>4. CASE t = s
    <3>1. reader'.cursor[s] = to /\ reader'.queue[s] = queue /\ reader'.seen[s] = newest
      BY <1>r, <1>t, <1>u, ReaderIs
    <3> DEFINE at == reader.acked.at[s]
    <3>2. at <= to /\ to <= Len(log[s])
      BY <1>c, <1>e, <2>1, <2>4 DEF Reads
    <3>3. ASSUME NEW n \in at + 1 .. to, log[s][n].kind = "row", log[s][n].order > reader.acked.order
          PROVE  Item(log[s][n], n) \in queue
      <4>1. CASE n <= reader.cursor[s]
        <5>1. n \in at + 1 .. reader.cursor[s]
          BY <1>c, <1>e, <4>1
        <5> QED BY <2>1, <2>4, <3>3, <5>1 DEF Reads, queue
      <4>2. CASE ~(n <= reader.cursor[s])
        <5>1. n \in from .. to
          BY <1>c, <1>e, <4>2
        <5> QED BY <1>g, <3>3, <5>1 DEF queue
      <4> QED BY <4>1, <4>2
    <3>4. ASSUME NEW x \in queue
          PROVE  at < x.offset /\ x.offset <= to /\ log[s][x.offset] = Row(x.order, x.part)
      <4>1. CASE x \in reader.queue[s]
        <5>1. /\ at < x.offset /\ x.offset <= reader.cursor[s]
              /\ log[s][x.offset] = Row(x.order, x.part)
          BY <2>1, <2>4, <4>1 DEF Reads
        <5>2. x.offset \in Nat
          BY <1>c, <4>1 DEF Items
        <5> QED BY <1>c, <1>e, <5>1, <5>2
      <4>2. CASE x \in rows
        <5>1. x.offset \in from .. to /\ log[s][x.offset] = Row(x.order, x.part)
          BY <1>g, <4>2
        <5>2. at <= reader.cursor[s]
          BY <2>1, <2>4 DEF Reads
        <5> QED BY <1>c, <1>e, <5>1, <5>2
      <4> QED BY <4>1, <4>2 DEF queue
    <3>5. newest = 0 \/ \E n \in 1 .. to : log[s][n].kind = "resolved" /\ log[s][n].order = newest
      <4>1. CASE newest = reader.seen[s]
        <5>1. \A n \in 1 .. reader.cursor[s] : n \in 1 .. to
          BY <1>c, <1>e
        <5> QED BY <2>1, <2>4, <4>1, <5>1 DEF Reads
      <4>2. CASE newest = mark
        <5>1. \A n \in from .. to : n \in 1 .. to
          BY <1>e
        <5> QED BY <1>f, <4>2, <5>1
      <4> QED BY <1>i, <4>1, <4>2
    <3> QED BY <2>4, <3>1, <3>2, <3>3, <3>4, <3>5 DEF Reads
  <2> QED BY <2>3, <2>4
<1>2. reader.phase = "fence" => \E t \in Active : \E x \in reader'.queue[t] : x.order = reader.candidate
  <2> SUFFICES ASSUME reader.phase = "fence"
               PROVE  \E t \in Active : \E x \in reader'.queue[t] : x.order = reader.candidate
    OBVIOUS
  <2>1. PICK t \in Active : \E x \in reader.queue[t] : x.order = reader.candidate
    BY <1>a, <1>k, <1>m DEF MultiInv
  <2>2. reader.queue[t] \subseteq reader'.queue[t]
    BY <1>r, <1>t, <1>u, ReaderIs, ActiveStreams DEF queue
  <2> QED BY <2>1, <2>2
<1>3. MultiInv'
  BY <1>a, <1>s, <1>r, <1>l, <1>k, <1>m, <1>1, <1>2 DEF MultiInv
<1>4. ~Single /\ ~Merging
  BY <1>t, <1>a, Kinds
<1>5. SingleInv'
  BY <1>s, <1>4 DEF SingleInv
<1> QED BY <1>a, <1>r, <1>k, <1>3, <1>4, <1>5, ReadStep

\* The fields of a queued row.
LEMMA ItemIs ==
  ASSUME NEW rec, NEW n
  PROVE  Item(rec, n).order = rec.order /\ Item(rec, n).part = rec.part /\ Item(rec, n).offset = n
BY DEF Item

\* What is behind the acknowledged order is kept, and was committed.
LEMMA KeptIs ==
  ASSUME SourceInv, ReaderInv, Multi, Reading
  PROVE  /\ Kept(reader.queue) \in [Streams -> SUBSET Items]
         /\ \A s \in Active :
              /\ \A x \in Kept(reader.queue)[s] :
                   /\ x \in reader.queue[s] /\ x \in Items /\ x.order \in Nat /\ x.offset \in Nat
                   /\ x.order > reader.acked.order
                   /\ reader.acked.at[s] < x.offset /\ x.offset <= reader.cursor[s]
                   /\ log[s][x.offset] = Row(x.order, x.part)
                   /\ Known(committed, s, x.order, x.part)
              /\ \A n \in 1 .. reader.cursor[s] :
                   log[s][n].kind = "row" /\ log[s][n].order > reader.acked.order
                     => Item(log[s][n], n) \in Kept(reader.queue)[s]
<1> DEFINE queue == Kept(reader.queue)
           acked == reader.acked
<1>t. SourceTypes /\ Numbered /\ Real /\ ReaderTypes /\ acked \in Good
  BY DEF SourceInv, ReaderInv, Positioned
<1>1. /\ reader.queue \in [Streams -> SUBSET Items] /\ acked.order \in Nat /\ Active \subseteq Streams
      /\ \A s \in Streams : acked.at[s] \in Nat /\ reader.cursor[s] \in Nat
  BY <1>t, ReaderIs, StoredIs, ActiveStreams
<1>2. queue \in [Streams -> SUBSET Items]
  BY <1>1 DEF Kept
<1>3. \A s \in Streams : \A x : x \in queue[s] <=>
        x \in reader.queue[s] /\ (reader.hasDurableAck => x.order > acked.order)
  BY <1>1 DEF Kept
<1>4. /\ reader.hasDurableAck \/ acked.order = 1
      /\ \A s \in Active : Reads(log[s], acked.at[s], acked.order, reader.cursor[s], reader.queue[s], reader.seen[s])
  BY ReadingIs DEF ReaderInv, MultiInv
<1> HIDE DEF queue
<1>5. ASSUME NEW s \in Active, NEW x \in queue[s]
      PROVE  /\ x \in reader.queue[s] /\ x \in Items /\ x.order \in Nat /\ x.offset \in Nat
             /\ x.order > acked.order
             /\ acked.at[s] < x.offset /\ x.offset <= reader.cursor[s]
             /\ log[s][x.offset] = Row(x.order, x.part)
             /\ Known(committed, s, x.order, x.part)
  <2>1. s \in Streams /\ x \in reader.queue[s] /\ x \in Items
    BY <1>1, <1>3
  <2>2. x.order \in Nat /\ x.offset \in Nat
    BY <2>1 DEF Items
  <2>3. /\ acked.at[s] < x.offset /\ x.offset <= reader.cursor[s]
        /\ log[s][x.offset] = Row(x.order, x.part)
        /\ reader.cursor[s] <= Len(log[s])
    BY <1>4, <2>1 DEF Reads
  <2>4. x.offset \in 1 .. Len(log[s])
    BY <1>1, <1>t, <2>1, <2>2, <2>3, LogIs
  <2>5. Known(committed, s, x.order, x.part)
    BY <1>t, <2>3, <2>4 DEF Real, Row
  <2>6. x.order >= 2
    BY <1>t, <2>2, <2>5, KnownIs
  <2>7. x.order > acked.order
    BY <1>1, <1>3, <1>4, <2>1, <2>2, <2>6
  <2> QED BY <2>1, <2>2, <2>3, <2>5, <2>7
<1>6. ASSUME NEW s \in Active, NEW n \in 1 .. reader.cursor[s],
             log[s][n].kind = "row", log[s][n].order > acked.order
      PROVE  Item(log[s][n], n) \in queue[s]
  <2>1. s \in Streams /\ acked.at[s] \in Nat /\ reader.cursor[s] \in Nat /\ reader.cursor[s] <= Len(log[s])
    BY <1>1, <1>4 DEF Reads
  <2>2. n \in 1 .. Len(log[s])
    BY <1>t, <2>1, LogIs
  <2>3. log[s][n].order \in Nat
    BY <1>t, <2>1, <2>2, LogIs
  <2>4. ~(n <= acked.at[s])
    BY <1>1, <1>6, <1>t, <2>1, <2>3, GoodIs
  <2>5. n \in acked.at[s] + 1 .. reader.cursor[s]
    BY <2>1, <2>4
  <2>6. Item(log[s][n], n) \in reader.queue[s]
    BY <1>4, <1>6, <2>5 DEF Reads
  <2> QED BY <1>3, <1>6, <2>1, <2>6, ItemIs
<1> QED BY <1>2, <1>5, <1>6 DEF queue

\* The orders that are queued are those of the rows kept in some partition.
LEMMA QueuedIs ==
  ASSUME SourceInv, ReaderInv, Multi, Reading
  PROVE  /\ \A o : o \in Queued(Kept(reader.queue)) <=>
                     \E s \in Active : \E x \in Kept(reader.queue)[s] : o = x.order
         /\ Queued(Kept(reader.queue)) \in SUBSET Nat
<1> DEFINE queue == Kept(reader.queue)
<1>1. \A s \in Active : \A x \in queue[s] : x.order \in Nat
  BY KeptIs
<1> HIDE DEF queue
<1>2. \A o : o \in Queued(queue) <=> \E s \in Active : \E x \in queue[s] : o = x.order
  BY DEF Queued, Orders
<1> QED BY <1>1, <1>2 DEF queue

\* Up to the watermarks that were read, every commit was read.
LEMMA AllRead ==
  ASSUME SourceInv, ReaderInv, Multi, Reading, NEW bound \in Nat, bound > reader.acked.order,
         \A s \in Active : reader.seen[s] >= bound
  PROVE  /\ \A i \in DOMAIN committed : \A r \in committed[i].rows :
              committed[i].order <= bound /\ committed[i].order > reader.acked.order
                => \E x \in Kept(reader.queue)[r[1]] : x.order = committed[i].order /\ x.part = r[2]
         /\ bound < NextOrder
         /\ \A s \in Active : reader.cursor[s] > 0
<1> DEFINE queue == Kept(reader.queue)
           acked == reader.acked
<1>t. SourceTypes /\ Numbered /\ Real /\ Marks /\ Promised /\ ReaderTypes
  BY DEF SourceInv, ReaderInv
<1>1. acked.order \in Nat /\ Active \subseteq Streams /\ 1 \in Active
  BY <1>t, ReaderIs, StoredIs, ActiveStreams
<1>2. ASSUME NEW s \in Active
      PROVE  /\ reader.seen[s] < NextOrder /\ reader.seen[s] \in Nat /\ reader.cursor[s] > 0
             /\ reader.cursor[s] \in Nat /\ reader.cursor[s] <= Len(log[s])
             /\ \E n \in 1 .. reader.cursor[s] : Shown(committed, log[s], s, reader.seen[s] + 1, n)
  <2>1. s \in Streams /\ reader.seen[s] \in Nat /\ reader.cursor[s] \in Nat /\ NextOrder \in Nat
    BY <1>1, <1>t, ReaderIs, CommitIs
  <2>2. Reads(log[s], acked.at[s], acked.order, reader.cursor[s], reader.queue[s], reader.seen[s])
    BY ReadingIs DEF ReaderInv, MultiInv
  <2>3. reader.seen[s] # 0
    BY <1>1, <2>1
  <2>4. PICK n \in 1 .. reader.cursor[s] : log[s][n].kind = "resolved" /\ log[s][n].order = reader.seen[s]
    BY <2>2, <2>3 DEF Reads
  <2>5. reader.cursor[s] <= Len(log[s])
    BY <2>2 DEF Reads
  <2>6. n \in 1 .. Len(log[s])
    BY <1>t, <2>1, <2>5, LogIs
  <2>7. /\ reader.seen[s] <= resolved[s] /\ Shown(committed, log[s], s, reader.seen[s] + 1, n)
    BY <1>t, <2>4, <2>6 DEF Marks
  <2>8. resolved[s] < NextOrder /\ resolved[s] \in Nat
    BY <1>t, <2>1, LogIs DEF Promised
  <2> QED BY <2>1, <2>4, <2>5, <2>7, <2>8
<1>3. ASSUME NEW i \in DOMAIN committed, NEW r \in committed[i].rows,
             committed[i].order <= bound, committed[i].order > acked.order
      PROVE  \E x \in queue[r[1]] : x.order = committed[i].order /\ x.part = r[2]
  <2> DEFINE s == r[1]
  <2>1. s \in Active /\ committed[i].order \in Nat
    BY <1>t, CommitIs
  <2>2. PICK n \in 1 .. reader.cursor[s] : Shown(committed, log[s], s, reader.seen[s] + 1, n)
    BY <1>2, <2>1
  <2>3. committed[i].order < reader.seen[s] + 1
    BY <1>2, <1>3, <2>1
  <2>4. PICK m \in 1 .. n : log[s][m] = Row(committed[i].order, r[2])
    BY <2>2, <2>3 DEF Shown, InLog
  <2>5. m \in 1 .. reader.cursor[s]
    BY <1>2, <2>1
  <2>6. log[s][m].kind = "row" /\ log[s][m].order = committed[i].order /\ log[s][m].part = r[2]
    BY <2>4 DEF Row
  <2>7. Item(log[s][m], m) \in queue[s]
    BY <1>3, <2>1, <2>5, <2>6, KeptIs
  <2> QED BY <2>6, <2>7, ItemIs
<1>4. bound < NextOrder
  <2>1. reader.seen[1] < NextOrder /\ reader.seen[1] \in Nat /\ reader.seen[1] >= bound /\ NextOrder \in Nat
    BY <1>1, <1>2, <1>t, CommitIs
  <2> QED BY <2>1
<1> QED BY <1>2, <1>3, <1>4

\* The place in a stream is between where it was and what was read, before all
\* that is left.
LEMMA PlaceIs ==
  ASSUME NEW rest \in [Streams -> SUBSET Items], NEW s \in Streams, NEW at \in Nat,
         reader.cursor[s] \in Nat, at <= reader.cursor[s],
         \A x \in rest[s] : at < x.offset /\ x.offset <= reader.cursor[s]
  PROVE  /\ Place(rest, s) \in Nat /\ at <= Place(rest, s) /\ Place(rest, s) <= reader.cursor[s]
         /\ \A x \in rest[s] : Place(rest, s) < x.offset
         /\ rest[s] = {} => Place(rest, s) = reader.cursor[s]
         /\ rest[s] # {} => \E x \in rest[s] : x.offset = Place(rest, s) + 1
<1>1. CASE rest[s] = {}
  BY <1>1 DEF Place
<1>2. CASE rest[s] # {}
  <2> DEFINE offsets == {x.offset : x \in rest[s]}
  <2>1. offsets \in SUBSET Nat /\ offsets # {}
    BY <1>2 DEF Items
  <2>2. Min(offsets) \in offsets /\ \A o \in offsets : Min(offsets) <= o
    BY <2>1, MinIn
  <2>3. Place(rest, s) = Min(offsets) - 1
    BY <1>2 DEF Place
  <2>4. PICK x \in rest[s] : Min(offsets) = x.offset
    BY <2>2
  <2>5. x.offset \in Nat /\ at < x.offset /\ x.offset <= reader.cursor[s]
    BY <2>1, <2>4
  <2>6. ASSUME NEW y \in rest[s] PROVE x.offset <= y.offset /\ y.offset \in Nat
    BY <2>1, <2>2, <2>4
  <2>7. Place(rest, s) = x.offset - 1
    BY <2>3, <2>4
  <2> HIDE DEF offsets
  <2>8. \A y \in rest[s] : Place(rest, s) < y.offset
    BY <2>5, <2>6, <2>7
  <2>9. Place(rest, s) \in Nat /\ at <= Place(rest, s) /\ Place(rest, s) <= reader.cursor[s]
        /\ x.offset = Place(rest, s) + 1
    BY <2>5, <2>7
  <2> QED BY <1>2, <2>8, <2>9
<1> QED BY <1>1, <1>2

\* The queue changes its phase.
LEMMA PhaseStep ==
  ASSUME SourceInv, ReaderInv, UNCHANGED <<source, Unshown>>, slot' = slot,
         durable' = durable, accepted' = accepted, Multi, Reading,
         reader' \in Readers, reader'.up = reader.up, reader'.acked = reader.acked,
         reader'.batch = reader.batch, reader'.ready = reader.ready, reader'.base = reader.base,
         reader'.flight = reader.flight, reader'.cursor = reader.cursor, reader'.seen = reader.seen,
         reader'.hasDurableAck = reader.hasDurableAck, reader'.queue = Kept(reader.queue),
         reader'.phase = "fence" => \E s \in Active : \E x \in Kept(reader.queue)[s] : x.order = reader'.candidate
  PROVE  SourceInv' /\ ReaderInv'
<1> DEFINE queue == Kept(reader.queue)
           acked == reader.acked
<1>t. SourceTypes /\ ReaderTypes /\ slot \in [Streams -> Nat] /\ ~Single /\ ~Merging
  BY Kinds DEF SourceInv, ReaderInv, SourceTypes
<1>s. /\ Active' = Active /\ Multi' = Multi /\ Single' = Single /\ log' = log /\ Nothing' = Nothing
  BY <1>t, SourceSame
<1>k. /\ reader.up /\ ~Flying /\ Here = acked /\ reader.flight = Nothing /\ MultiInv
  BY ReadingIs DEF ReaderInv
<1>l. ~(Flying') /\ Here' = acked
  BY <1>k DEF Flying, Here
<1>1. ASSUME NEW s \in Active
      PROVE  Reads(log[s], acked.at[s], acked.order, reader.cursor[s], queue[s], reader.seen[s])
  <2>1. Reads(log[s], acked.at[s], acked.order, reader.cursor[s], reader.queue[s], reader.seen[s])
    BY <1>k DEF MultiInv
  <2>2. s \in Streams /\ reader.cursor[s] \in Nat /\ acked.at[s] \in Nat
    BY <1>t, ReaderIs, StoredIs, ActiveStreams
  <2>3. \A n \in acked.at[s] + 1 .. reader.cursor[s] : n \in 1 .. reader.cursor[s]
    BY <2>2
  <2>4. \A n \in acked.at[s] + 1 .. reader.cursor[s] :
          log[s][n].kind = "row" /\ log[s][n].order > acked.order => Item(log[s][n], n) \in queue[s]
    BY <2>3, KeptIs
  <2>5. \A x \in queue[s] : acked.at[s] < x.offset /\ x.offset <= reader.cursor[s]
                              /\ log[s][x.offset] = Row(x.order, x.part)
    BY KeptIs
  <2> HIDE DEF queue
  <2> QED BY <2>1, <2>4, <2>5 DEF Reads
<1>2. ASSUME reader'.phase = "fence"
      PROVE  /\ reader'.candidate > acked.order
             /\ \E s \in Active : \E x \in queue[s] : x.order = reader'.candidate
  BY <1>2, KeptIs
<1> HIDE DEF queue
<1>3. MultiInv'
  <2>1. reader'.queue = queue
    BY DEF queue
  <2> QED BY <1>s, <1>l, <1>k, <1>1, <1>2, <2>1 DEF MultiInv
<1>4. SingleInv'
  BY <1>s, <1>t DEF SingleInv
<1> QED BY <1>t, <1>k, <1>3, <1>4, ReadStep

\* A request is handed out, whose order the rows that are left are behind.
LEMMA HandOutStep ==
  ASSUME SourceInv, ReaderInv, UNCHANGED <<source, Unshown>>, slot' = slot,
         durable' = durable, accepted' = accepted, Multi, Reading,
         NEW rest \in [Streams -> SUBSET Items], NEW order \in Nat, NEW txs \in Seq(Txs),
         order > reader.acked.order, order < NextOrder,
         \A s \in Active : rest[s] \subseteq Kept(reader.queue)[s],
         \A s \in Active : \A x \in Kept(reader.queue)[s] : x.order > order => x \in rest[s],
         source.started \/ \E s \in Active : Place(rest, s) > 0,
         Brings(committed, txs, reader.acked.order, order),
         reader' = HandsOut(Request(txs, MultiPosition(order, rest), {}), rest)
  PROVE  SourceInv' /\ ReaderInv'
<1> DEFINE acked == reader.acked
           pos == MultiPosition(order, rest)
           flight == Request(txs, pos, {})
<1>t. SourceTypes /\ ReaderTypes /\ slot \in [Streams -> Nat] /\ ~Single /\ ~Merging /\ acked \in Good
  BY Kinds DEF SourceInv, ReaderInv, SourceTypes, Positioned
<1>s. /\ Active' = Active /\ Multi' = Multi /\ Single' = Single /\ log' = log
  BY <1>t, SourceSame
<1>k. reader.up /\ ~Flying /\ Here = acked /\ MultiInv
  BY ReadingIs DEF ReaderInv
<1>a. Active \subseteq Streams /\ 1 \in Active /\ acked.order \in Nat
  BY <1>t, ActiveStreams, GoodIs
<1>b. ASSUME NEW s \in Active
      PROVE  /\ acked.at[s] \in Nat /\ reader.cursor[s] \in Nat
             /\ Reads(log[s], acked.at[s], acked.order, reader.cursor[s], reader.queue[s], reader.seen[s])
             /\ acked.at[s] <= reader.cursor[s] /\ reader.cursor[s] <= Len(log[s])
  <2>1. Reads(log[s], acked.at[s], acked.order, reader.cursor[s], reader.queue[s], reader.seen[s])
    BY <1>k DEF MultiInv
  <2> QED BY <1>a, <1>t, <2>1, ReaderIs, GoodIs DEF Reads
<1>c. ASSUME NEW s \in Active
      PROVE  /\ Place(rest, s) \in Nat /\ acked.at[s] <= Place(rest, s) /\ Place(rest, s) <= reader.cursor[s]
             /\ \A x \in rest[s] : Place(rest, s) < x.offset
             /\ \A x \in rest[s] : x.offset <= reader.cursor[s] /\ log[s][x.offset] = Row(x.order, x.part)
  <2>1. \A x \in rest[s] : /\ acked.at[s] < x.offset /\ x.offset <= reader.cursor[s]
                           /\ log[s][x.offset] = Row(x.order, x.part)
    BY KeptIs
  <2> QED BY <1>a, <1>b, <2>1, PlaceIs
<1>d. ASSUME NEW s \in Active, NEW n \in 1 .. reader.cursor[s], log[s][n].kind = "row", log[s][n].order > order
      PROVE  Item(log[s][n], n) \in rest[s]
  <2>1. log[s][n].order \in Nat
    <3>1. n \in 1 .. Len(log[s]) /\ s \in Streams
      BY <1>a, <1>b, <1>t, LogIs
    <3> QED BY <1>t, <3>1, LogIs
  <2>2. Item(log[s][n], n) \in Kept(reader.queue)[s]
    BY <1>a, <1>d, <2>1, KeptIs
  <2> QED BY <1>d, <2>2, ItemIs
<1>e. /\ pos.order = order /\ pos \in Stored
      /\ \A s \in Active : pos.at[s] = Place(rest, s)
      /\ \A s \in Streams \ Active : pos.at[s] = 0
  <2>1. [s \in Streams |-> IF s \in Active THEN Place(rest, s) ELSE 0] \in [Streams -> Nat]
    BY <1>c
  <2> HIDE DEF Place
  <2> QED BY <1>a, <2>1 DEF MultiPosition, Position, Stored
<1> HIDE DEF pos
<1>f. pos \in Good
  <2>1. ASSUME NEW s \in Active
        PROVE  /\ pos.at[s] <= Len(log[s])
               /\ \A n \in 1 .. pos.at[s] : log[s][n].kind = "row" => log[s][n].order <= pos.order
               /\ source.started => pos.at[s] >= 1
    <3>1. pos.at[s] \in Nat /\ pos.at[s] <= reader.cursor[s] /\ acked.at[s] <= pos.at[s]
      BY <1>c, <1>e
    <3>2. Len(log[s]) \in Nat
      BY <1>a, <1>t, LogIs
    <3>3. pos.at[s] <= Len(log[s])
      BY <1>b, <3>1, <3>2
    <3>4. ASSUME NEW n \in 1 .. pos.at[s], log[s][n].kind = "row" PROVE log[s][n].order <= order
      <4>1. n \in 1 .. reader.cursor[s] /\ n \in 1 .. Len(log[s])
        BY <1>b, <3>1, <3>2, <3>3
      <4>2. log[s][n].order \in Nat
        BY <1>a, <1>t, <4>1, LogIs
      <4>3. ~(log[s][n].order > order)
        <5> SUFFICES ASSUME log[s][n].order > order PROVE FALSE
          OBVIOUS
        <5>1. Item(log[s][n], n) \in rest[s]
          BY <1>d, <3>4, <4>1
        <5>2. Place(rest, s) < n
          BY <1>c, <5>1, ItemIs
        <5> QED BY <1>e, <3>1, <5>2
      <4> QED BY <4>2, <4>3
    <3>5. source.started => pos.at[s] >= 1
      BY <1>b, <1>t, <3>1, GoodIs
    <3> QED BY <1>e, <3>3, <3>4, <3>5
  <2>2. \E s \in Active : pos.at[s] > 0
    <3>1. CASE source.started
      <4>1. pos.at[1] >= 1 /\ pos.at[1] \in Nat
        BY <1>a, <1>c, <1>e, <2>1, <3>1
      <4>2. pos.at[1] > 0
        BY <4>1
      <4> QED BY <1>a, <4>2
    <3>2. CASE \E s \in Active : Place(rest, s) > 0
      BY <1>e, <3>2
    <3> QED BY <3>1, <3>2
  <2>3. pos.order >= 1 /\ pos.order < NextOrder
    BY <1>a, <1>e, <1>t, GoodIs
  <2> QED BY <1>e, <2>1, <2>2, <2>3 DEF Good, Right
<1>g. /\ flight \in Flights /\ flight.stage = "read" /\ flight.txs = txs /\ flight.pos = pos /\ flight.acks = {}
  BY <1>e DEF Request, Flights
<1> HIDE DEF flight
<1>r. /\ reader' \in Readers /\ reader'.up = reader.up /\ reader'.acked = reader.acked
      /\ reader'.hasDurableAck = reader.hasDurableAck
      /\ reader'.phase = "seed"
      /\ reader'.batch = reader.batch /\ reader'.ready = reader.ready /\ reader'.base = reader.base
      /\ reader'.flight = flight /\ reader'.cursor = reader.cursor
      /\ reader'.queue = rest /\ reader'.seen = reader.seen
  <2>1. reader \in Readers
    BY <1>t, ReaderIs
  <2>2. reader' = [reader EXCEPT !.flight = flight, !.queue = rest, !.phase = "seed"]
    BY DEF HandsOut, flight, pos
  <2> QED BY <1>g, <2>1, <2>2 DEF Readers
<1>l. Flying' /\ Here' = pos
  BY <1>r, <1>g DEF Flying, Here
<1>1. ASSUME NEW s \in Active
      PROVE  Reads(log[s], pos.at[s], pos.order, reader.cursor[s], rest[s], reader.seen[s])
  <2>1. pos.at[s] = Place(rest, s) /\ pos.at[s] \in Nat
    BY <1>c, <1>e
  <2>2. \A n \in pos.at[s] + 1 .. reader.cursor[s] : n \in 1 .. reader.cursor[s]
    BY <1>b, <2>1
  <2>3. \A n \in pos.at[s] + 1 .. reader.cursor[s] :
          log[s][n].kind = "row" /\ log[s][n].order > pos.order => Item(log[s][n], n) \in rest[s]
    BY <1>d, <1>e, <2>2
  <2> QED BY <1>b, <1>c, <2>1, <2>3 DEF Reads
<1>3. MultiInv'
  BY <1>s, <1>r, <1>l, <1>k, <1>1 DEF MultiInv
<1>4. SingleInv'
  BY <1>s, <1>t DEF SingleInv
<1>5. \A s \in Streams : pos.at[s] >= acked.at[s]
  <2> SUFFICES ASSUME NEW s \in Streams PROVE pos.at[s] >= acked.at[s]
    OBVIOUS
  <2>1. CASE s \in Active
    BY <1>b, <1>c, <1>e, <2>1
  <2>2. CASE s \notin Active
    BY <1>e, <1>t, <2>2, GoodIs
  <2> QED BY <2>1, <2>2
<1>6. /\ reader'.flight.stage = "read" /\ reader'.flight.acks = {} /\ reader'.flight.pos \in Good
      /\ reader'.flight.pos.order >= reader.acked.order
      /\ \A s \in Streams : reader'.flight.pos.at[s] >= reader.acked.at[s]
      /\ Brings(committed, reader'.flight.txs, reader.acked.order, reader'.flight.pos.order)
  BY <1>a, <1>r, <1>g, <1>f, <1>e, <1>5
<1> QED BY <1>t, <1>r, <1>3, <1>4, <1>6, ReadStep

\* Nothing is queued: the position moves up to the watermarks.
LEMMA BarrierStep ==
  ASSUME SourceInv, ReaderInv, UNCHANGED <<source, Unshown>>, slot' = slot,
         durable' = durable, accepted' = accepted, Multi, Reading, Wanting = {},
         reader.phase = "idle", Queued(Kept(reader.queue)) = {},
         reader' = OnIdle(Kept(reader.queue))
  PROVE  SourceInv' /\ ReaderInv'
<1> DEFINE queue == Kept(reader.queue)
           acked == reader.acked
           seens == {reader.seen[s] : s \in Active}
<1>t. SourceTypes /\ Numbered /\ ReaderTypes
  BY DEF SourceInv, ReaderInv
<1>a. Active \subseteq Streams /\ 1 \in Active /\ acked.order \in Nat
  BY <1>t, ActiveStreams, ReaderIs, StoredIs
<1>b. \A s \in Active : reader.seen[s] \in Nat /\ reader.seen[s] > acked.order
  <2> SUFFICES ASSUME NEW s \in Active PROVE reader.seen[s] \in Nat /\ reader.seen[s] > acked.order
    OBVIOUS
  <2>1. reader.seen[s] \in Nat
    BY <1>a, <1>t, ReaderIs
  <2>2. ~(reader.seen[s] <= acked.order)
    BY DEF Wanting, Wants
  <2> QED BY <1>a, <2>1, <2>2
<1>c. seens \in SUBSET Nat /\ seens # {}
  BY <1>a, <1>b
<1>d. Min(seens) \in seens /\ \A x \in seens : Min(seens) <= x
  BY <1>c, MinIn
<1>e. /\ Barrier \in Nat /\ Barrier > acked.order
      /\ \A s \in Active : reader.seen[s] >= Barrier
  <2>1. Barrier = Min(seens)
    BY DEF Barrier
  <2>2. Barrier \in seens /\ \A x \in seens : Barrier <= x
    BY <1>d, <2>1
  <2> QED BY <1>b, <2>2
<1>f. \A s \in Active : queue[s] = {}
  <2>1. \A s \in Active : \A x : x \notin queue[s]
    BY QueuedIs
  <2> QED BY <2>1
<1>g. /\ \A i \in DOMAIN committed : \A r \in committed[i].rows :
           committed[i].order <= Barrier /\ committed[i].order > acked.order
             => \E x \in queue[r[1]] : x.order = committed[i].order /\ x.part = r[2]
      /\ Barrier < NextOrder
      /\ \A s \in Active : reader.cursor[s] > 0
  BY <1>e, AllRead
<1>h. queue \in [Streams -> SUBSET Items]
  BY KeptIs
<1> HIDE DEF queue
<1>1. Brings(committed, <<>>, acked.order, Barrier)
  <2> SUFFICES ASSUME NEW i \in DOMAIN committed, committed[i].order <= Barrier
               PROVE  committed[i].order <= acked.order
    BY DEF Brings
  <2>1. PICK r \in committed[i].rows : r[1] \in Active
    BY <1>t DEF Numbered
  <2>2. committed[i].order \in Nat
    BY <1>t, CommitIs
  <2>3. ~(committed[i].order > acked.order)
    BY <1>f, <1>g, <2>1
  <2> QED BY <1>a, <2>2, <2>3
<1>2. Place(queue, 1) > 0
  <2>1. Place(queue, 1) = reader.cursor[1]
    BY <1>a, <1>f DEF Place
  <2> QED BY <1>a, <1>g, <2>1
<1>3. reader' = HandsOut(Request(<<>>, MultiPosition(Barrier, queue), {}), queue)
  BY DEF OnIdle, queue
<1>4. <<>> \in Seq(Txs)
  OBVIOUS
<1>5. /\ \A s \in Active : queue[s] \subseteq Kept(reader.queue)[s]
      /\ \A s \in Active : \A x \in Kept(reader.queue)[s] : x.order > Barrier => x \in queue[s]
  BY DEF queue
<1>6. \E s \in Active : Place(queue, s) > 0
  BY <1>a, <1>2
<1> HIDE DEF acked
<1> QED BY <1>e, <1>g, <1>h, <1>1, <1>3, <1>4, <1>5, <1>6, HandOutStep DEF acked

\* The least order that is queued is a transaction, and nothing is before it.
LEMMA CandidateStep ==
  ASSUME SourceInv, ReaderInv, UNCHANGED <<source, Unshown>>, slot' = slot,
         durable' = durable, accepted' = accepted, Multi, Reading, Wanting = {},
         reader.phase = "fence",
         ~ \E o \in Queued(Kept(reader.queue)) : o < reader.candidate,
         reader' = TakeCandidate(Kept(reader.queue))
  PROVE  SourceInv' /\ ReaderInv'
<1> DEFINE queue == Kept(reader.queue)
           acked == reader.acked
           c == reader.candidate
           rest == Without(queue, c)
           rows == TakenFrom(queue, c)
<1>t. SourceTypes /\ Numbered /\ ReaderTypes /\ Firsts
  BY DEF SourceInv, ReaderInv
<1>a. /\ Active \subseteq Streams /\ acked.order \in Nat /\ c \in Nat
      /\ \A s \in Streams : reader.cursor[s] \in Nat /\ acked.at[s] \in Nat
  BY <1>t, ActiveStreams, ReaderIs, StoredIs
<1>m. /\ c > acked.order /\ \E s \in Active : \E x \in reader.queue[s] : x.order = c
      /\ \A s \in Active : Reads(log[s], acked.at[s], acked.order, reader.cursor[s], reader.queue[s], reader.seen[s])
  BY ReadingIs DEF ReaderInv, MultiInv
<1>b. \A s \in Active : reader.seen[s] \in Nat /\ reader.seen[s] > c
  <2> SUFFICES ASSUME NEW s \in Active PROVE reader.seen[s] \in Nat /\ reader.seen[s] > c
    OBVIOUS
  <2>1. reader.seen[s] \in Nat
    BY <1>a, <1>t, ReaderIs
  <2>2. ~(reader.seen[s] <= c)
    BY DEF Wanting, Wants
  <2> QED BY <1>a, <2>1, <2>2
<1>k. /\ queue \in [Streams -> SUBSET Items]
      /\ \A s \in Active : \A x \in queue[s] :
           /\ x.order \in Nat /\ x.offset \in Nat /\ x.order > acked.order
           /\ acked.at[s] < x.offset /\ x.offset <= reader.cursor[s]
           /\ log[s][x.offset] = Row(x.order, x.part)
           /\ Known(committed, s, x.order, x.part)
  BY KeptIs
<1>q. \A s \in Active : \A x \in queue[s] : x.order >= c
  <2> SUFFICES ASSUME NEW s \in Active, NEW x \in queue[s] PROVE x.order >= c
    OBVIOUS
  <2>1. x.order \in Queued(queue) /\ x.order \in Nat
    BY <1>k, QueuedIs
  <2>2. ~(x.order < c)
    BY <2>1
  <2> QED BY <1>a, <2>1, <2>2
<1>g. /\ \A i \in DOMAIN committed : \A r \in committed[i].rows :
           committed[i].order <= c /\ committed[i].order > acked.order
             => \E x \in queue[r[1]] : x.order = committed[i].order /\ x.part = r[2]
      /\ c < NextOrder
  <2>1. \A s \in Active : reader.seen[s] >= c
    BY <1>a, <1>b
  <2> QED BY <1>a, <1>m, <2>1, AllRead
<1>x. PICK s0 \in Active : \E x \in queue[s0] : x.order = c
  <2>1. PICK s \in Active : \E x \in reader.queue[s] : x.order = c
    BY <1>m
  <2>2. PICK x \in reader.queue[s] : x.order = c
    BY <2>1
  <2>3. /\ acked.at[s] < x.offset /\ x.offset <= reader.cursor[s] /\ log[s][x.offset] = Row(x.order, x.part)
    BY <1>m, <2>2 DEF Reads
  <2>4. x.offset \in Nat
    BY <1>a, <1>t, <2>2, ReaderIs DEF Items
  <2>5. x.offset \in 1 .. reader.cursor[s]
    BY <1>a, <2>3, <2>4
  <2>6. log[s][x.offset].kind = "row" /\ log[s][x.offset].order = c
    BY <2>2, <2>3 DEF Row
  <2>7. Item(log[s][x.offset], x.offset) \in queue[s]
    BY <1>m, <2>5, <2>6, KeptIs
  <2> QED BY <2>6, <2>7, ItemIs
<1> HIDE DEF queue
<1>y. PICK x0 \in queue[s0] : x0.order = c
  BY <1>x
<1>j. PICK j \in DOMAIN committed : committed[j].order = c /\ <<s0, x0.part>> \in committed[j].rows
  BY <1>k, <1>y DEF Known
<1>c. \A i \in DOMAIN committed : /\ committed[i] \in Txs /\ committed[i].order = 2 * i /\ i \in Nat
                                  /\ \A r \in committed[i].rows : r[1] \in Active /\ r = <<r[1], r[2]>>
  <2>1. DOMAIN committed \subseteq Nat
    BY <1>t, CommitIs
  <2> QED BY <1>t, <2>1, CommitIs
<1>1. rows = committed[j].rows
  <2>1. ASSUME NEW r \in rows PROVE r \in committed[j].rows
    <3>1. PICK s \in Active : \E x \in queue[s] : x.order = c /\ r = <<s, x.part>>
      BY DEF TakenFrom
    <3>2. PICK x \in queue[s] : x.order = c /\ r = <<s, x.part>>
      BY <3>1
    <3>3. PICK i \in DOMAIN committed : committed[i].order = c /\ <<s, x.part>> \in committed[i].rows
      BY <1>k, <3>2 DEF Known
    <3>4. i = j
      BY <1>c, <1>j, <3>3
    <3> QED BY <3>2, <3>3, <3>4
  <2>2. ASSUME NEW r \in committed[j].rows PROVE r \in rows
    <3>1. committed[j].order <= c /\ committed[j].order > acked.order
      BY <1>a, <1>j, <1>m
    <3>2. PICK x \in queue[r[1]] : x.order = c /\ x.part = r[2]
      BY <1>g, <1>j, <3>1
    <3>3. r[1] \in Active /\ r = <<r[1], x.part>>
      BY <1>c, <3>2
    <3> QED BY <3>2, <3>3 DEF TakenFrom
  <2> QED BY <2>1, <2>2
<1>2. Assembled(c, rows) = committed[j]
  BY <1>c, <1>j, <1>1 DEF Assembled, Txs
<1>3. Brings(committed, <<Assembled(c, rows)>>, acked.order, c)
  <2>1. ASSUME NEW i \in DOMAIN committed PROVE committed[i].order <= acked.order <=> i < j
    <3>1. committed[i].order = 2 * i /\ c = 2 * j /\ i \in Nat /\ j \in Nat
      BY <1>c, <1>j
    <3>2. CASE i < j
      <4>1. committed[i].order < c
        BY <3>1, <3>2
      <4>2. PICK r \in committed[i].rows : r[1] \in Active
        BY <1>t DEF Numbered
      <4>3. ~(committed[i].order > acked.order)
        <5> SUFFICES ASSUME committed[i].order > acked.order PROVE FALSE
          OBVIOUS
        <5>1. PICK x \in queue[r[1]] : x.order = committed[i].order
          BY <1>g, <3>1, <4>1, <4>2
        <5>2. x.order >= c
          BY <1>q, <4>2, <5>1
        <5> QED BY <3>1, <4>1, <5>1, <5>2
      <4> QED BY <1>a, <3>1, <3>2, <4>3
    <3>3. CASE ~(i < j)
      BY <1>a, <1>m, <3>1, <3>3
    <3> QED BY <3>2, <3>3
  <2> QED BY <1>2, <1>j, <2>1 DEF Brings
<1>r. /\ rest \in [Streams -> SUBSET Items]
      /\ \A s \in Streams : \A x : x \in rest[s] <=> x \in queue[s] /\ x.order # c
  BY <1>k DEF Without
<1> HIDE DEF rest, rows
<1>4. source.started \/ Place(rest, s0) > 0
  <2> SUFFICES ASSUME ~source.started PROVE Place(rest, s0) > 0
    OBVIOUS
  <2>1. source.sorted
    BY <1>t, Kinds
  <2>2. s0 \in Streams
    BY <1>a
  <2>3. acked.at[s0] <= reader.cursor[s0] /\ \A x \in rest[s0] : acked.at[s0] < x.offset /\ x.offset <= reader.cursor[s0]
    BY <1>k, <1>m, <1>r, <2>2 DEF Reads
  <2>4. /\ Place(rest, s0) \in Nat
        /\ rest[s0] = {} => Place(rest, s0) = reader.cursor[s0]
        /\ rest[s0] # {} => \E x \in rest[s0] : x.offset = Place(rest, s0) + 1
    BY <1>a, <1>r, <2>2, <2>3, PlaceIs
  <2>5. CASE rest[s0] = {}
    <3>1. /\ reader.cursor[s0] \in Nat /\ acked.at[s0] \in Nat /\ acked.at[s0] < x0.offset
          /\ x0.offset <= reader.cursor[s0] /\ x0.offset \in Nat
      BY <1>a, <1>k, <1>y, <2>2
    <3> QED BY <2>4, <2>5, <3>1
  <2>6. CASE rest[s0] # {}
    <3>1. PICK y \in rest[s0] : y.offset = Place(rest, s0) + 1
      BY <2>4, <2>6
    <3>2. y \in queue[s0] /\ y.order # c /\ y.order \in Nat /\ y.order >= c
      BY <1>k, <1>q, <1>r, <2>2, <3>1
    <3>3. Place(rest, s0) # 0
      <4> SUFFICES ASSUME Place(rest, s0) = 0 PROVE FALSE
        OBVIOUS
      <4>1. y.offset = 1
        BY <3>1
      <4>2. log[s0][1] = Row(y.order, y.part)
        BY <1>k, <3>2, <4>1
      <4>3. 1 <= reader.cursor[s0] /\ reader.cursor[s0] <= Len(log[s0])
        BY <1>k, <1>m, <3>2, <4>1 DEF Reads
      <4>4. 1 \in 1 .. Len(log[s0])
        BY <1>a, <1>t, <2>2, <4>3, LogIs
      <4>5. Shown(committed, log[s0], s0, y.order, 1)
        BY <1>t, <2>1, <4>2, <4>4 DEF Firsts, Row
      <4>6. committed[j].order < y.order
        BY <1>a, <1>j, <3>2
      <4>7. InLog(log[s0], c, x0.part, 1)
        BY <1>j, <4>5, <4>6 DEF Shown
      <4>8. log[s0][1] = Row(c, x0.part)
        BY <4>7 DEF InLog
      <4> QED BY <3>2, <4>2, <4>8 DEF Row
    <3> QED BY <2>4, <3>3
  <2> QED BY <2>5, <2>6
<1>5. <<Assembled(c, rows)>> \in Seq(Txs)
  BY <1>2, <1>c
<1>6. /\ \A s \in Active : rest[s] \subseteq Kept(reader.queue)[s]
      /\ \A s \in Active : \A x \in Kept(reader.queue)[s] : x.order > c => x \in rest[s]
  <2>1. \A s \in Active : \A x \in queue[s] : x.order > c => x.order # c
    BY <1>a, <1>k
  <2> QED BY <1>a, <1>r, <2>1 DEF queue
<1>7. reader' = HandsOut(Request(<<Assembled(c, rows)>>, MultiPosition(c, rest), {}), rest)
  BY DEF TakeCandidate, queue, rest, rows
<1>8. source.started \/ \E s \in Active : Place(rest, s) > 0
  BY <1>4
<1> HIDE DEF acked
<1> QED BY <1>a, <1>g, <1>m, <1>r, <1>3, <1>5, <1>6, <1>7, <1>8, HandOutStep DEF acked

\* Every decision of the reader of several partitions keeps the invariant.
LEMMA DecideStep ==
  ASSUME SourceInv, ReaderInv, UNCHANGED <<source, Unshown>>, slot' = slot, Decide
  PROVE  SourceInv' /\ ReaderInv'
<1> DEFINE queue == Kept(reader.queue)
<1>t. SourceTypes /\ ReaderTypes
  BY DEF SourceInv, ReaderInv
<1>a. /\ Multi /\ Reading /\ Wanting = {} /\ durable' = durable /\ accepted' = accepted
  BY DEF Decide
<1>b. reader \in Readers /\ reader.phase \in {"seed", "idle", "fence"}
  BY <1>t, ReaderIs
<1>c. queue \in [Streams -> SUBSET Items] /\ Queued(queue) \in SUBSET Nat
  BY <1>a, KeptIs, QueuedIs
<1>d. ASSUME NEW phase \in {"seed", "idle", "fence"}, NEW candidate \in Nat,
             reader' = [reader EXCEPT !.queue = queue, !.phase = phase, !.candidate = candidate],
             phase = "fence" => \E s \in Active : \E x \in queue[s] : x.order = candidate
      PROVE  SourceInv' /\ ReaderInv'
  <2> HIDE DEF queue
  <2>1. /\ reader' \in Readers /\ reader'.up = reader.up /\ reader'.acked = reader.acked
        /\ reader'.batch = reader.batch /\ reader'.ready = reader.ready /\ reader'.base = reader.base
        /\ reader'.flight = reader.flight /\ reader'.cursor = reader.cursor /\ reader'.seen = reader.seen
        /\ reader'.hasDurableAck = reader.hasDurableAck /\ reader'.queue = queue
        /\ reader'.phase = phase /\ reader'.candidate = candidate
    BY <1>b, <1>c, <1>d DEF Readers
  <2> QED BY <1>a, <1>d, <2>1, PhaseStep DEF queue
<1>e. ASSUME Queued(queue) # {}, reader' = Approach(queue) PROVE SourceInv' /\ ReaderInv'
  <2>1. Min(Queued(queue)) \in Queued(queue)
    BY <1>c, <1>e, MinIn
  <2>2. \E s \in Active : \E x \in queue[s] : x.order = Min(Queued(queue))
    BY <1>a, <2>1, QueuedIs
  <2>3. reader' = [reader EXCEPT !.queue = queue, !.phase = "fence", !.candidate = Min(Queued(queue))]
    BY <1>e DEF Approach
  <2>4. Min(Queued(queue)) \in Nat
    BY <1>c, <2>1
  <2> HIDE DEF queue
  <2> QED BY <1>d, <2>2, <2>3, <2>4
<1>f. ASSUME NEW phase \in {"seed", "idle"}, reader' = [reader EXCEPT !.queue = queue, !.phase = phase]
      PROVE  SourceInv' /\ ReaderInv'
  <2> HIDE DEF queue
  <2>1. reader' = [reader EXCEPT !.queue = queue, !.phase = phase, !.candidate = reader.candidate]
    BY <1>b, <1>f DEF Readers
  <2>2. reader.candidate \in Nat
    BY <1>t, ReaderIs
  <2> QED BY <1>d, <2>1, <2>2
<1>1. CASE reader.phase = "seed"
  <2>1. reader' = OnSeed(queue)
    BY <1>1 DEF Decide
  <2>2. CASE Queued(queue) # {}
    <3>1. reader' = Approach(queue)
      BY <2>1, <2>2 DEF OnSeed
    <3> QED BY <1>e, <2>2, <3>1
  <2>3. CASE Queued(queue) = {}
    <3>1. reader' = [reader EXCEPT !.queue = queue, !.phase = "idle"]
      BY <2>1, <2>3 DEF OnSeed
    <3> QED BY <1>f, <3>1
  <2> QED BY <2>2, <2>3
<1>2. CASE reader.phase = "idle"
  <2>1. reader' = OnIdle(queue)
    BY <1>2 DEF Decide
  <2>2. CASE Queued(queue) # {}
    <3>1. reader' = Approach(queue)
      BY <2>1, <2>2 DEF OnIdle
    <3> QED BY <1>e, <2>2, <3>1
  <2>3. CASE Queued(queue) = {}
    BY <1>a, <1>2, <2>1, <2>3, BarrierStep
  <2> QED BY <2>2, <2>3
<1>3. CASE reader.phase = "fence"
  <2>1. reader' = OnFence(queue)
    BY <1>3 DEF Decide
  <2>2. CASE \E o \in Queued(queue) : o < reader.candidate
    <3>1. reader' = [reader EXCEPT !.queue = queue, !.phase = "seed"]
      BY <2>1, <2>2 DEF OnFence
    <3> QED BY <1>f, <3>1
  <2>3. CASE ~ \E o \in Queued(queue) : o < reader.candidate
    <3>1. reader' = TakeCandidate(queue)
      BY <2>1, <2>3 DEF OnFence
    <3> QED BY <1>a, <1>3, <2>3, <3>1, CandidateStep
  <2> QED BY <2>2, <2>3
<1> QED BY <1>b, <1>1, <1>2, <1>3

-----------------------------------------------------------------------------
(* One partition. *)
\* The reader stands behind a group of rows of one order.
LEMMA GroupIs ==
  ASSUME SourceInv, ReaderInv, Single, Reading
  PROVE  /\ 1 \in Streams /\ Active = {1} /\ ~Multi /\ ~Merging /\ reader.acked \in Good
         /\ reader.acked.at[1] \in Nat /\ reader.cursor[1] \in Nat /\ reader.acked.order \in Nat
         /\ reader.acked.at[1] <= reader.cursor[1] /\ reader.cursor[1] <= Len(log[1])
         /\ log[1] \in Seq(Records) /\ Len(log[1]) \in Nat
         /\ Group = {Item(log[1][n], n) : n \in reader.acked.at[1] + 1 .. reader.cursor[1]}
         /\ \A n \in reader.acked.at[1] + 1 .. reader.cursor[1] :
              log[1][n].kind = "row" /\ log[1][n].order = log[1][reader.acked.at[1] + 1].order
         /\ Group = {} <=> reader.acked.at[1] = reader.cursor[1]
         /\ Group # {} => GroupOrder = log[1][reader.acked.at[1] + 1].order
                          /\ Max({x.offset : x \in Group}) = reader.cursor[1]
<1> DEFINE at == reader.acked.at[1]
           cursor == reader.cursor[1]
           stream == log[1]
<1>t. SourceTypes /\ ReaderTypes /\ reader.acked \in Good
  BY DEF SourceInv, ReaderInv, Positioned
<1>1. 1 \in Streams /\ Active = {1} /\ ~Multi /\ ~Merging /\ reader.acked.order \in Nat
  BY <1>t, ActiveStreams, Kinds, GoodIs
<1>2. at \in Nat /\ cursor \in Nat /\ stream \in Seq(Records) /\ Len(stream) \in Nat
  BY <1>1, <1>t, ReaderIs, StoredIs, LogIs
<1>3. Gathers(stream, at, cursor, reader.queue[1])
  BY ReadingIs DEF ReaderInv, SingleInv
<1>4. /\ at <= cursor /\ cursor <= Len(stream)
      /\ Group = {Item(stream[n], n) : n \in at + 1 .. cursor}
      /\ \A n \in at + 1 .. cursor : stream[n].kind = "row" /\ stream[n].order = stream[at + 1].order
  BY <1>3 DEF Gathers, Group
<1>5. Group = {} <=> at = cursor
  <2>1. at = cursor => at + 1 .. cursor = {}
    BY <1>2
  <2>2. at # cursor => cursor \in at + 1 .. cursor
    BY <1>2, <1>4
  <2> QED BY <1>4, <2>1, <2>2
<1>6. ASSUME Group # {}
      PROVE  GroupOrder = stream[at + 1].order /\ Max({x.offset : x \in Group}) = cursor
  <2>1. at < cursor /\ cursor \in at + 1 .. cursor /\ at + 1 \in at + 1 .. cursor
    BY <1>2, <1>4, <1>5, <1>6
  <2>2. stream[at + 1].order \in Nat
    <3>1. at + 1 \in 1 .. Len(stream)
      BY <1>2, <1>4, <2>1
    <3> QED BY <1>2, <3>1, Elements
  <2>3. Orders(Group) = {stream[at + 1].order}
    <3>1. \A x \in Group : x.order = stream[at + 1].order
      BY <1>4, ItemIs
    <3> QED BY <1>6, <3>1 DEF Orders
  <2>4. GroupOrder = stream[at + 1].order
    <3>1. {stream[at + 1].order} \in SUBSET Nat
      BY <2>2
    <3>2. Min({stream[at + 1].order}) \in {stream[at + 1].order}
      BY <3>1, MinIn
    <3>3. GroupOrder = Min({stream[at + 1].order})
      BY <2>3 DEF GroupOrder
    <3> QED BY <3>2, <3>3
  <2> DEFINE offsets == {x.offset : x \in Group}
  <2>5. offsets = at + 1 .. cursor
    <3>1. \A n \in at + 1 .. cursor : Item(stream[n], n) \in Group /\ Item(stream[n], n).offset = n
      BY <1>4, ItemIs
    <3>2. \A x \in Group : x.offset \in at + 1 .. cursor
      BY <1>4, ItemIs
    <3> HIDE DEF stream, at, cursor
    <3> QED BY <3>1, <3>2
  <2>6. /\ at + 1 .. cursor \in SUBSET Nat /\ at + 1 .. cursor # {} /\ \A x \in at + 1 .. cursor : x <= cursor
    BY <1>2, <2>1
  <2>7. /\ Max(at + 1 .. cursor) \in at + 1 .. cursor /\ \A x \in at + 1 .. cursor : x <= Max(at + 1 .. cursor)
    BY <1>2, <2>6, MaxIn
  <2>8. cursor <= Max(at + 1 .. cursor)
    BY <2>1, <2>7
  <2>9. Max(at + 1 .. cursor) = cursor
    BY <1>2, <2>7, <2>8
  <2> QED BY <2>4, <2>5, <2>9
<1> QED BY <1>t, <1>1, <1>2, <1>4, <1>5, <1>6

\* A row is added to the group of one partition.
LEMMA CollectStep ==
  ASSUME SourceInv, ReaderInv, UNCHANGED <<source, Unshown>>, slot' = slot,
         durable' = durable, accepted' = accepted, Single, Reading, reader.cursor[1] < Len(log[1]),
         log[1][reader.cursor[1] + 1].kind = "row",
         Group # {} => log[1][reader.cursor[1] + 1].order = GroupOrder,
         reader' = Collect(log[1][reader.cursor[1] + 1], reader.cursor[1] + 1)
  PROVE  SourceInv' /\ ReaderInv'
<1> DEFINE at == reader.acked.at[1]
           cursor == reader.cursor[1]
           stream == log[1]
           item == Item(stream[cursor + 1], cursor + 1)
<1>t. SourceTypes /\ ReaderTypes /\ reader \in Readers
  BY ReaderIs DEF SourceInv, ReaderInv
<1>s. /\ Active' = Active /\ Multi' = Multi /\ Single' = Single /\ log' = log
  BY SourceSame DEF SourceInv, SourceTypes
<1>k. reader.up /\ ~Flying /\ Here = reader.acked /\ reader.flight = Nothing
  BY ReadingIs
<1>g. /\ 1 \in Streams /\ ~Multi /\ ~Merging
      /\ at \in Nat /\ cursor \in Nat /\ at <= cursor /\ cursor <= Len(stream)
      /\ stream \in Seq(Records) /\ Len(stream) \in Nat
      /\ Group = {Item(stream[n], n) : n \in at + 1 .. cursor}
      /\ \A n \in at + 1 .. cursor : stream[n].kind = "row" /\ stream[n].order = stream[at + 1].order
      /\ Group = {} <=> at = cursor
      /\ Group # {} => GroupOrder = stream[at + 1].order
  BY GroupIs
<1>i. item \in Items
  <2>1. cursor + 1 \in 1 .. Len(stream)
    BY <1>g
  <2>2. stream[cursor + 1] \in Records
    BY <1>g, <2>1, Elements
  <2>3. cursor + 1 \in Nat
    BY <1>g
  <2> HIDE DEF cursor, stream
  <2> QED BY <2>2, <2>3 DEF item, Item, Items, Records
<1> HIDE DEF item
<1>r. /\ reader' \in Readers /\ reader'.up = reader.up /\ reader'.acked = reader.acked
      /\ reader'.batch = reader.batch /\ reader'.ready = reader.ready /\ reader'.base = reader.base
      /\ reader'.flight = reader.flight
      /\ reader'.cursor = [reader.cursor EXCEPT ![1] = cursor + 1]
      /\ reader'.queue = [reader.queue EXCEPT ![1] = Group \cup {item}]
  <2>1. reader' = [reader EXCEPT !.cursor[1] = cursor + 1, !.queue[1] = @ \cup {item}]
    BY DEF Collect, item
  <2>2. Group = reader.queue[1]
    BY DEF Group
  <2> DEFINE cursors == [reader.cursor EXCEPT ![1] = cursor + 1]
             queues == [reader.queue EXCEPT ![1] = Group \cup {item}]
  <2>3. reader' = [reader EXCEPT !.cursor = cursors, !.queue = queues]
    BY <2>1, <2>2
  <2>4. cursors \in [Streams -> Nat] /\ queues \in [Streams -> SUBSET Items]
    BY <1>g, <1>i, <1>t, <2>2, ReaderIs
  <2> HIDE DEF cursors, queues
  <2>5. /\ reader' \in Readers /\ reader'.up = reader.up /\ reader'.acked = reader.acked
        /\ reader'.batch = reader.batch /\ reader'.ready = reader.ready /\ reader'.base = reader.base
        /\ reader'.flight = reader.flight /\ reader'.cursor = cursors /\ reader'.queue = queues
    BY <1>t, <2>3, <2>4 DEF Readers
  <2> QED BY <2>5 DEF cursors, queues
<1>1. Gathers(stream, at, cursor + 1, Group \cup {item})
  <2>1. at <= cursor + 1 /\ cursor + 1 <= Len(stream)
    BY <1>g
  <2>2. at + 1 .. cursor + 1 = (at + 1 .. cursor) \cup {cursor + 1}
    BY <1>g
  <2>3. Group \cup {item} = {Item(stream[n], n) : n \in at + 1 .. cursor + 1}
    BY <1>g, <2>2 DEF item
  <2>4. stream[cursor + 1].order = stream[at + 1].order
    BY <1>g
  <2>5. \A n \in at + 1 .. cursor + 1 : stream[n].kind = "row" /\ stream[n].order = stream[at + 1].order
    BY <1>g, <2>2, <2>4
  <2> QED BY <2>1, <2>3, <2>5 DEF Gathers
<1>2. SingleInv'
  <2>1. ~(Flying') /\ Here' = reader.acked
    BY <1>r, <1>k DEF Flying, Here
  <2>2. reader'.cursor[1] = cursor + 1 /\ reader'.queue[1] = Group \cup {item}
    BY <1>r, <1>g, <1>t, ReaderIs
  <2> QED BY <1>s, <1>1, <2>1, <2>2 DEF SingleInv
<1>3. MultiInv'
  BY <1>s, <1>g DEF MultiInv
<1> QED BY <1>g, <1>r, <1>k, <1>2, <1>3, ReadStep

\* A request with the next position.
LEMMA NextStep ==
  ASSUME SourceInv, ReaderInv, UNCHANGED <<source, Unshown>>, slot' = slot,
         durable' = durable, accepted' = accepted, Single, Reading,
         NEW txs \in Seq(Txs), NEW order \in Nat, NEW offset \in Nat,
         SinglePosition(order, offset) \in Good, IsNext(log[1], reader.acked, SinglePosition(order, offset)),
         order >= reader.acked.order, Brings(committed, txs, reader.acked.order, order),
         reader' \in Readers, reader'.up = reader.up, reader'.acked = reader.acked,
         reader'.batch = reader.batch, reader'.ready = reader.ready, reader'.base = reader.base,
         reader'.cursor[1] = offset, reader'.queue[1] = {},
         reader'.flight = Request(txs, SinglePosition(order, offset), {})
  PROVE  SourceInv' /\ ReaderInv'
<1> DEFINE pos == SinglePosition(order, offset)
           acked == reader.acked
<1>s. /\ Active' = Active /\ Multi' = Multi /\ Single' = Single /\ log' = log
  BY SourceSame DEF SourceInv, SourceTypes
<1>g. 1 \in Streams /\ Active = {1} /\ ~Multi /\ ~Merging /\ acked \in Good /\ acked.at[1] \in Nat /\ SourceTypes
  BY GroupIs DEF SourceInv
<1>p. pos.order = order /\ pos.at[1] = offset /\ \A s \in Streams : s # 1 => pos.at[s] = 0
  BY <1>g DEF SinglePosition, Position
<1> HIDE DEF pos
<1>f. /\ reader'.flight.stage = "read" /\ reader'.flight.txs = txs /\ reader'.flight.pos = pos
      /\ reader'.flight.acks = {}
  BY DEF Request, pos
<1>1. \A s \in Streams : pos.at[s] >= acked.at[s]
  <2> SUFFICES ASSUME NEW s \in Streams PROVE pos.at[s] >= acked.at[s]
    OBVIOUS
  <2>1. CASE s = 1
    BY <1>g, <1>p, <2>1 DEF IsNext, pos
  <2>2. CASE s # 1
    BY <1>g, <1>p, <2>2, GoodIs
  <2> QED BY <2>1, <2>2
<1>2. Gathers(log[1], offset, offset, {})
  <2>1. offset + 1 .. offset = {} /\ offset <= offset
    OBVIOUS
  <2>2. offset <= Len(log[1])
    BY <1>p DEF IsNext, pos
  <2> QED BY <2>1, <2>2 DEF Gathers
<1>3. SingleInv'
  <2>1. Flying' /\ Here' = pos
    BY <1>f DEF Flying, Here
  <2>2. IsNext(log[1], acked, pos)
    BY DEF pos
  <2> QED BY <1>s, <1>p, <1>f, <1>2, <2>1, <2>2 DEF SingleInv
<1>4. MultiInv'
  BY <1>s, <1>g DEF MultiInv
<1>5. /\ reader'.flight.pos \in Good /\ reader'.flight.pos.order >= reader.acked.order
      /\ \A s \in Streams : reader'.flight.pos.at[s] >= reader.acked.at[s]
      /\ Brings(committed, reader'.flight.txs, reader.acked.order, reader'.flight.pos.order)
  BY <1>f, <1>p, <1>1 DEF pos
<1> QED BY <1>g, <1>f, <1>3, <1>4, <1>5, ReadStep

\* Without rows that are sent again a log is in order.
LEMMA AscendingIs ==
  ASSUME SourceInv, ~Multi, NEW s \in Active
  PROVE  /\ \A n \in 1 .. Len(log[s]) : \A m \in 1 .. n : log[s][m].order <= log[s][n].order
         /\ \A n \in 1 .. Len(log[s]) : \A m \in 1 .. n - 1 :
              log[s][m].kind = "resolved" => log[s][m].order < log[s][n].order
         /\ \A n \in 1 .. Len(log[s]) : \A r \in pending[s] : log[s][n].order <= r.order
         /\ \A r \in pending[s] : resolved[s] < r.order
<1>1. SourceTypes /\ Ascending /\ s \in Streams
  BY ActiveStreams DEF SourceInv
<1>2. Len(log[s]) \in Nat /\ \A n \in 1 .. Len(log[s]) : log[s][n].order \in Nat
  BY <1>1, LogIs
<1>3. ASSUME NEW n \in 1 .. Len(log[s]), NEW m \in 1 .. n PROVE log[s][m].order <= log[s][n].order
  <2>1. CASE m = n
    BY <1>2, <2>1
  <2>2. CASE m # n
    <3>1. m \in 1 .. n - 1
      BY <1>2, <2>2
    <3> QED BY <1>1, <3>1 DEF Ascending
  <2> QED BY <2>1, <2>2
<1> QED BY <1>1, <1>3 DEF Ascending

\* The transaction behind a position, if no row between them is left.
LEMMA FirstBehind ==
  ASSUME SourceInv, ~Multi, NEW p \in Good, NEW j \in DOMAIN committed, p.order < committed[j].order,
         \A s \in Active : \A n \in p.at[s] + 1 .. Len(log[s]) :
           log[s][n].kind = "row" => committed[j].order <= log[s][n].order,
         \A s \in Active : \A r \in pending[s] : committed[j].order <= r.order
  PROVE  \A i \in DOMAIN committed : committed[i].order <= p.order <=> i < j
<1>t. SourceTypes /\ Numbered /\ Complete
  BY DEF SourceInv
<1>1. p.order \in Nat /\ committed[j].order = 2 * j /\ DOMAIN committed = 1 .. Len(committed)
  BY <1>t, GoodIs, CommitIs
<1> SUFFICES ASSUME NEW i \in DOMAIN committed
             PROVE  committed[i].order <= p.order <=> i < j
  OBVIOUS
<1>2. committed[i].order = 2 * i /\ i \in Nat /\ j \in Nat
  BY <1>t, <1>1, CommitIs
<1>3. ASSUME committed[i].order <= p.order PROVE i < j
  BY <1>1, <1>2, <1>3
<1>4. ASSUME i < j, ~(committed[i].order <= p.order) PROVE FALSE
  <2>1. PICK r \in committed[i].rows : r[1] \in Active
    BY <1>t DEF Numbered
  <2> DEFINE s == r[1]
             order == committed[i].order
  <2>2. p.order < order /\ order < committed[j].order
    BY <1>1, <1>2, <1>4
  <2>3. CASE Row(order, r[2]) \in pending[s]
    <3>1. Row(order, r[2]).order = order
      BY DEF Row
    <3> QED BY <1>1, <1>2, <2>1, <2>2, <2>3, <3>1
  <2>4. CASE InLog(log[s], order, r[2], Len(log[s]))
    <3>1. PICK m \in 1 .. Len(log[s]) : log[s][m] = Row(order, r[2])
      BY <2>4 DEF InLog
    <3>2. log[s][m].kind = "row" /\ log[s][m].order = order
      BY <3>1 DEF Row
    <3>3. p.at[s] \in Nat /\ Len(log[s]) \in Nat
      BY <1>t, <2>1, GoodIs, LogIs, ActiveStreams
    <3>4. CASE m <= p.at[s]
      <4>1. m \in 1 .. p.at[s]
        BY <3>3, <3>4
      <4>2. order <= p.order
        BY <1>t, <2>1, <3>2, <4>1, GoodIs
      <4> QED BY <1>1, <1>2, <2>2, <4>2
    <3>5. CASE ~(m <= p.at[s])
      <4>1. m \in p.at[s] + 1 .. Len(log[s])
        BY <3>3, <3>5
      <4> QED BY <1>1, <1>2, <2>1, <2>2, <3>2, <4>1
    <3> QED BY <3>4, <3>5
  <2> QED BY <1>t, <2>3, <2>4 DEF Complete
<1> QED BY <1>3, <1>4

\* A place in the only partition.
LEMMA SinglePositionIs ==
  ASSUME SourceTypes, Single, NEW order \in Nat, NEW offset \in Nat
  PROVE  /\ SinglePosition(order, offset) \in Stored
         /\ SinglePosition(order, offset).order = order
         /\ SinglePosition(order, offset).at[1] = offset
         /\ \A s \in Streams : s # 1 => SinglePosition(order, offset).at[s] = 0
<1>1. 1 \in Streams
  BY ActiveStreams
<1>2. [s \in Streams |-> IF s = 1 THEN offset ELSE 0] \in [Streams -> Nat]
  OBVIOUS
<1> QED BY <1>1, <1>2 DEF SinglePosition, Position, Stored

\* A watermark behind the position.
LEMMA SkipStep ==
  ASSUME SourceInv, ReaderInv, UNCHANGED <<source, Unshown>>, slot' = slot,
         durable' = durable, accepted' = accepted, Single, Reading, reader.cursor[1] < Len(log[1]),
         Group = {}, log[1][reader.cursor[1] + 1].kind = "resolved",
         reader' = Skip(log[1][reader.cursor[1] + 1].order, reader.cursor[1] + 1)
  PROVE  SourceInv' /\ ReaderInv'
<1> DEFINE acked == reader.acked
           stream == log[1]
           offset == reader.cursor[1] + 1
           order == stream[offset].order
           pos == SinglePosition(order, offset)
<1>t. SourceTypes /\ Numbered /\ Promised /\ Marks /\ ReaderTypes /\ reader \in Readers
  BY ReaderIs DEF SourceInv, ReaderInv
<1>g. /\ 1 \in Streams /\ 1 \in Active /\ Active = {1} /\ ~Multi /\ ~Merging /\ acked \in Good
      /\ acked.order \in Nat /\ acked.at[1] \in Nat /\ reader.cursor[1] \in Nat
      /\ acked.at[1] = reader.cursor[1] /\ Len(stream) \in Nat
  BY GroupIs
<1>o. /\ offset \in 1 .. Len(stream) /\ offset \in Nat /\ offset = acked.at[1] + 1
      /\ order \in Nat /\ resolved[1] \in Nat /\ NextOrder \in Nat
  BY <1>t, <1>g, LogIs, CommitIs
<1>a. acked.order < order /\ acked.order >= 1
  <2>1. offset \in acked.at[1] + 1 .. Len(stream)
    BY <1>g, <1>o
  <2> QED BY <1>t, <1>g, <2>1, GoodIs
<1>m. /\ Odd(order) /\ order <= resolved[1] /\ resolved[1] < NextOrder
      /\ Shown(committed, stream, 1, order + 1, offset)
  BY <1>t, <1>g, <1>o DEF Marks, Promised
<1>p. /\ pos \in Stored /\ pos.order = order /\ pos.at[1] = offset
      /\ \A s \in Streams : s # 1 => pos.at[s] = 0
  BY <1>t, <1>o, SinglePositionIs
<1>1. pos \in Good
  <2>1. \A n \in 1 .. offset : stream[n].order <= order
    BY <1>g, <1>o, AscendingIs
  <2>2. \A n \in offset + 1 .. Len(stream) : order < stream[n].order
    <3> SUFFICES ASSUME NEW n \in offset + 1 .. Len(stream) PROVE order < stream[n].order
      OBVIOUS
    <3>1. n \in 1 .. Len(stream) /\ offset \in 1 .. n - 1
      BY <1>g, <1>o
    <3> QED BY <1>g, <3>1, AscendingIs
  <2>3. \A r \in pending[1] : order < r.order
    <3> SUFFICES ASSUME NEW r \in pending[1] PROVE order < r.order
      OBVIOUS
    <3>1. resolved[1] < r.order /\ r.order \in Nat
      BY <1>t, <1>g, AscendingIs, LogIs
    <3> QED BY <1>o, <1>m, <3>1
  <2>4. order >= 1 /\ order < NextOrder /\ offset > 0 /\ offset >= 1
    BY <1>o, <1>a, <1>m, <1>g
  <2> HIDE DEF pos, order, offset, stream
  <2>5. Right(pos)
    BY <1>g, <1>o, <1>p, <2>1, <2>4 DEF Right, stream
  <2>6. Above(pos)
    BY <1>g, <1>m, <1>p, <2>2, <2>3 DEF Above, stream
  <2> QED BY <1>p, <2>5, <2>6 DEF Good
<1>2. IsNext(stream, acked, pos)
  <2>1. \A n \in acked.at[1] + 1 .. offset : n = offset
    BY <1>o, <1>g
  <2>2. acked.at[1] < offset /\ offset <= Len(stream) /\ stream[offset].kind = "resolved"
    BY <1>o, <1>g
  <2> HIDE DEF pos, offset
  <2> QED BY <1>o, <1>p, <2>1, <2>2 DEF IsNext
<1>3. Brings(committed, <<>>, acked.order, order)
  <2> SUFFICES ASSUME NEW i \in DOMAIN committed, committed[i].order <= order
               PROVE  committed[i].order <= acked.order
    BY DEF Brings
  <2>1. PICK r \in committed[i].rows : r[1] = 1
    BY <1>t, <1>g DEF Numbered
  <2>2. committed[i].order \in Nat
    BY <1>t, CommitIs
  <2>3. InLog(stream, committed[i].order, r[2], offset)
    <3>1. committed[i].order < order + 1
      BY <1>o, <2>2
    <3> HIDE DEF order, offset, stream
    <3> QED BY <1>m, <2>1, <3>1 DEF Shown
  <2>4. PICK m \in 1 .. offset : stream[m] = Row(committed[i].order, r[2])
    BY <2>3 DEF InLog
  <2>5. stream[m].kind = "row" /\ stream[m].order = committed[i].order
    BY <2>4 DEF Row
  <2>6. m \in 1 .. acked.at[1]
    BY <1>o, <1>g, <2>5
  <2> QED BY <1>t, <1>g, <2>5, <2>6, GoodIs
<1>4. /\ reader' \in Readers /\ reader'.up = reader.up /\ reader'.acked = reader.acked
      /\ reader'.batch = reader.batch /\ reader'.ready = reader.ready /\ reader'.base = reader.base
      /\ reader'.cursor[1] = offset /\ reader'.queue[1] = {}
      /\ reader'.flight = Request(<<>>, pos, {})
  <2> DEFINE cursors == [reader.cursor EXCEPT ![1] = offset]
             request == Request(<<>>, pos, {})
  <2>1. reader' = [reader EXCEPT !.cursor = cursors, !.flight = request]
    BY DEF Skip
  <2>2. cursors \in [Streams -> Nat] /\ cursors[1] = offset
    BY <1>t, <1>g, <1>o, ReaderIs
  <2>3. request \in Flights
    <3>1. <<>> \in Seq(Txs) /\ {} \in SUBSET Streams
      OBVIOUS
    <3> HIDE DEF pos
    <3> QED BY <1>p, <3>1 DEF Request, Flights
  <2>4. reader.queue[1] = {}
    BY DEF Group
  <2> HIDE DEF cursors, request
  <2>5. /\ reader' \in Readers /\ reader'.up = reader.up /\ reader'.acked = reader.acked
        /\ reader'.batch = reader.batch /\ reader'.ready = reader.ready /\ reader'.base = reader.base
        /\ reader'.cursor = cursors /\ reader'.queue = reader.queue /\ reader'.flight = request
    BY <1>t, <2>1, <2>2, <2>3 DEF Readers
  <2> QED BY <2>2, <2>4, <2>5 DEF request
<1>5. <<>> \in Seq(Txs) /\ order >= acked.order
  BY <1>a, <1>o, <1>g
<1> HIDE DEF order, offset
<1> QED BY <1>o, <1>1, <1>2, <1>3, <1>4, <1>5, NextStep

\* The group between the position and the cursor is a whole transaction.
LEMMA EndGroupStep ==
  ASSUME SourceInv, ReaderInv, UNCHANGED <<source, Unshown>>, slot' = slot,
         durable' = durable, accepted' = accepted, Single, Reading, reader.cursor[1] < Len(log[1]),
         Group # {}, log[1][reader.cursor[1] + 1].kind = "row" => log[1][reader.cursor[1] + 1].order # GroupOrder,
         reader' = EndGroup
  PROVE  SourceInv' /\ ReaderInv'
<1> DEFINE acked == reader.acked
           stream == log[1]
           from == acked.at[1]
           offset == reader.cursor[1]
           order == stream[from + 1].order
           rows == {<<1, x.part>> : x \in Group}
           pos == SinglePosition(order, offset)
<1>t. /\ SourceTypes /\ Numbered /\ Real /\ Complete /\ Promised /\ Marks /\ ReaderTypes
      /\ reader \in Readers
  BY ReaderIs DEF SourceInv, ReaderInv
<1>g. /\ 1 \in Streams /\ 1 \in Active /\ Active = {1} /\ ~Multi /\ ~Merging /\ acked \in Good
      /\ acked.order \in Nat /\ from \in Nat /\ offset \in Nat /\ Len(stream) \in Nat
      /\ from <= offset /\ offset < Len(stream) /\ from # offset
      /\ Group = {Item(stream[n], n) : n \in from + 1 .. offset}
      /\ \A n \in from + 1 .. offset : stream[n].kind = "row" /\ stream[n].order = order
      /\ GroupOrder = order /\ Max({x.offset : x \in Group}) = offset
  BY GroupIs
<1>o. /\ from < offset /\ from + 1 \in 1 .. Len(stream) /\ offset \in 1 .. Len(stream)
      /\ offset + 1 \in 1 .. Len(stream) /\ from + 1 \in from + 1 .. offset
      /\ offset \in from + 1 .. offset /\ from + 1 \in from + 1 .. Len(stream)
      /\ \A n \in from + 1 .. offset : n \in 1 .. Len(stream)
  BY <1>g
<1>q. order \in Nat /\ stream[offset + 1].order \in Nat /\ NextOrder \in Nat
      /\ \A r \in pending[1] : r.order \in Nat
  BY <1>t, <1>g, <1>o, LogIs, CommitIs
<1>a. acked.order < order /\ acked.order >= 1
  BY <1>t, <1>g, <1>o, GoodIs
<1>k. \A n \in from + 1 .. offset : Known(committed, 1, order, stream[n].part)
  BY <1>t, <1>g, <1>o DEF Real
<1>e. ~Odd(order) /\ order < NextOrder
  BY <1>t, <1>k, <1>o, KnownIs
<1>j. PICK j \in DOMAIN committed : committed[j].order = order
  BY <1>k, <1>o DEF Known
<1>b. order < stream[offset + 1].order
  <2>1. order <= stream[offset + 1].order
    <3>1. from + 1 \in 1 .. offset + 1
      BY <1>g
    <3> QED BY <1>g, <1>o, <3>1, AscendingIs
  <2>2. stream[offset + 1].order # order
    <3>1. CASE stream[offset + 1].kind = "row"
      BY <1>g, <3>1
    <3>2. CASE stream[offset + 1].kind = "resolved"
      <4>1. Odd(stream[offset + 1].order)
        BY <1>t, <1>g, <1>o, <3>2 DEF Marks
      <4> QED BY <1>e, <4>1
    <3> QED BY <1>t, <1>g, <1>o, <3>1, <3>2, LogIs
  <2> HIDE DEF order
  <2> QED BY <1>q, <2>1, <2>2
<1>h. \A n \in offset + 1 .. Len(stream) : order < stream[n].order
  <2> SUFFICES ASSUME NEW n \in offset + 1 .. Len(stream) PROVE order < stream[n].order
    OBVIOUS
  <2>1. n \in 1 .. Len(stream) /\ offset + 1 \in 1 .. n
    BY <1>g
  <2>2. stream[offset + 1].order <= stream[n].order /\ stream[n].order \in Nat
    BY <1>t, <1>g, <2>1, AscendingIs, LogIs
  <2> HIDE DEF order
  <2> QED BY <1>q, <1>b, <2>2
<1>i. \A r \in pending[1] : order < r.order
  <2> SUFFICES ASSUME NEW r \in pending[1] PROVE order < r.order
    OBVIOUS
  <2>1. stream[offset + 1].order <= r.order /\ r.order \in Nat
    BY <1>t, <1>g, <1>o, AscendingIs, LogIs
  <2> HIDE DEF order
  <2> QED BY <1>q, <1>b, <2>1
<1>p. /\ pos \in Stored /\ pos.order = order /\ pos.at[1] = offset
      /\ \A s \in Streams : s # 1 => pos.at[s] = 0
  <2> HIDE DEF order
  <2> QED BY <1>t, <1>g, <1>q, SinglePositionIs
<1>1. pos \in Good
  <2>1. \A n \in 1 .. offset : stream[n].order <= order
    <3> SUFFICES ASSUME NEW n \in 1 .. offset PROVE stream[n].order <= order
      OBVIOUS
    <3>1. stream[n].order <= stream[offset].order
      BY <1>g, <1>o, AscendingIs
    <3> QED BY <1>g, <1>o, <3>1
  <2> HIDE DEF pos, order, offset, stream
  <2>2. order >= 1 /\ order < NextOrder /\ offset > 0 /\ offset >= 1
    BY <1>q, <1>a, <1>e, <1>g, <1>o
  <2>3. Right(pos)
    BY <1>g, <1>o, <1>p, <2>1, <2>2 DEF Right, stream
  <2>4. Above(pos)
    BY <1>g, <1>e, <1>p, <1>h, <1>i DEF Above, stream
  <2> QED BY <1>p, <2>3, <2>4 DEF Good
<1>2. IsNext(stream, acked, pos)
  <2>1. stream[offset + 1].order # order
    BY <1>q, <1>b
  <2> HIDE DEF pos, order, offset, stream
  <2> QED BY <1>g, <1>o, <1>p, <2>1 DEF IsNext
<1>3. <<Assembled(order, rows)>> = <<committed[j]>>
  <2>1. committed[j] \in Txs
    BY <1>t, CommitIs
  <2>2. ASSUME NEW n \in from + 1 .. offset PROVE <<1, stream[n].part>> \in committed[j].rows
    <3>1. PICK i \in DOMAIN committed : committed[i].order = order /\ <<1, stream[n].part>> \in committed[i].rows
      BY <1>k DEF Known
    <3>2. committed[i].order = 2 * i /\ committed[j].order = 2 * j /\ i \in Nat /\ j \in Nat
      BY <1>t, CommitIs
    <3>3. i = j
      BY <1>j, <3>1, <3>2
    <3> QED BY <3>1, <3>3
  <2>3. rows \subseteq committed[j].rows
    <3> SUFFICES ASSUME NEW x \in Group PROVE <<1, x.part>> \in committed[j].rows
      OBVIOUS
    <3>1. PICK n \in from + 1 .. offset : x = Item(stream[n], n)
      BY <1>g
    <3> QED BY <2>2, <3>1, ItemIs
  <2>4. ASSUME NEW r \in committed[j].rows PROVE r \in rows
    <3>1. r = <<1, r[2]>> /\ r[1] = 1
      BY <1>t, <1>g, CommitIs
    <3>2. Row(order, r[2]) \in pending[1] \/ InLog(stream, order, r[2], Len(stream))
      BY <1>t, <1>j, <3>1 DEF Complete
    <3>3. Row(order, r[2]) \notin pending[1]
      <4>1. Row(order, r[2]).order = order
        BY DEF Row
      <4> QED BY <1>q, <1>i, <4>1
    <3>4. PICK m \in 1 .. Len(stream) : stream[m] = Row(order, r[2])
      BY <3>2, <3>3 DEF InLog
    <3>5. stream[m].kind = "row" /\ stream[m].order = order /\ stream[m].part = r[2]
      BY <3>4 DEF Row
    <3>6. ASSUME m \in 1 .. from PROVE FALSE
      <4>1. stream[m].order <= acked.order
        BY <1>t, <1>g, <3>5, <3>6, GoodIs
      <4> HIDE DEF order
      <4> QED BY <1>g, <1>a, <1>q, <3>5, <4>1
    <3>7. ~(m \in offset + 1 .. Len(stream))
      BY <1>h, <1>q, <3>5
    <3>8. m \in from + 1 .. offset
      BY <1>g, <3>6, <3>7
    <3>9. Item(stream[m], m) \in Group /\ Item(stream[m], m).part = r[2]
      BY <1>g, <3>5, <3>8, ItemIs
    <3>10. <<1, Item(stream[m], m).part>> \in rows
      BY <3>9
    <3> QED BY <3>1, <3>9, <3>10
  <2>5. rows = committed[j].rows
    BY <2>3, <2>4
  <2>6. committed[j] = [order |-> committed[j].order, rows |-> committed[j].rows]
    BY <2>1 DEF Txs
  <2> QED BY <1>j, <2>5, <2>6 DEF Assembled
<1>4. Brings(committed, <<Assembled(order, rows)>>, acked.order, order)
  <2>1. \A n \in from + 1 .. Len(stream) : order <= stream[n].order
    <3> SUFFICES ASSUME NEW n \in from + 1 .. Len(stream) PROVE order <= stream[n].order
      OBVIOUS
    <3>1. n \in 1 .. Len(stream) /\ from + 1 \in 1 .. n
      BY <1>g
    <3> QED BY <1>g, <3>1, AscendingIs
  <2>2. \A r \in pending[1] : order <= r.order
    BY <1>i, <1>q
  <2>3. \A i \in DOMAIN committed : committed[i].order <= acked.order <=> i < j
    <3> HIDE DEF order, stream, acked, from
    <3>1. /\ \A s \in Active : \A n \in acked.at[s] + 1 .. Len(log[s]) :
               log[s][n].kind = "row" => committed[j].order <= log[s][n].order
          /\ \A s \in Active : \A r \in pending[s] : committed[j].order <= r.order
          /\ acked.order < committed[j].order
      BY <1>g, <1>j, <1>a, <2>1, <2>2 DEF stream, from
    <3> QED BY <1>g, <3>1, FirstBehind
  <2> QED BY <1>3, <1>j, <2>3 DEF Brings
<1>5. <<Assembled(order, rows)>> \in Seq(Txs)
  BY <1>3, <1>t, CommitIs
<1>6. /\ reader' \in Readers /\ reader'.up = reader.up /\ reader'.acked = reader.acked
      /\ reader'.batch = reader.batch /\ reader'.ready = reader.ready /\ reader'.base = reader.base
      /\ reader'.cursor[1] = offset /\ reader'.queue[1] = {}
      /\ reader'.flight = Request(<<Assembled(order, rows)>>, pos, {})
  <2> DEFINE queues == [reader.queue EXCEPT ![1] = {}]
             request == Request(<<Assembled(order, rows)>>, pos, {})
  <2>1. reader' = [reader EXCEPT !.queue = queues, !.flight = request]
    BY <1>g DEF EndGroup
  <2>2. queues \in [Streams -> SUBSET Items] /\ queues[1] = {}
    BY <1>t, <1>g, ReaderIs
  <2>3. request \in Flights
    <3>1. {} \in SUBSET Streams
      OBVIOUS
    <3> HIDE DEF pos, order, rows
    <3> QED BY <1>p, <1>5, <3>1 DEF Request, Flights
  <2> HIDE DEF queues, request
  <2>4. /\ reader' \in Readers /\ reader'.up = reader.up /\ reader'.acked = reader.acked
        /\ reader'.batch = reader.batch /\ reader'.ready = reader.ready /\ reader'.base = reader.base
        /\ reader'.cursor = reader.cursor /\ reader'.queue = queues /\ reader'.flight = request
    BY <1>t, <2>1, <2>2, <2>3 DEF Readers
  <2> QED BY <2>2, <2>4 DEF request
<1>7. order >= acked.order
  BY <1>a, <1>q, <1>g
<1> HIDE DEF order, offset, rows
<1> QED BY <1>g, <1>q, <1>1, <1>2, <1>4, <1>5, <1>6, <1>7, NextStep

\* Every record read from one partition keeps the invariant.
LEMMA ReadRecordStep ==
  ASSUME SourceInv, ReaderInv, UNCHANGED <<source, Unshown>>, slot' = slot, ReadRecord
  PROVE  SourceInv' /\ ReaderInv'
<1> DEFINE offset == reader.cursor[1] + 1
           rec == log[1][offset]
<1>1. /\ Single /\ Reading /\ reader.cursor[1] < Len(log[1]) /\ durable' = durable /\ accepted' = accepted
      /\ reader' = IF Group = {} THEN First(rec, offset) ELSE Further(rec, offset)
  BY DEF ReadRecord
<1>t. SourceTypes
  BY DEF SourceInv
<1>2. /\ 1 \in Streams /\ 1 \in Active /\ ~Multi /\ reader.acked \in Good /\ reader.cursor[1] \in Nat
      /\ Len(log[1]) \in Nat /\ reader.acked.order \in Nat
      /\ Group = {} => reader.acked.at[1] = reader.cursor[1]
  BY <1>1, GroupIs
<1>3. offset \in 1 .. Len(log[1]) /\ rec.kind \in {"row", "resolved"} /\ rec.order \in Nat
  BY <1>t, <1>1, <1>2, LogIs
<1>4. CASE Group = {}
  <2>1. offset \in reader.acked.at[1] + 1 .. Len(log[1])
    BY <1>1, <1>2, <1>4
  <2>2. reader.acked.order < rec.order
    BY <1>t, <1>2, <2>1, GoodIs
  <2>3. ~Old(rec)
    BY <1>2, <1>3, <2>2 DEF Old
  <2>4. CASE rec.kind = "resolved"
    BY <1>1, <1>4, <2>3, <2>4, SkipStep DEF First
  <2>5. CASE rec.kind = "row"
    BY <1>1, <1>4, <2>3, <2>5, CollectStep DEF First
  <2> QED BY <1>3, <2>4, <2>5
<1>5. CASE Group # {}
  <2>1. CASE rec.kind = "row" /\ rec.order = GroupOrder
    BY <1>1, <1>5, <2>1, CollectStep DEF Further
  <2>2. CASE ~(rec.kind = "row" /\ rec.order = GroupOrder)
    BY <1>1, <1>5, <2>2, EndGroupStep DEF Further
  <2> QED BY <2>1, <2>2
<1> QED BY <1>4, <1>5

-----------------------------------------------------------------------------
(* GaussDB and pureScale. *)
\* A step that reads, merges or hands out a group.
LEMMA MergeStep ==
  ASSUME SourceInv, ReaderInv, UNCHANGED <<source, Unshown>>, slot' = slot,
         durable' = durable, accepted' = accepted, Merging, Reading,
         reader' \in Readers, reader'.up = reader.up, reader'.acked = reader.acked,
         reader'.base \in Good,
         \/ reader'.flight = Nothing
         \/ /\ reader'.flight.stage = "read" /\ reader'.flight.pos \in Good
            /\ source.dialect # "gaussdb" => reader'.flight.acks = {}
            /\ reader'.flight.pos.order >= reader.acked.order
            /\ \A s \in Streams : reader'.flight.pos.at[s] >= reader.acked.at[s]
            /\ Carries',
         Batched', Readied', Handed'
  PROVE  SourceInv' /\ ReaderInv'
<1>t. SourceTypes /\ ReaderTypes /\ slot \in [Streams -> Nat]
  BY DEF SourceInv, ReaderInv, SourceTypes
<1>s. /\ SourceInv' /\ Good' = Good /\ Active' = Active
      /\ Multi' = Multi /\ Merging' = Merging /\ Single' = Single
      /\ Answered(source') = Answered(source) /\ Nothing' = Nothing
      /\ source' = source /\ log' = log /\ committed' = committed
  BY <1>t, SourceSame
<1>k. ~Multi /\ ~Single
  BY <1>t, Kinds
<1>n. reader.flight.stage = "none" /\ Nothing.stage = "none" /\ Nothing.acks = {} /\ reader.up
  BY ReadingIs, NothingIs
<1>1. ReaderTypes'
  BY <1>t DEF ReaderTypes
<1>2. Positioned'
  <2>1. Taken' = Taken
    BY <1>s DEF Taken, TakenIn
  <2> QED BY <1>s, <2>1 DEF ReaderInv, Positioned
<1>3. InFlight'
  BY <1>s, <1>n DEF ReaderInv, InFlight, Flying
<1>4. Link'
  BY <1>s, <1>n DEF ReaderInv, Link
<1>5. MultiInv' /\ SingleInv'
  BY <1>s, <1>k DEF MultiInv, SingleInv
<1>6. Slots'
  BY <1>s DEF ReaderInv, Slots
<1>7. Exact'
  BY <1>s DEF ReaderInv, Exact
<1> QED BY <1>s, <1>1, <1>2, <1>3, <1>4, <1>5, <1>6, <1>7 DEF ReaderInv

\* A read that was not cut ends where the stream does.
LEMMA ReadsAll ==
  ASSUME NEW s \in Streams, NEW from \in Nat, NEW to \in ReadEnds(s, from),
         Len(log[s]) \in Nat, ~(to < Len(log[s]))
  PROVE  to = Len(log[s])
BY DEF ReadEnds

\* A stream is read to its end: no row up to the watermark is still to come.
LEMMA ReadStreamStep ==
  ASSUME SourceInv, ReaderInv, UNCHANGED <<source, Unshown>>, slot' = slot, ReadStream, ~cut'
  PROVE  SourceInv' /\ ReaderInv'
<1> DEFINE s == Len(reader.batch) + 1
           from == ReadFrom(reader.acked)[s]
           rows == {Fragment(s, n) : n \in from + 1 .. Len(log[s])}
           piece == [resolved |-> resolved[s], rows |-> rows]
           descriptors == IF s = 1 THEN resolved ELSE reader.descriptors
<1>a. /\ Merging /\ Reading /\ reader.ready = {} /\ Len(reader.batch) < source.streams
      /\ durable' = durable /\ accepted' = accepted /\ crashes' = crashes
  BY DEF ReadStream
<1>b. \/ reader' = [reader EXCEPT !.up = FALSE]
      \/ reader' = [reader EXCEPT !.batch = Append(@, piece), !.descriptors = descriptors]
  <2>1. PICK to \in ReadEnds(s, from) :
          /\ cut' = (cut \/ to < Len(log[s]))
          /\ reader' = IF source.dialect = "purescale" /\ descriptors[s] # resolved[s]
                       THEN [reader EXCEPT !.up = FALSE]
                       ELSE [reader EXCEPT
                               !.batch = Append(@, [resolved |-> resolved[s],
                                                    rows |-> {Fragment(s, n) : n \in from + 1 .. to}]),
                               !.descriptors = descriptors]
    BY DEF ReadStream
  <2>2. /\ SourceTypes /\ reader.acked \in Stored /\ Len(reader.batch) \in Nat
        /\ slot \in [Streams -> Nat]
    BY ReaderIs, BatchIs DEF SourceInv, ReaderInv, SourceTypes
  <2>3. s \in Active /\ s \in Streams
    BY <1>a, <2>2, ActiveStreams
  <2>4. from \in Nat /\ Len(log[s]) \in Nat
    BY <2>2, <2>3, StoredIs, LogIs DEF ReadFrom
  <2>5. ~(to < Len(log[s]))
    BY <2>1
  <2>6. to = Len(log[s])
    BY <2>3, <2>4, <2>5, ReadsAll
  <2> QED BY <2>1, <2>6
<1>d. CASE reader' = [reader EXCEPT !.up = FALSE]
  BY <1>a, <1>d, CrashStep
<1>c. CASE reader' = [reader EXCEPT !.batch = Append(@, piece), !.descriptors = descriptors]
  <2>t. /\ SourceTypes /\ ReaderTypes /\ reader \in Readers /\ Promised /\ OnlyRows
        /\ reader.acked \in Stored /\ resolved \in [Streams -> Nat] /\ slot \in [Streams -> Nat]
        /\ reader.descriptors \in [Streams -> Nat] /\ reader.base \in Good
    BY ReaderIs DEF SourceInv, ReaderInv, SourceTypes, Positioned
  <2>s. /\ Merging' = Merging /\ Active' = Active /\ NextOrder' = NextOrder /\ Nothing' = Nothing
        /\ log' = log /\ pending' = pending /\ resolved' = resolved /\ source' = source
    BY <2>t, SourceSame
  <2>k. reader.up /\ ~Flying /\ reader.flight = Nothing /\ Nothing.stage = "none" /\ ~Multi
    BY <1>a, <2>t, ReadingIs, NothingIs, Kinds
  <2>l. /\ Len(reader.batch) \in Nat
        /\ \A k \in 1 .. Len(reader.batch) : reader.batch[k].resolved \in Nat
    BY <2>t, BatchIs
  <2>u. s \in Active /\ s \in Streams /\ source.streams \in Nat /\ Active = 1 .. source.streams
    BY <1>a, <2>t, <2>l, ActiveStreams
  <2>f. from \in Nat /\ Len(log[s]) \in Nat
    BY <2>t, <2>u, StoredIs, LogIs DEF ReadFrom
  <2>p. resolved[s] \in Nat /\ rows \in SUBSET Parts
    <3>1. ASSUME NEW n \in from + 1 .. Len(log[s]) PROVE Fragment(s, n) \in Parts
      <4>1. n \in 1 .. Len(log[s]) /\ n \in Nat
        BY <2>f
      <4>2. log[s][n].order \in Nat /\ log[s][n].part \in Nat
        BY <2>t, <2>u, <4>1, LogIs
      <4> HIDE DEF s
      <4> QED BY <2>u, <4>1, <4>2 DEF Fragment, Parts
    <3> QED BY <2>t, <2>u, <3>1
  <2> DEFINE Batches == [resolved : Nat, rows : SUBSET Parts]
             later == Append(reader.batch, piece)
  <2>q. piece \in Batches /\ reader.batch \in Seq(Batches) /\ piece.resolved = resolved[s] /\ piece.rows = rows
    <3> HIDE DEF rows, s
    <3> QED BY <2>p, <2>t, ReaderIs
  <2>e. /\ later \in Seq(Batches) /\ Len(later) = s
        /\ \A k \in 1 .. Len(reader.batch) : later[k] = reader.batch[k]
        /\ later[s] = piece
    <3> HIDE DEF piece, Batches
    <3> QED BY <2>q, Appends
  <2>r. /\ reader' \in Readers /\ reader'.up = reader.up /\ reader'.acked = reader.acked
        /\ reader'.base = reader.base /\ reader'.flight = reader.flight
        /\ reader'.ready = reader.ready /\ reader'.batch = later
    <3> DEFINE described == descriptors
    <3>1. described \in [Streams -> Nat]
      BY <2>t
    <3>2. reader' = [reader EXCEPT !.batch = later, !.descriptors = described]
      BY <1>c
    <3> HIDE DEF described, later
    <3> QED BY <2>t, <2>e, <3>1, <3>2 DEF Readers
  <2>1. Fragmented(s, log[s], pending[s], from, rows, resolved[s])
    <3>1. Len(log[s]) \in 0 .. Len(log[s]) /\ Len(log[s]) + 1 .. Len(log[s]) = {}
      BY <2>f
    <3>2. rows = {Piece(s, log[s], n) : n \in from + 1 .. Len(log[s])}
      BY DEF Fragment, Piece
    <3>3. \A r \in pending[s] : resolved[s] < r.order
      BY <2>k, <2>u, AscendingIs
    <3> HIDE DEF s, from, rows
    <3> QED BY <3>1, <3>2, <3>3 DEF Fragmented
  <2>2. ASSUME NEW k \in 1 .. s
        PROVE  /\ Fragmented(k, log[k], pending[k], ReadFrom(reader.acked)[k], later[k].rows, later[k].resolved)
               /\ later[k].resolved < NextOrder
               /\ source.clusterwide => /\ later[1].resolved <= later[k].resolved
                                        /\ \A u \in Active : later[1].resolved <= resolved[u]
    <3>1. CASE k \in 1 .. Len(reader.batch)
      <4>1. reader.batch # <<>> /\ 1 \in 1 .. Len(reader.batch)
        BY <2>l, <3>1
      <4>2. later[k] = reader.batch[k] /\ later[1] = reader.batch[1]
        BY <2>e, <3>1, <4>1
      <4> HIDE DEF later
      <4> QED BY <1>a, <2>k, <3>1, <4>1, <4>2 DEF ReaderInv, Batched
    <3>2. CASE k \notin 1 .. Len(reader.batch)
      <4>1. k = s
        BY <2>l, <3>2
      <4>2. later[k].rows = rows /\ later[k].resolved = resolved[s]
        BY <2>e, <2>q, <4>1
      <4>3. resolved[s] < NextOrder
        BY <2>t, <2>u DEF Promised
      <4>4. source.clusterwide => later[1].resolved <= resolved[s] /\ \A u \in Active : later[1].resolved <= resolved[u]
        <5>1. CASE reader.batch = <<>>
          <6>1. s = 1
            BY <5>1
          <6>2. later[1].resolved = resolved[1] /\ 1 \in Active
            BY <2>e, <2>q, <2>u, <6>1
          <6>3. source.clusterwide => \A u \in Active : resolved[1] = resolved[u]
            BY <1>a, <2>t, <6>2 DEF OnlyRows
          <6>4. resolved[1] \in Nat
            BY <2>p, <6>1
          <6> HIDE DEF s, later
          <6> QED BY <2>u, <6>1, <6>2, <6>3, <6>4
        <5>2. CASE reader.batch # <<>>
          <6>1. 1 \in 1 .. Len(reader.batch)
            BY <2>l, <2>q, <5>2, EmptySeq
          <6>2. later[1] = reader.batch[1]
            BY <2>e, <6>1
          <6>3. source.clusterwide => \A u \in Active : reader.batch[1].resolved <= resolved[u]
            BY <1>a, <2>k, <5>2, <6>1 DEF ReaderInv, Batched
          <6> HIDE DEF s, later
          <6> QED BY <2>u, <6>2, <6>3
        <5> QED BY <5>1, <5>2
      <4> HIDE DEF s, later, rows, from
      <4> QED BY <2>1, <4>1, <4>2, <4>3, <4>4 DEF from
    <3> QED BY <3>1, <3>2
  <2>3. s <= source.streams
    BY <2>u
  <2>4. Batched'
    <3>1. ~(Flying') /\ reader'.ready = {} /\ Len(reader'.batch) = s
      BY <1>a, <2>r, <2>k, <2>e DEF Flying
    <3>2. ReadFrom(reader.acked)' = ReadFrom(reader.acked)
      BY <2>r, <2>s DEF ReadFrom
    <3> HIDE DEF s, later
    <3> QED BY <2>r, <2>s, <2>2, <2>3, <3>1, <3>2 DEF Batched
  <2>5. Readied' /\ Handed'
    BY <1>a, <2>r, <2>k, <2>s DEF Readied, Handed, Flying
  <2> QED BY <1>a, <2>t, <2>k, <2>r, <2>4, <2>5, MergeStep
<1> QED BY <1>b, <1>c, <1>d

\* The least watermark of the first streams of a batch.
LEMMA MinimumIs ==
  ASSUME ReaderTypes, NEW k \in 1 .. Len(reader.batch)
  PROVE  /\ RunningMinimum(reader.batch, k) \in Nat
         /\ \A i \in 1 .. k : RunningMinimum(reader.batch, k) <= reader.batch[i].resolved
         /\ \E i \in 1 .. k : RunningMinimum(reader.batch, k) = reader.batch[i].resolved
<1> DEFINE marks == {reader.batch[i].resolved : i \in 1 .. k}
<1>1. Len(reader.batch) \in Nat /\ \A i \in 1 .. Len(reader.batch) : reader.batch[i].resolved \in Nat
  BY BatchIs
<1>2. \A i \in 1 .. k : i \in 1 .. Len(reader.batch)
  BY <1>1
<1>3. marks \in SUBSET Nat
  BY <1>1, <1>2
<1>4. reader.batch[k].resolved \in marks
  BY <1>1
<1>5. Min(marks) \in marks /\ \A x \in marks : Min(marks) <= x
  <2> HIDE DEF marks
  <2> QED BY <1>3, <1>4, MinIn
<1>6. RunningMinimum(reader.batch, k) = Min(marks)
  BY DEF RunningMinimum
<1>7. Min(marks) \in Nat
  <2> HIDE DEF marks
  <2> QED BY <1>3, <1>5
<1>8. \E i \in 1 .. k : Min(marks) = reader.batch[i].resolved
  BY <1>5
<1>9. \A i \in 1 .. k : Min(marks) <= reader.batch[i].resolved
  BY <1>5
<1> HIDE DEF marks
<1> QED BY <1>6, <1>7, <1>8, <1>9

\* What a batch holds of a stream, and no more of it up to the watermark.
LEMMA BatchHolds ==
  ASSUME SourceInv, ReaderInv, Merging, Reading, Len(reader.batch) = source.streams, NEW k \in Active
  PROVE  /\ k \in 1 .. Len(reader.batch) /\ k \in Streams /\ DOMAIN reader.batch = Active
         /\ ReadFrom(reader.acked)[k] \in Nat
         /\ reader.batch[k].resolved \in Nat /\ reader.batch[k].resolved < NextOrder
         /\ \A f \in reader.batch[k].rows :
              /\ f = Piece(k, log[k], f.offset) /\ f.stream = k /\ f.order = log[k][f.offset].order
              /\ f.offset \in ReadFrom(reader.acked)[k] + 1 .. Len(log[k]) /\ f.offset \in 1 .. Len(log[k])
              /\ f \in Parts
         /\ \A n \in ReadFrom(reader.acked)[k] + 1 .. Len(log[k]) :
              log[k][n].order <= reader.batch[k].resolved => Piece(k, log[k], n) \in reader.batch[k].rows
         /\ \A r \in pending[k] : reader.batch[k].resolved < r.order
<1> DEFINE from == ReadFrom(reader.acked)[k]
           stream == log[k]
           rows == reader.batch[k].rows
           mark == reader.batch[k].resolved
<1>t. /\ SourceTypes /\ ReaderTypes /\ reader.acked \in Stored /\ slot \in [Streams -> Nat]
  BY ReaderIs DEF SourceInv, ReaderInv, SourceTypes
<1>1. /\ k \in Streams /\ source.streams \in Nat \ {0} /\ Active = 1 .. source.streams
      /\ Len(stream) \in Nat /\ \A n \in 1 .. Len(stream) : stream[n].order \in Nat
  BY <1>t, ActiveStreams, LogIs
<1>2. /\ k \in 1 .. Len(reader.batch) /\ DOMAIN reader.batch = Active /\ reader.batch # <<>>
      /\ mark \in Nat /\ rows \in SUBSET Parts
  <2>1. Len(<<>>) = 0
    OBVIOUS
  <2>2. reader.batch # <<>>
    BY <1>1, <2>1
  <2> QED BY <1>t, <1>1, <2>2, BatchIs
<1>3. from \in Nat
  BY <1>t, <1>1, StoredIs DEF ReadFrom
<1>4. mark < NextOrder /\ Fragmented(k, stream, pending[k], from, rows, mark)
  BY <1>2, ReadingIs DEF ReaderInv, Batched
<1> HIDE DEF from, stream, rows, mark
<1>5. PICK last \in 0 .. Len(stream) :
        /\ rows = {Piece(k, stream, n) : n \in from + 1 .. last}
        /\ \A n \in last + 1 .. Len(stream) : mark < stream[n].order
        /\ \A r \in pending[k] : mark < r.order
  BY <1>4 DEF Fragmented
<1>6. \A n : /\ Piece(k, stream, n).offset = n /\ Piece(k, stream, n).stream = k
             /\ Piece(k, stream, n).order = stream[n].order
  BY DEF Piece
<1>7. ASSUME NEW f \in rows
      PROVE  /\ f = Piece(k, stream, f.offset) /\ f.stream = k /\ f.order = stream[f.offset].order
             /\ f.offset \in from + 1 .. Len(stream) /\ f.offset \in 1 .. Len(stream) /\ f \in Parts
  <2>1. PICK n \in from + 1 .. last : f = Piece(k, stream, n)
    BY <1>5
  <2>2. n \in from + 1 .. Len(stream) /\ n \in 1 .. Len(stream)
    BY <1>1, <1>3 DEF stream
  <2> QED BY <1>2, <1>6, <2>1, <2>2
<1>8. ASSUME NEW n \in from + 1 .. Len(stream), stream[n].order <= mark PROVE Piece(k, stream, n) \in rows
  <2>1. stream[n].order \in Nat
    <3>1. n \in 1 .. Len(stream)
      BY <1>1, <1>3 DEF stream
    <3> QED BY <1>1, <3>1 DEF stream
  <2>2. ~(n \in last + 1 .. Len(stream))
    BY <1>2, <1>5, <1>8, <2>1
  <2>3. n \in from + 1 .. last
    BY <1>1, <1>3, <2>2 DEF stream
  <2> QED BY <1>5, <2>3
<1> QED BY <1>1, <1>2, <1>3, <1>4, <1>5, <1>7, <1>8 DEF from, stream, rows, mark

\* A stream that has rows is held back by no watermark less than the others:
\* the cluster has one, or only the last stream has rows.
LEMMA NoStreamBehind ==
  ASSUME SourceInv, ReaderInv, Merging, Reading, Len(reader.batch) = source.streams,
         NEW k \in Active, NEW s \in Active, NEW f \in Released(reader.batch, k),
         (\E n \in 1 .. Len(log[s]) : TRUE) \/ pending[s] # {}
  PROVE  f.order <= RunningMinimum(reader.batch, s)
<1>t. SourceTypes /\ ReaderTypes /\ Shaped /\ Real /\ OnlyRows
  BY DEF SourceInv, ReaderInv
<1>1. /\ \A i \in Active : i \in 1 .. Len(reader.batch)
      /\ source.streams \in Nat \ {0} /\ Active = 1 .. source.streams
  BY <1>t, BatchHolds, ActiveStreams
<1>2. f \in reader.batch[k].rows /\ f.order <= RunningMinimum(reader.batch, k)
  BY DEF Released
<1>3. f.offset \in 1 .. Len(log[k]) /\ f \in Parts /\ f.order \in Nat
  <2>1. f.offset \in 1 .. Len(log[k]) /\ f \in Parts
    BY <1>2, BatchHolds
  <2> QED BY <2>1 DEF Parts
<1>4. CASE source.clusterwide
  <2>1. \A i \in Active : reader.batch[1].resolved <= reader.batch[i].resolved
    <3>1. reader.batch # <<>>
      <4>1. Len(<<>>) = 0
        OBVIOUS
      <4> QED BY <1>1, <4>1
    <3> QED BY <1>1, <1>4, <3>1, ReadingIs DEF ReaderInv, Batched
  <2>2. 1 \in 1 .. k /\ 1 \in 1 .. Len(reader.batch) /\ reader.batch[1].resolved \in Nat
    BY <1>t, <1>1, BatchIs
  <2>3. RunningMinimum(reader.batch, k) <= reader.batch[1].resolved /\ RunningMinimum(reader.batch, k) \in Nat
    BY <1>t, <1>1, <2>2, MinimumIs
  <2>4. PICK i \in 1 .. s : RunningMinimum(reader.batch, s) = reader.batch[i].resolved
    BY <1>t, <1>1, MinimumIs
  <2>5. i \in Active /\ reader.batch[i].resolved \in Nat
    BY <1>t, <1>1, BatchIs
  <2>6. reader.batch[1].resolved <= reader.batch[i].resolved
    BY <2>1, <2>5
  <2> QED BY <1>2, <1>3, <2>2, <2>3, <2>4, <2>5, <2>6
<1>5. CASE ~source.clusterwide
  <2>1. source.dialect = "gaussdb"
    BY <1>t, <1>5 DEF Merging, SourceTypes, Followed
  <2>2. \A i \in Active : \A order, part : Known(committed, i, order, part) => i = source.streams
    <3> SUFFICES ASSUME NEW i \in Active, NEW order, NEW part, Known(committed, i, order, part)
                 PROVE  i = source.streams
      OBVIOUS
    <3>1. PICK j \in DOMAIN committed : <<i, part>> \in committed[j].rows
      BY DEF Known
    <3>2. <<i, part>>[1] = source.streams
      BY <1>t, <1>5, <2>1, <3>1 DEF Shaped
    <3> QED BY <3>2
  <2>3. k = source.streams
    <3>1. log[k][f.offset].kind = "row"
      BY <1>t, <1>3 DEF OnlyRows
    <3> QED BY <1>t, <1>3, <2>2, <3>1 DEF Real
  <2>4. s = source.streams
    <3>1. CASE \E n \in 1 .. Len(log[s]) : TRUE
      <4>1. PICK n \in 1 .. Len(log[s]) : TRUE
        BY <3>1
      <4>2. log[s][n].kind = "row"
        BY <1>t DEF OnlyRows
      <4> QED BY <1>t, <2>2, <4>2 DEF Real
    <3>2. CASE pending[s] # {}
      <4>1. PICK r \in pending[s] : TRUE
        BY <3>2
      <4> QED BY <1>t, <2>2 DEF Real
    <3> QED BY <3>1, <3>2
  <2> QED BY <1>2, <2>3, <2>4
<1> QED BY <1>4, <1>5

\* The groups that are handed out are whole, and none is skipped.
LEMMA MergeBatchStep ==
  ASSUME SourceInv, ReaderInv, UNCHANGED <<source, Unshown>>, slot' = slot, MergeBatch
  PROVE  SourceInv' /\ ReaderInv'
<1> DEFINE batch == reader.batch
           ready == Merge(batch)
           released == UNION {Released(batch, k) : k \in DOMAIN batch}
           at == ReadFrom(reader.acked)
<1>a. /\ Merging /\ Reading /\ Len(batch) = source.streams /\ durable' = durable /\ accepted' = accepted
      /\ reader' = [reader EXCEPT !.ready = ready, !.base = reader.acked, !.batch = <<>>]
  BY DEF MergeBatch
<1>t. /\ SourceTypes /\ ReaderTypes /\ reader \in Readers /\ Numbered /\ Real
      /\ reader.acked \in Stored /\ reader.acked \in Good
  BY ReaderIs DEF SourceInv, ReaderInv, Positioned
<1>s. /\ Merging' = Merging /\ Active' = Active /\ NextOrder' = NextOrder /\ Nothing' = Nothing
      /\ log' = log /\ pending' = pending /\ resolved' = resolved /\ source' = source
  BY <1>t, SourceSame DEF SourceTypes
<1>k. reader.up /\ ~Flying /\ reader.flight = Nothing /\ Nothing.stage = "none" /\ NextOrder \in Nat
  BY <1>a, <1>t, ReadingIs, NothingIs, CommitIs
<1>u. Active \subseteq Streams /\ DOMAIN batch = Active
  BY <1>a, <1>t, ActiveStreams, BatchHolds
<1>1. \A f : f \in released <=> \E k \in Active : f \in Released(batch, k)
  BY <1>u
<1>2. ready = {GroupOf(released, order) : order \in Orders(released)}
  BY DEF Merge
<1> HIDE DEF released, ready
<1>3. ASSUME NEW k \in Active, NEW f \in Released(batch, k)
      PROVE  /\ f \in Parts /\ f.stream = k /\ f.order \in Nat /\ f.order < NextOrder
             /\ f = Piece(k, log[k], f.offset) /\ at[k] < f.offset /\ f.offset <= Len(log[k])
  <2>1. f \in batch[k].rows /\ f.order <= RunningMinimum(batch, k)
    BY DEF Released
  <2>2. /\ f \in Parts /\ f.stream = k /\ f.offset \in at[k] + 1 .. Len(log[k]) /\ at[k] \in Nat
        /\ f = Piece(k, log[k], f.offset) /\ batch[k].resolved \in Nat /\ batch[k].resolved < NextOrder
        /\ k \in 1 .. Len(batch)
    BY <1>a, <2>1, BatchHolds
  <2>3. k \in 1 .. k
    BY <2>2, <1>t, BatchIs
  <2>4. RunningMinimum(batch, k) <= batch[k].resolved /\ RunningMinimum(batch, k) \in Nat
    BY <1>t, <2>2, <2>3, MinimumIs
  <2>5. f.order \in Nat
    BY <2>2 DEF Parts
  <2>6. Len(log[k]) \in Nat
    BY <1>t, <1>u, LogIs
  <2> QED BY <1>k, <2>1, <2>2, <2>4, <2>5, <2>6
<1>4. ASSUME NEW g \in ready
      PROVE  /\ \E f \in released : g = GroupOf(released, f.order)
             /\ g.rows # {} /\ g.order \in Nat /\ g.order < NextOrder
             /\ g.rows = {f \in released : f.order = g.order} /\ g \in Merged
             /\ \A f \in g.rows : f \in released /\ f.order = g.order
  <2>1. PICK f \in released : g = GroupOf(released, f.order)
    BY <1>2 DEF Orders
  <2>2. g.order = f.order /\ g.rows = {r \in released : r.order = f.order}
        /\ g = [order |-> f.order, rows |-> {r \in released : r.order = f.order}]
    BY <2>1 DEF GroupOf
  <2>3. \A r \in released : r \in Parts /\ r.order \in Nat /\ r.order < NextOrder
    BY <1>1, <1>3
  <2>4. g \in Merged
    BY <2>2, <2>3 DEF Merged
  <2> QED BY <2>1, <2>2, <2>3, <2>4
<1>5. ASSUME NEW s \in Active, NEW f \in released, NEW n \in at[s] + 1 .. Len(log[s]), log[s][n].order <= f.order
      PROVE  \E h \in ready : Piece(s, log[s], n) \in h.rows
  <2>1. PICK k \in Active : f \in Released(batch, k)
    BY <1>1
  <2>2. at[s] \in Nat /\ Len(log[s]) \in Nat /\ s \in 1 .. Len(batch)
    BY <1>a, <1>t, <1>u, BatchHolds, LogIs
  <2>3. n \in 1 .. Len(log[s])
    BY <2>2
  <2>4. f.order <= RunningMinimum(batch, s) /\ f.order \in Nat
    BY <1>a, <1>3, <2>1, <2>3, NoStreamBehind
  <2>5. log[s][n].order \in Nat
    BY <1>t, <1>u, <2>3, LogIs
  <2>6. RunningMinimum(batch, s) <= batch[s].resolved /\ RunningMinimum(batch, s) \in Nat
        /\ batch[s].resolved \in Nat
    <3>1. s \in 1 .. s
      BY <2>2, <1>t, BatchIs
    <3> QED BY <1>t, <2>2, <3>1, MinimumIs, BatchIs
  <2>7. log[s][n].order <= batch[s].resolved /\ log[s][n].order <= RunningMinimum(batch, s)
    BY <1>5, <2>4, <2>5, <2>6
  <2> DEFINE piece == Piece(s, log[s], n)
  <2>8. piece \in batch[s].rows
    BY <1>a, <2>7, BatchHolds
  <2>9. piece.order = log[s][n].order
    BY DEF Piece
  <2>10. piece \in released
    <3> HIDE DEF piece
    <3>1. piece \in Released(batch, s)
      BY <2>7, <2>8, <2>9 DEF Released
    <3> QED BY <1>1, <3>1
  <2>11. GroupOf(released, piece.order) \in ready
    BY <1>2, <2>10 DEF Orders
  <2>12. piece \in GroupOf(released, piece.order).rows
    BY <2>10 DEF GroupOf
  <2> HIDE DEF piece
  <2> QED BY <2>11, <2>12 DEF piece
<1>6. ASSUME NEW s \in Active, NEW f \in released, NEW r \in pending[s] PROVE f.order < r.order
  <2>1. PICK k \in Active : f \in Released(batch, k)
    BY <1>1
  <2>2. f.order <= RunningMinimum(batch, s) /\ f.order \in Nat
    BY <1>a, <1>3, <2>1, NoStreamBehind
  <2>3. s \in 1 .. Len(batch) /\ batch[s].resolved < r.order /\ batch[s].resolved \in Nat
    BY <1>a, BatchHolds
  <2>4. s \in 1 .. s
    BY <2>3, <1>t, BatchIs
  <2>5. RunningMinimum(batch, s) <= batch[s].resolved /\ RunningMinimum(batch, s) \in Nat
    BY <1>t, <2>3, <2>4, MinimumIs
  <2>6. r.order \in Nat
    BY <1>t, <1>u, LogIs
  <2> QED BY <2>2, <2>3, <2>5, <2>6
<1>r. /\ reader' \in Readers /\ reader'.up = reader.up /\ reader'.acked = reader.acked
      /\ reader'.base = reader.acked /\ reader'.flight = reader.flight
      /\ reader'.ready = ready /\ reader'.batch = <<>>
  <2> DEFINE base == reader.acked
             empty == <<>>
  <2>1. ready \in SUBSET Merged /\ base \in Stored /\ empty \in Seq([resolved : Nat, rows : SUBSET Parts])
    BY <1>t, <1>4
  <2>2. reader' = [reader EXCEPT !.ready = ready, !.base = base, !.batch = empty]
    BY <1>a
  <2> HIDE DEF base, empty
  <2>3. /\ reader' \in Readers /\ reader'.up = reader.up /\ reader'.acked = reader.acked
        /\ reader'.base = base /\ reader'.flight = reader.flight
        /\ reader'.ready = ready /\ reader'.batch = empty
    BY <1>t, <2>1, <2>2 DEF Readers
  <2> QED BY <2>3 DEF base, empty
<1>7. Batched' /\ Handed'
  BY <1>r, <1>k DEF Batched, Handed, Flying
<1>8. Readied'
  <2>1. ReadFrom(reader.acked)' = at /\ ~(Flying')
    BY <1>r, <1>s, <1>k DEF ReadFrom, Flying
  <2>2. \A s : Floor(s)' = at[s]
    BY <2>1 DEF Floor
  <2>3. ASSUME NEW g \in ready, NEW s \in Active PROVE Holds(s, log[s], pending[s], at[s], ready, g)
    <3>1. PICK f \in released : g = GroupOf(released, f.order)
      BY <1>4
    <3>2. g.order = f.order
      BY <3>1 DEF GroupOf
    <3>3. ASSUME NEW r \in g.rows, r.stream = s
          PROVE  at[s] < r.offset /\ r.offset <= Len(log[s]) /\ r = Piece(s, log[s], r.offset) /\ r.order = g.order
      <4>1. PICK k \in Active : r \in Released(batch, k)
        BY <1>1, <1>4
      <4>2. k = s
        BY <1>3, <3>3, <4>1
      <4> QED BY <1>3, <1>4, <4>1, <4>2
    <3>4. \A n \in at[s] + 1 .. Len(log[s]) : log[s][n].order <= g.order => \E h \in ready : Piece(s, log[s], n) \in h.rows
      BY <1>5, <3>2
    <3>5. \A r \in pending[s] : g.order < r.order
      BY <1>6, <3>2
    <3> QED BY <3>3, <3>4, <3>5 DEF Holds
  <2>4. ASSUME NEW g \in ready, NEW f \in g.rows PROVE f.stream \in Active
    BY <1>1, <1>3, <1>4
  <2>5. ASSUME NEW g \in ready, NEW h \in ready, g.order = h.order PROVE g = h
    <3>1. PICK e \in released : g = GroupOf(released, e.order)
      BY <1>4
    <3>2. PICK f \in released : h = GroupOf(released, f.order)
      BY <1>4
    <3>3. g.order = e.order /\ h.order = f.order
      BY <3>1, <3>2 DEF GroupOf
    <3> QED BY <2>5, <3>1, <3>2, <3>3
  <2> QED BY <1>4, <1>r, <1>s, <2>1, <2>2, <2>3, <2>4, <2>5 DEF Readied
<1> QED BY <1>a, <1>t, <1>k, <1>r, <1>7, <1>8, MergeStep

\* The next group: all that lies before it was taken, nothing of it is missing.
LEMMA NextGroup ==
  ASSUME SourceInv, ReaderInv, Reading, NEW g \in reader.ready, \A other \in reader.ready : g.order <= other.order
  PROVE  /\ Merging /\ ~Multi /\ durable = reader.acked /\ reader.acked \in Good
         /\ reader.acked.order \in Nat /\ g.order \in Nat /\ reader.acked.order <= g.order
         /\ g.order < NextOrder /\ g.rows # {} /\ g \in Merged
         /\ source.dialect = "purescale" => reader.acked.order < g.order
         /\ \A f \in g.rows :
              /\ f.stream \in Active /\ f.stream \in Streams /\ f.order = g.order
              /\ f.offset \in Nat /\ ReadFrom(reader.acked)[f.stream] < f.offset
              /\ f.offset \in 1 .. Len(log[f.stream]) /\ log[f.stream][f.offset].order = g.order
              /\ f = Piece(f.stream, log[f.stream], f.offset)
         /\ \A s \in Active :
              /\ ReadFrom(reader.acked)[s] \in Nat /\ Len(log[s]) \in Nat
              /\ reader.acked.at[s] \in Nat /\ ReadFrom(reader.acked)[s] <= reader.acked.at[s]
              /\ reader.acked.at[s] <= Len(log[s])
              /\ \A n \in 1 .. Len(log[s]) : log[s][n].order \in Nat /\ log[s][n].kind = "row"
              /\ \A n \in ReadFrom(reader.acked)[s] + 1 .. Len(log[s]) :
                   /\ g.order <= log[s][n].order
                   /\ log[s][n].order = g.order => Piece(s, log[s], n) \in g.rows
              /\ \A r \in pending[s] : g.order < r.order
<1> DEFINE acked == reader.acked
           at == ReadFrom(acked)
<1>t. /\ SourceTypes /\ ReaderTypes /\ Numbered /\ OnlyRows /\ acked \in Good /\ acked \in Stored
      /\ slot \in [Streams -> Nat]
  BY ReaderIs DEF SourceInv, ReaderInv, Positioned, SourceTypes
<1>k. reader.up /\ ~Flying /\ reader.flight.stage = "none"
  BY ReadingIs
<1>m. Merging /\ ~Multi /\ ~Single
  BY <1>t, Kinds DEF ReaderInv, InFlight
<1>d. durable = acked
  BY <1>k, <1>m DEF ReaderInv, Link
<1>u. Active \subseteq Streams
  BY <1>t, ActiveStreams
<1>s. ASSUME NEW s \in Active
      PROVE  /\ at[s] \in Nat /\ Len(log[s]) \in Nat /\ acked.at[s] \in Nat
             /\ at[s] <= acked.at[s] /\ acked.at[s] <= Len(log[s])
             /\ \A n \in 1 .. Len(log[s]) : log[s][n].order \in Nat /\ log[s][n].kind = "row"
             /\ Floor(s) = at[s]
  <2>1. at[s] \in Nat /\ acked.at[s] \in Nat /\ acked.at[s] <= Len(log[s]) /\ Len(log[s]) \in Nat
    BY <1>t, <1>u, GoodIs, StoredIs, LogIs DEF ReadFrom
  <2>2. at[s] <= acked.at[s]
    <3>1. CASE source.dialect = "gaussdb"
      BY <1>d, <3>1 DEF ReaderInv, Slots, ReadFrom
    <3>2. CASE source.dialect # "gaussdb"
      BY <2>1, <3>2 DEF ReadFrom
    <3> QED BY <3>1, <3>2
  <2>3. \A n \in 1 .. Len(log[s]) : log[s][n].order \in Nat /\ log[s][n].kind = "row"
    BY <1>t, <1>m, <1>u, LogIs DEF OnlyRows
  <2> QED BY <1>k, <2>1, <2>2, <2>3 DEF Floor
<1>o. acked.order \in Nat /\ g \in Merged /\ g.order \in Nat
      /\ \A f \in g.rows : f.offset \in Nat
  BY <1>t, GoodIs, MergedIs
<1>g. ASSUME NEW h \in reader.ready
      PROVE  /\ h.rows # {} /\ h.order < NextOrder /\ \A f \in h.rows : f.stream \in Active
             /\ \A s \in Active : Holds(s, log[s], pending[s], at[s], reader.ready, h)
             /\ \A e \in reader.ready : h.order = e.order => h = e
             /\ g.order <= h.order /\ h.order \in Nat
  <2>1. /\ h.rows # {} /\ h.order < NextOrder /\ \A f \in h.rows : f.stream \in Active
        /\ \A s \in Active : Holds(s, log[s], pending[s], Floor(s), reader.ready, h)
        /\ \A e \in reader.ready : h.order = e.order => h = e
    BY <1>k, <1>m DEF ReaderInv, Readied
  <2> QED BY <1>t, <1>s, <2>1, MergedIs
<1>1. ASSUME NEW f \in g.rows
      PROVE  /\ f.stream \in Active /\ f.order = g.order /\ f.offset \in Nat /\ at[f.stream] < f.offset
             /\ f.offset \in 1 .. Len(log[f.stream]) /\ log[f.stream][f.offset].order = g.order
             /\ f = Piece(f.stream, log[f.stream], f.offset)
  <2>1. f.stream \in Active /\ Holds(f.stream, log[f.stream], pending[f.stream], at[f.stream], reader.ready, g)
    BY <1>g
  <2>2. /\ at[f.stream] < f.offset /\ f.offset <= Len(log[f.stream])
        /\ f = Piece(f.stream, log[f.stream], f.offset) /\ f.order = g.order
    BY <2>1 DEF Holds
  <2>3. f.offset \in 1 .. Len(log[f.stream])
    BY <1>o, <1>s, <2>1, <2>2
  <2>4. Piece(f.stream, log[f.stream], f.offset).order = log[f.stream][f.offset].order
    BY DEF Piece
  <2> QED BY <1>o, <2>1, <2>2, <2>3, <2>4
<1>2. ASSUME NEW s \in Active, NEW n \in at[s] + 1 .. Len(log[s])
      PROVE  /\ g.order <= log[s][n].order
             /\ log[s][n].order = g.order => Piece(s, log[s], n) \in g.rows
  <2>1. n \in 1 .. Len(log[s]) /\ log[s][n].order \in Nat
    <3>1. n \in 1 .. Len(log[s])
      BY <1>s
    <3> QED BY <1>s, <3>1
  <2>2. ASSUME log[s][n].order <= g.order
        PROVE  log[s][n].order = g.order /\ Piece(s, log[s], n) \in g.rows
    <3>1. PICK h \in reader.ready : Piece(s, log[s], n) \in h.rows
      BY <1>g, <2>2 DEF Holds
    <3>2. Piece(s, log[s], n).stream = s /\ Piece(s, log[s], n).order = log[s][n].order
      BY DEF Piece
    <3>3. Piece(s, log[s], n).order = h.order
      BY <1>g, <3>1, <3>2 DEF Holds
    <3>4. h.order = g.order
      BY <1>g, <1>o, <2>1, <2>2, <3>2, <3>3
    <3>5. h = g
      BY <1>g, <3>4
    <3> QED BY <3>1, <3>2, <3>4, <3>3, <3>5
  <2> QED BY <1>o, <2>1, <2>2
<1>3. \A s \in Active : \A r \in pending[s] : g.order < r.order
  BY <1>g DEF Holds
<1>4. PICK f \in g.rows : TRUE
  BY <1>g
<1>5. CASE f.offset \in acked.at[f.stream] + 1 .. Len(log[f.stream])
  <2>1. acked.order < log[f.stream][f.offset].order
    BY <1>t, <1>m, <1>1, <1>5, GoodIs
  <2>2. acked.order < g.order
    BY <1>1, <2>1
  <2> QED BY <1>t, <1>m, <1>d, <1>u, <1>s, <1>o, <1>g, <1>1, <1>2, <1>3, <2>2
<1>6. CASE f.offset \notin acked.at[f.stream] + 1 .. Len(log[f.stream])
  <2>1. f.offset <= acked.at[f.stream] /\ f.offset \in at[f.stream] + 1 .. acked.at[f.stream]
        /\ f.stream \in Active
    BY <1>1, <1>s, <1>6
  <2>2. source.dialect = "gaussdb"
    <3>1. ~(at[f.stream] = acked.at[f.stream])
      BY <1>s, <2>1
    <3> QED BY <3>1 DEF ReadFrom
  <2>3. f.offset \in slot[f.stream] + 1 .. durable.at[f.stream]
    BY <1>d, <2>1, <2>2 DEF ReadFrom
  <2>4. g.order = acked.order
    BY <1>d, <1>1, <2>1, <2>2, <2>3 DEF ReaderInv, Slots
  <2> QED BY <1>t, <1>m, <1>d, <1>u, <1>s, <1>o, <1>g, <1>1, <1>2, <1>3, <2>2, <2>4
<1> QED BY <1>5, <1>6

\* The transaction that a group is.
LEMMA GroupCommitted ==
  ASSUME SourceInv, ReaderInv, Reading, NEW g \in reader.ready, \A other \in reader.ready : g.order <= other.order,
         reader.acked.order < g.order
  PROVE  \E j \in DOMAIN committed :
           /\ committed[j].order = g.order
           /\ committed[j] = Assembled(g.order, {<<f.stream, f.part>> : f \in g.rows})
           /\ \A i \in DOMAIN committed : committed[i].order <= reader.acked.order <=> i < j
           /\ source.dialect = "purescale" => StreamsOf(g) = Active
<1> DEFINE acked == reader.acked
           at == ReadFrom(acked)
           rows == {<<f.stream, f.part>> : f \in g.rows}
<1>t. SourceTypes /\ Numbered /\ Real /\ Complete /\ Shaped
  BY DEF SourceInv
<1>g. /\ Merging /\ ~Multi /\ acked \in Good /\ acked.order \in Nat /\ g.order \in Nat /\ g.rows # {}
      /\ \A f \in g.rows :
              /\ f.stream \in Active /\ f.order = g.order
              /\ f.offset \in 1 .. Len(log[f.stream]) /\ log[f.stream][f.offset].order = g.order
              /\ f = Piece(f.stream, log[f.stream], f.offset)
  BY NextGroup
<1>s. \A s \in Active :
        /\ at[s] \in Nat /\ Len(log[s]) \in Nat /\ acked.at[s] \in Nat /\ at[s] <= acked.at[s]
        /\ \A n \in 1 .. Len(log[s]) : log[s][n].order \in Nat /\ log[s][n].kind = "row"
        /\ \A n \in at[s] + 1 .. Len(log[s]) :
             /\ g.order <= log[s][n].order
             /\ log[s][n].order = g.order => Piece(s, log[s], n) \in g.rows
        /\ \A r \in pending[s] : g.order < r.order
  BY NextGroup
<1>p. \A s, stream, n : Piece(s, stream, n).stream = s /\ Piece(s, stream, n).part = stream[n].part
  BY DEF Piece
<1>k. ASSUME NEW f \in g.rows PROVE Known(committed, f.stream, g.order, f.part)
  <2>1. /\ f.stream \in Active /\ f.offset \in 1 .. Len(log[f.stream])
        /\ log[f.stream][f.offset].order = g.order /\ log[f.stream][f.offset].kind = "row"
    BY <1>g, <1>s
  <2>2. f.part = log[f.stream][f.offset].part
    BY <1>g, <1>p
  <2> QED BY <1>t, <2>1, <2>2 DEF Real
<1>j. PICK j \in DOMAIN committed : committed[j].order = g.order
  BY <1>g, <1>k DEF Known
<1>c. /\ committed[j] \in Txs /\ committed[j].order = 2 * j /\ j \in Nat
      /\ \A r \in committed[j].rows : r[1] \in Active /\ r = <<r[1], r[2]>>
  BY <1>t, CommitIs
<1>1. ASSUME NEW f \in g.rows PROVE <<f.stream, f.part>> \in committed[j].rows
  <2>1. PICK i \in DOMAIN committed : committed[i].order = g.order /\ <<f.stream, f.part>> \in committed[i].rows
    BY <1>k DEF Known
  <2>2. committed[i].order = 2 * i /\ i \in Nat
    BY <1>t, CommitIs
  <2>3. i = j
    BY <1>j, <1>c, <2>1, <2>2
  <2> QED BY <2>1, <2>3
<1>2. ASSUME NEW r \in committed[j].rows
      PROVE  \E f \in g.rows : f.stream = r[1] /\ f.part = r[2]
  <2> DEFINE s == r[1]
  <2>1. s \in Active
    BY <1>c
  <2>2. Row(g.order, r[2]) \notin pending[s]
    <3>1. Row(g.order, r[2]).order = g.order
      BY DEF Row
    <3>2. ~(g.order < g.order)
      BY <1>g
    <3> QED BY <1>s, <2>1, <3>1, <3>2
  <2>3. PICK m \in 1 .. Len(log[s]) : log[s][m] = Row(g.order, r[2])
    BY <1>t, <1>j, <2>2 DEF Complete, InLog
  <2>4. log[s][m].order = g.order /\ log[s][m].kind = "row" /\ log[s][m].part = r[2]
    BY <2>3 DEF Row
  <2>5. ~(m \in 1 .. acked.at[s])
    <3> SUFFICES ASSUME m \in 1 .. acked.at[s] PROVE FALSE
      OBVIOUS
    <3>1. log[s][m].order <= acked.order
      BY <1>t, <1>g, <2>1, <2>4, GoodIs
    <3> QED BY <1>g, <2>4, <3>1
  <2>6. m \in at[s] + 1 .. Len(log[s])
    BY <1>s, <2>1, <2>5
  <2>7. Piece(s, log[s], m) \in g.rows
    BY <1>s, <2>1, <2>4, <2>6
  <2> QED BY <1>p, <2>4, <2>7
<1>3. rows = committed[j].rows
  <2>1. rows \subseteq committed[j].rows
    BY <1>1
  <2>2. committed[j].rows \subseteq rows
    <3> SUFFICES ASSUME NEW r \in committed[j].rows PROVE r \in rows
      OBVIOUS
    <3>1. PICK f \in g.rows : f.stream = r[1] /\ f.part = r[2]
      BY <1>2
    <3>2. r = <<f.stream, f.part>>
      BY <1>c, <3>1
    <3> QED BY <3>2
  <2> QED BY <2>1, <2>2
<1>4. committed[j] = Assembled(g.order, rows)
  <2>1. committed[j] = [order |-> committed[j].order, rows |-> committed[j].rows]
    BY <1>c DEF Txs
  <2> QED BY <1>j, <1>3, <2>1 DEF Assembled
<1>5. \A i \in DOMAIN committed : committed[i].order <= acked.order <=> i < j
  <2>1. \A s \in Active : \A n \in acked.at[s] + 1 .. Len(log[s]) : committed[j].order <= log[s][n].order
    <3> SUFFICES ASSUME NEW s \in Active, NEW n \in acked.at[s] + 1 .. Len(log[s])
                 PROVE  committed[j].order <= log[s][n].order
      OBVIOUS
    <3>1. n \in at[s] + 1 .. Len(log[s])
      BY <1>s
    <3> QED BY <1>j, <1>s, <3>1
  <2>2. \A s \in Active : \A r \in pending[s] : committed[j].order <= r.order
    <3> SUFFICES ASSUME NEW s \in Active, NEW r \in pending[s] PROVE committed[j].order <= r.order
      OBVIOUS
    <3>1. g.order < r.order /\ r.order \in Nat
      BY <1>t, <1>s, ActiveStreams, LogIs
    <3> QED BY <1>g, <1>j, <3>1
  <2> QED BY <1>g, <1>j, <2>1, <2>2, FirstBehind
<1>6. source.dialect = "purescale" => StreamsOf(g) = Active
  <2> SUFFICES ASSUME source.dialect = "purescale", NEW s \in Active PROVE \E f \in g.rows : f.stream = s
    BY <1>g DEF StreamsOf
  <2>1. PICK r \in committed[j].rows : r[1] = s
    BY <1>t DEF Shaped
  <2> QED BY <1>2, <2>1
<1> QED BY <1>j, <1>4, <1>5, <1>6

\* The place behind a group.
LEMMA BehindIs ==
  ASSUME SourceInv, ReaderInv, Reading, NEW g \in reader.ready, \A other \in reader.ready : g.order <= other.order,
         NEW p \in Good, source.dialect = "gaussdb" => p = reader.acked
  PROVE  /\ Behind(g, p) \in Good /\ Behind(g, p).order = g.order
         /\ StreamsOf(g) \subseteq Active
         /\ \A s \in Streams : reader.acked.at[s] <= Behind(g, p).at[s]
         /\ \A s \in Active : /\ Behind(g, p).at[s] \in Nat
                              /\ s \notin StreamsOf(g) => Behind(g, p).at[s] = reader.acked.at[s]
                              /\ \A n \in ReadFrom(reader.acked)[s] + 1 .. Behind(g, p).at[s] : log[s][n].order = g.order
                              /\ \A n \in Behind(g, p).at[s] + 1 .. Len(log[s]) : g.order < log[s][n].order
         /\ \A f \in g.rows : f.offset <= Behind(g, p).at[f.stream]
<1> DEFINE acked == reader.acked
           at == ReadFrom(acked)
           pos == Behind(g, p)
<1>t. SourceTypes /\ Numbered /\ Real /\ acked \in Stored /\ ReaderTypes
  BY ReaderIs DEF SourceInv, ReaderInv
<1>g. /\ Merging /\ ~Multi /\ acked \in Good /\ acked.order \in Nat /\ g.order \in Nat /\ g.rows # {}
      /\ acked.order <= g.order /\ g.order < NextOrder
      /\ source.dialect = "purescale" => acked.order < g.order
      /\ \A f \in g.rows :
              /\ f.stream \in Active /\ f.order = g.order /\ f.offset \in Nat /\ at[f.stream] < f.offset
              /\ f.offset \in 1 .. Len(log[f.stream]) /\ log[f.stream][f.offset].order = g.order
              /\ f = Piece(f.stream, log[f.stream], f.offset)
  BY NextGroup
<1>s. \A s \in Active :
        /\ at[s] \in Nat /\ Len(log[s]) \in Nat /\ acked.at[s] \in Nat /\ at[s] <= acked.at[s]
        /\ acked.at[s] <= Len(log[s])
        /\ \A n \in 1 .. Len(log[s]) : log[s][n].order \in Nat /\ log[s][n].kind = "row"
        /\ \A n \in at[s] + 1 .. Len(log[s]) :
             /\ g.order <= log[s][n].order
             /\ log[s][n].order = g.order => Piece(s, log[s], n) \in g.rows
        /\ \A r \in pending[s] : g.order < r.order
  BY NextGroup
<1>u. Active \subseteq Streams /\ StreamsOf(g) \subseteq Active
  BY <1>t, <1>g, ActiveStreams DEF StreamsOf
<1>q. /\ p \in Stored /\ p.at \in [Streams -> Nat] /\ \A s \in Streams \ Active : p.at[s] = 0
      /\ acked.at \in [Streams -> Nat] /\ \A s \in Streams \ Active : acked.at[s] = 0
      /\ acked.order >= 1
  BY <1>t, <1>g, GoodIs, StoredIs
<1>m. ASSUME NEW s \in StreamsOf(g)
      PROVE  /\ Max(Offsets(g, s)) \in Nat /\ s \in Active
             /\ \E f \in g.rows : f.stream = s /\ f.offset = Max(Offsets(g, s))
             /\ \A f \in g.rows : f.stream = s => f.offset <= Max(Offsets(g, s))
  <2>1. s \in Active /\ Len(log[s]) \in Nat
    BY <1>u, <1>s
  <2> DEFINE offsets == Offsets(g, s)
  <2>2. offsets = {f.offset : f \in {x \in g.rows : x.stream = s}}
    BY DEF Offsets
  <2>3. offsets \in SUBSET Nat /\ offsets # {} /\ \A x \in offsets : x <= Len(log[s])
    <3>1. \A f \in g.rows : f.stream = s => f.offset \in Nat /\ f.offset <= Len(log[s])
      BY <1>g, <2>1
    <3>2. \E f \in g.rows : f.stream = s
      BY DEF StreamsOf
    <3> HIDE DEF offsets
    <3> QED BY <2>2, <3>1, <3>2
  <2> HIDE DEF offsets
  <2>4. Max(offsets) \in offsets /\ \A x \in offsets : x <= Max(offsets)
    BY <2>1, <2>3, MaxIn
  <2>5. Max(offsets) \in Nat
    BY <2>3, <2>4
  <2> QED BY <2>1, <2>2, <2>4, <2>5 DEF offsets
<1>b. /\ pos.order = g.order /\ pos \in Stored
      /\ \A s \in Streams : pos.at[s] = IF s \in StreamsOf(g) THEN Max(Offsets(g, s)) ELSE p.at[s]
  <2> DEFINE places == [s \in Streams |-> IF s \in StreamsOf(g) THEN Max(Offsets(g, s)) ELSE p.at[s]]
  <2>1. places \in [Streams -> Nat]
    BY <1>m, <1>q
  <2>2. \A s \in Streams : places[s] = IF s \in StreamsOf(g) THEN Max(Offsets(g, s)) ELSE p.at[s]
    OBVIOUS
  <2>3. pos = Position(g.order, places)
    BY DEF Behind
  <2> HIDE DEF places
  <2>4. pos.order = g.order /\ pos.at = places /\ pos \in Stored
    BY <1>g, <2>1, <2>3 DEF Position, Stored
  <2> HIDE DEF pos
  <2> QED BY <2>2, <2>4
<1>p. source.dialect = "purescale" => StreamsOf(g) = Active
  <2> SUFFICES ASSUME source.dialect = "purescale" PROVE StreamsOf(g) = Active
    OBVIOUS
  <2>1. acked.order < g.order
    BY <1>g
  <2> QED BY <2>1, GroupCommitted
<1> HIDE DEF pos, acked, at
<1>e. ASSUME NEW s \in Active, s \notin StreamsOf(g) PROVE pos.at[s] = acked.at[s]
  <2>1. source.dialect = "gaussdb"
    BY <1>e, <1>g, <1>p DEF Merging
  <2> QED BY <1>b, <1>e, <1>u, <2>1 DEF acked
<1>c. ASSUME NEW s \in Active
      PROVE  /\ pos.at[s] \in Nat /\ at[s] <= pos.at[s] /\ pos.at[s] <= Len(log[s])
             /\ \A n \in at[s] + 1 .. pos.at[s] : log[s][n].order = g.order
             /\ \A n \in pos.at[s] + 1 .. Len(log[s]) : g.order < log[s][n].order
             /\ \A n \in 1 .. pos.at[s] : log[s][n].order <= g.order
             /\ acked.at[s] <= pos.at[s]
  <2>1. CASE s \in StreamsOf(g)
    <3>1. PICK f \in g.rows : f.stream = s /\ f.offset = Max(Offsets(g, s))
      BY <1>m, <2>1
    <3>2. pos.at[s] = f.offset
      BY <1>b, <1>u, <2>1, <3>1
    <3>3. /\ f.offset \in Nat /\ at[s] < f.offset /\ f.offset \in 1 .. Len(log[s]) /\ log[s][f.offset].order = g.order
      BY <1>g, <3>1
    <3>4. \A n \in 1 .. f.offset : log[s][n].order <= g.order
      BY <1>g, <3>3, AscendingIs
    <3>5. ASSUME NEW n \in at[s] + 1 .. f.offset PROVE log[s][n].order = g.order
      <4>1. n \in 1 .. f.offset /\ n \in at[s] + 1 .. Len(log[s]) /\ n \in 1 .. Len(log[s])
        BY <1>s, <3>3
      <4>2. log[s][n].order <= g.order /\ g.order <= log[s][n].order /\ log[s][n].order \in Nat
        BY <1>s, <3>4, <4>1
      <4> QED BY <1>g, <4>2
    <3>6. ASSUME NEW n \in f.offset + 1 .. Len(log[s]) PROVE g.order < log[s][n].order
      <4>1. n \in at[s] + 1 .. Len(log[s]) /\ n \in 1 .. Len(log[s]) /\ ~(n <= f.offset)
        BY <1>s, <3>3
      <4>2. log[s][n].order # g.order
        <5> SUFFICES ASSUME log[s][n].order = g.order PROVE FALSE
          OBVIOUS
        <5>1. Piece(s, log[s], n) \in g.rows
          BY <1>s, <4>1
        <5>2. Piece(s, log[s], n).stream = s /\ Piece(s, log[s], n).offset = n
          BY DEF Piece
        <5> QED BY <1>m, <2>1, <3>1, <4>1, <5>1, <5>2
      <4>3. g.order <= log[s][n].order /\ log[s][n].order \in Nat
        BY <1>s, <4>1
      <4> QED BY <1>g, <4>2, <4>3
    <3>7. acked.at[s] <= f.offset
      <4> SUFFICES ASSUME ~(acked.at[s] <= f.offset) PROVE FALSE
        OBVIOUS
      <4> DEFINE n == acked.at[s]
      <4>1. n \in f.offset + 1 .. Len(log[s]) /\ n \in 1 .. n /\ n \in 1 .. Len(log[s])
        BY <1>s, <3>3
      <4>2. g.order < log[s][n].order
        BY <3>6, <4>1
      <4>3. log[s][n].order <= acked.order
        BY <1>t, <1>g, <1>s, <4>1, GoodIs
      <4>4. log[s][n].order \in Nat
        BY <1>s, <4>1
      <4> HIDE DEF n
      <4> QED BY <1>g, <4>2, <4>3, <4>4
    <3>8. at[s] <= f.offset /\ f.offset <= Len(log[s])
      BY <1>s, <3>3
    <3> QED BY <3>2, <3>3, <3>4, <3>5, <3>6, <3>7, <3>8
  <2>2. CASE s \notin StreamsOf(g)
    <3>1. pos.at[s] = acked.at[s]
      BY <1>e, <2>2
    <3>2. \A n \in 1 .. acked.at[s] : n \in 1 .. Len(log[s]) /\ log[s][n].order <= acked.order
      <4>1. \A n \in 1 .. acked.at[s] : n \in 1 .. Len(log[s])
        BY <1>s
      <4> QED BY <1>t, <1>g, <1>s, <4>1, GoodIs
    <3>3. \A n \in 1 .. acked.at[s] : log[s][n].order <= g.order
      BY <1>g, <1>s, <3>2
    <3>4. ASSUME NEW n \in at[s] + 1 .. acked.at[s] PROVE log[s][n].order = g.order
      <4>1. n \in 1 .. acked.at[s] /\ n \in at[s] + 1 .. Len(log[s]) /\ n \in 1 .. Len(log[s])
        BY <1>s
      <4>2. log[s][n].order <= g.order /\ g.order <= log[s][n].order /\ log[s][n].order \in Nat
        BY <1>s, <3>3, <4>1
      <4> QED BY <1>g, <4>2
    <3>5. ASSUME NEW n \in acked.at[s] + 1 .. Len(log[s]) PROVE g.order < log[s][n].order
      <4>1. n \in at[s] + 1 .. Len(log[s]) /\ n \in 1 .. Len(log[s])
        BY <1>s
      <4>2. log[s][n].order # g.order
        <5> SUFFICES ASSUME log[s][n].order = g.order PROVE FALSE
          OBVIOUS
        <5>1. Piece(s, log[s], n) \in g.rows
          BY <1>s, <4>1
        <5>2. Piece(s, log[s], n).stream = s
          BY DEF Piece
        <5> QED BY <2>2, <5>1, <5>2 DEF StreamsOf
      <4>3. g.order <= log[s][n].order /\ log[s][n].order \in Nat
        BY <1>s, <4>1
      <4> QED BY <1>g, <4>2, <4>3
    <3> QED BY <1>s, <3>1, <3>3, <3>4, <3>5
  <2> QED BY <2>1, <2>2
<1>o. ~Odd(g.order)
  <2>1. PICK f \in g.rows : TRUE
    BY <1>g
  <2>2. Known(committed, f.stream, g.order, log[f.stream][f.offset].part)
    BY <1>t, <1>g, <1>s DEF Real
  <2> QED BY <1>t, <2>2, KnownIs
<1>1. pos \in Good
  <2>1. g.order >= 1
    BY <1>g, <1>q
  <2>2. \A s \in Streams \ Active : pos.at[s] = 0
    BY <1>b, <1>u, <1>q
  <2>3. ~source.started
    BY <1>t, <1>g, Kinds
  <2>4. Right(pos)
    BY <1>b, <1>c, <1>g, <2>1, <2>2, <2>3 DEF Right
  <2>5. Above(pos)
    BY <1>b, <1>c, <1>s, <1>o DEF Above
  <2> QED BY <1>b, <2>4, <2>5 DEF Good
<1>2. \A s \in Streams : acked.at[s] <= pos.at[s]
  <2> SUFFICES ASSUME NEW s \in Streams PROVE acked.at[s] <= pos.at[s]
    OBVIOUS
  <2>1. CASE s \in Active
    BY <1>c, <2>1
  <2>2. CASE s \notin Active
    BY <1>b, <1>u, <1>q, <2>2
  <2> QED BY <2>1, <2>2
<1>3. \A f \in g.rows : f.offset <= pos.at[f.stream]
  <2> SUFFICES ASSUME NEW f \in g.rows PROVE f.offset <= pos.at[f.stream]
    OBVIOUS
  <2>1. f.stream \in StreamsOf(g)
    BY DEF StreamsOf
  <2> QED BY <1>b, <1>u, <1>m, <2>1
<1> QED BY <1>b, <1>c, <1>e, <1>u, <1>1, <1>2, <1>3 DEF pos, acked, at

\* The next group goes to the server.
LEMMA TakeStep ==
  ASSUME SourceInv, ReaderInv, UNCHANGED <<source, Unshown>>, slot' = slot, Take
  PROVE  SourceInv' /\ ReaderInv'
<1>a. Reading /\ durable' = durable /\ accepted' = accepted
  BY DEF Take
<1>b. PICK g \in reader.ready :
        /\ \A other \in reader.ready : g.order <= other.order
        /\ reader' = [reader EXCEPT !.ready = @ \ {g},
                        !.flight = GroupRequest(g, IF source.dialect = "purescale"
                                                   THEN reader.base ELSE reader.acked)]
  BY DEF Take
<1> DEFINE acked == reader.acked
           at == ReadFrom(acked)
           p == IF source.dialect = "purescale" THEN reader.base ELSE acked
           pos == Behind(g, p)
           rows == {<<f.stream, f.part>> : f \in g.rows}
           tx == Assembled(g.order, rows)
           acks == IF source.dialect = "gaussdb" THEN StreamsOf(g) ELSE {}
           rest == reader.ready \ {g}
<1>t. /\ SourceTypes /\ Numbered /\ ReaderTypes /\ reader \in Readers /\ acked \in Stored
      /\ reader.base \in Good /\ slot \in [Streams -> Nat]
  BY ReaderIs DEF SourceInv, ReaderInv, Positioned, SourceTypes
<1>s. /\ Merging' = Merging /\ Active' = Active /\ NextOrder' = NextOrder /\ Nothing' = Nothing
      /\ log' = log /\ pending' = pending /\ resolved' = resolved /\ source' = source /\ committed' = committed
  BY <1>t, SourceSame
<1>g. /\ Merging /\ ~Multi /\ durable = acked /\ acked \in Good /\ acked.order \in Nat /\ g.order \in Nat
      /\ acked.order <= g.order /\ g.order < NextOrder /\ g.rows # {} /\ g \in Merged
      /\ source.dialect = "purescale" => acked.order < g.order
      /\ \A f \in g.rows : f.stream \in Active /\ f.stream \in Streams /\ f.order = g.order /\ f.offset \in Nat
  BY <1>a, <1>b, NextGroup
<1>l. \A s \in Active : /\ at[s] \in Nat /\ Len(log[s]) \in Nat /\ acked.at[s] \in Nat
                        /\ \A n \in 1 .. Len(log[s]) : log[s][n].order \in Nat
  BY <1>a, <1>b, NextGroup
<1>k. reader.up /\ ~Flying /\ reader.flight.stage = "none"
  BY <1>a, ReadingIs
<1>p. p \in Good /\ (source.dialect = "gaussdb" => p = acked)
  BY <1>t, <1>g
<1>d. /\ pos \in Good /\ pos.order = g.order /\ StreamsOf(g) \subseteq Active
      /\ \A s \in Streams : acked.at[s] <= pos.at[s]
      /\ \A s \in Active : /\ pos.at[s] \in Nat
                           /\ s \notin StreamsOf(g) => pos.at[s] = acked.at[s]
                           /\ \A n \in at[s] + 1 .. pos.at[s] : log[s][n].order = g.order
                           /\ \A n \in pos.at[s] + 1 .. Len(log[s]) : g.order < log[s][n].order
      /\ \A f \in g.rows : f.offset <= pos.at[f.stream]
  <2> HIDE DEF p
  <2> QED BY <1>a, <1>b, <1>p, BehindIs
<1>u. Active \subseteq Streams /\ pos \in Stored /\ pos.at \in [Streams -> Nat]
      /\ acked.at \in [Streams -> Nat]
  BY <1>t, <1>d, ActiveStreams, StoredIs DEF Good
<1> HIDE DEF p, pos
<1>x. tx \in Txs /\ <<tx>> \in Seq(Txs) /\ tx.rows = rows /\ tx.order = g.order
  <2>1. \A f \in g.rows : <<f.stream, f.part>> \in Streams \X Nat
    <3> SUFFICES ASSUME NEW f \in g.rows PROVE f.stream \in Streams /\ f.part \in Nat
      OBVIOUS
    <3> QED BY <1>g DEF Merged, Parts
  <2>2. rows \in SUBSET (Streams \X Nat)
    BY <2>1
  <2> HIDE DEF rows
  <2> QED BY <1>g, <2>2 DEF Assembled, Txs
<1> HIDE DEF tx
<1>r. /\ reader' \in Readers /\ reader'.up = reader.up /\ reader'.acked = acked
      /\ reader'.base = reader.base /\ reader'.batch = reader.batch /\ reader'.ready = rest
      /\ reader'.flight.stage = "read" /\ reader'.flight.txs = <<tx>> /\ reader'.flight.pos = pos
      /\ reader'.flight.acks = acks
  <2> DEFINE request == Request(<<tx>>, pos, acks)
  <2>1. GroupRequest(g, p) = request
    BY DEF GroupRequest, pos, tx
  <2>2. reader' = [reader EXCEPT !.ready = rest, !.flight = request]
    BY <1>b, <2>1 DEF p
  <2>3. acks \in SUBSET Streams
    BY <1>d, <1>u
  <2>4. /\ request \in Flights /\ request.stage = "read" /\ request.txs = <<tx>>
        /\ request.pos = pos /\ request.acks = acks
    <3> HIDE DEF acks
    <3> QED BY <1>u, <1>x, <2>3 DEF Request, Flights
  <2>5. rest \in SUBSET Merged
    BY <1>t, ReaderIs
  <2> HIDE DEF request, rest, acks
  <2>6. /\ reader' \in Readers /\ reader'.up = reader.up /\ reader'.acked = reader.acked
        /\ reader'.base = reader.base /\ reader'.batch = reader.batch /\ reader'.ready = rest
        /\ reader'.flight = request
    BY <1>t, <2>2, <2>4, <2>5 DEF Readers
  <2> QED BY <2>4, <2>6
<1>f. /\ Flying' /\ ReadFrom(acked)' = at
      /\ FlightStreams' = StreamsOf(g)
  <2>1. ReadFrom(acked)' = at
    BY <1>r, <1>s DEF ReadFrom
  <2>2. FlightStreams' = {r[1] : r \in rows}
    BY <1>r, <1>x DEF FlightStreams
  <2>3. {r[1] : r \in rows} = StreamsOf(g)
    <3>1. ASSUME NEW s \in StreamsOf(g) PROVE s \in {r[1] : r \in rows}
      <4>1. PICK f \in g.rows : s = f.stream
        BY DEF StreamsOf
      <4>2. <<f.stream, f.part>> \in rows /\ <<f.stream, f.part>>[1] = s
        BY <4>1
      <4> QED BY <4>2
    <3>2. ASSUME NEW r \in rows PROVE r[1] \in StreamsOf(g)
      BY DEF StreamsOf
    <3> QED BY <3>1, <3>2
  <2> QED BY <1>r, <2>1, <2>2, <2>3 DEF Flying
<1>1. Carries'
  <2>1. CASE acked.order < g.order
    <3>1. PICK j \in DOMAIN committed :
            /\ committed[j].order = g.order /\ committed[j] = Assembled(g.order, rows)
            /\ \A i \in DOMAIN committed : committed[i].order <= acked.order <=> i < j
      BY <1>a, <1>b, <2>1, GroupCommitted
    <3>2. tx = committed[j]
      BY <3>1 DEF tx
    <3>3. Brings(committed, <<tx>>, acked.order, pos.order)
      BY <1>d, <3>1, <3>2 DEF Brings
    <3> QED BY <1>r, <1>s, <3>3 DEF Carries
  <2>2. CASE ~(acked.order < g.order)
    <3>1. acked.order = g.order /\ source.dialect = "gaussdb"
      BY <1>g, <2>2 DEF Merging
    <3>2. ASSUME NEW s \in Active PROVE pos.at[s] = acked.at[s]
      <4> SUFFICES ASSUME s \in StreamsOf(g), acked.at[s] < pos.at[s] PROVE FALSE
        BY <1>d, <1>u, <1>l
      <4> DEFINE n == pos.at[s]
      <4>1. n \in Nat /\ n <= Len(log[s]) /\ n \in acked.at[s] + 1 .. Len(log[s]) /\ n \in at[s] + 1 .. n
        <5>1. n \in Nat /\ n <= Len(log[s])
          BY <1>t, <1>d, GoodIs
        <5>2. PICK f \in g.rows : f.stream = s
          BY DEF StreamsOf
        <5>3. at[s] < f.offset /\ f.offset \in Nat /\ f.offset <= n
          BY <1>a, <1>b, <1>d, <5>2, NextGroup
        <5> QED BY <1>l, <5>1, <5>3
      <4>2. log[s][n].order = g.order
        BY <1>d, <4>1
      <4>3. acked.order < log[s][n].order
        BY <1>t, <1>g, <4>1, GoodIs
      <4> QED BY <1>g, <3>1, <4>2, <4>3
    <3>3. ASSUME NEW s \in Streams \ Active PROVE pos.at[s] = acked.at[s]
      BY <1>t, <1>g, <1>d, GoodIs
    <3>4. pos.at = acked.at
      <4>1. \A s \in Streams : pos.at[s] = acked.at[s]
        BY <3>2, <3>3
      <4> QED BY <1>u, <4>1
    <3>5. pos = acked
      <4>1. pos = Position(pos.order, pos.at) /\ acked = Position(acked.order, acked.at)
        BY <1>u, <1>t, StoredIs
      <4> HIDE DEF acked
      <4> QED BY <1>d, <3>1, <3>4, <4>1
    <3>6. Len(reader'.flight.txs) = 1
      BY <1>r
    <3> QED BY <1>a, <1>g, <1>r, <1>s, <3>5, <3>6 DEF Carries
  <2> QED BY <2>1, <2>2
<1>2. Batched'
  <2>1. reader.batch = <<>>
    BY <1>b, <1>g, <1>k DEF ReaderInv, Batched
  <2> QED BY <1>r, <2>1 DEF Batched
<1>3. Handed'
  <2>1. Len(reader'.flight.txs) = 1
    BY <1>r
  <2>2. source.dialect = "purescale" => StreamsOf(g) = Active
    <3> SUFFICES ASSUME source.dialect = "purescale" PROVE StreamsOf(g) = Active
      OBVIOUS
    <3>1. acked.order < g.order
      BY <1>g
    <3> QED BY <1>a, <1>b, <3>1, GroupCommitted
  <2>3. source.dialect = "gaussdb" => acks = StreamsOf(g)
    OBVIOUS
  <2> HIDE DEF acks
  <2> QED BY <1>d, <1>f, <1>r, <1>s, <2>1, <2>2, <2>3 DEF Handed
<1>4. Readied'
  <2> DEFINE floor(s) == IF s \in StreamsOf(g) THEN pos.at[s] ELSE at[s]
  <2>1. \A s \in Active : Floor(s)' = floor(s)
    BY <1>f, <1>r DEF Floor
  <2>h. ASSUME NEW h \in reader.ready
        PROVE  /\ h.rows # {} /\ h.order < NextOrder /\ \A f \in h.rows : f.stream \in Active
               /\ \A s \in Active : Holds(s, log[s], pending[s], at[s], reader.ready, h)
               /\ \A e \in reader.ready : h.order = e.order => h = e
               /\ g.order <= h.order /\ h.order \in Nat /\ \A f \in h.rows : f.offset \in Nat
    <3>1. /\ h.rows # {} /\ h.order < NextOrder /\ \A f \in h.rows : f.stream \in Active
          /\ \A s \in Active : Holds(s, log[s], pending[s], Floor(s), reader.ready, h)
          /\ \A e \in reader.ready : h.order = e.order => h = e
      BY <1>k, <1>g DEF ReaderInv, Readied
    <3>2. \A s : Floor(s) = at[s]
      BY <1>k DEF Floor
    <3> QED BY <1>b, <1>t, <3>1, <3>2, MergedIs
  <2>2. ASSUME NEW h \in rest PROVE g.order < h.order /\ h \in reader.ready
    <3>1. h \in reader.ready /\ h # g
      OBVIOUS
    <3>2. g.order <= h.order /\ h.order \in Nat /\ h.order # g.order
      BY <2>h, <3>1
    <3> QED BY <1>g, <3>1, <3>2
  <2>3. ASSUME NEW s \in Active
        PROVE  floor(s) \in Nat /\ at[s] <= floor(s) /\ \A n \in at[s] + 1 .. floor(s) : log[s][n].order = g.order
    <3>1. CASE s \in StreamsOf(g)
      <4>1. PICK f \in g.rows : f.stream = s
        BY <3>1 DEF StreamsOf
      <4>2. at[s] < f.offset /\ f.offset \in Nat /\ f.offset <= pos.at[s]
        BY <1>a, <1>b, <1>d, <4>1, NextGroup
      <4> QED BY <1>d, <1>l, <3>1, <4>2
    <3>2. CASE s \notin StreamsOf(g)
      <4>1. at[s] + 1 .. at[s] = {}
        BY <1>l
      <4> QED BY <1>l, <3>2, <4>1
    <3> QED BY <3>1, <3>2
  <2>4. ASSUME NEW h \in rest, NEW s \in Active
        PROVE  Holds(s, log[s], pending[s], floor(s), rest, h)
    <3>1. Holds(s, log[s], pending[s], at[s], reader.ready, h)
      BY <2>h
    <3>2. ASSUME NEW f \in h.rows, f.stream = s
          PROVE  /\ floor(s) < f.offset /\ f.offset <= Len(log[s])
                 /\ f = Piece(s, log[s], f.offset) /\ f.order = h.order
      <4>1. /\ at[s] < f.offset /\ f.offset <= Len(log[s]) /\ f.offset \in Nat
            /\ f = Piece(s, log[s], f.offset) /\ f.order = h.order
        BY <2>h, <3>1, <3>2 DEF Holds
      <4>2. Piece(s, log[s], f.offset).order = log[s][f.offset].order
        BY DEF Piece
      <4>3. log[s][f.offset].order # g.order
        <5>1. g.order < h.order
          BY <2>2
        <5> QED BY <1>g, <4>1, <4>2, <5>1
      <4>4. f.offset \notin at[s] + 1 .. floor(s)
        BY <2>3, <4>3
      <4> HIDE DEF floor
      <4> QED BY <1>l, <2>3, <4>1, <4>4
    <3>3. ASSUME NEW n \in floor(s) + 1 .. Len(log[s]), log[s][n].order <= h.order
          PROVE  \E e \in rest : Piece(s, log[s], n) \in e.rows
      <4>1. n \in at[s] + 1 .. Len(log[s]) /\ n > floor(s) /\ n \in Nat
        <5> HIDE DEF floor
        <5> QED BY <1>l, <2>3
      <4>2. PICK e \in reader.ready : Piece(s, log[s], n) \in e.rows
        BY <3>1, <3>3, <4>1 DEF Holds
      <4>3. e # g
        <5> SUFFICES ASSUME e = g PROVE FALSE
          OBVIOUS
        <5>1. Piece(s, log[s], n).stream = s /\ Piece(s, log[s], n).offset = n
          BY DEF Piece
        <5>2. s \in StreamsOf(g) /\ n <= pos.at[s]
          BY <1>d, <4>2, <5>1 DEF StreamsOf
        <5> QED BY <1>d, <4>1, <5>2
      <4> QED BY <4>2, <4>3
    <3>4. \A r \in pending[s] : h.order < r.order
      BY <3>1 DEF Holds
    <3> HIDE DEF floor, rest
    <3> QED BY <3>2, <3>3, <3>4 DEF Holds
  <2> HIDE DEF floor, rest
  <2>5. \A h \in rest : \A s \in Active : Holds(s, log'[s], pending'[s], Floor(s)', rest, h)
    BY <1>s, <2>1, <2>4
  <2>6. ASSUME NEW h \in rest
        PROVE  /\ h.rows # {} /\ h.order < NextOrder' /\ \A f \in h.rows : f.stream \in Active'
               /\ \A s \in Active' : Holds(s, log'[s], pending'[s], Floor(s)', rest, h)
               /\ \A e \in rest : h.order = e.order => h = e
               /\ reader'.flight.pos.order < h.order
    BY <1>d, <1>r, <1>s, <2>h, <2>2, <2>5
  <2> QED BY <1>r, <2>6 DEF Readied
<1>5. reader'.flight.pos.order >= acked.order /\ \A s \in Streams : reader'.flight.pos.at[s] >= acked.at[s]
  <2>1. \A s \in Streams : pos.at[s] \in Nat /\ acked.at[s] \in Nat
    BY <1>u
  <2> QED BY <1>d, <1>g, <1>r, <2>1
<1>6. source.dialect # "gaussdb" => reader'.flight.acks = {}
  BY <1>r
<1> HIDE DEF acks, rest
<1> QED BY <1>a, <1>g, <1>t, <1>d, <1>r, <1>1, <1>2, <1>3, <1>4, <1>5, <1>6, MergeStep

-----------------------------------------------------------------------------
(* The invariant holds in every behaviour. *)
LEMMA SourceStarts ==
  ASSUME Init, Followed(source)
  PROVE  /\ SourceInv /\ NextOrder = 2 /\ committed = <<>>
         /\ \A s \in Streams :
              /\ pending[s] = {} /\ resolved[s] = 1 /\ slot[s] = 0
              /\ Len(log[s]) = IF source.started /\ s \in Active THEN 1 ELSE 0
              /\ \A n \in 1 .. Len(log[s]) : log[s][n].kind = "resolved" /\ log[s][n].order = 1 /\ n = 1
<1>1. /\ source \in Sources /\ committed = <<>> /\ resends = 0
      /\ log = [s \in Streams |-> IF source.started /\ s \in Active THEN <<Watermark(1)>> ELSE <<>>]
      /\ resolved = [s \in Streams |-> 1] /\ pending = [s \in Streams |-> {}] /\ slot = [s \in Streams |-> 0]
  BY DEF Init, SourceInit
<1>2. Watermark(1) \in Records /\ Watermark(1).kind = "resolved" /\ Watermark(1).order = 1
  BY DEF Watermark, Records
<1>3. ASSUME NEW s \in Streams
      PROVE  /\ log[s] \in Seq(Records) /\ Len(log[s]) = IF source.started /\ s \in Active THEN 1 ELSE 0
             /\ \A n \in 1 .. Len(log[s]) : log[s][n].kind = "resolved" /\ log[s][n].order = 1 /\ n = 1
             /\ pending[s] = {} /\ resolved[s] = 1 /\ slot[s] = 0
  <2>1. CASE source.started /\ s \in Active
    <3>1. log[s] = <<Watermark(1)>>
      BY <1>1, <2>1
    <3>2. log[s] \in Seq(Records) /\ Len(log[s]) = 1 /\ log[s][1] = Watermark(1)
      BY <1>2, <3>1
    <3> QED BY <1>1, <1>2, <2>1, <3>2
  <2>2. CASE ~(source.started /\ s \in Active)
    <3>1. log[s] = <<>>
      BY <1>1, <2>2
    <3> QED BY <1>1, <2>2, <3>1
  <2> QED BY <2>1, <2>2
<1>4. SourceTypes
  <2>1. log \in [Streams -> Seq(Records)]
    <3> HIDE DEF Records
    <3> QED BY <1>1, <1>3
  <2>2. committed \in Seq(Txs) /\ resends \in Nat
    BY <1>1
  <2>3. pending \in [Streams -> SUBSET RowRecords] /\ resolved \in [Streams -> Nat] /\ slot \in [Streams -> Nat]
    BY <1>1
  <2> QED BY <1>1, <2>1, <2>2, <2>3 DEF SourceTypes
<1>5. Active \subseteq Streams
  BY <1>4, ActiveStreams
<1>6. DOMAIN committed = {} /\ NextOrder = 2 /\ Odd(1)
  <2>1. 0 \in Nat /\ 2 * 0 + 1 = 1
    OBVIOUS
  <2>2. Odd(1)
    BY <2>1 DEF Odd
  <2>3. Len(committed) = 0 /\ DOMAIN committed = {}
    BY <1>1
  <2> QED BY <2>2, <2>3 DEF NextOrder
<1>7. Numbered /\ Shaped /\ Complete
  BY <1>6 DEF Numbered, Shaped, Complete
<1>8. Real
  BY <1>1, <1>3, <1>5 DEF Real
<1>9. \A list, stream, s, order, n : DOMAIN list = {} => Shown(list, stream, s, order, n)
  BY DEF Shown
<1>10. Promised /\ Marks
  BY <1>3, <1>5, <1>6, <1>9 DEF Promised, Marks
<1>11. Firsts
  BY <1>3, <1>5 DEF Firsts
<1>12. Ascending
  <2> SUFFICES ASSUME NEW s \in Active, NEW n \in 1 .. Len(log[s]) PROVE 1 .. n - 1 = {}
    BY <1>3, <1>5 DEF Ascending
  <2>1. n = 1
    BY <1>3, <1>5
  <2> QED BY <2>1
<1>13. OnlyRows
  <2> SUFFICES ASSUME Merging, NEW s \in Active PROVE 1 .. Len(log[s]) = {} /\ resolved[s] = 1
    BY DEF OnlyRows
  <2>1. ~source.started
    BY <1>4, Kinds
  <2>2. Len(log[s]) = 0
    BY <1>3, <1>5, <2>1
  <2> QED BY <1>3, <1>5, <2>2
<1> QED BY <1>1, <1>3, <1>4, <1>6, <1>7, <1>8, <1>10, <1>11, <1>12, <1>13 DEF SourceInv

\* It holds at the start.
LEMMA InvStarts ==
  ASSUME Init, Followed(source)
  PROVE  SourceInv /\ ReaderInv
<1>s. /\ SourceInv /\ NextOrder = 2 /\ committed = <<>>
      /\ \A s \in Streams :
              /\ pending[s] = {} /\ resolved[s] = 1 /\ slot[s] = 0
              /\ Len(log[s]) = IF source.started /\ s \in Active THEN 1 ELSE 0
              /\ \A n \in 1 .. Len(log[s]) : log[s][n].kind = "resolved" /\ log[s][n].order = 1 /\ n = 1
  BY SourceStarts
<1>t. /\ SourceTypes /\ slot \in [Streams -> Nat] /\ resolved \in [Streams -> Nat]
      /\ Active \subseteq Streams /\ 1 \in Active
  BY <1>s, ActiveStreams DEF SourceInv, SourceTypes
<1>i. reader = Started(Origin) /\ durable = Origin /\ accepted = <<>>
  BY DEF Init, ReaderInit
<1>o. /\ Origin \in Stored /\ Origin.order = 1 /\ Origin.at \in [Streams -> Nat]
      /\ \A s \in Streams : Origin.at[s] = IF source.started /\ s \in Active THEN 1 ELSE 0
      /\ \A s \in Streams : Origin.at[s] = Len(log[s]) /\ Origin.at[s] \in Nat
  <2> DEFINE places == [s \in Streams |-> IF source.started /\ s \in Active THEN 1 ELSE 0]
  <2>1. places \in [Streams -> Nat] /\ \A s \in Streams : places[s] = IF source.started /\ s \in Active THEN 1 ELSE 0
    OBVIOUS
  <2>2. Origin = Position(1, places)
    BY DEF Origin
  <2> HIDE DEF places
  <2>3. Origin.order = 1 /\ Origin.at = places /\ Origin \in Stored
    BY <2>1, <2>2 DEF Position, Stored
  <2> QED BY <1>s, <2>1, <2>3
<1>n. Nothing.stage = "none" /\ Nothing.acks = {} /\ Nothing \in Flights
  BY NothingIs
<1> HIDE DEF Origin, Nothing
<1>r. /\ reader.up = TRUE /\ reader.cursor = ReadFrom(Origin) /\ reader.acked = Origin
      /\ reader.queue = [s \in Streams |-> {}] /\ reader.seen = [s \in Streams |-> 0]
      /\ reader.phase = "seed" /\ reader.batch = <<>>
      /\ reader.ready = {} /\ reader.base = Origin /\ reader.flight = Nothing
  BY <1>i DEF Started
<1>1. ReaderTypes
  <2>1. ReadFrom(Origin) \in [Streams -> Nat]
    BY <1>t, <1>o DEF ReadFrom
  <2>2. <<>> \in Seq([resolved : Nat, rows : SUBSET Parts])
    OBVIOUS
  <2>3. Started(Origin) \in Readers
    <3> HIDE DEF Items, Parts, Merged, Stored, Flights, ReadFrom
    <3> QED BY <1>t, <1>o, <1>n, <2>1, <2>2 DEF Started, Readers
  <2> QED BY <1>i, <1>o, <2>3 DEF ReaderTypes
<1>2. Origin \in Good
  <2>1. Right(Origin)
    <3>1. \A s \in Active : /\ Origin.at[s] <= Len(log[s])
                            /\ \A n \in 1 .. Origin.at[s] : log[s][n].kind = "row" => log[s][n].order <= 1
                            /\ source.started => Origin.at[s] >= 1
      BY <1>s, <1>t, <1>o
    <3>2. \A s \in Streams \ Active : Origin.at[s] = 0
      BY <1>o
    <3> QED BY <1>s, <1>o, <3>1, <3>2 DEF Right
  <2>2. Above(Origin)
    <3> SUFFICES ASSUME NEW s \in Active
                 PROVE  Origin.at[s] + 1 .. Len(log[s]) = {} /\ pending[s] = {} /\ Origin.order <= resolved[s]
      BY DEF Above
    <3> QED BY <1>s, <1>t, <1>o
  <2> QED BY <1>o, <2>1, <2>2 DEF Good
<1>3. Origin \in Taken
  BY <1>o, <1>s DEF Taken
<1>4. Positioned
  BY <1>i, <1>r, <1>2, <1>3 DEF Positioned
<1>f. ~Flying /\ Here = Origin
  BY <1>r, <1>n DEF Flying, Here
<1>5. InFlight /\ Link
  BY <1>i, <1>r, <1>n, <1>f DEF InFlight, Link
<1>6. MultiInv
  <2> SUFFICES ASSUME Multi PROVE MultiInv
    BY DEF MultiInv
  <2>1. ASSUME NEW s \in Active
        PROVE Reads(log[s], Origin.at[s], Origin.order, reader.cursor[s], reader.queue[s], reader.seen[s])
    <3>1. /\ s \in Streams /\ reader.cursor[s] = Origin.at[s] /\ reader.queue[s] = {} /\ reader.seen[s] = 0
      BY <1>t, <1>r DEF ReadFrom, Multi
    <3>2. Origin.at[s] <= Origin.at[s] /\ Origin.at[s] + 1 .. Origin.at[s] = {} /\ Origin.at[s] <= Len(log[s])
      BY <1>o, <3>1
    <3> QED BY <3>1, <3>2 DEF Reads
  <2> QED BY <1>o, <1>r, <1>f, <2>1 DEF MultiInv
<1>7. SingleInv
  <2> SUFFICES ASSUME Single PROVE SingleInv
    BY DEF SingleInv
  <2>1. /\ 1 \in Streams /\ reader.cursor[1] = Origin.at[1] /\ reader.queue[1] = {}
    BY <1>t, <1>r DEF ReadFrom, Single
  <2>2. Origin.at[1] <= Origin.at[1] /\ Origin.at[1] + 1 .. Origin.at[1] = {} /\ Origin.at[1] <= Len(log[1])
    BY <1>o, <2>1
  <2>3. Gathers(log[1], Origin.at[1], reader.cursor[1], reader.queue[1])
    BY <2>1, <2>2 DEF Gathers
  <2> QED BY <1>r, <1>f, <2>3 DEF SingleInv
<1>8. Slots
  <2> SUFFICES ASSUME source.dialect = "gaussdb", NEW s \in Active
               PROVE  slot[s] <= durable.at[s] /\ slot[s] + 1 .. durable.at[s] = {}
    BY DEF Slots
  <2>1. ~source.started
    BY <1>t, Kinds DEF Merging
  <2>2. slot[s] = 0 /\ durable.at[s] = 0
    BY <1>s, <1>t, <1>o, <1>i, <2>1
  <2> QED BY <2>2
<1>9. Batched /\ Readied /\ Handed
  BY <1>r, <1>f DEF Batched, Readied, Handed
<1>10. Exact
  <2>1. Len(accepted) = 0 /\ Len(committed) = 0
    BY <1>i, <1>s
  <2> QED BY <2>1 DEF Exact
<1> QED BY <1>s, <1>1, <1>4, <1>5, <1>6, <1>7, <1>8, <1>9, <1>10 DEF ReaderInv

\* It holds when nothing happens.
LEMMA StutterStep ==
  ASSUME SourceInv, ReaderInv, UNCHANGED vars
  PROVE  SourceInv' /\ ReaderInv'
<1>u. /\ UNCHANGED <<source, Unshown>> /\ slot' = slot /\ reader' = reader
      /\ durable' = durable /\ accepted' = accepted
  BY DEF vars, sourceVars, readerVars, Unshown
<1>t. SourceTypes /\ slot \in [Streams -> Nat]
  BY DEF SourceInv, SourceTypes
<1>s. /\ SourceInv' /\ Good' = Good /\ Active' = Active /\ NextOrder' = NextOrder
      /\ Multi' = Multi /\ Merging' = Merging /\ Single' = Single
      /\ Answered(source') = Answered(source) /\ Nothing' = Nothing
      /\ source' = source /\ log' = log /\ pending' = pending /\ resolved' = resolved
      /\ committed' = committed
  BY <1>t, <1>u, SourceSame
<1>1. ReaderTypes' /\ Positioned'
  <2>1. Taken' = Taken
    BY <1>s, <1>u DEF Taken, TakenIn
  <2> QED BY <1>s, <1>u, <2>1 DEF ReaderInv, Positioned, ReaderTypes
<1>2. InFlight' /\ Link'
  BY <1>s, <1>u DEF ReaderInv, InFlight, Link, Flying, Carries
<1>3. MultiInv' /\ SingleInv'
  <2>1. Here' = Here /\ Flying' = Flying
    BY <1>u DEF Here, Flying
  <2> QED BY <1>s, <1>u, <2>1 DEF ReaderInv, MultiInv, SingleInv
<1>4. Slots' /\ Exact'
  BY <1>s, <1>u DEF ReaderInv, Slots, Exact
<1>5. Batched' /\ Readied' /\ Handed'
  <2>1. ReadFrom(reader.acked)' = ReadFrom(reader.acked) /\ Flying' = Flying /\ FlightStreams' = FlightStreams
    BY <1>s, <1>u DEF ReadFrom, Flying, FlightStreams
  <2>2. \A s : Floor(s)' = Floor(s)
    BY <1>u, <2>1 DEF Floor
  <2> QED BY <1>s, <1>u, <2>1, <2>2 DEF ReaderInv, Batched, Readied, Handed
<1> QED BY <1>s, <1>1, <1>2, <1>3, <1>4, <1>5 DEF ReaderInv

\* Every step that cuts no read keeps it.
LEMMA InvNext ==
  ASSUME SourceInv, ReaderInv, ~cut', [Next]_vars
  PROVE  SourceInv' /\ ReaderInv'
<1>1. CASE (SourceStep \/ \E s \in Streams : ResolveAgain(s)) /\ UNCHANGED <<source, readerVars>>
  BY <1>1, SourceKeeps
<1>2. CASE ReaderStep /\ UNCHANGED <<source, Unshown>>
  <2>1. CASE AcknowledgeStream
    BY <1>2, <2>1, AcknowledgeStreamStep
  <2>2. CASE ReadStream /\ UNCHANGED slot
    BY <1>2, <2>2, ReadStreamStep
  <2>3. CASE /\ Pump \/ Decide \/ ReadRecord \/ MergeBatch \/ Take \/ Apply \/ Acknowledge \/ Restart
             /\ UNCHANGED <<slot, cut>>
    BY <1>2, <2>3, PumpStep, DecideStep, ReadRecordStep, MergeBatchStep, TakeStep,
       ApplyStep, AcknowledgeStep, RestartStep
  <2> QED BY <1>2, <2>1, <2>2, <2>3 DEF ReaderStep
<1>3. CASE (Crash \/ Reconnect) /\ UNCHANGED <<source, sourceVars, cut>>
  <2>1. UNCHANGED <<source, Unshown>> /\ slot' = slot
    BY <1>3 DEF sourceVars, Unshown
  <2>2. CASE Crash
    BY <2>1, <2>2, CrashStep DEF Crash
  <2>3. CASE Reconnect
    BY <2>1, <2>3, ReconnectStep
  <2> QED BY <1>3, <2>2, <2>3
<1>4. CASE UNCHANGED vars
  BY <1>4, StutterStep
<1> QED BY <1>1, <1>2, <1>3, <1>4 DEF Next

-----------------------------------------------------------------------------
(* What the invariant gives. *)
\* What was taken in are transactions as they were committed.
Whole == \A i \in DOMAIN accepted : \E k \in DOMAIN committed : accepted[i] = committed[k]

\* The server takes in what a request brings, or knows it already.
LEMMA WholeStep ==
  ASSUME SourceInv, ReaderInv, Whole, [Next]_vars
  PROVE  Whole'
<1>t. /\ committed \in Seq(Txs) /\ accepted \in Seq(Txs)
      /\ Len(committed) \in Nat /\ Len(accepted) \in Nat
  BY DEF SourceInv, SourceTypes, ReaderInv, ReaderTypes
<1>1. CASE (SourceStep \/ \E s \in Streams : ResolveAgain(s)) /\ UNCHANGED <<source, readerVars>>
  <2>1. source' = source /\ accepted' = accepted
    BY <1>1 DEF readerVars
  <2>2. Grows /\ SourceInv'
    BY <1>1, <2>1, SourceMoves
  <2>3. /\ committed' \in Seq(Txs) /\ Len(committed') \in Nat
        /\ Len(committed) <= Len(committed')
        /\ \A k \in 1 .. Len(committed) : committed'[k] = committed[k]
    BY <2>2 DEF Grows, SourceInv, SourceTypes
  <2>4. \A k \in DOMAIN committed : k \in DOMAIN committed' /\ committed'[k] = committed[k]
    BY <1>t, <2>3
  <2> QED BY <2>1, <2>4 DEF Whole
<1>2. CASE committed' = committed /\ accepted' = accepted
  BY <1>2 DEF Whole
<1>3. CASE ReaderStep /\ UNCHANGED <<source, Unshown>>
  <2>1. committed' = committed
    BY <1>3 DEF Unshown
  <2>2. CASE Apply
    <3>1. reader.up /\ Flying /\ Carries
      BY <2>2 DEF Apply, Flying, ReaderInv, InFlight
    <3>2. CASE accepted' = accepted
      BY <1>2, <2>1, <3>2
    <3>3. CASE accepted' # accepted
      <4>1. accepted' = accepted \o reader.flight.txs /\ reader.flight.pos # durable
        BY <2>2, <3>3 DEF Apply, IsDuplicate
      <4>2. Brings(committed, reader.flight.txs, reader.acked.order, reader.flight.pos.order)
        BY <3>1, <4>1 DEF Carries
      <4>3. CASE reader.flight.txs = <<>>
        <5> HIDE DEF Txs
        <5> QED BY <1>t, <3>3, <4>1, <4>3
      <4>4. CASE reader.flight.txs # <<>>
        <5>1. PICK j \in DOMAIN committed : reader.flight.txs = <<committed[j]>>
          BY <4>2, <4>4 DEF Brings
        <5>2. committed[j] \in Txs
          <6> HIDE DEF Txs
          <6> QED BY <1>t, <5>1
        <5>3. /\ DOMAIN accepted' = 1 .. Len(accepted) + 1 /\ DOMAIN accepted = 1 .. Len(accepted)
              /\ \A i \in 1 .. Len(accepted) : accepted'[i] = accepted[i]
              /\ accepted'[Len(accepted) + 1] = committed[j]
          <6> HIDE DEF Txs
          <6> QED BY <1>t, <4>1, <5>1, <5>2
        <5>4. ASSUME NEW i \in DOMAIN accepted' PROVE \E k \in DOMAIN committed : accepted'[i] = committed[k]
          <6>1. i \in DOMAIN accepted \/ i = Len(accepted) + 1
            BY <1>t, <5>3
          <6> QED BY <5>1, <5>3, <6>1 DEF Whole
        <5> QED BY <2>1, <5>4 DEF Whole
      <4> QED BY <4>3, <4>4
    <3> QED BY <3>2, <3>3
  <2>3. CASE Pump \/ Decide \/ ReadRecord \/ ReadStream \/ MergeBatch \/ Take \/ Acknowledge \/ Restart
             \/ AcknowledgeStream
    <3>1. accepted' = accepted
      BY <2>3 DEF Pump, Decide, ReadRecord, ReadStream, MergeBatch, Take, Acknowledge, Restart, AcknowledgeStream
    <3> QED BY <1>2, <2>1, <3>1
  <2> QED BY <1>3, <2>2, <2>3 DEF ReaderStep
<1>4. CASE (Crash \/ Reconnect) /\ UNCHANGED <<source, sourceVars, cut>>
  <2>1. committed' = committed /\ accepted' = accepted
    BY <1>4 DEF sourceVars, Crash, Reconnect
  <2> QED BY <1>2, <2>1
<1>5. CASE UNCHANGED vars
  <2>1. committed' = committed /\ accepted' = accepted
    BY <1>5 DEF vars, sourceVars, readerVars
  <2> QED BY <1>2, <2>1
<1> QED BY <1>1, <1>3, <1>4, <1>5 DEF Next

\* A transaction that was taken in was taken in whole.
LEMMA WholeIs ==
  ASSUME SourceInv, ReaderInv, Whole, NEW i \in DOMAIN committed, committed[i].order \in TakenIn,
         NEW r \in committed[i].rows
  PROVE  RowTaken(committed[i].order, r)
<1>1. PICK n \in DOMAIN accepted : accepted[n].order = committed[i].order
  BY DEF TakenIn
<1>2. PICK k \in DOMAIN committed : accepted[n] = committed[k]
  BY DEF Whole
<1>3. committed \in Seq(Txs) /\ Numbered
  BY DEF SourceInv, SourceTypes
<1>4. committed[k].order = 2 * k /\ committed[i].order = 2 * i /\ k \in Nat /\ i \in Nat
  BY <1>3 DEF Numbered
<1>5. k = i
  BY <1>1, <1>2, <1>4
<1> QED BY <1>1, <1>2, <1>5 DEF RowTaken

\* A row that a new reader would not be shown was taken in.
LEMMA Passed ==
  ASSUME SourceInv, ReaderInv, Whole
  PROVE  NothingPassed
<1>t. SourceTypes /\ Numbered /\ Complete /\ durable \in Good /\ durable \in Taken
  BY DEF SourceInv, ReaderInv, Positioned
<1>g. /\ durable \in Stored /\ durable.order \in Nat /\ \A s \in Streams : durable.at[s] \in Nat
      /\ \A s \in Active : \A n \in 1 .. durable.at[s] :
           log[s][n].kind = "row" => log[s][n].order <= durable.order
  BY <1>t, GoodIs
<1> SUFFICES ASSUME NEW i \in DOMAIN committed, committed[i].order \notin TakenIn,
                    NEW r \in committed[i].rows
             PROVE  Readable(r[1], committed[i].order, r[2])
  BY WholeIs DEF NothingPassed
<1> DEFINE s == r[1]
           order == committed[i].order
<1>1. s \in Active /\ s \in Streams /\ order \in Nat
  BY <1>t, CommitIs, ActiveStreams
<1>2. ~(order <= durable.order)
  BY <1>t DEF Taken
<1>3. \/ Row(order, r[2]) \in pending[s]
      \/ InLog(log[s], order, r[2], Len(log[s]))
  BY <1>t DEF Complete
<1>4. ReadFrom(durable)[s] \in Nat /\ ReadFrom(durable)[s] <= durable.at[s]
  <2>1. slot[s] \in Nat /\ durable.at[s] \in Nat
    BY <1>t, <1>g, <1>1, LogIs
  <2>2. source.dialect = "gaussdb" => slot[s] <= durable.at[s]
    BY <1>1 DEF ReaderInv, Slots
  <2> QED BY <2>1, <2>2 DEF ReadFrom
<1>5. CASE InLog(log[s], order, r[2], Len(log[s]))
  <2>1. PICK m \in 1 .. Len(log[s]) : log[s][m] = Row(order, r[2])
    BY <1>5 DEF InLog
  <2>2. log[s][m].kind = "row" /\ log[s][m].order = order
    BY <2>1 DEF Row
  <2>3. ~(m <= durable.at[s])
    <3> SUFFICES ASSUME m <= durable.at[s] PROVE FALSE
      OBVIOUS
    <3>1. m \in 1 .. durable.at[s]
      BY <1>g, <1>1, <1>t, LogIs
    <3> QED BY <1>g, <1>1, <1>2, <2>2, <3>1
  <2>4. m \in ReadFrom(durable)[s] + 1 .. Len(log[s])
    <3>1. Len(log[s]) \in Nat /\ durable.at[s] \in Nat
      BY <1>t, <1>g, <1>1, LogIs
    <3> QED BY <1>4, <2>3, <3>1
  <2> QED BY <2>1, <2>4 DEF Readable
<1> QED BY <1>3, <1>5 DEF Readable

\* A request on its way is at or behind what was acknowledged.
LEMMA Forward ==
  ASSUME SourceInv, ReaderInv
  PROVE  AcksMoveForward
<1> SUFFICES ASSUME reader.flight.stage = "applied" PROVE ~Regresses(reader.flight.pos)
  BY DEF AcksMoveForward
<1>1. /\ reader.flight.pos \in Good /\ reader.acked \in Good /\ SourceTypes
      /\ reader.flight.pos.order >= reader.acked.order
      /\ \A s \in Streams : reader.flight.pos.at[s] >= reader.acked.at[s]
  BY DEF ReaderInv, InFlight, Flying, Positioned, SourceInv
<1>2. /\ reader.flight.pos.order \in Nat /\ reader.acked.order \in Nat
      /\ \A s \in Streams : reader.flight.pos.at[s] \in Nat /\ reader.acked.at[s] \in Nat
  BY <1>1, GoodIs
<1> QED BY <1>1, <1>2 DEF Regresses

\* The transactions that were taken in are a part of the committed ones, from
\* the first on.
LEMMA PrefixIs ==
  ASSUME NEW a \in Seq(Txs), NEW b \in Seq(Txs), Len(a) <= Len(b), \A i \in 1 .. Len(a) : b[i] = a[i]
  PROVE  SubSeq(b, 1, Len(a)) = a
<1>1. Len(a) \in Nat /\ Len(b) \in Nat
  OBVIOUS
<1>2. \A i \in 1 .. Len(a) : b[i] \in Txs
  BY <1>1
<1>3. 1 \in Int /\ Len(a) \in Int
  BY <1>1
<1>4. /\ SubSeq(b, 1, Len(a)) \in Seq(Txs)
      /\ Len(SubSeq(b, 1, Len(a))) = IF 1 <= Len(a) THEN Len(a) - 1 + 1 ELSE 0
      /\ \A i \in 1 .. Len(a) - 1 + 1 : SubSeq(b, 1, Len(a))[i] = b[1 + i - 1]
  BY <1>2, <1>3, SubSeqProperties
<1>5. Len(SubSeq(b, 1, Len(a))) = Len(a)
  BY <1>1, <1>4
<1>6. ASSUME NEW i \in 1 .. Len(a) PROVE SubSeq(b, 1, Len(a))[i] = a[i]
  <2>1. i \in 1 .. Len(a) - 1 + 1 /\ 1 + i - 1 = i
    BY <1>1
  <2> QED BY <1>4, <2>1
<1> HIDE DEF Txs
<1> QED BY <1>4, <1>5, <1>6, SeqEqual

\* The step of CommittedStream that a step implements.
Delivers == Delivered!Next \/ UNCHANGED <<committed, accepted>>

\* A step of the source, or one that changes what was taken in and nothing at
\* the source, is a step of CommittedStream.
LEMMA DeliversStep ==
  ASSUME SourceInv, ReaderInv, SourceInv', ReaderInv', [Next]_vars, Answered(source)
  PROVE  Delivers /\ source' = source
<1>t. /\ committed \in Seq(Txs) /\ committed' \in Seq(Txs)
      /\ accepted \in Seq(Txs) /\ accepted' \in Seq(Txs)
  BY DEF SourceInv, SourceTypes, ReaderInv, ReaderTypes
<1>n. /\ Len(committed) \in Nat /\ Len(committed') \in Nat
      /\ Len(accepted) \in Nat /\ Len(accepted') \in Nat
  BY <1>t
<1>1. CASE (SourceStep \/ \E s \in Streams : ResolveAgain(s)) /\ UNCHANGED <<source, readerVars>>
  <2>1. source' = source /\ accepted' = accepted
    BY <1>1 DEF readerVars
  <2>2. Grows
    BY <1>1, <2>1, SourceMoves
  <2>3. SubSeq(committed', 1, Len(committed)) = committed
    <3>1. Len(committed) <= Len(committed') /\ \A i \in 1 .. Len(committed) : committed'[i] = committed[i]
      BY <2>2 DEF Grows
    <3> HIDE DEF Txs
    <3> QED BY <1>t, <3>1, PrefixIs
  <2>4. CASE Len(committed') > Len(committed)
    BY <2>1, <2>3, <2>4 DEF Delivers, Delivered!Next, Delivered!Commit
  <2>5. CASE ~(Len(committed') > Len(committed))
    <3>1. Len(committed') = Len(committed) /\ \A i \in 1 .. Len(committed') : committed'[i] = committed[i]
      BY <1>n, <2>2, <2>5 DEF Grows
    <3>2. committed' = committed
      <4> HIDE DEF Txs
      <4> QED BY <1>t, <3>1, SeqEqual
    <3> QED BY <2>1, <3>2 DEF Delivers
  <2> QED BY <2>1, <2>4, <2>5
<1>2. ASSUME committed' = committed, source' = source,
             accepted' = accepted \/ (\E txs \in Seq(Txs) : accepted' = accepted \o txs)
      PROVE  Delivers
  <2>1. CASE accepted' = accepted
    BY <1>2, <2>1 DEF Delivers
  <2>2. CASE \E txs \in Seq(Txs) : accepted' = accepted \o txs
    <3>1. PICK txs \in Seq(Txs) : accepted' = accepted \o txs
      BY <2>2
    <3>2. /\ Len(accepted) <= Len(accepted')
          /\ \A i \in 1 .. Len(accepted) : accepted'[i] = accepted[i]
      <4> HIDE DEF Txs
      <4> QED BY <1>t, <3>1
    <3>3. /\ Len(accepted') <= Len(committed)
          /\ \A i \in 1 .. Len(accepted') : committed[i] = accepted'[i]
      BY <1>2 DEF ReaderInv, Exact
    <3>4. accepted' = SubSeq(committed, 1, Len(accepted'))
      <4> HIDE DEF Txs
      <4> QED BY <1>t, <3>3, PrefixIs
    <3>5. CASE Len(accepted') = Len(accepted)
      <4>1. accepted' = accepted
        <5> HIDE DEF Txs
        <5> QED BY <1>t, <3>2, <3>5, SeqEqual
      <4> QED BY <2>1, <4>1
    <3>6. CASE Len(accepted') # Len(accepted)
      <4>1. Len(accepted') \in Len(accepted) + 1 .. Len(committed)
        BY <1>n, <3>2, <3>3, <3>6
      <4> QED BY <1>2, <3>4, <4>1 DEF Delivers, Delivered!Next, Delivered!Accept
    <3> QED BY <3>5, <3>6
  <2> QED BY <1>2, <2>1, <2>2
<1>3. CASE ReaderStep /\ UNCHANGED <<source, Unshown>>
  <2>1. committed' = committed /\ source' = source
    BY <1>3 DEF Unshown
  <2>2. CASE Apply
    <3>1. reader.flight.txs \in Seq(Txs)
      <4>1. reader.flight \in Flights
        BY DEF ReaderInv, ReaderTypes, Readers
      <4> QED BY <4>1 DEF Flights
    <3>2. accepted' = accepted \/ accepted' = accepted \o reader.flight.txs
      BY <2>2 DEF Apply
    <3> QED BY <1>2, <2>1, <3>1, <3>2
  <2>3. CASE Pump \/ Decide \/ ReadRecord \/ ReadStream \/ MergeBatch \/ Take \/ Acknowledge \/ Restart
             \/ AcknowledgeStream
    <3>1. accepted' = accepted
      BY <2>3 DEF Pump, Decide, ReadRecord, ReadStream, MergeBatch, Take, Acknowledge, Restart, AcknowledgeStream
    <3> QED BY <1>2, <2>1, <3>1
  <2> QED BY <1>3, <2>1, <2>2, <2>3 DEF ReaderStep
<1>4. CASE (Crash \/ Reconnect) /\ UNCHANGED <<source, sourceVars, cut>>
  <2>1. committed' = committed /\ source' = source /\ accepted' = accepted
    BY <1>4 DEF sourceVars, Crash, Reconnect
  <2> QED BY <1>2, <2>1
<1>5. CASE UNCHANGED vars
  <2>1. committed' = committed /\ source' = source /\ accepted' = accepted
    BY <1>5 DEF vars, sourceVars, readerVars
  <2> QED BY <1>2, <2>1
<1> QED BY <1>1, <1>3, <1>4, <1>5 DEF Next

\* What was once cut stays cut.
LEMMA CutStays ==
  ASSUME [Next]_vars, cut
  PROVE  cut'
<1>1. CASE (SourceStep \/ \E s \in Streams : ResolveAgain(s)) /\ UNCHANGED <<source, readerVars>>
  BY <1>1 DEF readerVars
<1>2. CASE ReaderStep
  <2>1. CASE ReadStream
    BY <2>1 DEF ReadStream
  <2>2. CASE UNCHANGED cut
    BY <2>2
  <2> QED BY <1>2, <2>1, <2>2 DEF ReaderStep
<1>3. CASE (Crash \/ Reconnect) /\ UNCHANGED <<source, sourceVars, cut>>
  BY <1>3
<1>4. CASE UNCHANGED vars
  BY <1>4 DEF vars, readerVars
<1> QED BY <1>1, <1>2, <1>3, <1>4 DEF Next

\* The source is what it was.
LEMMA SourceStays ==
  ASSUME [Next]_vars
  PROVE  source' = source
BY DEF Next, vars

\* Of a source that the readers follow, the invariant holds until a read is cut.
LEMMA Inductive ==
  Spec => (Followed(source) => [](cut \/ (SourceInv /\ ReaderInv)))
<1>1. Init /\ Followed(source) => SourceInv /\ ReaderInv
  BY InvStarts
<1>2. SourceInv /\ ReaderInv /\ ~cut' /\ [Next]_vars => (SourceInv /\ ReaderInv)'
  BY InvNext
<1>3. cut /\ [Next]_vars => cut'
  BY CutStays
<1> QED BY <1>1, <1>2, <1>3, PTL DEF Spec

LEMMA WholeAlways == Spec => (Followed(source) => [](cut \/ Whole))
<1>1. Init => Whole
  BY DEF Init, ReaderInit, Whole
<1>2. SourceInv /\ ReaderInv /\ Whole /\ [Next]_vars => Whole'
  BY WholeStep
<1>3. cut /\ [Next]_vars => cut'
  BY CutStays
<1> QED BY <1>1, <1>2, <1>3, Inductive, PTL DEF Spec

-----------------------------------------------------------------------------
\* The stored position passes nothing that was only read ahead: where a new
\* reader starts (behind the places of the position, or behind the slots of the
\* GaussDB primaries) every row that was not taken in is still to be read, however
\* far one stream was ahead of another and however often rows were sent again.
\* Proved until a read of a stream is cut short at its limit.
THEOREM NothingPassedCorrect ==
  Spec => (Followed(source) => [](cut \/ NothingPassed))
<1>1. SourceInv /\ ReaderInv /\ Whole => NothingPassed
  BY Passed
<1> QED BY <1>1, Inductive, WholeAlways, PTL

\* No acknowledgement has to be refused as long as no read was cut short at its
\* limit: neither the order nor the place in any stream of a request that the
\* server has applied is behind the acknowledged ones, over restarts, reconnects,
\* lost answers and rows that are sent again.
THEOREM AcksMoveForwardCorrect ==
  Spec => (Followed(source) => []AcksMoveForward)
<1>1. SourceInv /\ ReaderInv => AcksMoveForward
  BY Forward
<1>2. cut => AcksMoveForward
  BY DEF AcksMoveForward
<1> QED BY <1>1, <1>2, Inductive, PTL

\* The readers and the server implement CommittedStream until a read is cut short
\* at its limit: every transaction is taken in at most once, with its parts from
\* all streams, in the global order.
THEOREM DeliveredOnceInOrderCorrect ==
  Spec => (Followed(source) /\ Answered(source) => DeliveredOnceInOrder)
<1>1. Init => Delivered!Init
  BY DEF Init, SourceInit, ReaderInit, Delivered!Init
<1>2. SourceInv /\ ReaderInv /\ (SourceInv /\ ReaderInv)' /\ [Next]_vars /\ Answered(source)
        => Delivers
  BY DeliversStep
<1>3. [Next]_vars /\ Answered(source) => Answered(source)'
  BY SourceStays DEF Answered
<1>4. cut /\ [Next]_vars => cut'
  BY CutStays
<1>5. cut' \/ Delivers => [cut' \/ Delivered!Next]_<<committed, accepted>>
  BY DEF Delivers
<1> QED BY <1>1, <1>2, <1>3, <1>4, <1>5, Inductive, PTL DEF Spec, DeliveredOnceInOrder

=============================================================================
