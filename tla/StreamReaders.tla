--------------------------- MODULE StreamReaders ---------------------------
(***************************************************************************)
(* The readers of sources with several streams: TiCDC over one or more     *)
(* Kafka partitions (cdc/ticdc/reader.go), GaussDB with several primaries  *)
(* (cmd/gaussdb-cdc/multi.go) and Db2 pureScale (cdc/db2log/purescale.go). *)
(* Each must put the parts of a transaction together and keep the global   *)
(* order, although a stream may be ahead of another or idle, and store a   *)
(* place in every stream that passes nothing it has only read ahead.       *)
(***************************************************************************)
EXTENDS StreamRuntime, OrderedMerge

vars == <<source, sourceVars, readerVars>>

Multi == source.dialect = "ticdc" /\ source.streams > 1
Single == source.dialect = "ticdc" /\ source.streams = 1
Merging == source.dialect \in {"gaussdb", "purescale"}

\* The transaction of one order, of the rows collected for it.
Assembled(order, rows) == [order |-> order, rows |-> rows]

Init == SourceInit /\ ReaderInit

-----------------------------------------------------------------------------
(***************************************************************************)
(* TiCDC with several partitions (nextMulti).                              *)
(***************************************************************************)
Item(rec, offset) == [order |-> rec.order, part |-> rec.part, offset |-> offset]

\* The rows and the newest watermark among the records i .. j of partition s.
Fetched(s, i, j) == {Item(log[s][n], n) : n \in {m \in i .. j : log[s][m].kind = "row"}}

WatermarkIn(s, i, j) ==
  Max({0} \cup {log[s][n].order : n \in {m \in i .. j : log[s][m].kind = "resolved"}})

\* Mutant: every partition has to offer a row, even behind a checkpoint.
WantsRow(s) ==
  CASE reader.phase = "seed" -> reader.queue[s] = {}
    [] reader.phase = "idle" -> reader.seen[s] <= reader.acked.order
    [] reader.phase = "fence" -> reader.seen[s] <= reader.candidate

\* Partition s has to be read on before the reader can decide.
Wants(s) ==
  CASE reader.phase = "seed" ->
         reader.queue[s] = {} /\ (~reader.hasDurableAck \/ reader.seen[s] <= reader.acked.order)
    [] reader.phase = "idle" -> reader.seen[s] <= reader.acked.order
    [] reader.phase = "fence" -> reader.seen[s] <= reader.candidate

Wanting == {s \in Active : Wants(s)}

\* pumpPartition: the partitions are read one after the other, and the reader
\* waits at the first that has nothing to offer.  Bound: a fetch returns one
\* record or all there are.
Pump ==
  /\ Multi /\ Reading /\ Wanting # {}
  /\ LET s == Min(Wanting)
         from == reader.cursor[s] + 1
     IN /\ from <= Len(log[s])
        /\ \E to \in {from, Len(log[s])} :
             reader' = [reader EXCEPT !.cursor[s] = to,
                          !.queue[s] = @ \cup Fetched(s, from, to),
                          !.seen[s] = Max({@, WatermarkIn(s, from, to)})]
  /\ UNCHANGED <<durable, accepted, crashes>>

\* Mutant: rows that are sent again are kept.
KeptAll(queue) == queue

\* discardAcknowledgedMulti
Kept(queue) ==
  IF ~reader.hasDurableAck THEN queue
  ELSE [s \in Streams |-> {x \in queue[s] : x.order > reader.acked.order}]

Queued(queue) == UNION {Orders(queue[s]) : s \in Active}

\* Mutant: the place behind what was read, not behind what was taken.
PlaceRead(queue, s) == reader.cursor[s]

\* The place in partition s: before the first row that is still queued.
Place(queue, s) ==
  IF queue[s] = {} THEN reader.cursor[s] ELSE Min({x.offset : x \in queue[s]}) - 1

MultiPosition(order, queue) ==
  Position(order, [s \in Streams |-> IF s \in Active THEN Place(queue, s) ELSE 0])

HandsOut(request, queue) ==
  [reader EXCEPT !.flight = request, !.queue = queue, !.phase = "seed"]

TakenFrom(queue, order) ==
  UNION {{<<s, x.part>> : x \in {y \in queue[s] : y.order = order}} : s \in Active}

Without(queue, order) == [s \in Streams |-> {x \in queue[s] : x.order # order}]

\* All rows queued with the least order, once the watermarks have passed it.
TakeCandidate(queue) ==
  LET rest == Without(queue, reader.candidate) IN
  HandsOut(Request(<<Assembled(reader.candidate, TakenFrom(queue, reader.candidate))>>,
                   MultiPosition(reader.candidate, rest), {}), rest)

Approach(queue) ==
  [reader EXCEPT !.queue = queue, !.phase = "fence", !.candidate = Min(Queued(queue))]

\* With nothing queued the position moves to the least of the watermarks.
Barrier == Min({reader.seen[s] : s \in Active})

OnSeed(queue) ==
  IF Queued(queue) # {} THEN Approach(queue)
  ELSE [reader EXCEPT !.queue = queue, !.phase = "idle"]

OnIdle(queue) ==
  IF Queued(queue) # {} THEN Approach(queue)
  ELSE HandsOut(Request(<<>>, MultiPosition(Barrier, queue), {}), queue)

\* Mutant: an order that came to light behind the fence is overlooked.
OnFenceBlind(queue) == TakeCandidate(queue)

OnFence(queue) ==
  IF \E o \in Queued(queue) : o < reader.candidate
  THEN [reader EXCEPT !.queue = queue, !.phase = "seed"]
  ELSE TakeCandidate(queue)

Decide ==
  /\ Multi /\ Reading /\ Wanting = {}
  /\ LET queue == Kept(reader.queue) IN
     reader' = CASE reader.phase = "seed" -> OnSeed(queue)
                 [] reader.phase = "idle" -> OnIdle(queue)
                 [] reader.phase = "fence" -> OnFence(queue)
  /\ UNCHANGED <<durable, accepted, crashes>>

-----------------------------------------------------------------------------
(***************************************************************************)
(* TiCDC with one partition (nextSingle): the rows of one order in a row,  *)
(* up to the first record of another kind or order, which is carried over. *)
(***************************************************************************)
Group == reader.queue[1]

\* All its rows have one order.
GroupOrder == Min(Orders(Group))

\* Mutant: the record behind the last one is passed as well.
SinglePositionBehind(order, offset) ==
  Position(order, [s \in Streams |-> IF s = 1 THEN offset + 1 ELSE 0])

SinglePosition(order, offset) ==
  Position(order, [s \in Streams |-> IF s = 1 THEN offset ELSE 0])

\* isPreviouslyAcknowledged
Old(rec) == reader.hasDurableAck /\ rec.order <= reader.acked.order

\* The reader behind a record that starts no group: a mere checkpoint.
Skip(order, offset) ==
  [reader EXCEPT !.cursor[1] = offset,
                 !.flight = Request(<<>>, SinglePosition(order, offset), {})]

Collect(rec, offset) ==
  [reader EXCEPT !.cursor[1] = offset, !.queue[1] = @ \cup {Item(rec, offset)}]

First(rec, offset) ==
  IF Old(rec) THEN Skip(reader.acked.order, offset)
  ELSE IF rec.kind = "resolved" THEN Skip(rec.order, offset)
  ELSE Collect(rec, offset)

\* A record of another kind or order ends the group and is looked at again.
EndGroup ==
  [reader EXCEPT !.queue[1] = {},
     !.flight = Request(<<Assembled(GroupOrder, {<<1, x.part>> : x \in Group})>>,
                        SinglePosition(GroupOrder, Max({x.offset : x \in Group})), {})]

Further(rec, offset) ==
  IF rec.kind = "row" /\ rec.order = GroupOrder THEN Collect(rec, offset) ELSE EndGroup

ReadRecord ==
  /\ Single /\ Reading /\ reader.cursor[1] < Len(log[1])
  /\ LET offset == reader.cursor[1] + 1
         rec == log[1][offset]
     IN reader' = IF Group = {} THEN First(rec, offset) ELSE Further(rec, offset)
  /\ UNCHANGED <<durable, accepted, crashes>>

-----------------------------------------------------------------------------
(***************************************************************************)
(* GaussDB and pureScale: read every stream once, merge what was read, and *)
(* hand the groups out one after the other.                                *)
(***************************************************************************)
\* The row at offset n of stream s, as it goes into the merge.
Fragment(s, n) ==
  [stream |-> s, offset |-> n, order |-> log[s][n].order, part |-> log[s][n].part]

\* Where a read of stream s from a place on may end: it returns what there is, or
\* stops once it has source.limit rows (a row is a decoded transaction of GaussDB,
\* 4096 changes to a read; a fragment of pureScale, 4096 records or 32 MB).
ReadEnds(s, from) ==
  {n \in from .. Len(log[s]) : n = Len(log[s]) \/ n >= from + source.limit}

\* Stream s from where the reader stands; the watermark was asked for before, and
\* speaks of the whole stream however early the read ends.
\* pureScale asks for all watermarks at once and gives up when one has moved.
ReadStream ==
  /\ Merging /\ Reading /\ reader.ready = {} /\ Len(reader.batch) < source.streams
  /\ LET s == Len(reader.batch) + 1
         from == ReadFrom(reader.acked)[s]
         Rows(to) == {Fragment(s, n) : n \in from + 1 .. to}
         descriptors == IF s = 1 THEN resolved ELSE reader.descriptors
     IN \E to \in ReadEnds(s, from) :
          /\ reader' = IF source.dialect = "purescale" /\ descriptors[s] # resolved[s]
                       THEN [reader EXCEPT !.up = FALSE]
                       ELSE [reader EXCEPT !.batch = Append(@, [resolved |-> resolved[s], rows |-> Rows(to)]),
                                           !.descriptors = descriptors]
          /\ cut' = (cut \/ to < Len(log[s]))
  /\ UNCHANGED <<durable, accepted, crashes>>

\* The position behind a group: the place behind its rows in their streams, and
\* that of pos in all others.
Offsets(group, s) == {r.offset : r \in {x \in group.rows : x.stream = s}}

StreamsOf(group) == {r.stream : r \in group.rows}

Behind(group, pos) ==
  Position(group.order,
    [s \in Streams |-> IF s \in StreamsOf(group) THEN Max(Offsets(group, s)) ELSE pos.at[s]])

GroupRequest(group, pos) ==
  Request(<<Assembled(group.order, {<<r.stream, r.part>> : r \in group.rows})>>,
          Behind(group, pos),
          IF source.dialect = "gaussdb" THEN StreamsOf(group) ELSE {})

MergeBatch ==
  /\ Merging /\ Reading /\ Len(reader.batch) = source.streams
  /\ reader' = [reader EXCEPT !.ready = Merge(reader.batch), !.base = reader.acked, !.batch = <<>>]
  /\ UNCHANGED <<durable, accepted, crashes>>

\* The next group of a batch that was merged.  GaussDB counts it from the one
\* before, pureScale every group of a batch from the position acknowledged
\* before the batch.
Take ==
  /\ Reading
  /\ \E group \in reader.ready :
       /\ \A other \in reader.ready : group.order <= other.order
       /\ reader' = [reader EXCEPT !.ready = @ \ {group},
                       !.flight = GroupRequest(group, IF source.dialect = "purescale"
                                                      THEN reader.base ELSE reader.acked)]
  /\ UNCHANGED <<durable, accepted, crashes>>

-----------------------------------------------------------------------------
ReaderStep ==
  \/ (Pump \/ Decide \/ ReadRecord \/ MergeBatch \/ Take \/ Apply \/ Acknowledge
      \/ Restart) /\ UNCHANGED <<slot, cut>>
  \/ ReadStream /\ UNCHANGED slot
  \/ AcknowledgeStream /\ UNCHANGED cut

\* TiCDC's watermarks never stop.  Bound: one that brings no news is written only
\* when the reader process has read everything and not seen its like.
ResolveAgain(s) ==
  /\ Multi /\ s \in Active /\ reader.up
  /\ reader.cursor[s] = Len(log[s]) /\ reader.seen[s] < resolved[s]
  /\ log' = [log EXCEPT ![s] = Append(@, Watermark(resolved[s]))]
  /\ UNCHANGED <<pending, resolved, slot, committed, resends>>

Unshown == <<pending, log, resolved, committed, resends>>

Next ==
  \/ (SourceStep \/ \E s \in Streams : ResolveAgain(s)) /\ UNCHANGED <<source, readerVars>>
  \/ ReaderStep /\ UNCHANGED <<source, Unshown>>
  \/ (Crash \/ Reconnect) /\ UNCHANGED <<source, sourceVars, cut>>

Spec == Init /\ [][Next]_vars

\* Streams show their rows and watermarks (which are finitely many, so that one
\* condition serves them all), and the engine job is claimed again after every
\* end; nothing has to commit, and nothing has to be sent again.
Showing == ResolveTogether \/ \E s \in Streams : Shows(s) \/ ResolveAgain(s)

FairSpec ==
  /\ Spec
  /\ WF_vars(ReaderStep /\ UNCHANGED <<source, Unshown>>)
  /\ WF_vars(Showing /\ UNCHANGED <<source, readerVars>>)

-----------------------------------------------------------------------------
Places == 0 .. Max({Len(log[s]) : s \in Streams})
OrderSet == 0 .. NextOrder
Positions == [order : OrderSet, at : [Streams -> Places]]
RowSet == Streams \X Nat
Transactions == [order : OrderSet, rows : SUBSET RowSet]
Queueable == [order : OrderSet, part : Nat, offset : Places]
Requested == [stage : {"none", "read", "applied"}, txs : Seq(Transactions),
              pos : Positions, acks : SUBSET Streams]
Fragments == [stream : Streams, offset : Places, order : OrderSet, part : Nat]
Groups == [order : OrderSet, rows : SUBSET Fragments]

TypeOK ==
  /\ \A s \in Streams : pending[s] \subseteq [kind : {"row"}, order : OrderSet, part : Nat]
  /\ \A s \in Streams : log[s] \in Seq([kind : {"row", "resolved"}, order : OrderSet, part : Nat])
  /\ committed \in Seq(Transactions) /\ accepted \in Seq(Transactions)
  /\ slot \in [Streams -> Places] /\ resolved \in [Streams -> OrderSet]
  /\ durable \in Positions /\ reader.acked \in Positions /\ reader.base \in Positions
  /\ reader.cursor \in [Streams -> Places] /\ reader.seen \in [Streams -> OrderSet]
  /\ reader.queue \in [Streams -> SUBSET Queueable]
  /\ reader.phase \in {"seed", "idle", "fence"} /\ reader.candidate \in OrderSet
  /\ reader.flight \in Requested /\ reader.ready \subseteq Groups /\ cut \in BOOLEAN

\* Every transaction the source commits is taken in once, whole and in the
\* global order, however far one stream is ahead of another: the readers and
\* the server implement CommittedStream, until a read is cut at its limit.  The
\* merge may then release a later transaction of another stream first.
Delivered == INSTANCE CommittedStream
DeliveredOnceInOrder ==
  Delivered!Init /\ [][cut' \/ Delivered!Next]_<<committed, accepted>>

\* The same however far a stream is ahead (a source of MCStreamReaders refutes it).
DeliveredBeyondCuts == Delivered!Spec

TakenIn == {accepted[i].order : i \in DOMAIN accepted}
RowTaken(order, r) == \E i \in DOMAIN accepted : accepted[i].order = order /\ r \in accepted[i].rows

\* Every committed row was taken in, or is still in what a new reader process
\* reads (behind the stored position, or behind the slot of a GaussDB primary):
\* no place passes a row that was only read ahead, or that a read left out.
Readable(s, order, part) ==
  \/ Row(order, part) \in pending[s]
  \/ \E i \in ReadFrom(durable)[s] + 1 .. Len(log[s]) : log[s][i] = Row(order, part)

NothingPassed ==
  \A i \in DOMAIN committed :
    \A r \in committed[i].rows :
      RowTaken(committed[i].order, r) \/ Readable(r[1], committed[i].order, r[2])

\* An acknowledgement never has to be refused: neither the order nor the place
\* in any stream goes back, over restarts and rows that are sent again, as long
\* as no read was cut.
AcksMoveForward == ~cut /\ reader.flight.stage = "applied" => ~Regresses(reader.flight.pos)

\* Every row the source commits arrives, even if the other streams are idle.
\* (TiCDC over several partitions: once the first transaction was acknowledged.)
Arrived(n) ==
  n <= Len(committed) /\ \A r \in committed[n].rows : RowTaken(committed[n].order, r)

EveryCommitArrives ==
  \A n \in 1 .. MaxTxs :
    (n <= Len(committed) /\ (Multi => reader.hasDurableAck)) ~> Arrived(n)

\* The same for a new reader of several partitions.
EveryCommitArrivesFresh ==
  \A n \in 1 .. MaxTxs : (n <= Len(committed)) ~> Arrived(n)

=============================================================================
