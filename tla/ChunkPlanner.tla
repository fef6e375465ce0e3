---------------------------- MODULE ChunkPlanner ----------------------------
(***************************************************************************)
(* How prepareTask cuts a table into chunks (migration/chunk_planner.go)   *)
(* and which rows a worker then reads for a chunk (ReadBatch of the        *)
(* connectors).  Machine integers have IntBits bits and wrap.              *)
(***************************************************************************)
EXTENDS Integers, Sequences, FiniteSets

CONSTANT IntBits   \* the width of an int64, 64 in the program

ASSUME IntBitsAssumption == IntBits \in Nat /\ IntBits >= 2

MinInt == -(2^(IntBits - 1))
MaxInt == 2^(IntBits - 1) - 1
Words == MinInt .. MaxInt
Wrap(x) == ((x - MinInt) % (2^IntBits)) + MinInt

\* A chunk: its bounds, <<>> for none, and its bucket, of = 0 for no hashing.
\* The upper bound of a RANGE belongs to it, that of a KEYSET does not.
Chunk(split, lower, upper, bucket, of) ==
  [split |-> split, lower |-> lower, upper |-> upper, bucket |-> bucket, of |-> of]

\* An empty plan stands for the error that fails the preparation.
Refused == <<>>

\* Where the chunk that starts here ends.
ChunkEnd(start, maxPK, span) ==
  LET end == Wrap(Wrap(start + span) - 1)
  IN IF end < start \/ end > maxPK THEN maxPK ELSE end

\* The loop of PlanIntegerRange, from this key on.
ChunksFrom(maxPK, span) ==
  LET End(start) == ChunkEnd(start, maxPK, span)
      From[start \in Words] ==
        <<Chunk("RANGE", <<start>>, <<End(start)>>, 0, 0)>> \o
          (IF End(start) = maxPK THEN <<>> ELSE From[Wrap(End(start) + 1)])
  IN From

PlanIntegerRange(minPK, maxPK, span) ==
  IF span <= 0 \/ minPK > maxPK THEN Refused ELSE ChunksFrom(maxPK, span)[minPK]

\* int64(math.Ceil(rows / target)).  The largest count does not fit into a
\* float64 exactly, and what a conversion out of range yields is up to the
\* machine.  Other counts of more than 53 bits are rounded too, which may give a
\* few chunks more or less and is not modelled.
ChunkCounts(rows, target) ==
  {(rows + target - 1) \div target} \cup
    (IF rows = MaxInt /\ target = 1 THEN {MinInt} ELSE {})

PlanIntegerRangeByRows(minPK, maxPK, estimatedRows, targetRows) ==
  LET keys == Wrap(Wrap(maxPK - minPK) + 1)
      rows == IF estimatedRows <= 0 THEN keys ELSE estimatedRows
      Span(count) == (keys + count - 1) \div count
  IN IF targetRows <= 0 \/ minPK > maxPK \/ keys <= 0 THEN {Refused}
     ELSE {PlanIntegerRange(minPK, maxPK, Span(IF c < 1 THEN 1 ELSE c)) :
             c \in ChunkCounts(rows, targetRows)}

DesiredKeysetPartitions(estimatedRows, targetRows, parallelism) ==
  LET target == IF targetRows <= 0 THEN 100000 ELSE targetRows
      workers == IF parallelism <= 0 THEN 1 ELSE parallelism
      byRows == Wrap(Wrap(estimatedRows + target) - 1) \div target
      byWorkers == Wrap(workers * 4)
      AtLeastOne(n) == IF n < 1 THEN 1 ELSE n
      AtMost(n, bound) == IF n > bound THEN bound ELSE n
  IN IF estimatedRows <= 0 THEN 1
     ELSE AtMost(AtLeastOne(byRows), AtMost(AtLeastOne(byWorkers), 128))

\* PlanKeysetBoundaries: the first key of every tile but the first, when
\* NTILE(n) deals the keys out in order, the longer tiles first.
TileStart(count, n, tile) ==
  LET longer == count % n
  IN (tile - 1) * (count \div n) + (IF tile - 1 < longer THEN tile - 1 ELSE longer) + 1

\* The n-th of the keys in order.
KeyAt(keys, n) == CHOOSE k \in keys : Cardinality({j \in keys : j < k}) = n - 1

PlanKeysetBoundaries(keys, partitions) ==
  LET count == Cardinality(keys)
      tiles == IF count < partitions THEN count ELSE partitions
  IN IF tiles <= 1 THEN <<>>
     ELSE [i \in 1 .. tiles - 1 |-> KeyAt(keys, TileStart(count, partitions, i + 1))]

\* Chunk i lies between the boundaries i - 1 and i, the outer ones are open.
PlanBoundedKeyset(boundaries) ==
  [i \in 1 .. Len(boundaries) + 1 |->
     Chunk("KEYSET", IF i = 1 THEN <<>> ELSE <<boundaries[i - 1]>>,
           IF i > Len(boundaries) THEN <<>> ELSE <<boundaries[i]>>, 0, 0)]

PlanHash(buckets) ==
  [i \in 1 .. buckets |-> Chunk("HASH_KEYSET", <<>>, <<>>, i - 1, buckets)]

\* MOD(CRC32(key), buckets)
Bucket(key, buckets) == (key - MinInt) % buckets

\* Mutant: upper bounds of keysets belong to their chunks as well.
SelectsClosed(chunk, key) ==
  /\ chunk.lower # <<>> => key >= chunk.lower[1]
  /\ chunk.upper # <<>> => key <= chunk.upper[1]
  /\ chunk.of > 0 => Bucket(key, chunk.of) = chunk.bucket

\* The WHERE clause of ReadBatch, without the cursor.
Selects(chunk, key) ==
  /\ chunk.lower # <<>> => key >= chunk.lower[1]
  /\ chunk.upper # <<>> =>
       IF chunk.split = "RANGE" THEN key <= chunk.upper[1] ELSE key < chunk.upper[1]
  /\ chunk.of > 0 => Bucket(key, chunk.of) = chunk.bucket

\* The plans prepareTask may make for a table with these keys.  Its row count
\* is an estimate that may be anything.
Plans(strategy, keys, estimatedRows, targetRows, parallelism) ==
  LET minPK == CHOOSE k \in keys : \A other \in keys : k <= other
      maxPK == CHOOSE k \in keys : \A other \in keys : k >= other
      partitions == DesiredKeysetPartitions(estimatedRows, targetRows, parallelism)
  IN CASE strategy = "RANGE" ->
            PlanIntegerRangeByRows(minPK, maxPK, estimatedRows, targetRows)
       [] strategy = "KEYSET" ->
            {PlanBoundedKeyset(PlanKeysetBoundaries(keys, partitions))}
       [] strategy = "HASH" -> {PlanHash(parallelism * 2)}

ExactlyOnce(plan, key) == Cardinality({i \in DOMAIN plan : Selects(plan[i], key)}) = 1

(***************************************************************************)
(* The chunks of a table cover every row of it, none twice, whatever its   *)
(* keys and however wrong its estimate is, at the ends of the integers as  *)
(* well; keysets and buckets also cover the keys that come later.  A plan  *)
(* is refused only when the keys are too far apart to count, and has no    *)
(* more chunks than the estimate asks for.                                 *)
(***************************************************************************)
PlanPartitions ==
  /\ \A minPK, maxPK, rows \in Words, target \in 1 .. MaxInt :
       minPK <= maxPK =>
         \A plan \in PlanIntegerRangeByRows(minPK, maxPK, rows, target) :
           /\ plan = Refused <=> maxPK - minPK + 1 > MaxInt
           /\ plan # Refused => \A key \in minPK .. maxPK : ExactlyOnce(plan, key)
           /\ rows > 0 => Len(plan) * target < rows + target
  /\ \A keys \in (SUBSET (1 .. MaxInt)) \ {{}}, rows \in Words, workers \in 1 .. 2,
        strategy \in {"KEYSET", "HASH"} :
       \A plan \in Plans(strategy, keys, rows, 1, workers), key \in Words :
         ExactlyOnce(plan, key)
=============================================================================
