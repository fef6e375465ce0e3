--------------------------- MODULE TableCopy_proofs ---------------------------
(***************************************************************************)
(* Proofs about the copy of one table.  First its plan (ChunkPlanner): for *)
(* machine integers of every width, and tables, estimates and targets of   *)
(* every size.  Then the handoff from the copy to the changes: for any set *)
(* of keys, any number of workers and rows of a batch, and any number of   *)
(* changes and expired leases.  Last the copy of one chunk (FullPipeline). *)
(***************************************************************************)
EXTENDS SnapshotHandoff, FullPipeline, FiniteSetTheorems, WellFoundedInduction,
        SequenceTheorems, TLAPS

(***************************************************************************)
(* Arithmetic.                                                             *)
(***************************************************************************)
\* A power of two is positive and the next one is twice as large.
LEMMA TwoPower ==
  ASSUME NEW n \in Nat
  PROVE  2^n \in Nat \ {0} /\ 2^(n + 1) = 2 * 2^n
<1> DEFINE S == 1 .. n
           T == 1 .. (n + 1)
           New == {A \cup {n + 1} : A \in SUBSET S}
           add == [A \in SUBSET S |-> A \cup {n + 1}]
<1>1. IsFiniteSet(S) /\ Cardinality(S) = n /\ IsFiniteSet(T) /\ Cardinality(T) = n + 1
  BY FS_Interval
<1>2. /\ IsFiniteSet(SUBSET S) /\ Cardinality(SUBSET S) = 2^n
      /\ IsFiniteSet(SUBSET T) /\ Cardinality(SUBSET T) = 2^(n + 1)
  BY <1>1, FS_SUBSET
<1>3. SUBSET T = (SUBSET S) \cup New
  <2>1. ASSUME NEW B \in SUBSET T PROVE B \in (SUBSET S) \cup New
    <3>1. CASE n + 1 \in B
      <4>1. B \ {n + 1} \in SUBSET S /\ B = (B \ {n + 1}) \cup {n + 1}
        BY <3>1
      <4> QED BY <4>1
    <3>2. CASE n + 1 \notin B
      <4>1. ASSUME NEW x \in B PROVE x \in S
        BY <3>2
      <4> QED BY <4>1
    <3> QED BY <3>1, <3>2
  <2>2. ASSUME NEW B \in (SUBSET S) \cup New PROVE B \in SUBSET T
    OBVIOUS
  <2> QED BY <2>1, <2>2
<1>4. (SUBSET S) \cap New = {}
  BY n + 1 \notin S
<1>5. add \in Bijection(SUBSET S, New)
  <2>1. add \in [SUBSET S -> New] /\ \A B \in New : \E A \in SUBSET S : add[A] = B
    OBVIOUS
  <2>2. ASSUME NEW A \in SUBSET S, NEW B \in SUBSET S, add[A] = add[B] PROVE A = B
    <3>1. n + 1 \notin A /\ n + 1 \notin B
      OBVIOUS
    <3>2. A \cup {n + 1} = B \cup {n + 1}
      BY <2>2
    <3> QED BY <3>1, <3>2
  <2> QED BY <2>1, <2>2 DEF Bijection, Injection, Surjection, IsInjective
<1>6. IsFiniteSet(New) /\ Cardinality(New) = 2^n
  BY <1>2, <1>5, FS_Bijection DEF ExistsBijection
<1>7. 2^(n + 1) = 2^n + 2^n
  <2>1. Cardinality((SUBSET S) \cup New)
          = Cardinality(SUBSET S) + Cardinality(New) - Cardinality((SUBSET S) \cap New)
    BY <1>2, <1>6, FS_Union
  <2>2. Cardinality((SUBSET S) \cap New) = 0
    BY <1>4, FS_EmptySet
  <2>3. 2^n \in Nat
    BY <1>2, FS_CardinalityType
  <2>4. Cardinality(SUBSET T)
          = Cardinality(SUBSET S) + Cardinality(New) - Cardinality((SUBSET S) \cap New)
    BY <1>3, <2>1, Zenon
  <2> HIDE DEF S, T, New, add
  <2>5. 2^(n + 1) = 2^n + 2^n - 0
    BY <1>2, <1>6, <2>2, <2>4, Zenon
  <2> QED BY <2>3, <2>5
<1>8. 2^n \in Nat
  BY <1>2, FS_CardinalityType
<1>9. 2^n # 0
  BY <1>2, FS_EmptySet
<1> QED BY <1>7, <1>8, <1>9
\* A width and the bounds it gives.
Half == 2^(IntBits - 1)

LEMMA Width ==
  /\ Half \in Nat /\ Half >= 2
  /\ 2^IntBits = 2 * Half /\ MinInt = -Half /\ MaxInt = Half - 1
<1>1. IntBits - 1 \in Nat /\ IntBits - 2 \in Nat
  BY IntBitsAssumption
<1>2. 2^(IntBits - 1) \in Nat /\ 2^((IntBits - 1) + 1) = 2 * 2^(IntBits - 1)
  BY <1>1, TwoPower
<1>3. 2^(IntBits - 2) \in Nat \ {0} /\ 2^((IntBits - 2) + 1) = 2 * 2^(IntBits - 2)
  BY <1>1, TwoPower
<1>4. (IntBits - 1) + 1 = IntBits /\ (IntBits - 2) + 1 = IntBits - 1
  BY IntBitsAssumption
<1>5. 2^IntBits = 2 * Half /\ Half \in Nat
  BY <1>2, <1>4 DEF Half
<1>6. Half >= 2
  BY <1>3, <1>4 DEF Half
<1> QED BY <1>5, <1>6 DEF MinInt, MaxInt, Half

\* Division with remainder.
LEMMA DivFacts ==
  ASSUME NEW a \in Int, NEW d \in Nat \ {0}
  PROVE  /\ a \div d \in Int /\ a % d \in 0 .. (d - 1)
         /\ a = d * (a \div d) + (a % d)
OBVIOUS

\* The remainder is the only one.
LEMMA DivUnique ==
  ASSUME NEW d \in Nat \ {0}, NEW a \in Int, NEW q \in Int, NEW r \in 0 .. (d - 1),
         a = d * q + r
  PROVE  a % d = r /\ a \div d = q
<1> DEFINE p == a \div d
           s == a % d
<1>2. p \in Int /\ s \in 0 .. (d - 1) /\ a = d * p + s
  BY DivFacts
<1>3. d * (p - q) = r - s
  BY <1>2
<1>4. ~(p - q >= 1)
  <2> SUFFICES ASSUME p - q >= 1 PROVE FALSE
    OBVIOUS
  <2>1. d * (p - q) >= d
    BY <1>2
  <2> QED BY <2>1, <1>2, <1>3
<1>5. ~(p - q <= -1)
  <2> SUFFICES ASSUME p - q <= -1 PROVE FALSE
    OBVIOUS
  <2>1. d * (p - q) <= -d
    BY <1>2
  <2> QED BY <2>1, <1>2, <1>3
<1>6. p = q
  BY <1>2, <1>4, <1>5
<1> QED BY <1>2, <1>3, <1>6

\* What a machine integer keeps of a sum.
LEMMA WrapFacts ==
  ASSUME NEW x \in Int
  PROVE  /\ Wrap(x) \in Words
         /\ x \in Words => Wrap(x) = x
         /\ x \in (MaxInt + 1) .. (MaxInt + 2 * Half) => Wrap(x) = x - 2 * Half
         /\ x \in (MinInt - 2 * Half) .. (MinInt - 1) => Wrap(x) = x + 2 * Half
<1> DEFINE d == 2 * Half
<1>1. d \in Nat \ {0} /\ Wrap(x) = ((x - MinInt) % d) + MinInt
  BY Width DEF Wrap
<1>2. x - MinInt \in Int /\ MinInt \in Int /\ MaxInt = MinInt + d - 1
  BY Width
<1> HIDE DEF d
<1>3. Wrap(x) \in Words
  <2>1. (x - MinInt) % d \in 0 .. (d - 1)
    BY <1>1, <1>2, DivFacts
  <2> QED BY <1>1, <1>2, <2>1 DEF Words
<1>4. ASSUME x \in Words PROVE Wrap(x) = x
  <2> DEFINE r == x - MinInt
  <2>1. r \in 0 .. (d - 1) /\ x - MinInt = d * 0 + r /\ 0 \in Int
    BY <1>1, <1>2, <1>4 DEF Words
  <2> HIDE DEF r
  <2>2. (x - MinInt) % d = r
    BY <1>1, <1>2, <2>1, DivUnique
  <2> QED BY <1>1, <1>2, <2>2 DEF r
<1>5. ASSUME x \in (MaxInt + 1) .. (MaxInt + d) PROVE Wrap(x) = x - d
  <2> DEFINE r == x - MinInt - d
  <2>1. r \in 0 .. (d - 1) /\ x - MinInt = d * 1 + r /\ 1 \in Int
    BY <1>1, <1>2, <1>5
  <2> HIDE DEF r
  <2>2. (x - MinInt) % d = r
    BY <1>1, <1>2, <2>1, DivUnique
  <2> QED BY <1>1, <1>2, <2>2 DEF r
<1>6. ASSUME x \in (MinInt - d) .. (MinInt - 1) PROVE Wrap(x) = x + d
  <2> DEFINE r == x - MinInt + d
  <2>1. r \in 0 .. (d - 1) /\ x - MinInt = d * (-1) + r /\ (-1) \in Int
    BY <1>1, <1>2, <1>6
  <2> HIDE DEF r
  <2>2. (x - MinInt) % d = r
    BY <1>1, <1>2, <2>1, DivUnique
  <2> QED BY <1>1, <1>2, <2>2 DEF r
<1> QED BY <1>3, <1>4, <1>5, <1>6 DEF d

-----------------------------------------------------------------------------
(* Ranges. *)

\* A chunk ends span keys on, or at the last key.
LEMMA ChunkEnds ==
  ASSUME NEW start \in Words, NEW maxPK \in Words, NEW span \in 1 .. MaxInt
  PROVE  ChunkEnd(start, maxPK, span) =
           IF start + span - 1 >= maxPK THEN maxPK ELSE start + span - 1
<1> DEFINE sum == start + span
           end == Wrap(Wrap(sum) - 1)
<1>1. sum \in Int /\ sum - 1 \in Int /\ sum - 2 * Half - 1 \in Int
  BY Width DEF Words
<1>2. ChunkEnd(start, maxPK, span) = IF end < start \/ end > maxPK THEN maxPK ELSE end
  BY DEF ChunkEnd
<1>3. CASE sum <= MaxInt
  <2>1. sum \in Words /\ sum - 1 \in Words
    BY <1>3, Width DEF Words
  <2>2. end = sum - 1
    BY <1>1, <2>1, WrapFacts
  <2> QED BY <1>2, <2>2, Width DEF Words
<1>4. CASE sum = MaxInt + 1
  <2>1. Wrap(sum) = MinInt
    BY <1>1, <1>4, WrapFacts, Width
  <2>2. MinInt - 1 \in Int /\ MinInt - 1 \in (MinInt - 2 * Half) .. (MinInt - 1)
    BY Width
  <2>3. Wrap(MinInt - 1) = MinInt - 1 + 2 * Half
    BY <2>2, WrapFacts
  <2>4. end = MaxInt
    BY <2>1, <2>3, Width
  <2> QED BY <1>2, <1>4, <2>4, Width DEF Words
<1>5. CASE sum > MaxInt + 1
  <2>1. sum \in (MaxInt + 1) .. (MaxInt + 2 * Half) /\ sum - 2 * Half - 1 \in Words
    BY <1>5, Width DEF Words
  <2>2. end = sum - 2 * Half - 1
    BY <1>1, <2>1, WrapFacts
  <2> QED BY <1>2, <1>5, <2>2, Width DEF Words
<1> QED BY <1>1, <1>3, <1>4, <1>5, Width
\* The chunks of a range in closed form: as many as the span fits, each span
\* keys behind the one before, the last one cut off.
PieceCount(start, maxPK, span) ==
  IF start > maxPK THEN 1 ELSE ((maxPK - start) \div span) + 1

Piece(start, maxPK, span) ==
  Chunk("RANGE", <<start>>,
        <<IF start + span - 1 >= maxPK THEN maxPK ELSE start + span - 1>>, 0, 0)

Pieces(start, maxPK, span) ==
  [i \in 1 .. PieceCount(start, maxPK, span) |-> Piece(start + (i - 1) * span, maxPK, span)]

\* A range the span covers is one piece, any other one more than what is left.
LEMMA PieceCounts ==
  ASSUME NEW start \in Int, NEW maxPK \in Int, NEW span \in Nat \ {0}
  PROVE  /\ PieceCount(start, maxPK, span) \in Nat \ {0}
         /\ start + span - 1 >= maxPK => PieceCount(start, maxPK, span) = 1
         /\ start + span - 1 < maxPK =>
              PieceCount(start, maxPK, span) = PieceCount(start + span, maxPK, span) + 1
<1> DEFINE q == (maxPK - start) \div span
           r == (maxPK - start) % span
<1>1. q \in Int /\ r \in 0 .. (span - 1) /\ maxPK - start = span * q + r
  BY DivFacts
<1>2. start <= maxPK => q >= 0
  <2> SUFFICES ASSUME start <= maxPK, q <= -1 PROVE FALSE
    BY <1>1
  <2>1. span * q <= -span
    BY <1>1
  <2> QED BY <1>1, <2>1
<1>3. ASSUME start + span - 1 >= maxPK, start <= maxPK PROVE q = 0
  <2>1. maxPK - start \in 0 .. (span - 1) /\ maxPK - start = span * 0 + (maxPK - start)
    BY <1>3
  <2> QED BY <2>1, DivUnique
<1>4. ASSUME start + span - 1 < maxPK
      PROVE  start + span <= maxPK /\ (maxPK - (start + span)) \div span = q - 1
  <2>1. maxPK - (start + span) = span * (q - 1) + r /\ q - 1 \in Int
        /\ maxPK - (start + span) \in Int
    BY <1>1
  <2> HIDE DEF q, r
  <2>2. (maxPK - (start + span)) \div span = q - 1
    BY <1>1, <2>1, DivUnique
  <2> QED BY <1>4, <2>2
<1>5. PieceCount(start, maxPK, span) = IF start > maxPK THEN 1 ELSE q + 1
  BY DEF PieceCount
<1>6. ASSUME start + span - 1 < maxPK PROVE PieceCount(start + span, maxPK, span) = q
  <2>1. PieceCount(start + span, maxPK, span)
          = ((maxPK - (start + span)) \div span) + 1
    BY <1>4, <1>6 DEF PieceCount
  <2> QED BY <1>1, <1>4, <1>6, <2>1
<1> HIDE DEF q, r
<1> QED BY <1>1, <1>2, <1>3, <1>5, <1>6

ChunkType ==
  [split : {"RANGE", "KEYSET", "HASH_KEYSET"}, lower : Seq(Int), upper : Seq(Int),
   bucket : Int, of : Int]

LEMMA PiecesType ==
  ASSUME NEW start \in Int, NEW maxPK \in Int, NEW span \in Nat \ {0}
  PROVE  /\ Piece(start, maxPK, span) \in ChunkType
         /\ Pieces(start, maxPK, span) \in Seq(ChunkType)
         /\ Len(Pieces(start, maxPK, span)) = PieceCount(start, maxPK, span)
<1>1. ASSUME NEW s \in Int PROVE Piece(s, maxPK, span) \in ChunkType
  <2> DEFINE e == IF s + span - 1 >= maxPK THEN maxPK ELSE s + span - 1
  <2>1. e \in Int
    OBVIOUS
  <2> HIDE DEF e
  <2>2. <<s>> \in Seq(Int) /\ <<e>> \in Seq(Int)
    BY <2>1
  <2>3. Piece(s, maxPK, span) = Chunk("RANGE", <<s>>, <<e>>, 0, 0)
    BY DEF Piece, e
  <2> QED BY <2>2, <2>3 DEF Chunk, ChunkType
<1>2. PieceCount(start, maxPK, span) \in Nat
  BY PieceCounts
<1>3. \A i \in 1 .. PieceCount(start, maxPK, span) : start + (i - 1) * span \in Int
  BY <1>2
<1> QED BY <1>1, <1>2, <1>3 DEF Pieces

\* The closed form solves the equation of the loop.
LEMMA PiecesUnfold ==
  ASSUME NEW start \in Words, NEW maxPK \in Words, NEW span \in 1 .. MaxInt
  PROVE  LET end == ChunkEnd(start, maxPK, span)
         IN Pieces(start, maxPK, span) =
              <<Chunk("RANGE", <<start>>, <<end>>, 0, 0)>> \o
                (IF end = maxPK THEN <<>> ELSE Pieces(Wrap(end + 1), maxPK, span))
<1> DEFINE end == ChunkEnd(start, maxPK, span)
           first == Chunk("RANGE", <<start>>, <<end>>, 0, 0)
<1>1. start \in Int /\ maxPK \in Int /\ span \in Nat \ {0} /\ maxPK <= MaxInt /\ MaxInt \in Int
  BY Width DEF Words
<1>2. end = IF start + span - 1 >= maxPK THEN maxPK ELSE start + span - 1
  BY ChunkEnds
<1>3. first = Piece(start, maxPK, span) /\ first \in ChunkType
  BY <1>1, <1>2, PiecesType DEF Piece
<1>4. CASE start + span - 1 >= maxPK
  <2>1. end = maxPK /\ PieceCount(start, maxPK, span) = 1
    BY <1>1, <1>2, <1>4, PieceCounts
  <2>2. Pieces(start, maxPK, span) = [i \in 1 .. 1 |-> first]
    <3>1. \A i \in 1 .. 1 : start + (i - 1) * span = start
      BY <1>1
    <3> QED BY <1>3, <2>1, <3>1 DEF Pieces
  <2>3. <<first>> \o <<>> = [i \in 1 .. 1 |-> first]
    OBVIOUS
  <2> QED BY <2>1, <2>2, <2>3
<1>5. CASE start + span - 1 < maxPK
  <2> DEFINE rest == Pieces(start + span, maxPK, span)
             n == PieceCount(start + span, maxPK, span)
  <2>1. end = start + span - 1 /\ end # maxPK
    BY <1>1, <1>2, <1>5
  <2>2. start + span \in Words /\ start + span \in Int
    BY <1>1, <1>5, Width DEF Words
  <2>3. Wrap(end + 1) = start + span
    <3>1. Wrap(start + span) = start + span
      BY <2>2, WrapFacts
    <3>2. end + 1 = start + span
      BY <1>1, <2>1
    <3> QED BY <3>1, <3>2
  <2>4. /\ n \in Nat \ {0} /\ PieceCount(start, maxPK, span) = n + 1
        /\ rest \in Seq(ChunkType) /\ Len(rest) = n
    BY <1>1, <1>5, <2>2, PieceCounts, PiecesType
  <2>5. Pieces(start, maxPK, span) = [i \in 1 .. n + 1 |-> IF i = 1 THEN first ELSE rest[i - 1]]
    <3>1. ASSUME NEW i \in 1 .. n + 1
          PROVE  Piece(start + (i - 1) * span, maxPK, span) = IF i = 1 THEN first ELSE rest[i - 1]
      <4>1. CASE i = 1
        <5>1. start + (i - 1) * span = start
          BY <1>1, <4>1
        <5> QED BY <1>3, <4>1, <5>1
      <4>2. CASE i # 1
        <5>1. i - 1 \in 1 .. n
          BY <2>4, <4>2
        <5>2. rest[i - 1] = Piece((start + span) + ((i - 1) - 1) * span, maxPK, span)
          BY <5>1 DEF Pieces
        <5>3. (start + span) + ((i - 1) - 1) * span = start + (i - 1) * span
          BY <1>1, <2>4
        <5> QED BY <4>2, <5>2, <5>3
      <4> QED BY <4>1, <4>2
    <3> HIDE DEF rest, first
    <3> QED BY <2>4, <3>1 DEF Pieces
  <2>6. <<first>> \o rest = [i \in 1 .. n + 1 |-> IF i = 1 THEN first ELSE rest[i - 1]]
    <3> HIDE DEF rest, first, n
    <3> QED BY <1>3, <2>4
  <2> QED BY <2>1, <2>3, <2>5, <2>6
<1> QED BY <1>1, <1>4, <1>5
\* What the loop yields from a key on: the recursion has a solution, and any
\* solution of it is the closed form.
LEMMA ChunksFromUnfold ==
  ASSUME NEW maxPK \in Words, NEW span \in 1 .. MaxInt
  PROVE  ChunksFrom(maxPK, span) =
           [start \in Words |->
              <<Chunk("RANGE", <<start>>, <<ChunkEnd(start, maxPK, span)>>, 0, 0)>> \o
                (IF ChunkEnd(start, maxPK, span) = maxPK THEN <<>>
                 ELSE ChunksFrom(maxPK, span)[Wrap(ChunkEnd(start, maxPK, span) + 1)])]
<1> DEFINE End(start) == ChunkEnd(start, maxPK, span)
           Step(F) == [start \in Words |->
                         <<Chunk("RANGE", <<start>>, <<End(start)>>, 0, 0)>> \o
                           (IF End(start) = maxPK THEN <<>> ELSE F[Wrap(End(start) + 1)])]
           closed == [start \in Words |-> Pieces(start, maxPK, span)]
<1>1. closed = Step(closed)
  <2>1. ASSUME NEW start \in Words
        PROVE  closed[start] = Step(closed)[start]
    <3>1. End(start) \in Int
      BY ChunkEnds, Width DEF Words
    <3>2. Wrap(End(start) + 1) \in Words
      BY <3>1, WrapFacts
    <3>3. closed[Wrap(End(start) + 1)] = Pieces(Wrap(End(start) + 1), maxPK, span)
      BY <3>2
    <3>4. Pieces(start, maxPK, span) =
            <<Chunk("RANGE", <<start>>, <<End(start)>>, 0, 0)>> \o
              (IF End(start) = maxPK THEN <<>> ELSE Pieces(Wrap(End(start) + 1), maxPK, span))
      BY PiecesUnfold
    <3> QED BY <3>3, <3>4
  <2> HIDE DEF closed
  <2>2. closed = [start \in Words |-> closed[start]]
    BY DEF closed
  <2> QED BY <2>1, <2>2
<1>2. \E F : F = Step(F)
  BY <1>1
<1>3. ChunksFrom(maxPK, span) = CHOOSE F : F = Step(F)
  BY DEF ChunksFrom
<1> QED BY <1>2, <1>3
Less == {ss \in Nat \X Nat : ss[1] < ss[2]}

\* A nonempty set of natural numbers has a least element.
LEMMA NatMin ==
  ASSUME NEW T \in SUBSET Nat, T # {}
  PROVE \E x \in T : \A y \in T : x <= y
<1>1. Less = OpToRel(<, Nat)
  BY DEF Less, OpToRel
<1>2. IsWellFoundedOn(Less, Nat)
  BY <1>1, NatLessThanWellFounded
<1>3. PICK x \in T : \A y \in T : ~(<<y, x>> \in Less)
  BY <1>2, WFMin
<1>4. \A y \in T : ~(y < x)
  BY <1>3 DEF Less
<1> QED BY <1>4

\* The loop yields the closed form: a start at which it did not, the last one,
\* would pass it on to the next start.
LEMMA ChunksFromClosed ==
  ASSUME NEW maxPK \in Words, NEW span \in 1 .. MaxInt
  PROVE  \A start \in Words : ChunksFrom(maxPK, span)[start] = Pieces(start, maxPK, span)
<1> DEFINE Bad(start) == ChunksFrom(maxPK, span)[start] # Pieces(start, maxPK, span)
           T == {n \in Nat : \E start \in Words : Bad(start) /\ n = MaxInt - start}
<1>1. SUFFICES ASSUME NEW bad \in Words, Bad(bad) PROVE FALSE
  OBVIOUS
<1>2. MaxInt - bad \in T
  BY <1>1, Width DEF Words
<1>3. PICK n \in T : \A m \in T : n <= m
  <2>1. T \in SUBSET Nat /\ T # {}
    BY <1>2
  <2> HIDE DEF T
  <2> QED BY <2>1, NatMin
<1>4. PICK start \in Words : Bad(start) /\ n = MaxInt - start
  BY <1>3
<1> DEFINE end == ChunkEnd(start, maxPK, span)
           next == Wrap(end + 1)
<1>5. start \in Int /\ maxPK \in Int /\ span \in Nat \ {0} /\ maxPK <= MaxInt /\ MaxInt \in Int
  BY Width DEF Words
<1>6. end = IF start + span - 1 >= maxPK THEN maxPK ELSE start + span - 1
  BY ChunkEnds
<1>7. ChunksFrom(maxPK, span)[start] =
        <<Chunk("RANGE", <<start>>, <<end>>, 0, 0)>> \o
          (IF end = maxPK THEN <<>> ELSE ChunksFrom(maxPK, span)[next])
  BY ChunksFromUnfold
<1>8. Pieces(start, maxPK, span) =
        <<Chunk("RANGE", <<start>>, <<end>>, 0, 0)>> \o
          (IF end = maxPK THEN <<>> ELSE Pieces(next, maxPK, span))
  BY PiecesUnfold
<1>9. end # maxPK /\ ChunksFrom(maxPK, span)[next] # Pieces(next, maxPK, span)
  BY <1>4, <1>7, <1>8
<1>10. end + 1 = start + span /\ start + span \in Words /\ start + span > start
  BY <1>5, <1>6, <1>9, Width DEF Words
<1>11. next = start + span
  BY <1>10, WrapFacts, <1>5
<1>12. MaxInt - next \in T /\ MaxInt - next < n
  BY <1>4, <1>5, <1>9, <1>10, <1>11, Width DEF Words
<1> QED BY <1>3, <1>4, <1>5, <1>12, <1>10, <1>11

\* One chunk and no other selects the key.
LEMMA SelectedOnce ==
  ASSUME NEW plan, NEW key, NEW i \in DOMAIN plan, Selects(plan[i], key),
         \A j \in DOMAIN plan : Selects(plan[j], key) => j = i
  PROVE  ExactlyOnce(plan, key)
<1>1. {j \in DOMAIN plan : Selects(plan[j], key)} = {i}
  OBVIOUS
<1> QED BY <1>1, FS_Singleton DEF ExactlyOnce

\* The pieces share out the keys of the range.
LEMMA PiecesPartition ==
  ASSUME NEW start \in Int, NEW maxPK \in Int, NEW span \in Nat \ {0},
         NEW key \in start .. maxPK
  PROVE  ExactlyOnce(Pieces(start, maxPK, span), key)
<1> DEFINE plan == Pieces(start, maxPK, span)
           q == (key - start) \div span
           r == (key - start) % span
           total == (maxPK - start) \div span
           rest == (maxPK - start) % span
<1>1. /\ q \in Int /\ r \in 0 .. (span - 1) /\ key - start = span * q + r
      /\ total \in Int /\ rest \in 0 .. (span - 1) /\ maxPK - start = span * total + rest
  <2>1. key - start \in Int /\ maxPK - start \in Int
    OBVIOUS
  <2>2. q \in Int /\ r \in 0 .. (span - 1) /\ key - start = span * q + r
    BY <2>1, DivFacts
  <2>3. total \in Int /\ rest \in 0 .. (span - 1) /\ maxPK - start = span * total + rest
    BY <2>1, DivFacts
  <2> QED BY <2>2, <2>3
<1>2. DOMAIN plan = 1 .. total + 1
  BY DEF Pieces, PieceCount
<1>3. ASSUME NEW i \in 1 .. total + 1
      PROVE  Selects(plan[i], key) <=>
               start + (i - 1) * span <= key /\ key <= start + (i - 1) * span + span - 1
  <2> DEFINE s == start + (i - 1) * span
             e == IF s + span - 1 >= maxPK THEN maxPK ELSE s + span - 1
  <2>1. s \in Int /\ e \in Int
    BY <1>1
  <2>2. plan[i] = Chunk("RANGE", <<s>>, <<e>>, 0, 0)
    BY <1>2 DEF Pieces, Piece
  <2> HIDE DEF s, e
  <2>3. Selects(plan[i], key) <=> key >= s /\ key <= e
    <3>1. <<s>> # <<>> /\ <<e>> # <<>> /\ <<s>>[1] = s /\ <<e>>[1] = e
      OBVIOUS
    <3> QED BY <2>2, <3>1 DEF Selects, Chunk
  <2> QED BY <2>1, <2>3 DEF s, e
<1> HIDE DEF q, r, total, rest, plan
<1>4. q >= 0
  <2> SUFFICES ASSUME q <= -1 PROVE FALSE
    BY <1>1
  <2>1. span * q <= -span
    BY <1>1
  <2> QED BY <1>1, <2>1
<1>5. q <= total
  <2> SUFFICES ASSUME q >= total + 1 PROVE FALSE
    BY <1>1
  <2>1. span * q >= span * total + span
    BY <1>1
  <2> QED BY <1>1, <2>1
<1>6. q + 1 \in 1 .. total + 1 /\ Selects(plan[q + 1], key)
  <2>1. q + 1 \in 1 .. total + 1 /\ (q + 1) - 1 = q /\ q * span = span * q
    BY <1>1, <1>4, <1>5
  <2>2. start + ((q + 1) - 1) * span = key - r
    BY <1>1, <2>1
  <2> QED BY <1>1, <1>3, <2>1, <2>2
<1>7. ASSUME NEW j \in 1 .. total + 1, Selects(plan[j], key) PROVE j = q + 1
  <2> DEFINE p == key - start - span * (j - 1)
  <2>1. start + (j - 1) * span <= key /\ key <= start + (j - 1) * span + span - 1
    BY <1>3, <1>7
  <2>2. p \in 0 .. (span - 1) /\ key - start = span * (j - 1) + p /\ j - 1 \in Int
    BY <1>1, <2>1
  <2> HIDE DEF p
  <2>3. (key - start) \div span = j - 1
    BY <2>2, DivUnique
  <2> QED BY <1>1, <2>2, <2>3 DEF q
<1> QED BY <1>2, <1>6, <1>7, SelectedOnce DEF plan
\* Division that rounds up.
LEMMA CeilDiv ==
  ASSUME NEW a \in Int, NEW n \in Nat \ {0}
  PROVE  LET c == (a + n - 1) \div n
         IN c \in Int /\ n * c >= a /\ n * c <= a + n - 1 /\ (a >= 1 => c >= 1)
<1> DEFINE c == (a + n - 1) \div n
           r == (a + n - 1) % n
<1>1. a + n - 1 \in Int
  OBVIOUS
<1>2. c \in Int /\ r \in 0 .. (n - 1) /\ a + n - 1 = n * c + r
  BY <1>1, DivFacts
<1>3. ASSUME a >= 1, c <= 0 PROVE FALSE
  <2>1. n * c <= 0
    BY <1>2, <1>3
  <2> QED BY <1>2, <1>3, <2>1
<1> HIDE DEF c, r
<1>4. c \in Int /\ n * c >= a /\ n * c <= a + n - 1 /\ (a >= 1 => c >= 1)
  BY <1>2, <1>3
<1> QED BY <1>4 DEF c

\* A span that shares the keys out among so many chunks needs no more of them.
LEMMA EnoughPieces ==
  ASSUME NEW start \in Int, NEW maxPK \in Int, NEW count \in Nat \ {0}, NEW span \in Nat \ {0},
         start <= maxPK, count * span >= maxPK - start + 1
  PROVE  PieceCount(start, maxPK, span) <= count
<1> DEFINE q == (maxPK - start) \div span
           r == (maxPK - start) % span
<1>1. q \in Int /\ r \in 0 .. (span - 1) /\ maxPK - start = span * q + r
  <2>1. maxPK - start \in Int
    OBVIOUS
  <2> QED BY <2>1, DivFacts
<1>2. PieceCount(start, maxPK, span) = q + 1
  BY DEF PieceCount
<1> HIDE DEF q, r
<1>3. q <= count - 1
  <2> SUFFICES ASSUME q >= count PROVE FALSE
    BY <1>1
  <2>1. span * q >= span * count /\ span * count = count * span
    BY <1>1
  <2> QED BY <1>1, <2>1
<1> QED BY <1>1, <1>2, <1>3

\* The keys of a range are counted right unless they are too many.
LEMMA KeysCounted ==
  ASSUME NEW minPK \in Words, NEW maxPK \in Words, minPK <= maxPK
  PROVE  LET keys == Wrap(Wrap(maxPK - minPK) + 1)
         IN IF maxPK - minPK + 1 > MaxInt THEN keys \in Int /\ keys <= 0
            ELSE keys = maxPK - minPK + 1
<1> DEFINE d == maxPK - minPK
           keys == Wrap(Wrap(d) + 1)
<1>1. d \in Int /\ d >= 0 /\ d <= 2 * Half - 1 /\ d + 1 \in Int /\ d - 2 * Half + 1 \in Int
  BY Width DEF Words
<1> HIDE DEF d
<1>2. CASE d + 1 <= MaxInt
  <2>1. d \in Words /\ d + 1 \in Words
    BY <1>1, <1>2, Width DEF Words
  <2>2. Wrap(d) = d /\ Wrap(d + 1) = d + 1
    BY <1>1, <2>1, WrapFacts
  <2>3. keys = d + 1
    BY <2>2
  <2>4. ~(d + 1 > MaxInt)
    BY <1>1, <1>2, Width
  <2> QED BY <2>3, <2>4 DEF d
<1>3. CASE d = MaxInt
  <2>1. Wrap(d) = d
    BY <1>1, <1>3, WrapFacts, Width DEF Words
  <2>2. Wrap(d + 1) = d + 1 - 2 * Half
    BY <1>1, <1>3, WrapFacts, Width
  <2>3. keys \in Int /\ keys <= 0 /\ d + 1 > MaxInt
    BY <1>1, <1>3, <2>1, <2>2, Width
  <2> QED BY <2>3 DEF d
<1>4. CASE d > MaxInt
  <2>1. Wrap(d) = d - 2 * Half
    BY <1>1, <1>4, WrapFacts, Width
  <2>2. d - 2 * Half + 1 \in Words
    BY <1>1, <1>4, Width DEF Words
  <2>3. Wrap(d - 2 * Half + 1) = d - 2 * Half + 1
    BY <1>1, <2>2, WrapFacts
  <2>4. keys \in Int /\ keys <= 0 /\ d + 1 > MaxInt
    BY <1>1, <1>4, <2>1, <2>3, Width
  <2> QED BY <2>4 DEF d
<1> QED BY <1>1, <1>2, <1>3, <1>4, Width

\* What the planner of integer ranges promises: it refuses a table only when
\* its keys are too far apart to count, shares out the keys, and makes no more
\* chunks than the estimate asks for.
LEMMA RangePlans ==
  ASSUME NEW minPK \in Words, NEW maxPK \in Words, NEW rows \in Words,
         NEW perChunk \in 1 .. MaxInt, minPK <= maxPK,
         NEW plan \in PlanIntegerRangeByRows(minPK, maxPK, rows, perChunk)
  PROVE  /\ plan \in Seq(ChunkType)
         /\ plan = Refused <=> maxPK - minPK + 1 > MaxInt
         /\ plan # Refused => \A key \in minPK .. maxPK : ExactlyOnce(plan, key)
         /\ rows > 0 => Len(plan) * perChunk < rows + perChunk
<1> DEFINE keys == Wrap(Wrap(maxPK - minPK) + 1)
           counted == IF rows <= 0 THEN keys ELSE rows
           Span(count) == (keys + count - 1) \div count
           AtLeastOne(c) == IF c < 1 THEN 1 ELSE c
<1>1. /\ minPK \in Int /\ maxPK \in Int /\ rows \in Int /\ perChunk \in Nat \ {0} /\ MaxInt \in Nat
      /\ perChunk <= MaxInt /\ rows <= MaxInt /\ MinInt \in Int /\ MinInt < 0
  BY Width DEF Words
<1>2. IF maxPK - minPK + 1 > MaxInt THEN keys \in Int /\ keys <= 0
      ELSE keys = maxPK - minPK + 1
  BY KeysCounted
<1>3. keys \in Int /\ counted \in Int
  BY <1>1, <1>2
<1>4. PlanIntegerRangeByRows(minPK, maxPK, rows, perChunk) =
        IF perChunk <= 0 \/ minPK > maxPK \/ keys <= 0 THEN {Refused}
        ELSE {PlanIntegerRange(minPK, maxPK, Span(AtLeastOne(c))) :
                c \in ChunkCounts(counted, perChunk)}
  BY DEF PlanIntegerRangeByRows
<1> HIDE DEF keys, counted
<1>5. CASE keys <= 0
  <2>1. plan = <<>> /\ maxPK - minPK + 1 > MaxInt
    BY <1>1, <1>2, <1>4, <1>5 DEF Refused
  <2>2. <<>> \in Seq(ChunkType) /\ Len(<<>>) = 0
    OBVIOUS
  <2>3. rows > 0 => 0 * perChunk < rows + perChunk
    BY <1>1
  <2> QED BY <2>1, <2>2, <2>3 DEF Refused
<1>6. CASE keys > 0
  <2>1. keys = maxPK - minPK + 1 /\ keys <= MaxInt /\ ~(maxPK - minPK + 1 > MaxInt)
    BY <1>1, <1>2, <1>6
  <2>2. PICK c \in ChunkCounts(counted, perChunk) :
               plan = PlanIntegerRange(minPK, maxPK, Span(AtLeastOne(c)))
    BY <1>1, <1>3, <1>4, <1>6
  <2> DEFINE count == AtLeastOne(c)
             span == Span(count)
  <2>3. c \in Int /\ (rows > 0 => count * perChunk < rows + perChunk)
    <3> DEFINE ceil == (counted + perChunk - 1) \div perChunk
    <3>1. ceil \in Int /\ perChunk * ceil <= counted + perChunk - 1 /\ (counted >= 1 => ceil >= 1)
      BY <1>1, <1>3, CeilDiv
    <3>2. c = ceil \/ (c = MinInt /\ counted = MaxInt /\ perChunk = 1)
      BY DEF ChunkCounts
    <3> HIDE DEF ceil
    <3>3. rows > 0 => counted = rows
      BY <1>1 DEF counted
    <3>4. CASE c = ceil
      <4>1. rows > 0 => count = ceil /\ ceil * perChunk = perChunk * ceil
        BY <1>1, <3>1, <3>3, <3>4
      <4> QED BY <1>1, <3>1, <3>3, <3>4, <4>1
    <3>5. CASE c = MinInt /\ counted = MaxInt /\ perChunk = 1
      <4>1. count = 1
        BY <1>1, <3>5
      <4> QED BY <1>1, <3>3, <3>5, <4>1
    <3> QED BY <3>2, <3>4, <3>5
  <2>4. count \in Nat \ {0}
    BY <2>3
  <2> HIDE DEF count
  <2>5. span \in Int /\ count * span >= keys /\ span >= 1 /\ count * span <= keys + count - 1
    <3>1. span = (keys + count - 1) \div count
      OBVIOUS
    <3> HIDE DEF span
    <3>2. keys >= 1
      BY <1>3, <1>6
    <3> QED BY <1>3, <2>4, <3>1, <3>2, CeilDiv
  <2>6. span <= MaxInt
    <3> SUFFICES ASSUME span >= keys + 1 PROVE FALSE
      BY <1>1, <1>3, <2>1, <2>5
    <3>1. count * span >= count * keys + count
      BY <1>3, <2>4, <2>5
    <3>2. count * keys >= keys
      BY <1>3, <1>6, <2>4
    <3> HIDE DEF span
    <3> QED BY <1>3, <2>4, <2>5, <3>1, <3>2
  <2> HIDE DEF span
  <2>7. span \in 1 .. MaxInt /\ span \in Nat \ {0}
    BY <1>1, <2>5, <2>6
  <2>8. plan = Pieces(minPK, maxPK, span)
    <3>1. plan = PlanIntegerRange(minPK, maxPK, span)
      BY <2>2 DEF span, count
    <3>2. PlanIntegerRange(minPK, maxPK, span) = ChunksFrom(maxPK, span)[minPK]
      BY <1>1, <2>7 DEF PlanIntegerRange
    <3> QED BY <2>7, <3>1, <3>2, ChunksFromClosed
  <2>9. plan \in Seq(ChunkType) /\ Len(plan) = PieceCount(minPK, maxPK, span)
        /\ Len(plan) \in Nat \ {0}
    <3>1. /\ Pieces(minPK, maxPK, span) \in Seq(ChunkType)
          /\ Len(Pieces(minPK, maxPK, span)) = PieceCount(minPK, maxPK, span)
      BY <1>1, <2>7, PiecesType
    <3>2. PieceCount(minPK, maxPK, span) \in Nat \ {0}
      BY <1>1, <2>7, PieceCounts
    <3> QED BY <2>8, <3>1, <3>2, Zenon
  <2>10. plan # Refused
    BY <2>9 DEF Refused
  <2>11. \A key \in minPK .. maxPK : ExactlyOnce(plan, key)
    BY <1>1, <2>7, <2>8, PiecesPartition
  <2>12. ASSUME rows > 0 PROVE Len(plan) * perChunk < rows + perChunk
    <3>1. Len(plan) <= count
      BY <1>1, <2>1, <2>4, <2>5, <2>7, <2>9, EnoughPieces
    <3>2. Len(plan) * perChunk <= count * perChunk
      BY <1>1, <2>4, <2>9, <3>1
    <3> QED BY <1>1, <2>3, <2>4, <2>9, <2>12, <3>2
  <2> QED BY <2>1, <2>9, <2>10, <2>11, <2>12
<1> QED BY <1>3, <1>5, <1>6
-----------------------------------------------------------------------------
(* Keysets. *)

Below(keys, k) == {j \in keys : j < k}

\* The larger of two keys has more keys below it.
LEMMA RankGrows ==
  ASSUME NEW keys \in SUBSET Int, IsFiniteSet(keys)
  PROVE  /\ \A k \in keys : Cardinality(Below(keys, k)) \in 0 .. (Cardinality(keys) - 1)
         /\ \A j, k \in keys : j < k => Cardinality(Below(keys, j)) < Cardinality(Below(keys, k))
<1>1. \A k : IsFiniteSet(Below(keys, k)) /\ Cardinality(Below(keys, k)) \in Nat
             /\ Cardinality(Below(keys, k)) <= Cardinality(keys)
             /\ (Cardinality(keys) = Cardinality(Below(keys, k)) => keys = Below(keys, k))
  BY FS_Subset, FS_CardinalityType DEF Below
<1>2. ASSUME NEW k \in keys
      PROVE  Cardinality(Below(keys, k)) \in 0 .. (Cardinality(keys) - 1)
  <2>1. k \notin Below(keys, k)
    BY DEF Below
  <2>2. Cardinality(keys) \in Nat
    BY FS_CardinalityType
  <2> QED BY <1>1, <2>1, <2>2
<1>3. ASSUME NEW j \in keys, NEW k \in keys, j < k
      PROVE  Cardinality(Below(keys, j)) < Cardinality(Below(keys, k))
  <2>1. Below(keys, j) \in SUBSET Below(keys, k) /\ j \in Below(keys, k) /\ j \notin Below(keys, j)
    <3>1. j \in Int /\ k \in Int
      OBVIOUS
    <3>2. ASSUME NEW i \in Below(keys, j) PROVE i \in Below(keys, k)
      <4>1. i \in keys /\ i \in Int /\ i < j
        BY DEF Below
      <4>2. i < k
        BY <1>3, <3>1, <4>1
      <4> QED BY <4>1, <4>2 DEF Below
    <3>3. j \in Below(keys, k) /\ j \notin Below(keys, j)
      BY <1>3, <3>1 DEF Below
    <3> QED BY <3>2, <3>3
  <2>2. /\ Cardinality(Below(keys, j)) <= Cardinality(Below(keys, k))
        /\ Cardinality(Below(keys, k)) # Cardinality(Below(keys, j))
    BY <1>1, <2>1, FS_Subset
  <2> QED BY <1>1, <2>2
<1> QED BY <1>2, <1>3

\* The keys in order: there is an n-th key for every n, and it grows with n.
LEMMA KeysInOrder ==
  ASSUME NEW keys \in SUBSET Int, IsFiniteSet(keys)
  PROVE  /\ \A n \in 1 .. Cardinality(keys) :
              KeyAt(keys, n) \in keys /\ Cardinality(Below(keys, KeyAt(keys, n))) = n - 1
         /\ \A n, m \in 1 .. Cardinality(keys) : n < m => KeyAt(keys, n) < KeyAt(keys, m)
<1> DEFINE N == Cardinality(keys)
           rank == [k \in keys |-> Cardinality(Below(keys, k))]
<1>1. N \in Nat
  BY FS_CardinalityType
<1>2. IsFiniteSet(0 .. (N - 1)) /\ Cardinality(0 .. (N - 1)) = N
  <2>1. 0 \in Int /\ N - 1 \in Int
    BY <1>1
  <2>2. IsFiniteSet(0 .. (N - 1))
        /\ Cardinality(0 .. (N - 1)) = IF 0 > N - 1 THEN 0 ELSE (N - 1) - 0 + 1
    BY <2>1, FS_Interval
  <2> QED BY <1>1, <2>2
<1>3. rank \in Injection(keys, 0 .. (N - 1))
  <2>1. rank \in [keys -> 0 .. (N - 1)]
    BY RankGrows
  <2>2. ASSUME NEW j \in keys, NEW k \in keys, rank[j] = rank[k] PROVE j = k
    <3>1. ~(j < k) /\ ~(k < j)
      BY <2>2, RankGrows
    <3> QED BY <3>1
  <2> QED BY <2>1, <2>2 DEF Injection, IsInjective
<1>4. rank \in Surjection(keys, 0 .. (N - 1))
  BY <1>2, <1>3, FS_Injection
<1>5. ASSUME NEW n \in 1 .. N
      PROVE  KeyAt(keys, n) \in keys /\ Cardinality(Below(keys, KeyAt(keys, n))) = n - 1
  <2>1. n - 1 \in 0 .. (N - 1)
    BY <1>1
  <2>2. PICK at \in keys : rank[at] = n - 1
    BY <1>4, <2>1 DEF Surjection
  <2>3. \E k \in keys : Cardinality(Below(keys, k)) = n - 1
    BY <2>2
  <2> QED BY <2>3 DEF KeyAt, Below
<1>6. ASSUME NEW n \in 1 .. N, NEW m \in 1 .. N, n < m PROVE KeyAt(keys, n) < KeyAt(keys, m)
  <2> DEFINE j == KeyAt(keys, n)
             k == KeyAt(keys, m)
  <2>1. j \in keys /\ k \in keys /\ Cardinality(Below(keys, j)) = n - 1
        /\ Cardinality(Below(keys, k)) = m - 1
    BY <1>5
  <2> HIDE DEF j, k
  <2>2. ~(k < j) /\ k # j
    BY <1>1, <1>6, <2>1, RankGrows
  <2>3. j < k
    BY <2>1, <2>2
  <2> QED BY <2>3 DEF j, k
<1> QED BY <1>5, <1>6

\* Every tile begins at a row, and behind the begin of the tiles before.
LEMMA TileStarts ==
  ASSUME NEW count \in Nat, NEW n \in Nat \ {0}, NEW t \in Nat \ {0}, t <= count, t <= n
  PROVE  /\ TileStart(count, n, t) \in 1 .. count
         /\ \A u \in 1 .. t - 1 : TileStart(count, n, u) < TileStart(count, n, t)
<1> DEFINE q == count \div n
           r == count % n
           Extra(u) == IF u - 1 < r THEN u - 1 ELSE r
<1>1. q \in Int /\ r \in 0 .. (n - 1) /\ count = n * q + r
  BY DivFacts
<1>2. \A u : TileStart(count, n, u) = (u - 1) * q + Extra(u) + 1
  BY DEF TileStart
<1> HIDE DEF q, r
<1>3. q >= 0
  <2> SUFFICES ASSUME q <= -1 PROVE FALSE
    BY <1>1
  <2>1. n * q <= -n
    BY <1>1
  <2> QED BY <1>1, <2>1
<1>4. (t - 1) * q \in Nat /\ n * q >= t * q /\ t * q = (t - 1) * q + q
  <2>1. (n - t) * q >= 0 /\ (n - t) * q = n * q - t * q
    BY <1>1, <1>3
  <2>2. (t - 1) * q >= 0
    BY <1>1, <1>3
  <2> QED BY <1>1, <1>3, <2>1, <2>2
<1>5. CASE q = 0
  <2>1. count = r
    BY <1>1, <1>5
  <2>2. \A u \in 1 .. t : TileStart(count, n, u) = u
    <3>1. ASSUME NEW u \in 1 .. t PROVE (u - 1) * q + Extra(u) + 1 = u
      BY <1>1, <1>5, <2>1
    <3> QED BY <1>2, <3>1
  <2> QED BY <2>2
<1>6. CASE q >= 1
  <2>1. TileStart(count, n, t) \in 1 .. count
    BY <1>1, <1>2, <1>4, <1>6
  <2>2. ASSUME NEW u \in 1 .. t - 1 PROVE TileStart(count, n, u) < TileStart(count, n, t)
    <3>1. (t - 1) * q - (u - 1) * q = (t - u) * q /\ (t - u) * q >= q /\ (u - 1) * q \in Int
      BY <1>1, <1>6
    <3>2. Extra(u) <= Extra(t) /\ Extra(u) \in Int /\ Extra(t) \in Int
      BY <1>1
    <3> HIDE DEF Extra
    <3> QED BY <1>1, <1>2, <1>4, <1>6, <3>1, <3>2
  <2> QED BY <2>1, <2>2
<1> QED BY <1>1, <1>3, <1>5, <1>6

\* The boundaries of a table are keys of it and grow.
LEMMA Boundaries ==
  ASSUME NEW keys \in SUBSET Int, IsFiniteSet(keys), NEW n \in Nat \ {0}
  PROVE  LET b == PlanKeysetBoundaries(keys, n)
         IN b \in Seq(Int) /\ \A i, j \in 1 .. Len(b) : i < j => b[i] < b[j]
<1> DEFINE count == Cardinality(keys)
           tiles == IF count < n THEN count ELSE n
           b == PlanKeysetBoundaries(keys, n)
           At(i) == TileStart(count, n, i + 1)
<1>1. count \in Nat /\ tiles \in Nat /\ tiles <= count /\ tiles <= n
  BY FS_CardinalityType
<1>2. b = IF tiles <= 1 THEN <<>> ELSE [i \in 1 .. tiles - 1 |-> KeyAt(keys, At(i))]
  BY DEF PlanKeysetBoundaries
<1> HIDE DEF tiles, b
<1>3. CASE tiles <= 1
  BY <1>2, <1>3 DEF b
<1>4. CASE tiles > 1
  <2>1. ASSUME NEW i \in 1 .. tiles - 1
        PROVE  At(i) \in 1 .. count /\ \A j \in 1 .. i - 1 : At(j) < At(i)
    <3>1. i + 1 \in Nat \ {0} /\ i + 1 <= count /\ i + 1 <= n
      BY <1>1
    <3>2. /\ TileStart(count, n, i + 1) \in 1 .. count
          /\ \A u \in 1 .. (i + 1) - 1 : TileStart(count, n, u) < TileStart(count, n, i + 1)
      BY <1>1, <3>1, TileStarts
    <3>3. ASSUME NEW j \in 1 .. i - 1 PROVE j + 1 \in 1 .. (i + 1) - 1
      BY <1>1
    <3> QED BY <3>2, <3>3
  <2>2. \A i \in 1 .. tiles - 1 : KeyAt(keys, At(i)) \in Int
    BY <2>1, KeysInOrder
  <2>3. ASSUME NEW i \in 1 .. tiles - 1, NEW j \in 1 .. tiles - 1, i < j
        PROVE  KeyAt(keys, At(i)) < KeyAt(keys, At(j))
    <3>1. i \in 1 .. j - 1
      BY <1>1, <2>3
    <3>2. At(i) < At(j) /\ At(i) \in 1 .. count /\ At(j) \in 1 .. count
      BY <2>1, <3>1
    <3> QED BY <3>2, KeysInOrder
  <2> HIDE DEF At
  <2>4. b = [i \in 1 .. tiles - 1 |-> KeyAt(keys, At(i))] /\ tiles - 1 \in Nat
    BY <1>1, <1>2, <1>4
  <2>5. b \in Seq(Int) /\ Len(b) = tiles - 1
    BY <2>2, <2>4
  <2>6. \A i, j \in 1 .. Len(b) : i < j => b[i] < b[j]
    BY <2>3, <2>4, <2>5
  <2> QED BY <2>5, <2>6 DEF b
<1> QED BY <1>1, <1>3, <1>4
\* Chunks between growing boundaries share out all keys there are.
LEMMA KeysetPartition ==
  ASSUME NEW b \in Seq(Int), \A i, j \in 1 .. Len(b) : i < j => b[i] < b[j],
         NEW key \in Int
  PROVE  PlanBoundedKeyset(b) \in Seq(ChunkType) /\ ExactlyOnce(PlanBoundedKeyset(b), key)
<1> DEFINE plan == PlanBoundedKeyset(b)
           n == Len(b)
           T == {i \in 1 .. n + 1 : i > n \/ key < b[i]}
<1>1. n \in Nat /\ \A i \in 1 .. n : b[i] \in Int
  OBVIOUS
<1>2. plan = [i \in 1 .. n + 1 |->
                Chunk("KEYSET", IF i = 1 THEN <<>> ELSE <<b[i - 1]>>,
                      IF i > n THEN <<>> ELSE <<b[i]>>, 0, 0)]
  BY DEF PlanBoundedKeyset
<1> HIDE DEF plan, n
<1>3. ASSUME NEW i \in 1 .. n + 1 PROVE plan[i] \in ChunkType
  <2> DEFINE lower == IF i = 1 THEN <<>> ELSE <<b[i - 1]>>
             upper == IF i > n THEN <<>> ELSE <<b[i]>>
  <2>1. lower \in Seq(Int)
    <3>1. CASE i = 1
      BY <3>1
    <3>2. CASE i # 1
      <4>1. b[i - 1] \in Int
        BY <1>1, <3>2
      <4> QED BY <3>2, <4>1
    <3> QED BY <3>1, <3>2
  <2>2. upper \in Seq(Int)
    <3>1. CASE i > n
      BY <3>1
    <3>2. CASE ~(i > n)
      <4>1. b[i] \in Int
        BY <1>1, <3>2
      <4> QED BY <3>2, <4>1
    <3> QED BY <3>1, <3>2
  <2>3. plan[i] = Chunk("KEYSET", lower, upper, 0, 0)
    BY <1>2
  <2> HIDE DEF lower, upper
  <2> QED BY <2>1, <2>2, <2>3 DEF Chunk, ChunkType
<1>4. ASSUME NEW i \in 1 .. n + 1
      PROVE  Selects(plan[i], key) <=> (i = 1 \/ b[i - 1] <= key) /\ (i > n \/ key < b[i])
  <2>1. plan[i] = [split |-> "KEYSET", lower |-> IF i = 1 THEN <<>> ELSE <<b[i - 1]>>,
                   upper |-> IF i > n THEN <<>> ELSE <<b[i]>>, bucket |-> 0, of |-> 0]
    BY <1>2 DEF Chunk
  <2>2. \A x : <<x>> # <<>> /\ <<x>>[1] = x
    OBVIOUS
  <2>3. i # 1 => b[i - 1] \in Int
    BY <1>1
  <2> QED BY <1>1, <2>1, <2>2, <2>3 DEF Selects
<1>5. PICK i \in T : \A j \in T : i <= j
  <2>1. T \in SUBSET Nat /\ n + 1 \in T
    BY <1>1
  <2> HIDE DEF T
  <2> QED BY <2>1, NatMin
<1>6. i \in 1 .. n + 1 /\ (i > n \/ key < b[i])
  BY <1>5
<1>7. i = 1 \/ b[i - 1] <= key
  <2> SUFFICES ASSUME i # 1, ~(b[i - 1] <= key) PROVE FALSE
    OBVIOUS
  <2>1. i - 1 \in 1 .. n /\ b[i - 1] \in Int
    BY <1>1, <1>6
  <2>2. i - 1 \in T
    BY <1>1, <2>1
  <2> QED BY <1>1, <1>5, <1>6, <2>2
<1>8. ASSUME NEW j \in 1 .. n + 1, Selects(plan[j], key) PROVE j = i
  <2>1. j \in T /\ (j = 1 \/ b[j - 1] <= key)
    BY <1>4, <1>8
  <2>2. i <= j
    BY <1>5, <2>1
  <2>3. ~(i < j)
    <3> SUFFICES ASSUME i < j PROVE FALSE
      OBVIOUS
    <3>1. i \in 1 .. n /\ j - 1 \in 1 .. n /\ j # 1 /\ i <= j - 1
      BY <1>1, <1>6
    <3>2. b[i] <= b[j - 1] /\ b[i] \in Int /\ b[j - 1] \in Int
      <4>1. CASE i = j - 1
        BY <1>1, <3>1, <4>1
      <4>2. CASE i < j - 1
        BY <1>1, <3>1, <4>2 DEF n
      <4> QED BY <1>1, <3>1, <4>1, <4>2
    <3>3. key < b[i] /\ b[j - 1] <= key
      BY <1>1, <1>6, <2>1, <3>1
    <3> HIDE DEF T
    <3> QED BY <3>2, <3>3
  <2> QED BY <1>1, <1>6, <2>2, <2>3
<1>9. DOMAIN plan = 1 .. n + 1 /\ Selects(plan[i], key)
  BY <1>2, <1>4, <1>6, <1>7
<1>10. ExactlyOnce(plan, key)
  BY <1>6, <1>8, <1>9, SelectedOnce
<1>11. plan \in Seq(ChunkType)
  BY <1>1, <1>2, <1>3
<1> QED BY <1>10, <1>11 DEF plan

-----------------------------------------------------------------------------
(* Buckets. *)

\* Every key there is falls into one bucket.
LEMMA HashPartition ==
  ASSUME NEW buckets \in Nat \ {0}, NEW key \in Int
  PROVE  PlanHash(buckets) \in Seq(ChunkType) /\ ExactlyOnce(PlanHash(buckets), key)
<1> DEFINE plan == PlanHash(buckets)
<1>1. plan = [i \in 1 .. buckets |-> Chunk("HASH_KEYSET", <<>>, <<>>, i - 1, buckets)]
  BY DEF PlanHash
<1>2. \A i \in 1 .. buckets : plan[i] \in ChunkType
  BY <1>1 DEF Chunk, ChunkType
<1>3. Bucket(key, buckets) \in 0 .. (buckets - 1)
  <2>1. key - MinInt \in Int
    BY Width
  <2> QED BY <2>1, DivFacts DEF Bucket
<1>4. \A i \in 1 .. buckets : Selects(plan[i], key) <=> Bucket(key, buckets) = i - 1
  BY <1>1 DEF Selects, Chunk
<1>5. Bucket(key, buckets) + 1 \in 1 .. buckets
  BY <1>3
<1>6. DOMAIN plan = 1 .. buckets
  BY <1>1
<1> HIDE DEF plan
<1>7. ExactlyOnce(plan, key)
  <2>1. Selects(plan[Bucket(key, buckets) + 1], key)
    BY <1>3, <1>4, <1>5
  <2>2. \A j \in DOMAIN plan : Selects(plan[j], key) => j = Bucket(key, buckets) + 1
    BY <1>3, <1>4, <1>6
  <2> QED BY <1>5, <1>6, <2>1, <2>2, SelectedOnce
<1>8. plan \in Seq(ChunkType)
  BY <1>1, <1>2 DEF plan
<1> QED BY <1>7, <1>8 DEF plan

-----------------------------------------------------------------------------
(* The planner. *)

LEMMA KeysetPartitions ==
  ASSUME NEW rows \in Int, NEW perChunk \in Nat \ {0}, NEW workers \in Int
  PROVE  DesiredKeysetPartitions(rows, perChunk, workers) \in Nat \ {0}
<1> DEFINE w == IF workers <= 0 THEN 1 ELSE workers
           byRows == Wrap(Wrap(rows + perChunk) - 1) \div perChunk
           byWorkers == Wrap(w * 4)
<1>1. Wrap(rows + perChunk) \in Int
  BY WrapFacts, Width DEF Words
<1>2. Wrap(Wrap(rows + perChunk) - 1) \in Int
  BY <1>1, WrapFacts, Width DEF Words
<1>3. byRows \in Int
  BY <1>2, DivFacts
<1>4. byWorkers \in Int
  <2>1. w * 4 \in Int
    OBVIOUS
  <2> QED BY <2>1, WrapFacts, Width DEF Words
<1>5. ~(perChunk <= 0)
  OBVIOUS
<1> HIDE DEF byRows, byWorkers, w
<1>6. DesiredKeysetPartitions(rows, perChunk, workers) =
        IF rows <= 0 THEN 1
        ELSE LET AtLeastOne(m) == IF m < 1 THEN 1 ELSE m
                 AtMost(m, bound) == IF m > bound THEN bound ELSE m
             IN AtMost(AtLeastOne(byRows), AtMost(AtLeastOne(byWorkers), 128))
  BY <1>5 DEF DesiredKeysetPartitions, byRows, byWorkers, w
<1> QED BY <1>3, <1>4, <1>6
\* A table has a first and a last key.
LEMMA FirstAndLast ==
  ASSUME NEW keys \in SUBSET Nat, IsFiniteSet(keys), keys # {}
  PROVE  /\ \E k \in keys : \A other \in keys : k <= other
         /\ \E k \in keys : \A other \in keys : k >= other
<1>1. \E k \in keys : \A other \in keys : k <= other
  BY NatMin
<1>2. Cardinality(keys) \in 1 .. Cardinality(keys)
  BY FS_CardinalityType, FS_EmptySet
<1> DEFINE last == KeyAt(keys, Cardinality(keys))
<1>3. keys \in SUBSET Int
  OBVIOUS
<1>4. last \in keys /\ Cardinality(Below(keys, last)) = Cardinality(keys) - 1
  BY <1>2, <1>3, KeysInOrder
<1> HIDE DEF last
<1>5. ASSUME NEW other \in keys PROVE last >= other
  <2> SUFFICES ASSUME last < other PROVE FALSE
    BY <1>3, <1>4
  <2>1. Cardinality(Below(keys, last)) < Cardinality(Below(keys, other))
        /\ Cardinality(Below(keys, other)) \in 0 .. (Cardinality(keys) - 1)
    BY <1>3, <1>4, RankGrows
  <2> QED BY <1>2, <1>4, <2>1
<1> QED BY <1>1, <1>4, <1>5

\* However a table is split, each of its keys is in exactly one chunk of the
\* plan, unless the plan is refused; keysets and buckets also hold the keys
\* that come later.
LEMMA PlansCover ==
  ASSUME NEW keys \in SUBSET (1 .. MaxInt), keys # {},
         NEW rows \in Words, NEW perChunk \in 1 .. MaxInt, NEW workers \in Nat \ {0},
         NEW strategy \in {"RANGE", "KEYSET", "HASH"},
         NEW plan \in Plans(strategy, keys, rows, perChunk, workers)
  PROVE  /\ plan \in Seq(ChunkType)
         /\ plan = Refused \/ \A key \in keys : ExactlyOnce(plan, key)
         /\ strategy # "RANGE" => \A key \in Int : ExactlyOnce(plan, key)
<1>1. MaxInt \in Nat /\ IsFiniteSet(keys) /\ keys \in SUBSET Nat /\ keys \in SUBSET Words
  <2>1. MaxInt \in Nat /\ MinInt <= 0 /\ MinInt \in Int
    BY Width
  <2>2. IsFiniteSet(1 .. MaxInt)
    BY <2>1, FS_Interval
  <2>3. keys \in SUBSET Words
    BY <2>1 DEF Words
  <2>4. IsFiniteSet(keys)
    BY <2>2, FS_Subset
  <2>5. keys \in SUBSET Nat
    BY <2>1
  <2> QED BY <2>1, <2>3, <2>4, <2>5
<1>2. perChunk \in Nat \ {0} /\ rows \in Int
  BY Width DEF Words
<1>3. CASE strategy = "RANGE"
  <2> DEFINE minPK == CHOOSE k \in keys : \A other \in keys : k <= other
             maxPK == CHOOSE k \in keys : \A other \in keys : k >= other
  <2>1. minPK \in keys /\ \A other \in keys : minPK <= other
    BY <1>1, FirstAndLast
  <2>2. maxPK \in keys /\ \A other \in keys : maxPK >= other
    BY <1>1, FirstAndLast
  <2>3. plan \in PlanIntegerRangeByRows(minPK, maxPK, rows, perChunk)
    BY <1>3 DEF Plans
  <2> HIDE DEF minPK, maxPK
  <2>4. minPK \in Words /\ maxPK \in Words /\ minPK <= maxPK
    BY <1>1, <2>1, <2>2
  <2>5. /\ plan \in Seq(ChunkType)
        /\ plan # Refused => \A key \in minPK .. maxPK : ExactlyOnce(plan, key)
    BY <2>3, <2>4, RangePlans
  <2>6. \A key \in keys : key \in minPK .. maxPK
    BY <1>1, <2>1, <2>2
  <2> QED BY <1>3, <2>5, <2>6
<1>4. CASE strategy = "KEYSET"
  <2> DEFINE n == DesiredKeysetPartitions(rows, perChunk, workers)
             b == PlanKeysetBoundaries(keys, n)
  <2>1. plan = PlanBoundedKeyset(b)
    BY <1>4 DEF Plans
  <2>2. n \in Nat \ {0}
    <3>1. rows \in Int /\ perChunk \in Nat \ {0} /\ workers \in Int
      BY <1>2
    <3> QED BY <3>1, KeysetPartitions, Zenon
  <2>3. keys \in SUBSET Int
    BY <1>1
  <2> HIDE DEF n
  <2>4. b \in Seq(Int) /\ \A i, j \in 1 .. Len(b) : i < j => b[i] < b[j]
    BY <1>1, <2>2, <2>3, Boundaries
  <2> HIDE DEF b
  <2>5. \A key \in Int : plan \in Seq(ChunkType) /\ ExactlyOnce(plan, key)
    BY <2>1, <2>4, KeysetPartition
  <2> QED BY <2>3, <2>5
<1>5. CASE strategy = "HASH"
  <2>1. plan = PlanHash(workers * 2) /\ workers * 2 \in Nat \ {0}
    BY <1>5 DEF Plans
  <2>2. \A key \in Int : plan \in Seq(ChunkType) /\ ExactlyOnce(plan, key)
    BY <2>1, HashPartition
  <2>3. keys \in SUBSET Int
    BY <1>1
  <2> QED BY <2>2, <2>3
<1> QED BY <1>3, <1>4, <1>5

(***************************************************************************)
(* For machine integers of every width, the chunks prepareTask plans for a *)
(* table (PlanIntegerRangeByRows, PlanBoundedKeyset, PlanHash) share out   *)
(* its keys, none left over and none in two of them, however wrong the     *)
(* estimate of its rows is and wherever sums of keys wrap; a range is      *)
(* refused only when its keys cannot be counted, and never falls into more *)
(* chunks than the estimate asks for.                                      *)
(***************************************************************************)
THEOREM PlanPartitionsCorrect == PlanPartitions
<1>1. ASSUME NEW minPK \in Words, NEW maxPK \in Words, NEW rows \in Words,
             NEW perChunk \in 1 .. MaxInt, minPK <= maxPK,
             NEW plan \in PlanIntegerRangeByRows(minPK, maxPK, rows, perChunk)
      PROVE  /\ plan = Refused <=> maxPK - minPK + 1 > MaxInt
             /\ plan # Refused => \A key \in minPK .. maxPK : ExactlyOnce(plan, key)
             /\ rows > 0 => Len(plan) * perChunk < rows + perChunk
  BY <1>1, RangePlans
<1>2. ASSUME NEW keys \in (SUBSET (1 .. MaxInt)) \ {{}}, NEW rows \in Words,
             NEW workers \in 1 .. 2, NEW strategy \in {"KEYSET", "HASH"},
             NEW plan \in Plans(strategy, keys, rows, 1, workers), NEW key \in Words
      PROVE  ExactlyOnce(plan, key)
  <2>1. 1 \in 1 .. MaxInt /\ key \in Int
    BY Width DEF Words
  <2>2. keys \in SUBSET (1 .. MaxInt) /\ keys # {} /\ workers \in Nat \ {0}
        /\ strategy \in {"RANGE", "KEYSET", "HASH"} /\ strategy # "RANGE"
    OBVIOUS
  <2> QED BY <2>1, <2>2, PlansCover
<1> QED BY <1>1, <1>2, Zenon DEF PlanPartitions

-----------------------------------------------------------------------------
(* The inductive invariant. *)

Ops == {"INSERT", "UPDATE", "MOVE", "DELETE", "TRUNCATE"}
Writing == {"INSERT", "UPDATE", "MOVE"}
Changes == [op : Ops, old : Keys \cup {0}, key : Keys \cup {0}, row : Nat]
Tables == [Keys -> Nat]
Batches == {<<>>} \cup UNION {[D -> Nat] : D \in SUBSET Keys}
Statuses == {"PREPARING", "PLANNING", "CDC_INITIALIZING", "FULL_MIGRATING",
             "CDC_CATCHING_UP", "FAILED"}

Steps == {"idle", "read", "write", "commit", "report"}
ChunkRecords ==
  [chunk : ChunkType, status : {"PENDING", "RUNNING", "SUCCESS"},
   holder : Workers \cup {NoWorker}, after : Nat]
SlotRecords == [chunk : Nat, step : Steps, after : Nat, rows : Batches]

TypeOK ==
  /\ scenario \in Scenarios
  /\ changes \in Seq(Changes)
  /\ tables \in Seq(Tables) /\ Len(tables) = Now + 1
  /\ visible \in 0 .. Now
  /\ task \in [status : Statuses, start : 0 .. Now, applied : 0 .. Now]
  /\ task.start <= task.applied
  /\ chunks \in Seq(ChunkRecords)
  /\ slots \in [Workers -> SlotRecords]
  /\ \A w \in Workers :
       /\ slots[w].step # "idle" => slots[w].chunk \in DOMAIN chunks
       /\ slots[w].step \in {"write", "commit"} => DOMAIN slots[w].rows # {}
  /\ target \in Tables
  /\ reclaims \in Nat /\ late \in BOOLEAN

\* A change touches the row of a key.
Touches(c, k) == c.op = "TRUNCATE" \/ k \in {c.old, c.key}

\* A change behind the i-th touches the row.
TouchedAfter(i, k) == \E j \in i + 1 .. Now : Touches(changes[j], k)

\* What a client can have asked for as the i-th change.
FormedAt(c, i) ==
  /\ c.op # "TRUNCATE" => c.key \in Keys /\ c.old \in Keys
  /\ c.op \in {"INSERT", "UPDATE", "DELETE"} => c.old = c.key
  /\ c.op \in Writing => c.row = i + 1

\* The change a row is named by is one of its key.
Named(k, row) ==
  row \in {NoRow, 1} \/ (row - 1 \in 1 .. Now /\ changes[row - 1].key = k)

\* The source went from one table to the next by its changes; a row that is no
\* more touched is what it is now.
SourceFine ==
  /\ \A i \in 1 .. Now :
       /\ changes[i].op \in scenario.ops /\ FormedAt(changes[i], i)
       /\ tables[i + 1] = Effect(tables[i], changes[i])
  /\ \A i \in 1 .. Now + 1, k \in Keys : Named(k, tables[i][k])
  /\ \A i \in 0 .. Now, k \in Keys : TouchedAfter(i, k) \/ tables[i + 1][k] = Source[k]

\* Rows that are copied and rows to be written are rows the source has had.
RowsNamed ==
  /\ \A k \in Keys : Named(k, target[k])
  /\ \A w \in Workers : \A k \in DOMAIN slots[w].rows : Named(k, slots[w].rows[k])

\* The changes to come make up for a row that has been touched.
Settled(k) == TouchedAfter(task.start, k) \/ target[k] = Source[k]

\* Nothing has been copied while the task is being prepared.
PreparationFine ==
  /\ task.status # "CDC_CATCHING_UP" => task.applied = task.start
  /\ task.status \in {"PREPARING", "PLANNING", "CDC_INITIALIZING", "FAILED"} =>
       /\ \A w \in Workers : slots[w] = Idle
       /\ \A k \in Keys : target[k] = NoRow
       /\ \A i \in DOMAIN chunks : chunks[i].status = "PENDING" /\ chunks[i].after = 0

\* The plan holds every row that no change to come makes up for.
PlanFine ==
  task.status \in {"CDC_INITIALIZING", "FULL_MIGRATING"} =>
    \A k \in Keys :
      \/ TouchedAfter(task.start, k) \/ Source[k] = NoRow
      \/ \E i \in DOMAIN chunks : Selects(chunks[i].chunk, k)

\* What a worker has left behind it is settled, whoever holds the chunk now.
SlotFine(w) ==
  LET chunk == chunks[slots[w].chunk].chunk
      rows == slots[w].rows
  IN CASE slots[w].step = "idle" -> TRUE
       [] slots[w].step = "read" ->
            \A k \in Keys : Selects(chunk, k) /\ k <= slots[w].after => Settled(k)
       [] slots[w].step = "write" ->
            /\ \A k \in DOMAIN rows : TouchedAfter(task.start, k) \/ rows[k] = Source[k]
            /\ \A k \in Keys, j \in DOMAIN rows :
                 Selects(chunk, k) /\ k <= j => k \in DOMAIN rows \/ Settled(k)
       [] slots[w].step = "commit" ->
            \A k \in Keys, j \in DOMAIN rows : Selects(chunk, k) /\ k <= j => Settled(k)
       [] slots[w].step = "report" ->
            \A k \in Keys : Selects(chunk, k) => Settled(k)

CopyFine ==
  task.status = "FULL_MIGRATING" =>
    /\ \A k \in Keys : target[k] = NoRow \/ Settled(k)
    /\ \A i \in DOMAIN chunks, k \in Keys :
         /\ Selects(chunks[i].chunk, k)
         /\ chunks[i].status = "SUCCESS" \/ k <= chunks[i].after
         => Settled(k)
    /\ \A w \in Workers : SlotFine(w)

IInv == /\ TypeOK /\ SourceFine /\ RowsNamed /\ PreparationFine /\ PlanFine
        /\ CopyFine /\ TargetFollowsSource

\* Commits before the position are visible by the time of the first query, and
\* a conflict policy that looks at versions has versions that tell all changes
\* apart and no changes of the key.
Followed(s) ==
  /\ s.visible # "late"
  /\ s.conflict = "LAST_WRITE_WINS" => "MOVE" \notin s.ops /\ s.tick = 1

-----------------------------------------------------------------------------
(* Lemmas. *)

LEMMA KeysAreNumbers ==
  /\ IsFiniteSet(Keys) /\ Keys \in SUBSET Nat /\ 0 \notin Keys
  /\ \A D \in SUBSET Keys : IsFiniteSet(D) /\ D \in SUBSET Nat
<1>1. MaxInt \in Int
  BY Width
<1>2. IsFiniteSet(1 .. MaxInt)
  BY <1>1, FS_Interval
<1>3. IsFiniteSet(Keys)
  BY <1>2, KeysAssumption, FS_Subset
<1>4. \A k \in Keys : k \in Nat /\ k # 0
  BY KeysAssumption
<1>5. \A D \in SUBSET Keys : IsFiniteSet(D)
  BY <1>3, FS_Subset
<1> QED BY <1>3, <1>4, <1>5

\* The last key of a batch.
LEMMA LastKey ==
  ASSUME NEW D \in SUBSET Keys, D # {}
  PROVE  LET last == CHOOSE k \in D : \A j \in D : j <= k
         IN last \in D /\ last \in Nat /\ \A j \in D : j <= last
<1>1. D \in SUBSET Nat /\ IsFiniteSet(D)
  BY KeysAreNumbers
<1>2. PICK k \in D : \A other \in D : k >= other
  BY <1>1, FirstAndLast
<1>3. \A other \in D : other <= k
  BY <1>1, <1>2
<1>4. \E m \in D : \A j \in D : j <= m
  BY <1>3
<1> QED BY <1>1, <1>4

LEMMA BatchType ==
  ASSUME NEW rows \in Batches
  PROVE  DOMAIN rows \in SUBSET Keys /\ \A k \in DOMAIN rows : rows[k] \in Nat
<1>1. CASE rows = <<>>
  BY <1>1
<1>2. CASE rows \in UNION {[D -> Nat] : D \in SUBSET Keys}
  BY <1>2
<1> QED BY <1>1, <1>2 DEF Batches

LEMMA VersionOfRow ==
  ASSUME NEW row \in Nat, scenario.tick = 1
  PROVE  Version(row) = row
<1>1. row = 1 * row + 0 /\ 0 \in 0 .. (1 - 1) /\ 1 \in Nat \ {0} /\ row \in Int
  OBVIOUS
<1>2. row \div 1 = row
  BY <1>1, DivUnique
<1> QED BY <1>2 DEF Version

\* A change sets the rows it touches whatever they were, and no others.
LEMMA EffectFacts ==
  ASSUME NEW table \in Tables, NEW c \in Changes, NEW i \in Nat, FormedAt(c, i)
  PROVE  /\ Effect(table, c) \in Tables
         /\ \A k \in Keys : ~Touches(c, k) => Effect(table, c)[k] = table[k]
         /\ \A k \in Keys : Touches(c, k) =>
              Effect(table, c)[k] = IF c.op \in Writing /\ k = c.key THEN c.row ELSE NoRow
<1>1. CASE c.op = "TRUNCATE"
  <2>1. Effect(table, c) = [k \in Keys |-> NoRow]
    BY <1>1 DEF Effect
  <2> QED BY <1>1, <2>1 DEF Tables, NoRow, Touches, Writing
<1>2. CASE c.op = "DELETE"
  <2>1. Effect(table, c) = [table EXCEPT ![c.key] = NoRow]
    BY <1>2 DEF Effect
  <2>2. c.key \in Keys /\ c.old = c.key
    BY <1>2 DEF FormedAt
  <2> QED BY <1>2, <2>1, <2>2 DEF Tables, NoRow, Touches, Writing
<1>3. CASE c.op \in Writing
  <2>1. Effect(table, c) = [table EXCEPT ![c.old] = NoRow, ![c.key] = c.row]
    BY <1>3 DEF Effect, Writing
  <2>2. c.key \in Keys /\ c.old \in Keys /\ c.row \in Nat
    BY <1>3 DEF FormedAt, Writing, Changes
  <2> QED BY <1>3, <2>1, <2>2 DEF Tables, NoRow, Touches, Writing
<1> QED BY <1>1, <1>2, <1>3 DEF Changes, Ops, Writing

LEMMA PossibleFacts ==
  ASSUME TypeOK, NEW c \in Possible
  PROVE  c \in Changes /\ FormedAt(c, Now + 1)
<1>1. Now \in Nat /\ Now + 2 = (Now + 1) + 1
  BY DEF TypeOK, Now
<1>2. \/ \E k \in Keys : c = Change("INSERT", k, k, Now + 2)
      \/ \E k \in Keys : c = Change("UPDATE", k, k, Now + 2)
      \/ \E old, k \in Keys : c = Change("MOVE", old, k, Now + 2)
      \/ \E k \in Keys : c = Change("DELETE", k, k, NoRow)
      \/ c = Change("TRUNCATE", 0, 0, NoRow)
  BY DEF Possible
<1> QED BY <1>1, <1>2 DEF Change, Changes, Ops, NoRow, FormedAt, Writing

LEMMA SourceTyped ==
  ASSUME TypeOK
  PROVE  /\ Now \in Nat /\ Source \in Tables /\ Seen \in Tables
         /\ \A i \in 0 .. Now : tables[i + 1] \in Tables
         /\ \A i \in 1 .. Now : changes[i] \in Changes
<1>1. Now \in Nat
  BY DEF TypeOK, Now
<1>2. \A i \in 0 .. Now : tables[i + 1] \in Tables
  BY <1>1 DEF TypeOK
<1>3. Source \in Tables /\ Seen \in Tables
  BY <1>1, <1>2 DEF TypeOK, Source, Seen
<1>4. \A i \in 1 .. Now : changes[i] \in Changes
  BY DEF TypeOK, Now
<1> QED BY <1>1, <1>2, <1>3, <1>4

LEMMA UnsettledIs ==
  \A k : Unsettled(k) <=> TouchedAfter(task.applied, k)
BY DEF Unsettled, TouchedAfter, Touches

\* Fewer changes touch a row behind a later change.
LEMMA TouchedLater ==
  ASSUME TypeOK, NEW i \in Nat, NEW j \in Nat, i <= j, NEW k, TouchedAfter(j, k)
  PROVE  TouchedAfter(i, k)
<1>1. PICK n \in j + 1 .. Now : Touches(changes[n], k)
  BY DEF TouchedAfter
<1>2. n \in i + 1 .. Now
  BY SourceTyped
<1> QED BY <1>1, <1>2 DEF TouchedAfter

\* What a query sees of a row that has not been touched since the position.
LEMMA SeenIsSource ==
  ASSUME TypeOK, SourceFine, Followed(scenario), ReadersSee, NEW k \in Keys,
         ~TouchedAfter(task.start, k)
  PROVE  Seen[k] = Source[k]
<1>1. visible >= task.start /\ visible \in 0 .. Now /\ task.start \in Nat
  BY SourceTyped DEF TypeOK, ReadersSee, Followed
<1>2. ~TouchedAfter(visible, k)
  BY <1>1, SourceTyped, TouchedLater
<1> QED BY <1>1, <1>2 DEF SourceFine, Seen

\* While the source stays as it is, so does what is said of it.
LEMMA SourceKept ==
  ASSUME UNCHANGED <<scenario, tables, changes>>
  PROVE  /\ Now' = Now /\ Source' = Source
         /\ \A i, k : TouchedAfter(i, k)' <=> TouchedAfter(i, k)
         /\ \A k, r : Named(k, r)' <=> Named(k, r)
         /\ SourceFine => SourceFine'
<1>1. scenario' = scenario /\ tables' = tables /\ changes' = changes
  OBVIOUS
<1>2. Now' = Now /\ Source' = Source
  BY <1>1 DEF Now, Source
<1>3. \A i, k : TouchedAfter(i, k)' <=> TouchedAfter(i, k)
  BY <1>1, <1>2 DEF TouchedAfter
<1>4. \A k, r : Named(k, r)' <=> Named(k, r)
  BY <1>1, <1>2 DEF Named
<1>5. SourceFine => SourceFine'
  BY <1>1, <1>2, <1>3, <1>4 DEF SourceFine
<1> QED BY <1>2, <1>3, <1>4, <1>5

-----------------------------------------------------------------------------
(* The initial states. *)

LEMMA InitHolds ==
  ASSUME Init PROVE IInv
<1> USE DEF Init
<1>1. Now = 0 /\ Len(tables) = 1 /\ tables \in Seq(Tables) /\ changes \in Seq(Changes)
  <2>1. [k \in Keys |-> IF k \in scenario.rows THEN 1 ELSE NoRow] \in Tables
    BY DEF Tables, NoRow
  <2> QED BY <2>1 DEF Now
<1>2. <<>> \in Batches
  BY DEF Batches
<1>3. TypeOK
  <2>1. task \in [status : Statuses, start : 0 .. Now, applied : 0 .. Now] /\ task.start <= task.applied
    BY <1>1 DEF Statuses
  <2>2. slots \in [Workers -> SlotRecords]
    BY <1>2 DEF Idle, SlotRecords, Steps
  <2>3. \A w \in Workers : slots[w].step = "idle"
    BY DEF Idle
  <2>4. target \in Tables
    BY DEF Tables, NoRow
  <2>5. visible \in 0 .. Now /\ chunks \in Seq(ChunkRecords) /\ Len(tables) = Now + 1
    BY <1>1
  <2>6. scenario \in Scenarios /\ reclaims \in Nat /\ late \in BOOLEAN
    OBVIOUS
  <2> HIDE DEF Init
  <2> QED BY <1>1, <2>1, <2>2, <2>3, <2>4, <2>5, <2>6 DEF TypeOK
<1>4. SourceFine
  <2>1. \A k \in Keys : tables[1][k] \in {NoRow, 1}
    BY DEF NoRow
  <2>2. Source = tables[1]
    BY <1>1 DEF Source
  <2> QED BY <1>1, <2>1, <2>2 DEF SourceFine, Named
<1>5. RowsNamed
  BY DEF RowsNamed, Named, Idle
<1>6. PreparationFine
  BY DEF PreparationFine
<1>7. PlanFine /\ CopyFine /\ TargetFollowsSource
  BY DEF PlanFine, CopyFine, TargetFollowsSource
<1> QED BY <1>3, <1>4, <1>5, <1>6, <1>7 DEF IInv

-----------------------------------------------------------------------------
(* The source. *)

LEMMA CommitKeeps ==
  ASSUME IInv, Commit PROVE IInv'
<1> USE DEF IInv
<1>1. PICK c \in Possible : /\ c.op \in scenario.ops
                            /\ changes' = Append(changes, c)
                            /\ tables' = Append(tables, Effect(Source, c))
  BY DEF Commit
<1>2. UNCHANGED <<scenario, task, chunks, slots, target, reclaims, late>>
      /\ visible' \in {visible, Now + 1}
  BY DEF Commit
<1>3. Now \in Nat /\ Source \in Tables /\ c \in Changes /\ FormedAt(c, Now + 1)
  BY SourceTyped, PossibleFacts
<1>4. /\ Effect(Source, c) \in Tables
      /\ \A k \in Keys : ~Touches(c, k) => Effect(Source, c)[k] = Source[k]
      /\ \A k \in Keys : Touches(c, k) =>
           Effect(Source, c)[k] = IF c.op \in Writing /\ k = c.key THEN c.row ELSE NoRow
  BY <1>3, EffectFacts
<1>5. /\ changes' \in Seq(Changes) /\ Now' = Now + 1
      /\ changes'[Now + 1] = c /\ \A i \in 1 .. Now : changes'[i] = changes[i]
  BY <1>1, <1>3 DEF TypeOK, Now
<1>6. /\ tables' \in Seq(Tables) /\ Len(tables') = Now' + 1
      /\ tables'[Now + 2] = Effect(Source, c)
      /\ \A i \in 1 .. Now + 1 : tables'[i] = tables[i]
  BY <1>1, <1>3, <1>4, <1>5 DEF TypeOK
<1>7. Source' = Effect(Source, c)
  BY <1>3, <1>5, <1>6 DEF Source
<1>8. \A i \in 0 .. Now : \A k : TouchedAfter(i, k)' <=> TouchedAfter(i, k) \/ Touches(c, k)
  BY <1>3, <1>5 DEF TouchedAfter
<1>9. \A k, r : Named(k, r) => Named(k, r)'
  BY <1>3, <1>5 DEF Named
<1>10. TypeOK'
  <2>1. visible' \in 0 .. Now'
    BY <1>2, <1>3, <1>5 DEF TypeOK
  <2>2. task' \in [status : Statuses, start : 0 .. Now', applied : 0 .. Now']
        /\ task'.start <= task'.applied
    BY <1>2, <1>3, <1>5 DEF TypeOK
  <2> QED BY <1>2, <1>5, <1>6, <2>1, <2>2 DEF TypeOK
<1>11. SourceFine'
  <2>1. ASSUME NEW i \in 1 .. Now'
        PROVE  /\ changes'[i].op \in scenario'.ops /\ FormedAt(changes'[i], i)
               /\ tables'[i + 1] = Effect(tables'[i], changes'[i])
    <3>1. CASE i \in 1 .. Now
      <4>1. i \in 1 .. Now + 1 /\ i + 1 \in 1 .. Now + 1
        BY <1>3, <3>1
      <4> QED BY <1>2, <1>5, <1>6, <3>1, <4>1 DEF SourceFine
    <3>2. CASE i = Now + 1
      <4>1. tables'[Now + 1] = Source /\ (Now + 1) + 1 = Now + 2
        BY <1>3, <1>6 DEF Source
      <4> QED BY <1>1, <1>2, <1>3, <1>5, <1>6, <3>2, <4>1
    <3> QED BY <1>3, <1>5, <3>1, <3>2
  <2>2. ASSUME NEW i \in 1 .. Now' + 1, NEW k \in Keys
        PROVE  Named(k, tables[i][k])'
    <3>1. CASE i \in 1 .. Now + 1
      BY <1>6, <1>9, <3>1 DEF SourceFine
    <3>2. CASE i = Now + 2
      <4>1. CASE ~Touches(c, k)
        <5>1. tables'[i][k] = tables[Now + 1][k] /\ Now + 1 \in 1 .. Now + 1
          BY <1>3, <1>4, <1>6, <3>2, <4>1 DEF Source
        <5> QED BY <1>9, <5>1 DEF SourceFine
      <4>2. CASE Touches(c, k)
        <5>1. tables'[i][k] = IF c.op \in Writing /\ k = c.key THEN c.row ELSE NoRow
          BY <1>4, <1>6, <3>2, <4>2
        <5>2. CASE c.op \in Writing /\ k = c.key
          <6>1. tables'[i][k] = (Now + 1) + 1
            BY <1>3, <5>1, <5>2 DEF FormedAt
          <6>2. tables'[i][k] - 1 \in 1 .. Now' /\ changes'[tables'[i][k] - 1].key = k
            BY <1>3, <1>5, <5>2, <6>1
          <6> QED BY <6>2 DEF Named
        <5>3. CASE ~(c.op \in Writing /\ k = c.key)
          <6>1. tables'[i][k] = NoRow
            BY <5>1, <5>3
          <6> QED BY <6>1 DEF Named, NoRow
        <5> QED BY <5>2, <5>3
      <4> QED BY <4>1, <4>2
    <3> QED BY <1>3, <1>5, <3>1, <3>2
  <2>3. ASSUME NEW i \in 0 .. Now', NEW k \in Keys, ~TouchedAfter(i, k)'
        PROVE  tables'[i + 1][k] = Source'[k]
    <3>1. CASE i \in 0 .. Now
      <4>1. ~TouchedAfter(i, k) /\ ~Touches(c, k)
        BY <1>8, <2>3, <3>1
      <4>2. tables[i + 1][k] = Source[k] /\ i + 1 \in 1 .. Now + 1
        BY <1>3, <3>1, <4>1 DEF SourceFine
      <4> QED BY <1>4, <1>6, <1>7, <4>1, <4>2
    <3>2. CASE i = Now + 1
      <4>1. i + 1 = Now + 2
        BY <1>3, <3>2
      <4> QED BY <1>6, <1>7, <4>1
    <3> QED BY <1>3, <1>5, <3>1, <3>2
  <2> QED BY <2>1, <2>2, <2>3 DEF SourceFine
<1>12. RowsNamed'
  BY <1>2, <1>9 DEF RowsNamed
<1>13. PreparationFine'
  BY <1>2 DEF PreparationFine
<1>14. \A k \in Keys : Settled(k) => Settled(k)'
  <2>1. task.start \in 0 .. Now
    BY DEF TypeOK
  <2> QED BY <1>2, <1>4, <1>7, <1>8, <2>1 DEF Settled
<1>15. PlanFine'
  <2>1. task.start \in 0 .. Now
    BY DEF TypeOK
  <2> QED BY <1>2, <1>4, <1>7, <1>8, <2>1 DEF PlanFine
<1>16. CopyFine'
  <2> SUFFICES ASSUME task.status = "FULL_MIGRATING" PROVE CopyFine'
    BY <1>2 DEF CopyFine
  <2>1. \A k \in Keys : target'[k] = NoRow \/ Settled(k)'
    BY <1>2, <1>14 DEF CopyFine
  <2>2. \A i \in DOMAIN chunks', k \in Keys :
         /\ Selects(chunks'[i].chunk, k)
         /\ chunks'[i].status = "SUCCESS" \/ k <= chunks'[i].after
         => Settled(k)'
    BY <1>2, <1>14 DEF CopyFine
  <2>3. ASSUME NEW w \in Workers PROVE SlotFine(w)'
    <3>1. SlotFine(w) /\ slots[w].rows \in Batches
      BY DEF CopyFine, TypeOK, SlotRecords
    <3>2. DOMAIN slots[w].rows \in SUBSET Keys
      BY <3>1, BatchType
    <3>3. \A k \in DOMAIN slots[w].rows :
            TouchedAfter(task.start, k) \/ slots[w].rows[k] = Source[k]
            => TouchedAfter(task.start, k)' \/ slots[w].rows[k] = Source'[k]
      <4>1. task.start \in 0 .. Now
        BY DEF TypeOK
      <4> QED BY <1>2, <1>4, <1>7, <1>8, <3>2, <4>1
    <3>4. chunks' = chunks /\ slots' = slots
      BY <1>2
    <3>5. slots[w].step \in {"idle", "read", "write", "commit", "report"}
      BY DEF TypeOK, SlotRecords, Steps
    <3> HIDE DEF IInv
    <3>6. CASE slots[w].step = "write"
      BY <1>14, <3>1, <3>2, <3>3, <3>4, <3>6 DEF SlotFine
    <3>7. CASE slots[w].step # "write"
      BY <1>14, <3>1, <3>2, <3>4, <3>5, <3>7 DEF SlotFine
    <3> QED BY <3>6, <3>7
  <2> QED BY <2>1, <2>2, <2>3 DEF CopyFine
<1>17. TargetFollowsSource'
  <2>1. task.applied \in 0 .. Now
    BY DEF TypeOK
  <2>2. \A k \in Keys : TouchedAfter(task.applied, k) \/ target[k] = Source[k]
                       => TouchedAfter(task.applied, k)' \/ target[k] = Source'[k]
    BY <1>2, <1>4, <1>7, <1>8, <2>1
  <2>3. \A k : Unsettled(k)' <=> TouchedAfter(task.applied, k)'
    BY <1>2 DEF Unsettled, TouchedAfter, Touches
  <2> QED BY <1>2, <2>2, <2>3, UnsettledIs DEF TargetFollowsSource
<1> QED BY <1>10, <1>11, <1>12, <1>13, <1>15, <1>16, <1>17

LEMMA ShowKeeps ==
  ASSUME IInv, Show PROVE IInv'
<1> USE DEF IInv
<1>1. UNCHANGED <<scenario, tables, changes, task, chunks, slots, target, reclaims, late>>
  BY DEF Show
<1>2. /\ Now' = Now /\ Source' = Source
      /\ \A i, k : TouchedAfter(i, k)' <=> TouchedAfter(i, k)
      /\ \A k, r : Named(k, r)' <=> Named(k, r)
      /\ SourceFine'
  BY <1>1, SourceKept
<1>3. TypeOK'
  <2>1. visible' \in 0 .. Now
    BY SourceTyped DEF Show, TypeOK
  <2> QED BY <1>1, <1>2, <2>1 DEF TypeOK
<1>4. \A k : Settled(k)' <=> Settled(k)
  BY <1>1, <1>2 DEF Settled
<1>5. \A w : SlotFine(w)' <=> SlotFine(w)
  BY <1>1, <1>2, <1>4 DEF SlotFine
<1>6. CopyFine'
  BY <1>1, <1>4, <1>5 DEF CopyFine
<1>7. RowsNamed' /\ PreparationFine' /\ PlanFine'
  BY <1>1, <1>2 DEF RowsNamed, PreparationFine, PlanFine
<1>8. TargetFollowsSource'
  BY <1>1, <1>2 DEF TargetFollowsSource, Unsettled
<1> QED BY <1>2, <1>3, <1>6, <1>7, <1>8

-----------------------------------------------------------------------------
(* Preparation. *)

LEMMA CaptureKeeps ==
  ASSUME IInv, CapturePosition PROVE IInv'
<1> USE DEF IInv
<1>1. /\ UNCHANGED <<scenario, tables, changes, visible, chunks, slots, target, reclaims, late>>
      /\ task.status = "PREPARING"
      /\ task' = [task EXCEPT !.status = "PLANNING", !.start = Now, !.applied = Now]
  BY DEF CapturePosition, sourceVars
<1>2. /\ Now' = Now /\ Source' = Source
      /\ \A k, r : Named(k, r)' <=> Named(k, r)
      /\ SourceFine'
  BY <1>1, SourceKept
<1>3. /\ task' \in [status : Statuses, start : 0 .. Now, applied : 0 .. Now]
      /\ task'.status = "PLANNING" /\ task'.start = Now /\ task'.applied = Now
  <2>1. Now \in 0 .. Now
    BY SourceTyped
  <2> QED BY <1>1, <2>1 DEF TypeOK, Statuses
<1>4. TypeOK'
  <2>1. task'.start <= task'.applied
    BY <1>3, SourceTyped
  <2> QED BY <1>1, <1>2, <1>3, <2>1 DEF TypeOK
<1>5. RowsNamed'
  BY <1>1, <1>2 DEF RowsNamed
<1>6. PreparationFine'
  BY <1>1, <1>3 DEF PreparationFine
<1>7. PlanFine' /\ CopyFine' /\ TargetFollowsSource'
  BY <1>3 DEF PlanFine, CopyFine, TargetFollowsSource
<1> QED BY <1>2, <1>4, <1>5, <1>6, <1>7

LEMMA PlanTableKeeps ==
  ASSUME IInv, Followed(scenario), PlanTable PROVE IInv'
<1> USE DEF IInv
<1> DEFINE present == {k \in Keys : Seen[k] # NoRow}
<1>1. /\ UNCHANGED <<scenario, tables, changes, visible, slots, target, reclaims, late>>
      /\ task.status = "PLANNING" /\ ReadersSee
  BY DEF PlanTable, sourceVars
<1>2. /\ Now' = Now /\ Source' = Source
      /\ \A i, k : TouchedAfter(i, k)' <=> TouchedAfter(i, k)
      /\ \A k, r : Named(k, r)' <=> Named(k, r)
      /\ SourceFine'
  BY <1>1, SourceKept
<1>3. \E plan \in Seq(ChunkType) :
        /\ chunks' = [i \in DOMAIN plan |-> Pending(plan[i])]
        /\ \/ task' = [task EXCEPT !.status = "FAILED"]
           \/ /\ task' = [task EXCEPT !.status = "CDC_INITIALIZING"]
              /\ \A k \in present : \E i \in DOMAIN plan : Selects(plan[i], k)
  <2>1. CASE present = {}
    <3>1. chunks' = <<>> /\ task' = [task EXCEPT !.status = "CDC_INITIALIZING"]
      BY <2>1 DEF PlanTable
    <3>2. <<>> \in Seq(ChunkType) /\ DOMAIN <<>> = {}
      OBVIOUS
    <3>3. chunks' = [i \in DOMAIN <<>> |-> Pending(<<>>[i])]
      BY <3>1, <3>2
    <3> QED BY <2>1, <3>1, <3>2, <3>3
  <2>2. CASE present # {}
    <3>1. PICK plan \in Plans(scenario.strategy, present, scenario.estimate, 1, 1) :
            /\ chunks' = [i \in DOMAIN plan |-> Pending(plan[i])]
            /\ task' = [task EXCEPT !.status = IF plan = Refused THEN "FAILED"
                                               ELSE "CDC_INITIALIZING"]
      BY <2>2 DEF PlanTable
    <3>2. scenario.strategy \in {"RANGE", "KEYSET", "HASH"} /\ scenario.estimate \in Words
      BY ScenariosAssumption DEF TypeOK, ScenarioType
    <3>3. present \in SUBSET (1 .. MaxInt) /\ 1 \in 1 .. MaxInt /\ 1 \in Nat \ {0}
      <4>1. 1 \in 1 .. MaxInt
        BY Width
      <4>2. present \in SUBSET Keys
        OBVIOUS
      <4> HIDE DEF present
      <4> QED BY <4>1, <4>2, KeysAssumption
    <3> HIDE DEF present
    <3>4. /\ plan \in Seq(ChunkType)
          /\ plan = Refused \/ \A key \in present : ExactlyOnce(plan, key)
      BY <2>2, <3>2, <3>3, PlansCover
    <3>5. ASSUME plan # Refused, NEW k \in present
          PROVE  \E i \in DOMAIN plan : Selects(plan[i], k)
      <4>1. Cardinality({i \in DOMAIN plan : Selects(plan[i], k)}) = 1
        BY <3>4, <3>5 DEF ExactlyOnce
      <4>2. {i \in DOMAIN plan : Selects(plan[i], k)} # {}
        BY <4>1, FS_EmptySet
      <4> QED BY <4>2
    <3> QED BY <3>1, <3>4, <3>5
  <2> QED BY <2>1, <2>2
<1>4. PICK plan \in Seq(ChunkType) :
        /\ chunks' = [i \in DOMAIN plan |-> Pending(plan[i])]
        /\ \/ task' = [task EXCEPT !.status = "FAILED"]
           \/ /\ task' = [task EXCEPT !.status = "CDC_INITIALIZING"]
              /\ \A k \in present : \E i \in DOMAIN plan : Selects(plan[i], k)
  BY <1>3
<1> HIDE DEF present
<1>5. /\ task' \in [status : Statuses, start : 0 .. Now, applied : 0 .. Now]
      /\ task'.status \in {"FAILED", "CDC_INITIALIZING"}
      /\ task'.start = task.start /\ task'.applied = task.applied
      /\ task'.status = "CDC_INITIALIZING" =>
           \A k \in present : \E i \in DOMAIN plan : Selects(plan[i], k)
  BY <1>4 DEF TypeOK, Statuses
<1>6. /\ chunks' \in Seq(ChunkRecords) /\ DOMAIN chunks' = DOMAIN plan
      /\ \A i \in DOMAIN plan : /\ chunks'[i].chunk = plan[i] /\ chunks'[i].status = "PENDING"
                                /\ chunks'[i].after = 0
  <2>1. \A i \in DOMAIN plan : Pending(plan[i]) \in ChunkRecords
    BY DEF Pending, ChunkRecords
  <2>2. DOMAIN plan = 1 .. Len(plan) /\ Len(plan) \in Nat
    OBVIOUS
  <2>3. chunks' \in Seq(ChunkRecords)
    BY <1>4, <2>1, <2>2
  <2> QED BY <1>4, <2>3 DEF Pending
<1>7. \A w \in Workers : slots[w] = Idle
  BY <1>1 DEF PreparationFine
<1>8. TypeOK'
  BY <1>1, <1>2, <1>5, <1>6, <1>7 DEF TypeOK, Idle
<1>9. RowsNamed'
  BY <1>1, <1>2 DEF RowsNamed
<1>10. PreparationFine'
  BY <1>1, <1>5, <1>6 DEF PreparationFine
<1>11. PlanFine'
  <2>1. ASSUME NEW k \in Keys, ~TouchedAfter(task.start, k), Source[k] # NoRow
        PROVE  k \in present
    BY <1>1, <2>1, SeenIsSource DEF present
  <2> QED BY <1>2, <1>5, <1>6, <2>1 DEF PlanFine
<1>12. CopyFine' /\ TargetFollowsSource'
  BY <1>5 DEF CopyFine, TargetFollowsSource
<1> QED BY <1>2, <1>8, <1>9, <1>10, <1>11, <1>12

LEMMA MarkKeeps ==
  ASSUME IInv, MarkCDCStarted PROVE IInv'
<1> USE DEF IInv
<1>1. /\ UNCHANGED <<scenario, tables, changes, visible, chunks, slots, target, reclaims, late>>
      /\ task.status = "CDC_INITIALIZING"
      /\ task' = [task EXCEPT !.status = IF chunks = <<>> THEN "CDC_CATCHING_UP"
                                         ELSE "FULL_MIGRATING"]
  BY DEF MarkCDCStarted, sourceVars
<1>2. /\ Now' = Now /\ Source' = Source
      /\ \A i, k : TouchedAfter(i, k)' <=> TouchedAfter(i, k)
      /\ \A k, r : Named(k, r)' <=> Named(k, r)
      /\ SourceFine'
  BY <1>1, SourceKept
<1>3. /\ task' \in [status : Statuses, start : 0 .. Now, applied : 0 .. Now]
      /\ task'.status = (IF chunks = <<>> THEN "CDC_CATCHING_UP" ELSE "FULL_MIGRATING")
      /\ task'.start = task.start /\ task'.applied = task.applied
  BY <1>1 DEF TypeOK, Statuses
<1>4. /\ \A w \in Workers : slots[w] = Idle
      /\ \A k \in Keys : target[k] = NoRow
      /\ \A i \in DOMAIN chunks : chunks[i].status = "PENDING" /\ chunks[i].after = 0
      /\ task.applied = task.start
  BY <1>1 DEF PreparationFine
<1>5. TypeOK'
  BY <1>1, <1>2, <1>3 DEF TypeOK
<1>6. RowsNamed'
  BY <1>1, <1>2 DEF RowsNamed
<1>7. PreparationFine'
  BY <1>3, <1>4 DEF PreparationFine
<1>8. PlanFine'
  BY <1>1, <1>2, <1>3 DEF PlanFine
<1>9. CopyFine'
  <2>1. \A k \in Keys : k \in Nat /\ k # 0 /\ ~(k <= 0)
    BY KeysAreNumbers
  <2>2. ASSUME NEW w \in Workers PROVE SlotFine(w)'
    <3>1. slots'[w].step = "idle"
      BY <1>1, <1>4 DEF Idle
    <3> QED BY <3>1 DEF SlotFine
  <2> QED BY <1>1, <1>4, <2>1, <2>2 DEF CopyFine
<1>10. TargetFollowsSource'
  <2> SUFFICES ASSUME chunks = <<>>, NEW k \in Keys PROVE (Unsettled(k) \/ target[k] = Source[k])'
    BY <1>3 DEF TargetFollowsSource
  <2>1. TouchedAfter(task.start, k) \/ Source[k] = NoRow
    BY <1>1 DEF PlanFine
  <2>2. Unsettled(k)' <=> TouchedAfter(task.start, k)
    BY <1>1, <1>2, <1>3, <1>4 DEF Unsettled, TouchedAfter, Touches
  <2> QED BY <1>1, <1>2, <1>4, <2>1, <2>2
<1> QED BY <1>2, <1>5, <1>6, <1>7, <1>8, <1>9, <1>10

-----------------------------------------------------------------------------
(* The copy. *)

\* What another worker has settled stays so.
LEMMA OtherSlot ==
  ASSUME UNCHANGED <<scenario, tables, changes>>, task'.start = task.start,
         NEW v \in Workers, TypeOK, SlotFine(v), slots'[v] = slots[v],
         slots[v].step # "idle" => chunks'[slots[v].chunk].chunk = chunks[slots[v].chunk].chunk,
         \A k \in Keys : Settled(k) => Settled(k)'
  PROVE  SlotFine(v)'
<1>1. /\ Source' = Source
      /\ \A k : TouchedAfter(task.start, k)' <=> TouchedAfter(task.start, k)
  BY SourceKept
<1>2. slots[v].step \in Steps /\ slots[v].rows \in Batches
  BY DEF TypeOK, SlotRecords
<1>3. CASE slots[v].step = "idle"
  BY <1>3 DEF SlotFine
<1>4. CASE slots[v].step = "read"
  BY <1>4 DEF SlotFine
<1>5. CASE slots[v].step = "write"
  <2>1. DOMAIN slots[v].rows \in SUBSET Keys
    BY <1>2, BatchType
  <2> QED BY <1>1, <1>5, <2>1 DEF SlotFine
<1>6. CASE slots[v].step = "commit"
  BY <1>6 DEF SlotFine
<1>7. CASE slots[v].step = "report"
  BY <1>7 DEF SlotFine
<1> QED BY <1>2, <1>3, <1>4, <1>5, <1>6, <1>7 DEF Steps

\* Nothing is settled or unsettled while neither the source nor the target
\* changes.
LEMMA SettledKept ==
  ASSUME UNCHANGED <<scenario, tables, changes, target>>, task'.start = task.start
  PROVE  \A k : Settled(k)' <=> Settled(k)
<1>1. /\ Source' = Source
      /\ \A k : TouchedAfter(task.start, k)' <=> TouchedAfter(task.start, k)
  BY SourceKept
<1> QED BY <1>1 DEF Settled

LEMMA FollowKept ==
  ASSUME UNCHANGED <<scenario, tables, changes, target, late>>, TargetFollowsSource,
         task' = task
  PROVE  TargetFollowsSource'
<1>1. Source' = Source /\ Now' = Now
  BY SourceKept
<1> QED BY <1>1 DEF TargetFollowsSource, Unsettled

\* No worker is at work before the copy begins.
LEMMA WorkingLater ==
  ASSUME IInv, NEW w \in Workers, slots[w].step # "idle"
  PROVE  /\ task.status \in {"FULL_MIGRATING", "CDC_CATCHING_UP"}
         /\ slots[w].chunk \in DOMAIN chunks
         /\ chunks[slots[w].chunk] \in ChunkRecords
<1>1. task.status \in Statuses /\ slots[w].chunk \in DOMAIN chunks
  BY DEF IInv, TypeOK
<1>2. chunks[slots[w].chunk] \in ChunkRecords
  BY <1>1 DEF IInv, TypeOK
<1>3. slots[w] # Idle
  BY DEF Idle
<1> QED BY <1>1, <1>2, <1>3 DEF IInv, PreparationFine, Statuses

LEMMA ClaimKeeps ==
  ASSUME IInv, NEW w \in Workers, ClaimChunk(w) PROVE IInv'
<1> USE DEF IInv
<1>1. PICK i \in DOMAIN chunks :
        /\ chunks[i].status = "PENDING"
        /\ chunks' = [chunks EXCEPT ![i].status = "RUNNING", ![i].holder = w]
        /\ slots' = [slots EXCEPT ![w] = [Idle EXCEPT !.chunk = i, !.step = "read",
                                                      !.after = chunks[i].after]]
  BY DEF ClaimChunk
<1>2. /\ UNCHANGED <<scenario, tables, changes, visible, task, target, reclaims, late>>
      /\ task.status = "FULL_MIGRATING"
  BY DEF ClaimChunk, sourceVars
<1>3. /\ Now' = Now /\ Source' = Source
      /\ \A j, k : TouchedAfter(j, k)' <=> TouchedAfter(j, k)
      /\ \A k, r : Named(k, r)' <=> Named(k, r)
      /\ SourceFine'
  BY <1>2, SourceKept
<1>4. /\ chunks \in Seq(ChunkRecords) /\ chunks[i] \in ChunkRecords
      /\ \A j \in DOMAIN chunks : chunks[j] \in ChunkRecords
  BY DEF TypeOK
<1>5. /\ chunks' \in Seq(ChunkRecords) /\ DOMAIN chunks' = DOMAIN chunks
      /\ \A j \in DOMAIN chunks : /\ chunks'[j].chunk = chunks[j].chunk
                                  /\ chunks'[j].after = chunks[j].after
                                  /\ chunks'[j].status = "SUCCESS" => chunks[j].status = "SUCCESS"
  <2> DEFINE r == [chunks[i] EXCEPT !.status = "RUNNING", !.holder = w]
  <2>1. chunks' = [chunks EXCEPT ![i] = r]
    BY <1>1, <1>4 DEF ChunkRecords
  <2>2. r \in ChunkRecords /\ r.chunk = chunks[i].chunk /\ r.after = chunks[i].after
        /\ r.status = "RUNNING"
    BY <1>4 DEF ChunkRecords
  <2> HIDE DEF r
  <2> QED BY <1>4, <2>1, <2>2
<1>6. /\ slots'[w] = [chunk |-> i, step |-> "read", after |-> chunks[i].after, rows |-> <<>>]
      /\ \A v \in Workers : v # w => slots'[v] = slots[v]
  BY <1>1 DEF TypeOK, Idle
<1>7. TypeOK'
  <2>1. i \in Nat /\ <<>> \in Batches /\ chunks[i].after \in Nat
    BY <1>4 DEF Batches, ChunkRecords
  <2>2. slots' \in [Workers -> SlotRecords]
    <3>1. slots'[w] \in SlotRecords
      BY <1>6, <2>1 DEF SlotRecords, Steps
    <3> QED BY <1>1, <3>1, <1>6 DEF TypeOK
  <2>3. \A v \in Workers :
          /\ slots'[v].step # "idle" => slots'[v].chunk \in DOMAIN chunks'
          /\ slots'[v].step \in {"write", "commit"} => DOMAIN slots'[v].rows # {}
    BY <1>5, <1>6 DEF TypeOK
  <2> QED BY <1>2, <1>3, <1>5, <2>2, <2>3 DEF TypeOK
<1>8. RowsNamed'
  BY <1>2, <1>3, <1>6 DEF RowsNamed
<1>9. PreparationFine' /\ PlanFine'
  BY <1>2, <1>3, <1>5 DEF PreparationFine, PlanFine
<1>10. CopyFine'
  <2>1. \A k : Settled(k)' <=> Settled(k)
    BY <1>2, SettledKept
  <2>2. ASSUME NEW v \in Workers PROVE SlotFine(v)'
    <3>1. CASE v = w
      <4>1. \A k \in Keys : Selects(chunks[i].chunk, k) /\ k <= chunks[i].after => Settled(k)
        BY <1>2 DEF CopyFine
      <4>2. /\ slots'[w].step = "read" /\ slots'[w].chunk = i
            /\ slots'[w].after = chunks[i].after /\ chunks'[i].chunk = chunks[i].chunk
        BY <1>5, <1>6
      <4> HIDE DEF IInv
      <4> QED BY <2>1, <3>1, <4>1, <4>2 DEF SlotFine
    <3>2. CASE v # w
      <4>1. SlotFine(v) /\ slots'[v] = slots[v]
        BY <1>2, <1>6, <3>2 DEF CopyFine
      <4>2. slots[v].step # "idle" => slots[v].chunk \in DOMAIN chunks
        BY DEF TypeOK
      <4> QED BY <1>2, <1>5, <2>1, <4>1, <4>2, OtherSlot
    <3> QED BY <3>1, <3>2
  <2>3. \A k \in Keys : target'[k] = NoRow \/ Settled(k)'
    BY <1>2, <2>1 DEF CopyFine
  <2>4. \A j \in DOMAIN chunks', k \in Keys :
          /\ Selects(chunks'[j].chunk, k)
          /\ chunks'[j].status = "SUCCESS" \/ k <= chunks'[j].after
          => Settled(k)'
    BY <1>2, <1>5, <2>1 DEF CopyFine
  <2> QED BY <2>2, <2>3, <2>4 DEF CopyFine
<1>11. TargetFollowsSource'
  BY <1>2, FollowKept
<1> QED BY <1>3, <1>7, <1>8, <1>9, <1>10, <1>11

\* A batch is what a query returns of the chunk behind the cursor: the first
\* rows that are left, all of them only when none is left.
LEMMA BehindFacts ==
  ASSUME TypeOK, NEW w \in Workers
  PROVE  LET left == {k \in Keys : /\ Seen[k] # NoRow /\ k > slots[w].after
                                   /\ Selects(chunks[slots[w].chunk].chunk, k)}
         IN /\ Behind(w) \in Batches /\ DOMAIN Behind(w) \in SUBSET left
            /\ \A k \in DOMAIN Behind(w) : Behind(w)[k] = Seen[k]
            /\ \A k \in left, j \in DOMAIN Behind(w) : k <= j => k \in DOMAIN Behind(w)
            /\ Behind(w) = <<>> => left = {}
            /\ Behind(w) # <<>> => DOMAIN Behind(w) # {}
<1> DEFINE left == {k \in Keys : /\ Seen[k] # NoRow /\ k > slots[w].after
                                 /\ Selects(chunks[slots[w].chunk].chunk, k)}
           first == {k \in left : Cardinality({j \in left : j < k}) < BatchRows}
<1>1. Behind(w) = [k \in first |-> Seen[k]]
  BY DEF Behind
<1>2. left \in SUBSET Keys
  OBVIOUS
<1> HIDE DEF left
<1>3. left \in SUBSET Nat /\ IsFiniteSet(left) /\ left \in SUBSET Int
  BY <1>2, KeysAreNumbers
<1>4. \A k \in left : {j \in left : j < k} = Below(left, k)
  BY DEF Below
<1>5. BatchRows \in Nat \ {0}
  BY KeysAssumption
<1>6. \A k \in first : k \in left /\ Cardinality(Below(left, k)) < BatchRows
  BY <1>4
<1>7. \A k \in left : Cardinality(Below(left, k)) < BatchRows => k \in first
  BY <1>4
<1> HIDE DEF first
<1>8. DOMAIN Behind(w) = first /\ \A k \in first : Behind(w)[k] = Seen[k]
  BY <1>1
<1>9. Behind(w) \in Batches
  <2>1. first \in SUBSET Keys
    BY <1>2, <1>6
  <2>2. \A k \in first : Seen[k] \in Nat
    BY <2>1, SourceTyped DEF Tables
  <2>3. Behind(w) \in [first -> Nat]
    BY <1>1, <2>2
  <2> QED BY <2>1, <2>3 DEF Batches
<1>10. ASSUME NEW k \in left, NEW j \in first, k <= j PROVE k \in first
  <2>1. j \in left /\ Cardinality(Below(left, j)) < BatchRows
    BY <1>6
  <2>2. Cardinality(Below(left, k)) <= Cardinality(Below(left, j))
        /\ Cardinality(Below(left, k)) \in Int /\ Cardinality(Below(left, j)) \in Int
    <3>1. Cardinality(Below(left, k)) \in Int /\ Cardinality(Below(left, j)) \in Int
      BY <1>3, <2>1, RankGrows
    <3>2. k = j \/ k < j
      BY <1>3, <1>10, <2>1
    <3>3. k < j => Cardinality(Below(left, k)) < Cardinality(Below(left, j))
      BY <1>3, <2>1, RankGrows
    <3> QED BY <3>1, <3>2, <3>3
  <2>3. Cardinality(Below(left, k)) < BatchRows
    BY <1>5, <2>1, <2>2
  <2> QED BY <1>7, <2>3
<1>11. ASSUME left # {} PROVE first # {}
  <2>1. PICK k \in left : \A other \in left : k <= other
    BY <1>3, <1>11, FirstAndLast
  <2>2. Below(left, k) = {}
    <3>1. ASSUME NEW j \in Below(left, k) PROVE FALSE
      <4>1. j \in left /\ j < k /\ k <= j /\ j \in Int /\ k \in Int
        BY <1>3, <2>1 DEF Below
      <4> QED BY <4>1
    <3> QED BY <3>1
  <2>3. Cardinality(Below(left, k)) < BatchRows
    BY <1>5, <2>2, FS_EmptySet
  <2> QED BY <1>7, <2>3
<1>12. Behind(w) = <<>> <=> first = {}
  <2>1. Behind(w) = <<>> => first = {}
    BY <1>8
  <2>2. first = {} => Behind(w) = <<>>
    BY <1>1
  <2> QED BY <2>1, <2>2
<1>13. first \in SUBSET left
  BY <1>6
<1> QED BY <1>8, <1>9, <1>10, <1>11, <1>12, <1>13 DEF left

LEMMA ReadKeeps ==
  ASSUME IInv, Followed(scenario), NEW w \in Workers, ReadBatch(w) PROVE IInv'
<1> USE DEF IInv
<1> DEFINE i == slots[w].chunk
           left == {k \in Keys : Seen[k] # NoRow /\ k > slots[w].after /\ Selects(chunks[i].chunk, k)}
<1>1. /\ UNCHANGED <<scenario, tables, changes, visible, task, chunks, target, reclaims, late>>
      /\ slots[w].step = "read" /\ ReadersSee
      /\ slots' = [slots EXCEPT ![w].rows = Behind(w),
                                ![w].step = IF Behind(w) = <<>> THEN "report" ELSE "write"]
  BY DEF ReadBatch, sourceVars
<1>2. /\ Now' = Now /\ Source' = Source
      /\ \A j, k : TouchedAfter(j, k)' <=> TouchedAfter(j, k)
      /\ \A k, r : Named(k, r)' <=> Named(k, r)
      /\ SourceFine'
  BY <1>1, SourceKept
<1>3. i \in DOMAIN chunks /\ task.status \in {"FULL_MIGRATING", "CDC_CATCHING_UP"}
  BY <1>1, WorkingLater
<1>4. /\ Behind(w) \in Batches /\ DOMAIN Behind(w) \in SUBSET left
      /\ \A k \in DOMAIN Behind(w) : Behind(w)[k] = Seen[k]
      /\ \A k \in left, j \in DOMAIN Behind(w) : k <= j => k \in DOMAIN Behind(w)
      /\ Behind(w) = <<>> => left = {}
      /\ Behind(w) # <<>> => DOMAIN Behind(w) # {}
  BY BehindFacts
<1> HIDE DEF left
<1>5. /\ slots'[w].chunk = i /\ slots'[w].rows = Behind(w)
      /\ slots'[w].step = IF Behind(w) = <<>> THEN "report" ELSE "write"
      /\ slots' \in [Workers -> SlotRecords]
      /\ \A v \in Workers : v # w => slots'[v] = slots[v]
  <2> DEFINE r == [slots[w] EXCEPT !.rows = Behind(w),
                                   !.step = IF Behind(w) = <<>> THEN "report" ELSE "write"]
  <2>1. slots \in [Workers -> SlotRecords] /\ slots[w] \in SlotRecords
    BY DEF TypeOK
  <2>2. slots' = [slots EXCEPT ![w] = r]
    BY <1>1, <2>1 DEF SlotRecords
  <2>3. r \in SlotRecords /\ r.chunk = i /\ r.rows = Behind(w)
        /\ r.step = IF Behind(w) = <<>> THEN "report" ELSE "write"
    BY <1>4, <2>1 DEF SlotRecords, Steps
  <2> HIDE DEF r
  <2> QED BY <2>1, <2>2, <2>3
<1>6. TypeOK'
  <2>1. \A v \in Workers :
          /\ slots'[v].step # "idle" => slots'[v].chunk \in DOMAIN chunks'
          /\ slots'[v].step \in {"write", "commit"} => DOMAIN slots'[v].rows # {}
    <3>1. /\ slots'[w].chunk \in DOMAIN chunks'
          /\ slots'[w].step \in {"write", "commit"} => DOMAIN slots'[w].rows # {}
      BY <1>1, <1>3, <1>4, <1>5
    <3>2. ASSUME NEW v \in Workers, v # w
          PROVE  /\ slots'[v].step # "idle" => slots'[v].chunk \in DOMAIN chunks'
                 /\ slots'[v].step \in {"write", "commit"} => DOMAIN slots'[v].rows # {}
      BY <1>1, <1>5, <3>2 DEF TypeOK
    <3> QED BY <3>1, <3>2
  <2> QED BY <1>1, <1>2, <1>5, <2>1 DEF TypeOK
<1>7. RowsNamed'
  <2>1. \A k \in DOMAIN Behind(w) : Named(k, Behind(w)[k])
    <3>1. ASSUME NEW k \in DOMAIN Behind(w) PROVE Named(k, tables[visible + 1][k])
      <4>1. visible + 1 \in 1 .. Now + 1
        BY SourceTyped DEF TypeOK
      <4>2. k \in Keys
        BY <1>4 DEF left
      <4> QED BY <4>1, <4>2 DEF SourceFine
    <3> QED BY <1>4, <3>1 DEF Seen
  <2> QED BY <1>1, <1>2, <1>5, <2>1 DEF RowsNamed
<1>8. PreparationFine' /\ PlanFine'
  BY <1>1, <1>2, <1>3 DEF PreparationFine, PlanFine
<1>9. CopyFine'
  <2> SUFFICES ASSUME task.status = "FULL_MIGRATING" PROVE CopyFine'
    BY <1>1 DEF CopyFine
  <2>1. \A k : Settled(k)' <=> Settled(k)
    BY <1>1, SettledKept
  <2>2. ASSUME NEW k \in Keys, Selects(chunks[i].chunk, k), k \notin left PROVE Settled(k)
    <3>1. CASE k <= slots[w].after
      <4>1. SlotFine(w)
        BY DEF CopyFine
      <4> HIDE DEF IInv
      <4> QED BY <1>1, <2>2, <3>1, <4>1 DEF SlotFine
    <3>2. CASE ~(k <= slots[w].after)
      <4>1. k \in Nat /\ slots[w].after \in Nat
        BY KeysAreNumbers DEF TypeOK, SlotRecords
      <4>2. Seen[k] = NoRow
        BY <2>2, <3>2, <4>1 DEF left
      <4>3. ASSUME ~TouchedAfter(task.start, k) PROVE target[k] = Source[k]
        <5>1. Source[k] = NoRow
          BY <1>1, <4>2, <4>3, SeenIsSource
        <5> QED BY <4>3, <5>1 DEF CopyFine, Settled
      <4> QED BY <4>3 DEF Settled
    <3> QED BY <3>1, <3>2
  <2>3. SlotFine(w)'
    <3>1. CASE Behind(w) = <<>>
      <4>1. slots'[w].step = "report" /\ slots'[w].chunk = i /\ chunks' = chunks
        BY <1>1, <1>5, <3>1
      <4>2. \A k \in Keys : Selects(chunks[i].chunk, k) => Settled(k)'
        BY <1>4, <2>1, <2>2, <3>1
      <4> HIDE DEF IInv
      <4> QED BY <4>1, <4>2 DEF SlotFine
    <3>2. CASE Behind(w) # <<>>
      <4>1. slots'[w].step = "write" /\ slots'[w].chunk = i /\ slots'[w].rows = Behind(w)
            /\ chunks' = chunks
        BY <1>1, <1>5, <3>2
      <4>2. ASSUME NEW k \in DOMAIN Behind(w)
            PROVE  TouchedAfter(task.start, k)' \/ Behind(w)[k] = Source'[k]
        <5>1. k \in Keys
          BY <1>4 DEF left
        <5> QED BY <1>1, <1>2, <1>4, <5>1, SeenIsSource
      <4>3. ASSUME NEW k \in Keys, NEW j \in DOMAIN Behind(w), Selects(chunks[i].chunk, k), k <= j
            PROVE  k \in DOMAIN Behind(w) \/ Settled(k)'
        BY <1>4, <2>1, <2>2, <4>3
      <4> HIDE DEF IInv, i
      <4> QED BY <4>1, <4>2, <4>3 DEF SlotFine
    <3> QED BY <3>1, <3>2
  <2>4. ASSUME NEW v \in Workers, v # w PROVE SlotFine(v)'
    <3>1. SlotFine(v) /\ slots'[v] = slots[v]
      BY <1>5, <2>4 DEF CopyFine
    <3> QED BY <1>1, <2>1, <3>1, OtherSlot
  <2> QED BY <1>1, <2>1, <2>3, <2>4 DEF CopyFine
<1>10. TargetFollowsSource'
  BY <1>1, FollowKept
<1> QED BY <1>2, <1>6, <1>7, <1>8, <1>9, <1>10

LEMMA WriteKeeps ==
  ASSUME IInv, NEW w \in Workers, WriteBatch(w) PROVE IInv'
<1> USE DEF IInv
<1> DEFINE i == slots[w].chunk
           rows == slots[w].rows
<1>1. /\ UNCHANGED <<scenario, tables, changes, visible, task, chunks, reclaims>>
      /\ slots[w].step = "write"
      /\ target' = [k \in Keys |-> IF k \in DOMAIN rows THEN rows[k] ELSE target[k]]
      /\ slots' = [slots EXCEPT ![w].step = "commit"]
      /\ late' = (late \/ task.status = "CDC_CATCHING_UP")
  BY DEF WriteBatch, sourceVars
<1>2. /\ Now' = Now /\ Source' = Source
      /\ \A j, k : TouchedAfter(j, k)' <=> TouchedAfter(j, k)
      /\ \A k, r : Named(k, r)' <=> Named(k, r)
      /\ SourceFine'
  BY <1>1, SourceKept
<1>3. i \in DOMAIN chunks /\ task.status \in {"FULL_MIGRATING", "CDC_CATCHING_UP"}
  BY <1>1, WorkingLater
<1>4. slots \in [Workers -> SlotRecords] /\ slots[w] \in SlotRecords
  BY DEF TypeOK
<1>5. rows \in Batches /\ DOMAIN rows \in SUBSET Keys /\ \A k \in DOMAIN rows : rows[k] \in Nat
  BY <1>4, BatchType DEF SlotRecords
<1>6. /\ slots'[w].chunk = i /\ slots'[w].rows = rows /\ slots'[w].step = "commit"
      /\ slots' \in [Workers -> SlotRecords]
      /\ \A v \in Workers : v # w => slots'[v] = slots[v]
  <2> DEFINE r == [slots[w] EXCEPT !.step = "commit"]
  <2>1. slots' = [slots EXCEPT ![w] = r]
    BY <1>1, <1>4 DEF SlotRecords
  <2>2. r \in SlotRecords /\ r.chunk = i /\ r.rows = rows /\ r.step = "commit"
    BY <1>4 DEF SlotRecords, Steps
  <2> HIDE DEF r
  <2> QED BY <1>4, <2>1, <2>2
<1>7. TypeOK'
  <2>1. \A v \in Workers :
          /\ slots'[v].step # "idle" => slots'[v].chunk \in DOMAIN chunks'
          /\ slots'[v].step \in {"write", "commit"} => DOMAIN slots'[v].rows # {}
    BY <1>1, <1>3, <1>6 DEF TypeOK
  <2>2. target' \in Tables
    BY <1>1, <1>5 DEF TypeOK, Tables
  <2> QED BY <1>1, <1>2, <1>6, <2>1, <2>2 DEF TypeOK
<1>8. RowsNamed'
  <2>1. \A k \in DOMAIN rows : Named(k, rows[k])
    BY DEF RowsNamed
  <2>2. \A k \in Keys : Named(k, target'[k])
    BY <1>1, <2>1 DEF RowsNamed
  <2>3. \A v \in Workers : slots'[v].rows = slots[v].rows
    BY <1>6
  <2> QED BY <1>2, <2>2, <2>3 DEF RowsNamed
<1>9. PreparationFine' /\ PlanFine'
  BY <1>1, <1>2, <1>3 DEF PreparationFine, PlanFine
<1>10. CopyFine'
  <2> SUFFICES ASSUME task.status = "FULL_MIGRATING" PROVE CopyFine'
    BY <1>1 DEF CopyFine
  <2>1. /\ \A k \in DOMAIN rows : TouchedAfter(task.start, k) \/ rows[k] = Source[k]
        /\ \A k \in Keys, j \in DOMAIN rows :
             Selects(chunks[i].chunk, k) /\ k <= j => k \in DOMAIN rows \/ Settled(k)
    <3>1. SlotFine(w)
      BY DEF CopyFine
    <3> HIDE DEF IInv
    <3> QED BY <1>1, <3>1 DEF SlotFine
  <2>2. \A k \in Keys : k \in DOMAIN rows \/ Settled(k) => Settled(k)'
    BY <1>1, <1>2, <2>1 DEF Settled
  <2>3. SlotFine(w)'
    <3>1. \A k \in Keys, j \in DOMAIN rows : Selects(chunks[i].chunk, k) /\ k <= j => Settled(k)'
      BY <2>1, <2>2
    <3>2. slots'[w].step = "commit" /\ slots'[w].chunk = i /\ slots'[w].rows = rows
          /\ chunks' = chunks
      BY <1>1, <1>6
    <3> HIDE DEF IInv, i, rows
    <3> QED BY <3>1, <3>2 DEF SlotFine
  <2>4. ASSUME NEW v \in Workers, v # w PROVE SlotFine(v)'
    <3>1. SlotFine(v) /\ slots'[v] = slots[v]
      BY <1>6, <2>4 DEF CopyFine
    <3> QED BY <1>1, <2>2, <3>1, OtherSlot
  <2>5. \A k \in Keys : target'[k] = NoRow \/ Settled(k)'
    BY <1>1, <2>2 DEF CopyFine
  <2> QED BY <1>1, <2>2, <2>3, <2>4, <2>5 DEF CopyFine
<1>11. TargetFollowsSource'
  <2>1. CASE task.status = "CDC_CATCHING_UP"
    BY <1>1, <2>1 DEF TargetFollowsSource
  <2>2. CASE task.status = "FULL_MIGRATING"
    BY <1>1, <2>2 DEF TargetFollowsSource
  <2> QED BY <1>3, <2>1, <2>2
<1> QED BY <1>2, <1>7, <1>8, <1>9, <1>10, <1>11

LEMMA CommitBatchKeeps ==
  ASSUME IInv, NEW w \in Workers, CommitBatch(w) PROVE IInv'
<1> USE DEF IInv
<1> DEFINE i == slots[w].chunk
           rows == slots[w].rows
           last == CHOOSE k \in DOMAIN rows : \A j \in DOMAIN rows : j <= k
<1>1. /\ UNCHANGED <<scenario, tables, changes, visible, task, target, reclaims, late>>
      /\ slots[w].step = "commit"
      /\ \/ /\ chunks' = [chunks EXCEPT ![i].after = last]
            /\ slots' = [slots EXCEPT ![w].step = "read", ![w].after = last, ![w].rows = <<>>]
         \/ /\ chunks' = chunks
            /\ slots' = [slots EXCEPT ![w] = Idle]
  BY DEF CommitBatch, sourceVars
<1>2. /\ Now' = Now /\ Source' = Source
      /\ \A j, k : TouchedAfter(j, k)' <=> TouchedAfter(j, k)
      /\ \A k, r : Named(k, r)' <=> Named(k, r)
      /\ SourceFine'
  BY <1>1, SourceKept
<1>3. /\ i \in DOMAIN chunks /\ chunks[i] \in ChunkRecords
      /\ task.status \in {"FULL_MIGRATING", "CDC_CATCHING_UP"}
  BY <1>1, WorkingLater
<1>4. slots \in [Workers -> SlotRecords] /\ slots[w] \in SlotRecords /\ chunks \in Seq(ChunkRecords)
  BY DEF TypeOK
<1>5. DOMAIN rows \in SUBSET Keys /\ DOMAIN rows # {}
  BY <1>1, <1>4, BatchType DEF SlotRecords, TypeOK
<1>6. last \in DOMAIN rows /\ last \in Nat
  BY <1>5, LastKey
<1> HIDE DEF last
<1>7. /\ chunks' \in Seq(ChunkRecords) /\ DOMAIN chunks' = DOMAIN chunks
      /\ \A j \in DOMAIN chunks : /\ chunks'[j].chunk = chunks[j].chunk
                                  /\ chunks'[j].status = chunks[j].status
                                  /\ j # i => chunks'[j] = chunks[j]
      /\ chunks'[i].after \in {chunks[i].after, last}
  <2> DEFINE r == [chunks[i] EXCEPT !.after = last]
  <2>1. r \in ChunkRecords /\ r.chunk = chunks[i].chunk /\ r.after = last
        /\ r.status = chunks[i].status
    BY <1>3, <1>6 DEF ChunkRecords
  <2>2. chunks' = chunks \/ chunks' = [chunks EXCEPT ![i] = r]
    BY <1>1
  <2> HIDE DEF r
  <2> QED BY <1>3, <1>4, <2>1, <2>2
<1>8. /\ slots' \in [Workers -> SlotRecords]
      /\ slots'[w] = Idle \/ /\ slots'[w].chunk = i /\ slots'[w].step = "read"
                             /\ slots'[w].after = last /\ slots'[w].rows = <<>>
      /\ \A v \in Workers : v # w => slots'[v] = slots[v]
  <2> DEFINE r == [slots[w] EXCEPT !.step = "read", !.after = last, !.rows = <<>>]
  <2>1. r \in SlotRecords /\ r.chunk = i /\ r.step = "read" /\ r.after = last /\ r.rows = <<>>
    BY <1>4, <1>6 DEF SlotRecords, Steps, Batches
  <2>2. Idle \in SlotRecords
    BY DEF Idle, SlotRecords, Steps, Batches
  <2>3. slots' = [slots EXCEPT ![w] = Idle] \/ slots' = [slots EXCEPT ![w] = r]
    BY <1>1, <1>4 DEF SlotRecords
  <2> HIDE DEF r
  <2> QED BY <1>4, <2>1, <2>2, <2>3
<1>9. TypeOK'
  <2>1. /\ slots'[w].step # "idle" => slots'[w].chunk \in DOMAIN chunks'
        /\ slots'[w].step \notin {"write", "commit"}
    BY <1>3, <1>7, <1>8 DEF Idle
  <2>2. ASSUME NEW v \in Workers, v # w
        PROVE  /\ slots'[v].step # "idle" => slots'[v].chunk \in DOMAIN chunks'
               /\ slots'[v].step \in {"write", "commit"} => DOMAIN slots'[v].rows # {}
    BY <1>7, <1>8, <2>2 DEF TypeOK
  <2> QED BY <1>1, <1>2, <1>7, <1>8, <2>1, <2>2 DEF TypeOK
<1>10. RowsNamed'
  <2>1. ASSUME NEW v \in Workers, NEW k \in DOMAIN slots'[v].rows
        PROVE  v # w
    BY <1>8 DEF Idle
  <2> QED BY <1>1, <1>2, <1>8, <2>1 DEF RowsNamed
<1>11. PreparationFine' /\ PlanFine'
  BY <1>1, <1>2, <1>3, <1>7 DEF PreparationFine, PlanFine
<1>12. CopyFine'
  <2> SUFFICES ASSUME task.status = "FULL_MIGRATING" PROVE CopyFine'
    BY <1>1 DEF CopyFine
  <2>1. \A k : Settled(k)' <=> Settled(k)
    BY <1>1, SettledKept
  <2>2. \A k \in Keys : Selects(chunks[i].chunk, k) /\ k <= last => Settled(k)
    <3>1. SlotFine(w)
      BY DEF CopyFine
    <3> HIDE DEF IInv
    <3> QED BY <1>1, <1>6, <3>1 DEF SlotFine
  <2>3. SlotFine(w)'
    <3>1. CASE slots'[w] = Idle
      BY <3>1 DEF SlotFine, Idle
    <3>2. CASE slots'[w] # Idle
      <4>1. /\ slots'[w].chunk = i /\ slots'[w].step = "read" /\ slots'[w].after = last
            /\ chunks'[i].chunk = chunks[i].chunk
        BY <1>3, <1>7, <1>8, <3>2
      <4> HIDE DEF IInv, i
      <4> QED BY <2>1, <2>2, <4>1 DEF SlotFine
    <3> QED BY <3>1, <3>2
  <2>4. ASSUME NEW v \in Workers, v # w PROVE SlotFine(v)'
    <3>1. SlotFine(v) /\ slots'[v] = slots[v]
      BY <1>8, <2>4 DEF CopyFine
    <3>2. slots[v].step # "idle" => slots[v].chunk \in DOMAIN chunks
      BY DEF TypeOK
    <3> QED BY <1>1, <1>7, <2>1, <3>1, <3>2, OtherSlot
  <2>5. ASSUME NEW j \in DOMAIN chunks, NEW k \in Keys, Selects(chunks'[j].chunk, k),
               chunks'[j].status = "SUCCESS" \/ k <= chunks'[j].after
        PROVE  Settled(k)
    <3>1. CASE chunks[j].status = "SUCCESS" \/ k <= chunks[j].after
      BY <1>7, <2>5, <3>1 DEF CopyFine
    <3>2. CASE ~(chunks[j].status = "SUCCESS" \/ k <= chunks[j].after)
      <4>1. j = i /\ k <= last
        BY <1>7, <2>5, <3>2
      <4> QED BY <1>7, <2>2, <2>5, <4>1
    <3> QED BY <3>1, <3>2
  <2>6. \A k \in Keys : target'[k] = NoRow \/ Settled(k)'
    BY <1>1, <2>1 DEF CopyFine
  <2> QED BY <1>7, <2>1, <2>3, <2>4, <2>5, <2>6 DEF CopyFine
<1>13. TargetFollowsSource'
  BY <1>1, FollowKept
<1> QED BY <1>2, <1>9, <1>10, <1>11, <1>12, <1>13

LEMMA ReclaimKeeps ==
  ASSUME IInv, NEW i \in DOMAIN chunks, ReclaimChunk(i) PROVE IInv'
<1> USE DEF IInv
<1>1. /\ UNCHANGED <<scenario, tables, changes, visible, task, slots, target, late>>
      /\ chunks[i].status = "RUNNING" /\ reclaims' = reclaims + 1
      /\ chunks' = [chunks EXCEPT ![i].status = "PENDING", ![i].holder = NoWorker]
  BY DEF ReclaimChunk, sourceVars
<1>2. /\ Now' = Now /\ Source' = Source
      /\ \A j, k : TouchedAfter(j, k)' <=> TouchedAfter(j, k)
      /\ \A k, r : Named(k, r)' <=> Named(k, r)
      /\ SourceFine'
  BY <1>1, SourceKept
<1>3. chunks \in Seq(ChunkRecords) /\ chunks[i] \in ChunkRecords
  BY DEF TypeOK
<1>4. /\ chunks' \in Seq(ChunkRecords) /\ DOMAIN chunks' = DOMAIN chunks
      /\ \A j \in DOMAIN chunks : /\ chunks'[j].chunk = chunks[j].chunk
                                  /\ chunks'[j].after = chunks[j].after
                                  /\ chunks'[j].status = "SUCCESS" => chunks[j].status = "SUCCESS"
  <2> DEFINE r == [chunks[i] EXCEPT !.status = "PENDING", !.holder = NoWorker]
  <2>1. chunks' = [chunks EXCEPT ![i] = r]
    BY <1>1, <1>3 DEF ChunkRecords
  <2>2. r \in ChunkRecords /\ r.chunk = chunks[i].chunk /\ r.after = chunks[i].after
        /\ r.status = "PENDING"
    BY <1>3 DEF ChunkRecords
  <2> HIDE DEF r
  <2> QED BY <1>3, <2>1, <2>2
<1>5. TypeOK'
  <2>1. reclaims' \in Nat
    BY <1>1 DEF TypeOK
  <2> QED BY <1>1, <1>2, <1>4, <2>1 DEF TypeOK
<1>6. RowsNamed'
  BY <1>1, <1>2 DEF RowsNamed
<1>7. PreparationFine'
  <2>1. task.status \notin {"PREPARING", "PLANNING", "CDC_INITIALIZING", "FAILED"}
    BY <1>1 DEF PreparationFine
  <2> QED BY <1>1, <2>1 DEF PreparationFine
<1>8. PlanFine'
  BY <1>1, <1>2, <1>4 DEF PlanFine
<1>9. CopyFine'
  <2> SUFFICES ASSUME task.status = "FULL_MIGRATING" PROVE CopyFine'
    BY <1>1 DEF CopyFine
  <2>1. \A k : Settled(k)' <=> Settled(k)
    BY <1>1, SettledKept
  <2>2. ASSUME NEW v \in Workers PROVE SlotFine(v)'
    <3>1. SlotFine(v) /\ slots'[v] = slots[v]
      BY <1>1 DEF CopyFine
    <3>2. slots[v].step # "idle" => slots[v].chunk \in DOMAIN chunks
      BY DEF TypeOK
    <3> QED BY <1>1, <1>4, <2>1, <3>1, <3>2, OtherSlot
  <2>3. \A k \in Keys : target'[k] = NoRow \/ Settled(k)'
    BY <1>1, <2>1 DEF CopyFine
  <2>4. \A j \in DOMAIN chunks', k \in Keys :
          /\ Selects(chunks'[j].chunk, k)
          /\ chunks'[j].status = "SUCCESS" \/ k <= chunks'[j].after
          => Settled(k)'
    BY <1>4, <2>1 DEF CopyFine
  <2> QED BY <2>2, <2>3, <2>4 DEF CopyFine
<1>10. TargetFollowsSource'
  BY <1>1, FollowKept
<1> QED BY <1>2, <1>5, <1>6, <1>7, <1>8, <1>9, <1>10

LEMMA ReportKeeps ==
  ASSUME IInv, NEW w \in Workers, ReportChunk(w) PROVE IInv'
<1> USE DEF IInv
<1> DEFINE i == slots[w].chunk
           done == [chunks EXCEPT ![i].status = "SUCCESS", ![i].holder = NoWorker]
           all == \A j \in DOMAIN done : done[j].status = "SUCCESS"
<1>1. /\ UNCHANGED <<scenario, tables, changes, visible, target, reclaims, late>>
      /\ slots[w].step = "report" /\ slots' = [slots EXCEPT ![w] = Idle]
      /\ \/ /\ chunks' = done
            /\ task' = [task EXCEPT !.status = IF all THEN "CDC_CATCHING_UP" ELSE @]
         \/ UNCHANGED <<chunks, task>>
  BY DEF ReportChunk, sourceVars
<1>2. /\ Now' = Now /\ Source' = Source
      /\ \A j, k : TouchedAfter(j, k)' <=> TouchedAfter(j, k)
      /\ \A k, r : Named(k, r)' <=> Named(k, r)
      /\ SourceFine'
  BY <1>1, SourceKept
<1>3. /\ i \in DOMAIN chunks /\ chunks[i] \in ChunkRecords
      /\ task.status \in {"FULL_MIGRATING", "CDC_CATCHING_UP"}
  BY <1>1, WorkingLater
<1>4. /\ slots \in [Workers -> SlotRecords] /\ chunks \in Seq(ChunkRecords)
      /\ task \in [status : Statuses, start : 0 .. Now, applied : 0 .. Now]
  BY DEF TypeOK
<1>5. /\ done \in Seq(ChunkRecords) /\ DOMAIN done = DOMAIN chunks
      /\ \A j \in DOMAIN chunks : /\ done[j].chunk = chunks[j].chunk
                                  /\ done[j].after = chunks[j].after
                                  /\ j # i => done[j].status = chunks[j].status
  <2> DEFINE r == [chunks[i] EXCEPT !.status = "SUCCESS", !.holder = NoWorker]
  <2>1. done = [chunks EXCEPT ![i] = r]
    BY <1>3, <1>4 DEF ChunkRecords
  <2>2. r \in ChunkRecords /\ r.chunk = chunks[i].chunk /\ r.after = chunks[i].after
    BY <1>3 DEF ChunkRecords
  <2> HIDE DEF r, done
  <2> QED BY <1>3, <1>4, <2>1, <2>2
<1> HIDE DEF done
<1>6. /\ task' \in [status : Statuses, start : 0 .. Now, applied : 0 .. Now]
      /\ task'.start = task.start /\ task'.applied = task.applied
      /\ \/ task'.status = task.status /\ task' = task
         \/ task'.status = "CDC_CATCHING_UP" /\ chunks' = done /\ all
  <2>1. CASE chunks' = done /\ task' = [task EXCEPT !.status = "CDC_CATCHING_UP"] /\ all
    BY <1>4, <2>1 DEF Statuses
  <2>2. CASE chunks' = done /\ task' = [task EXCEPT !.status = @]
    <3>1. task' = task
      BY <1>4, <2>2
    <3> QED BY <1>4, <3>1
  <2>3. CASE UNCHANGED <<chunks, task>>
    BY <1>4, <2>3
  <2> QED BY <1>1, <2>1, <2>2, <2>3
<1>7. /\ chunks' \in Seq(ChunkRecords) /\ DOMAIN chunks' = DOMAIN chunks
      /\ \A j \in DOMAIN chunks : /\ chunks'[j].chunk = chunks[j].chunk
                                  /\ chunks'[j].after = chunks[j].after
                                  /\ j # i => chunks'[j].status = chunks[j].status
  BY <1>1, <1>4, <1>5
<1>8. /\ slots' \in [Workers -> SlotRecords] /\ slots'[w] = Idle
      /\ \A v \in Workers : v # w => slots'[v] = slots[v]
  <2>1. Idle \in SlotRecords
    BY DEF Idle, SlotRecords, Steps, Batches
  <2> QED BY <1>1, <1>4, <2>1
<1>9. TypeOK'
  <2>1. slots'[w].step = "idle"
    BY <1>8 DEF Idle
  <2>2. ASSUME NEW v \in Workers
        PROVE  /\ slots'[v].step # "idle" => slots'[v].chunk \in DOMAIN chunks'
               /\ slots'[v].step \in {"write", "commit"} => DOMAIN slots'[v].rows # {}
    BY <1>7, <1>8, <2>1 DEF TypeOK
  <2>3. task'.start <= task'.applied
    BY <1>6 DEF TypeOK
  <2> QED BY <1>1, <1>2, <1>6, <1>7, <1>8, <2>2, <2>3 DEF TypeOK
<1>10. RowsNamed'
  <2>1. DOMAIN slots'[w].rows = {}
    BY <1>8 DEF Idle
  <2>2. ASSUME NEW v \in Workers, NEW k \in DOMAIN slots'[v].rows
        PROVE  v # w
    BY <2>1, <2>2
  <2> QED BY <1>1, <1>2, <1>8, <2>2 DEF RowsNamed
<1>11. PreparationFine'
  BY <1>3, <1>6 DEF PreparationFine
<1>12. PlanFine'
  BY <1>2, <1>3, <1>6, <1>7 DEF PlanFine
<1>13. ASSUME task.status = "FULL_MIGRATING"
       PROVE  /\ \A k : Settled(k)' <=> Settled(k)
              /\ \A k \in Keys : Selects(chunks[i].chunk, k) => Settled(k)
              /\ \A j \in DOMAIN chunks', k \in Keys :
                   /\ Selects(chunks'[j].chunk, k)
                   /\ chunks'[j].status = "SUCCESS" \/ k <= chunks'[j].after
                   => Settled(k)
  <2>1. \A k : Settled(k)' <=> Settled(k)
    BY <1>1, <1>6, SettledKept
  <2>2. \A k \in Keys : Selects(chunks[i].chunk, k) => Settled(k)
    <3>1. SlotFine(w)
      BY <1>13 DEF CopyFine
    <3> HIDE DEF IInv
    <3> QED BY <1>1, <3>1 DEF SlotFine
  <2>3. ASSUME NEW j \in DOMAIN chunks, NEW k \in Keys, Selects(chunks'[j].chunk, k),
               chunks'[j].status = "SUCCESS" \/ k <= chunks'[j].after
        PROVE  Settled(k)
    <3>1. CASE j = i
      BY <1>7, <2>2, <2>3, <3>1
    <3>2. CASE j # i
      BY <1>7, <1>13, <2>3, <3>2 DEF CopyFine
    <3> QED BY <3>1, <3>2
  <2> QED BY <1>7, <2>1, <2>2, <2>3
<1>14. CopyFine'
  <2> SUFFICES ASSUME task.status = "FULL_MIGRATING" PROVE CopyFine'
    BY <1>3, <1>6 DEF CopyFine
  <2>1. SlotFine(w)'
    BY <1>8 DEF SlotFine, Idle
  <2>2. ASSUME NEW v \in Workers, v # w PROVE SlotFine(v)'
    <3>1. SlotFine(v) /\ slots'[v] = slots[v]
      BY <1>8, <2>2 DEF CopyFine
    <3>2. slots[v].step # "idle" => slots[v].chunk \in DOMAIN chunks
      BY DEF TypeOK
    <3> QED BY <1>1, <1>6, <1>7, <1>13, <3>1, <3>2, OtherSlot
  <2>3. \A k \in Keys : target'[k] = NoRow \/ Settled(k)'
    BY <1>1, <1>13 DEF CopyFine
  <2> QED BY <1>13, <2>1, <2>2, <2>3 DEF CopyFine
<1>15. TargetFollowsSource'
  <2>1. CASE task' = task
    BY <1>1, <2>1, FollowKept
  <2>2. CASE task.status = "CDC_CATCHING_UP"
    <3>1. task' = task
      BY <1>4, <1>6, <2>2
    <3> QED BY <2>1, <3>1
  <2>3. CASE task.status = "FULL_MIGRATING" /\ task'.status = "CDC_CATCHING_UP"
             /\ chunks' = done /\ all
    <3> SUFFICES ASSUME NEW k \in Keys PROVE (Unsettled(k) \/ target[k] = Source[k])'
      BY DEF TargetFollowsSource
    <3>1. Unsettled(k)' <=> TouchedAfter(task.start, k)
      <4>1. task.applied = task.start
        BY <2>3 DEF PreparationFine
      <4> QED BY <1>1, <1>2, <1>6, <4>1 DEF Unsettled, TouchedAfter, Touches
    <3>2. Settled(k)
      <4>1. CASE Source[k] = NoRow
        BY <2>3, <4>1 DEF CopyFine, Settled
      <4>2. CASE TouchedAfter(task.start, k)
        BY <4>2 DEF Settled
      <4>3. CASE \E j \in DOMAIN chunks : Selects(chunks[j].chunk, k)
        <5>1. PICK j \in DOMAIN chunks : Selects(chunks[j].chunk, k)
          BY <4>3
        <5>2. chunks'[j].status = "SUCCESS" /\ j \in DOMAIN chunks'
              /\ Selects(chunks'[j].chunk, k)
          BY <1>7, <2>3, <5>1
        <5> QED BY <1>13, <2>3, <5>2
      <4> QED BY <2>3, <4>1, <4>2, <4>3 DEF PlanFine
    <3> QED BY <1>1, <1>2, <3>1, <3>2 DEF Settled
  <2> QED BY <1>3, <1>6, <2>1, <2>2, <2>3
<1> QED BY <1>2, <1>9, <1>10, <1>11, <1>12, <1>14, <1>15

-----------------------------------------------------------------------------
(* The changes. *)

\* A row is passed over in favour of the target's only if that is the row of
\* this very change, or of a later one that is still to be applied.
LEMMA PassedOver ==
  ASSUME IInv, Followed(scenario), NEW a \in 0 .. Now - 1, NEW k \in Keys,
         scenario.conflict = "LAST_WRITE_WINS",
         changes[a + 1].op \in Writing, target[changes[a + 1].key] # NoRow,
         Version(changes[a + 1].row) <= Version(target[changes[a + 1].key]),
         Touches(changes[a + 1], k), ~TouchedAfter(a + 1, k)
  PROVE  target[k] = changes[a + 1].row /\ k = changes[a + 1].key
<1> USE DEF IInv
<1> DEFINE c == changes[a + 1]
<1>1. Now \in Nat /\ a \in Nat /\ a + 1 \in 1 .. Now
  BY SourceTyped
<1>2. c \in Changes /\ FormedAt(c, a + 1) /\ c.op \in scenario.ops
  BY <1>1, SourceTyped DEF SourceFine
<1>3. c.op # "MOVE" /\ scenario.tick = 1
  BY <1>2 DEF Followed
<1>4. c.op \in {"INSERT", "UPDATE"} /\ c.old = c.key /\ c.key \in Keys /\ c.row = (a + 1) + 1
  BY <1>2, <1>3 DEF FormedAt, Writing
<1>5. k = c.key
  BY <1>4 DEF Touches
<1>6. target[k] \in Nat /\ Named(k, target[k])
  BY DEF TypeOK, Tables, RowsNamed
<1>7. c.row <= target[k]
  <2>1. c.row \in Nat /\ Version(c.row) <= Version(target[k])
    BY <1>1, <1>4, <1>5
  <2> HIDE DEF c
  <2> QED BY <1>3, <1>6, <2>1, VersionOfRow
<1>8. target[k] - 1 \in 1 .. Now /\ changes[target[k] - 1].key = k
  BY <1>1, <1>4, <1>6, <1>7 DEF Named, NoRow
<1>9. ~(target[k] - 1 \in (a + 1) + 1 .. Now)
  BY <1>8 DEF TouchedAfter, Touches
<1> QED BY <1>1, <1>4, <1>5, <1>6, <1>7, <1>8, <1>9

LEMMA ApplyKeeps ==
  ASSUME IInv, Followed(scenario), ApplyChange PROVE IInv'
<1> USE DEF IInv
<1> DEFINE a == task.applied
           c == changes[a + 1]
           newer == /\ scenario.conflict = "LAST_WRITE_WINS"
                    /\ c.op \in Writing
                    /\ target[c.key] # NoRow
                    /\ Version(c.row) <= Version(target[c.key])
<1>1. /\ UNCHANGED <<scenario, tables, changes, visible, chunks, slots, reclaims, late>>
      /\ task.status = "CDC_CATCHING_UP" /\ a < Now
      /\ target' = ApplyTo(target, c) /\ task' = [task EXCEPT !.applied = @ + 1]
  BY DEF ApplyChange, sourceVars
<1>2. /\ Now' = Now /\ Source' = Source
      /\ \A j, k : TouchedAfter(j, k)' <=> TouchedAfter(j, k)
      /\ \A k, r : Named(k, r)' <=> Named(k, r)
      /\ SourceFine'
  BY <1>1, SourceKept
<1>3. Now \in Nat /\ a \in 0 .. Now - 1 /\ a + 1 \in 1 .. Now
  BY <1>1, SourceTyped DEF TypeOK
<1>4. c \in Changes /\ FormedAt(c, a + 1) /\ target \in Tables /\ tables[a + 1] \in Tables
  BY <1>3, SourceTyped DEF SourceFine, TypeOK
<1>5. /\ task' \in [status : Statuses, start : 0 .. Now, applied : 0 .. Now]
      /\ task'.status = task.status /\ task'.start = task.start
      /\ task'.applied = a + 1 /\ task'.start <= task'.applied
  <2>1. task \in [status : Statuses, start : 0 .. Now, applied : 0 .. Now] /\ task.start <= a
    BY DEF TypeOK
  <2> QED BY <1>1, <1>3, <2>1
<1>6. CASE newer
  <2>1. target' = target
    BY <1>1, <1>6 DEF ApplyTo, Writing
  <2>2. TypeOK' /\ RowsNamed'
    BY <1>1, <1>2, <1>5, <2>1 DEF TypeOK, RowsNamed
  <2>3. PreparationFine' /\ PlanFine' /\ CopyFine'
    BY <1>1, <1>5 DEF PreparationFine, PlanFine, CopyFine
  <2>4. ASSUME ~late, NEW k \in Keys, ~TouchedAfter(a + 1, k) PROVE target[k] = Source[k]
    <3>1. CASE Touches(c, k)
      <4>1. target[k] = c.row /\ k = c.key
        BY <1>3, <1>6, <2>4, <3>1, PassedOver
      <4>2. Effect(tables[a + 1], c)[k] = c.row
        BY <1>3, <1>4, <1>6, <3>1, <4>1, EffectFacts
      <4>3. tables[(a + 1) + 1] = Effect(tables[a + 1], c)
        BY <1>3 DEF SourceFine
      <4>4. tables[(a + 1) + 1][k] = Source[k]
        BY <1>3, <2>4 DEF SourceFine
      <4> QED BY <4>1, <4>2, <4>3, <4>4
    <3>2. CASE ~Touches(c, k)
      <4>1. ~TouchedAfter(a, k)
        BY <1>3, <2>4, <3>2 DEF TouchedAfter
      <4> QED BY <1>1, <2>4, <4>1, UnsettledIs DEF TargetFollowsSource
    <3> QED BY <3>1, <3>2
  <2>5. TargetFollowsSource'
    <3> SUFFICES ASSUME ~late, NEW k \in Keys PROVE (Unsettled(k) \/ target[k] = Source[k])'
      BY <1>1 DEF TargetFollowsSource
    <3>1. Unsettled(k)' <=> TouchedAfter(a + 1, k)
      BY <1>1, <1>2, <1>5 DEF Unsettled, TouchedAfter, Touches
    <3> QED BY <1>2, <2>1, <2>4, <3>1
  <2> QED BY <1>2, <2>2, <2>3, <2>5
<1>7. CASE ~newer
  <2>1. target' = Effect(target, c)
    BY <1>1, <1>7 DEF ApplyTo, Writing
  <2>2. /\ target' \in Tables
        /\ \A k \in Keys : ~Touches(c, k) => target'[k] = target[k]
        /\ \A k \in Keys : Touches(c, k) =>
             target'[k] = IF c.op \in Writing /\ k = c.key THEN c.row ELSE NoRow
    BY <1>3, <1>4, <2>1, EffectFacts
  <2>3. TypeOK'
    BY <1>1, <1>2, <1>5, <2>2 DEF TypeOK
  <2>4. RowsNamed'
    <3>1. ASSUME NEW k \in Keys PROVE Named(k, target'[k])
      <4>1. CASE ~Touches(c, k)
        BY <2>2, <4>1 DEF RowsNamed
      <4>2. CASE Touches(c, k) /\ c.op \in Writing /\ k = c.key
        <5>1. target'[k] = (a + 1) + 1
          BY <1>4, <2>2, <4>2 DEF FormedAt
        <5>2. target'[k] - 1 = a + 1
          BY <1>3, <5>1
        <5> QED BY <1>3, <4>2, <5>2 DEF Named
      <4>3. CASE Touches(c, k) /\ ~(c.op \in Writing /\ k = c.key)
        <5>1. target'[k] = NoRow
          BY <2>2, <4>3
        <5> QED BY <5>1 DEF Named
      <4> QED BY <4>1, <4>2, <4>3
    <3> QED BY <1>1, <1>2, <3>1 DEF RowsNamed
  <2>5. PreparationFine' /\ PlanFine' /\ CopyFine'
    BY <1>1, <1>5 DEF PreparationFine, PlanFine, CopyFine
  <2>6. ASSUME ~late, NEW k \in Keys, ~TouchedAfter(a + 1, k) PROVE target'[k] = Source[k]
    <3>1. CASE Touches(c, k)
      <4>1. Effect(tables[a + 1], c)[k] = target'[k]
        BY <1>3, <1>4, <2>2, <3>1, EffectFacts
      <4>2. tables[(a + 1) + 1] = Effect(tables[a + 1], c)
        BY <1>3 DEF SourceFine
      <4>3. tables[(a + 1) + 1][k] = Source[k]
        BY <1>3, <2>6 DEF SourceFine
      <4> QED BY <4>1, <4>2, <4>3
    <3>2. CASE ~Touches(c, k)
      <4>1. ~TouchedAfter(a, k)
        BY <1>3, <2>6, <3>2 DEF TouchedAfter
      <4> QED BY <1>1, <2>2, <2>6, <3>2, <4>1, UnsettledIs DEF TargetFollowsSource
    <3> QED BY <3>1, <3>2
  <2>7. TargetFollowsSource'
    <3> SUFFICES ASSUME ~late, NEW k \in Keys PROVE (Unsettled(k) \/ target[k] = Source[k])'
      BY <1>1 DEF TargetFollowsSource
    <3>1. Unsettled(k)' <=> TouchedAfter(a + 1, k)
      BY <1>1, <1>2, <1>5 DEF Unsettled, TouchedAfter, Touches
    <3> QED BY <1>2, <2>6, <3>1
  <2> QED BY <1>2, <2>3, <2>4, <2>5, <2>7
<1> QED BY <1>6, <1>7

LEMMA StutterKeeps ==
  ASSUME IInv, UNCHANGED vars PROVE IInv'
<1> USE DEF IInv
<1>1. UNCHANGED <<scenario, tables, changes, visible, task, chunks, slots, target, reclaims, late>>
  BY DEF vars, sourceVars
<1>2. /\ Now' = Now /\ Source' = Source
      /\ \A j, k : TouchedAfter(j, k)' <=> TouchedAfter(j, k)
      /\ \A k, r : Named(k, r)' <=> Named(k, r)
      /\ SourceFine'
  BY <1>1, SourceKept
<1>3. TypeOK' /\ RowsNamed'
  BY <1>1, <1>2 DEF TypeOK, RowsNamed
<1>4. PreparationFine' /\ PlanFine'
  BY <1>1, <1>2 DEF PreparationFine, PlanFine
<1>5. CopyFine'
  <2>1. \A k : Settled(k)' <=> Settled(k)
    BY <1>1, SettledKept
  <2>2. ASSUME task.status = "FULL_MIGRATING", NEW v \in Workers PROVE SlotFine(v)'
    <3>1. SlotFine(v) /\ slots'[v] = slots[v]
      BY <1>1, <2>2 DEF CopyFine
    <3> QED BY <1>1, <2>1, <3>1, OtherSlot
  <2> QED BY <1>1, <2>1, <2>2 DEF CopyFine
<1>6. TargetFollowsSource'
  BY <1>1, FollowKept
<1> QED BY <1>2, <1>3, <1>4, <1>5, <1>6

-----------------------------------------------------------------------------
(* The theorems. *)

(***************************************************************************)
(* While the changes since the position are applied, every row that no     *)
(* change still to come touches is the source's row: neither the copy      *)
(* (executeChunk) nor the applier (ApplyCDCEvents) has missed a row or     *)
(* brought an old one back, with any number of workers, whatever leases    *)
(* run out on the way.  It asks what the code relies on: commits before    *)
(* the position are visible by the first query, and LAST_WRITE_WINS is     *)
(* used with versions that tell any two changes apart and without changes  *)
(* of the key.                                                             *)
(***************************************************************************)
THEOREM TargetFollowsSourceCorrect ==
  ASSUME \A s \in Scenarios : Followed(s)
  PROVE  Spec => []TargetFollowsSource
<1>1. Init => IInv
  BY InitHolds
<1>2. IInv /\ [Next]_vars => IInv'
  <2> SUFFICES ASSUME IInv, [Next]_vars PROVE IInv'
    OBVIOUS
  <2>1. Followed(scenario)
    BY DEF IInv, TypeOK
  <2>2. CASE Commit
    BY <2>2, CommitKeeps
  <2>3. CASE Show
    BY <2>3, ShowKeeps
  <2>4. CASE CapturePosition
    BY <2>4, CaptureKeeps
  <2>5. CASE PlanTable
    BY <2>1, <2>5, PlanTableKeeps
  <2>6. CASE MarkCDCStarted
    BY <2>6, MarkKeeps
  <2>7. CASE \E w \in Workers : ClaimChunk(w) \/ Work(w)
    <3> SUFFICES ASSUME NEW w \in Workers, ClaimChunk(w) \/ Work(w) PROVE IInv'
      BY <2>7
    <3>1. CASE ClaimChunk(w)
      BY <3>1, ClaimKeeps
    <3>2. CASE ReadBatch(w)
      BY <2>1, <3>2, ReadKeeps
    <3>3. CASE WriteBatch(w)
      BY <3>3, WriteKeeps
    <3>4. CASE CommitBatch(w)
      BY <3>4, CommitBatchKeeps
    <3>5. CASE ReportChunk(w)
      BY <3>5, ReportKeeps
    <3> QED BY <3>1, <3>2, <3>3, <3>4, <3>5 DEF Work
  <2>8. CASE \E i \in DOMAIN chunks : ReclaimChunk(i)
    BY <2>8, ReclaimKeeps
  <2>9. CASE ApplyChange
    BY <2>1, <2>9, ApplyKeeps
  <2>10. CASE UNCHANGED vars
    BY <2>10, StutterKeeps
  <2> QED BY <2>2, <2>3, <2>4, <2>5, <2>6, <2>7, <2>8, <2>9, <2>10 DEF Next
<1>3. IInv => TargetFollowsSource
  BY DEF IInv
<1> QED BY <1>1, <1>2, <1>3, PTL DEF Spec

(***************************************************************************)
(* However a table is planned (PlanIntegerRange, PlanKeysetBoundaries, the *)
(* hash buckets), the chunks hold each of its rows exactly once: whatever  *)
(* its keys, its estimate and the width of an integer.                     *)
(***************************************************************************)
THEOREM PlansPartitionCorrect == Spec => []PlansPartition
<1>1. PlansPartition
  BY PlanPartitionsCorrect DEF PlansPartition
<1> QED BY <1>1, PTL

-----------------------------------------------------------------------------
(***************************************************************************)
(* The pipeline inside a worker's slot, for any keys, batch sizes, queue   *)
(* length, faults, shutdowns and yields: it implements ChunkJob.           *)
(***************************************************************************)
Item == [err : BOOLEAN, from : Places, last : Places]

Active == runner.pc \in {"receive", "write", "commit", "pause"}
Holding == runner.pc \in {"write", "commit"}

\* Where the next batch in the queue begins and where the last one ends.
Start == IF Holding THEN runner.item.last ELSE cursor
Begin(i) == IF i = 1 THEN Start ELSE queue[i - 1].last
End == IF queue = << >> THEN Start ELSE queue[Len(queue)].last

NoneBehind(place) == \A k \in ChunkKeys : k <= place

\* The types that the proofs need.
Types ==
  /\ cursor \in Places /\ written \subseteq ChunkKeys
  /\ stopping \in BOOLEAN /\ limit \in 1 .. MaxRows
  /\ reader \in [pc : {"none", "read", "send", "fail", "closed"},
                 from : Places, after : Places, want : 1 .. MaxRows]
  /\ queue \in Seq(Item)
  /\ runner \in [pc : {"idle", "receive", "write", "commit", "pause", "returned"},
                 item : Item, outcome : {"none", "done", "yielded", "error"}]

\* The chunk is RUNNING as long as Run or its result is about.
Running == Active \/ runner.pc = "returned" => status = "RUNNING"

\* The cursor passes no row that is not written.
BehindCursor == Between(0, cursor) \subseteq written

\* The batch in hand begins at the cursor.
InHand ==
  /\ Holding => /\ runner.item.from = cursor
                /\ runner.item.last \in ChunkKeys /\ runner.item.last > cursor
  /\ runner.pc = "commit" => Between(cursor, runner.item.last) \subseteq written

\* The batches in the queue follow each other without a gap; an error ends them.
Chain ==
  Active => \A i \in 1 .. Len(queue) :
    /\ queue[i].err => i = Len(queue) /\ reader.pc = "closed"
    /\ ~queue[i].err => /\ queue[i].from = Begin(i)
                        /\ queue[i].last \in ChunkKeys /\ queue[i].last > queue[i].from

\* The reader goes on where the queue ends, and closes it silently only at the
\* end of the rows or for a worker that stops.
ReaderFollows ==
  Active =>
    /\ reader.pc = "read" => reader.after = End
    /\ reader.pc = "send" =>
         /\ reader.from = End
         /\ reader.after \in ChunkKeys /\ reader.after > reader.from
         /\ IsShort => NoneBehind(reader.after)
    /\ reader.pc = "closed" =>
         \/ stopping
         \/ queue # << >> /\ queue[Len(queue)].err
         \/ NoneBehind(End)

\* A run that ends as done has left nothing behind, unless its worker stops.
DoneIsComplete ==
  runner.pc = "returned" /\ runner.outcome = "done" => stopping \/ NoneBehind(cursor)

PInv == Types /\ Running /\ BehindCursor /\ InHand /\ Chain /\ ReaderFollows /\ DoneIsComplete

LEMMA LastItem ==
  ASSUME queue \in Seq(Item), queue # << >>
  PROVE  Len(queue) \in 1 .. Len(queue) /\ queue[Len(queue)] \in Item
<1>1. Len(queue) \in Nat /\ Len(queue) # 0
  BY EmptySeq
<1> QED BY <1>1

\* What is left of a queue whose first batch is taken out.
LEMMA TailOf ==
  ASSUME NEW S, NEW q \in Seq(S), q # << >>
  PROVE  /\ Head(q) = q[1] /\ q[1] \in S /\ Len(q) \in Nat /\ Len(q) > 0
         /\ Tail(q) \in Seq(S) /\ Len(Tail(q)) = Len(q) - 1
         /\ \A i \in 1 .. Len(q) - 1 : Tail(q)[i] = q[i + 1]
         /\ Tail(q) = << >> => Len(q) = 1
         /\ Tail(q) # << >> => Len(q) > 1 /\ Tail(q)[Len(Tail(q))] = q[Len(q)]
<1>1. /\ Head(q) = q[1] /\ q[1] \in S /\ Len(q) \in Nat /\ Len(q) > 0
      /\ Tail(q) \in Seq(S) /\ Len(Tail(q)) = Len(q) - 1
      /\ \A i \in 1 .. Len(q) - 1 : Tail(q)[i] = q[i + 1]
  <2>1. Len(q) \in Nat /\ Len(q) # 0
    BY EmptySeq
  <2>2. Head(q) = q[1] /\ q[1] \in S
    BY <2>1, ElementOfSeq
  <2>3. /\ Tail(q) \in Seq(S) /\ Len(Tail(q)) = Len(q) - 1
        /\ \A i \in 1 .. Len(q) - 1 : Tail(q)[i] = q[i + 1]
    BY HeadTailProperties
  <2>4. Len(q) > 0
    BY <2>1
  <2> QED BY <2>1, <2>2, <2>3, <2>4
<1>2. Tail(q) = << >> => Len(q) = 1
  <2>1. Len(<< >>) = 0
    BY EmptySeq
  <2>2. Tail(q) = << >> => Len(q) - 1 = 0 /\ Len(q) \in Nat
    BY <1>1, <2>1, Zenon
  <2> QED BY <2>2
<1>3. ASSUME Tail(q) # << >> PROVE Len(q) > 1 /\ Tail(q)[Len(Tail(q))] = q[Len(q)]
  <2>1. Len(Tail(q)) # 0
    BY <1>1, <1>3, EmptySeq
  <2>2. Len(q) - 1 \in 1 .. Len(q) - 1 /\ (Len(q) - 1) + 1 = Len(q)
    BY <1>1, <2>1
  <2> QED BY <1>1, <2>2
<1> QED BY <1>1, <1>2, <1>3

LEMMA InitFine == PipelineInit => PInv
<1> SUFFICES ASSUME PipelineInit PROVE PInv
  OBVIOUS
<1>k. /\ \A k \in ChunkKeys : k \in Nat /\ k > 0
      /\ MaxRows \in Nat /\ MaxRows > 0
  BY PipelineAssumption DEF PipelineAssumption
<1>1. Types
  <2>1. queue \in Seq(Item)
    BY DEF PipelineInit
  <2>2. NoItem \in Item
    BY DEF NoItem, Item, Places
  <2>3. runner \in [pc : {"idle", "receive", "write", "commit", "pause", "returned"},
                    item : Item, outcome : {"none", "done", "yielded", "error"}]
    BY <2>2 DEF PipelineInit, IdleRunner, Runner
  <2>4. NoReader \in [pc : {"none", "read", "send", "fail", "closed"},
                       from : Places, after : Places, want : 1 .. MaxRows]
    BY <1>k DEF NoReader, Places
  <2>5. cursor \in Places /\ written \subseteq ChunkKeys /\ stopping \in BOOLEAN
    BY DEF PipelineInit, Places
  <2>6. limit \in 1 .. MaxRows
    BY <1>k DEF PipelineInit
  <2> QED BY <2>1, <2>3, <2>4, <2>5, <2>6 DEF PipelineInit, Types
<1>2. runner.pc = "idle" /\ cursor = 0
  BY DEF PipelineInit, IdleRunner, Runner
<1>3. Between(0, 0) = {}
  BY <1>k DEF Between
<1> QED BY <1>1, <1>2, <1>3
        DEF PInv, Running, BehindCursor, InHand, Chain, ReaderFollows, DoneIsComplete, Active, Holding

\* One step keeps the invariant: an action of the reader, of the runner, of the
\* slot or of its surroundings.
LEMMA ReaderKeeps ==
  ASSUME PInv, ReaderStep
  PROVE  PInv'
<1>k. /\ ChunkKeys \subseteq Nat \ {0} /\ MaxRows \in Nat \ {0}
      /\ \A k \in Places : k \in Nat
  BY PipelineAssumption DEF PipelineAssumption, Places
<1>t. Types
  BY DEF PInv
<1>u. UNCHANGED <<status, cursor, written, stopping, limit, runner>>
  BY DEF ReaderStep, Read, ReadNothing, ReadFails, Send, SendError, GiveUp, stored
<1>s. /\ Active' = Active /\ Holding' = Holding /\ Start' = Start
      /\ Running' /\ BehindCursor' /\ InHand' /\ DoneIsComplete'
  BY <1>u DEF PInv, Active, Holding, Start, Running, BehindCursor, InHand, DoneIsComplete, Between, NoneBehind
<1>e. Active => Start \in Places
  BY <1>t DEF PInv, InHand, Start, Holding, Types, Places
<1>f. Active => End \in Places
  BY <1>e, <1>t, LastItem DEF End, Types, Item
<1>1. CASE Read
  <2>1. PICK k \in BatchEnds(reader.after, limit) :
          reader' = [pc |-> "send", from |-> reader.after, after |-> k, want |-> limit]
    BY <1>1 DEF Read
  <2>2. /\ k \in ChunkKeys /\ k > reader.after
        /\ Rows(reader.after, k) = limit \/ NoneBehind(k)
    BY <2>1 DEF BatchEnds, NoneBehind
  <2>3. UNCHANGED queue /\ reader.pc = "read" /\ reader'.pc = "send"
    BY <1>1, <2>1 DEF Read
  <2>4. Types'
    BY <1>t, <1>u, <2>1, <2>2, <2>3 DEF Types, Places
  <2>5. Chain'
    BY <1>s, <1>u, <2>3 DEF PInv, Chain, Begin
  <2>6. ReaderFollows'
    <3> SUFFICES ASSUME Active
                 PROVE  /\ reader'.from = End'
                        /\ reader'.after \in ChunkKeys /\ reader'.after > reader'.from
                        /\ IsShort' => NoneBehind(reader'.after)
      BY <1>s, <2>3 DEF ReaderFollows, NoneBehind
    <3>1. End' = End /\ reader.after = End
      BY <1>s, <2>3 DEF End, PInv, ReaderFollows
    <3>2. IsShort' => Rows(reader.after, k) # limit
      BY <1>t, <2>1 DEF IsShort, Rows, Between, Types
    <3> QED BY <2>1, <2>2, <3>1, <3>2
  <2> QED BY <1>s, <2>4, <2>5, <2>6 DEF PInv
<1>2. CASE ReadNothing
  <2>1. /\ UNCHANGED queue /\ reader.pc = "read" /\ NoneBehind(reader.after)
        /\ reader' = [reader EXCEPT !.pc = "closed"]
    BY <1>2 DEF ReadNothing, NoneBehind, WhenEmpty
  <2>2. Types' /\ reader'.pc = "closed"
    BY <1>t, <1>u, <2>1 DEF Types
  <2>3. Chain'
    BY <1>s, <2>1, <2>2 DEF PInv, Chain, Begin
  <2>4. ReaderFollows'
    BY <1>s, <2>1, <2>2 DEF PInv, ReaderFollows, End, NoneBehind
  <2> QED BY <1>s, <2>2, <2>3, <2>4 DEF PInv
<1>3. CASE ReadFails
  <2>1. UNCHANGED queue /\ reader' = [reader EXCEPT !.pc = "fail"] /\ reader.pc = "read"
    BY <1>3 DEF ReadFails
  <2>2. Types' /\ reader'.pc = "fail"
    BY <1>t, <1>u, <2>1 DEF Types
  <2>3. Chain'
    BY <1>s, <2>1, <2>2 DEF PInv, Chain, Begin
  <2>4. ReaderFollows'
    BY <2>2 DEF ReaderFollows
  <2> QED BY <1>s, <2>2, <2>3, <2>4 DEF PInv
<1>5. CASE GiveUp
  <2>1. /\ UNCHANGED queue /\ reader' = [reader EXCEPT !.pc = "closed"]
        /\ reader.pc \in {"send", "fail"} /\ Cancelled
    BY <1>5 DEF GiveUp, Drops
  <2>2. Types' /\ reader'.pc = "closed"
    BY <1>t, <1>u, <2>1 DEF Types
  <2>3. Chain'
    BY <1>s, <2>1, <2>2 DEF PInv, Chain, Begin
  <2>4. ReaderFollows'
    BY <1>s, <1>u, <2>1, <2>2 DEF ReaderFollows, Cancelled, Active
  <2> QED BY <1>s, <2>2, <2>3, <2>4 DEF PInv
<1>6. CASE Send \/ SendError
  <2> DEFINE item == IF reader.pc = "send"
                     THEN [err |-> FALSE, from |-> reader.from, last |-> reader.after]
                     ELSE [NoItem EXCEPT !.err = TRUE]
  <2>1. /\ queue' = Append(queue, item) /\ reader.pc \in {"send", "fail"}
        /\ reader' = [reader EXCEPT !.pc = reader'.pc] /\ reader'.pc \in {"read", "closed"}
        /\ reader'.pc = "closed" <=> reader.pc = "fail" \/ IsShort
    BY <1>6, <1>t DEF Send, SendError, Types
  <2>2. item \in Item /\ (item.err <=> reader.pc = "fail")
    BY <1>t, <2>1 DEF Types, Item, NoItem, Places
  <2>3. /\ queue' \in Seq(Item) /\ Len(queue') = Len(queue) + 1 /\ Len(queue) \in Nat
        /\ queue'[Len(queue')] = item
        /\ \A i \in 1 .. Len(queue) : queue'[i] = queue[i]
    BY <1>t, <2>1, <2>2 DEF Types
  <2>4. Types'
    BY <1>t, <1>u, <2>1, <2>3 DEF Types
  <2>5. ASSUME Active PROVE \A i \in 1 .. Len(queue) : ~queue[i].err
    BY <2>1, <2>5 DEF PInv, Chain
  <2>6. /\ queue' # << >> /\ End' = item.last
        /\ Active => item.err \/ (item.from = End /\ item.last \in ChunkKeys /\ item.last > item.from)
    BY <2>1, <2>2, <2>3 DEF End, PInv, ReaderFollows
  <2>7. Chain'
    <3> SUFFICES ASSUME Active, NEW i \in 1 .. Len(queue')
                 PROVE  /\ queue'[i].err => i = Len(queue') /\ reader'.pc = "closed"
                        /\ ~queue'[i].err => /\ queue'[i].from = Begin(i)'
                                             /\ queue'[i].last \in ChunkKeys
                                             /\ queue'[i].last > queue'[i].from
      BY <1>s DEF Chain
    <3>1. CASE i \in 1 .. Len(queue)
      <4>1. Begin(i)' = Begin(i)
        BY <1>s, <2>3, <3>1 DEF Begin
      <4> QED BY <2>3, <2>5, <3>1, <4>1 DEF PInv, Chain
    <3>2. CASE i = Len(queue')
      <4>1. Begin(i)' = End
        BY <1>s, <1>t, <2>3, <3>2 DEF Begin, End, Types
      <4> QED BY <2>1, <2>2, <2>3, <2>6, <3>2, <4>1
    <3> QED BY <2>3, <3>1, <3>2
  <2>8. ReaderFollows'
    <3> SUFFICES ASSUME Active
                 PROVE  /\ reader'.pc = "read" => reader'.after = End'
                        /\ reader'.pc = "closed" =>
                             \/ stopping'
                             \/ queue' # << >> /\ queue'[Len(queue')].err
                             \/ \A k \in ChunkKeys : k <= End'
      BY <1>s, <2>1 DEF ReaderFollows, NoneBehind
    <3>1. reader'.after = reader.after
      BY <1>t, <2>1 DEF Types
    <3>2. reader'.pc = "read" => reader.pc = "send"
      BY <2>1
    <3>3. reader.pc = "send" => item.last = reader.after
      OBVIOUS
    <3>4. reader.pc = "send" /\ IsShort => \A k \in ChunkKeys : k <= reader.after
      BY DEF PInv, ReaderFollows, NoneBehind
    <3> QED BY <2>1, <2>2, <2>3, <2>6, <3>1, <3>2, <3>3, <3>4
  <2> QED BY <1>s, <2>4, <2>7, <2>8 DEF PInv
<1> QED BY <1>1, <1>2, <1>3, <1>5, <1>6 DEF ReaderStep

LEMMA RunnerKeeps ==
  ASSUME PInv, RunnerStep
  PROVE  PInv'
<1>k. /\ ChunkKeys \subseteq Nat \ {0} /\ MaxRows \in Nat \ {0}
      /\ \A k \in Places : k \in Nat
  BY PipelineAssumption DEF PipelineAssumption, Places
<1>t. Types
  BY DEF PInv
<1>n. NoItem \in Item
  BY DEF NoItem, Item, Places
<1>1. CASE Receive
  <2>1. /\ runner.pc = "receive" /\ queue # << >> /\ queue' = Tail(queue)
        /\ UNCHANGED <<status, cursor, written, stopping, limit, reader>>
        /\ runner' = IF Head(queue).err THEN Returned("error")
                      ELSE Runner("write", Head(queue), "none")
    BY <1>1 DEF Receive, stored
  <2>2. /\ Head(queue) = queue[1] /\ queue[1] \in Item /\ Len(queue) \in Nat /\ Len(queue) > 0
        /\ Tail(queue) \in Seq(Item) /\ Len(Tail(queue)) = Len(queue) - 1
        /\ \A i \in 1 .. Len(queue) - 1 : Tail(queue)[i] = queue[i + 1]
        /\ Tail(queue) = << >> => Len(queue) = 1
        /\ Tail(queue) # << >> => Len(queue) > 1 /\ Tail(queue)[Len(Tail(queue))] = queue[Len(queue)]
    BY <1>t, <2>1, TailOf DEF Types
  <2>3. Types'
    BY <1>t, <1>n, <2>1, <2>2 DEF Types, Runner, Returned
  <2>4. CASE queue[1].err
    BY <2>1, <2>2, <2>3, <2>4
       DEF PInv, Running, BehindCursor, InHand, Chain, ReaderFollows, DoneIsComplete, Active, Holding,
           Returned, Runner, Between
  <2>5. CASE ~queue[1].err
    <3>1. /\ runner'.pc = "write" /\ runner'.item = queue[1] /\ runner'.outcome = "none"
          /\ Active /\ ~Holding /\ Active' /\ Holding' /\ Start' = queue[1].last
      BY <2>1, <2>2, <2>5 DEF Runner, Active, Holding, Start
    <3>2. /\ queue[1].from = cursor /\ queue[1].last \in ChunkKeys /\ queue[1].last > cursor
      <4>1. Begin(1) = cursor /\ 1 \in 1 .. Len(queue)
        BY <2>2, <3>1 DEF Begin, Start
      <4> QED BY <2>5, <3>1, <4>1 DEF PInv, Chain
    <3>3. \A i \in 1 .. Len(queue') : Begin(i)' = Begin(i + 1)
      BY <2>1, <2>2, <3>1 DEF Begin
    <3>4. End' = End
      <4>1. CASE Tail(queue) = << >>
        BY <2>1, <2>2, <3>1, <4>1 DEF End
      <4>2. CASE Tail(queue) # << >>
        BY <2>1, <2>2, <4>2 DEF End
      <4> QED BY <4>1, <4>2
    <3>5. Chain'
      <4> SUFFICES ASSUME NEW i \in 1 .. Len(queue) - 1
                   PROVE  /\ queue[i + 1].err => i = Len(queue) - 1 /\ reader.pc = "closed"
                          /\ ~queue[i + 1].err => /\ queue[i + 1].from = Begin(i + 1)
                                                  /\ queue[i + 1].last \in ChunkKeys
                                                  /\ queue[i + 1].last > queue[i + 1].from
        BY <2>1, <2>2, <3>3 DEF Chain
      <4>1. i + 1 \in 1 .. Len(queue) /\ i \in Nat
        BY <2>2
      <4>2. /\ queue[i + 1].err => i + 1 = Len(queue) /\ reader.pc = "closed"
            /\ ~queue[i + 1].err => /\ queue[i + 1].from = Begin(i + 1)
                                    /\ queue[i + 1].last \in ChunkKeys
                                    /\ queue[i + 1].last > queue[i + 1].from
        BY <3>1, <4>1 DEF PInv, Chain
      <4>3. i + 1 = Len(queue) => i = Len(queue) - 1
        <5>1. Len(queue) \in Nat /\ i \in Nat
          BY <2>2, <4>1
        <5> QED BY <5>1
      <4> QED BY <4>2, <4>3
    <3>6. ReaderFollows'
      <4>1. queue' = << >> => ~queue[Len(queue)].err
        BY <2>1, <2>2, <2>5
      <4>2. queue' # << >> => queue'[Len(queue')] = queue[Len(queue)]
        BY <2>1, <2>2
      <4> QED BY <2>1, <3>1, <3>4, <4>1, <4>2 DEF PInv, ReaderFollows, IsShort, Rows, Between, NoneBehind
    <3> QED BY <2>1, <2>3, <3>1, <3>2, <3>5, <3>6
            DEF PInv, Running, BehindCursor, InHand, DoneIsComplete, Active, Between
  <2> QED BY <2>4, <2>5
<1>2. CASE Drained
  <2>1. /\ runner.pc = "receive" /\ queue = << >> /\ reader.pc = "closed"
        /\ UNCHANGED <<status, cursor, written, stopping, limit, reader, queue>>
        /\ runner' = Runner("returned", NoItem, "done")
    BY <1>2 DEF Drained, Returned, stored
  <2>2. stopping \/ NoneBehind(cursor)
    BY <2>1 DEF PInv, ReaderFollows, Active, End, Start, Holding
  <2>3. Types'
    BY <1>t, <1>n, <2>1 DEF Types, Runner
  <2> QED BY <2>1, <2>2, <2>3
          DEF PInv, Running, BehindCursor, InHand, Chain, ReaderFollows, DoneIsComplete, Active, Holding,
              Runner, Between, NoneBehind
<1>w. ASSUME runner.pc = "write"
      PROVE  Upsert \subseteq ChunkKeys /\ Between(cursor, runner.item.last) \subseteq Upsert
  BY <1>t, <1>w DEF PInv, InHand, Holding, Upsert, Between, Types
<1>3. CASE Write
  <2>1. /\ runner.pc = "write" /\ written' = Upsert
        /\ runner' = [runner EXCEPT !.pc = "commit"]
        /\ UNCHANGED <<status, cursor, stopping, limit, reader, queue>>
    BY <1>3 DEF Write
  <2>2. /\ runner'.pc = "commit" /\ runner'.item = runner.item /\ runner'.outcome = runner.outcome
        /\ Types'
    BY <1>t, <1>w, <2>1 DEF Types
  <2>3. /\ Active /\ Active' /\ Holding /\ Holding' /\ Start' = Start
    BY <2>1, <2>2 DEF Active, Holding, Start
  <2>4. Chain' /\ ReaderFollows'
    BY <2>1, <2>3 DEF PInv, Chain, ReaderFollows, Begin, End, IsShort, Rows, Between, NoneBehind
  <2>5. BehindCursor' /\ InHand'
    BY <1>w, <2>1, <2>2, <2>3 DEF PInv, BehindCursor, InHand, Upsert, Between
  <2> QED BY <2>1, <2>2, <2>3, <2>4, <2>5 DEF PInv, Running, DoneIsComplete
\* The run is over: only the table and what is stored matter.
<1>r. ASSUME runner'.pc = "returned", runner'.outcome # "done", Types', status' = status,
             status = "RUNNING", BehindCursor'
      PROVE  PInv'
  BY <1>r DEF PInv, Running, InHand, Chain, ReaderFollows, DoneIsComplete, Active, Holding
<1>4. CASE WriteFails
  <2>1. /\ runner.pc = "write" /\ written' \in {written, Upsert}
        /\ runner' = Runner("returned", NoItem, "error")
        /\ UNCHANGED <<status, cursor, stopping, limit, reader, queue>>
    BY <1>4 DEF WriteFails, Returned
  <2>2. Types'
    BY <1>t, <1>n, <1>w, <2>1 DEF Types, Runner
  <2>3. BehindCursor' /\ status = "RUNNING"
    BY <2>1 DEF PInv, BehindCursor, Upsert, Between, Running, Active
  <2> QED BY <1>r, <2>1, <2>2, <2>3 DEF Runner
<1>c. ASSUME runner.pc = "commit"
      PROVE  /\ runner.item.last \in ChunkKeys /\ runner.item.last > cursor /\ status = "RUNNING"
             /\ Between(0, runner.item.last) \subseteq written
  <2>1. Between(cursor, runner.item.last) \subseteq written /\ Between(0, cursor) \subseteq written
    BY <1>c DEF PInv, InHand, BehindCursor
  <2>2. Between(0, runner.item.last) \subseteq Between(0, cursor) \cup Between(cursor, runner.item.last)
    <3>1. cursor \in Nat /\ \A k \in ChunkKeys : k \in Nat
      BY <1>t, <1>k DEF Types
    <3> QED BY <3>1 DEF Between
  <2> QED BY <1>c, <2>1, <2>2 DEF PInv, InHand, Holding, Running, Active
<1>5. CASE CommitCursor
  <2>1. /\ runner.pc = "commit" /\ cursor' = runner.item.last /\ limit' \in 1 .. MaxRows
        /\ runner' = Runner("pause", NoItem, "none")
        /\ UNCHANGED <<status, written, stopping, reader, queue>>
    BY <1>5 DEF CommitCursor
  <2>2. Types'
    BY <1>t, <1>n, <1>c, <2>1 DEF Types, Runner, Places
  <2>3. /\ Active /\ Active' /\ Holding /\ ~Holding' /\ Start' = Start
        /\ runner'.pc = "pause" /\ runner'.outcome = "none"
    BY <2>1 DEF Active, Holding, Start, Runner
  <2>4. Chain' /\ ReaderFollows'
    BY <2>1, <2>3 DEF PInv, Chain, ReaderFollows, Begin, End, IsShort, Rows, Between, NoneBehind
  <2>5. BehindCursor' /\ InHand' /\ Running' /\ DoneIsComplete'
    BY <1>c, <2>1, <2>3 DEF BehindCursor, InHand, Between, Running, DoneIsComplete
  <2> QED BY <2>2, <2>4, <2>5 DEF PInv
<1>6. CASE CommitAndYield
  <2>1. /\ runner.pc = "commit" /\ cursor' = runner.item.last
        /\ runner' = Runner("returned", NoItem, "yielded")
        /\ UNCHANGED <<status, written, stopping, limit, reader, queue>>
    BY <1>6 DEF CommitAndYield, Returned
  <2>2. Types'
    BY <1>t, <1>n, <1>c, <2>1 DEF Types, Runner, Places
  <2>3. BehindCursor'
    BY <1>c, <2>1 DEF BehindCursor, Between
  <2> QED BY <1>r, <1>c, <2>1, <2>2, <2>3 DEF Runner
<1>7. CASE CommitFails
  <2>1. /\ runner.pc = "commit" /\ cursor' \in {cursor, runner.item.last}
        /\ runner' = Runner("returned", NoItem, "error")
        /\ UNCHANGED <<status, written, stopping, limit, reader, queue>>
    BY <1>7 DEF CommitFails, Returned
  <2>2. Types'
    BY <1>t, <1>n, <1>c, <2>1 DEF Types, Runner, Places
  <2>3. BehindCursor'
    BY <1>c, <2>1 DEF PInv, BehindCursor, Between
  <2> QED BY <1>r, <1>c, <2>1, <2>2, <2>3 DEF Runner
<1>8. CASE Pause
  <2>1. /\ runner.pc = "pause"
        /\ \/ runner' = Runner("receive", NoItem, "none")
           \/ runner' = Runner("returned", NoItem, "error")
        /\ UNCHANGED <<status, cursor, written, stopping, limit, reader, queue>>
    BY <1>8 DEF Pause, Returned, stored
  <2>2. Types'
    BY <1>t, <1>n, <2>1 DEF Types, Runner
  <2>3. CASE runner' = Runner("receive", NoItem, "none")
    <3>1. /\ Active /\ Active' /\ ~Holding /\ ~Holding' /\ Start' = Start
          /\ runner'.pc = "receive" /\ runner'.outcome = "none"
      BY <2>1, <2>3 DEF Active, Holding, Start, Runner
    <3>2. Chain' /\ ReaderFollows'
      BY <2>1, <3>1 DEF PInv, Chain, ReaderFollows, Begin, End, IsShort, Rows, Between, NoneBehind
    <3> QED BY <2>1, <2>2, <3>1, <3>2 DEF PInv, BehindCursor, InHand, Between, Running, DoneIsComplete
  <2>4. CASE runner' = Runner("returned", NoItem, "error")
    <3>1. BehindCursor' /\ status = "RUNNING"
      BY <2>1 DEF PInv, BehindCursor, Between, Running, Active
    <3> QED BY <1>r, <2>1, <2>2, <2>4, <3>1 DEF Runner
  <2> QED BY <2>1, <2>3, <2>4
\* The slot is free again: nothing but the stored state matters.
<1>i. ASSUME runner' = IdleRunner, UNCHANGED <<cursor, written, stopping, limit, reader, queue>>
      PROVE  PInv'
  <2>1. Types'
    BY <1>t, <1>n, <1>i DEF Types, IdleRunner, Runner
  <2> QED BY <1>i, <2>1
          DEF PInv, Running, BehindCursor, InHand, Chain, ReaderFollows, DoneIsComplete, Active, Holding,
              IdleRunner, Runner, Between
<1>9. CASE Report \/ Interrupted
  BY <1>i, <1>9 DEF Report, Interrupted, stored
<1> QED BY <1>1, <1>2, <1>3, <1>4, <1>5, <1>6, <1>7, <1>8, <1>9 DEF RunnerStep

LEMMA SlotKeeps ==
  ASSUME PInv, Claim \/ LeaseExpires \/ Restart \/ Stop \/ Die
  PROVE  PInv'
<1>k. \A k \in Places : k \in Nat
  BY PipelineAssumption DEF PipelineAssumption, Places
<1>t. Types
  BY DEF PInv
<1>n. NoItem \in Item
  BY DEF NoItem, Item, Places
<1>m. MaxRows \in Nat \ {0}
  BY PipelineAssumption DEF PipelineAssumption
<1>r. NoReader \in [pc : {"none", "read", "send", "fail", "closed"},
                    from : Places, after : Places, want : 1 .. MaxRows]
  BY <1>m DEF NoReader, Places
<1>1. CASE Claim
  <2>1. /\ status' = "RUNNING" /\ limit' \in 1 .. MaxRows /\ queue' = << >>
        /\ reader' = [NoReader EXCEPT !.pc = "read", !.from = cursor, !.after = cursor]
        /\ runner' = Runner("receive", NoItem, "none")
        /\ UNCHANGED <<cursor, written, stopping>>
    BY <1>1 DEF Claim
  <2>2. /\ reader'.pc = "read" /\ reader'.after = cursor
        /\ reader' \in [pc : {"none", "read", "send", "fail", "closed"},
                         from : Places, after : Places, want : 1 .. MaxRows]
    BY <1>t, <1>r, <2>1 DEF NoReader, Types
  <2>3. /\ runner'.pc = "receive" /\ runner'.outcome = "none"
        /\ runner' \in [pc : {"idle", "receive", "write", "commit", "pause", "returned"},
                         item : Item, outcome : {"none", "done", "yielded", "error"}]
    BY <1>n, <2>1 DEF Runner
  <2>4. queue' \in Seq(Item) /\ Len(queue') = 0
    BY <2>1
  <2>5. Types'
    BY <1>t, <2>1, <2>2, <2>3, <2>4 DEF Types
  <2>6. End' = cursor
    BY <2>1, <2>3 DEF End, Start, Holding
  <2> QED BY <2>1, <2>2, <2>3, <2>4, <2>5, <2>6
          DEF PInv, Running, BehindCursor, InHand, Chain, ReaderFollows, DoneIsComplete, Active, Holding,
              Between
<1>2. CASE LeaseExpires \/ Restart
  <2>1. /\ runner.pc = "idle" /\ stopping' = FALSE
        /\ UNCHANGED <<cursor, written, limit, reader, queue, runner>>
    BY <1>2 DEF LeaseExpires, Restart, stored
  <2> QED BY <1>t, <2>1
          DEF PInv, Types, Running, BehindCursor, InHand, Chain, ReaderFollows, DoneIsComplete, Active,
              Holding, Between
<1>3. CASE Stop
  <2>1. stopping' = TRUE /\ UNCHANGED <<status, cursor, written, limit, reader, queue, runner>>
    BY <1>3 DEF Stop, stored
  <2>2. /\ Active' = Active /\ Holding' = Holding /\ Start' = Start /\ End' = End
        /\ \A i \in 1 .. Len(queue) : Begin(i)' = Begin(i)
    BY <2>1 DEF Active, Holding, Start, End, Begin
  <2>3. Types' /\ Running' /\ BehindCursor' /\ InHand' /\ DoneIsComplete'
    BY <1>t, <2>1, <2>2
       DEF PInv, Types, Running, BehindCursor, InHand, DoneIsComplete, Between, NoneBehind
  <2>4. Chain' /\ ReaderFollows'
    BY <2>1, <2>2 DEF PInv, Chain, ReaderFollows, IsShort, Rows, Between, NoneBehind
  <2> QED BY <2>3, <2>4 DEF PInv
<1>4. CASE Die
  <2>1. /\ reader' = NoReader /\ queue' = << >> /\ runner' = IdleRunner
        /\ UNCHANGED <<status, cursor, written, stopping, limit>>
    BY <1>4 DEF Die, stored
  <2>2. /\ runner'.pc = "idle" /\ queue' \in Seq(Item)
        /\ runner' \in [pc : {"idle", "receive", "write", "commit", "pause", "returned"},
                         item : Item, outcome : {"none", "done", "yielded", "error"}]
    BY <1>n, <2>1 DEF IdleRunner, Runner
  <2>3. Types'
    BY <1>t, <1>r, <2>1, <2>2 DEF Types
  <2> QED BY <2>1, <2>2, <2>3
          DEF PInv, Running, BehindCursor, InHand, Chain, ReaderFollows, DoneIsComplete, Active, Holding,
              Between
<1> QED BY <1>1, <1>2, <1>3, <1>4

LEMMA StepFine == PInv /\ [PipelineNext]_pipelineVars => PInv'
<1> SUFFICES ASSUME PInv, [PipelineNext]_pipelineVars PROVE PInv'
  OBVIOUS
<1>1. CASE PipelineNext
  BY <1>1, ReaderKeeps, RunnerKeeps, SlotKeeps DEF PipelineNext
<1>2. CASE UNCHANGED pipelineVars
  BY <1>2
     DEF pipelineVars, stored, PInv, Types, Running, BehindCursor, InHand, Chain, ReaderFollows, DoneIsComplete,
         Active, Holding, Start, Begin, End, IsShort, Rows, Between, NoneBehind
<1> QED BY <1>1, <1>2

\* Every step is one of the contract or none for it: a write and a stored
\* cursor take the batch in hand, a report gives the chunk back or finishes it.
LEMMA StepMaps ==
  ASSUME PInv, [PipelineNext]_pipelineVars
  PROVE  [Contract!Next]_<<status, cursor, written>>
<1>t. Types
  BY DEF PInv
<1>1. CASE UNCHANGED pipelineVars
  BY <1>1 DEF pipelineVars, stored
<1>2. CASE ReaderStep
  BY <1>2 DEF ReaderStep, Read, ReadNothing, ReadFails, Send, SendError, GiveUp, stored
<1>3. CASE Receive \/ Drained \/ Pause \/ Interrupted \/ Restart \/ Stop \/ Die
  BY <1>3 DEF Receive, Drained, Pause, Interrupted, Restart, Stop, Die, stored
<1>4. CASE Write \/ WriteFails
  <2>1. /\ runner.pc = "write" /\ written' \in {written, Upsert} /\ UNCHANGED <<status, cursor>>
    BY <1>4 DEF Write, WriteFails
  <2>2. /\ status = "RUNNING" /\ runner.item.last \in ChunkKeys /\ runner.item.last > cursor
        /\ Upsert = written \cup Contract!Between(cursor, runner.item.last)
    BY <2>1 DEF PInv, Running, Active, InHand, Holding, Upsert, Between, Contract!Between
  <2> QED BY <2>1, <2>2 DEF Contract!Next, Contract!Write
<1>5. CASE CommitCursor \/ CommitAndYield \/ CommitFails
  <2>1. /\ runner.pc = "commit" /\ cursor' \in {cursor, runner.item.last}
        /\ UNCHANGED <<status, written>>
    BY <1>5 DEF CommitCursor, CommitAndYield, CommitFails
  <2>2. /\ status = "RUNNING" /\ runner.item.last \in ChunkKeys /\ runner.item.last > cursor
        /\ Between(cursor, runner.item.last) \subseteq written /\ Between(0, cursor) \subseteq written
    BY <2>1 DEF PInv, Running, Active, BehindCursor, InHand, Holding
  <2>3. cursor \in Nat /\ \A k \in ChunkKeys : k \in Nat
    BY <1>t, PipelineAssumption DEF Types, Places, PipelineAssumption
  <2>4. Contract!Between(0, runner.item.last) \subseteq written
    BY <2>2, <2>3 DEF Between, Contract!Between
  <2> QED BY <2>1, <2>2, <2>4 DEF Contract!Next, Contract!Checkpoint
<1>6. CASE Claim
  BY <1>6 DEF Claim, Contract!Next, Contract!Claim
<1>7. CASE LeaseExpires
  BY <1>7 DEF LeaseExpires, Contract!Next, Contract!GiveBack
<1>8. CASE Report
  <2>1. /\ runner.pc = "returned" /\ ~stopping /\ UNCHANGED <<cursor, written>>
        /\ status' \in {IF runner.outcome = "done" THEN "SUCCESS" ELSE "PENDING", status}
    BY <1>8 DEF Report
  <2>2. status = "RUNNING" /\ (runner.outcome = "done" => \A k \in ChunkKeys : k <= cursor)
    BY <2>1 DEF PInv, Running, DoneIsComplete, NoneBehind
  <2> QED BY <2>1, <2>2 DEF Contract!Next, Contract!GiveBack, Contract!Succeed
<1> QED BY <1>1, <1>2, <1>3, <1>4, <1>5, <1>6, <1>7, <1>8 DEF PipelineNext, RunnerStep

\* Reading ahead, adapting the batches, cancelling, failing, dying and yielding
\* in the worker (full.go, executeJob) never look to the control plane like
\* anything but a chunk copied from its cursor on: for any table, batch size,
\* queue length and number of faults.
THEOREM CopiesChunkCorrect == PipelineSpec => CopiesChunk
<1>1. PipelineInit => Contract!Init
  BY DEF PipelineInit, Contract!Init
<1>2. PInv /\ [PipelineNext]_pipelineVars => [Contract!Next]_<<status, cursor, written>>
  BY StepMaps
<1> QED BY <1>1, <1>2, InitFine, StepFine, PTL DEF PipelineSpec, CopiesChunk, Contract!Spec

=============================================================================
