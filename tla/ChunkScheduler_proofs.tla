------------------------ MODULE ChunkScheduler_proofs ------------------------
(***************************************************************************)
(* Proofs about ChunkScheduler for every table size, chunk span, number of *)
(* servers, workers and slots, and every value of the bounds.              *)
(***************************************************************************)
EXTENDS ChunkScheduler, TLAPS, NaturalsInduction, WellFoundedInduction,
        SequenceTheorems

(***************************************************************************)
(* Arithmetic.                                                             *)
(***************************************************************************)
\* Integer division and remainder of natural numbers.
LEMMA DivFacts ==
  ASSUME NEW a \in Nat, NEW d \in Nat \ {0}
  PROVE  /\ a \div d \in Nat
         /\ d * (a \div d) + (a % d) = a
         /\ a % d \in 0 .. (d - 1)
OBVIOUS

\* Multiplication by a natural number is monotone and stays in Nat.
LEMMA MulMono ==
  ASSUME NEW a \in Nat, NEW b \in Nat, NEW q \in Nat, a <= b
  PROVE  a * q \in Nat /\ b * q \in Nat /\ a * q <= b * q
<1>1. (b - a) * q >= 0 /\ a * q >= 0 /\ b * q >= 0
  OBVIOUS
<1>2. (b - a) * q = b * q - a * q
  OBVIOUS
<1> QED BY <1>1, <1>2

Less == {ss \in Nat \X Nat : ss[1] < ss[2]}

\* A nonempty set of natural numbers has a least element.
LEMMA NatMin ==
  ASSUME NEW T \in SUBSET Nat, T # {}
  PROVE \E x \in T : \A y \in T : x <= y
<1>1. IsWellFoundedOn(Less, Nat)
  <2>1. Less = OpToRel(<, Nat)
    BY DEF Less, OpToRel
  <2> QED BY <2>1, NatLessThanWellFounded
<1>2. \E x \in T : \A y \in T : ~(<<y, x>> \in Less)
  BY <1>1, WFMin
<1>3. PICK x \in T : \A y \in T : ~(<<y, x>> \in Less)
  BY <1>2
<1>4. \A y \in T : ~(y < x)
  BY <1>3 DEF Less
<1> QED BY <1>4

(***************************************************************************)
(* Cutting a range into pieces.                                            *)
(***************************************************************************)
\* The pieces start at the range's first key, end at its last one, and each
\* begins behind the one before.
LEMMA PieceStarts ==
  ASSUME NEW lo \in Nat, NEW hi \in Nat, lo <= hi,
         NEW p \in 1 .. (hi - lo + 1)
  PROVE  /\ PieceStart(lo, hi, p, 0) = lo
         /\ PieceStart(lo, hi, p, p) = hi + 1
         /\ \A i \in 0 .. p : PieceStart(lo, hi, p, i) \in lo .. (hi + 1)
         /\ \A i \in 1 .. p :
              PieceStart(lo, hi, p, i - 1) < PieceStart(lo, hi, p, i)
<1> DEFINE len == hi - lo + 1
           q == len \div p
           m == len % p
<1>1. q \in Nat /\ p * q + m = len /\ m \in 0 .. (p - 1)
  <2>1. len \in Nat /\ p \in Nat \ {0}
    OBVIOUS
  <2> HIDE DEF len
  <2> QED BY <2>1, DivFacts
<1>2. q >= 1
  BY <1>1
<1>3. \A i \in 0 .. p : i * q \in Nat /\ i * q <= p * q
  BY <1>1, MulMono
<1>4. \A i \in 1 .. p : i * q = (i - 1) * q + q
  BY <1>1
<1> HIDE DEF q, m
<1>5. \A i \in 0 .. p : PieceStart(lo, hi, p, i) = lo + i * q + Least(i, m)
  BY DEF PieceStart, q, m
<1>6. PieceStart(lo, hi, p, 0) = lo
  BY <1>1, <1>5 DEF Least
<1>7. PieceStart(lo, hi, p, p) = hi + 1
  BY <1>1, <1>5 DEF Least
<1>8. ASSUME NEW i \in 0 .. p
      PROVE  PieceStart(lo, hi, p, i) \in lo .. (hi + 1)
  BY <1>1, <1>3, <1>5 DEF Least
<1>9. ASSUME NEW i \in 1 .. p
      PROVE  PieceStart(lo, hi, p, i - 1) < PieceStart(lo, hi, p, i)
  <2>1. (i - 1) * q \in Nat /\ i * q \in Nat
    BY <1>3
  <2> QED BY <1>1, <1>2, <1>4, <1>5, <2>1 DEF Least
<1> QED BY <1>6, <1>7, <1>8, <1>9

\* The pieces are ranges of rows, and every row of the range is in one.
LEMMA PiecesCover ==
  ASSUME NEW lo \in Row, NEW hi \in Row, lo <= hi,
         NEW p \in 1 .. (hi - lo + 1)
  PROVE  /\ Pieces(lo, hi, p) \in Seq(KeyRange) /\ Len(Pieces(lo, hi, p)) = p
         /\ Pieces(lo, hi, p)[1].start = lo
         /\ \A i \in 1 .. p : lo <= Pieces(lo, hi, p)[i].start
         /\ \A r \in lo .. hi : \E i \in 1 .. p :
              r \in Pieces(lo, hi, p)[i].start .. Pieces(lo, hi, p)[i].end
<1> DEFINE P(i) == PieceStart(lo, hi, p, i)
<1>1. /\ lo \in Nat /\ hi \in Nat /\ lo >= 1 /\ hi <= N /\ N \in Nat
      /\ p \in Nat /\ p >= 1
  BY ConstantsOK DEF Row
<1>2. /\ P(0) = lo /\ P(p) = hi + 1
      /\ \A i \in 0 .. p : P(i) \in lo .. (hi + 1)
      /\ \A i \in 1 .. p : P(i - 1) < P(i)
  BY <1>1, PieceStarts
<1> HIDE DEF P
<1>3. Pieces(lo, hi, p) = [i \in 1 .. p |-> [start |-> P(i - 1), end |-> P(i) - 1]]
  BY DEF Pieces, P
<1>4. \A i \in 1 .. p : [start |-> P(i - 1), end |-> P(i) - 1] \in KeyRange
  <2> TAKE i \in 1 .. p
  <2>1. i - 1 \in 0 .. p /\ i \in 0 .. p
    BY <1>1
  <2>2. P(i - 1) \in lo .. (hi + 1) /\ P(i) \in lo .. (hi + 1) /\ P(i - 1) < P(i)
    BY <1>2, <2>1
  <2>3. P(i - 1) \in Row /\ P(i) - 1 \in Row
    BY <1>1, <2>2 DEF Row
  <2> QED BY <2>3 DEF KeyRange
<1>5. Pieces(lo, hi, p) \in Seq(KeyRange) /\ Len(Pieces(lo, hi, p)) = p
  BY <1>1, <1>3, <1>4, IsASeq
<1>6. \A i \in 1 .. p : /\ Pieces(lo, hi, p)[i].start = P(i - 1)
                        /\ Pieces(lo, hi, p)[i].end = P(i) - 1
  BY <1>3
<1>7. \A i \in 1 .. p : lo <= P(i - 1)
  BY <1>1, <1>2
<1>8. ASSUME NEW r \in lo .. hi
      PROVE  \E i \in 1 .. p : r \in P(i - 1) .. (P(i) - 1)
  <2> DEFINE T == {i \in 0 .. p : r < P(i)}
  <2>1. p \in T /\ T \in SUBSET Nat
    BY <1>1, <1>2
  <2>2. PICK x \in T : \A y \in T : x <= y
    BY <2>1, NatMin
  <2>3. x \in 1 .. p /\ x - 1 \in 0 .. p
    BY <1>1, <1>2, <2>2
  <2>4. x - 1 \notin T
    BY <2>2, <2>3
  <2>5. P(x - 1) <= r /\ r < P(x)
    BY <1>1, <1>2, <2>2, <2>3, <2>4
  <2>6. P(x) \in Nat /\ P(x - 1) \in Nat
    BY <1>1, <1>2, <2>3
  <2>7. r \in P(x - 1) .. (P(x) - 1)
    BY <1>1, <2>5, <2>6
  <2> QED BY <2>3, <2>7
<1>9. Pieces(lo, hi, p)[1].start = lo
  BY <1>1, <1>2, <1>6
<1> QED BY <1>5, <1>6, <1>7, <1>8, <1>9

\* The planned chunks are ranges of rows and every row is in one of them.
LEMMA PlannedCover ==
  /\ PlannedCount \in Nat
  /\ \A i \in 1 .. PlannedCount : Planned(i) \in KeyRange
  /\ \A r \in Row : \E i \in 1 .. PlannedCount :
       r \in Planned(i).start .. Planned(i).end
<1>1. N \in Nat \ {0} /\ Span \in Nat \ {0} /\ Span <= N
  BY ConstantsOK
<1> DEFINE top == N + Span - 1
           m == top % Span
<1>2. /\ PlannedCount \in Nat /\ m \in 0 .. (Span - 1)
      /\ Span * PlannedCount + m = top
  <2>1. top \in Nat
    BY <1>1
  <2> HIDE DEF top
  <2>2. Span * (top \div Span) + (top % Span) = top
    BY <1>1, <2>1, DivFacts
  <2>3. PlannedCount = top \div Span
    BY DEF PlannedCount, top
  <2> QED BY <1>1, <2>1, <2>2, <2>3, DivFacts
<1>3. PlannedCount * Span <= top /\ N <= PlannedCount * Span
  BY <1>1, <1>2
<1>4. \A i \in 0 .. PlannedCount : i * Span \in Nat /\ i * Span <= PlannedCount * Span
  BY <1>1, <1>2, MulMono
<1>5. \A i \in 1 .. PlannedCount : (i - 1) * Span + Span = i * Span
  BY <1>1, <1>2
<1>6. \A i \in 1 .. PlannedCount :
        (i - 1) * Span \in Nat /\ (i - 1) * Span < N /\ i * Span \in Nat
  <2> TAKE i \in 1 .. PlannedCount
  <2>1. i - 1 \in 0 .. PlannedCount /\ i \in 0 .. PlannedCount
    BY <1>2
  <2>2. (i - 1) * Span \in Nat /\ i * Span \in Nat /\ i * Span <= PlannedCount * Span
    BY <1>4, <2>1
  <2> HIDE DEF top, m
  <2>3. PlannedCount * Span <= N + Span - 1
    BY <1>3 DEF top
  <2>4. (i - 1) * Span + Span = i * Span
    BY <1>5
  <2>5. PlannedCount * Span \in Nat
    BY <1>1, <1>2
  <2> QED BY <1>1, <2>2, <2>3, <2>4, <2>5
<1>7. ASSUME NEW i \in 1 .. PlannedCount
      PROVE  /\ Planned(i).start = (i - 1) * Span + 1
             /\ Planned(i).end = Least(i * Span, N)
             /\ Planned(i) \in KeyRange
  <2>1. (i - 1) * Span \in Nat /\ (i - 1) * Span < N /\ i * Span \in Nat
    BY <1>6
  <2>2. i * Span >= 1
    BY <1>1, <1>5, <2>1
  <2>3. (i - 1) * Span + 1 \in Row
    BY <1>1, <2>1 DEF Row
  <2>4. Least(i * Span, N) \in Row
    BY <1>1, <2>1, <2>2 DEF Row, Least
  <2> QED BY <2>3, <2>4 DEF Planned, KeyRange
<1>8. ASSUME NEW r \in Row
      PROVE  \E i \in 1 .. PlannedCount : r \in Planned(i).start .. Planned(i).end
  <2>1. r \in Nat /\ 1 <= r /\ r <= N
    BY <1>1 DEF Row
  <2> DEFINE T == {i \in 0 .. PlannedCount : r <= i * Span}
  <2>2. PlannedCount \in T /\ T \in SUBSET Nat
    <3> HIDE DEF top, m
    <3>1. N <= PlannedCount * Span /\ PlannedCount * Span \in Nat
      BY <1>1, <1>2, <1>3
    <3> QED BY <1>1, <1>2, <2>1, <3>1
  <2>3. PICK x \in T : \A y \in T : x <= y
    BY <2>2, NatMin
  <2>4. x # 0
    <3>1. 0 * Span = 0
      BY <1>1
    <3> QED BY <2>1, <2>3, <3>1
  <2>5. x \in 1 .. PlannedCount /\ x - 1 \in 0 .. PlannedCount
    BY <1>2, <2>3, <2>4
  <2>6. ~(r <= (x - 1) * Span)
    BY <2>3, <2>5
  <2>7. (x - 1) * Span \in Nat /\ x * Span \in Nat
    BY <1>6, <2>5
  <2>8. r \in ((x - 1) * Span + 1) .. Least(x * Span, N)
    BY <1>1, <2>1, <2>3, <2>6, <2>7 DEF Least
  <2> QED BY <1>7, <2>5, <2>8
<1> QED BY <1>2, <1>7, <1>8

-----------------------------------------------------------------------------
(***************************************************************************)
(* What a step keeps.                                                      *)
(***************************************************************************)
\* The tables only grow: no chunk moves, no core range gets longer, and the
\* target keeps its rows.
TablesGrow ==
  /\ Len(chunks) <= Len(chunks')
  /\ Len(core) = Len(chunks) /\ Len(core') = Len(chunks')
  /\ \A i \in DOMAIN chunks :
       chunks'[i].start = chunks[i].start /\ core'[i] <= core[i]
  /\ written \subseteq written'

\* The parts of a typed state.
LEMMA Typed ==
  ASSUME TypeOK
  PROVE  /\ Len(chunks) \in Nat /\ DOMAIN chunks = 1 .. Len(chunks)
         /\ \A i \in DOMAIN chunks : chunks[i] \in Chunk
         /\ Len(core) \in Nat /\ DOMAIN core = 1 .. Len(core)
         /\ \A i \in DOMAIN core : core[i] \in Row
         /\ \A t \in Slots : job[t] \in Job
         /\ \A s \in Servers : op[s] \in Op
BY DEF TypeOK

\* What a job or a handler holds stays behind the tables when they grow.
LEMMA BehindGrowing ==
  ASSUME TypeOK, TypeOK', TablesGrow
  PROVE  /\ \A c \in Chunk, i \in DOMAIN chunks :
              VersionOf(c, i) => VersionOf(c, i)'
         /\ \A j \in Job : JobBehind(j) => JobBehind(j)'
         /\ \A o \in Op : HandlerBehind(o) => HandlerBehind(o)'
<1>1. /\ Len(chunks) \in Nat /\ DOMAIN chunks = 1 .. Len(chunks)
      /\ Len(chunks') \in Nat /\ DOMAIN chunks' = 1 .. Len(chunks')
  BY DEF TypeOK
<1>2. DOMAIN chunks \subseteq DOMAIN chunks'
  BY <1>1 DEF TablesGrow
<1>3. \A i \in DOMAIN chunks :
        core[i] \in Row /\ core'[i] \in Row /\ core'[i] <= core[i]
  <2>1. core \in Seq(Row) /\ core' \in Seq(Row)
    BY DEF TypeOK
  <2> QED BY <1>1, <1>2, <2>1 DEF TablesGrow
<1>4. ASSUME NEW c \in Chunk, NEW i \in DOMAIN chunks, VersionOf(c, i)
      PROVE  VersionOf(c, i)'
  BY <1>3, <1>4 DEF VersionOf, TablesGrow, Chunk, Row
<1>5. ASSUME NEW j \in Job, JobBehind(j)
      PROVE  JobBehind(j)'
  BY <1>2, <1>3, <1>5 DEF JobBehind, TablesGrow, Job, Row
<1>6. ASSUME NEW o \in Op, HandlerBehind(o)
      PROVE  HandlerBehind(o)'
  <2>1. o.snap \in Chunk /\ o.view \in Seq(Chunk) /\ o.id \in Nat
    BY DEF Op
  <2>2. o.pc \in {"complete", "yield", "fail", "failchunk"} =>
          o.id \in DOMAIN chunks' /\ VersionOf(o.snap, o.id)'
    BY <1>2, <1>4, <1>6, <2>1 DEF HandlerBehind
  <2>3. o.pc = "complete" => o.snap.start .. core'[o.id] \subseteq written'
    <3> SUFFICES ASSUME o.pc = "complete"
                 PROVE  o.snap.start .. core'[o.id] \subseteq written'
      OBVIOUS
    <3>1. o.id \in DOMAIN chunks /\ o.snap.start .. core[o.id] \subseteq written
      BY <1>6 DEF HandlerBehind
    <3>2. o.snap.start \in Int
      BY <2>1 DEF Chunk, Row
    <3> QED BY <1>3, <3>1, <3>2 DEF TablesGrow, Row
  <2>4. o.pc = "yield" =>
          o.snap.start <= o.after /\ o.snap.start .. o.after \subseteq written'
    BY <1>6 DEF HandlerBehind, TablesGrow
  <2>5. o.pc = "split" =>
          /\ o.at >= 1 /\ Len(o.view) <= Len(chunks')
          /\ \A i \in DOMAIN o.view : VersionOf(o.view[i], i)'
    <3> SUFFICES ASSUME o.pc = "split"
                 PROVE  /\ o.at >= 1 /\ Len(o.view) <= Len(chunks')
                        /\ \A i \in DOMAIN o.view : VersionOf(o.view[i], i)'
      OBVIOUS
    <3>1. /\ o.at >= 1 /\ Len(o.view) <= Len(chunks)
          /\ \A i \in DOMAIN o.view : VersionOf(o.view[i], i)
      BY <1>6 DEF HandlerBehind
    <3>2. /\ Len(o.view) \in Nat /\ DOMAIN o.view = 1 .. Len(o.view)
          /\ \A i \in DOMAIN o.view : o.view[i] \in Chunk
      BY <2>1
    <3>3. DOMAIN o.view \subseteq DOMAIN chunks
      BY <1>1, <3>1, <3>2
    <3> QED BY <1>1, <1>4, <3>1, <3>2, <3>3 DEF TablesGrow
  <2> QED BY <1>6, <2>2, <2>3, <2>4, <2>5 DEF HandlerBehind
<1> QED BY <1>4, <1>5, <1>6

\* Coverage survives a step that keeps every core range, or says where the
\* rows it took from one are, and that says the same of the pieces.
LEMMA StillCovered ==
  ASSUME TypeOK, TypeOK', TablesGrow, RowsCovered,
         orphaned \subseteq orphaned',
         \A i \in DOMAIN chunks' : ChunkBehind(i)',
         \A r \in Row, i \in DOMAIN chunks :
           chunks[i].start <= r /\ r <= core[i] /\ core'[i] < r =>
             r \in written' \/ InPieces(r)' \/ InOpenChunk(r)',
         \A r \in Row : InPieces(r) =>
             r \in orphaned' \/ InPieces(r)' \/ InOpenChunk(r)'
  PROVE  RowsCovered'
<1> SUFFICES ASSUME NEW r \in Row
             PROVE  (r \in written \/ r \in orphaned \/ InOpenChunk(r) \/ InPieces(r))'
  BY DEF RowsCovered
<1>1. r \in written \/ r \in orphaned \/ InOpenChunk(r) \/ InPieces(r)
  BY DEF RowsCovered
<1>2. CASE InOpenChunk(r)
  <2>1. PICK i \in DOMAIN chunks : chunks[i].start <= r /\ r <= core[i]
    BY <1>2 DEF InOpenChunk
  <2>2. i \in DOMAIN chunks' /\ chunks'[i].start = chunks[i].start
    BY DEF TablesGrow, TypeOK
  <2>3. core[i] \in Int /\ core'[i] \in Int /\ chunks[i].start \in Int /\ r \in Int
    <3>1. core \in Seq(Row) /\ core' \in Seq(Row) /\ chunks[i] \in Chunk
      BY DEF TypeOK
    <3>2. core[i] \in Row /\ core'[i] \in Row
      BY <2>2, <3>1 DEF TablesGrow, TypeOK
    <3> QED BY <3>1, <3>2 DEF Row, Chunk
  <2>4. CASE r <= core'[i]
    BY <2>1, <2>2, <2>3, <2>4 DEF InOpenChunk, ChunkBehind
  <2> QED BY <2>1, <2>3, <2>4
<1> QED BY <1>1, <1>2 DEF TablesGrow

\* What is left to show of a step once the tables grow.
LEMMA InductiveKept ==
  ASSUME Inductive, TypeOK', TablesGrow, orphaned \subseteq orphaned',
         \A i \in DOMAIN chunks' : ChunkBehind(i)',
         \A t \in Slots : job'[t] = job[t] \/ JobBehind(job[t])',
         \A s \in Servers : op'[s] = op[s] \/ HandlerBehind(op[s])',
         \A r \in Row, i \in DOMAIN chunks :
           chunks[i].start <= r /\ r <= core[i] /\ core'[i] < r =>
             r \in written' \/ InPieces(r)' \/ InOpenChunk(r)',
         \A r \in Row : InPieces(r) =>
             r \in orphaned' \/ InPieces(r)' \/ InOpenChunk(r)',
         SingleServer /\ FinishSeen' =>
             FinishSeen \/ Row \subseteq written' \cup orphaned'
  PROVE  Inductive'
<1>1. TypeOK /\ RowsCovered
  BY DEF Inductive
<1>2. Len(core') = Len(chunks') /\ written \subseteq written'
  BY DEF TablesGrow
<1>3. ASSUME NEW t \in Slots
      PROVE  JobBehind(job[t])'
  <2>1. job[t] \in Job /\ JobBehind(job[t])
    BY DEF Inductive, TypeOK
  <2>2. CASE job'[t] = job[t]
    BY <1>1, <2>1, <2>2, BehindGrowing DEF JobBehind
  <2> QED BY <2>2
<1>4. ASSUME NEW s \in Servers
      PROVE  HandlerBehind(op[s])'
  <2>1. op[s] \in Op /\ HandlerBehind(op[s])
    BY DEF Inductive, TypeOK
  <2>2. CASE op'[s] = op[s]
    BY <1>1, <2>1, <2>2, BehindGrowing DEF HandlerBehind, VersionOf
  <2> QED BY <2>2
<1>5. RowsCovered'
  BY <1>1, StillCovered
<1>6. (SingleServer /\ FinishSeen => Row \subseteq written \cup orphaned)'
  BY <1>2 DEF Inductive, SingleServer
<1> QED BY <1>2, <1>3, <1>4, <1>5, <1>6 DEF Inductive

\* The tables of a step that writes neither of them.
LEMMA SameTables ==
  ASSUME Inductive, UNCHANGED <<chunks, core>>, written \subseteq written'
  PROVE  /\ TablesGrow
         /\ \A i \in DOMAIN chunks' : ChunkBehind(i)'
         /\ \A r \in Row, i \in DOMAIN chunks : r <= core[i] => ~(core'[i] < r)
<1>1. Len(chunks) \in Nat /\ Len(core) = Len(chunks) /\ core \in Seq(Row)
      /\ DOMAIN chunks = 1 .. Len(chunks)
  BY DEF Inductive, TypeOK
<1>2. \A i \in DOMAIN chunks : core[i] \in Row
  BY <1>1
<1>3. TablesGrow
  BY <1>1, <1>2 DEF TablesGrow, Row
<1>4. \A i \in DOMAIN chunks' : ChunkBehind(i)'
  BY DEF Inductive, ChunkBehind
<1>5. \A r \in Row, i \in DOMAIN chunks : r <= core[i] => ~(core'[i] < r)
  BY <1>2 DEF Row
<1> QED BY <1>3, <1>4, <1>5

\* A step of one slot that touches nothing but its job and the bounds.
LEMMA JobStep ==
  ASSUME Inductive, NEW t \in Slots, NEW j \in Job, JobBehind(j),
         job' = [job EXCEPT ![t] = j],
         UNCHANGED <<task, command, chunks, op, written, core, orphaned>>,
         budget' \in Budget
  PROVE  Inductive'
<1>1. TypeOK'
  BY DEF Inductive, TypeOK
<1>2. /\ TablesGrow
      /\ \A i \in DOMAIN chunks' : ChunkBehind(i)'
      /\ \A r \in Row, i \in DOMAIN chunks : r <= core[i] => ~(core'[i] < r)
  BY SameTables
<1>3. \A u \in Slots : job'[u] = job[u] \/ JobBehind(job[u])'
  BY DEF Inductive, TypeOK, JobBehind
<1>5. FinishSeen' => FinishSeen
  BY DEF FinishSeen
<1>6. \A r \in Row : InPieces(r) => InPieces(r)'
  BY DEF InPieces
<1> QED BY <1>1, <1>2, <1>3, <1>5, <1>6, InductiveKept

\* A step of one handler that writes no table but the task row.
LEMMA HandlerStep ==
  ASSUME Inductive, NEW s \in Servers, NEW o \in Op, HandlerBehind(o),
         o.pieces = op[s].pieces,
         op' = [op EXCEPT ![s] = o],
         UNCHANGED <<command, chunks, written, core, orphaned>>,
         task' \in TaskStatus, job' \in [Slots -> Job],
         \A t \in Slots : job'[t] = job[t] \/ job'[t] = IdleJob,
         budget' \in Budget,
         SingleServer /\ (\/ task' = "FULL_FINISHED"
                          \/ o.seen = "FULL_FINISHED"
                          \/ o.pc = "store" /\ o.allDone) =>
           FinishSeen \/ Row \subseteq written \cup orphaned
  PROVE  Inductive'
<1>1. TypeOK'
  BY DEF Inductive, TypeOK
<1>2. /\ TablesGrow
      /\ \A i \in DOMAIN chunks' : ChunkBehind(i)'
      /\ \A r \in Row, i \in DOMAIN chunks : r <= core[i] => ~(core'[i] < r)
  BY SameTables
<1>3. \A u \in Slots : job'[u] = job[u] \/ JobBehind(job[u])'
  BY DEF JobBehind, IdleJob
<1>4. \A u \in Servers : op'[u] = op[u] \/ HandlerBehind(op[u])'
  BY DEF Inductive, TypeOK, HandlerBehind, VersionOf
<1>5. SingleServer /\ FinishSeen' => FinishSeen \/ Row \subseteq written' \cup orphaned'
  BY DEF FinishSeen, Inductive, TypeOK
<1>6. \A r \in Row : InPieces(r) => InPieces(r)'
  BY DEF InPieces, Inductive, TypeOK
<1> QED BY <1>1, <1>2, <1>3, <1>4, <1>5, <1>6, InductiveKept

-----------------------------------------------------------------------------
(***************************************************************************)
(* The bounds.                                                             *)
(***************************************************************************)
\* Taking one from a bound that is not used up keeps the budget's type.
LEMMA BudgetSpent ==
  ASSUME TypeOK
  PROVE  /\ budget.rebalances > 0 => [budget EXCEPT !.rebalances = @ - 1] \in Budget
         /\ budget.faults > 0 => [budget EXCEPT !.faults = @ - 1] \in Budget
         /\ budget.aborts > 0 => [budget EXCEPT !.aborts = @ - 1] \in Budget
         /\ budget.commands > 0 => [budget EXCEPT !.commands = @ - 1] \in Budget
         /\ budget.flow > 0 => [budget EXCEPT !.flow = @ - 1] \in Budget
<1>1. /\ MaxRebalances \in Nat /\ MaxFaults \in Nat /\ MaxAborts \in Nat
      /\ MaxCommands \in Nat /\ MaxFlowWrites \in Nat
  BY ConstantsOK
<1>2. budget \in Budget
  BY DEF TypeOK
<1>3. budget.rebalances > 0 => [budget EXCEPT !.rebalances = @ - 1] \in Budget
  BY <1>1, <1>2 DEF Budget
<1>4. budget.faults > 0 => [budget EXCEPT !.faults = @ - 1] \in Budget
  BY <1>1, <1>2 DEF Budget
<1>5. budget.aborts > 0 => [budget EXCEPT !.aborts = @ - 1] \in Budget
  BY <1>1, <1>2 DEF Budget
<1>6. budget.commands > 0 => [budget EXCEPT !.commands = @ - 1] \in Budget
  BY <1>1, <1>2 DEF Budget
<1>7. budget.flow > 0 => [budget EXCEPT !.flow = @ - 1] \in Budget
  BY <1>1, <1>2 DEF Budget
<1> QED BY <1>3, <1>4, <1>5, <1>6, <1>7

(***************************************************************************)
(* Steps of a slot that touch only its job.                                *)
(***************************************************************************)
\* A job that goes on to a phase that promises nothing more stays behind.
LEMMA NextPhase ==
  ASSUME Inductive, NEW t \in Slots,
         NEW ph \in {"copy", "report", "renew", "failed"}, job[t].phase # "idle"
  PROVE  /\ [job[t] EXCEPT !.phase = ph] \in Job
         /\ JobBehind([job[t] EXCEPT !.phase = ph])
BY DEF Inductive, TypeOK, Job, JobBehind

LEMMA IdleJobOK == IdleJob \in Job /\ JobBehind(IdleJob)
BY ConstantsOK DEF IdleJob, Job, JobBehind, Row

LEMMA StepRenewRead ==
  ASSUME Inductive, NEW t \in Slots, RenewRead(t)
  PROVE  Inductive'
<1> DEFINE ph == IF task = "FULL_MIGRATING" THEN "renew" ELSE "failed"
<1>1. /\ [job[t] EXCEPT !.phase = ph] \in Job
      /\ JobBehind([job[t] EXCEPT !.phase = ph])
  BY NextPhase DEF RenewRead
<1>2. job' = [job EXCEPT ![t] = [job[t] EXCEPT !.phase = ph]] /\ budget' \in Budget
  BY DEF RenewRead, Inductive, TypeOK
<1> QED BY <1>1, <1>2, JobStep DEF RenewRead

LEMMA StepRenewRefused ==
  ASSUME Inductive, NEW t \in Slots, RenewRefused(t)
  PROVE  Inductive'
<1>1. /\ [job[t] EXCEPT !.phase = "failed"] \in Job
      /\ JobBehind([job[t] EXCEPT !.phase = "failed"])
  BY NextPhase DEF RenewRefused
<1>2. job' = [job EXCEPT ![t] = [job[t] EXCEPT !.phase = "failed"]] /\ budget' \in Budget
  BY DEF RenewRefused, Inductive, TypeOK
<1> QED BY <1>1, <1>2, JobStep DEF RenewRefused

LEMMA StepFinishReading ==
  ASSUME Inductive, NEW t \in Slots, FinishReading(t)
  PROVE  Inductive'
<1>1. /\ [job[t] EXCEPT !.phase = "done"] \in Job
      /\ JobBehind([job[t] EXCEPT !.phase = "done"])
  BY DEF FinishReading, Inductive, TypeOK, Job, JobBehind, Row
<1>2. job' = [job EXCEPT ![t] = [job[t] EXCEPT !.phase = "done"]] /\ budget' \in Budget
  BY DEF FinishReading, Inductive, TypeOK
<1> QED BY <1>1, <1>2, JobStep DEF FinishReading

LEMMA StepJobError ==
  ASSUME Inductive, NEW t \in Slots, JobError(t)
  PROVE  Inductive'
<1>1. /\ [job[t] EXCEPT !.phase = "failed"] \in Job
      /\ JobBehind([job[t] EXCEPT !.phase = "failed"])
  BY NextPhase DEF JobError
<1>2. job' = [job EXCEPT ![t] = [job[t] EXCEPT !.phase = "failed"]] /\ budget' \in Budget
  BY BudgetSpent DEF JobError, Inductive, TypeOK
<1> QED BY <1>1, <1>2, JobStep DEF JobError

LEMMA StepWorkerStops ==
  ASSUME Inductive, NEW t \in Slots, WorkerStops(t)
  PROVE  Inductive'
<1>1. job' = [job EXCEPT ![t] = IdleJob] /\ budget' \in Budget
  BY BudgetSpent DEF WorkerStops, Inductive
<1> QED BY <1>1, IdleJobOK, JobStep DEF WorkerStops

(***************************************************************************)
(* Steps that write only the task row.                                     *)
(***************************************************************************)
\* The task row alone is written, with a status that does not end the copy.
LEMMA TaskStep ==
  ASSUME Inductive, UNCHANGED <<chunks, job, op, written, core, orphaned>>,
         task' \in TaskStatus, task' = "FULL_FINISHED" => task = "FULL_FINISHED",
         command' \in {"none", "PAUSED", "FULL_MIGRATING", "CANCELLED"},
         budget' \in Budget
  PROVE  Inductive'
<1>1. TypeOK'
  BY DEF Inductive, TypeOK
<1>2. /\ TablesGrow
      /\ \A i \in DOMAIN chunks' : ChunkBehind(i)'
      /\ \A r \in Row, i \in DOMAIN chunks : r <= core[i] => ~(core'[i] < r)
  BY SameTables
<1>3. FinishSeen' => FinishSeen
  BY DEF FinishSeen
<1>4. \A r \in Row : InPieces(r) => InPieces(r)'
  BY DEF InPieces
<1> QED BY <1>1, <1>2, <1>3, <1>4, InductiveKept

LEMMA StepFlowWrite ==
  ASSUME Inductive, NEW t \in Slots, FlowWrite(t)
  PROVE  Inductive'
<1>1. budget' \in Budget
  BY BudgetSpent DEF FlowWrite, Inductive
<1> QED BY <1>1, TaskStep DEF FlowWrite, Inductive, TypeOK, TaskStatus

LEMMA StepOperator ==
  ASSUME Inductive, Operator
  PROVE  Inductive'
<1>1. budget' \in Budget
  BY BudgetSpent DEF Operator, Pause, Resume, Cancel, Command, CommandStore,
                     Inductive, TypeOK
<1>2. /\ task' \in TaskStatus /\ (task' = "FULL_FINISHED" => task = "FULL_FINISHED")
      /\ command' \in {"none", "PAUSED", "FULL_MIGRATING", "CANCELLED"}
  BY DEF Operator, Pause, Resume, Cancel, Command, CommandStore,
         Inductive, TypeOK, TaskStatus
<1>3. UNCHANGED <<chunks, job, op, written, core, orphaned>>
  BY DEF Operator, Pause, Resume, Cancel, Command, CommandStore
<1> QED BY <1>1, <1>2, <1>3, TaskStep

(***************************************************************************)
(* Steps that write chunks but not their ranges: claims, renewals and lease *)
(* expiry.                                                                 *)
(***************************************************************************)
\* Every chunk keeps its range, none becomes successful, and every cursor is
\* behind the target.
LEMMA ChunkStep ==
  ASSUME Inductive, UNCHANGED <<task, command, op, written, core, orphaned>>,
         chunks' \in Seq(Chunk), Len(chunks') = Len(chunks),
         \A i \in DOMAIN chunks :
           /\ chunks'[i].start = chunks[i].start /\ chunks'[i].end = chunks[i].end
           /\ chunks'[i].status = "SUCCESS" => chunks[i].status = "SUCCESS"
           /\ chunks[i].start .. chunks'[i].cursor \subseteq written,
         job' \in [Slots -> Job],
         \A t \in Slots : job'[t] = job[t] \/ JobBehind(job[t])',
         budget' \in Budget
  PROVE  Inductive'
<1>1. TypeOK'
  BY DEF Inductive, TypeOK
<1>2. Len(core) = Len(chunks) /\ core \in Seq(Row) /\ chunks \in Seq(Chunk)
  BY DEF Inductive, TypeOK
<1>3. \A i \in DOMAIN chunks : core[i] \in Row
  BY <1>2
<1>4. DOMAIN chunks' = DOMAIN chunks /\ Len(chunks) \in Nat
  BY <1>2
<1>5. TablesGrow
  BY <1>2, <1>3, <1>4 DEF TablesGrow, Row
<1>6. \A i \in DOMAIN chunks' : ChunkBehind(i)'
  BY <1>4 DEF ChunkBehind, Inductive
<1>7. \A r \in Row, i \in DOMAIN chunks : r <= core[i] => ~(core'[i] < r)
  BY <1>3 DEF Row
<1>8. FinishSeen' => FinishSeen
  BY DEF FinishSeen
<1>9. \A r \in Row : InPieces(r) => InPieces(r)'
  BY DEF InPieces
<1> QED BY <1>1, <1>5, <1>6, <1>7, <1>8, <1>9, InductiveKept

\* Reclaiming changes neither range nor cursor and makes no chunk successful.
LEMMA ReclaimKeeps ==
  ASSUME Inductive
  PROVE  /\ AfterReclaim \in Seq(Chunk) /\ Len(AfterReclaim) = Len(chunks)
         /\ DOMAIN AfterReclaim = DOMAIN chunks
         /\ \A i \in DOMAIN chunks :
              /\ AfterReclaim[i] \in Chunk
              /\ AfterReclaim[i].start = chunks[i].start
              /\ AfterReclaim[i].end = chunks[i].end
              /\ AfterReclaim[i].cursor = chunks[i].cursor
              /\ AfterReclaim[i].status = "SUCCESS" => chunks[i].status = "SUCCESS"
<1>1. /\ Len(chunks) \in Nat /\ DOMAIN chunks = 1 .. Len(chunks)
      /\ \A i \in DOMAIN chunks : chunks[i] \in Chunk
  BY Typed DEF Inductive
<1>2. ASSUME NEW c \in Chunk
      PROVE  /\ Reclaimed(c) \in Chunk /\ Reclaimed(c).start = c.start
             /\ Reclaimed(c).end = c.end /\ Reclaimed(c).cursor = c.cursor
             /\ Reclaimed(c).status = "SUCCESS" => c.status = "SUCCESS"
  <2>1. CASE c.status = "RUNNING" /\ c.lease = "expired"
    <3>1. Reclaimed(c) = [c EXCEPT !.status = "PENDING", !.owner = NoWorker,
                                   !.lease = "none", !.retries = c.retries + 1]
      BY <2>1 DEF Reclaimed
    <3>2. c.retries + 1 \in Nat
      BY DEF Chunk
    <3>3. Reclaimed(c) \in Chunk
      BY <3>1, <3>2 DEF Chunk
    <3>4. /\ Reclaimed(c).start = c.start /\ Reclaimed(c).end = c.end
          /\ Reclaimed(c).cursor = c.cursor /\ Reclaimed(c).status = "PENDING"
      BY <3>1 DEF Chunk
    <3> QED BY <3>3, <3>4
  <2>2. CASE ~(c.status = "RUNNING" /\ c.lease = "expired")
    BY <2>2 DEF Reclaimed
  <2> QED BY <2>1, <2>2
<1>3. AfterReclaim = [i \in 1 .. Len(chunks) |-> Reclaimed(chunks[i])]
  BY <1>1 DEF AfterReclaim
<1>4. AfterReclaim \in Seq(Chunk) /\ Len(AfterReclaim) = Len(chunks)
  BY <1>1, <1>2, <1>3, IsASeq
<1> QED BY <1>1, <1>2, <1>3, <1>4

LEMMA StepClaim ==
  ASSUME Inductive, NEW t \in Slots, Claim(t)
  PROVE  Inductive'
<1>1. PICK i \in Claimable :
        /\ chunks' = [AfterReclaim EXCEPT ![i].status = "RUNNING",
                                          ![i].owner = WorkerOf[t],
                                          ![i].lease = "live"]
        /\ job' = [job EXCEPT ![t] = JobFor(i)]
  BY DEF Claim
<1>2. i \in DOMAIN chunks
  BY <1>1 DEF Claimable
<1>3. WorkerOf[t] \in Workers
  BY ConstantsOK
<1> DEFINE a == AfterReclaim[i]
           c == [AfterReclaim[i] EXCEPT !.status = "RUNNING",
                                        !.owner = WorkerOf[t], !.lease = "live"]
<1>4. chunks' = [AfterReclaim EXCEPT ![i] = c]
  BY <1>1, <1>2, ReclaimKeeps
<1>5. c \in Chunk /\ c.start = a.start /\ c.end = a.end /\ c.cursor = a.cursor
      /\ c.status = "RUNNING"
  BY <1>2, <1>3, ReclaimKeeps DEF Chunk
<1> HIDE DEF c
<1>6. chunks' \in Seq(Chunk) /\ Len(chunks') = Len(chunks)
  BY <1>2, <1>4, <1>5, ReclaimKeeps, ExceptSeq
<1>7. \A k \in DOMAIN chunks :
        /\ chunks'[k].start = chunks[k].start /\ chunks'[k].end = chunks[k].end
        /\ chunks'[k].status = "SUCCESS" => chunks[k].status = "SUCCESS"
        /\ chunks'[k].cursor = chunks[k].cursor
  BY <1>2, <1>4, <1>5, ReclaimKeeps
<1>8. \A k \in DOMAIN chunks : chunks[k].start .. chunks'[k].cursor \subseteq written
  BY <1>7 DEF Inductive, ChunkBehind
<1>9. JobFor(i) \in Job /\ JobBehind(JobFor(i))
  <2>1. chunks[i] \in Chunk /\ ChunkBehind(i) /\ i \in Nat
    BY <1>2, Typed DEF Inductive
  <2>2. N \in Nat /\ N >= 1
    BY ConstantsOK
  <2>3. JobFor(i) \in Job
    BY <2>1, <2>2 DEF JobFor, Job, Chunk, Row
  <2>4. JobBehind(JobFor(i))
    BY <1>2, <2>1, <2>2 DEF JobFor, JobBehind, ChunkBehind, Chunk, Row
  <2> QED BY <2>3, <2>4
<1>10. job' \in [Slots -> Job] /\ \A u \in Slots : u # t => job'[u] = job[u]
  BY <1>1, <1>9 DEF Inductive, TypeOK
<1>11. \A k \in DOMAIN chunks : core'[k] = core[k]
  BY DEF Claim
<1>12. JobBehind(job[t])'
  <2>1. JobFor(i).chunk = i /\ JobFor(i).phase = "copy"
    BY DEF JobFor
  <2>2. i \in DOMAIN chunks'
    BY <1>2, <1>6, Typed DEF Inductive
  <2>3. job'[t] = JobFor(i) /\ written' = written /\ core' = core
    BY <1>1 DEF Claim, Inductive, TypeOK
  <2> QED BY <1>2, <1>7, <1>9, <2>1, <2>2, <2>3 DEF JobBehind
<1> QED BY <1>6, <1>7, <1>8, <1>10, <1>12, ChunkStep DEF Claim, Inductive, TypeOK

LEMMA StepPollReclaims ==
  ASSUME Inductive, NEW t \in Slots, PollReclaims(t)
  PROVE  Inductive'
<1>1. \A k \in DOMAIN chunks : chunks[k].start .. chunks'[k].cursor \subseteq written
  BY ReclaimKeeps DEF PollReclaims, Inductive, ChunkBehind
<1>2. job' \in [Slots -> Job] /\ budget' \in Budget
  BY DEF PollReclaims, Inductive, TypeOK
<1> QED BY <1>1, <1>2, ReclaimKeeps, ChunkStep DEF PollReclaims

\* One chunk of the table is replaced.
LEMMA OneChunkStep ==
  ASSUME Inductive, UNCHANGED <<task, command, op, written, core, orphaned>>,
         NEW i \in DOMAIN chunks, NEW c \in Chunk,
         chunks' = [chunks EXCEPT ![i] = c],
         c.start = chunks[i].start, c.end = chunks[i].end,
         c.status = "SUCCESS" => chunks[i].status = "SUCCESS",
         c.start .. c.cursor \subseteq written,
         job' \in [Slots -> Job],
         \A t \in Slots : job'[t] = job[t] \/ JobBehind(job[t])',
         budget' \in Budget
  PROVE  Inductive'
<1>1. chunks \in Seq(Chunk)
  BY DEF Inductive, TypeOK
<1>2. chunks' \in Seq(Chunk) /\ Len(chunks') = Len(chunks)
  BY <1>1, ExceptSeq
<1>3. \A k \in DOMAIN chunks : chunks[k].start .. chunks[k].cursor \subseteq written
  BY DEF Inductive, ChunkBehind
<1>4. \A k \in DOMAIN chunks :
        /\ chunks'[k].start = chunks[k].start /\ chunks'[k].end = chunks[k].end
        /\ chunks'[k].status = "SUCCESS" => chunks[k].status = "SUCCESS"
        /\ chunks[k].start .. chunks'[k].cursor \subseteq written
  BY <1>3
<1> QED BY <1>2, <1>4, ChunkStep

LEMMA StepLeaseExpires ==
  ASSUME Inductive, NEW i \in DOMAIN chunks, LeaseExpires(i)
  PROVE  Inductive'
<1> DEFINE c == [chunks[i] EXCEPT !.lease = "expired"]
<1>1. chunks[i] \in Chunk /\ ChunkBehind(i)
  BY Typed DEF Inductive
<1>2. c \in Chunk /\ c.start = chunks[i].start /\ c.end = chunks[i].end
      /\ c.status = chunks[i].status /\ c.start .. c.cursor \subseteq written
  BY <1>1 DEF Chunk, ChunkBehind
<1>3. chunks' = [chunks EXCEPT ![i] = c]
  BY DEF LeaseExpires
<1>4. budget' \in Budget
  BY BudgetSpent DEF LeaseExpires, Inductive, TypeOK
<1>5. job' \in [Slots -> Job] /\ job' = job
  BY DEF LeaseExpires, Inductive, TypeOK
<1> HIDE DEF c
<1> QED BY <1>2, <1>3, <1>4, <1>5, OneChunkStep DEF LeaseExpires

\* The row a renewal stores.
RenewedChunk(t) ==
  [chunks[job[t].chunk] EXCEPT !.cursor = job[t].next - 1, !.lease = "live"]

\* A renewal stores a cursor the target is ahead of.
LEMMA RenewedBehind ==
  ASSUME Inductive, NEW t \in Slots, job[t].phase = "renew"
  PROVE  LET i == job[t].chunk
             c == RenewedChunk(t)
         IN /\ i \in DOMAIN chunks /\ c \in Chunk
            /\ c.start = chunks[i].start /\ c.end = chunks[i].end
            /\ c.status = chunks[i].status /\ c.start .. c.cursor \subseteq written
            /\ Renewed(t) = [chunks EXCEPT ![i] = c]
<1> DEFINE i == job[t].chunk
<1>1. JobBehind(job[t]) /\ job[t] \in Job
  BY DEF Inductive, TypeOK
<1>2. i \in DOMAIN chunks /\ chunks[i].start .. (job[t].next - 1) \subseteq written
  BY <1>1 DEF JobBehind
<1>3. chunks[i] \in Chunk /\ job[t].next - 1 \in 0 .. N
  BY <1>1, <1>2, ConstantsOK, Typed DEF Inductive, Job
<1>4. RenewedChunk(t) \in Chunk
  BY <1>3 DEF Chunk, RenewedChunk
<1>5. Renewed(t) = [chunks EXCEPT ![i] = RenewedChunk(t)]
  BY <1>2 DEF Renewed, RenewedChunk
<1> QED BY <1>2, <1>3, <1>4, <1>5 DEF Chunk, RenewedChunk

LEMMA StepRenew ==
  ASSUME Inductive, NEW t \in Slots, Renew(t)
  PROVE  Inductive'
<1> DEFINE i == job[t].chunk
           c == RenewedChunk(t)
           j == [job[t] EXCEPT !.phase = "copy"]
<1>1. /\ i \in DOMAIN chunks /\ c \in Chunk
      /\ c.start = chunks[i].start /\ c.end = chunks[i].end
      /\ c.status = chunks[i].status /\ c.start .. c.cursor \subseteq written
      /\ chunks' = [chunks EXCEPT ![i] = c]
  BY RenewedBehind DEF Renew
<1>2. j \in Job /\ JobBehind(j)
  BY NextPhase DEF Renew
<1>3. job' = [job EXCEPT ![t] = j] /\ job' \in [Slots -> Job] /\ job'[t] = j
  BY <1>2 DEF Renew, Inductive, TypeOK
<1>4. JobBehind(job[t])'
  <2>1. DOMAIN chunks' = DOMAIN chunks /\ chunks'[i].start = chunks[i].start
    BY <1>1
  <2>2. j.chunk = i
    BY DEF Inductive, TypeOK, Job
  <2> HIDE DEF j, c, i
  <2> QED BY <1>2, <1>3, <2>1, <2>2 DEF JobBehind, Renew
<1>5. budget' \in Budget /\ \A u \in Slots : job'[u] = job[u] \/ u = t
  BY <1>3 DEF Renew, Inductive, TypeOK
<1> HIDE DEF i, j, c
<1> QED BY <1>1, <1>3, <1>4, <1>5, OneChunkStep DEF Renew

LEMMA StepRenewAndYield ==
  ASSUME Inductive, NEW t \in Slots, RenewAndYield(t)
  PROVE  Inductive'
<1> DEFINE i == job[t].chunk
           c == RenewedChunk(t)
           j == [job[t] EXCEPT !.phase = "yield"]
<1>1. /\ i \in DOMAIN chunks /\ c \in Chunk
      /\ c.start = chunks[i].start /\ c.end = chunks[i].end
      /\ c.status = chunks[i].status /\ c.start .. c.cursor \subseteq written
      /\ chunks' = [chunks EXCEPT ![i] = c]
  BY RenewedBehind DEF RenewAndYield
<1>2. j \in Job /\ j.chunk = i /\ JobBehind(j)
  <2>1. job[t] \in Job /\ JobBehind(job[t]) /\ chunks[i] \in Chunk
    BY <1>1, Typed DEF Inductive
  <2>2. j \in Job /\ j.chunk = i
    BY <2>1 DEF Job
  <2>3. job[t].next - 1 >= chunks[i].start /\ job[t].phase # "idle"
    BY DEF RenewAndYield
  <2>4. chunks[i].start < job[t].next
    BY <2>1, <2>3 DEF Job, Chunk, Row
  <2> QED BY <2>1, <2>2, <2>3, <2>4 DEF JobBehind, Job
<1>3. job' = [job EXCEPT ![t] = j] /\ job' \in [Slots -> Job] /\ job'[t] = j
  BY <1>2 DEF RenewAndYield, Inductive, TypeOK
<1>4. JobBehind(job[t])'
  <2>1. DOMAIN chunks' = DOMAIN chunks /\ chunks'[i].start = chunks[i].start
    BY <1>1
  <2> HIDE DEF j, c, i
  <2> QED BY <1>2, <1>3, <2>1 DEF JobBehind, RenewAndYield
<1>5. budget' \in Budget
  BY BudgetSpent DEF RenewAndYield, Inductive
<1>6. \A u \in Slots : job'[u] = job[u] \/ u = t
  BY <1>3 DEF Inductive, TypeOK
<1> HIDE DEF i, j, c
<1> QED BY <1>1, <1>3, <1>4, <1>5, <1>6, OneChunkStep DEF RenewAndYield

LEMMA StepWriteBatch ==
  ASSUME Inductive, NEW t \in Slots, WriteBatch(t)
  PROVE  Inductive'
<1> DEFINE j == job[t]
<1>1. PICK last \in j.next .. Least(j.next + MaxBatch - 1, j.end) :
        /\ written' = written \cup (j.next .. last)
        /\ job' = [job EXCEPT ![t].next = last + 1, ![t].phase = "report"]
  BY DEF WriteBatch
<1>2. j \in Job /\ JobBehind(j) /\ j.phase = "copy" /\ j.next <= j.end
  BY DEF WriteBatch, Inductive, TypeOK
<1>3. N \in Nat /\ MaxBatch \in Nat
  BY ConstantsOK
<1>4. last \in j.next .. j.end
  BY <1>2, <1>3 DEF Least, Job, Row
<1>5. j.next .. last \subseteq Row /\ last + 1 \in 1 .. (N + 1)
  BY <1>2, <1>3, <1>4 DEF Job, Row
<1> DEFINE k == [j EXCEPT !.next = last + 1, !.phase = "report"]
<1>6. job' = [job EXCEPT ![t] = k] /\ k \in Job
  BY <1>1, <1>2, <1>5 DEF Job, Inductive, TypeOK
<1>7. TypeOK'
  BY <1>1, <1>5, <1>6 DEF Inductive, TypeOK, WriteBatch
<1>8. /\ TablesGrow
      /\ \A i \in DOMAIN chunks' : ChunkBehind(i)'
      /\ \A r \in Row, i \in DOMAIN chunks : r <= core[i] => ~(core'[i] < r)
  BY <1>1, SameTables DEF WriteBatch
<1>9. JobBehind(job[t])'
  <2>1. job'[t] = k /\ k.chunk = j.chunk /\ k.end = j.end /\ k.next = last + 1
        /\ k.phase = "report"
    BY <1>2, <1>6 DEF Job, Inductive, TypeOK
  <2>2. /\ j.chunk \in DOMAIN chunks /\ core[j.chunk] <= j.end
        /\ chunks[j.chunk].start .. (j.next - 1) \subseteq written
    BY <1>2 DEF JobBehind
  <2>3. chunks[j.chunk].start \in Int /\ j.next \in Int /\ last \in Int
    BY <1>2, <1>4, <2>2, Typed DEF Inductive, Chunk, Job, Row
  <2> HIDE DEF j, k
  <2>4. chunks[j.chunk].start .. ((last + 1) - 1) \subseteq written'
    BY <1>1, <1>4, <2>2, <2>3
  <2> QED BY <2>1, <2>2, <2>4 DEF JobBehind, WriteBatch
<1>10. \A u \in Slots : u # t => job'[u] = job[u]
  BY <1>6 DEF Inductive, TypeOK
<1>11. FinishSeen' => FinishSeen
  BY DEF FinishSeen, WriteBatch
<1>12. \A r \in Row : InPieces(r) => InPieces(r)'
  BY DEF InPieces, WriteBatch
<1> QED BY <1>7, <1>8, <1>9, <1>10, <1>11, <1>12, InductiveKept DEF WriteBatch

(***************************************************************************)
(* Steps of a handler that write no chunk.                                 *)
(***************************************************************************)
LEMMA IdleOpOK ==
  /\ IdleOp \in Op
  /\ IdleOp.pieces = << >> /\ IdleOp.pc = "idle" /\ IdleOp.seen = "FULL_MIGRATING"
  /\ IdleOp.allDone = FALSE
BY ConstantsOK DEF IdleOp, Op, NewChunk, Chunk, Row, TaskStatus

LEMMA StepYieldRefused ==
  ASSUME Inductive, NEW s \in Servers, YieldRefused(s)
  PROVE  Inductive'
<1>1. HandlerBehind(IdleOp)
  BY IdleOpOK DEF HandlerBehind
<1>2. op[s].pieces = << >>
  BY DEF Inductive, HandlerBehind, YieldRefused
<1> QED BY <1>1, <1>2, IdleOpOK, HandlerStep
        DEF YieldRefused, Goto, Inductive, TypeOK, FinishSeen

LEMMA StepNotSlow ==
  ASSUME Inductive, NEW s \in Servers, NotSlow(s)
  PROVE  Inductive'
<1> DEFINE o == [op[s] EXCEPT !.pc = "refresh"]
<1>1. op[s] \in Op /\ HandlerBehind(op[s]) /\ op[s].pc = "adapt"
  BY DEF Inductive, TypeOK, NotSlow
<1>2. o \in Op /\ HandlerBehind(o)
  BY <1>1 DEF Op, HandlerBehind
<1>3. o.pieces = op[s].pieces /\ o.seen = op[s].seen /\ o.pc = "refresh"
  BY <1>1 DEF Op
<1>4. task' \in TaskStatus /\ job' \in [Slots -> Job] /\ budget' \in Budget
  BY DEF NotSlow, Inductive, TypeOK
<1> HIDE DEF o
<1> QED BY <1>2, <1>3, <1>4, HandlerStep DEF NotSlow, Goto, FinishSeen, o

LEMMA StepAdaptList ==
  ASSUME Inductive, NEW s \in Servers, AdaptList(s)
  PROVE  Inductive'
<1> DEFINE o == [op[s] EXCEPT !.pc = "split", !.view = chunks, !.at = 1, !.seen = task]
<1>1. op[s] \in Op /\ HandlerBehind(op[s]) /\ op[s].pc = "adapt"
      /\ chunks \in Seq(Chunk) /\ task \in TaskStatus
  BY DEF Inductive, TypeOK, AdaptList
<1>2. o \in Op /\ o.pieces = op[s].pieces /\ o.seen = task /\ o.pc = "split"
      /\ o.view = chunks /\ o.at = 1
  BY <1>1 DEF Op
<1>3. op' = [op EXCEPT ![s] = o]
  BY DEF AdaptList, Goto
<1> HIDE DEF o
<1>4. \A i \in DOMAIN chunks : VersionOf(chunks[i], i)
  BY DEF Inductive, ChunkBehind, VersionOf
<1>5. HandlerBehind(o)
  BY <1>1, <1>2, <1>4 DEF HandlerBehind
<1>6. task' \in TaskStatus /\ job' \in [Slots -> Job] /\ budget' \in Budget
  BY BudgetSpent DEF AdaptList, Inductive, TypeOK
<1> QED BY <1>2, <1>3, <1>5, <1>6, HandlerStep DEF AdaptList, FinishSeen

LEMMA StepAdaptEnd ==
  ASSUME Inductive, NEW s \in Servers, AdaptEnd(s)
  PROVE  Inductive'
<1> DEFINE pc == IF op[s].pieces = << >> THEN "refresh" ELSE "insert"
           o == [op[s] EXCEPT !.pc = pc, !.view = << >>, !.at = 1]
<1>1. op[s] \in Op /\ HandlerBehind(op[s]) /\ op[s].pc = "split"
  BY DEF Inductive, TypeOK, AdaptEnd
<1>2. op' = [op EXCEPT ![s] = o]
  BY DEF AdaptEnd, Goto
<1>3. /\ pc \in {"refresh", "insert"} /\ << >> \in Seq(Chunk)
      /\ pc = "refresh" <=> op[s].pieces = << >>
  OBVIOUS
<1> HIDE DEF pc
<1>4. o \in Op /\ o.pieces = op[s].pieces /\ o.seen = op[s].seen /\ o.pc = pc
  BY <1>1, <1>3 DEF Op
<1> HIDE DEF o
<1>5. HandlerBehind(o)
  BY <1>3, <1>4 DEF HandlerBehind
<1>6. task' \in TaskStatus /\ job' \in [Slots -> Job] /\ budget' \in Budget
  BY DEF AdaptEnd, Inductive, TypeOK
<1> QED BY <1>2, <1>3, <1>4, <1>5, <1>6, HandlerStep DEF AdaptEnd, FinishSeen

LEMMA StepCountRebalance ==
  ASSUME Inductive, NEW s \in Servers, CountRebalance(s)
  PROVE  Inductive'
<1> DEFINE o == [IdleOp EXCEPT !.pc = "refresh", !.id = op[s].id]
<1>1. op[s] \in Op /\ HandlerBehind(op[s]) /\ op[s].pc = "count"
  BY DEF Inductive, TypeOK, CountRebalance
<1>2. /\ o \in Op /\ o.pieces = << >> /\ o.seen = "FULL_MIGRATING" /\ o.pc = "refresh"
  BY <1>1, IdleOpOK DEF Op
<1>3. op' = [op EXCEPT ![s] = o] /\ op[s].pieces = << >>
  BY <1>1 DEF CountRebalance, Goto, HandlerBehind
<1> HIDE DEF o
<1>4. HandlerBehind(o)
  BY <1>2 DEF HandlerBehind
<1>5. task' \in TaskStatus /\ job' \in [Slots -> Job] /\ budget' \in Budget
  BY <1>1 DEF CountRebalance, Inductive, TypeOK, Op
<1> QED BY <1>2, <1>3, <1>4, <1>5, HandlerStep DEF CountRebalance, FinishSeen

LEMMA StepRefreshRead ==
  ASSUME Inductive, NEW s \in Servers, RefreshRead(s)
  PROVE  Inductive'
<1> DEFINE o == [IdleOp EXCEPT !.pc = "store", !.id = op[s].id, !.seen = task,
                               !.allDone = AllSucceeded]
<1>1. op[s] \in Op /\ HandlerBehind(op[s]) /\ op[s].pc = "refresh"
      /\ task \in TaskStatus /\ AllSucceeded \in BOOLEAN
  BY DEF Inductive, TypeOK, RefreshRead, AllSucceeded
<1>2. o \in Op /\ o.pieces = << >> /\ o.seen = task /\ o.pc = "store"
      /\ o.allDone = AllSucceeded
  BY <1>1, IdleOpOK DEF Op
<1>3. op' = [op EXCEPT ![s] = o] /\ op[s].pieces = << >>
  BY <1>1 DEF RefreshRead, Goto, HandlerBehind
<1> HIDE DEF o
<1>4. HandlerBehind(o)
  BY <1>2 DEF HandlerBehind
<1>5. task' \in TaskStatus /\ job' \in [Slots -> Job] /\ budget' \in Budget
  BY DEF RefreshRead, Inductive, TypeOK
<1>6. ASSUME SingleServer, AllSucceeded
      PROVE  Row \subseteq written \cup orphaned
  <2>1. \A r \in Row : ~InPieces(r)
    BY <1>3, <1>6 DEF SingleServer, InPieces, RowsOf
  <2>2. \A r \in Row : ~InOpenChunk(r)
    BY <1>6 DEF AllSucceeded, InOpenChunk
  <2> QED BY <2>1, <2>2 DEF Inductive, RowsCovered
<1> QED BY <1>2, <1>3, <1>4, <1>5, <1>6, HandlerStep DEF RefreshRead, FinishSeen

LEMMA StepRefreshStore ==
  ASSUME Inductive, NEW s \in Servers, RefreshStore(s)
  PROVE  Inductive'
<1>1. op[s] \in Op /\ HandlerBehind(op[s]) /\ op[s].pc = "store"
  BY DEF Inductive, TypeOK, RefreshStore
<1>2. HandlerBehind(IdleOp) /\ op[s].pieces = << >>
  BY <1>1, IdleOpOK DEF HandlerBehind
<1>3. task' \in TaskStatus /\ job' \in [Slots -> Job] /\ budget' \in Budget
  BY <1>1 DEF RefreshStore, Inductive, TypeOK, Op, TaskStatus
<1>4. task' = "FULL_FINISHED" => FinishSeen
  BY <1>1 DEF RefreshStore, FinishSeen
<1> QED BY <1>2, <1>3, <1>4, IdleOpOK, HandlerStep DEF RefreshStore, Goto

LEMMA StepFailTask ==
  ASSUME Inductive, NEW s \in Servers, FailTask(s)
  PROVE  Inductive'
<1> DEFINE o == [op[s] EXCEPT !.pc = "failchunk"]
<1>1. op[s] \in Op /\ HandlerBehind(op[s]) /\ op[s].pc = "fail"
  BY DEF Inductive, TypeOK, FailTask
<1>2. /\ o \in Op /\ o.pieces = op[s].pieces /\ o.seen = op[s].seen /\ o.pc = "failchunk"
      /\ o.id = op[s].id /\ o.snap = op[s].snap
  BY <1>1 DEF Op
<1>3. op' = [op EXCEPT ![s] = o]
  BY DEF FailTask, Goto
<1> HIDE DEF o
<1>4. HandlerBehind(o)
  BY <1>1, <1>2 DEF HandlerBehind
<1>5. task' \in TaskStatus /\ job' \in [Slots -> Job] /\ budget' \in Budget
  BY DEF FailTask, Inductive, TypeOK, TaskStatus
<1>6. task' = "FAILED"
  BY DEF FailTask
<1> QED BY <1>2, <1>3, <1>4, <1>5, <1>6, HandlerStep DEF FailTask, FinishSeen

LEMMA StepFailBegin ==
  ASSUME Inductive, NEW s \in Servers, NEW t \in Slots, FailBegin(s, t)
  PROVE  Inductive'
<1> DEFINE i == job[t].chunk
           c == chunks[i]
           o == [IdleOp EXCEPT !.pc = "fail", !.id = i, !.snap = c, !.seen = task]
<1>1. /\ op[s] \in Op /\ HandlerBehind(op[s]) /\ op[s].pc = "idle"
      /\ job[t] \in Job /\ JobBehind(job[t]) /\ job[t].phase = "failed"
      /\ task \in TaskStatus
  BY DEF Inductive, TypeOK, FailBegin
<1>2. i \in DOMAIN chunks /\ c \in Chunk /\ i \in Nat /\ op[s].pieces = << >>
  BY <1>1, Typed DEF JobBehind, Inductive, HandlerBehind
<1>3. job' = [job EXCEPT ![t] = IdleJob] /\ job' \in [Slots -> Job]
      /\ \A u \in Slots : job'[u] = job[u] \/ job'[u] = IdleJob
  BY IdleJobOK DEF FailBegin, Inductive, TypeOK
<1>4. VersionOf(c, i)
  BY <1>2 DEF Inductive, ChunkBehind, VersionOf
<1>5. /\ o \in Op /\ o.pieces = << >> /\ o.seen = task /\ o.pc = "fail"
      /\ o.id = i /\ o.snap = c
  BY <1>1, <1>2, IdleOpOK DEF Op
<1>6. op' = [op EXCEPT ![s] = o] \/ op' = op
  BY DEF FailBegin, Goto
<1> HIDE DEF o, c
<1>7. HandlerBehind(o)
  BY <1>2, <1>4, <1>5 DEF HandlerBehind
<1>8. task' = task /\ budget' \in Budget
      /\ UNCHANGED <<command, chunks, written, core, orphaned>>
  BY DEF FailBegin, Inductive, TypeOK
<1>9. CASE op' = [op EXCEPT ![s] = o]
  BY <1>1, <1>2, <1>3, <1>5, <1>7, <1>8, <1>9, HandlerStep DEF FinishSeen
<1>10. CASE op' = op
  BY <1>3, <1>8, <1>10, IdleJobOK, JobStep
<1> QED BY <1>6, <1>9, <1>10

LEMMA StepCompleteBegin ==
  ASSUME Inductive, NEW s \in Servers, NEW t \in Slots, CompleteBegin(s, t)
  PROVE  Inductive'
<1> DEFINE i == job[t].chunk
           c == chunks[i]
           pc == IF job[t].phase = "yield" THEN "yield" ELSE "complete"
           o == [IdleOp EXCEPT !.pc = pc, !.id = i, !.snap = c,
                               !.after = job[t].next - 1, !.seen = task]
<1>1. /\ op[s] \in Op /\ HandlerBehind(op[s]) /\ op[s].pc = "idle"
      /\ job[t] \in Job /\ JobBehind(job[t]) /\ job[t].phase \in {"done", "yield"}
      /\ task \in TaskStatus
  BY DEF Inductive, TypeOK, CompleteBegin
<1>2. i \in DOMAIN chunks /\ c \in Chunk /\ i \in Nat /\ op[s].pieces = << >>
  BY <1>1, Typed DEF JobBehind, Inductive, HandlerBehind
<1>3. job' = [job EXCEPT ![t] = IdleJob] /\ job' \in [Slots -> Job]
      /\ \A u \in Slots : job'[u] = job[u] \/ job'[u] = IdleJob
  BY IdleJobOK DEF CompleteBegin, Inductive, TypeOK
<1>4. VersionOf(c, i) /\ core[i] \in Row
  BY <1>2, Typed DEF Inductive, ChunkBehind, VersionOf
<1>5. job[t].next - 1 \in 0 .. N
  BY <1>1, ConstantsOK DEF Job
<1>6. pc \in {"yield", "complete"}
  OBVIOUS
<1>7. pc = "yield" => c.start < job[t].next
  BY <1>1 DEF JobBehind
<1>8. pc = "complete" => core[i] <= job[t].end /\ job[t].end < job[t].next
  BY <1>1 DEF JobBehind
<1>9. c.start .. (job[t].next - 1) \subseteq written
  BY <1>1 DEF JobBehind
<1>10. op' = [op EXCEPT ![s] = o] \/ op' = op
  BY DEF CompleteBegin, Goto
<1> HIDE DEF pc
<1>11. /\ o \in Op /\ o.pieces = << >> /\ o.seen = task /\ o.pc = pc
       /\ o.id = i /\ o.snap = c /\ o.after = job[t].next - 1
  BY <1>1, <1>2, <1>5, <1>6, IdleOpOK DEF Op
<1> HIDE DEF o, c
<1>12. HandlerBehind(o)
  <2>1. pc = "complete" => c.start .. core[i] \subseteq written
    BY <1>1, <1>2, <1>4, <1>8, <1>9 DEF Job, Row, Chunk
  <2>2. pc = "yield" => c.start <= o.after /\ c.start .. o.after \subseteq written
    BY <1>1, <1>2, <1>7, <1>9, <1>11 DEF Job, Row, Chunk
  <2> QED BY <1>2, <1>4, <1>6, <1>11, <2>1, <2>2 DEF HandlerBehind
<1>13. task' = task /\ budget' \in Budget
       /\ UNCHANGED <<command, chunks, written, core, orphaned>>
  BY DEF CompleteBegin, Inductive, TypeOK
<1>14. CASE op' = [op EXCEPT ![s] = o]
  BY <1>1, <1>2, <1>3, <1>6, <1>11, <1>12, <1>13, <1>14, HandlerStep DEF FinishSeen
<1>15. CASE op' = op
  BY <1>3, <1>13, <1>15, IdleJobOK, JobStep
<1> QED BY <1>10, <1>14, <1>15

(***************************************************************************)
(* Steps of a handler that store a chunk.                                  *)
(***************************************************************************)
\* A blind write of an earlier version of the chunk leaves its core range
\* alone: no version is shorter than it.
LEMMA StoreStep ==
  ASSUME Inductive, NEW s \in Servers, NEW i \in DOMAIN chunks, NEW c \in Chunk,
         NEW o \in Op, StoreChunk(i, c), VersionOf(c, i),
         c.status = "SUCCESS" => c.start .. core[i] \subseteq written,
         op' = [op EXCEPT ![s] = o], o.pc \in {"adapt", "refresh", "idle"},
         o.pieces = << >>, op[s].pieces = << >>, o.seen = "FULL_MIGRATING",
         UNCHANGED <<task, command, job, written, orphaned, budget>>
  PROVE  Inductive'
<1>1. /\ chunks \in Seq(Chunk) /\ core \in Seq(Row) /\ Len(core) = Len(chunks)
      /\ core[i] \in Row /\ i \in DOMAIN core /\ DOMAIN core = DOMAIN chunks
  BY Typed DEF Inductive, TypeOK
<1>2. Least(core[i], c.end) = core[i]
  BY DEF VersionOf, Least
<1>3. core' = core
  BY <1>1, <1>2 DEF StoreChunk
<1>4. chunks' = [chunks EXCEPT ![i] = c] /\ chunks' \in Seq(Chunk)
      /\ Len(chunks') = Len(chunks) /\ DOMAIN chunks' = DOMAIN chunks
  BY <1>1, ExceptSeq DEF StoreChunk
<1>5. TypeOK'
  BY <1>3, <1>4 DEF Inductive, TypeOK
<1>6. \A k \in DOMAIN chunks : core[k] \in Row
  BY <1>1
<1>7. TablesGrow
  BY <1>1, <1>3, <1>4, <1>6 DEF TablesGrow, VersionOf, Row
<1>8. \A k \in DOMAIN chunks' : ChunkBehind(k)'
  <2> TAKE k \in DOMAIN chunks'
  <2>1. CASE k = i
    BY <1>3, <1>4, <2>1 DEF ChunkBehind, VersionOf
  <2>2. CASE k # i
    <3>1. ChunkBehind(k) /\ chunks'[k] = chunks[k]
      BY <1>4, <2>2 DEF Inductive
    <3> QED BY <1>3, <3>1 DEF ChunkBehind
  <2> QED BY <2>1, <2>2
<1>9. \A r \in Row, k \in DOMAIN chunks : r <= core[k] => ~(core'[k] < r)
  BY <1>3, <1>6 DEF Row
<1>10. \A u \in Servers : op'[u] = op[u] \/ HandlerBehind(op[u])'
  BY DEF HandlerBehind, Inductive, TypeOK
<1>11. \A r \in Row : InPieces(r) => InPieces(r)'
  BY DEF InPieces, Inductive, TypeOK
<1>12. FinishSeen' => FinishSeen
  BY DEF FinishSeen, Inductive, TypeOK
<1> QED BY <1>5, <1>7, <1>8, <1>9, <1>10, <1>11, <1>12, InductiveKept

LEMMA StepCompleteStore ==
  ASSUME Inductive, NEW s \in Servers, CompleteStore(s)
  PROVE  Inductive'
<1> DEFINE x == op[s]
           c == [x.snap EXCEPT !.status = "SUCCESS", !.lease = "none"]
           o == [IdleOp EXCEPT !.pc = "adapt", !.id = x.id]
<1>1. x \in Op /\ HandlerBehind(x) /\ x.pc = "complete"
  BY DEF Inductive, TypeOK, CompleteStore
<1>2. /\ x.id \in DOMAIN chunks /\ VersionOf(x.snap, x.id) /\ x.pieces = << >>
      /\ x.snap.start .. core[x.id] \subseteq written /\ x.snap \in Chunk
  BY <1>1 DEF HandlerBehind, Op
<1>3. /\ c \in Chunk /\ c.start = x.snap.start /\ c.end = x.snap.end
      /\ c.cursor = x.snap.cursor
  BY <1>2 DEF Chunk
<1>4. o \in Op /\ o.pc = "adapt" /\ o.pieces = << >> /\ o.seen = "FULL_MIGRATING"
  BY <1>1, IdleOpOK DEF Op
<1>5. StoreChunk(x.id, c) /\ op' = [op EXCEPT ![s] = o]
  BY DEF CompleteStore, Goto
<1> HIDE DEF c, o, x
<1>6. VersionOf(c, x.id)
  BY <1>2, <1>3 DEF VersionOf
<1> QED BY <1>2, <1>3, <1>4, <1>5, <1>6, StoreStep DEF CompleteStore, x

LEMMA StepYieldAtEnd ==
  ASSUME Inductive, NEW s \in Servers, YieldAtEnd(s)
  PROVE  Inductive'
<1> DEFINE x == op[s]
           c == [x.snap EXCEPT !.cursor = x.after, !.status = "SUCCESS",
                               !.owner = NoWorker, !.lease = "none"]
           o == [IdleOp EXCEPT !.pc = "refresh", !.id = x.id]
<1>1. x \in Op /\ HandlerBehind(x) /\ x.pc = "yield" /\ x.after >= x.snap.end
  BY DEF Inductive, TypeOK, YieldAtEnd
<1>2. /\ x.id \in DOMAIN chunks /\ VersionOf(x.snap, x.id) /\ x.pieces = << >>
      /\ x.snap.start .. x.after \subseteq written /\ x.snap \in Chunk
      /\ x.after \in 0 .. N
  BY <1>1 DEF HandlerBehind, Op
<1>3. /\ c \in Chunk /\ c.start = x.snap.start /\ c.end = x.snap.end
      /\ c.cursor = x.after
  BY <1>2 DEF Chunk
<1>4. o \in Op /\ o.pc = "refresh" /\ o.pieces = << >> /\ o.seen = "FULL_MIGRATING"
  BY <1>1, IdleOpOK DEF Op
<1>5. StoreChunk(x.id, c) /\ op' = [op EXCEPT ![s] = o]
  BY DEF YieldAtEnd, Goto
<1>6. core[x.id] \in Row /\ x.snap.end \in Row /\ x.snap.start \in Row
  BY <1>2, Typed DEF Inductive, Chunk
<1> HIDE DEF c, o, x
<1>7. VersionOf(c, x.id)
  BY <1>2, <1>3 DEF VersionOf
<1>8. c.start .. core[x.id] \subseteq written
  BY <1>1, <1>2, <1>3, <1>6 DEF VersionOf, Row
<1> QED BY <1>2, <1>3, <1>4, <1>5, <1>7, <1>8, StoreStep DEF YieldAtEnd, x

LEMMA StepFailStore ==
  ASSUME Inductive, NEW s \in Servers, FailStore(s)
  PROVE  Inductive'
<1> DEFINE x == op[s]
           st == IF Exhausted(x) THEN "FAILED" ELSE "PENDING"
           n == IF Stopped(x) THEN x.snap.retries ELSE x.snap.retries + 1
           c == [x.snap EXCEPT !.owner = NoWorker, !.lease = "none",
                               !.status = st, !.retries = n]
<1>1. x \in Op /\ HandlerBehind(x) /\ x.pc \in {"fail", "failchunk"}
  BY DEF Inductive, TypeOK, FailStore
<1>2. /\ x.id \in DOMAIN chunks /\ VersionOf(x.snap, x.id) /\ x.pieces = << >>
      /\ x.snap \in Chunk
  BY <1>1 DEF HandlerBehind, Op
<1>3. st \in {"FAILED", "PENDING"} /\ n \in Nat
  BY <1>2 DEF Chunk
<1>4. StoreChunk(x.id, c) /\ op' = [op EXCEPT ![s] = IdleOp]
  BY DEF FailStore, Goto
<1> HIDE DEF st, n
<1>5. /\ c \in Chunk /\ c.start = x.snap.start /\ c.end = x.snap.end
      /\ c.cursor = x.snap.cursor /\ c.status = st
  BY <1>2, <1>3 DEF Chunk
<1> HIDE DEF c, x
<1>6. VersionOf(c, x.id)
  BY <1>2, <1>5 DEF VersionOf
<1> QED BY <1>2, <1>3, <1>4, <1>5, <1>6, IdleOpOK, StoreStep DEF FailStore, x

(***************************************************************************)
(* Steps that take rows from a chunk or add chunks.                        *)
(***************************************************************************)
\* No row is lost when pieces are put together or taken apart.
LEMMA RowsOfPieces ==
  /\ \A a, b \in Seq(KeyRange) :
       RowsOf(a) \subseteq RowsOf(a \o b) /\ RowsOf(b) \subseteq RowsOf(a \o b)
  /\ \A a \in Seq(KeyRange) : a # << >> =>
       RowsOf(a) \subseteq RowsOf(<<Head(a)>>) \cup RowsOf(Tail(a))
<1>1. ASSUME NEW a \in Seq(KeyRange), NEW b \in Seq(KeyRange)
      PROVE  RowsOf(a) \subseteq RowsOf(a \o b) /\ RowsOf(b) \subseteq RowsOf(a \o b)
  <2>1. /\ Len(a) \in Nat /\ Len(b) \in Nat /\ Len(a \o b) = Len(a) + Len(b)
        /\ DOMAIN a = 1 .. Len(a) /\ DOMAIN b = 1 .. Len(b)
        /\ DOMAIN (a \o b) = 1 .. (Len(a) + Len(b))
    OBVIOUS
  <2>2. \A i \in DOMAIN a : i \in DOMAIN (a \o b) /\ (a \o b)[i] = a[i]
    BY <2>1
  <2>3. \A i \in DOMAIN b :
          Len(a) + i \in DOMAIN (a \o b) /\ (a \o b)[Len(a) + i] = b[i]
    BY <2>1
  <2> QED BY <2>2, <2>3 DEF RowsOf
<1>2. ASSUME NEW a \in Seq(KeyRange), a # << >>
      PROVE  RowsOf(a) \subseteq RowsOf(<<Head(a)>>) \cup RowsOf(Tail(a))
  <2>1. /\ Len(a) \in Nat \ {0} /\ DOMAIN a = 1 .. Len(a) /\ Head(a) = a[1]
        /\ DOMAIN Tail(a) = 1 .. (Len(a) - 1)
        /\ \A i \in 1 .. (Len(a) - 1) : Tail(a)[i] = a[i + 1]
    BY <1>2
  <2>2. ASSUME NEW i \in DOMAIN a, i # 1
        PROVE  i - 1 \in DOMAIN Tail(a) /\ Tail(a)[i - 1] = a[i]
    BY <2>1, <2>2
  <2>3. 1 \in DOMAIN <<Head(a)>> /\ <<Head(a)>>[1] = a[1]
    BY <2>1
  <2> SUFFICES ASSUME NEW i \in DOMAIN a, NEW r \in a[i].start .. a[i].end
               PROVE  r \in RowsOf(<<Head(a)>>) \cup RowsOf(Tail(a))
    BY DEF RowsOf
  <2>4. CASE i = 1
    BY <2>3, <2>4 DEF RowsOf
  <2>5. CASE i # 1
    BY <2>2, <2>5 DEF RowsOf
  <2> QED BY <2>4, <2>5
<1> QED BY <1>1, <1>2

\* wc and wk are the tables cs and ks with a row appended for each range.
IsAppended(wc, wk, cs, ks, ranges, kind) ==
  LET n == Len(cs)
      m == Len(cs) + Len(ranges)
  IN /\ n \in Nat /\ m \in Nat /\ n <= m
     /\ wc \in Seq(Chunk) /\ Len(wc) = m /\ DOMAIN wc = 1 .. m
     /\ wk \in Seq(Row) /\ Len(wk) = m
     /\ \A i \in 1 .. n : wc[i] = cs[i] /\ wk[i] = ks[i]
     /\ \A i \in 1 .. m : i \notin 1 .. n =>
          /\ wc[i] = NewChunk(ranges[i - n], kind) /\ wk[i] = ranges[i - n].end
          /\ i - n \in DOMAIN ranges
     /\ \A k \in DOMAIN ranges : n + k \in 1 .. m /\ n + k \notin 1 .. n

LEMMA Appended ==
  ASSUME NEW cs \in Seq(Chunk), NEW ks \in Seq(Row), Len(ks) = Len(cs),
         NEW ranges \in Seq(KeyRange), NEW kind \in {"RANGE", "REBALANCED"}
  PROVE  IsAppended(WithNewChunks(cs, ranges, kind), WithNewCores(ks, ranges),
                    cs, ks, ranges, kind)
<1> DEFINE n == Len(cs)
           m == Len(cs) + Len(ranges)
           wc == WithNewChunks(cs, ranges, kind)
           wk == WithNewCores(ks, ranges)
<1>1. /\ n \in Nat /\ m \in Nat /\ n <= m /\ Len(ranges) \in Nat
      /\ DOMAIN cs = 1 .. n /\ DOMAIN ks = 1 .. n
      /\ DOMAIN ranges = 1 .. Len(ranges) /\ m = n + Len(ranges)
  OBVIOUS
<1>2. \A i \in 1 .. m : i \notin 1 .. n => i - n \in DOMAIN ranges
  BY <1>1
<1>3. \A k \in DOMAIN ranges : n + k \in 1 .. m /\ n + k \notin 1 .. n
  BY <1>1
<1>4. \A k \in DOMAIN ranges :
        NewChunk(ranges[k], kind) \in Chunk /\ ranges[k].end \in Row
  <2> TAKE k \in DOMAIN ranges
  <2>1. ranges[k] \in KeyRange
    BY <1>1
  <2>2. ranges[k].start \in Row /\ ranges[k].end \in Row
    BY <2>1 DEF KeyRange
  <2>3. 0 \in 0 .. N /\ 0 \in Nat
    BY ConstantsOK
  <2> QED BY <2>2, <2>3 DEF NewChunk, Chunk
<1>5. /\ wc = [i \in 1 .. m |-> IF i <= n THEN cs[i] ELSE NewChunk(ranges[i - n], kind)]
      /\ wk = [i \in 1 .. m |-> IF i <= n THEN ks[i] ELSE ranges[i - n].end]
  BY DEF WithNewChunks, WithNewCores
<1> HIDE DEF m, n, wc, wk
<1>6. \A i \in 1 .. m : i <= n <=> i \in 1 .. n
  BY <1>1
<1>7. \A i \in 1 .. n : i \in 1 .. m /\ wc[i] = cs[i] /\ wk[i] = ks[i]
  BY <1>1, <1>5, <1>6
<1>8. \A i \in 1 .. m : i \notin 1 .. n =>
        wc[i] = NewChunk(ranges[i - n], kind) /\ wk[i] = ranges[i - n].end
  BY <1>5, <1>6
<1>9. \A i \in 1 .. m : wc[i] \in Chunk /\ wk[i] \in Row
  BY <1>1, <1>2, <1>4, <1>7, <1>8
<1>10. wc \in Seq(Chunk) /\ Len(wc) = m /\ DOMAIN wc = 1 .. m
  <2>1. wc \in [1 .. m -> Chunk]
    BY <1>5, <1>9
  <2>2. wc \in Seq(Chunk)
    BY <1>1, <2>1, SeqDef
  <2> QED BY <1>1, <2>1, <2>2, LenProperties
<1>11. wk \in Seq(Row) /\ Len(wk) = m
  <2>1. \A i \in 1 .. m : (IF i <= n THEN ks[i] ELSE ranges[i - n].end) \in Row
    BY <1>5, <1>9
  <2> QED BY <1>1, <1>5, <2>1, IsASeq
<1> QED BY <1>1, <1>2, <1>3, <1>7, <1>8, <1>10, <1>11 DEF IsAppended, m, n, wc, wk

\* A step that stores some chunks shorter and appends the rows it took from
\* them, or the pieces it held, as new chunks.
LEMMA GrowStep ==
  ASSUME Inductive, NEW s \in Servers, NEW o \in Op,
         NEW cs \in Seq(Chunk), NEW ks \in Seq(Row),
         Len(cs) = Len(chunks), Len(ks) = Len(chunks),
         NEW ranges \in Seq(KeyRange), NEW kind \in {"RANGE", "REBALANCED"},
         chunks' = WithNewChunks(cs, ranges, kind),
         core' = WithNewCores(ks, ranges),
         op' = [op EXCEPT ![s] = o],
         \A i \in DOMAIN chunks :
           /\ cs[i].start = chunks[i].start
           /\ ks[i] <= core[i] /\ ks[i] <= cs[i].end
           /\ cs[i].start .. cs[i].cursor \subseteq written
           /\ cs[i].status = "SUCCESS" => cs[i].start .. ks[i] \subseteq written
           /\ \A r \in Row : chunks[i].start <= r /\ r <= core[i] /\ ks[i] < r =>
                r \in RowsOf(ranges),
         o.pc \in {"insert", "count"}, o.pc = "insert" => o.pieces # << >>,
         o.pc = "count" => o.pieces = << >>, o.seen = op[s].seen,
         RowsOf(op[s].pieces) \subseteq RowsOf(ranges) \cup RowsOf(o.pieces),
         UNCHANGED <<task, command, job, written, orphaned, budget>>
  PROVE  Inductive'
<1> DEFINE n == Len(cs)
           m == Len(cs) + Len(ranges)
<1>1. /\ n \in Nat /\ m \in Nat /\ n <= m
      /\ chunks' \in Seq(Chunk) /\ Len(chunks') = m /\ DOMAIN chunks' = 1 .. m
      /\ core' \in Seq(Row) /\ Len(core') = m
      /\ \A i \in 1 .. n : chunks'[i] = cs[i] /\ core'[i] = ks[i]
      /\ \A i \in 1 .. m : i \notin 1 .. n =>
           /\ chunks'[i] = NewChunk(ranges[i - n], kind)
           /\ core'[i] = ranges[i - n].end
           /\ i - n \in DOMAIN ranges
      /\ \A k \in DOMAIN ranges : n + k \in 1 .. m /\ n + k \notin 1 .. n
  <2>1. IsAppended(WithNewChunks(cs, ranges, kind), WithNewCores(ks, ranges),
                   cs, ks, ranges, kind)
    BY Appended
  <2> QED BY <2>1 DEF IsAppended
<1>2. DOMAIN chunks = 1 .. n /\ Len(chunks) = n /\ Len(core) = n
  BY <1>1, Typed DEF Inductive
<1> HIDE DEF n, m
<1>3. TypeOK'
  <2>1. op' \in [Servers -> Op]
    BY DEF Inductive, TypeOK
  <2> QED BY <1>1, <2>1 DEF Inductive, TypeOK
<1>4. TablesGrow
  BY <1>1, <1>2 DEF TablesGrow
<1>5. \A k \in DOMAIN ranges :
        /\ ranges[k].start \in Row /\ ranges[k].end \in Row /\ n + k - n = k
  <2> TAKE k \in DOMAIN ranges
  <2>1. ranges[k] \in KeyRange /\ k \in Nat
    OBVIOUS
  <2> QED BY <1>1, <2>1 DEF KeyRange
<1>6. \A i \in DOMAIN chunks' : ChunkBehind(i)'
  <2> TAKE i \in DOMAIN chunks'
  <2>1. CASE i \in 1 .. n
    BY <1>1, <1>2, <2>1 DEF ChunkBehind
  <2>2. CASE i \notin 1 .. n
    <3>1. /\ chunks'[i] = NewChunk(ranges[i - n], kind) /\ i - n \in DOMAIN ranges
          /\ core'[i] = ranges[i - n].end
      BY <1>1, <2>2
    <3>2. /\ chunks'[i].end = core'[i] /\ chunks'[i].status = "PENDING"
          /\ chunks'[i].cursor = 0 /\ chunks'[i].start \in Row /\ core'[i] \in Row
      BY <1>5, <3>1 DEF NewChunk
    <3> QED BY <3>2 DEF ChunkBehind, Row
  <2> QED BY <2>1, <2>2
<1>7. \A r \in Row : r \in RowsOf(ranges) => InOpenChunk(r)'
  <2> SUFFICES ASSUME NEW r \in Row, NEW k \in DOMAIN ranges,
                      r \in ranges[k].start .. ranges[k].end
               PROVE  InOpenChunk(r)'
    BY DEF RowsOf
  <2>1. /\ n + k \in DOMAIN chunks'
        /\ chunks'[n + k] = NewChunk(ranges[k], kind)
        /\ core'[n + k] = ranges[k].end
    BY <1>1, <1>5
  <2> QED BY <2>1 DEF InOpenChunk, NewChunk
<1>8. \A r \in Row, i \in DOMAIN chunks :
        chunks[i].start <= r /\ r <= core[i] /\ core'[i] < r => InOpenChunk(r)'
  BY <1>1, <1>2, <1>7
<1>9. op'[s] = o /\ \A u \in Servers : u # s => op'[u] = op[u]
  BY DEF Inductive, TypeOK
<1>10. \A u \in Servers : op'[u] = op[u] \/ HandlerBehind(op[u])'
  BY <1>9 DEF HandlerBehind
<1>11. \A r \in Row : InPieces(r) => InPieces(r)' \/ InOpenChunk(r)'
  <2> SUFFICES ASSUME NEW r \in Row, NEW u \in Servers, r \in RowsOf(op[u].pieces)
               PROVE  InPieces(r)' \/ InOpenChunk(r)'
    BY DEF InPieces
  <2>1. CASE u = s
    BY <1>7, <1>9, <2>1 DEF InPieces
  <2>2. CASE u # s
    BY <1>9, <2>2 DEF InPieces
  <2> QED BY <2>1, <2>2
<1>12. FinishSeen' => FinishSeen
  BY <1>9 DEF FinishSeen
<1> QED BY <1>3, <1>4, <1>6, <1>8, <1>10, <1>11, <1>12, InductiveKept

LEMMA StepAdaptInsert ==
  ASSUME Inductive, NEW s \in Servers, AdaptInsert(s)
  PROVE  Inductive'
<1> DEFINE x == op[s]
           r == <<Head(x.pieces)>>
           pc == IF Len(x.pieces) = 1 THEN "count" ELSE "insert"
           o == [x EXCEPT !.pieces = Tail(x.pieces), !.pc = pc]
<1>1. x \in Op /\ HandlerBehind(x) /\ x.pc = "insert"
  BY DEF Inductive, TypeOK, AdaptInsert
<1>2. x.pieces \in Seq(KeyRange) /\ x.pieces # << >>
  BY <1>1 DEF HandlerBehind, Op
<1>3. /\ chunks' = WithNewChunks(chunks, r, "RANGE")
      /\ core' = WithNewCores(core, r) /\ op' = [op EXCEPT ![s] = o]
      /\ UNCHANGED <<task, command, job, written, orphaned, budget>>
  BY DEF AdaptInsert, Goto
<1>4. /\ pc \in {"count", "insert"} /\ Tail(x.pieces) \in Seq(KeyRange)
      /\ pc = "count" <=> Tail(x.pieces) = << >>
  <2>1. /\ Len(x.pieces) \in Nat \ {0} /\ Tail(x.pieces) \in Seq(KeyRange)
        /\ Len(Tail(x.pieces)) = Len(x.pieces) - 1
    BY <1>2
  <2>2. Tail(x.pieces) = << >> <=> Len(Tail(x.pieces)) = 0
    BY <2>1, EmptySeq
  <2> QED BY <2>1, <2>2
<1>5. r \in Seq(KeyRange)
  BY <1>2
<1>6. RowsOf(x.pieces) \subseteq RowsOf(r) \cup RowsOf(Tail(x.pieces))
  BY <1>2, RowsOfPieces
<1> HIDE DEF pc, r
<1>7. /\ o \in Op /\ o.pc = pc /\ o.pieces = Tail(x.pieces) /\ o.seen = x.seen
  BY <1>1, <1>4 DEF Op
<1> HIDE DEF o
<1>8. \A i \in DOMAIN chunks :
        /\ core[i] <= core[i] /\ core[i] <= chunks[i].end
        /\ chunks[i].start .. chunks[i].cursor \subseteq written
        /\ chunks[i].status = "SUCCESS" => chunks[i].start .. core[i] \subseteq written
        /\ \A q \in Row : q <= core[i] => ~(core[i] < q)
  <2>1. \A i \in DOMAIN chunks : core[i] \in Row
    BY DEF Inductive, TypeOK
  <2> QED BY <2>1 DEF Inductive, ChunkBehind, Row
<1>9. chunks \in Seq(Chunk) /\ core \in Seq(Row) /\ Len(core) = Len(chunks)
  BY DEF Inductive, TypeOK
<1> QED BY <1>3, <1>4, <1>5, <1>6, <1>7, <1>8, <1>9, GrowStep

LEMMA StepYieldStore ==
  ASSUME Inductive, NEW s \in Servers, YieldStore(s)
  PROVE  Inductive'
<1> DEFINE x == op[s]
           c == Yielded(x)
           o == [IdleOp EXCEPT !.pc = "count", !.id = x.id, !.seen = x.seen]
           e == Least(core[x.id], x.after)
           cs == [chunks EXCEPT ![x.id] = c]
           ks == [core EXCEPT ![x.id] = e]
<1>1. x \in Op /\ HandlerBehind(x) /\ x.pc = "yield" /\ x.after < x.snap.end
  BY DEF Inductive, TypeOK, YieldStore
<1>2. /\ x.id \in DOMAIN chunks /\ VersionOf(x.snap, x.id) /\ x.pieces = << >>
      /\ x.snap.start <= x.after /\ x.snap.start .. x.after \subseteq written
      /\ x.snap \in Chunk /\ x.after \in 0 .. N /\ x.seen \in TaskStatus /\ x.id \in Nat
  BY <1>1 DEF HandlerBehind, Op
<1>3. /\ chunks \in Seq(Chunk) /\ core \in Seq(Row) /\ Len(core) = Len(chunks)
      /\ DOMAIN core = DOMAIN chunks /\ core[x.id] \in Row
      /\ \A i \in DOMAIN chunks : core[i] \in Row
  BY <1>2, Typed DEF Inductive, TypeOK
<1>4. /\ x.snap.start \in Row /\ x.snap.end \in Row /\ x.after \in Row
      /\ x.after + 1 \in Row /\ N \in Nat
  BY <1>1, <1>2, ConstantsOK DEF Chunk, Row
<1>5. PICK p \in 1 .. Least(MaxPieces, x.snap.end - x.after) :
        /\ chunks' = WithNewChunks(cs, Pieces(x.after + 1, x.snap.end, p), "REBALANCED")
        /\ core' = WithNewCores(ks, Pieces(x.after + 1, x.snap.end, p))
  BY DEF YieldStore
<1>6. op' = [op EXCEPT ![s] = o]
      /\ UNCHANGED <<task, command, job, written, orphaned, budget>>
  BY DEF YieldStore, Goto
<1> DEFINE ranges == Pieces(x.after + 1, x.snap.end, p)
<1>7. /\ ranges \in Seq(KeyRange)
      /\ (x.after + 1) .. x.snap.end \subseteq RowsOf(ranges)
  <2>1. p \in 1 .. (x.snap.end - (x.after + 1) + 1)
    BY <1>1, <1>4, ConstantsOK DEF Least, Row
  <2>2. x.after + 1 <= x.snap.end
    BY <1>1, <1>4 DEF Row
  <2>3. /\ ranges \in Seq(KeyRange) /\ Len(ranges) = p
        /\ \A r \in (x.after + 1) .. x.snap.end : \E i \in 1 .. p :
             r \in ranges[i].start .. ranges[i].end
    BY <1>4, <2>1, <2>2, PiecesCover
  <2>4. DOMAIN ranges = 1 .. p
    BY <2>3
  <2> QED BY <2>3, <2>4 DEF RowsOf
<1>8. /\ c \in Chunk /\ c.start = x.snap.start /\ c.end = x.after /\ c.cursor = x.after
  BY <1>2, <1>4 DEF Yielded, Chunk
<1>9. o \in Op /\ o.pc = "count" /\ o.pieces = << >> /\ o.seen = x.seen
  BY <1>2, IdleOpOK DEF Op
<1>10. e \in Row /\ e <= core[x.id] /\ e <= x.after
       /\ \A r \in Row : r <= core[x.id] /\ e < r => x.after < r
  BY <1>3, <1>4 DEF Least, Row
<1> HIDE DEF c, o, e, ranges
<1>11. cs \in Seq(Chunk) /\ Len(cs) = Len(chunks)
       /\ ks \in Seq(Row) /\ Len(ks) = Len(core)
  BY <1>2, <1>3, <1>8, <1>10, ExceptSeq
<1>12. cs[x.id] = c /\ ks[x.id] = e
       /\ \A i \in DOMAIN chunks : i # x.id => cs[i] = chunks[i] /\ ks[i] = core[i]
  BY <1>2, <1>3
<1> HIDE DEF cs, ks
<1>13. \A i \in DOMAIN chunks :
         /\ cs[i].start = chunks[i].start
         /\ ks[i] <= core[i] /\ ks[i] <= cs[i].end
         /\ cs[i].start .. cs[i].cursor \subseteq written
         /\ cs[i].status = "SUCCESS" => cs[i].start .. ks[i] \subseteq written
         /\ \A r \in Row : chunks[i].start <= r /\ r <= core[i] /\ ks[i] < r =>
              r \in RowsOf(ranges)
  <2> TAKE i \in DOMAIN chunks
  <2>1. CASE i = x.id
    <3>1. c.start = chunks[i].start /\ core[i] <= x.snap.end
      BY <1>2, <1>8, <2>1 DEF VersionOf
    <3>2. c.start .. e \subseteq written
      BY <1>2, <1>4, <1>8, <1>10 DEF Row
    <3>3. \A r \in Row : r <= core[i] /\ e < r => r \in (x.after + 1) .. x.snap.end
      <4> TAKE r \in Row
      <4>1. r \in Int /\ core[i] \in Int /\ x.after \in Int /\ x.snap.end \in Int
        BY <1>3, <1>4 DEF Row
      <4>2. r <= core[i] /\ e < r => x.after < r
        BY <1>10, <2>1
      <4> QED BY <3>1, <4>1, <4>2
    <3> QED BY <1>2, <1>7, <1>8, <1>10, <1>12, <2>1, <3>1, <3>2, <3>3
  <2>2. CASE i # x.id
    <3>1. ChunkBehind(i) /\ cs[i] = chunks[i] /\ ks[i] = core[i] /\ core[i] \in Row
      BY <1>3, <1>12, <2>2 DEF Inductive
    <3> QED BY <3>1 DEF ChunkBehind, Row
  <2> QED BY <2>1, <2>2
<1>14. RowsOf(x.pieces) = {}
  BY <1>2 DEF RowsOf
<1>15. chunks' = WithNewChunks(cs, ranges, "REBALANCED") /\ core' = WithNewCores(ks, ranges)
  BY <1>5 DEF cs, ks, ranges
<1> QED BY <1>3, <1>6, <1>7, <1>9, <1>11, <1>13, <1>14, <1>15, GrowStep
\* A step that stores a chunk shorter and keeps the rows it took from it, and
\* all it had, in the pieces of the handler.
LEMMA SplitStep ==
  ASSUME Inductive, NEW s \in Servers, NEW i \in DOMAIN chunks, NEW c \in Chunk,
         NEW o \in Op, StoreChunk(i, c), HandlerBehind(o),
         op' = [op EXCEPT ![s] = o], o.pc = "split", o.seen = op[s].seen,
         c.start = chunks[i].start, c.status # "SUCCESS",
         c.start .. c.cursor \subseteq written,
         RowsOf(op[s].pieces) \subseteq RowsOf(o.pieces),
         \A r \in Row : c.start <= r /\ r <= core[i] /\ c.end < r =>
           r \in RowsOf(o.pieces),
         UNCHANGED <<task, command, job, written, orphaned, budget>>
  PROVE  Inductive'
<1> DEFINE e == Least(core[i], c.end)
<1>1. /\ chunks \in Seq(Chunk) /\ core \in Seq(Row) /\ Len(core) = Len(chunks)
      /\ DOMAIN core = DOMAIN chunks /\ \A k \in DOMAIN chunks : core[k] \in Row
      /\ c.end \in Row
  BY Typed DEF Inductive, TypeOK, Chunk
<1>2. e \in Row /\ e <= core[i] /\ e <= c.end
      /\ \A r \in Row : r <= core[i] /\ e < r => c.end < r
  BY <1>1 DEF Least, Row
<1>3. chunks' = [chunks EXCEPT ![i] = c] /\ core' = [core EXCEPT ![i] = e]
  BY DEF StoreChunk
<1> HIDE DEF e
<1>4. /\ chunks' \in Seq(Chunk) /\ Len(chunks') = Len(chunks)
      /\ core' \in Seq(Row) /\ Len(core') = Len(core)
      /\ DOMAIN chunks' = DOMAIN chunks
  BY <1>1, <1>2, <1>3, ExceptSeq
<1>5. /\ chunks'[i] = c /\ core'[i] = e
      /\ \A k \in DOMAIN chunks : k # i => chunks'[k] = chunks[k] /\ core'[k] = core[k]
  BY <1>1, <1>3
<1>6. TypeOK'
  BY <1>4 DEF Inductive, TypeOK
<1>7. TablesGrow
  BY <1>1, <1>2, <1>4, <1>5 DEF TablesGrow, Row
<1>8. \A k \in DOMAIN chunks' : ChunkBehind(k)'
  <2> TAKE k \in DOMAIN chunks'
  <2>1. CASE k = i
    BY <1>2, <1>5, <2>1 DEF ChunkBehind
  <2>2. CASE k # i
    <3>1. ChunkBehind(k) /\ chunks'[k] = chunks[k] /\ core'[k] = core[k]
      BY <1>4, <1>5, <2>2 DEF Inductive
    <3> QED BY <3>1 DEF ChunkBehind
  <2> QED BY <2>1, <2>2
<1>9. op'[s] = o /\ \A u \in Servers : u # s => op'[u] = op[u]
  BY DEF Inductive, TypeOK
<1>10. \A u \in Servers : op'[u] = op[u] \/ HandlerBehind(op[u])'
  <2>1. HandlerBehind(o)'
    BY <1>6, <1>7, BehindGrowing DEF Inductive
  <2> QED BY <1>9, <2>1 DEF HandlerBehind, VersionOf
<1>11. \A r \in Row : r \in RowsOf(o.pieces) => InPieces(r)'
  BY <1>9 DEF InPieces
<1>12. \A r \in Row, k \in DOMAIN chunks :
         chunks[k].start <= r /\ r <= core[k] /\ core'[k] < r => InPieces(r)'
  <2> TAKE r \in Row, k \in DOMAIN chunks
  <2>1. CASE k = i
    BY <1>2, <1>5, <1>11, <2>1
  <2>2. CASE k # i
    BY <1>1, <1>5, <2>2 DEF Row
  <2> QED BY <2>1, <2>2
<1>13. \A r \in Row : InPieces(r) => InPieces(r)'
  BY <1>9 DEF InPieces
<1>14. FinishSeen' => FinishSeen
  BY <1>9 DEF FinishSeen
<1> QED BY <1>6, <1>7, <1>8, <1>10, <1>12, <1>13, <1>14, InductiveKept

LEMMA StepAdaptSplit ==
  ASSUME Inductive, NEW s \in Servers, AdaptSplit(s)
  PROVE  Inductive'
<1> DEFINE x == op[s]
<1>1. x \in Op /\ HandlerBehind(x) /\ x.pc = "split"
  BY DEF Inductive, TypeOK, AdaptSplit
<1>2. /\ x.view \in Seq(Chunk) /\ x.pieces \in Seq(KeyRange) /\ x.at \in Nat
      /\ Len(x.view) <= Len(chunks) /\ x.at >= 1
      /\ \A i \in DOMAIN x.view : VersionOf(x.view[i], i)
  BY <1>1 DEF HandlerBehind, Op
<1>3. PICK i \in Candidates(x), p \in 2 .. (MaxPieces - Len(x.pieces) + 1) :
        LET c == x.view[i]
            cut == Pieces(c.start, c.end, p)
        IN /\ p <= c.end - c.start + 1
           /\ StoreChunk(i, [c EXCEPT !.end = cut[1].end])
           /\ op' = [op EXCEPT ![s] =
                [x EXCEPT !.at = i + 1, !.pieces = x.pieces \o Tail(cut)]]
  BY DEF AdaptSplit, Goto
<1> DEFINE c == x.view[i]
           cut == Pieces(c.start, c.end, p)
           new == [c EXCEPT !.end = cut[1].end]
           more == x.pieces \o Tail(cut)
           o == [x EXCEPT !.at = i + 1, !.pieces = more]
<1>4. /\ i \in DOMAIN x.view /\ i \in DOMAIN chunks /\ i \in Nat
      /\ c \in Chunk /\ Splittable(c) /\ VersionOf(c, i)
  <2>1. i \in x.at .. Len(x.view) /\ Splittable(c)
    BY <1>3 DEF Candidates
  <2>2. /\ Len(x.view) \in Nat /\ DOMAIN x.view = 1 .. Len(x.view)
        /\ Len(chunks) \in Nat /\ DOMAIN chunks = 1 .. Len(chunks)
    BY <1>2, Typed DEF Inductive
  <2>3. i \in DOMAIN x.view /\ i \in DOMAIN chunks /\ i \in Nat
    BY <1>2, <2>1, <2>2
  <2> QED BY <1>2, <2>1, <2>3
<1>5. /\ c.start \in Row /\ c.end \in Row /\ c.start < c.end /\ core[i] \in Row
      /\ c.status = "PENDING" /\ c.start = chunks[i].start /\ core[i] <= c.end
      /\ c.start .. c.cursor \subseteq written
  BY <1>4, Typed DEF Chunk, Splittable, VersionOf, Inductive
<1>6. p \in 1 .. (c.end - c.start + 1) /\ p >= 2 /\ p \in Nat
  <2>1. p \in Int /\ p >= 2 /\ p <= c.end - c.start + 1
    <3>1. MaxPieces \in Nat /\ Len(x.pieces) \in Nat
      BY <1>2, LenProperties, ConstantsOK
    <3> QED BY <1>3, <3>1
  <2> QED BY <1>5, <2>1 DEF Row
<1>7. /\ cut \in Seq(KeyRange) /\ Len(cut) = p
      /\ cut[1].start = c.start
      /\ \A r \in c.start .. c.end : \E k \in 1 .. p : r \in cut[k].start .. cut[k].end
  <2>1. c.start <= c.end
    BY <1>5 DEF Row
  <2> QED BY <1>5, <1>6, <2>1, PiecesCover
<1>8. StoreChunk(i, new) /\ op' = [op EXCEPT ![s] = o]
  BY <1>3
<1> HIDE DEF cut
<1>9. /\ cut[1] \in KeyRange /\ cut[1].end \in Row /\ Tail(cut) \in Seq(KeyRange)
      /\ DOMAIN Tail(cut) = 1 .. (p - 1)
      /\ \A k \in 1 .. p : k # 1 => k - 1 \in DOMAIN Tail(cut) /\ Tail(cut)[k - 1] = cut[k]
  <2>1. cut # << >> /\ 1 \in 1 .. Len(cut)
    BY <1>6, <1>7
  <2>2. cut[1] \in KeyRange /\ Tail(cut) \in Seq(KeyRange)
        /\ Len(Tail(cut)) = p - 1
        /\ \A k \in 1 .. (p - 1) : Tail(cut)[k] = cut[k + 1]
    BY <1>7, <2>1
  <2>3. \A k \in 1 .. p : k # 1 => k - 1 \in 1 .. (p - 1) /\ k - 1 + 1 = k
    BY <1>6
  <2> QED BY <2>2, <2>3 DEF KeyRange
<1>10. /\ new \in Chunk /\ new.start = c.start /\ new.cursor = c.cursor
       /\ new.status = "PENDING" /\ new.end = cut[1].end
  BY <1>4, <1>5, <1>9 DEF Chunk
<1>11. more \in Seq(KeyRange) /\ i + 1 \in Nat
  BY <1>2, <1>4, <1>9
<1> HIDE DEF more
<1>12. /\ o \in Op /\ o.pc = "split" /\ o.seen = x.seen /\ o.at = i + 1
       /\ o.view = x.view /\ o.pieces = more
  BY <1>1, <1>4, <1>11 DEF Op
<1> HIDE DEF new, o
<1>13. HandlerBehind(o)
  BY <1>2, <1>4, <1>12 DEF HandlerBehind
<1>14. /\ RowsOf(x.pieces) \subseteq RowsOf(o.pieces)
       /\ RowsOf(Tail(cut)) \subseteq RowsOf(o.pieces)
  BY <1>2, <1>9, <1>12, RowsOfPieces DEF more
<1>15. \A r \in Row : new.start <= r /\ r <= core[i] /\ new.end < r =>
         r \in RowsOf(o.pieces)
  <2> SUFFICES ASSUME NEW r \in Row, new.start <= r, r <= core[i], new.end < r
               PROVE  r \in RowsOf(Tail(cut))
    BY <1>14
  <2>1. r \in Int /\ c.start \in Int /\ c.end \in Int /\ core[i] \in Int /\ cut[1].end \in Int
    BY <1>5, <1>9 DEF Row
  <2>2. r \in c.start .. c.end /\ ~(r <= cut[1].end)
    BY <1>5, <1>10, <2>1
  <2>3. PICK k \in 1 .. p : r \in cut[k].start .. cut[k].end
    BY <1>7, <2>2
  <2>4. k # 1
    BY <2>1, <2>2, <2>3
  <2> QED BY <1>9, <2>3, <2>4 DEF RowsOf
<1>16. UNCHANGED <<task, command, job, written, orphaned, budget>>
  BY DEF AdaptSplit
<1> QED BY <1>4, <1>5, <1>8, <1>10, <1>12, <1>13, <1>14, <1>15, <1>16, SplitStep

\* A handler that is cut short gives its pieces up: their rows are orphaned.
LEMMA StepHandlerAborts ==
  ASSUME Inductive, NEW s \in Servers, HandlerAborts(s)
  PROVE  Inductive'
<1>1. op[s] \in Op /\ op[s].pieces \in Seq(KeyRange) /\ op' = [op EXCEPT ![s] = IdleOp]
  BY DEF Inductive, TypeOK, HandlerAborts, Goto, Op
<1>2. RowsOf(op[s].pieces) \subseteq Row
  <2> SUFFICES ASSUME NEW k \in DOMAIN op[s].pieces
               PROVE  op[s].pieces[k].start .. op[s].pieces[k].end \subseteq Row
    BY DEF RowsOf
  <2>1. op[s].pieces[k] \in KeyRange
    BY <1>1
  <2> QED BY <2>1, ConstantsOK DEF KeyRange, Row
<1>3. budget' \in Budget
  BY BudgetSpent DEF HandlerAborts, Inductive
<1>4. TypeOK'
  BY <1>1, <1>2, <1>3, IdleOpOK DEF HandlerAborts, Inductive, TypeOK
<1>5. /\ TablesGrow
      /\ \A i \in DOMAIN chunks' : ChunkBehind(i)'
      /\ \A r \in Row, i \in DOMAIN chunks : r <= core[i] => ~(core'[i] < r)
  BY SameTables DEF HandlerAborts
<1>6. op'[s] = IdleOp /\ \A u \in Servers : u # s => op'[u] = op[u]
  BY <1>1 DEF Inductive, TypeOK
<1>7. \A u \in Servers : op'[u] = op[u] \/ HandlerBehind(op[u])'
  BY <1>6, IdleOpOK DEF HandlerBehind
<1>8. \A r \in Row : InPieces(r) => r \in orphaned' \/ InPieces(r)'
  BY <1>6 DEF InPieces, HandlerAborts
<1>9. FinishSeen' => FinishSeen
  BY <1>6, IdleOpOK DEF FinishSeen, HandlerAborts
<1> QED BY <1>4, <1>5, <1>7, <1>8, <1>9, InductiveKept DEF HandlerAborts

-----------------------------------------------------------------------------
(***************************************************************************)
(* The invariant.                                                          *)
(***************************************************************************)
LEMMA InitInductive == Init => Inductive
<1> SUFFICES ASSUME Init
             PROVE  Inductive
  OBVIOUS
<1> DEFINE n == PlannedCount
<1>1. /\ n \in Nat
      /\ \A i \in 1 .. n : Planned(i) \in KeyRange
      /\ \A r \in Row : \E i \in 1 .. n : r \in Planned(i).start .. Planned(i).end
  BY PlannedCover
<1>2. /\ chunks = [i \in 1 .. n |-> NewChunk(Planned(i), "RANGE")]
      /\ core = [i \in 1 .. n |-> Planned(i).end]
  BY DEF Init
<1> HIDE DEF n
<1>3. \A i \in 1 .. n :
        /\ Planned(i).start \in Row /\ Planned(i).end \in Row
        /\ NewChunk(Planned(i), "RANGE") \in Chunk
  <2> TAKE i \in 1 .. n
  <2>1. Planned(i).start \in Row /\ Planned(i).end \in Row
    BY <1>1 DEF KeyRange
  <2>2. 0 \in 0 .. N /\ 0 \in Nat
    BY ConstantsOK
  <2> QED BY <2>1, <2>2 DEF NewChunk, Chunk
<1>4. /\ chunks \in Seq(Chunk) /\ Len(chunks) = n /\ DOMAIN chunks = 1 .. n
      /\ core \in Seq(Row) /\ Len(core) = n
  BY <1>1, <1>2, <1>3, IsASeq
<1>5. TypeOK
  <2>1. job \in [Slots -> Job] /\ op \in [Servers -> Op]
    BY IdleJobOK, IdleOpOK DEF Init
  <2>2. budget \in Budget
    BY ConstantsOK DEF Init, Budget
  <2> QED BY <1>4, <2>1, <2>2 DEF Init, TypeOK, TaskStatus
<1>6. \A i \in DOMAIN chunks : ChunkBehind(i)
  <2> TAKE i \in DOMAIN chunks
  <2>1. /\ chunks[i].start = Planned(i).start /\ chunks[i].end = Planned(i).end
        /\ chunks[i].cursor = 0 /\ chunks[i].status = "PENDING"
        /\ core[i] = Planned(i).end
    BY <1>2, <1>4 DEF NewChunk
  <2>2. Planned(i).start \in Row /\ Planned(i).end \in Row
    BY <1>3, <1>4
  <2> QED BY <2>1, <2>2 DEF ChunkBehind, Row
<1>7. (\A t \in Slots : JobBehind(job[t])) /\ (\A s \in Servers : HandlerBehind(op[s]))
  <2>1. JobBehind(IdleJob) /\ HandlerBehind(IdleOp)
    BY IdleJobOK, IdleOpOK DEF HandlerBehind
  <2> QED BY <2>1 DEF Init
<1>8. RowsCovered
  <2> SUFFICES ASSUME NEW r \in Row
               PROVE  InOpenChunk(r)
    BY DEF RowsCovered
  <2>1. PICK i \in 1 .. n : r \in Planned(i).start .. Planned(i).end
    BY <1>1
  <2>2. /\ chunks[i].start = Planned(i).start /\ chunks[i].status = "PENDING"
        /\ core[i] = Planned(i).end
    BY <1>2 DEF NewChunk
  <2> QED BY <1>4, <2>1, <2>2 DEF InOpenChunk
<1>9. ~FinishSeen
  BY IdleOpOK DEF Init, FinishSeen
<1> QED BY <1>4, <1>5, <1>6, <1>7, <1>8, <1>9 DEF Inductive

LEMMA InductiveNext == Inductive /\ [Next]_vars => Inductive'
<1> SUFFICES ASSUME Inductive, [Next]_vars
             PROVE  Inductive'
  OBVIOUS
<1>1. ASSUME NEW t \in Slots, SlotStep(t)
      PROVE  Inductive'
  BY <1>1, StepClaim, StepPollReclaims, StepWriteBatch, StepRenewRead,
     StepFlowWrite, StepRenew, StepRenewAndYield, StepRenewRefused,
     StepFinishReading DEF SlotStep
<1>2. ASSUME NEW s \in Servers, ServerStep(s)
      PROVE  Inductive'
  BY <1>2, StepCompleteBegin, StepFailBegin, StepCompleteStore, StepYieldStore,
     StepYieldRefused, StepYieldAtEnd, StepNotSlow, StepAdaptList,
     StepAdaptSplit, StepAdaptEnd, StepAdaptInsert, StepCountRebalance,
     StepRefreshRead, StepRefreshStore, StepFailTask, StepFailStore
     DEF ServerStep
<1>3. ASSUME NEW i \in DOMAIN chunks, LeaseExpires(i)
      PROVE  Inductive'
  BY <1>3, StepLeaseExpires
<1>4. ASSUME Fault
      PROVE  Inductive'
  BY <1>4, StepJobError, StepWorkerStops, StepHandlerAborts DEF Fault
<1>5. ASSUME Operator
      PROVE  Inductive'
  BY <1>5, StepOperator
<1>6. CASE UNCHANGED vars
  <2>1. /\ UNCHANGED <<task, command, chunks, job, op>>
        /\ UNCHANGED <<written, core, orphaned, budget>>
    BY <1>6 DEF vars
  <2> QED BY <2>1 DEF Inductive, TypeOK, ChunkBehind, JobBehind, HandlerBehind,
             VersionOf, RowsCovered, InOpenChunk, InPieces, FinishSeen
<1> QED BY <1>1, <1>2, <1>3, <1>4, <1>5, <1>6 DEF Next

\* Every state of the chunk scheduler satisfies the inductive invariant.
THEOREM InductiveAlways == Spec => []Inductive
BY InitInductive, InductiveNext, PTL DEF Spec

\* The chunk table, the jobs and the handlers hold values of their types: in
\* particular every range the planner, a split or a yield makes is a range of
\* rows, for every table size, chunk size and number of pieces.
THEOREM TypeCorrect == Spec => []TypeOK
<1>1. Inductive => TypeOK
  BY DEF Inductive
<1> QED BY <1>1, InductiveAlways, PTL

\* Splitting, yielding, reclaiming and the blind writes of any number of
\* servers leave no row behind: it is copied, in an open chunk, in a piece to
\* be inserted, or was lost with a split that was cut short.
THEOREM NoRowDropped == Spec => []RowsCovered
<1>1. Inductive => RowsCovered
  BY DEF Inductive
<1> QED BY <1>1, InductiveAlways, PTL

\* No durable cursor, no job and no successful chunk is ahead of the target,
\* for any number of servers, workers and faults.
THEOREM CheckpointCorrect == Spec => []CheckpointBehindWrites
<1>1. Inductive => CheckpointBehindWrites
  BY DEF Inductive, ChunkBehind, JobBehind, CheckpointBehindWrites
<1> QED BY <1>1, InductiveAlways, PTL

\* One server finishes the copy phase only when every row is in the target,
\* apart from those lost with a split that was cut short.
THEOREM DoneCorrect == Spec => []DoneMeansCopied
<1>1. Inductive => DoneMeansCopied
  BY DEF Inductive, DoneMeansCopied, FinishSeen
<1> QED BY <1>1, InductiveAlways, PTL

-----------------------------------------------------------------------------
(***************************************************************************)
(* One server: its handlers come one after the other.                      *)
(***************************************************************************)
RangesApart == \A i, j \in DOMAIN chunks : i # j => ChunkRows(i) \cap ChunkRows(j) = {}

\* Pieces to be inserted share no row with each other nor with a chunk.
PiecesApart(pieces) ==
  LET Rows(a) == pieces[a].start .. pieces[a].end IN
  /\ \A a, b \in DOMAIN pieces : a # b => Rows(a) \cap Rows(b) = {}
  /\ \A i \in DOMAIN chunks, a \in DOMAIN pieces : ChunkRows(i) \cap Rows(a) = {}

\* c still has the range of chunk i, which is open.
Current(c, i) ==
  /\ i \in DOMAIN chunks /\ chunks[i].status # "SUCCESS"
  /\ c.start = chunks[i].start /\ c.end = chunks[i].end

\* The copies a handler is going to store are current in their range.
HandlerCurrent(o) ==
  /\ o.pc \in {"complete", "yield", "fail", "failchunk"} => Current(o.snap, o.id)
  /\ o.pc = "split" => \A i \in Candidates(o) : Current(o.view[i], i)

OneServerFine ==
  SingleServer =>
    /\ RangesApart
    /\ \A s \in Servers : PiecesApart(op[s].pieces) /\ HandlerCurrent(op[s])

\* No chunk that is done changes.
DoneStays ==
  \A i \in DOMAIN chunks : chunks[i].status = "SUCCESS" => chunks'[i] = chunks[i]

\* The pieces of a range lie in it one behind the other.
LEMMA PiecesInOrder ==
  ASSUME NEW lo \in Row, NEW hi \in Row, lo <= hi,
         NEW p \in 1 .. (hi - lo + 1)
  PROVE  LET cut == Pieces(lo, hi, p) IN
         /\ DOMAIN cut = 1 .. p /\ cut[1].start = lo
         /\ \A i \in 1 .. p : /\ lo <= cut[i].start /\ cut[i].end <= hi
                              /\ cut[i].start \in Row /\ cut[i].end \in Row
         /\ \A i, j \in 1 .. p : i < j => cut[i].end < cut[j].start
<1> DEFINE len == hi - lo + 1
           q == len \div p
           m == len % p
           P(i) == PieceStart(lo, hi, p, i)
           cut == Pieces(lo, hi, p)
<1>1. lo \in Nat /\ hi \in Nat /\ p \in Nat /\ p >= 1
  BY ConstantsOK DEF Row
<1>2. q \in Nat /\ m \in Nat
  <2>1. len \in Nat /\ p \in Nat \ {0}
    BY <1>1
  <2> HIDE DEF len
  <2>2. q \in Nat /\ p * q + m = len /\ m \in 0 .. (p - 1)
    BY <2>1, DivFacts
  <2> HIDE DEF q, m
  <2> QED BY <2>1, <2>2
<1>3. /\ P(0) = lo /\ P(p) = hi + 1
      /\ \A i \in 0 .. p : P(i) \in lo .. (hi + 1)
  <2> HIDE DEF q, m
  <2> QED BY <1>1, PieceStarts
<1>4. ASSUME NEW i \in 0 .. p, NEW j \in 0 .. p, i <= j PROVE P(i) <= P(j)
  <2>1. i * q <= j * q /\ i * q \in Nat /\ j * q \in Nat
    BY <1>1, <1>2, <1>4, MulMono
  <2>2. P(i) = lo + i * q + Least(i, m) /\ P(j) = lo + j * q + Least(j, m)
    BY DEF PieceStart
  <2> HIDE DEF P, q, m
  <2> QED BY <1>1, <1>2, <1>4, <2>1, <2>2 DEF Least
<1>5. cut = [i \in 1 .. p |-> [start |-> P(i - 1), end |-> P(i) - 1]]
  BY DEF Pieces
<1> HIDE DEF P, cut
<1>6. /\ DOMAIN cut = 1 .. p
      /\ \A i \in 1 .. p : cut[i].start = P(i - 1) /\ cut[i].end = P(i) - 1
  BY <1>5
<1>7. cut \in Seq(KeyRange) /\ Len(cut) = p
  BY PiecesCover DEF cut
<1>8. \A i \in 1 .. p : cut[i].start \in Row /\ cut[i].end \in Row
  <2>1. \A i \in 1 .. p : cut[i] \in KeyRange
    BY <1>7
  <2> QED BY <2>1 DEF KeyRange
<1>9. ASSUME NEW i \in 1 .. p PROVE lo <= cut[i].start /\ cut[i].end <= hi
  <2>1. i \in 0 .. p /\ i - 1 \in 0 .. p
    BY <1>1
  <2> QED BY <1>1, <1>3, <1>6, <2>1
<1>10. ASSUME NEW i \in 1 .. p, NEW j \in 1 .. p, i < j PROVE cut[i].end < cut[j].start
  <2>1. i \in 0 .. p /\ j - 1 \in 0 .. p /\ i <= j - 1
    BY <1>1, <1>10
  <2>2. P(i) <= P(j - 1) /\ P(i) \in Int /\ P(j - 1) \in Int
    BY <1>1, <1>3, <1>4, <2>1
  <2> QED BY <1>6, <2>2
<1>11. cut[1].start = lo
  BY <1>1, <1>3, <1>6
<1> QED BY <1>6, <1>8, <1>9, <1>10, <1>11 DEF cut

\* The planned chunks lie one behind the other.
LEMMA PlannedInOrder ==
  ASSUME NEW i \in Nat, NEW j \in Nat, i < j, i >= 1
  PROVE  Planned(i).end < Planned(j).start
<1>1. Span \in Nat /\ N \in Nat
  BY ConstantsOK DEF Row
<1>2. i * Span \in Nat /\ (j - 1) * Span \in Nat /\ i * Span <= (j - 1) * Span
  <2>1. j - 1 \in Nat /\ i <= j - 1
    OBVIOUS
  <2> QED BY <1>1, <2>1, MulMono
<1>3. Planned(i).end = Least(i * Span, N) /\ Planned(j).start = (j - 1) * Span + 1
  BY DEF Planned
<1> QED BY <1>1, <1>2, <1>3 DEF Least

LEMMA OneServerInit ==
  ASSUME Init PROVE OneServerFine
<1> USE DEF Init
<1>1. PlannedCount \in Nat /\ \A i \in 1 .. PlannedCount : Planned(i) \in KeyRange
  BY PlannedCover
<1>2. /\ DOMAIN chunks = 1 .. PlannedCount
      /\ \A i \in DOMAIN chunks : /\ chunks[i].start = Planned(i).start
                                  /\ chunks[i].end = Planned(i).end
                                  /\ chunks[i].start \in Int /\ chunks[i].end \in Int
  BY <1>1 DEF NewChunk, KeyRange, Row
<1>3. ASSUME NEW i \in DOMAIN chunks, NEW j \in DOMAIN chunks, i < j
      PROVE  ChunkRows(i) \cap ChunkRows(j) = {}
  <2>1. i \in Nat /\ j \in Nat /\ i >= 1
    BY <1>1, <1>2
  <2>2. Planned(i).end < Planned(j).start
    BY <1>3, <2>1, PlannedInOrder
  <2> HIDE DEF Init
  <2> QED BY <1>2, <2>2 DEF ChunkRows
<1>4. RangesApart
  <2>1. \A i, j \in DOMAIN chunks : i # j => i < j \/ j < i
    BY <1>1, <1>2
  <2> QED BY <1>3, <2>1 DEF RangesApart
<1>5. \A s \in Servers : op[s].pc = "idle" /\ op[s].pieces = << >>
  BY DEF IdleOp
<1> HIDE DEF Init
<1> QED BY <1>4, <1>5 DEF OneServerFine, PiecesApart, HandlerCurrent

\* With one server, its handler is all there is to look at.
LEMMA OneHandler ==
  ASSUME SingleServer, NEW s \in Servers, RangesApart',
         PiecesApart(op[s].pieces)', HandlerCurrent(op[s])'
  PROVE  OneServerFine'
<1>1. \A u \in Servers : u = s
  BY DEF SingleServer
<1> QED BY <1>1 DEF OneServerFine

\* What is current stays so, and ranges that are apart too, while no range

\* changes and no more chunks are done.
LEMMA RangesSame ==
  ASSUME DOMAIN chunks' = DOMAIN chunks,
         \A i \in DOMAIN chunks : /\ chunks'[i].start = chunks[i].start
                                  /\ chunks'[i].end = chunks[i].end
  PROVE  /\ RangesApart => RangesApart'
         /\ \A ps : PiecesApart(ps) => PiecesApart(ps)'
         /\ (\A i \in DOMAIN chunks : chunks'[i].status = "SUCCESS" => chunks[i].status = "SUCCESS")
              => \A o : HandlerCurrent(o) => HandlerCurrent(o)'
<1>1. \A i \in DOMAIN chunks : ChunkRows(i)' = ChunkRows(i)
  BY DEF ChunkRows
<1>2. RangesApart => RangesApart'
  BY <1>1 DEF RangesApart
<1>3. \A ps : PiecesApart(ps) => PiecesApart(ps)'
  BY <1>1 DEF PiecesApart
<1>4. ASSUME \A i \in DOMAIN chunks :
               chunks'[i].status = "SUCCESS" => chunks[i].status = "SUCCESS"
      PROVE  \A o : HandlerCurrent(o) => HandlerCurrent(o)'
  <2>1. \A c, i : Current(c, i) => Current(c, i)'
    BY <1>4 DEF Current
  <2> QED BY <2>1 DEF HandlerCurrent, Candidates
<1> QED BY <1>2, <1>3, <1>4

LEMMA OneServerIs ==
  ASSUME Inductive, OneServerFine, SingleServer, NEW s \in Servers
  PROVE  /\ RangesApart /\ PiecesApart(op[s].pieces) /\ HandlerCurrent(op[s])
         /\ op[s] \in Op /\ op \in [Servers -> Op] /\ chunks \in Seq(Chunk)
         /\ HandlerBehind(op[s])
BY DEF OneServerFine, Inductive, TypeOK

\* Claims, renewals and leases that run out: no range changes, and what is

\* done stays as it is.
LEMMA TableStep ==
  ASSUME OneServerFine, SingleServer, UNCHANGED op,
         DOMAIN chunks' = DOMAIN chunks,
         \A i \in DOMAIN chunks :
           /\ chunks'[i].start = chunks[i].start /\ chunks'[i].end = chunks[i].end
           /\ chunks[i].status = "SUCCESS" => chunks'[i] = chunks[i]
           /\ chunks'[i].status = "SUCCESS" => chunks[i].status = "SUCCESS"
  PROVE  OneServerFine' /\ DoneStays
<1>1. DoneStays
  BY DEF DoneStays
<1>2. /\ RangesApart => RangesApart'
      /\ \A ps : PiecesApart(ps) => PiecesApart(ps)'
      /\ \A o : HandlerCurrent(o) => HandlerCurrent(o)'
  BY RangesSame
<1>3. ASSUME NEW s \in Servers PROVE PiecesApart(op[s].pieces)' /\ HandlerCurrent(op[s])'
  <2>1. PiecesApart(op[s].pieces) /\ HandlerCurrent(op[s])
    BY DEF OneServerFine
  <2>2. PiecesApart(op[s].pieces)'
    BY <1>2, <2>1
  <2>3. HandlerCurrent(op[s])'
    BY <1>2, <2>1
  <2> QED BY <2>2, <2>3
<1> QED BY <1>1, <1>2, <1>3 DEF OneServerFine

\* A handler goes on without writing a chunk.
LEMMA HandlerGoes ==
  ASSUME Inductive, OneServerFine, SingleServer, NEW s \in Servers, NEW o \in Op,
         UNCHANGED chunks, op' = [op EXCEPT ![s] = o],
         o.pieces = << >> \/ o.pieces = op[s].pieces, HandlerCurrent(o)
  PROVE  OneServerFine' /\ DoneStays
<1>1. /\ RangesApart /\ PiecesApart(op[s].pieces)
      /\ op'[s] = o
  BY OneServerIs
<1>2. PiecesApart(o.pieces)
  BY <1>1 DEF PiecesApart
<1>3. RangesApart' /\ PiecesApart(o.pieces)' /\ HandlerCurrent(o)'
  BY <1>1, <1>2, RangesSame
<1>4. PiecesApart(op[s].pieces)'
  BY <1>1, <1>3 DEF PiecesApart, ChunkRows
<1>5. HandlerCurrent(op[s])'
  BY <1>1, <1>3 DEF HandlerCurrent, Current, Candidates
<1>6. DoneStays
  BY DEF DoneStays
<1> QED BY <1>3, <1>4, <1>5, <1>6, OneHandler

\* A handler stores a chunk that is still open, in its range, and is done with

\* it.
LEMMA HandlerStores ==
  ASSUME Inductive, OneServerFine, SingleServer, NEW s \in Servers, NEW o \in Op,
         NEW i, NEW c, Current(c, i),
         chunks' = [chunks EXCEPT ![i] = c], op' = [op EXCEPT ![s] = o],
         o.pieces = << >>, o.pc \in {"idle", "adapt", "refresh"}
  PROVE  OneServerFine' /\ DoneStays
<1>1. RangesApart /\ op'[s] = o /\ chunks \in Seq(Chunk)
  BY OneServerIs
<1>2. /\ i \in DOMAIN chunks /\ chunks[i].status # "SUCCESS"
      /\ c.start = chunks[i].start /\ c.end = chunks[i].end
  BY DEF Current
<1>3. /\ DOMAIN chunks' = DOMAIN chunks /\ chunks'[i] = c
      /\ \A j \in DOMAIN chunks : j # i => chunks'[j] = chunks[j]
  BY <1>1, <1>2
<1>4. RangesApart'
  BY <1>1, <1>2, <1>3, RangesSame
<1>5. PiecesApart(op[s].pieces)'
  BY <1>1 DEF PiecesApart
<1>6. HandlerCurrent(op[s])'
  BY <1>1 DEF HandlerCurrent
<1>7. DoneStays
  BY <1>2, <1>3 DEF DoneStays
<1> QED BY <1>4, <1>5, <1>6, <1>7, OneHandler

LEMMA OneServerSlot ==
  ASSUME Inductive, OneServerFine, SingleServer, NEW t \in Slots, SlotStep(t)
  PROVE  OneServerFine' /\ DoneStays
<1>1. /\ AfterReclaim \in Seq(Chunk) /\ DOMAIN AfterReclaim = DOMAIN chunks
      /\ \A i \in DOMAIN chunks : AfterReclaim[i] \in Chunk
      /\ chunks \in Seq(Chunk)
  BY ReclaimKeeps DEF Inductive, TypeOK
<1>2. \A i \in DOMAIN chunks :
        /\ AfterReclaim[i].start = chunks[i].start /\ AfterReclaim[i].end = chunks[i].end
        /\ chunks[i].status = "SUCCESS" => AfterReclaim[i] = chunks[i]
        /\ AfterReclaim[i].status = "SUCCESS" => chunks[i].status = "SUCCESS"
  <2>1. \A i \in DOMAIN chunks : chunks[i].status = "SUCCESS" => AfterReclaim[i] = chunks[i]
    BY DEF AfterReclaim, Reclaimed
  <2> QED BY <2>1, ReclaimKeeps
<1>3. CASE Claim(t)
  <2>1. PICK i \in Claimable :
          chunks' = [AfterReclaim EXCEPT ![i].status = "RUNNING", ![i].owner = WorkerOf[t],
                                         ![i].lease = "live"]
    BY <1>3 DEF Claim
  <2>2. i \in DOMAIN chunks /\ AfterReclaim[i].status = "PENDING"
    BY DEF Claimable
  <2>3. chunks[i].status # "SUCCESS"
    BY <1>2, <2>2
  <2> DEFINE c == [AfterReclaim[i] EXCEPT !.status = "RUNNING", !.owner = WorkerOf[t],
                                          !.lease = "live"]
  <2>4. chunks' = [AfterReclaim EXCEPT ![i] = c]
    BY <1>1, <2>1, <2>2 DEF Chunk
  <2>5. c.start = chunks[i].start /\ c.end = chunks[i].end /\ c.status = "RUNNING"
    BY <1>1, <1>2, <2>2 DEF Chunk
  <2> HIDE DEF c
  <2>6. /\ DOMAIN chunks' = DOMAIN chunks /\ chunks'[i] = c
        /\ \A j \in DOMAIN chunks : j # i => chunks'[j] = AfterReclaim[j]
    <3> HIDE DEF AfterReclaim
    <3> QED BY <1>1, <2>2, <2>4
  <2>7. UNCHANGED op
    BY <1>3 DEF Claim
  <2> HIDE DEF AfterReclaim
  <2> QED BY <1>2, <2>3, <2>5, <2>6, <2>7, TableStep
<1>4. CASE PollReclaims(t)
  <2>1. chunks' = AfterReclaim /\ UNCHANGED op
    BY <1>4 DEF PollReclaims
  <2> QED BY <1>1, <1>2, <2>1, TableStep
<1>5. CASE Renew(t) \/ RenewAndYield(t)
  <2> DEFINE i == job[t].chunk
             c == RenewedChunk(t)
  <2>1. /\ chunks' = Renewed(t) /\ job[t].phase = "renew"
        /\ chunks[i].status = "RUNNING" /\ UNCHANGED op
    BY <1>5 DEF Renew, RenewAndYield, Owns, OwnedBy
  <2>2. /\ i \in DOMAIN chunks /\ chunks' = [chunks EXCEPT ![i] = c]
        /\ c.status = "RUNNING" /\ c.start = chunks[i].start /\ c.end = chunks[i].end
    BY <2>1, RenewedBehind
  <2> HIDE DEF c, i
  <2>3. /\ DOMAIN chunks' = DOMAIN chunks /\ chunks'[i] = c
        /\ \A j \in DOMAIN chunks : j # i => chunks'[j] = chunks[j]
    BY <1>1, <2>2
  <2> QED BY <2>1, <2>2, <2>3, TableStep
<1>6. CASE UNCHANGED <<chunks, op>>
  BY <1>6, TableStep
<1> QED BY <1>3, <1>4, <1>5, <1>6 DEF SlotStep, WriteBatch, RenewRead, FlowWrite,
       RenewRefused, FinishReading

LEMMA OneServerExpires ==
  ASSUME Inductive, OneServerFine, SingleServer, NEW i \in DOMAIN chunks, LeaseExpires(i)
  PROVE  OneServerFine' /\ DoneStays
<1>1. /\ chunks' = [chunks EXCEPT ![i].lease = "expired"] /\ UNCHANGED op
      /\ chunks[i].status = "RUNNING" /\ chunks \in Seq(Chunk) /\ chunks[i] \in Chunk
  BY DEF LeaseExpires, Inductive, TypeOK
<1> DEFINE c == [chunks[i] EXCEPT !.lease = "expired"]
<1>2. /\ chunks' = [chunks EXCEPT ![i] = c] /\ c.status = "RUNNING"
      /\ c.start = chunks[i].start /\ c.end = chunks[i].end
  BY <1>1 DEF Chunk
<1> HIDE DEF c
<1>3. /\ DOMAIN chunks' = DOMAIN chunks /\ chunks'[i] = c
      /\ \A j \in DOMAIN chunks : j # i => chunks'[j] = chunks[j]
  BY <1>1, <1>2
<1> QED BY <1>1, <1>2, <1>3, TableStep

\* Handlers that write no chunk.
LEMMA OneServerGoes ==
  ASSUME Inductive, OneServerFine, SingleServer, NEW s \in Servers,
         \/ \E t \in Slots : CompleteBegin(s, t) \/ FailBegin(s, t)
         \/ YieldRefused(s) \/ NotSlow(s) \/ AdaptList(s) \/ AdaptEnd(s)
         \/ CountRebalance(s) \/ RefreshRead(s) \/ RefreshStore(s) \/ FailTask(s)
         \/ HandlerAborts(s)
  PROVE  OneServerFine' /\ DoneStays
<1> DEFINE x == op[s]
<1>1. /\ x \in Op /\ HandlerCurrent(x) /\ HandlerBehind(x) /\ op \in [Servers -> Op]
      /\ chunks \in Seq(Chunk) /\ PiecesApart(x.pieces)
  BY OneServerIs
<1>2. ASSUME NEW o \in Op, UNCHANGED chunks, op' = [op EXCEPT ![s] = o],
             o.pieces = << >> \/ o.pieces = x.pieces, HandlerCurrent(o)
      PROVE  OneServerFine' /\ DoneStays
  BY <1>2, HandlerGoes
<1>3. ASSUME NEW o \in Op, UNCHANGED chunks, op' = [op EXCEPT ![s] = o],
             o.pieces = << >> \/ o.pieces = x.pieces,
             o.pc \notin {"complete", "yield", "fail", "failchunk", "split"}
      PROVE  OneServerFine' /\ DoneStays
  <2>1. HandlerCurrent(o)
    BY <1>3 DEF HandlerCurrent
  <2> QED BY <1>2, <1>3, <2>1
<1>4. IdleOp \in Op /\ IdleOp.pieces = << >> /\ IdleOp.pc = "idle"
  BY IdleOpOK DEF IdleOp
<1>5. CASE UNCHANGED <<chunks, op>>
  BY <1>5, TableStep
<1>6. ASSUME NEW t \in Slots, CompleteBegin(s, t) \/ FailBegin(s, t)
      PROVE  OneServerFine' /\ DoneStays
  <2> DEFINE i == job[t].chunk
             c == chunks[i]
  <2>1. /\ UNCHANGED chunks /\ job[t].phase # "idle" /\ job[t] \in Job
        /\ i \in DOMAIN chunks /\ c \in Chunk /\ i \in Nat /\ task \in TaskStatus
    <3>1. UNCHANGED chunks /\ job[t].phase # "idle"
      BY <1>6 DEF CompleteBegin, FailBegin
    <3>2. job[t] \in Job /\ JobBehind(job[t]) /\ task \in TaskStatus
      BY DEF Inductive, TypeOK
    <3>3. i \in DOMAIN chunks /\ i \in Nat
      BY <3>1, <3>2 DEF JobBehind, Job
    <3> QED BY <1>1, <3>1, <3>2, <3>3
  <2>2. CASE ~OwnedBy(c, WorkerOf[t])
    BY <1>5, <1>6, <2>1, <2>2 DEF CompleteBegin, FailBegin
  <2>3. CASE OwnedBy(c, WorkerOf[t])
    <3>1. PICK pc \in {"complete", "yield", "fail"}, after \in 0 .. N :
            op' = [op EXCEPT ![s] = [IdleOp EXCEPT !.pc = pc, !.id = i, !.snap = c,
                                                   !.after = after, !.seen = task]]
      <4>1. CASE CompleteBegin(s, t)
        <5>1. job[t].next - 1 \in 0 .. N
          BY <2>1, ConstantsOK DEF Job
        <5> QED BY <2>3, <4>1, <5>1 DEF CompleteBegin, Goto
      <4>2. CASE FailBegin(s, t)
        <5>1. 0 \in 0 .. N
          BY ConstantsOK
        <5>2. op' = [op EXCEPT ![s] = [IdleOp EXCEPT !.pc = "fail", !.id = i, !.snap = c,
                                                     !.seen = task]]
          BY <2>3, <4>2 DEF FailBegin, Goto
        <5>3. [IdleOp EXCEPT !.pc = "fail", !.id = i, !.snap = c, !.seen = task] =
              [IdleOp EXCEPT !.pc = "fail", !.id = i, !.snap = c, !.after = 0, !.seen = task]
          <6>1. IdleOp.after = 0
            BY DEF IdleOp
          <6> QED BY <1>4, <6>1 DEF Op
        <5> QED BY <5>1, <5>2, <5>3
      <4> QED BY <1>6, <4>1, <4>2
    <3> DEFINE o == [IdleOp EXCEPT !.pc = pc, !.id = i, !.snap = c, !.after = after, !.seen = task]
    <3>2. /\ o \in Op /\ o.pc \in {"complete", "yield", "fail"} /\ o.pieces = << >>
          /\ o.snap = c /\ o.id = i
      BY <1>4, <2>1 DEF Op
    <3> HIDE DEF o
    <3>3. Current(c, i)
      BY <2>1, <2>3 DEF Current, OwnedBy
    <3>4. HandlerCurrent(o)
      BY <3>2, <3>3 DEF HandlerCurrent
    <3> QED BY <1>2, <2>1, <3>1, <3>2, <3>4 DEF o
  <2> QED BY <2>2, <2>3
<1>7. CASE YieldRefused(s) \/ RefreshStore(s) \/ HandlerAborts(s)
  <2>1. op' = [op EXCEPT ![s] = IdleOp] /\ UNCHANGED chunks
    BY <1>7 DEF YieldRefused, RefreshStore, HandlerAborts, Goto
  <2> QED BY <1>3, <1>4, <2>1
<1>8. CASE NotSlow(s)
  <2>1. op' = [op EXCEPT ![s] = [x EXCEPT !.pc = "refresh"]] /\ UNCHANGED chunks
    BY <1>8 DEF NotSlow, Goto
  <2>2. /\ [x EXCEPT !.pc = "refresh"] \in Op /\ [x EXCEPT !.pc = "refresh"].pieces = x.pieces
        /\ [x EXCEPT !.pc = "refresh"].pc = "refresh"
    BY <1>1 DEF Op
  <2> QED BY <1>3, <2>1, <2>2
<1>9. CASE AdaptList(s)
  <2> DEFINE o == [x EXCEPT !.pc = "split", !.view = chunks, !.at = 1, !.seen = task]
  <2>1. op' = [op EXCEPT ![s] = o] /\ UNCHANGED chunks
    BY <1>9 DEF AdaptList, Goto
  <2>2. o \in Op /\ o.pc = "split" /\ o.view = chunks /\ o.at = 1 /\ o.pieces = x.pieces
    BY <1>1 DEF Op, Inductive, TypeOK
  <2> HIDE DEF o
  <2>3. HandlerCurrent(o)
    <3>1. ASSUME NEW i \in Candidates(o) PROVE Current(o.view[i], i)
      <4>1. i \in 1 .. Len(chunks) /\ Splittable(chunks[i])
        BY <2>2 DEF Candidates
      <4>2. i \in DOMAIN chunks /\ chunks[i].status = "PENDING"
        BY <1>1, <4>1 DEF Splittable
      <4> QED BY <2>2, <4>2 DEF Current
    <3> QED BY <2>2, <3>1 DEF HandlerCurrent
  <2> QED BY <1>2, <2>1, <2>2, <2>3
<1>10. CASE AdaptEnd(s)
  <2> DEFINE pc == IF x.pieces = << >> THEN "refresh" ELSE "insert"
             o == [x EXCEPT !.pc = pc, !.view = << >>, !.at = 1]
  <2>1. op' = [op EXCEPT ![s] = o] /\ UNCHANGED chunks /\ pc \in {"refresh", "insert"}
    BY <1>10 DEF AdaptEnd, Goto
  <2> HIDE DEF pc
  <2>2. o \in Op /\ o.pc = pc /\ o.pieces = x.pieces
    <3>1. << >> \in Seq(Chunk) /\ 1 \in Nat
      OBVIOUS
    <3> QED BY <1>1, <2>1, <3>1 DEF Op
  <2> QED BY <1>3, <2>1, <2>2
<1>11. CASE CountRebalance(s)
  <2> DEFINE o == [IdleOp EXCEPT !.pc = "refresh", !.id = x.id]
  <2>1. op' = [op EXCEPT ![s] = o] /\ UNCHANGED chunks
    BY <1>11 DEF CountRebalance, Goto
  <2>2. o \in Op /\ o.pc = "refresh" /\ o.pieces = << >>
    BY <1>1, <1>4 DEF Op
  <2> QED BY <1>3, <2>1, <2>2
<1>12. CASE RefreshRead(s)
  <2> DEFINE o == [IdleOp EXCEPT !.pc = "store", !.id = x.id, !.seen = task, !.allDone = AllSucceeded]
  <2>1. op' = [op EXCEPT ![s] = o] /\ UNCHANGED chunks
    BY <1>12 DEF RefreshRead, Goto
  <2>2. AllSucceeded \in BOOLEAN /\ task \in TaskStatus
    BY DEF AllSucceeded, Inductive, TypeOK
  <2>3. o \in Op /\ o.pc = "store" /\ o.pieces = << >>
    <3> HIDE DEF AllSucceeded
    <3> QED BY <1>1, <1>4, <2>2 DEF Op
  <2> QED BY <1>3, <2>1, <2>3
<1>13. CASE FailTask(s)
  <2> DEFINE o == [x EXCEPT !.pc = "failchunk"]
  <2>1. op' = [op EXCEPT ![s] = o] /\ UNCHANGED chunks /\ x.pc = "fail"
    BY <1>13 DEF FailTask, Goto
  <2>2. o \in Op /\ o.pc = "failchunk" /\ o.pieces = x.pieces /\ o.snap = x.snap /\ o.id = x.id
    BY <1>1 DEF Op
  <2> HIDE DEF o
  <2>3. HandlerCurrent(o)
    BY <1>1, <2>1, <2>2 DEF HandlerCurrent
  <2> QED BY <1>2, <2>1, <2>2, <2>3
<1> QED BY <1>6, <1>7, <1>8, <1>9, <1>10, <1>11, <1>12, <1>13

\* Handlers that store one chunk in the range it has.
LEMMA OneServerStores ==
  ASSUME Inductive, OneServerFine, SingleServer, NEW s \in Servers,
         CompleteStore(s) \/ YieldAtEnd(s) \/ FailStore(s)
  PROVE  OneServerFine' /\ DoneStays
<1> DEFINE x == op[s]
<1>1. x \in Op /\ HandlerCurrent(x) /\ x.snap \in Chunk /\ x.id \in Nat
  BY OneServerIs DEF Op
<1>2. x.pc \in {"complete", "yield", "fail", "failchunk"}
  BY DEF CompleteStore, YieldAtEnd, FailStore
<1>3. Current(x.snap, x.id)
  BY <1>1, <1>2 DEF HandlerCurrent
<1>4. IdleOp \in Op /\ IdleOp.pieces = << >> /\ IdleOp.pc = "idle"
  BY IdleOpOK DEF IdleOp
<1>5. PICK pc \in {"idle", "adapt", "refresh"} :
        \/ op' = [op EXCEPT ![s] = IdleOp]
        \/ op' = [op EXCEPT ![s] = [IdleOp EXCEPT !.pc = pc, !.id = x.id]]
  BY DEF CompleteStore, YieldAtEnd, FailStore, Goto
<1>6. PICK o \in Op : /\ op' = [op EXCEPT ![s] = o] /\ o.pieces = << >>
                      /\ o.pc \in {"idle", "adapt", "refresh"}
  <2>1. /\ [IdleOp EXCEPT !.pc = pc, !.id = x.id] \in Op
        /\ [IdleOp EXCEPT !.pc = pc, !.id = x.id].pieces = << >>
        /\ [IdleOp EXCEPT !.pc = pc, !.id = x.id].pc = pc
    BY <1>1, <1>4 DEF Op
  <2> QED BY <1>4, <1>5, <2>1
<1>7. PICK c \in Chunk : /\ chunks' = [chunks EXCEPT ![x.id] = c]
                         /\ c.start = x.snap.start /\ c.end = x.snap.end
  <2>1. CASE CompleteStore(s)
    <3> DEFINE c == [x.snap EXCEPT !.status = "SUCCESS", !.lease = "none"]
    <3>1. c \in Chunk /\ c.start = x.snap.start /\ c.end = x.snap.end
      BY <1>1 DEF Chunk
    <3>2. chunks' = [chunks EXCEPT ![x.id] = c]
      BY <2>1 DEF CompleteStore, StoreChunk
    <3> HIDE DEF c
    <3> QED BY <3>1, <3>2
  <2>2. CASE YieldAtEnd(s)
    <3> DEFINE c == [x.snap EXCEPT !.cursor = x.after, !.status = "SUCCESS",
                                   !.owner = NoWorker, !.lease = "none"]
    <3>1. c \in Chunk /\ c.start = x.snap.start /\ c.end = x.snap.end
      BY <1>1 DEF Chunk, Op
    <3>2. chunks' = [chunks EXCEPT ![x.id] = c]
      BY <2>2 DEF YieldAtEnd, StoreChunk
    <3> HIDE DEF c
    <3> QED BY <3>1, <3>2
  <2>3. CASE FailStore(s)
    <3> DEFINE status == IF Exhausted(x) THEN "FAILED" ELSE "PENDING"
               retries == IF Stopped(x) THEN x.snap.retries ELSE x.snap.retries + 1
               c == [x.snap EXCEPT !.owner = NoWorker, !.lease = "none",
                                   !.status = status, !.retries = retries]
    <3>1. status \in {"FAILED", "PENDING"} /\ retries \in Nat
      BY <1>1 DEF Chunk
    <3>2. chunks' = [chunks EXCEPT ![x.id] = c]
      BY <2>3 DEF FailStore, StoreChunk
    <3> HIDE DEF status, retries
    <3>3. c \in Chunk /\ c.start = x.snap.start /\ c.end = x.snap.end
      BY <1>1, <3>1 DEF Chunk
    <3> HIDE DEF c
    <3> QED BY <3>2, <3>3
  <2> QED BY <2>1, <2>2, <2>3
<1>8. Current(c, x.id)
  BY <1>3, <1>7 DEF Current
<1> QED BY <1>6, <1>7, <1>8, HandlerStores

LEMMA Behind ==
  ASSUME NEW n \in Nat, NEW p \in Nat, p >= 1
  PROVE  /\ \A a \in (n + 1) .. (n + (p - 1)) : a - n \in 1 .. (p - 1) /\ a - n + 1 \in 2 .. p
         /\ \A a, b \in 1 .. (n + (p - 1)) : a # b => a - n + 1 # b - n + 1
OBVIOUS

LEMMA SubRange ==
  ASSUME NEW a \in Nat, NEW b \in Nat, NEW c \in Nat, NEW d \in Nat
  PROVE  /\ c <= a /\ b <= d => a .. b \subseteq c .. d
         /\ d < a => (a .. b) \cap (c .. d) = {}
OBVIOUS

LEMMA Joined ==
  ASSUME NEW S, NEW a \in Seq(S), NEW b \in Seq(S), NEW n \in Nat, NEW m \in Nat,
         Len(a) = n, Len(b) = m
  PROVE  /\ a \o b \in Seq(S) /\ DOMAIN (a \o b) = 1 .. (n + m)
         /\ \A i \in 1 .. n : (a \o b)[i] = a[i]
         /\ \A i \in (n + 1) .. (n + m) : (a \o b)[i] = b[i - n]
<1>1. a \o b \in Seq(S) /\ Len(a \o b) = n + m
  OBVIOUS
<1>2. \A i \in 1 .. n : (a \o b)[i] = a[i]
  OBVIOUS
<1>3. \A i \in (n + 1) .. (n + m) : (a \o b)[i] = b[i - n]
  OBVIOUS
<1> QED BY <1>1, <1>2, <1>3

\* An adaptive split takes rows from a pending chunk and keeps them in pieces.
LEMMA OneServerSplits ==
  ASSUME Inductive, OneServerFine, SingleServer, NEW s \in Servers, AdaptSplit(s)
  PROVE  OneServerFine' /\ DoneStays
<1> DEFINE x == op[s]
<1>1. /\ RangesApart /\ PiecesApart(x.pieces) /\ HandlerCurrent(x) /\ x \in Op
      /\ op \in [Servers -> Op] /\ chunks \in Seq(Chunk) /\ x.pc = "split"
  BY OneServerIs DEF AdaptSplit
<1>2. PICK i \in Candidates(x), p \in 2 .. (MaxPieces - Len(x.pieces) + 1) :
        LET c == x.view[i]
            cut == Pieces(c.start, c.end, p)
        IN /\ p <= c.end - c.start + 1
           /\ StoreChunk(i, [c EXCEPT !.end = cut[1].end])
           /\ op' = [op EXCEPT ![s] =
                [x EXCEPT !.at = i + 1, !.pieces = x.pieces \o Tail(cut)]]
  BY DEF AdaptSplit, Goto
<1> DEFINE c == x.view[i]
           cut == Pieces(c.start, c.end, p)
           new == [c EXCEPT !.end = cut[1].end]
           more == x.pieces \o Tail(cut)
           o == [x EXCEPT !.at = i + 1, !.pieces = more]
           n == Len(x.pieces)
<1>3. /\ x.view \in Seq(Chunk) /\ x.pieces \in Seq(KeyRange) /\ x.at \in Nat
      /\ n \in Nat /\ DOMAIN x.pieces = 1 .. n
      /\ \A a \in 1 .. n : x.pieces[a] \in KeyRange
  BY <1>1 DEF Op
<1>4. /\ i \in x.at .. Len(x.view) /\ Splittable(c) /\ c \in Chunk
      /\ Current(c, i) /\ i \in DOMAIN chunks /\ i \in Nat
  <2>1. i \in x.at .. Len(x.view) /\ Splittable(c)
    BY <1>2 DEF Candidates
  <2>2. Current(c, i)
    BY <1>1, <1>2 DEF HandlerCurrent
  <2>3. i \in DOMAIN chunks /\ i \in Nat
    BY <1>1, <2>2 DEF Current
  <2>4. x.at >= 1
    BY <1>1, OneServerIs DEF HandlerBehind
  <2>5. i \in 1 .. Len(x.view)
    BY <1>3, <2>1, <2>4
  <2>6. c \in Chunk
    BY <1>3, <2>5
  <2> QED BY <2>1, <2>2, <2>3, <2>6
<1>5. /\ c.start \in Row /\ c.end \in Row /\ c.start <= c.end /\ Row \subseteq Nat
      /\ p \in 1 .. (c.end - c.start + 1) /\ p \in Nat /\ p >= 2
  <2>1. c.start \in Row /\ c.end \in Row /\ c.start < c.end /\ Row \subseteq Nat
    BY <1>4, ConstantsOK DEF Chunk, Splittable, Row
  <2>2. MaxPieces \in Nat /\ p \in Int /\ p >= 2 /\ p <= c.end - c.start + 1
    BY <1>2, <1>3, ConstantsOK
  <2> HIDE DEF c
  <2>3. c.start \in Nat /\ c.end \in Nat
    BY <2>1
  <2> QED BY <2>1, <2>2, <2>3
<1>6. /\ DOMAIN cut = 1 .. p /\ cut[1].start = c.start
      /\ \A a \in 1 .. p : /\ c.start <= cut[a].start /\ cut[a].end <= c.end
                           /\ cut[a].start \in Row /\ cut[a].end \in Row
      /\ \A a, b \in 1 .. p : a < b => cut[a].end < cut[b].start
      /\ cut \in Seq(KeyRange) /\ Len(cut) = p
  <2> HIDE DEF c
  <2> QED BY <1>5, PiecesInOrder, PiecesCover
<1>7. /\ chunks' = [chunks EXCEPT ![i] = new] /\ op' = [op EXCEPT ![s] = o]
  BY <1>2 DEF StoreChunk
<1>8. /\ new.start = c.start /\ new.end = cut[1].end /\ new.status = "PENDING"
  <2> HIDE DEF cut
  <2> QED BY <1>4 DEF Chunk, Splittable
<1> HIDE DEF c, cut, new
<1>9. /\ DOMAIN chunks' = DOMAIN chunks /\ chunks'[i] = new
      /\ \A j \in DOMAIN chunks : j # i => chunks'[j] = chunks[j]
  BY <1>1, <1>4, <1>7
<1>10. /\ Tail(cut) \in Seq(KeyRange) /\ Len(Tail(cut)) = p - 1
       /\ \A a \in 1 .. (p - 1) : Tail(cut)[a] = cut[a + 1]
  BY <1>5, <1>6
<1>11. /\ DOMAIN more = 1 .. (n + (p - 1))
       /\ \A a \in 1 .. n : more[a] = x.pieces[a]
       /\ \A a \in (n + 1) .. (n + (p - 1)) : more[a] = cut[a - n + 1] /\ a - n + 1 \in 2 .. p
       /\ more \in Seq(KeyRange)
  <2>1. \A a \in (n + 1) .. (n + (p - 1)) : a - n \in 1 .. (p - 1) /\ a - n + 1 \in 2 .. p
    <3>1. n \in Nat /\ p \in Nat /\ p >= 1
      BY <1>3, <1>5
    <3> HIDE DEF n
    <3> QED BY <3>1, Behind
  <2>2. /\ more \in Seq(KeyRange) /\ DOMAIN more = 1 .. (n + (p - 1))
        /\ \A a \in 1 .. n : more[a] = x.pieces[a]
        /\ \A a \in (n + 1) .. (n + (p - 1)) : more[a] = Tail(cut)[a - n]
    BY <1>3, <1>10, Joined
  <2> HIDE DEF more
  <2>3. ASSUME NEW a \in (n + 1) .. (n + (p - 1))
        PROVE  more[a] = cut[a - n + 1]
    BY <1>10, <2>1, <2>2, <2>3
  <2> QED BY <2>1, <2>2, <2>3
<1>12. op'[s] = o /\ o.pc = "split" /\ o.at = i + 1 /\ o.pieces = more /\ o.view = x.view
  <2> HIDE DEF more
  <2> QED BY <1>1, <1>7 DEF Op
<1> HIDE DEF more, o
<1> DEFINE Old(a) == x.pieces[a].start .. x.pieces[a].end
           Cut(a) == cut[a].start .. cut[a].end
           New(a) == more[a].start .. more[a].end
<1>13. /\ ChunkRows(i) = c.start .. c.end /\ ChunkRows(i)' = Cut(1)
       /\ \A j \in DOMAIN chunks : j # i => ChunkRows(j)' = ChunkRows(j)
  BY <1>4, <1>6, <1>8, <1>9 DEF ChunkRows, Current
<1>14. ASSUME NEW a \in 1 .. p PROVE Cut(a) \subseteq c.start .. c.end
  <2>1. /\ c.start \in Nat /\ c.end \in Nat /\ cut[a].start \in Nat /\ cut[a].end \in Nat
        /\ c.start <= cut[a].start /\ cut[a].end <= c.end
    BY <1>5, <1>6
  <2> QED BY <2>1, SubRange
<1>15. \A a, b \in 1 .. p : a # b => Cut(a) \cap Cut(b) = {}
  <2>1. ASSUME NEW a \in 1 .. p, NEW b \in 1 .. p, a < b PROVE Cut(a) \cap Cut(b) = {}
    <3>1. /\ cut[a].end < cut[b].start /\ cut[a].end \in Nat /\ cut[b].start \in Nat
          /\ cut[b].end \in Nat /\ cut[a].start \in Nat
      BY <1>5, <1>6, <2>1
    <3> QED BY <3>1
  <2>2. \A a, b \in 1 .. p : a # b => a < b \/ b < a
    BY <1>5
  <2> HIDE DEF Cut
  <2> QED BY <2>1, <2>2
<1>16. \A a \in 1 .. (n + (p - 1)) :
         \/ a \in 1 .. n /\ New(a) = Old(a)
         \/ /\ a \notin 1 .. n /\ a - n + 1 \in 1 .. p /\ a - n + 1 # 1
            /\ New(a) = Cut(a - n + 1)
  <2> TAKE a \in 1 .. (n + (p - 1))
  <2>1. CASE a \in 1 .. n
    BY <1>11, <2>1
  <2>2. CASE a \notin 1 .. n
    <3>1. a \in (n + 1) .. (n + (p - 1))
      BY <1>3, <1>5, <2>2
    <3>2. more[a] = cut[a - n + 1] /\ a - n + 1 \in 2 .. p
      BY <1>11, <3>1
    <3>3. a - n + 1 \in 1 .. p /\ a - n + 1 # 1
      BY <1>5, <3>2
    <3> QED BY <2>2, <3>2, <3>3
  <2> QED BY <2>1, <2>2
<1>17. /\ \A a, b \in 1 .. n : a # b => Old(a) \cap Old(b) = {}
       /\ \A j \in DOMAIN chunks, a \in 1 .. n : ChunkRows(j) \cap Old(a) = {}
  BY <1>1, <1>3 DEF PiecesApart
<1> HIDE DEF Cut, Old
<1>18. RangesApart'
  <2> SUFFICES ASSUME NEW j \in DOMAIN chunks, NEW k \in DOMAIN chunks, j # k
               PROVE  (ChunkRows(j) \cap ChunkRows(k) = {})'
    BY <1>9 DEF RangesApart
  <2>1. ChunkRows(j)' \subseteq ChunkRows(j) /\ ChunkRows(k)' \subseteq ChunkRows(k)
    <3>1. 1 \in 1 .. p
      BY <1>5
    <3> QED BY <1>13, <1>14, <3>1
  <2>2. ChunkRows(j) \cap ChunkRows(k) = {}
    BY <1>1 DEF RangesApart
  <2> QED BY <2>1, <2>2
<1>19. PiecesApart(op[s].pieces)'
  <2>1. ASSUME NEW a \in 1 .. (n + (p - 1)), NEW b \in 1 .. (n + (p - 1)), a # b
        PROVE  New(a) \cap New(b) = {}
    <3> HIDE DEF New
    <3>1. a - n + 1 # b - n + 1
      <4>1. n \in Nat /\ p \in Nat /\ p >= 1
        BY <1>3, <1>5
      <4> HIDE DEF n
      <4> QED BY <2>1, <4>1, Behind
    <3>2. \A d \in 1 .. p, e \in 1 .. n : Cut(d) \cap Old(e) = {}
      <4>1. \A e \in 1 .. n : ChunkRows(i) \cap Old(e) = {}
        BY <1>4, <1>17
      <4>2. \A d \in 1 .. p : Cut(d) \subseteq ChunkRows(i)
        BY <1>13, <1>14
      <4> QED BY <4>1, <4>2
    <3>3. PICK d : d = a - n + 1
      OBVIOUS
    <3>4. PICK e : e = b - n + 1
      OBVIOUS
    <3>5. \/ a \in 1 .. n /\ New(a) = Old(a)
          \/ d \in 1 .. p /\ New(a) = Cut(d)
      BY <1>16, <2>1, <3>3
    <3>6. \/ b \in 1 .. n /\ New(b) = Old(b)
          \/ e \in 1 .. p /\ New(b) = Cut(e)
      BY <1>16, <2>1, <3>4
    <3>7. d # e
      BY <3>1, <3>3, <3>4
    <3> QED BY <1>15, <1>17, <2>1, <3>2, <3>5, <3>6, <3>7
  <2>2. ASSUME NEW j \in DOMAIN chunks, NEW a \in 1 .. (n + (p - 1))
        PROVE  ChunkRows(j)' \cap New(a) = {}
    <3> HIDE DEF New
    <3>1. 1 \in 1 .. p
      BY <1>5
    <3>2. ChunkRows(j)' \subseteq ChunkRows(j)
      BY <1>13, <1>14, <3>1
    <3>3. PICK d : d = a - n + 1
      OBVIOUS
    <3>4. \/ a \in 1 .. n /\ New(a) = Old(a)
          \/ d \in 1 .. p /\ d # 1 /\ New(a) = Cut(d)
      BY <1>16, <3>3
    <3>5. CASE a \in 1 .. n /\ New(a) = Old(a)
      <4>1. ChunkRows(j) \cap Old(a) = {}
        BY <1>17, <3>5
      <4> QED BY <3>2, <3>5, <4>1
    <3>6. CASE d \in 1 .. p /\ d # 1 /\ New(a) = Cut(d) /\ j = i
      BY <1>13, <1>15, <3>1, <3>6
    <3>7. CASE d \in 1 .. p /\ New(a) = Cut(d) /\ j # i
      <4>1. ChunkRows(j) \cap ChunkRows(i) = {}
        BY <1>1, <1>4, <3>7 DEF RangesApart
      <4>2. New(a) \subseteq ChunkRows(i)
        BY <1>13, <1>14, <3>7
      <4> QED BY <3>2, <4>1, <4>2
    <3> QED BY <3>4, <3>5, <3>6, <3>7
  <2> QED BY <1>9, <1>11, <1>12, <2>1, <2>2 DEF PiecesApart
<1>20. HandlerCurrent(op[s])'
  <2>1. PICK y : y = op'[s]
    OBVIOUS
  <2>2. y.pc = "split" /\ y.at = i + 1 /\ y.view = x.view
    BY <1>12, <2>1
  <2>3. ASSUME NEW j \in Candidates(y) PROVE Current(y.view[j], j)'
    <3>1. j \in (i + 1) .. Len(x.view) /\ Splittable(x.view[j])
      BY <2>2, <2>3 DEF Candidates
    <3>2. j \in x.at .. Len(x.view) /\ j # i
      BY <1>3, <1>4, <3>1
    <3>3. j \in Candidates(x)
      BY <3>1, <3>2 DEF Candidates
    <3>4. Current(x.view[j], j)
      BY <1>1, <3>3 DEF HandlerCurrent
    <3> QED BY <1>9, <2>2, <3>2, <3>4 DEF Current
  <2>4. HandlerCurrent(y)'
    BY <2>2, <2>3 DEF HandlerCurrent, Candidates
  <2> QED BY <2>1, <2>4 DEF HandlerCurrent, Current, Candidates
<1>21. DoneStays
  BY <1>4, <1>9 DEF DoneStays, Current
<1> QED BY <1>18, <1>19, <1>20, <1>21, OneHandler

\* A handler appends rows that share no row with the chunks or with the pieces
\* it still holds.
LEMMA TableGrows ==
  ASSUME Inductive, OneServerFine, SingleServer, NEW s \in Servers, NEW o \in Op,
         op' = [op EXCEPT ![s] = o], o.pc \in {"count", "insert"},
         NEW cs \in Seq(Chunk), Len(cs) = Len(chunks),
         NEW ranges \in Seq(KeyRange), NEW kind \in {"RANGE", "REBALANCED"},
         chunks' = WithNewChunks(cs, ranges, kind),
         \A i \in DOMAIN chunks :
           /\ cs[i].start .. cs[i].end \subseteq ChunkRows(i)
           /\ chunks[i].status = "SUCCESS" => cs[i] = chunks[i],
         \A a, b \in DOMAIN ranges : a # b =>
           (ranges[a].start .. ranges[a].end) \cap (ranges[b].start .. ranges[b].end) = {},
         \A i \in DOMAIN chunks, a \in DOMAIN ranges :
           (cs[i].start .. cs[i].end) \cap (ranges[a].start .. ranges[a].end) = {},
         PiecesApart(o.pieces),
         \A a \in DOMAIN ranges, b \in DOMAIN o.pieces :
           (ranges[a].start .. ranges[a].end) \cap (o.pieces[b].start .. o.pieces[b].end) = {}
  PROVE  OneServerFine' /\ DoneStays
<1> DEFINE n == Len(chunks)
           m == n + Len(ranges)
           Old(i) == cs[i].start .. cs[i].end
           Add(a) == ranges[a].start .. ranges[a].end
           Piece(b) == o.pieces[b].start .. o.pieces[b].end
<1>1. /\ RangesApart /\ op'[s] = o /\ chunks \in Seq(Chunk)
      /\ core \in Seq(Row) /\ Len(core) = n /\ n \in Nat
      /\ DOMAIN chunks = 1 .. n
  BY OneServerIs DEF Inductive, TypeOK
<1>2. IsAppended(chunks', WithNewCores(core, ranges), cs, core, ranges, kind)
  BY <1>1, Appended
<1>3. /\ DOMAIN chunks' = 1 .. m /\ n <= m /\ m \in Nat
      /\ \A i \in 1 .. n : chunks'[i] = cs[i]
      /\ \A i \in 1 .. m : i \notin 1 .. n =>
           chunks'[i] = NewChunk(ranges[i - n], kind) /\ i - n \in DOMAIN ranges
  BY <1>2 DEF IsAppended
<1>4. \A i \in 1 .. n : ChunkRows(i)' = Old(i) /\ Old(i) \subseteq ChunkRows(i)
  BY <1>1, <1>3 DEF ChunkRows
<1>5. \A i \in 1 .. m : i \notin 1 .. n =>
        ChunkRows(i)' = Add(i - n) /\ i - n \in DOMAIN ranges
  BY <1>3 DEF ChunkRows, NewChunk
<1>6. \A i, j \in 1 .. n : i # j => Old(i) \cap Old(j) = {}
  <2> HIDE DEF Old
  <2> QED BY <1>1, <1>4 DEF RangesApart
<1>7. /\ \A a, b \in DOMAIN ranges : a # b => Add(a) \cap Add(b) = {}
      /\ \A i \in 1 .. n, a \in DOMAIN ranges : Old(i) \cap Add(a) = {}
      /\ \A a \in DOMAIN ranges, b \in DOMAIN o.pieces : Add(a) \cap Piece(b) = {}
      /\ \A a, b \in DOMAIN o.pieces : a # b => Piece(a) \cap Piece(b) = {}
      /\ \A i \in 1 .. n, b \in DOMAIN o.pieces : ChunkRows(i) \cap Piece(b) = {}
  BY <1>1 DEF PiecesApart
<1> HIDE DEF Old, Add
<1>8. \A i \in 1 .. m : \/ i \in 1 .. n /\ ChunkRows(i)' = Old(i)
                        \/ \E a \in DOMAIN ranges : a = i - n /\ ChunkRows(i)' = Add(a)
  BY <1>4, <1>5
<1>9. RangesApart'
  <2> SUFFICES ASSUME NEW i \in 1 .. m, NEW j \in 1 .. m, i # j
               PROVE  ChunkRows(i)' \cap ChunkRows(j)' = {}
    BY <1>3 DEF RangesApart
  <2>1. i - n # j - n
    BY <1>1, <1>3
  <2>2. CASE i \in 1 .. n /\ ChunkRows(i)' = Old(i)
    BY <1>6, <1>7, <1>8, <2>2
  <2>3. ASSUME NEW a \in DOMAIN ranges, a = i - n, ChunkRows(i)' = Add(a)
        PROVE  ChunkRows(i)' \cap ChunkRows(j)' = {}
    <3>1. CASE j \in 1 .. n /\ ChunkRows(j)' = Old(j)
      BY <1>7, <2>3, <3>1
    <3>2. ASSUME NEW b \in DOMAIN ranges, b = j - n, ChunkRows(j)' = Add(b)
          PROVE  ChunkRows(i)' \cap ChunkRows(j)' = {}
      <4>1. a # b
        BY <2>1, <2>3, <3>2
      <4> QED BY <1>7, <2>3, <3>2, <4>1
    <3> QED BY <1>8, <3>1, <3>2
  <2> QED BY <1>8, <2>2, <2>3
<1>10. PiecesApart(op[s].pieces)'
  <2>1. \A i \in 1 .. m, b \in DOMAIN o.pieces : ChunkRows(i)' \cap Piece(b) = {}
    <3> SUFFICES ASSUME NEW i \in 1 .. m, NEW b \in DOMAIN o.pieces
                 PROVE  ChunkRows(i)' \cap Piece(b) = {}
      OBVIOUS
    <3> HIDE DEF Piece
    <3>1. CASE i \in 1 .. n /\ ChunkRows(i)' = Old(i)
      BY <1>4, <1>7, <3>1
    <3>2. ASSUME NEW a \in DOMAIN ranges, ChunkRows(i)' = Add(a)
          PROVE  ChunkRows(i)' \cap Piece(b) = {}
      BY <1>7, <3>2
    <3> QED BY <1>8, <3>1, <3>2
  <2>2. PiecesApart(o.pieces)'
    BY <1>3, <1>7, <2>1 DEF PiecesApart
  <2> QED BY <1>1, <2>2 DEF PiecesApart, ChunkRows
<1>11. HandlerCurrent(op[s])'
  BY <1>1 DEF HandlerCurrent
<1>12. DoneStays
  BY <1>1, <1>3 DEF DoneStays
<1> QED BY <1>9, <1>10, <1>11, <1>12, OneHandler

\* The first piece becomes a chunk, the others wait.
LEMMA OneServerInserts ==
  ASSUME Inductive, OneServerFine, SingleServer, NEW s \in Servers, AdaptInsert(s)
  PROVE  OneServerFine' /\ DoneStays
<1> DEFINE x == op[s]
           r == <<Head(x.pieces)>>
           n == Len(x.pieces)
           pc == IF Len(x.pieces) = 1 THEN "count" ELSE "insert"
           o == [x EXCEPT !.pieces = Tail(x.pieces), !.pc = pc]
<1>1. /\ x \in Op /\ HandlerBehind(x) /\ x.pc = "insert" /\ RangesApart
      /\ PiecesApart(x.pieces) /\ chunks \in Seq(Chunk)
  BY OneServerIs DEF AdaptInsert
<1>2. x.pieces \in Seq(KeyRange) /\ x.pieces # << >>
  BY <1>1 DEF HandlerBehind, Op
<1>3. /\ chunks' = WithNewChunks(chunks, r, "RANGE") /\ op' = [op EXCEPT ![s] = o]
  BY DEF AdaptInsert, Goto
<1>4. /\ pc \in {"count", "insert"} /\ Tail(x.pieces) \in Seq(KeyRange)
      /\ n \in Nat /\ n >= 1 /\ DOMAIN x.pieces = 1 .. n
      /\ DOMAIN Tail(x.pieces) = 1 .. (n - 1)
      /\ \A b \in 1 .. (n - 1) : Tail(x.pieces)[b] = x.pieces[b + 1]
  BY <1>2
<1>5. r \in Seq(KeyRange) /\ DOMAIN r = {1} /\ r[1] = x.pieces[1] /\ 1 \in 1 .. n
  BY <1>2, <1>4
<1> HIDE DEF pc, r
<1>6. o \in Op /\ o.pc = pc /\ o.pieces = Tail(x.pieces)
  BY <1>1, <1>4 DEF Op
<1> HIDE DEF o
<1> DEFINE Piece(b) == x.pieces[b].start .. x.pieces[b].end
           Rest(b) == Tail(x.pieces)[b].start .. Tail(x.pieces)[b].end
<1>7. /\ \A a, b \in 1 .. n : a # b => Piece(a) \cap Piece(b) = {}
      /\ \A i \in DOMAIN chunks, a \in 1 .. n : ChunkRows(i) \cap Piece(a) = {}
  BY <1>1, <1>4 DEF PiecesApart
<1>8. \A b \in 1 .. (n - 1) : b + 1 \in 1 .. n /\ b + 1 # 1 /\ Rest(b) = Piece(b + 1)
  BY <1>4
<1>9. /\ \A a, b \in 1 .. (n - 1) : a # b => Rest(a) \cap Rest(b) = {}
      /\ \A i \in DOMAIN chunks, a \in 1 .. (n - 1) : ChunkRows(i) \cap Rest(a) = {}
      /\ \A b \in 1 .. (n - 1) : Piece(1) \cap Rest(b) = {}
  <2> HIDE DEF Piece, Rest
  <2>1. \A a, b \in 1 .. (n - 1) : a # b => a + 1 # b + 1
    BY <1>4
  <2> QED BY <1>5, <1>7, <1>8, <2>1
<1>10. PiecesApart(o.pieces)
  BY <1>4, <1>6, <1>9 DEF PiecesApart
<1>11. \A a \in DOMAIN r, b \in DOMAIN o.pieces :
         (r[a].start .. r[a].end) \cap (o.pieces[b].start .. o.pieces[b].end) = {}
  BY <1>4, <1>5, <1>6, <1>9
<1>12. \A i \in DOMAIN chunks, a \in DOMAIN r :
         (chunks[i].start .. chunks[i].end) \cap (r[a].start .. r[a].end) = {}
  BY <1>5, <1>7 DEF ChunkRows
<1>13. \A i \in DOMAIN chunks : chunks[i].start .. chunks[i].end \subseteq ChunkRows(i)
  BY DEF ChunkRows
<1>14. \A a, b \in DOMAIN r : a # b =>
         (r[a].start .. r[a].end) \cap (r[b].start .. r[b].end) = {}
  BY <1>5
<1>15. o.pc \in {"count", "insert"} /\ "RANGE" \in {"RANGE", "REBALANCED"}
  BY <1>4, <1>6
<1> HIDE DEF Piece, Rest
<1>16. /\ chunks \in Seq(Chunk) /\ r \in Seq(KeyRange) /\ o \in Op
       /\ op' = [op EXCEPT ![s] = o] /\ chunks' = WithNewChunks(chunks, r, "RANGE")
  BY <1>1, <1>3, <1>5, <1>6
<1> HIDE DEF x, n
<1>17. PICK cs \in Seq(Chunk) : cs = chunks
  BY <1>16
<1>18. /\ chunks' = WithNewChunks(cs, r, "RANGE") /\ Len(cs) = Len(chunks)
       /\ r \in Seq(KeyRange) /\ o \in Op /\ op' = [op EXCEPT ![s] = o]
       /\ \A i \in DOMAIN chunks :
            /\ cs[i].start .. cs[i].end \subseteq ChunkRows(i)
            /\ chunks[i].status = "SUCCESS" => cs[i] = chunks[i]
       /\ \A i \in DOMAIN chunks, a \in DOMAIN r :
            (cs[i].start .. cs[i].end) \cap (r[a].start .. r[a].end) = {}
  BY <1>12, <1>13, <1>16, <1>17
<1>19. PICK y \in Op : y = o
  BY <1>18
<1>20. PICK q \in Seq(KeyRange) : q = r
  BY <1>18
<1>21. op' = [op EXCEPT ![s] = y] /\ y.pc \in {"count", "insert"} /\ PiecesApart(y.pieces)
  BY <1>10, <1>15, <1>18, <1>19
<1>22. /\ chunks' = WithNewChunks(cs, q, "RANGE")
       /\ \A a, b \in DOMAIN q : a # b =>
            (q[a].start .. q[a].end) \cap (q[b].start .. q[b].end) = {}
       /\ \A i \in DOMAIN chunks, a \in DOMAIN q :
            (cs[i].start .. cs[i].end) \cap (q[a].start .. q[a].end) = {}
       /\ \A a \in DOMAIN q, b \in DOMAIN y.pieces :
            (q[a].start .. q[a].end) \cap (y.pieces[b].start .. y.pieces[b].end) = {}
  BY <1>11, <1>14, <1>18, <1>19, <1>20
<1>23. Len(cs) = Len(chunks)
       /\ \A i \in DOMAIN chunks :
            /\ cs[i].start .. cs[i].end \subseteq ChunkRows(i)
            /\ chunks[i].status = "SUCCESS" => cs[i] = chunks[i]
  BY <1>18
<1> HIDE DEF r, o
<1> QED BY <1>15, <1>21, <1>22, <1>23, TableGrows

\* A yield ends its chunk at the cursor and makes chunks of what is behind it.
LEMMA OneServerYields ==
  ASSUME Inductive, OneServerFine, SingleServer, NEW s \in Servers, YieldStore(s)
  PROVE  OneServerFine' /\ DoneStays
<1> DEFINE x == op[s]
           c == Yielded(x)
           o == [IdleOp EXCEPT !.pc = "count", !.id = x.id, !.seen = x.seen]
           cs == [chunks EXCEPT ![x.id] = c]
<1>1. /\ x \in Op /\ HandlerBehind(x) /\ x.pc = "yield" /\ x.after < x.snap.end
      /\ RangesApart /\ chunks \in Seq(Chunk) /\ HandlerCurrent(x)
  BY OneServerIs DEF YieldStore
<1>2. /\ Current(x.snap, x.id) /\ x.pieces = << >> /\ x.snap.start <= x.after
      /\ x.snap \in Chunk /\ x.after \in 0 .. N /\ x.seen \in TaskStatus /\ x.id \in Nat
  BY <1>1 DEF HandlerBehind, HandlerCurrent, Op
<1>3. /\ x.id \in DOMAIN chunks /\ chunks[x.id].status # "SUCCESS"
      /\ ChunkRows(x.id) = x.snap.start .. x.snap.end
  BY <1>2 DEF Current, ChunkRows
<1>4. /\ x.snap.start \in Row /\ x.snap.end \in Row /\ x.after \in Row
      /\ x.after + 1 \in Row /\ N \in Nat /\ Row \subseteq Nat
  BY <1>1, <1>2, ConstantsOK DEF Chunk, Row
<1>5. PICK p \in 1 .. Least(MaxPieces, x.snap.end - x.after) :
        chunks' = WithNewChunks(cs, Pieces(x.after + 1, x.snap.end, p), "REBALANCED")
  BY DEF YieldStore
<1>6. op' = [op EXCEPT ![s] = o]
  BY DEF YieldStore, Goto
<1> DEFINE ranges == Pieces(x.after + 1, x.snap.end, p)
<1>7. /\ ranges \in Seq(KeyRange) /\ DOMAIN ranges = 1 .. p /\ p \in Nat
      /\ \A a \in 1 .. p : /\ x.after + 1 <= ranges[a].start /\ ranges[a].end <= x.snap.end
                           /\ ranges[a].start \in Row /\ ranges[a].end \in Row
      /\ \A a, b \in 1 .. p : a < b => ranges[a].end < ranges[b].start
  <2>1. PICK lo \in Row, hi \in Row : lo = x.after + 1 /\ hi = x.snap.end
    BY <1>4
  <2>2. lo \in Nat /\ hi \in Nat /\ x.after \in Nat /\ lo <= hi
    BY <1>1, <1>4, <2>1
  <2>3. p \in 1 .. Least(MaxPieces, hi - lo + 1)
    <3>1. x.snap.end - x.after = hi - lo + 1
      BY <2>1, <2>2
    <3> QED BY <3>1
  <2>4. p \in 1 .. (hi - lo + 1)
    <3>1. MaxPieces \in Int
      BY ConstantsOK
    <3> QED BY <2>2, <2>3, <3>1 DEF Least
  <2>5. /\ Pieces(lo, hi, p) \in Seq(KeyRange) /\ Len(Pieces(lo, hi, p)) = p
    BY <2>2, <2>4, PiecesCover
  <2>6. ranges = Pieces(lo, hi, p)
    BY <2>1
  <2>7. /\ DOMAIN Pieces(lo, hi, p) = 1 .. p
        /\ \A a \in 1 .. p : /\ lo <= Pieces(lo, hi, p)[a].start
                             /\ Pieces(lo, hi, p)[a].end <= hi
                             /\ Pieces(lo, hi, p)[a].start \in Row
                             /\ Pieces(lo, hi, p)[a].end \in Row
        /\ \A a, b \in 1 .. p : a < b => Pieces(lo, hi, p)[a].end < Pieces(lo, hi, p)[b].start
    BY <2>2, <2>4, PiecesInOrder
  <2>8. p \in Nat
    BY <2>2, <2>4
  <2> HIDE DEF ranges, x
  <2> QED BY <2>1, <2>5, <2>6, <2>7, <2>8
<1>8. c \in Chunk /\ c.start = x.snap.start /\ c.end = x.after
  BY <1>2, <1>4 DEF Yielded, Chunk
<1>9. o \in Op /\ o.pc = "count" /\ o.pieces = << >>
  BY <1>2, IdleOpOK DEF Op, IdleOp
<1>10. chunks' = WithNewChunks(cs, ranges, "REBALANCED")
  BY <1>5
<1> HIDE DEF c, o, ranges
<1>11. cs \in Seq(Chunk) /\ Len(cs) = Len(chunks)
  BY <1>1, <1>3, <1>8, ExceptSeq
<1>12. cs[x.id] = c /\ \A i \in DOMAIN chunks : i # x.id => cs[i] = chunks[i]
  BY <1>1, <1>3
<1> HIDE DEF cs
<1> DEFINE Add(a) == ranges[a].start .. ranges[a].end
           Old(i) == cs[i].start .. cs[i].end
<1>13. ASSUME NEW a \in 1 .. p
       PROVE  /\ Add(a) \subseteq ChunkRows(x.id)
              /\ Add(a) \cap (x.snap.start .. x.after) = {}
  <2>1. /\ ranges[a].start \in Nat /\ ranges[a].end \in Nat /\ x.after \in Nat
        /\ x.snap.start \in Nat /\ x.snap.end \in Nat
        /\ x.after + 1 <= ranges[a].start /\ ranges[a].end <= x.snap.end
        /\ x.snap.start <= x.after
    BY <1>2, <1>4, <1>7
  <2>2. x.snap.start <= ranges[a].start /\ x.after < ranges[a].start
    BY <2>1
  <2>3. Add(a) \subseteq x.snap.start .. x.snap.end
    BY <2>1, <2>2, SubRange
  <2>4. Add(a) \cap (x.snap.start .. x.after) = {}
    BY <2>1, <2>2, SubRange
  <2> QED BY <1>3, <2>3, <2>4
<1>14. \A a, b \in 1 .. p : a # b => Add(a) \cap Add(b) = {}
  <2>1. ASSUME NEW a \in 1 .. p, NEW b \in 1 .. p, a < b PROVE Add(a) \cap Add(b) = {}
    <3>1. /\ ranges[a].end < ranges[b].start /\ ranges[a].end \in Nat
          /\ ranges[b].start \in Nat /\ ranges[b].end \in Nat /\ ranges[a].start \in Nat
      BY <1>4, <1>7, <2>1
    <3> QED BY <3>1
  <2>2. \A a, b \in 1 .. p : a # b => a < b \/ b < a
    BY <1>7
  <2> HIDE DEF Add
  <2> QED BY <2>1, <2>2
<1>15. ASSUME NEW i \in DOMAIN chunks
       PROVE  /\ Old(i) \subseteq ChunkRows(i)
              /\ chunks[i].status = "SUCCESS" => cs[i] = chunks[i]
              /\ \A a \in 1 .. p : Old(i) \cap Add(a) = {}
  <2>1. CASE i = x.id
    <3>1. Old(i) = x.snap.start .. x.after
      BY <1>8, <1>12, <2>1
    <3>2. Old(i) \subseteq ChunkRows(i)
      <4>1. /\ x.after \in Nat /\ x.snap.start \in Nat /\ x.snap.end \in Nat
            /\ x.after < x.snap.end
        BY <1>1, <1>4
      <4>2. x.snap.start .. x.after \subseteq x.snap.start .. x.snap.end
        BY <4>1, SubRange
      <4> QED BY <1>3, <2>1, <3>1, <4>2
    <3> HIDE DEF Old, Add
    <3> QED BY <1>3, <1>13, <2>1, <3>1, <3>2
  <2>2. CASE i # x.id
    <3>1. cs[i] = chunks[i] /\ Old(i) = ChunkRows(i)
      BY <1>12, <2>2 DEF ChunkRows
    <3>2. ChunkRows(i) \cap ChunkRows(x.id) = {}
      BY <1>1, <1>3, <2>2 DEF RangesApart
    <3> HIDE DEF Old, Add
    <3> QED BY <1>13, <3>1, <3>2
  <2> QED BY <2>1, <2>2
<1>16. PiecesApart(o.pieces) /\ DOMAIN o.pieces = {}
  BY <1>9 DEF PiecesApart
<1>17. \A a, b \in DOMAIN ranges : a # b =>
         (ranges[a].start .. ranges[a].end) \cap (ranges[b].start .. ranges[b].end) = {}
  BY <1>7, <1>14
<1>18. \A i \in DOMAIN chunks, a \in DOMAIN ranges :
         (cs[i].start .. cs[i].end) \cap (ranges[a].start .. ranges[a].end) = {}
  BY <1>7, <1>15
<1>19. \A i \in DOMAIN chunks :
         /\ cs[i].start .. cs[i].end \subseteq ChunkRows(i)
         /\ chunks[i].status = "SUCCESS" => cs[i] = chunks[i]
  BY <1>15
<1>20. ranges \in Seq(KeyRange) /\ o.pc \in {"count", "insert"}
       /\ "REBALANCED" \in {"RANGE", "REBALANCED"}
       /\ \A a \in DOMAIN ranges, b \in DOMAIN o.pieces :
            (ranges[a].start .. ranges[a].end) \cap (o.pieces[b].start .. o.pieces[b].end) = {}
  BY <1>7, <1>9, <1>16
<1> HIDE DEF x
<1> QED BY <1>6, <1>9, <1>10, <1>11, <1>16, <1>17, <1>18, <1>19, <1>20, TableGrows

LEMMA OneServerNext ==
  ASSUME Inductive, OneServerFine, [Next]_vars
  PROVE  OneServerFine' /\ (SingleServer => DoneStays)
<1> SUFFICES ASSUME SingleServer PROVE OneServerFine' /\ DoneStays
  <2>1. SingleServer' <=> SingleServer
    BY DEF SingleServer
  <2> QED BY <2>1 DEF OneServerFine
<1>1. ASSUME NEW t \in Slots, SlotStep(t) PROVE OneServerFine' /\ DoneStays
  BY <1>1, OneServerSlot
<1>2. ASSUME NEW s \in Servers, ServerStep(s) PROVE OneServerFine' /\ DoneStays
  <2>1. CASE \E t \in Slots : CompleteBegin(s, t) \/ FailBegin(s, t)
    BY <2>1, OneServerGoes
  <2>2. CASE CompleteStore(s) \/ YieldAtEnd(s) \/ FailStore(s)
    BY <2>2, OneServerStores
  <2>3. CASE \/ YieldRefused(s) \/ NotSlow(s) \/ AdaptList(s) \/ AdaptEnd(s)
             \/ CountRebalance(s) \/ RefreshRead(s) \/ RefreshStore(s) \/ FailTask(s)
    BY <2>3, OneServerGoes
  <2> QED BY <1>2, <2>1, <2>2, <2>3, OneServerSplits, OneServerInserts, OneServerYields
          DEF ServerStep
<1>3. ASSUME NEW i \in DOMAIN chunks, LeaseExpires(i) PROVE OneServerFine' /\ DoneStays
  BY <1>3, OneServerExpires
<1>4. ASSUME UNCHANGED <<chunks, op>> PROVE OneServerFine' /\ DoneStays
  BY <1>4, TableStep
<1>5. CASE Fault
  <2>1. ASSUME NEW t \in Slots, JobError(t) \/ WorkerStops(t) PROVE UNCHANGED <<chunks, op>>
    BY <2>1 DEF JobError, WorkerStops
  <2>2. ASSUME NEW s \in Servers, HandlerAborts(s) PROVE OneServerFine' /\ DoneStays
    BY <2>2, OneServerGoes
  <2> QED BY <1>4, <1>5, <2>1, <2>2 DEF Fault
<1>6. CASE Operator
  <2>1. UNCHANGED <<chunks, op>>
    BY <1>6 DEF Operator, Pause, Resume, Cancel, Command, CommandStore
  <2> QED BY <1>4, <2>1
<1>7. CASE UNCHANGED vars
  BY <1>4, <1>7 DEF vars
<1> QED BY <1>1, <1>2, <1>3, <1>5, <1>6, <1>7 DEF Next

LEMMA OneServerAlways == Spec => []OneServerFine
BY OneServerInit, InductiveAlways, OneServerNext, PTL DEF Spec

\* With one server no row is in the range of two chunks, or of a chunk and a
\* piece an adaptive split still has to insert: splits, yields, reclaims and
\* failure reports never have a row copied under two chunk numbers.
THEOREM DisjointCorrect == Spec => []ChunksDisjoint
<1>1. ASSUME OneServerFine PROVE ChunksDisjoint
  <2> SUFFICES ASSUME SingleServer
               PROVE  /\ \A i, j \in DOMAIN chunks : i # j => ChunkRows(i) \cap ChunkRows(j) = {}
                      /\ \A i \in DOMAIN chunks, s \in Servers :
                           ChunkRows(i) \cap RowsOf(op[s].pieces) = {}
    BY DEF ChunksDisjoint
  <2>1. RangesApart /\ \A s \in Servers : PiecesApart(op[s].pieces)
    BY <1>1 DEF OneServerFine
  <2> QED BY <2>1 DEF RangesApart, PiecesApart, RowsOf
<1> QED BY <1>1, OneServerAlways, PTL

\* With one server a chunk that is done is never written again: no late
\* report, stale split, renewal or reclaim of any worker reopens it.
THEOREM SuccessFinalCorrect == Spec => SuccessIsFinal
<1>1. ASSUME Inductive, OneServerFine, [Next]_vars
      PROVE  [SingleServer =>
                \A i \in DOMAIN chunks :
                  chunks[i].status = "SUCCESS" => chunks'[i] = chunks[i]]_vars
  BY <1>1, OneServerNext DEF DoneStays
<1> QED BY <1>1, InductiveAlways, OneServerAlways, PTL DEF Spec, SuccessIsFinal
=============================================================================
