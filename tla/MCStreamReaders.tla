-------------------------- MODULE MCStreamReaders --------------------------
(* Instances of StreamReaders: a source of every dialect. *)
EXTENDS StreamReaders

Feed(dialect, streams, sorted, shapes, txs, started, again) ==
  [dialect |-> dialect, streams |-> streams, sorted |-> sorted, shapes |-> shapes,
   txs |-> txs, limit |-> txs, started |-> started, clusterwide |-> TRUE, resends |-> again,
   crashes |-> 1, lossy |-> FALSE]

\* The streams that may have rows of a transaction: the first, the second, both.
OnlyFirst == <<1, 0>>
OnlySecond == <<0, 1>>
Both == <<1, 1>>

Lossy(feed) == [feed EXCEPT !.lossy = TRUE]

OnePartition == Lossy(Feed("ticdc", 1, TRUE, {OnlyFirst, <<2, 0>>}, 2, FALSE, 0))
TwoPartitions == Feed("ticdc", 2, FALSE, {Both}, 2, TRUE, 0)
NewCapture == [Feed("ticdc", 2, TRUE, {Both, OnlyFirst}, 2, FALSE, 0) EXCEPT !.crashes = 0]
AnswerLost == Lossy(Feed("ticdc", 2, TRUE, {Both, OnlyFirst}, 1, TRUE, 0))
SentAgain == Feed("ticdc", 2, TRUE, {Both, OnlyFirst}, 1, TRUE, 1)
Primaries == Feed("gaussdb", 2, TRUE, {OnlyFirst, OnlySecond, Both}, 2, FALSE, 0)
Members == Feed("purescale", 2, TRUE, {Both}, 3, FALSE, 0)
\* A watermark of every primary's own, and reads that leave rows for the next one:
\* both are harmless where only the last primary has rows.
LastPrimary ==
  [Feed("gaussdb", 2, TRUE, {OnlySecond}, 2, FALSE, 0) EXCEPT !.clusterwide = FALSE, !.limit = 1]

\* A read may stop after one row.
Backlogs == {[x EXCEPT !.limit = 1] : x \in {Primaries, Members}}

MCSources ==
  {OnePartition, TwoPartitions, NewCapture, AnswerLost, SentAgain, Primaries, Members, LastPrimary}
    \cup Backlogs

\* Sources that the readers do not put in order, and an answer lost while there
\* is more to read (see README, section 6).
OwnWatermarks == {[x EXCEPT !.clusterwide = FALSE] : x \in {Primaries, Members}}
MembersApart == {[Members EXCEPT !.shapes = {OnlyFirst, OnlySecond}]}
OnePartitionUnsorted == {[OnePartition EXCEPT !.sorted = FALSE]}
OnePartitionAgain == {[OnePartition EXCEPT !.resends = 1]}
MoreAfterAnswerLost == {[AnswerLost EXCEPT !.txs = 2]}
NewCaptureUnsorted == {[TwoPartitions EXCEPT !.started = FALSE, !.txs = 3]}
=============================================================================
