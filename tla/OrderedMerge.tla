---------------------------- MODULE OrderedMerge ----------------------------
(***************************************************************************)
(* The merge of several change streams by a global order                   *)
(* (cdc/orderedmerge/merge.go).  A stream is a record [resolved, rows]:    *)
(* its resolved watermark and the set of the rows read from it, which      *)
(* carry their order.  Streams are numbered in the order they are given.   *)
(***************************************************************************)
EXTENDS Naturals, Sequences, FiniteSetsExt

Orders(rows) == {r.order : r \in rows}

\* The least watermark among the first k streams: the loop looks at the rows of
\* a stream before it has seen the watermarks of the streams behind it.
RunningMinimum(streams, k) == Min({streams[i].resolved : i \in 1 .. k})

Released(streams, k) ==
  {r \in streams[k].rows : r.order <= RunningMinimum(streams, k)}

\* The rows of one order, whatever stream they come from.
GroupOf(rows, order) == [order |-> order, rows |-> {r \in rows : r.order = order}]

Merge(streams) ==
  LET released == UNION {Released(streams, k) : k \in DOMAIN streams}
  IN {GroupOf(released, order) : order \in Orders(released)}

=============================================================================
