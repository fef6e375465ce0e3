--------------------------- MODULE StreamRuntime ---------------------------
(***************************************************************************)
(* The loop around a reader of several streams: take a transaction, have   *)
(* the server apply it and store its position, acknowledge it to the       *)
(* source (cdc/runtime/runtime.go; the loop of cmd/gaussdb-cdc/multi.go    *)
(* does the same).  A position is a place in the global order and a place  *)
(* in every stream.  The process may die between any two steps.            *)
(***************************************************************************)
EXTENDS StreamSource

VARIABLES
  reader,     \* the state of the reader process
  durable,    \* the newest position the server has stored
  accepted,   \* the transactions the server has taken in
  crashes,    \* how often the process was killed or reconnected
  cut         \* history: a read of a stream has left rows out

readerVars == <<reader, durable, accepted, crashes, cut>>

Position(order, at) == [order |-> order, at |-> at]
Origin == Position(1, [s \in Streams |-> IF source.started /\ s \in Active THEN 1 ELSE 0])

\* A request to the server: the transactions, none for a mere checkpoint, the
\* position, and the streams that wait for an acknowledgement of their own.
Request(txs, pos, acks) == [stage |-> "read", txs |-> txs, pos |-> pos, acks |-> acks]
Nothing == [Request(<<>>, Origin, {}) EXCEPT !.stage = "none"]

\* A stream is read from the stored position on; a GaussDB primary shows what
\* its slot was not acknowledged.
ReadFrom(pos) == IF source.dialect = "gaussdb" THEN slot ELSE pos.at

\* A reader process that has just started at a stored position.  TiCDC takes
\* its position for an acknowledged one as soon as a partition has moved.
Started(pos) ==
  [up |-> TRUE, cursor |-> ReadFrom(pos), acked |-> pos,
   hasDurableAck |-> \E s \in Streams : pos.at[s] > 0,
   queue |-> [s \in Streams |-> {}], seen |-> [s \in Streams |-> 0],
   phase |-> "seed", candidate |-> 0, batch |-> <<>>, descriptors |-> resolved,
   ready |-> {}, base |-> pos, flight |-> Nothing]

ReaderInit ==
  /\ reader = Started(Origin)
  /\ durable = Origin
  /\ accepted = <<>>
  /\ crashes = 0
  /\ cut = FALSE

Reading == reader.up /\ reader.flight = Nothing

\* The server takes a request for a duplicate if its position is the stored one.
IsDuplicate(request) == request.pos = durable

Apply ==
  /\ reader.up /\ reader.flight.stage = "read"
  /\ reader' = [reader EXCEPT !.flight.stage = "applied"]
  /\ durable' = reader.flight.pos
  /\ accepted' = IF IsDuplicate(reader.flight) THEN accepted
                                               ELSE accepted \o reader.flight.txs
  /\ UNCHANGED crashes

\* Acknowledge refuses a position behind the acknowledged one.
Regresses(pos) ==
  \/ source.dialect # "gaussdb" /\ pos.order < reader.acked.order
  \/ source.dialect = "ticdc" /\ \E s \in Streams : pos.at[s] < reader.acked.at[s]

Acknowledge ==
  /\ reader.up /\ reader.flight.stage = "applied" /\ reader.flight.acks = {}
  /\ reader' = IF Regresses(reader.flight.pos) THEN [reader EXCEPT !.up = FALSE]
               ELSE [reader EXCEPT !.acked = reader.flight.pos, !.hasDurableAck = TRUE,
                                   !.flight = Nothing]
  /\ UNCHANGED <<durable, accepted, crashes>>

\* Every primary with a part in the transaction is acknowledged on its own.
AcknowledgeStream ==
  /\ reader.up /\ reader.flight.stage = "applied" /\ reader.flight.acks # {}
  /\ LET s == Min(reader.flight.acks) IN
     /\ slot' = [slot EXCEPT ![s] = reader.flight.pos.at[s]]
     /\ reader' = [reader EXCEPT !.flight.acks = @ \ {s}]
  /\ UNCHANGED <<durable, accepted, crashes>>

\* The process dies; that of GaussDB and pureScale also when an answer is lost.
Crash ==
  /\ reader.up /\ crashes < source.crashes
  /\ reader' = [reader EXCEPT !.up = FALSE]
  /\ crashes' = crashes + 1
  /\ UNCHANGED <<durable, accepted>>

\* The process of TiCDC goes on when an answer is lost: with a new reader, from
\* what it has acknowledged (cmd/tidb-cdc/main.go).
Reconnect ==
  /\ source.dialect = "ticdc" /\ source.lossy
  /\ reader.up /\ crashes < source.crashes
  /\ reader' = Started(reader.acked)
  /\ crashes' = crashes + 1
  /\ UNCHANGED <<durable, accepted>>

\* The engine job is claimed again: a new process at the stored position.
Restart ==
  /\ ~reader.up
  /\ reader' = Started(durable)
  /\ UNCHANGED <<durable, accepted, crashes>>

=============================================================================
