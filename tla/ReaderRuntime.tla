--------------------------- MODULE ReaderRuntime ---------------------------
(***************************************************************************)
(* The loop that drives every change reader (cdc/runtime/runtime.go): take *)
(* a transaction from the reader, have the server apply it and store its   *)
(* position, acknowledge it to the reader.  The reader runs in a process   *)
(* of its own, which may die between any two of these steps or end on an   *)
(* error; a new one starts at the position the server stored.              *)
(***************************************************************************)
EXTENDS SourceLog

VARIABLES
  reader,     \* the state of the reader process
  durable,    \* the newest position the server has stored
  accepted,   \* the transactions the server has taken in
  crashes     \* how often the process was killed or reconnected

readerVars == <<reader, durable, accepted, crashes>>

\* Where a reader starts again (restart: the first record it reads) and what
\* it has had acknowledged (commit: the newest commit taken in).  With GTIDs
\* it is the set of the transactions that are behind it instead.
Position(restart, commit) == [restart |-> restart, commit |-> commit, executed |-> {}]
Origin == Position(1, 0)

\* A request to the server: the transactions, none for a mere checkpoint,
\* and the position.
Request(txs, pos) == [stage |-> "read", txs |-> txs, pos |-> pos]
Nothing == [stage |-> "none", txs |-> <<>>, pos |-> Origin]

\* A transaction as the reader collects it; begin = 0: none is collected.
NotOpen == [begin |-> 0, rows |-> <<>>, half |-> 0]

\* A reader that has just connected at a position.  The sources of PostgreSQL
\* and GBase 8a remember the position acknowledged last (slot) and never send
\* what is before it.
Started(pos, slot) ==
  [up |-> TRUE, ended |-> FALSE, session |-> pos, cursor |-> Max({pos.restart, slot}),
   open |-> [t \in Txs |-> NotOpen], gtid |-> 0, ready |-> <<>>, loading |-> FALSE,
   acked |-> pos, slot |-> slot, flight |-> Nothing]

ReaderInit ==
  /\ reader = Started(Origin, Origin.restart)
  /\ durable = Origin
  /\ accepted = <<>>
  /\ crashes = 0

\* The reader is asked for its next transaction and works towards it.
Reading == reader.up /\ reader.flight = Nothing

\* Reader.Next hands out the oldest transaction that is complete.
Take ==
  /\ Reading /\ reader.ready # <<>>
  /\ reader' = [reader EXCEPT !.flight = Head(reader.ready), !.ready = Tail(@),
                              !.loading = FALSE]
  /\ UNCHANGED <<durable, accepted, crashes>>

\* Runner.Apply: the server compares the position with the newest stored one,
\* and takes the request for a duplicate if they are equal.
IsDuplicate(request) == request.pos = durable

Apply ==
  /\ reader.up /\ reader.flight.stage = "read"
  /\ reader' = [reader EXCEPT !.flight.stage = "applied"]
  /\ durable' = reader.flight.pos
  /\ accepted' = IF IsDuplicate(reader.flight) THEN accepted
                                               ELSE accepted \o reader.flight.txs
  /\ UNCHANGED crashes

\* Reader.Acknowledge refuses a position behind the one it acknowledged: the
\* readers of GBase 8s, GBase 8a, Db2 and Dameng.  The error ends the process.
Regresses(pos) ==
  /\ scenario.dialect \in {"gbase8s", "gbase8a", "db2", "dameng"}
  /\ pos.commit < reader.acked.commit \/ pos.restart < reader.acked.restart

\* PostgreSQL and GBase 8a are told, and let what is before go; a GTID that a DDL
\* has used is used up.
Acknowledged(pos) ==
  [reader EXCEPT !.acked = pos, !.flight = Nothing, !.gtid = 0,
                 !.slot = IF scenario.dialect \in {"postgres", "gbase8a"} THEN pos.restart ELSE @]

Acknowledge ==
  /\ reader.up /\ reader.flight.stage = "applied"
  /\ reader' = IF Regresses(reader.flight.pos)
               THEN [reader EXCEPT !.up = FALSE]
               ELSE Acknowledged(reader.flight.pos)
  /\ UNCHANGED <<durable, accepted, crashes>>

\* An error in what was read ends the process, before anything of it is kept.
Fail == reader' = [reader EXCEPT !.up = FALSE]

\* The process dies, or does not get the server's answer, which ends most of them.
Crash ==
  /\ reader.up /\ crashes < scenario.crashes
  /\ reader' = [reader EXCEPT !.up = FALSE]
  /\ crashes' = crashes + 1
  /\ UNCHANGED <<durable, accepted>>

\* The engine job is claimed again: a new process, at the stored position.  A
\* job whose process has ended without an error is not.
Restart ==
  /\ ~reader.up /\ ~reader.ended
  /\ reader' = Started(durable, reader.slot)
  /\ UNCHANGED <<durable, accepted, crashes>>

=============================================================================
