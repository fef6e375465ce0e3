---------------------------- MODULE SpoolPayload ----------------------------
(***************************************************************************)
(* The payload of a staged transaction, kept apart from its metadata row:  *)
(* in a directory that the servers share (repository/spoolfile) or in an   *)
(* S3 bucket (repository/spools3).  The object is written before the row   *)
(* and moved away after the row is APPLIED, so that a crash in between     *)
(* leaves an object without a row, which the next server to start takes    *)
(* away.  No step covers both stores: the hazard is a PENDING row whose    *)
(* object is gone or is another one, at which every drain stops.           *)
(***************************************************************************)
EXTENDS Naturals

CONSTANTS
  Txs,       \* the transactions of one task and direction, in source order
  Servers,   \* the server processes
  Scenarios  \* backend, servers, state at the beginning and fault bounds

ASSUME SpoolAssumption ==
  /\ Txs \subseteq Nat \ {0} /\ Servers \subseteq Nat \ {0}
  /\ \A x \in Scenarios : x.backend \in {"file", "s3"} /\ x.servers \subseteq Servers

VARIABLES
  scenario,  \* the scenario of this behaviour
  row,       \* the metadata row of a transaction: status and digest
  object,    \* the pending object of a transaction, 0 if there is none
  target,    \* the transactions the target has
  acked,     \* the transactions acknowledged to the source
  server,    \* what a server is doing, to which transaction
  drainer,   \* the server that holds the drain lease, 0 if none does
  used       \* how many requests sent again, faults and crashes there were

vars == <<scenario, row, object, target, acked, server, drainer, used>>

NoRow == [status |-> "NONE", digest |-> 0]
Doing(pc, t, known) == [pc |-> pc, tx |-> t, known |-> known]
Down == Doing("down", 0, {})
Up == Doing("up", 0, {})

Init ==
  /\ scenario \in Scenarios
  /\ row = [t \in Txs |-> NoRow]
  /\ object = [t \in Txs |-> 0]
  /\ target = {} /\ acked = {} /\ drainer = 0
  /\ server = [s \in Servers |-> IF s \in scenario.servers /\ scenario.serving THEN Up ELSE Down]
  /\ used = [resends |-> 0, faults |-> 0, crashes |-> 0]

Pending == {t \in Txs : row[t].status = "PENDING"}
Objects == {t \in Txs : object[t] # 0}

\* The reference of a row in S3 names the digest of the object it was written for.
Readable(t) == object[t] # 0 /\ row[t].digest \in {0, object[t]}

\* The payload is encrypted anew for every request: the same transaction never
\* has the same object twice, which only S3's digest can tell.
Fresh(t) ==
  IF scenario.backend = "file" THEN 1
  ELSE CHOOSE v \in 1 .. 3 : v \notin {row[t].digest, object[t]}

Goes(s, doing) == server' = [server EXCEPT ![s] = doing]
Use(kind) == used[kind] < scenario[kind] /\ used' = [used EXCEPT ![kind] = @ + 1]

-----------------------------------------------------------------------------
(***************************************************************************)
(* A server starts: Reconcile.                                             *)
(***************************************************************************)
\* The objects that PENDING rows refer to are listed first.  A listing that
\* fails counts as one without rows.
ListReferenced(s) ==
  /\ server[s] = Down /\ s \in scenario.servers
  /\ \/ Goes(s, Doing("reconcile", 0, Pending)) /\ UNCHANGED used
     \/ scenario.listing /\ Use("faults") /\ Goes(s, Doing("reconcile", 0, {}))
  /\ UNCHANGED <<scenario, row, object, target, acked, drainer>>

\* Mutant: every object is taken for an orphan.
EveryObject(s) == Objects

Orphans(s) == Objects \ server[s].known

MoveOrphan(s) ==
  /\ server[s].pc = "reconcile"
  /\ \E t \in Orphans(s) : object' = [object EXCEPT ![t] = 0]
  /\ UNCHANGED <<scenario, row, target, acked, server, drainer, used>>

Serve(s) ==
  /\ server[s].pc = "reconcile" /\ Orphans(s) = {}
  /\ Goes(s, Up)
  /\ UNCHANGED <<scenario, row, object, target, acked, drainer, used>>

-----------------------------------------------------------------------------
(***************************************************************************)
(* A request of the reader: CreateCDCSpool.  The server holds the lock of  *)
(* its spool, which excludes its drain but no other server.                *)
(***************************************************************************)
InFlight(t) == \E s \in Servers : server[s].pc = "written" /\ server[s].tx = t

\* The reader sends a transaction when the ones before it are acknowledged, and
\* again when no answer came or it started over at an older position.
WriteObject(s, t) ==
  /\ server[s].pc = "up"
  /\ \A u \in Txs : u < t => u \in acked
  /\ IF t \in acked \/ InFlight(t) THEN Use("resends") ELSE UNCHANGED used
  /\ object' = [object EXCEPT ![t] = Fresh(t)]
  /\ Goes(s, Doing("written", t, {}))
  /\ UNCHANGED <<scenario, row, target, acked, drainer>>

\* A row that exists stays as it is, PENDING or APPLIED.
Inserted(t) ==
  IF row[t].status # "NONE" THEN row
  ELSE [row EXCEPT ![t] = [status |-> "PENDING",
                           digest |-> IF scenario.backend = "file" THEN 0 ELSE object[t]]]

\* When the row could not be stored, S3 deletes the object again.
AfterError(t) == IF scenario.backend = "file" THEN object ELSE [object EXCEPT ![t] = 0]

\* The answer may get lost, or be an error of the drain that follows.
InsertRow(s) ==
  /\ server[s].pc = "written"
  /\ LET t == server[s].tx IN
     /\ row' = Inserted(t)
     /\ \/ acked' = acked \cup {t} /\ UNCHANGED used
        \/ Use("resends") /\ UNCHANGED acked
  /\ Goes(s, Up)
  /\ UNCHANGED <<scenario, object, target, drainer>>

\* Mutant: the source hears nothing of the error.
InsertFailsAcked(s) ==
  /\ server[s].pc = "written" /\ Use("faults")
  /\ object' = AfterError(server[s].tx)
  /\ acked' = acked \cup {server[s].tx}
  /\ Goes(s, Up)
  /\ UNCHANGED <<scenario, row, target, drainer>>

\* An error, with the row stored or not.
InsertFails(s) ==
  /\ server[s].pc = "written" /\ Use("faults")
  /\ LET t == server[s].tx IN
     /\ object' = AfterError(t)
     /\ \/ UNCHANGED row
        \/ scenario.uncertain /\ row' = Inserted(t)
  /\ Goes(s, Up)
  /\ UNCHANGED <<scenario, target, acked, drainer>>

-----------------------------------------------------------------------------
(***************************************************************************)
(* The drain.  ListCDCSpool reads the objects of a whole batch and fails   *)
(* at the first that it cannot read.  New traffic, a poll of the reader or *)
(* a manual call may start one at any time, and nothing has to.            *)
(***************************************************************************)
Drains(s) == server[s].pc = "up" /\ drainer = 0 /\ \A t \in Pending : Readable(t)
IsHead(t) == t \in Pending /\ \A u \in Pending : t <= u

ApplyHead(s) ==
  /\ Drains(s)
  /\ \E t \in Txs :
     /\ IsHead(t)
     /\ target' = target \cup {t}
     /\ Goes(s, Doing("applied", t, {}))
  /\ drainer' = s
  /\ UNCHANGED <<scenario, row, object, acked, used>>

MarkApplied(s) ==
  /\ server[s].pc = "applied"
  /\ LET t == server[s].tx IN
     \/ /\ row' = [row EXCEPT ![t].status = "APPLIED"]
        /\ Goes(s, Doing("marked", t, {})) /\ UNCHANGED <<drainer, used>>
     \/ /\ Use("faults") /\ UNCHANGED row
        /\ Goes(s, Up) /\ drainer' = 0
  /\ UNCHANGED <<scenario, object, target, acked>>

\* The move to applied/ is best effort.
MoveApplied(s) ==
  /\ server[s].pc = "marked"
  /\ \/ object' = [object EXCEPT ![server[s].tx] = 0] /\ UNCHANGED used
     \/ Use("faults") /\ UNCHANGED object
  /\ Goes(s, Up) /\ drainer' = 0
  /\ UNCHANGED <<scenario, row, target, acked>>

-----------------------------------------------------------------------------
Crash(s) ==
  /\ server[s] # Down /\ Use("crashes")
  /\ Goes(s, Down)
  /\ drainer' = IF drainer = s THEN 0 ELSE drainer
  /\ UNCHANGED <<scenario, row, object, target, acked>>

Works(s) ==
  \/ ListReferenced(s) \/ MoveOrphan(s) \/ Serve(s)
  \/ InsertRow(s) \/ ApplyHead(s) \/ MarkApplied(s) \/ MoveApplied(s)

Next ==
  \E s \in Servers :
    \/ Works(s) \/ InsertFails(s) \/ Crash(s)
    \/ \E t \in Txs : WriteObject(s, t)

Spec == Init /\ [][Next]_vars

-----------------------------------------------------------------------------
TypeOK ==
  /\ row \in [Txs -> [status : {"NONE", "PENDING", "APPLIED"}, digest : 0 .. 3]]
  /\ object \in [Txs -> 0 .. 3]
  /\ target \subseteq Txs /\ acked \subseteq Txs
  /\ server \in [Servers -> [pc : {"down", "reconcile", "up", "written", "applied", "marked"},
                             tx : Txs \cup {0}, known : SUBSET Txs]]
  /\ drainer \in Servers \cup {0}

\* The drain can read every PENDING row, whichever step failed or crashed on the
\* way; in a directory also whichever request was sent again, and whether or not
\* an insert that failed has stored the row.  One that it cannot read stops it.
PendingReadable == \A t \in Pending : Readable(t)

\* What the source was told is safe, and will not send again, is on the target, or
\* a drain finds its row and can read its object: through crashes between object,
\* row, target, mark and move, failed inserts and the cleaning at a start.
AckedKept == \A t \in acked : t \in target \/ (t \in Pending /\ Readable(t))

=============================================================================
