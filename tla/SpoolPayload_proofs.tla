------------------------ MODULE SpoolPayload_proofs ------------------------
(***************************************************************************)
(* Proofs about SpoolPayload, for any number of transactions and servers   *)
(* and any bounds on faults, crashes and requests that are sent again.     *)
(***************************************************************************)
EXTENDS SpoolPayload, TLAPS

States == {"down", "reconcile", "up", "written", "applied", "marked"}
Working == {"written", "applied", "marked"}

\* A server that works on a transaction works on one of the task.
Activity == {d \in [pc : States, tx : Txs \cup {0}, known : SUBSET Txs] :
               d.pc \in Working => d.tx \in Txs}
Rows == [Txs -> [status : {"NONE", "PENDING", "APPLIED"}, digest : 0 .. 3]]

\* What the proofs need of every reachable state besides TypeOK.
TInv ==
  /\ TypeOK
  /\ scenario \in Scenarios
  /\ server \in [Servers -> Activity]

LEMMA FreshType ==
  ASSUME NEW t \in Txs, row \in Rows, object \in [Txs -> 0 .. 3]
  PROVE  Fresh(t) \in 1 .. 3
<1>1. row[t].digest \in 0 .. 3 /\ object[t] \in 0 .. 3
  BY DEF Rows
<1>2. \E v \in 1 .. 3 : v \notin {row[t].digest, object[t]}
  BY <1>1
<1> QED BY <1>2 DEF Fresh

LEMMA InsertedType ==
  ASSUME NEW t \in Txs, row \in Rows, object \in [Txs -> 0 .. 3]
  PROVE  Inserted(t) \in Rows
BY DEF Inserted, Rows

LEMMA MarkedType ==
  ASSUME NEW t \in Txs, row \in Rows
  PROVE  [row EXCEPT ![t].status = "APPLIED"] \in Rows
BY DEF Rows

LEMMA TypeInit == Init => TInv
<1> SUFFICES ASSUME Init PROVE TInv
  OBVIOUS
<1>1. Down \in Activity /\ Up \in Activity
  BY DEF Down, Up, Doing, Activity, States, Working
<1>2. server \in [Servers -> Activity]
  BY <1>1 DEF Init
<1>3. row \in Rows
  BY DEF Init, Rows, NoRow
<1> QED BY <1>2, <1>3 DEF Init, TInv, TypeOK, Activity, Rows, States

\* A step of one server leaves the types as they are.
LEMMA TypeStep == TInv /\ [Next]_vars => TInv'
<1> SUFFICES ASSUME TInv, [Next]_vars PROVE TInv'
  OBVIOUS
<1>u. CASE UNCHANGED vars
  BY <1>u DEF vars, TInv, TypeOK, Activity
<1>n. CASE Next
  <2>1. PICK s \in Servers :
           Works(s) \/ InsertFails(s) \/ Crash(s) \/ \E t \in Txs : WriteObject(s, t)
    BY <1>n DEF Next
  <2>t. /\ server \in [Servers -> Activity] /\ server[s] \in Activity
        /\ row \in Rows /\ object \in [Txs -> 0 .. 3]
        /\ target \subseteq Txs /\ acked \subseteq Txs /\ drainer \in Servers \cup {0}
        /\ scenario \in Scenarios
    BY DEF TInv, TypeOK, Rows
  <2>w. server[s].pc \in Working => server[s].tx \in Txs
    BY <2>t DEF Activity
  <2>d. ASSUME NEW pc \in States, NEW t \in Txs \cup {0}, NEW known \in SUBSET Txs,
               pc \in Working => t \in Txs
        PROVE  Doing(pc, t, known) \in Activity
    BY <2>d DEF Doing, Activity
  <2>g. ASSUME NEW d \in Activity, Goes(s, d) PROVE server' \in [Servers -> Activity]
    BY <2>t, <2>g DEF Goes
  <2>p. Down \in Activity /\ Up \in Activity /\ Pending \in SUBSET Txs
    BY <2>d DEF Down, Up, States, Working, Pending
  <2>3. CASE ListReferenced(s)
    <3>1. Doing("reconcile", 0, Pending) \in Activity /\ Doing("reconcile", 0, {}) \in Activity
      BY <2>d, <2>p DEF States, Working
    <3>2. server' \in [Servers -> Activity]
      BY <2>3, <2>g, <3>1 DEF ListReferenced
    <3> QED BY <2>t, <2>3, <3>2 DEF ListReferenced, TInv, TypeOK, Activity, Rows, States
  <2>4. CASE MoveOrphan(s)
    <3>1. object' \in [Txs -> 0 .. 3]
      BY <2>t, <2>4 DEF MoveOrphan, Orphans, Objects
    <3> QED BY <2>t, <2>4, <3>1 DEF MoveOrphan, TInv, TypeOK, Activity, Rows, States
  <2>5. CASE Serve(s)
    <3>1. server' \in [Servers -> Activity]
      BY <2>5, <2>g, <2>p DEF Serve
    <3> QED BY <2>t, <2>5, <3>1 DEF Serve, TInv, TypeOK, Activity, Rows, States
  <2>6. CASE InsertRow(s)
    <3>1. server' \in [Servers -> Activity]
      BY <2>6, <2>g, <2>p DEF InsertRow
    <3>2. server[s].tx \in Txs
      BY <2>6, <2>w DEF InsertRow, Working
    <3>3. row' \in Rows
      BY <2>6, <2>t, <3>2, InsertedType DEF InsertRow
    <3>4. acked' \subseteq Txs /\ UNCHANGED <<object, target, drainer, scenario>>
      BY <2>6, <2>t, <3>2 DEF InsertRow
    <3> QED BY <2>t, <3>1, <3>3, <3>4 DEF TInv, TypeOK, Activity, Rows, States
  <2>7. CASE ApplyHead(s)
    <3>1. PICK t \in Txs : target' = target \cup {t} /\ Goes(s, Doing("applied", t, {}))
      BY <2>7 DEF ApplyHead
    <3>2. server' \in [Servers -> Activity]
      BY <2>g, <2>d, <3>1 DEF States, Working
    <3> QED BY <2>t, <2>7, <3>1, <3>2 DEF ApplyHead, TInv, TypeOK, Activity, Rows, States
  <2>8. CASE MarkApplied(s)
    <3>1. server[s].tx \in Txs
      BY <2>8, <2>w DEF MarkApplied, Working
    <3>2. Doing("marked", server[s].tx, {}) \in Activity
      BY <2>d, <3>1 DEF States, Working
    <3>3. server' \in [Servers -> Activity]
      BY <2>8, <2>g, <2>p, <3>2 DEF MarkApplied
    <3>4. row' \in Rows
      BY <2>8, <2>t, <3>1, MarkedType DEF MarkApplied
    <3> QED BY <2>t, <2>8, <3>3, <3>4 DEF MarkApplied, TInv, TypeOK, Activity, Rows, States
  <2>9. CASE MoveApplied(s)
    <3>1. server' \in [Servers -> Activity]
      BY <2>9, <2>g, <2>p DEF MoveApplied
    <3>2. object' \in [Txs -> 0 .. 3]
      BY <2>9, <2>t DEF MoveApplied
    <3> QED BY <2>t, <2>9, <3>1, <3>2 DEF MoveApplied, TInv, TypeOK, Activity, Rows, States
  <2>10. CASE InsertFails(s)
    <3>1. server' \in [Servers -> Activity]
      BY <2>10, <2>g, <2>p DEF InsertFails
    <3>2. server[s].tx \in Txs
      BY <2>10, <2>w DEF InsertFails, Working
    <3>3. row' \in Rows
      BY <2>10, <2>t, <3>2, InsertedType DEF InsertFails
    <3>4. object' \in [Txs -> 0 .. 3]
      BY <2>10, <2>t, <3>2 DEF InsertFails, AfterError
    <3> QED BY <2>t, <2>10, <3>1, <3>3, <3>4 DEF InsertFails, TInv, TypeOK, Activity, Rows, States
  <2>11. CASE Crash(s)
    <3>1. server' \in [Servers -> Activity]
      BY <2>11, <2>g, <2>p DEF Crash
    <3> QED BY <2>t, <2>11, <3>1 DEF Crash, TInv, TypeOK, Activity, Rows, States
  <2>12. ASSUME NEW t \in Txs, WriteObject(s, t) PROVE TInv'
    <3>1. Doing("written", t, {}) \in Activity
      BY <2>d DEF States, Working
    <3>2. server' \in [Servers -> Activity]
      BY <2>12, <2>g, <3>1 DEF WriteObject
    <3>3. object' \in [Txs -> 0 .. 3]
      BY <2>12, <2>t, FreshType DEF WriteObject
    <3> QED BY <2>t, <2>12, <3>2, <3>3 DEF WriteObject, TInv, TypeOK, Activity, Rows, States
  <2> QED BY <2>1, <2>3, <2>4, <2>5, <2>6, <2>7, <2>8, <2>9, <2>10, <2>11, <2>12 DEF Works
<1> QED BY <1>u, <1>n

\* Every reachable state has the types of TypeOK: a digest, an object and the
\* activity of a server stay within what the stores can hold.
THEOREM TypeCorrect == Spec => []TypeOK
<1>1. TInv => TypeOK
  BY DEF TInv
<1> QED BY <1>1, TypeInit, TypeStep, PTL DEF Spec

-----------------------------------------------------------------------------
(***************************************************************************)
(* A shared directory, as long as no server starts beside another that     *)
(* works: there is one server, or the servers run from the beginning and   *)
(* stay up.  The listing of the referenced objects does not fail.          *)
(***************************************************************************)
OneServerOf(x) == \A a, b \in x.servers : a = b
StaysUp(x) == x.serving /\ x.crashes = 0

Directory ==
  \A x \in Scenarios :
    /\ x.backend = "file" /\ ~x.listing
    /\ OneServerOf(x) \/ StaysUp(x)

\* Only a server of the scenario works, and none of one that stays up starts.
OnlyServers ==
  \A s \in Servers : s \notin scenario.servers => server[s] = Down
NoneStarts ==
  StaysUp(scenario) => \A s \in scenario.servers : server[s].pc \notin {"down", "reconcile"}
CountsCrashes ==
  used \in [{"resends", "faults", "crashes"} -> Nat]

\* A server that reconciles knows the row of every object.
KnowsPending ==
  \A s \in Servers : server[s].pc = "reconcile" => Pending \subseteq server[s].known

\* The object of a request stays until the row is inserted, unless the
\* transaction was applied from an earlier request.
WrittenStays ==
  \A s \in Servers : server[s].pc = "written" =>
    object[server[s].tx] # 0 \/ row[server[s].tx].status = "APPLIED"

\* An object moves to applied/ only after its row is APPLIED.
MarkedIsApplied ==
  \A s \in Servers : server[s].pc = "marked" => row[server[s].tx].status = "APPLIED"

\* A directory has no digests.
NoDigest == \A t \in Txs : row[t].digest = 0
PendingHasObject == \A t \in Pending : object[t] # 0

DInv ==
  /\ OnlyServers /\ NoneStarts /\ CountsCrashes
  /\ KnowsPending /\ WrittenStays /\ MarkedIsApplied
  /\ NoDigest /\ PendingHasObject

LEMMA DirectoryInit == Init => DInv
<1> SUFFICES ASSUME Init PROVE DInv
  OBVIOUS
<1> USE SpoolAssumption
<1>1. \A s \in Servers : server[s] = IF s \in scenario.servers /\ scenario.serving THEN Up ELSE Down
  BY DEF Init
<1>2. OnlyServers
  BY <1>1 DEF OnlyServers
<1>3. \A s \in Servers : server[s].pc \in {"up", "down"}
  BY <1>1 DEF Up, Down, Doing
<1>4. NoneStarts
  BY <1>1, SpoolAssumption DEF NoneStarts, StaysUp, Up, Doing, Init
<1>5. CountsCrashes
  BY DEF CountsCrashes, Init
<1>6. \A t \in Txs : row[t].status = "NONE" /\ row[t].digest = 0
  BY DEF Init, NoRow
<1> QED
  BY <1>2, <1>3, <1>4, <1>5, <1>6
  DEF DInv, KnowsPending, WrittenStays, MarkedIsApplied, NoDigest, PendingHasObject, Pending

\* A step keeps the invariant.  With one server, what it knows of the rows when
\* it reconciles stays true: nobody else stages; a directory that stays up is
\* never reconciled.
LEMMA DirectoryStep ==
  ASSUME Directory, TInv, DInv, [Next]_vars
  PROVE  DInv'
<1> USE SpoolAssumption
<1>u. CASE UNCHANGED vars
  BY <1>u DEF vars, DInv, OnlyServers, NoneStarts, StaysUp, CountsCrashes, KnowsPending,
              WrittenStays, MarkedIsApplied, NoDigest, PendingHasObject, Pending
<1>n. CASE Next
  <2>1. PICK s \in Servers :
           Works(s) \/ InsertFails(s) \/ Crash(s) \/ \E t \in Txs : WriteObject(s, t)
    BY <1>n DEF Next
  <2>t. /\ server \in [Servers -> Activity] /\ row \in Rows /\ object \in [Txs -> 0 .. 3]
        /\ scenario \in Scenarios /\ scenario' = scenario /\ scenario.servers \subseteq Servers
        /\ scenario.backend = "file" /\ ~scenario.listing
    BY <2>1 DEF TInv, TypeOK, Rows, Directory, Works, ListReferenced, MoveOrphan, Serve, InsertRow,
                ApplyHead, MarkApplied, MoveApplied, InsertFails, Crash, WriteObject
  <2>w. \A r \in Servers : server[r].pc \in Working => server[r].tx \in Txs
    BY <2>t DEF Activity
  <2>d. /\ Up.pc = "up" /\ Down.pc = "down"
        /\ \A pc, t, known : LET d == Doing(pc, t, known) IN d.pc = pc /\ d.tx = t /\ d.known = known
    BY DEF Up, Down, Doing
  <2>g. ASSUME NEW d, Goes(s, d)
        PROVE  server'[s] = d /\ \A r \in Servers \ {s} : server'[r] = server[r]
    BY <2>t, <2>g DEF Goes
  \* Where somebody reconciles, nobody else works.
  <2>r. ASSUME NEW r \in Servers, server[r].pc = "reconcile"
        PROVE  \A q \in Servers \ {r} : server[q] = Down
    <3>1. r \in scenario.servers
      BY <2>r, <2>d DEF DInv, OnlyServers
    <3>2. ~StaysUp(scenario)
      BY <2>r, <3>1 DEF DInv, NoneStarts
    <3>3. OneServerOf(scenario)
      BY <2>t, <3>2 DEF Directory
    <3> QED BY <3>1, <3>3 DEF OneServerOf, DInv, OnlyServers
  <2>s. server[s] # Down => s \in scenario.servers
    BY DEF DInv, OnlyServers
  \* Requests and drains under way keep what they have, if objects go only from
  \* APPLIED rows and these stay APPLIED.
  <2>k. ASSUME \A r \in Servers \ {s} : server'[r] = server[r],
               \A u \in Txs : object[u] # 0 => object'[u] # 0 \/ row'[u].status = "APPLIED",
               \A u \in Txs : row[u].status = "APPLIED" => row'[u].status = "APPLIED",
               server'[s].pc = "written" => object'[server'[s].tx] # 0,
               server'[s].pc = "marked" => row'[server'[s].tx].status = "APPLIED"
        PROVE  WrittenStays' /\ MarkedIsApplied'
    <3>1. ASSUME NEW r \in Servers \ {s}, server[r].pc = "written"
          PROVE  object'[server[r].tx] # 0 \/ row'[server[r].tx].status = "APPLIED"
      <4>1. server[r].tx \in Txs
        BY <2>w, <3>1 DEF Working
      <4>2. object[server[r].tx] # 0 \/ row[server[r].tx].status = "APPLIED"
        BY <3>1 DEF DInv, WrittenStays
      <4> QED BY <2>k, <4>1, <4>2
    <3>2. ASSUME NEW r \in Servers \ {s}, server[r].pc = "marked"
          PROVE  row'[server[r].tx].status = "APPLIED"
      <4>1. server[r].tx \in Txs
        BY <2>w, <3>2 DEF Working
      <4>2. row[server[r].tx].status = "APPLIED"
        BY <3>2 DEF DInv, MarkedIsApplied
      <4> QED BY <2>k, <4>1, <4>2
    <3>3. WrittenStays'
      BY <2>k, <3>1 DEF WrittenStays
    <3>4. MarkedIsApplied'
      BY <2>k, <3>2 DEF MarkedIsApplied
    <3> QED BY <3>3, <3>4
  <2>3. CASE ListReferenced(s)
    <3>1. Goes(s, Doing("reconcile", 0, Pending)) /\ UNCHANGED <<used, row, object>>
      BY <2>3, <2>t DEF ListReferenced
    <3>2. s \in scenario.servers /\ server[s].pc = "down"
      BY <2>3, <2>d DEF ListReferenced
    <3>3. server'[s] = Doing("reconcile", 0, Pending)
          /\ \A r \in Servers \ {s} : server'[r] = server[r]
      BY <2>g, <3>1
    <3>4. OnlyServers' /\ NoneStarts'
      BY <2>t, <3>2, <3>3 DEF DInv, OnlyServers, NoneStarts, StaysUp
    <3>5. KnowsPending' /\ WrittenStays' /\ MarkedIsApplied'
      BY <2>d, <3>1, <3>3 DEF DInv, KnowsPending, WrittenStays, MarkedIsApplied, Pending
    <3> QED BY <3>1, <3>4, <3>5 DEF DInv, CountsCrashes, NoDigest, PendingHasObject, Pending
  <2>4. CASE MoveOrphan(s)
    <3>1. PICK t \in Orphans(s) : object' = [object EXCEPT ![t] = 0]
      BY <2>4 DEF MoveOrphan
    <3>2. server[s].pc = "reconcile" /\ UNCHANGED <<server, row, used>>
      BY <2>4 DEF MoveOrphan
    <3>3. t \in Txs /\ t \notin Pending
      BY <3>1, <3>2 DEF Orphans, Objects, DInv, KnowsPending
    <3>4. PendingHasObject'
      BY <2>t, <3>1, <3>2, <3>3 DEF DInv, PendingHasObject, Pending
    <3>5. WrittenStays'
      BY <2>r, <2>d, <3>2 DEF WrittenStays
    <3> QED BY <2>t, <3>2, <3>4, <3>5
            DEF DInv, OnlyServers, NoneStarts, StaysUp, CountsCrashes, KnowsPending, MarkedIsApplied,
                NoDigest, Pending
  <2>5. CASE Serve(s)
    <3>1. Goes(s, Up) /\ UNCHANGED <<row, object, used>> /\ server[s].pc = "reconcile"
      BY <2>5 DEF Serve
    <3>2. server'[s] = Up /\ \A r \in Servers \ {s} : server'[r] = server[r]
      BY <2>g, <3>1
    <3>3. s \in scenario.servers
      BY <2>s, <2>d, <3>1
    <3>4. OnlyServers' /\ NoneStarts'
      BY <2>t, <2>d, <3>2, <3>3 DEF DInv, OnlyServers, NoneStarts, StaysUp
    <3>5. KnowsPending' /\ WrittenStays' /\ MarkedIsApplied'
      BY <2>d, <3>1, <3>2 DEF DInv, KnowsPending, WrittenStays, MarkedIsApplied, Pending
    <3> QED BY <3>1, <3>4, <3>5 DEF DInv, CountsCrashes, NoDigest, PendingHasObject, Pending
  <2>6. CASE InsertRow(s) \/ InsertFails(s)
    <3> DEFINE t == server[s].tx
    <3>1. /\ Goes(s, Up) /\ UNCHANGED object /\ server[s].pc = "written"
          /\ row' = Inserted(t) \/ row' = row
      BY <2>6, <2>t DEF InsertRow, InsertFails, AfterError
    <3>2. server'[s] = Up /\ \A r \in Servers \ {s} : server'[r] = server[r]
      BY <2>g, <3>1
    <3>3. t \in Txs /\ s \in scenario.servers
      BY <2>w, <2>s, <2>d, <3>1 DEF Working
    <3>4. OnlyServers' /\ NoneStarts'
      BY <2>t, <2>d, <3>2, <3>3 DEF DInv, OnlyServers, NoneStarts, StaysUp
    <3>5. CountsCrashes'
      BY <2>6 DEF InsertRow, InsertFails, Use, DInv, CountsCrashes
    <3>6. \/ row' = row
          \/ row[t].status = "NONE" /\ row' = [row EXCEPT ![t] = [status |-> "PENDING", digest |-> 0]]
      BY <2>t, <3>1, <3>3 DEF Inserted, Rows
    <3>7. \A u \in Txs : row[u].status = "APPLIED" => row'[u].status = "APPLIED"
      BY <2>t, <3>3, <3>6 DEF Rows
    <3>8. WrittenStays' /\ MarkedIsApplied'
      BY <2>k, <2>d, <3>1, <3>2, <3>7
    <3>9. KnowsPending'
      <4> SUFFICES ASSUME NEW r \in Servers, server'[r].pc = "reconcile" PROVE FALSE
        BY DEF KnowsPending
      <4> QED BY <2>d, <2>r, <3>1, <3>2
    <3>10. NoDigest'
      BY <2>t, <3>3, <3>6 DEF DInv, NoDigest, Rows
    <3>11. row[t].status = "NONE" => object[t] # 0
      BY <3>1 DEF DInv, WrittenStays
    <3>12. PendingHasObject'
      BY <2>t, <3>1, <3>3, <3>6, <3>11 DEF DInv, PendingHasObject, Pending, Rows
    <3> QED BY <3>4, <3>5, <3>8, <3>9, <3>10, <3>12 DEF DInv
  <2>7. CASE ApplyHead(s)
    <3>1. PICK t \in Txs : Goes(s, Doing("applied", t, {}))
      BY <2>7 DEF ApplyHead
    <3>2. UNCHANGED <<row, object, used>> /\ server[s].pc = "up"
      BY <2>7 DEF ApplyHead, Drains
    <3>3. server'[s].pc = "applied" /\ \A r \in Servers \ {s} : server'[r] = server[r]
      BY <2>g, <2>d, <3>1
    <3>4. s \in scenario.servers
      BY <2>s, <2>d, <3>2
    <3>5. OnlyServers' /\ NoneStarts'
      BY <2>t, <3>3, <3>4 DEF DInv, OnlyServers, NoneStarts, StaysUp
    <3>6. KnowsPending' /\ WrittenStays' /\ MarkedIsApplied'
      BY <3>2, <3>3 DEF DInv, KnowsPending, WrittenStays, MarkedIsApplied, Pending
    <3> QED BY <3>2, <3>5, <3>6 DEF DInv, CountsCrashes, NoDigest, PendingHasObject, Pending
  <2>8. CASE MarkApplied(s)
    <3> DEFINE t == server[s].tx
               marked == row' = [row EXCEPT ![t].status = "APPLIED"] /\ Goes(s, Doing("marked", t, {}))
               fails == row' = row /\ Goes(s, Up)
    <3>1. server[s].pc = "applied" /\ UNCHANGED object /\ ((marked /\ UNCHANGED used) \/ fails)
      BY <2>8 DEF MarkApplied
    <3>2. \/ marked /\ server'[s] = Doing("marked", t, {})
          \/ fails /\ server'[s] = Up
      BY <2>g, <3>1
    <3>3. \A r \in Servers \ {s} : server'[r] = server[r]
      BY <2>g, <3>1
    <3>4. t \in Txs /\ s \in scenario.servers
      BY <2>w, <2>s, <2>d, <3>1 DEF Working
    <3>5. OnlyServers' /\ NoneStarts'
      BY <2>t, <2>d, <3>2, <3>3, <3>4 DEF DInv, OnlyServers, NoneStarts, StaysUp
    <3>6. CountsCrashes'
      BY <2>8 DEF MarkApplied, Use, DInv, CountsCrashes
    <3>7. /\ \A u \in Txs \ {t} : row'[u] = row[u]
          /\ fails => row'[t] = row[t]
          /\ marked => row'[t].status = "APPLIED" /\ row'[t].digest = row[t].digest
      <4>1. row \in Rows /\ t \in Txs
        BY <2>t, <3>4
      <4>2. [row EXCEPT ![t].status = "APPLIED"][t].status = "APPLIED"
            /\ [row EXCEPT ![t].status = "APPLIED"][t].digest = row[t].digest
            /\ \A u \in Txs \ {t} : [row EXCEPT ![t].status = "APPLIED"][u] = row[u]
        BY <4>1 DEF Rows
      <4> QED BY <3>1, <4>2
    <3>8. \A u \in Txs : row[u].status = "APPLIED" => row'[u].status = "APPLIED"
      BY <3>1, <3>7
    <3>9. WrittenStays' /\ MarkedIsApplied'
      <4>1. /\ server'[s].pc # "written"
            /\ server'[s].pc = "marked" => row'[server'[s].tx].status = "APPLIED"
        BY <2>d, <3>2, <3>7
      <4> QED BY <2>k, <3>1, <3>3, <3>8, <4>1
    <3>10. KnowsPending'
      <4> SUFFICES ASSUME NEW r \in Servers, server'[r].pc = "reconcile" PROVE FALSE
        BY DEF KnowsPending
      <4> QED BY <2>d, <2>r, <3>1, <3>2, <3>3
    <3>11. NoDigest' /\ PendingHasObject'
      BY <3>1, <3>7 DEF DInv, NoDigest, PendingHasObject, Pending
    <3> QED BY <3>5, <3>6, <3>9, <3>10, <3>11 DEF DInv
  <2>9. CASE MoveApplied(s)
    <3> DEFINE t == server[s].tx
    <3>1. /\ server[s].pc = "marked" /\ Goes(s, Up) /\ UNCHANGED row
          /\ object' = [object EXCEPT ![t] = 0] \/ object' = object
      BY <2>9 DEF MoveApplied
    <3>2. server'[s] = Up /\ \A r \in Servers \ {s} : server'[r] = server[r]
      BY <2>g, <3>1
    <3>3. t \in Txs /\ s \in scenario.servers
      BY <2>w, <2>s, <2>d, <3>1 DEF Working
    <3>4. row[t].status = "APPLIED"
      BY <3>1 DEF DInv, MarkedIsApplied
    <3>5. OnlyServers' /\ NoneStarts'
      BY <2>t, <2>d, <3>2, <3>3 DEF DInv, OnlyServers, NoneStarts, StaysUp
    <3>6. CountsCrashes'
      BY <2>9 DEF MoveApplied, Use, DInv, CountsCrashes
    <3>7. \A u \in Txs : u # t => object'[u] = object[u]
      BY <2>t, <3>1, <3>3
    <3>8. WrittenStays' /\ MarkedIsApplied'
      BY <2>k, <2>d, <3>1, <3>2, <3>4, <3>7
    <3>9. PendingHasObject'
      BY <3>1, <3>4, <3>7 DEF DInv, PendingHasObject, Pending
    <3>10. KnowsPending' /\ NoDigest'
      BY <2>d, <3>1, <3>2 DEF DInv, KnowsPending, NoDigest, Pending
    <3> QED BY <3>5, <3>6, <3>8, <3>9, <3>10 DEF DInv
  <2>10. CASE Crash(s)
    <3>1. /\ Goes(s, Down) /\ UNCHANGED <<row, object>> /\ server[s] # Down
          /\ used["crashes"] < scenario["crashes"] /\ used' = [used EXCEPT !["crashes"] = @ + 1]
      BY <2>10 DEF Crash, Use
    <3>2. server'[s] = Down /\ \A r \in Servers \ {s} : server'[r] = server[r]
      BY <2>g, <3>1
    <3>3. ~StaysUp(scenario)
      BY <3>1 DEF StaysUp, DInv, CountsCrashes
    <3>4. OnlyServers' /\ NoneStarts'
      BY <2>t, <3>2, <3>3 DEF DInv, OnlyServers, NoneStarts, StaysUp
    <3>5. CountsCrashes'
      BY <3>1 DEF DInv, CountsCrashes
    <3>6. KnowsPending' /\ WrittenStays' /\ MarkedIsApplied'
      BY <2>d, <3>1, <3>2 DEF DInv, KnowsPending, WrittenStays, MarkedIsApplied, Pending
    <3> QED BY <3>1, <3>4, <3>5, <3>6 DEF DInv, NoDigest, PendingHasObject, Pending
  <2>11. ASSUME NEW t \in Txs, WriteObject(s, t) PROVE DInv'
    <3>1. Goes(s, Doing("written", t, {})) /\ UNCHANGED row /\ server[s].pc = "up"
      BY <2>11 DEF WriteObject
    <3>2. /\ server'[s].pc = "written" /\ server'[s].tx = t
          /\ \A r \in Servers \ {s} : server'[r] = server[r]
      BY <2>g, <2>d, <3>1
    <3>3. s \in scenario.servers
      BY <2>s, <2>d, <3>1
    <3>4. OnlyServers' /\ NoneStarts'
      BY <2>t, <3>2, <3>3 DEF DInv, OnlyServers, NoneStarts, StaysUp
    <3>5. CountsCrashes'
      BY <2>11 DEF WriteObject, Use, DInv, CountsCrashes
    <3>6. object'[t] = 1 /\ \A u \in Txs \ {t} : object'[u] = object[u]
      BY <2>11, <2>t DEF WriteObject, Fresh
    <3>7. \A u \in Txs : object[u] # 0 => object'[u] # 0
      BY <3>6
    <3>8. WrittenStays' /\ MarkedIsApplied'
      BY <2>k, <3>1, <3>2, <3>6, <3>7
    <3>9. KnowsPending' /\ NoDigest' /\ PendingHasObject'
      BY <3>1, <3>2, <3>7 DEF DInv, KnowsPending, NoDigest, PendingHasObject, Pending
    <3> QED BY <3>4, <3>5, <3>8, <3>9 DEF DInv
  <2> QED BY <2>1, <2>3, <2>4, <2>5, <2>6, <2>7, <2>8, <2>9, <2>10, <2>11 DEF Works
<1> QED BY <1>u, <1>n

(***************************************************************************)
(* What is acknowledged has a row, and a row is APPLIED only when the      *)
(* target has its transaction, in a directory as in a bucket.              *)
(***************************************************************************)
AckedHasRow == \A t \in acked : row[t].status # "NONE"
AppliedReached == \A t \in Txs : row[t].status = "APPLIED" => t \in target
MarksReached == \A s \in Servers : server[s].pc = "applied" => server[s].tx \in target

KInv == AckedHasRow /\ AppliedReached /\ MarksReached

LEMMA KeptInit == Init => KInv
<1> SUFFICES ASSUME Init PROVE KInv
  OBVIOUS
<1>1. \A s \in Servers : server[s].pc \in {"up", "down"}
  BY DEF Init, Up, Down, Doing
<1> QED BY <1>1 DEF Init, NoRow, KInv, AckedHasRow, AppliedReached, MarksReached

LEMMA KeptStep == TInv /\ KInv /\ [Next]_vars => KInv'
<1> SUFFICES ASSUME TInv, KInv, [Next]_vars PROVE KInv'
  OBVIOUS
<1>t. /\ server \in [Servers -> Activity] /\ row \in Rows
      /\ \A s \in Servers : server[s].pc \in Working => server[s].tx \in Txs
      /\ acked \subseteq Txs
  BY DEF TInv, TypeOK, Rows, Activity
<1>d. \A pc, t, known : Doing(pc, t, known).pc = pc /\ Doing(pc, t, known).tx = t
  BY DEF Doing
<1>p. Up.pc = "up" /\ Down.pc = "down"
  BY DEF Up, Down, Doing
<1>g. ASSUME NEW s \in Servers, NEW d, Goes(s, d)
      PROVE  server'[s] = d /\ \A r \in Servers \ {s} : server'[r] = server[r]
  BY <1>t, <1>g DEF Goes
\* Only a server that has just applied something marks it later.
<1>m. ASSUME NEW s \in Servers, NEW d, Goes(s, d), target \subseteq target',
             d.pc = "applied" => d.tx \in target'
      PROVE  MarksReached'
  BY <1>g, <1>m DEF KInv, MarksReached
<1>u. CASE UNCHANGED vars
  BY <1>u DEF vars, KInv, AckedHasRow, AppliedReached, MarksReached
<1>n. CASE Next
  <2>1. PICK s \in Servers :
           Works(s) \/ InsertFails(s) \/ Crash(s) \/ \E t \in Txs : WriteObject(s, t)
    BY <1>n DEF Next
  <2>2. CASE ListReferenced(s) \/ Serve(s) \/ MoveApplied(s) \/ Crash(s)
    <3>1. UNCHANGED <<row, target, acked>> /\ \E d : Goes(s, d) /\ d.pc # "applied"
      BY <2>2, <1>d, <1>p DEF ListReferenced, Serve, MoveApplied, Crash
    <3>2. MarksReached'
      BY <1>m, <3>1
    <3> QED BY <3>1, <3>2 DEF KInv, AckedHasRow, AppliedReached
  <2>3. CASE MoveOrphan(s)
    BY <2>3 DEF MoveOrphan, KInv, AckedHasRow, AppliedReached, MarksReached
  <2>4. ASSUME NEW t \in Txs, WriteObject(s, t) PROVE KInv'
    <3>1. UNCHANGED <<row, target, acked>> /\ Goes(s, Doing("written", t, {}))
      BY <2>4 DEF WriteObject
    <3>2. MarksReached'
      BY <1>m, <1>d, <3>1
    <3> QED BY <3>1, <3>2 DEF KInv, AckedHasRow, AppliedReached
  <2>5. CASE InsertRow(s) \/ InsertFails(s)
    <3> DEFINE t == server[s].tx
    <3>1. /\ target' = target /\ Goes(s, Up) /\ server[s].pc = "written"
          /\ \/ row' = Inserted(t) /\ acked' \subseteq acked \cup {t}
             \/ row' = row /\ acked' = acked
      BY <2>5 DEF InsertRow, InsertFails
    <3>2. t \in Txs
      BY <1>t, <3>1 DEF Working
    <3>3. /\ Inserted(t)[t].status # "NONE"
          /\ Inserted(t)[t].status = "APPLIED" => row[t].status = "APPLIED"
          /\ \A u \in Txs \ {t} : Inserted(t)[u] = row[u]
      BY <1>t, <3>2 DEF Inserted, Rows
    <3>4. MarksReached'
      BY <1>m, <1>p, <3>1
    <3>5. AckedHasRow' /\ AppliedReached'
      BY <1>t, <3>1, <3>2, <3>3 DEF KInv, AckedHasRow, AppliedReached
    <3> QED BY <3>4, <3>5 DEF KInv
  <2>6. CASE ApplyHead(s)
    <3>1. PICK t \in Txs : target' = target \cup {t} /\ Goes(s, Doing("applied", t, {}))
      BY <2>6 DEF ApplyHead
    <3>2. UNCHANGED <<row, acked>>
      BY <2>6 DEF ApplyHead
    <3>3. MarksReached'
      BY <1>m, <1>d, <3>1
    <3> QED BY <3>1, <3>2, <3>3 DEF KInv, AckedHasRow, AppliedReached
  <2>7. CASE MarkApplied(s)
    <3> DEFINE t == server[s].tx
    <3>1. /\ UNCHANGED <<target, acked>> /\ server[s].pc = "applied"
          /\ \/ row' = [row EXCEPT ![t].status = "APPLIED"] /\ Goes(s, Doing("marked", t, {}))
             \/ row' = row /\ Goes(s, Up)
      BY <2>7 DEF MarkApplied
    <3>2. t \in Txs /\ t \in target
      BY <1>t, <3>1 DEF Working, KInv, MarksReached
    <3>3. MarksReached'
      <4>1. CASE Goes(s, Doing("marked", t, {}))
        BY <1>m, <1>d, <3>1, <4>1
      <4>2. CASE Goes(s, Up)
        BY <1>m, <1>p, <3>1, <4>2
      <4> QED BY <3>1, <4>1, <4>2
    <3>4. /\ \A u \in Txs \ {t} : row'[u].status = row[u].status
          /\ row[t].status # "NONE" => row'[t].status # "NONE"
      BY <1>t, <3>1, <3>2 DEF Rows
    <3> QED BY <1>t, <3>1, <3>2, <3>3, <3>4 DEF KInv, AckedHasRow, AppliedReached
  <2> QED BY <2>1, <2>2, <2>3, <2>4, <2>5, <2>6, <2>7 DEF Works
<1> QED BY <1>u, <1>n

\* In a directory that is reconciled only when nobody stages, the drain can
\* read every PENDING row, however often servers crash, requests are sent again
\* and steps fail.
THEOREM DirectoryReadable ==
  ASSUME Directory
  PROVE  Spec => []PendingReadable
<1>1. Init => TInv /\ DInv
  BY TypeInit, DirectoryInit
<1>2. TInv /\ DInv /\ [Next]_vars => (TInv /\ DInv)'
  BY TypeStep, DirectoryStep, Directory
<1>3. DInv => PendingReadable
  BY DEF DInv, NoDigest, PendingHasObject, PendingReadable, Readable, Pending
<1> QED BY <1>1, <1>2, <1>3, PTL DEF Spec

\* In such a directory what was acknowledged is on the target, or in a row that
\* a drain finds and whose object it can read.
THEOREM DirectoryKeepsAcked ==
  ASSUME Directory
  PROVE  Spec => []AckedKept
<1>1. Init => TInv /\ KInv
  BY TypeInit, KeptInit
<1>2. TInv /\ KInv /\ [Next]_vars => (TInv /\ KInv)'
  BY TypeStep, KeptStep
<1>3. TInv /\ KInv /\ PendingReadable => AckedKept
  <2> SUFFICES ASSUME TInv, KInv, PendingReadable, NEW t \in acked, t \notin target
               PROVE  t \in Pending /\ Readable(t)
    BY DEF AckedKept
  <2>1. t \in Txs /\ row[t].status \in {"NONE", "PENDING", "APPLIED"}
    BY DEF TInv, TypeOK
  <2>2. row[t].status = "PENDING"
    BY <2>1 DEF KInv, AckedHasRow, AppliedReached
  <2> QED BY <2>1, <2>2 DEF Pending, PendingReadable
<1>4. Spec => []PendingReadable
  BY DirectoryReadable, Directory
<1> QED BY <1>1, <1>2, <1>3, <1>4, PTL DEF Spec

=============================================================================
