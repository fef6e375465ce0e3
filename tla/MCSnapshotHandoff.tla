-------------------------- MODULE MCSnapshotHandoff --------------------------
(* Instances of SnapshotHandoff: one table and task of every kind. *)
EXTENDS SnapshotHandoff

Table(strategy, rows, conflict, ops) ==
  [rows |-> rows, strategy |-> strategy, estimate |-> 2, conflict |-> conflict,
   ops |-> ops, visible |-> "at once", tick |-> 1, changes |-> 2, reclaims |-> 1]

Moving == Table("RANGE", {1, 3}, "SOURCE_WINS", {"MOVE", "UPDATE", "DELETE"})
Growing == Table("KEYSET", {2}, "LAST_WRITE_WINS", {"INSERT", "UPDATE", "DELETE"})
Hashed == [Table("HASH", {1, 2}, "SOURCE_WINS", {"MOVE", "INSERT", "TRUNCATE"})
             EXCEPT !.visible = "before a read"]
Truncated == Table("RANGE", {1, 2}, "LAST_WRITE_WINS", {"TRUNCATE", "INSERT"})

Undisturbed(table) == [table EXCEPT !.changes = 3, !.reclaims = 0]

MCScenarios ==
  {Moving, Growing, Hashed, [Truncated EXCEPT !.changes = 3],
   Undisturbed(Moving), Undisturbed(Growing)}

\* By hand: what the properties do not hold for.
MovingLastWrite == {[Moving EXCEPT !.conflict = "LAST_WRITE_WINS"]}
CoarseVersions == {[Growing EXCEPT !.tick = 2]}
LateCommits == {[Hashed EXCEPT !.visible = "late"]}
=============================================================================
