------------------------------ MODULE ChunkJob ------------------------------
(***************************************************************************)
(* What the control plane expects of a worker that has claimed a chunk:    *)
(* batches are written from the stored cursor on, the cursor follows what  *)
(* is written, and the chunk succeeds when nothing lies behind the cursor. *)
(* ChunkScheduler relies on it; FullPipeline implements it.                *)
(***************************************************************************)
EXTENDS Naturals

CONSTANT Keys   \* the keys of the rows in the chunk's range

VARIABLES
  status,   \* of the chunk: PENDING, RUNNING or SUCCESS
  cursor,   \* the key of the last committed row, 0 for none
  written   \* the keys of the rows in the target

Between(lo, hi) == {k \in Keys : lo < k /\ k <= hi}

Init == status = "PENDING" /\ cursor = 0 /\ written = {}

Claim == status = "PENDING" /\ status' = "RUNNING" /\ UNCHANGED <<cursor, written>>

Write ==
  /\ status = "RUNNING"
  /\ \E k \in Keys : k > cursor /\ written' = written \cup Between(cursor, k)
  /\ UNCHANGED <<status, cursor>>

Checkpoint ==
  /\ status = "RUNNING"
  /\ \E k \in Keys : k > cursor /\ Between(0, k) \subseteq written /\ cursor' = k
  /\ UNCHANGED <<status, written>>

\* The job failed or yielded, or its lease ran out.
GiveBack == status = "RUNNING" /\ status' = "PENDING" /\ UNCHANGED <<cursor, written>>

Succeed ==
  /\ status = "RUNNING"
  /\ \A k \in Keys : k <= cursor
  /\ status' = "SUCCESS"
  /\ UNCHANGED <<cursor, written>>

Next == Claim \/ Write \/ Checkpoint \/ GiveBack \/ Succeed

Spec == Init /\ [][Next]_<<status, cursor, written>>

=============================================================================
