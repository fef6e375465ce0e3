--------------------------- MODULE MCChunkScheduler ---------------------------
(***************************************************************************)
(* Constants of the ChunkScheduler runs.                                   *)
(***************************************************************************)
EXTENDS ChunkScheduler, TLC

CONSTANTS w1, w2, t1, t2, s1, s2

\* Each slot in a worker process of its own.
TwoProcesses == t1 :> w1 @@ t2 :> w2

\* Both slots in one worker process: they share the owner name in leases.
OneProcess == t1 :> w1 @@ t2 :> w1

\* Slots change places together with their processes, and servers are alike.
Symmetry ==
  {p \in Permutations(Slots \cup Workers \cup Servers) :
     /\ \A t \in Slots : p[t] \in Slots /\ p[WorkerOf[t]] = WorkerOf[p[t]]
     /\ \A s \in Servers : p[s] \in Servers}
=============================================================================
