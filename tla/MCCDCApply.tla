------------------------------ MODULE MCCDCApply ------------------------------
(***************************************************************************)
(* Instances of CDCApply: the handlers of one or two servers.              *)
(***************************************************************************)
EXTENDS CDCApply, TLC

CONSTANTS s1, s2, h1, h2

OneServer == [h \in {h1, h2} |-> s1]
TwoServers == [h \in {h1, h2} |-> IF h = h1 THEN s1 ELSE s2]

\* Handlers change places together with their servers.
Symmetry ==
  {p \in Permutations(Handlers \cup Servers) :
     \A h \in Handlers : p[h] \in Handlers /\ p[ServerOf[h]] = ServerOf[p[h]]}
=============================================================================
