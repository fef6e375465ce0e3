----------------------------- MODULE MCEngineJobs -----------------------------
(***************************************************************************)
(* Instances of EngineJobs: two slots, of two workers or of one.           *)
(***************************************************************************)
EXTENDS EngineJobs

CONSTANTS w1, w2, t1, t2

TwoWorkers == [s \in {t1, t2} |-> IF s = t1 THEN w1 ELSE w2]
OneWorker == [s \in {t1, t2} |-> w1]
=============================================================================
