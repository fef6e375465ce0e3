--------------------------- MODULE MCSpoolPayload ---------------------------
(* Instances of SpoolPayload: which backend, which faults. *)
EXTENDS SpoolPayload

Store(backend, servers, serving, resends, faults, crashes) ==
  [backend |-> backend, servers |-> servers, serving |-> serving, resends |-> resends,
   faults |-> faults, crashes |-> crashes, uncertain |-> TRUE, listing |-> FALSE]

\* One server on a directory that restarts, two that do not.
OneServer == Store("file", {1}, FALSE, 3, 3, 2)
TwoServers == Store("file", {1, 2}, TRUE, 3, 2, 0)
\* A bucket, as long as nothing is sent again that has a row.
Bucket == [Store("s3", {1}, FALSE, 0, 2, 0) EXCEPT !.uncertain = FALSE]

\* A listing that fails at the first start, when there is nothing to lose.
FirstStart == [Store("file", {1}, FALSE, 0, 1, 0) EXCEPT !.listing = TRUE]

MCScenarios == {OneServer, TwoServers, Bucket, FirstStart}

\* A bucket and a request that is sent again.
BucketResend == {Store("s3", {1}, FALSE, 1, 0, 0)}

\* A server that starts while another stages, a listing that fails at start.
StartBesideAnother == {Store("file", {1, 2}, TRUE, 0, 0, 1)}
ListingFails == {[Store("file", {1}, FALSE, 0, 1, 1) EXCEPT !.listing = TRUE]}
=============================================================================
