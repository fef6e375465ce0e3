-------------------------- MODULE CommittedStream --------------------------
(***************************************************************************)
(* What a change reader and the server that takes its transactions in      *)
(* promise together, whatever the dialect of the source: the transactions  *)
(* the source has committed are taken in once each, complete and in the    *)
(* order of their commits.  CDCReaders implements this specification.      *)
(***************************************************************************)
EXTENDS Naturals, Sequences

VARIABLES
  committed,   \* the transactions of the source, in commit order
  accepted     \* the transactions the server has taken in

Init == committed = <<>> /\ accepted = <<>>

\* The source commits one transaction, or several at one commit number.
Commit ==
  /\ Len(committed') > Len(committed)
  /\ SubSeq(committed', 1, Len(committed)) = committed
  /\ UNCHANGED accepted

\* The server takes in the next transactions: those of one request.
Accept ==
  /\ \E n \in Len(accepted) + 1 .. Len(committed) :
       accepted' = SubSeq(committed, 1, n)
  /\ UNCHANGED committed

Next == Commit \/ Accept

Spec == Init /\ [][Next]_<<committed, accepted>>

=============================================================================
