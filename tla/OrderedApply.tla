---------------------------- MODULE OrderedApply ----------------------------
(***************************************************************************)
(* What the forward CDC path of a task promises the source and the target, *)
(* whatever stands between them: each transaction is committed to the      *)
(* target once and in source order, with its checkpoint behind it, and     *)
(* what is acknowledged to the source, which may then discard it, is       *)
(* checkpointed or kept.  CDCApply implements it with one server and no    *)
(* operator.                                                               *)
(***************************************************************************)
EXTENDS Naturals, Sequences

CONSTANTS
  MaxTx,        \* the source commits the transactions 1 to MaxTx
  Heartbeats,   \* those that carry no change
  DDL           \* those that are no part of a target transaction

VARIABLES
  target,       \* the transactions in the order the target committed them
  checkpoint,   \* the last transaction known to be in the target
  kept,         \* transactions kept for later
  acked         \* the last transaction acknowledged to the source

InTarget(t) == \E i \in DOMAIN target : target[i] = t

Init == target = <<>> /\ checkpoint = 0 /\ kept = {} /\ acked = 0

\* The transaction behind the checkpoint is committed: once, unless it is DDL.
Commit ==
  LET t == checkpoint + 1 IN
  /\ t \in (1..MaxTx) \ Heartbeats
  /\ t \in DDL \/ ~InTarget(t)
  /\ target' = Append(target, t)
  /\ UNCHANGED <<checkpoint, kept, acked>>

Advance ==
  LET t == checkpoint + 1 IN
  /\ t \in Heartbeats \/ InTarget(t)
  /\ checkpoint' = t
  /\ UNCHANGED <<target, kept, acked>>

\* Transactions are kept, let go once they are checkpointed, and acknowledged
\* up to any one that nothing before needs the source for.
Keep ==
  /\ kept \ (1..checkpoint) \subseteq kept' /\ kept' \subseteq 1..MaxTx
  /\ acked' >= acked
  /\ 1..acked' \subseteq (1..checkpoint) \cup kept'
  /\ UNCHANGED <<target, checkpoint>>

Next == Commit \/ Advance \/ Keep

Spec == Init /\ [][Next]_<<target, checkpoint, kept, acked>>
=============================================================================
