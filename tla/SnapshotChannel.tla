-------------------------- MODULE SnapshotChannel --------------------------
(***************************************************************************)
(* What a session promises the publisher: snapshots leave in the order in  *)
(* which they were published, each once, none skipped, until the           *)
(* connection breaks; and whole, unless a backlog of snapshots is waiting. *)
(* Snapshots are numbered in the order of their publication.               *)
(***************************************************************************)
EXTENDS Integers, Sequences

CONSTANTS
  Torn,      \* what is no snapshot
  Backlog    \* how many must be waiting for the next one to be torn

VARIABLES
  published,   \* how many snapshots were published
  delivered,   \* the snapshots handed to the connection
  broken       \* the connection broke

chvars == <<published, delivered, broken>>

Init == published = 0 /\ delivered = <<>> /\ broken = FALSE

Publish ==
  /\ published' = published + 1
  /\ UNCHANGED <<delivered, broken>>

\* What the next delivery may be.
Nexts ==
  {Len(delivered) + 1} \cup (IF published - Len(delivered) >= Backlog THEN {Torn} ELSE {})

Deliver ==
  /\ ~broken
  /\ Len(delivered) < published
  /\ \E snapshot \in Nexts : delivered' = Append(delivered, snapshot)
  /\ UNCHANGED <<published, broken>>

Break ==
  /\ broken' = TRUE
  /\ UNCHANGED <<published, delivered>>

Next == Publish \/ Deliver \/ Break

Spec == Init /\ [][Next]_chvars

\* What can be delivered is delivered.
Fairness == WF_chvars(Deliver)

FairSpec == Spec /\ Fairness

=============================================================================
