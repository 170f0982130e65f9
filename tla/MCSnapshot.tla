----------------------------- MODULE MCSnapshot -----------------------------
(***************************************************************************)
(* An instance of Snapshot, and of HeapBook in it, for TLC: one client,    *)
(* enough orders for a heap in which a hole chooses between two children,  *)
(* a quantity of 0 in the first order, ints so short that levels and       *)
(* volumes outgrow them, and a window of trades shorter than the tape.     *)
(***************************************************************************)
EXTENDS Snapshot

CONSTANT c1

MCClientIds == {c1}

MCPrices == {1, 2}

MCQuantities == {0, 1, 2}

MCLatencies == {0, 5}

\* A bound: only the first order may be of quantity 0.  It is enough for a tape
\* that begins with a trade of nothing, and for one on which there is no other.
ZeroIsFirst == \A i \in DOMAIN ledger : ledger[i].quantity = 0 => i = 1

=============================================================================
