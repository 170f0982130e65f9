----------------------------- MODULE MCHeapBook -----------------------------
(***************************************************************************)
(* Instances of HeapBook for TLC: one client, and enough orders for a heap *)
(* in which a hole chooses between two children.                           *)
(***************************************************************************)
EXTENDS HeapBook

CONSTANT c1

MCClientIds == {c1}

MCPrices == {1, 2}

MCQuantities == {1, 2}

=============================================================================
