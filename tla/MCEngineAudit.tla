--------------------------- MODULE MCEngineAudit ---------------------------
(***************************************************************************)
(* Instances of EngineAudit for TLC: the audited engine with two sessions. *)
(***************************************************************************)
EXTENDS EngineAudit

CONSTANTS c1, c2

MCClientIds == {c1, c2}

MCPrices == {1, 2}

OnePrice == {1}

\* With 0, which the dashboard sends for text that is no number.
MCQuantities == {0, 1, 2}

\* Also a number with a sign: the parser takes it, and an execution of a negative
\* quantity leaves more of the other order than there was.
SignedQuantities == {-1, 0, 1, 2}

Symmetry == Permutations(MCClientIds)

=============================================================================
