-------------------------- MODULE MCMatchingEngine --------------------------
(***************************************************************************)
(* Instances of MatchingEngine for TLC: two sessions whose handlers run    *)
(* concurrently, two price levels, and a bound on the orders sent.         *)
(***************************************************************************)
EXTENDS MatchingEngine, TLC

CONSTANTS c1, c2

MCClientIds == {c1, c2}

MCPrices == {1, 2}

\* A quantity larger than another, and what the dashboard sends for text that
\* is no number (0) and for a number with a sign.
MCQuantities == {-1, 0, 1, 2}

Symmetry == Permutations(MCClientIds)

=============================================================================
