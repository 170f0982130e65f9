-------------------------- MODULE MCTradingSystem --------------------------
(***************************************************************************)
(* An instance of TradingSystem for TLC: two dashboards.                   *)
(***************************************************************************)
EXTENDS TradingSystem

CONSTANTS c1, c2

MCClientIds == {c1, c2}

MCPrices == {1, 2}

MCQuantities == {1, 2}

=============================================================================
