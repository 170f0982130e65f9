------------------------------ MODULE MCServer ------------------------------
(***************************************************************************)
(* An instance of Server for TLC: two clients, and the two I/O threads the *)
(* server has at least.                                                    *)
(***************************************************************************)
EXTENDS Server

CONSTANTS k1, k2, t1, t2

MCPeers == {k1, k2}

MCThreads == {t1, t2}

TwoAndOneCommands == [k \in MCPeers |-> IF k = k1 THEN 2 ELSE 1]

=============================================================================
