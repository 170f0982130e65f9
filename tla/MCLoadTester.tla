---------------------------- MODULE MCLoadTester ----------------------------
(***************************************************************************)
(* An instance of LoadTester for TLC: two workers, and more orders than    *)
(* fit the buffers.                                                        *)
(***************************************************************************)
EXTENDS LoadTester

CONSTANTS w1, w2

MCWorkers == {w1, w2}

=============================================================================
