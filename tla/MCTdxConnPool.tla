--------------------------- MODULE MCTdxConnPool ---------------------------
(* Instances of the connection table for TLC.                               *)
EXTENDS TdxConnPool, TLC

CONSTANTS c1, c2, c3

ThreeClients == {c1, c2, c3}

(* Threads are interchangeable; used for safety only.                       *)
Symmetry == Permutations(Clients)
=============================================================================
