--------------------------- MODULE MCChainOrders ---------------------------
(***************************************************************************)
(* Small instances of ChainOrders.                                         *)
(***************************************************************************)
EXTENDS ChainOrders, TLC

CONSTANTS o1, o2, d1, n1, n2, m1, s1, s2, t1, t2, wHub, wDesk, dev

Symmetry == Permutations(Nonces) \cup Permutations(Solvers) \cup Permutations(Funds)
              \cup Permutations(HubOrders)
=============================================================================
