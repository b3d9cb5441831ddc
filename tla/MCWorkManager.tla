--------------------------- MODULE MCWorkManager ---------------------------
(***************************************************************************)
(* Small instances of WorkManager.                                         *)
(***************************************************************************)
EXTENDS WorkManager, TLC

CONSTANTS w1, w2, a1, h1, h2, p1, p2

Symmetry == Permutations(Workers) \cup Permutations(Handlers) \cup Permutations(Persists)
=============================================================================
