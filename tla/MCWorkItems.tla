---------------------------- MODULE MCWorkItems ----------------------------
(***************************************************************************)
(* Small instances of WorkItems: a campaign with one item left.            *)
(***************************************************************************)
EXTENDS WorkItems, TLC

CONSTANTS w1, w2, v1, v2

OneEach == [w \in Workers |-> w]
Symmetry == Permutations(Workers) \cup Permutations(Verifiers)

\* Two leases decided by the engine and a restart; a submit that two verifiers
\* replay while an admin stops the campaign; the same with a restart.
Engine == [engine |-> TRUE, leases |-> 2, stops |-> 0, restarts |-> 1]
Queued == [engine |-> FALSE, leases |-> 1, stops |-> 2, restarts |-> 0]
Crashing == [engine |-> FALSE, leases |-> 1, stops |-> 2, restarts |-> 1]

Safety == {Engine, Queued}
Liveness == {Crashing}
=============================================================================
