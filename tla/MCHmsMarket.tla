---------------------------- MODULE MCHmsMarket ----------------------------
(***************************************************************************)
(* Small instances of HmsMarket: one client, workers with equal room.      *)
(***************************************************************************)
EXTENDS HmsMarket, TLC

CONSTANTS w1, w2, w3, r1, r2, k1, c1

EqualRoom == [w \in Workers |-> 2]
Symmetry == Permutations(Workers) \cup Permutations(Requests)

\* Two requests at once; one request beside the health loop; two uploads.
Pair == [tick |-> FALSE, requests |-> 2, creates |-> 2, faults |-> 1]
Ticking == [tick |-> TRUE, requests |-> 1, creates |-> 1, faults |-> 1]
Overlap == [tick |-> FALSE, requests |-> 2, creates |-> 1, faults |-> 0]

Safety == {Pair, Ticking}
Copies == {Overlap}
=============================================================================
