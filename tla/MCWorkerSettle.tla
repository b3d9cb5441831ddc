--------------------------- MODULE MCWorkerSettle ---------------------------
(***************************************************************************)
(* Small instances of WorkerSettle: every worker has a payout address of  *)
(* its own.                                                                *)
(***************************************************************************)
EXTENDS WorkerSettle

CONSTANTS w1, w2, a1, a2

OwnAddress == [w \in Workers |-> IF w = w1 THEN a1 ELSE a2]
=============================================================================
