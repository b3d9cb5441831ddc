---------------------------- MODULE MCFuzzEscrow ----------------------------
(***************************************************************************)
(* A small instance of FuzzEscrow: 206 units are a campaign's price, so    *)
(* that a 1% crash bonus, a 5% fee and a floor slice are one unit or more, *)
(* and a run pool does not divide evenly into its two runs.                *)
(***************************************************************************)
EXTENDS FuzzEscrow, TLC

CONSTANTS payerAddr, devAddr, minerAddr

MCMinBudget == [s \in Splits |-> 100]
EventSymmetry == Permutations(Events)
MCAddr == {payerAddr, devAddr, minerAddr}
=============================================================================
