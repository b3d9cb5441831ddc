-------------------------- MODULE MCSettlePipeline --------------------------
(***************************************************************************)
(* Small instances of SettlePipeline: two items of two miners.             *)
(***************************************************************************)
EXTENDS SettlePipeline, TLC

CONSTANTS t1, t2, m1, m2

TwoMiners == <<m1, m2>>
ThreadSymmetry == Permutations(Threads)

\* The settle-pull of a Dig campaign whose submits crash or are rejected.
Pull ==
  [split |-> "20_80", handlers |-> 1, drains |-> {"ticker"}, outcomes |-> {"crash", "reject"},
   timeBudget |-> FALSE, cancels |-> FALSE, replays |-> FALSE, faults |-> 1]

\* The settle-pull of a Hunt campaign that may be cancelled.
Cancelled == [Pull EXCEPT !.split = "50_50", !.outcomes = {"clean"}, !.cancels = TRUE]

\* Two requests at once in a Hunt campaign, and the push relay; with a fault, or
\* with a cancel.
Overlap == [Pull EXCEPT !.split = "50_50", !.handlers = 2, !.drains = {"pusher"},
                        !.outcomes = {"floor"}]
CancelRace == [Overlap EXCEPT !.cancels = TRUE, !.faults = 0]

\* The close of a Dig campaign beside an operator's reopen; a close, a reopen, or
\* both without a fault, beside an operator's replay.
Close == [Pull EXCEPT !.drains = {"closer", "reopener"}, !.outcomes = {"clean"}]
CloseReplay == [Close EXCEPT !.drains = {"closer"}, !.replays = TRUE]
AllThree == [Close EXCEPT !.replays = TRUE, !.faults = 0]
ReopenReplay == [Close EXCEPT !.drains = {"reopener"}, !.replays = TRUE]

Pulls == {Pull, Cancelled}
Races == {Overlap, CancelRace, Close, CloseReplay, ReopenReplay, AllThree}
=============================================================================
