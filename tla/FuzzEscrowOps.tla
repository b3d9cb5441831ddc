--------------------------- MODULE FuzzEscrowOps ---------------------------
(***************************************************************************)
(* The arithmetic and the row rules of a campaign escrow: how a price is   *)
(* split, what each settle kind would pay and which error it returns.      *)
(* Everything here is a function of one fuzz_campaign_escrow row; the      *)
(* state machine is FuzzEscrow.                                            *)
(*                                                                         *)
(* All amounts are units (Nat).  The code multiplies by the floats 0.05,   *)
(* 0.01 and 0.5 and truncates; for amounts below 2^53 that is the integer  *)
(* division written here.                                                  *)
(***************************************************************************)
EXTENDS Integers

CONSTANTS
  MinCampaignRuns, MaxCampaignRuns,  \* bounds on budget_runs (shards for Hunt)
  MinPerRunUnits,                    \* dust floor of a run, a bonus, a slice
  HuntMinPerShardUnits,              \* dust floor of a Hunt shard
  UniqueCrashBonusMaxUnits, HuntUniqueCrashBonusMaxUnits,
  FloorPayBPS,                       \* HuntEngineFloorPayBPS, 1..10000
  BurnPPM, PlatformPPM,              \* orderFeeV2Rates at the current tip
  NoOne                              \* the empty finding_winner

ASSUME OpsAssumption ==
  /\ MinCampaignRuns \in Nat \ {0} /\ MaxCampaignRuns \in Nat
  /\ MinPerRunUnits \in Nat \ {0} /\ HuntMinPerShardUnits \in Nat \ {0}
  /\ UniqueCrashBonusMaxUnits \in Nat /\ HuntUniqueCrashBonusMaxUnits \in Nat
  /\ FloorPayBPS \in 1..10000
  /\ BurnPPM \in Nat /\ PlatformPPM \in Nat /\ BurnPPM + PlatformPPM <= 1000000

Splits == {"20_80", "40_60", "50_50"}
Severities == {"low", "medium", "high", "critical"}
Kinds == {"run", "run_floor", "finding", "crash_bonus", "finalize"}
Errors == {"ok", "Closed", "Depleted", "AlreadyPaid", "Other"}
FeeAssets == {"none", "HMC", "SUP"}

----------------------------------------------------------------------------
(* The split of a price into pools, and the Economics v2 fee.               *)

\* The share of the run pool, in tenths: a fifth, two fifths or a half.
RunsTenths(split) ==
  IF split = "20_80" THEN 2 ELSE IF split = "40_60" THEN 4 ELSE 5

RunsPoolUnits(total, split) == (total * RunsTenths(split)) \div 10

\* ComputeSplitUnits* refuse dust: a per-run payout below the split's floor.
SplitOK(total, runs, split) ==
  /\ total > 0
  /\ runs \in MinCampaignRuns..MaxCampaignRuns
  /\ LET perRun == RunsPoolUnits(total, split) \div runs
     IN perRun >= IF split = "50_50" THEN HuntMinPerShardUnits ELSE MinPerRunUnits

NoFee == [asset |-> "none", burn |-> 0, platform |-> 0, sup |-> 0]

\* mulDivPPM, newOrderFeeV2 and OrderFeeV2FromPrice: the fee legs of a price.
OrderFeeV2(price, asset) ==
  LET burn == (price * BurnPPM) \div 1000000
      platform == (price * PlatformPPM) \div 1000000
  IN [asset |-> asset, burn |-> burn, platform |-> platform,
      sup |-> IF asset = "SUP" THEN burn + platform ELSE 0]

\* OrderFeeV2.HMCUnits: what the payer spends on the fee in HMC.
FeeHMCUnits(fee) == IF fee.asset = "SUP" THEN 0 ELSE fee.burn + fee.platform

----------------------------------------------------------------------------
(* The escrow row.                                                          *)

\* "none" stands for an absent row.
NoRow == [budget |-> 0, runsPool |-> 0, bountyPool |-> 0, perRun |-> 0,
          runsPaid |-> 0, bountyPaid |-> 0, crashBonus |-> 0,
          refundedBounty |-> 0, runsDone |-> 0, winner |-> NoOne,
          status |-> "none", split |-> "20_80", fee |-> NoFee]

\* The row OpenFuzzEscrowWithFee inserts.
OpenedRow(total, runs, split, fee) ==
  LET pool == RunsPoolUnits(total, split)
  IN [budget |-> total, runsPool |-> pool, bountyPool |-> total - pool,
      perRun |-> pool \div runs, runsPaid |-> 0, bountyPaid |-> 0,
      crashBonus |-> 0, refundedBounty |-> 0, runsDone |-> 0,
      winner |-> NoOne, status |-> "open", split |-> split, fee |-> fee]

Live(r) == r.status \in {"open", "bounty_paid"}

RunsLeftUnits(r) == r.runsPool - r.runsPaid

\* bountyLeftUnits: the bounty pool still held, floored at zero.
BountyLeftUnits(r) ==
  LET used == r.bountyPaid + r.crashBonus + r.refundedBounty
  IN IF r.bountyPool <= used THEN 0 ELSE r.bountyPool - used

\* What the chain still holds for the campaign.
LockedUnits(r) == IF Live(r) THEN RunsLeftUnits(r) + BountyLeftUnits(r) ELSE 0

----------------------------------------------------------------------------
(* What a settle of each kind would pay, and its error.                     *)

\* A full run, or the Hunt floor slice (at least one unit).
RunRate(r, kind) ==
  IF kind = "run" THEN r.perRun
  ELSE LET slice == (r.perRun * FloorPayBPS) \div 10000
       IN IF slice = 0 /\ r.perRun > 0 THEN 1 ELSE slice

\* payFuzzRunAmountTx pays the rate, or what is left of the pool.
RunPayUnits(r, kind) ==
  IF r.runsPaid + RunRate(r, kind) > r.runsPool THEN RunsLeftUnits(r)
  ELSE RunRate(r, kind)

RunErr(r, kind) ==
  IF ~Live(r) THEN "Closed"
  ELSE IF RunPayUnits(r, kind) = 0 THEN "Depleted"
  ELSE "ok"

CrashBonusCap(split) ==
  IF split = "50_50" THEN HuntUniqueCrashBonusMaxUnits
  ELSE UniqueCrashBonusMaxUnits

\* UniqueCrashBonusUnitsForSplit: 1% of the pool, capped, never dust.
UniqueCrashBonusUnits(pool, split) ==
  LET pct == pool \div 100
      capped == IF pct > CrashBonusCap(split) THEN CrashBonusCap(split) ELSE pct
      tenth == pool \div 10
      bonus == IF tenth > 0 /\ capped > tenth THEN tenth ELSE capped
  IN IF bonus < MinPerRunUnits THEN 0 ELSE bonus

\* Mutant: the bonus does not look at a bounty pool refunded by a close.
CrashErrIgnoresRefund(r) ==
  LET bonus == UniqueCrashBonusUnits(r.bountyPool, r.split)
  IN IF ~Live(r) THEN "Closed"
     ELSE IF r.crashBonus > 0 THEN "AlreadyPaid"
     ELSE IF bonus = 0 \/ bonus > r.bountyPool - r.bountyPaid THEN "Depleted"
     ELSE "ok"

\* The early returns of payFuzzCrashBonusTx, in the code's order.
CrashErr(r) ==
  LET remaining == r.bountyPool - r.bountyPaid
      bonus == UniqueCrashBonusUnits(r.bountyPool, r.split)
  IN IF ~Live(r) THEN "Closed"
     ELSE IF r.crashBonus > 0 THEN "AlreadyPaid"
     ELSE IF r.refundedBounty > 0 THEN "Depleted"
     ELSE IF remaining <= 0 \/ bonus = 0 \/ bonus > remaining THEN "Depleted"
     ELSE "ok"

\* The tenths of the bounty pool a finding releases: all of it for Dig; for
\* Hunt all (critical), six (high) or none.
BountyTenths(split, sev) ==
  IF split # "50_50" \/ sev = "critical" THEN 10
  ELSE IF sev = "high" THEN 6 ELSE 0

\* The slice a finding releases of what the crash bonus left.
BountySliceUnits(r, sev) ==
  ((r.bountyPool - r.crashBonus) * BountyTenths(r.split, sev)) \div 10

\* BountyPayoutUnits: 5% of a released slice goes to the platform.
BountyFeeUnits(slice) == slice \div 20

\* Mutant: a finding trusts the status alone, which a reopen resets.
BountyErrTrustsStatus(r, sev) ==
  IF sev = "low" THEN "Other"
  ELSE IF r.status = "bounty_paid" THEN "AlreadyPaid"
  ELSE IF r.status # "open" THEN "Closed"
  ELSE IF r.bountyPool <= r.crashBonus THEN "Depleted"
  ELSE IF r.split = "50_50" /\ BountySliceUnits(r, sev) < MinPerRunUnits THEN "Other"
  ELSE "ok"

\* The early returns of payFuzzBountyTx, in the code's order.
BountyErr(r, sev) ==
  IF sev = "low" THEN "Other"
  ELSE IF r.status = "bounty_paid" THEN "AlreadyPaid"
  ELSE IF r.status # "open" THEN "Closed"
  ELSE IF r.bountyPaid > 0 \/ r.winner # NoOne THEN "AlreadyPaid"
  ELSE IF r.refundedBounty > 0 \/ r.bountyPool <= r.crashBonus THEN "Depleted"
  ELSE IF r.split = "50_50" /\ BountySliceUnits(r, sev) < MinPerRunUnits THEN "Other"
  ELSE "ok"

----------------------------------------------------------------------------
(* The row after a successful settle.                                       *)

RunRow(r, kind) ==
  [r EXCEPT !.runsPaid = @ + RunPayUnits(r, kind), !.runsDone = @ + 1]

CrashRow(r) ==
  [r EXCEPT !.crashBonus = UniqueCrashBonusUnits(r.bountyPool, r.split)]

\* Mutant: the row records what the miner got and not the released slice.
BountyRowNetOfFee(r, sev, miner) ==
  LET slice == BountySliceUnits(r, sev)
  IN [r EXCEPT !.bountyPaid = slice - BountyFeeUnits(slice), !.winner = miner,
               !.status = "bounty_paid"]

BountyRow(r, sev, miner) ==
  [r EXCEPT !.bountyPaid = BountySliceUnits(r, sev), !.winner = miner,
            !.status = "bounty_paid"]

\* finalizeFuzzEscrowTx and CancelFuzzEscrow leave a closed row alone.
ClosedRow(r) ==
  IF r.status = "closed" THEN r
  ELSE [r EXCEPT !.status = "closed", !.refundedBounty = @ + BountyLeftUnits(r)]

\* What closing the row credits to the wallet.
RefundUnits(r) ==
  IF r.status = "closed" THEN 0 ELSE RunsLeftUnits(r) + BountyLeftUnits(r)
=============================================================================
