----------------------------- MODULE FuzzEscrow -----------------------------
(***************************************************************************)
(* The campaign escrow of the chain node: internal/chain/fuzz_escrow.go,   *)
(* fuzz_settle_once.go and the fee code they call.  Every operation runs   *)
(* under Service.mu in one SQLite transaction, so it is one action; an     *)
(* operation that returns an error rolls its transaction back and is a     *)
(* stuttering step, written as a guard.                                    *)
(*                                                                         *)
(* Money lives in four places: the accounts table, the wallet row (a copy  *)
(* of the balance of the node's own address), the pools of live escrow     *)
(* rows and the burn counter.                                              *)
(***************************************************************************)
EXTENDS FuzzEscrowOps, FiniteSets, Functions

CONSTANTS
  Campaigns,             \* campaign ids
  Addr,                  \* account addresses
  WalletAddr,            \* address of wallet id=1, the payer of every campaign
  DevFeeAddress,         \* platform account; may be the wallet itself
  Events,                \* settle event ids
  Prices,                \* campaign budgets, in units
  RunBudgets,            \* budget_runs a client asks for
  OpenSplits,            \* escrow splits a client asks for
  MinBudget,             \* [Splits -> Nat]: minimum budget of a split
  MaxBudget,             \* MaxCampaignBudgetHMC in units
  Minted,                \* units minted so far
  SupSupply,             \* SUP the wallet holds at the start
  IsHub,                 \* the node is the block-producing pool hub
  Senders,               \* addresses whose owners sign transfers
  TransferAmounts, TransferFee, TransferBurn \* transfers of the rest of the chain

ASSUME EscrowAssumption ==
  /\ WalletAddr \in Addr /\ DevFeeAddress \in Addr /\ NoOne \notin Addr
  /\ IsFiniteSet(Addr) /\ IsFiniteSet(Campaigns) /\ Campaigns # {}
  /\ Prices \subseteq Nat /\ RunBudgets \subseteq Nat
  /\ OpenSplits \subseteq Splits
  /\ MinBudget \in [Splits -> Nat] /\ MaxBudget \in Nat
  /\ Minted \in Nat /\ SupSupply \in Nat /\ IsHub \in BOOLEAN
  /\ Senders \subseteq Addr /\ TransferAmounts \subseteq Nat \ {0}
  /\ TransferFee \in Nat /\ TransferBurn \in 0..TransferFee

VARIABLES
  escrow,     \* [Campaigns -> row], table fuzz_campaign_escrow
  accounts,   \* [Addr -> Nat], accounts.balance_units
  wallet,     \* wallet.balance_units of id=1
  burned,     \* meta total_burned_units
  sup,        \* accounts.balance_sup_units of the wallet
  supBurned,  \* meta sup_total_burned_units
  supPaid,    \* campaigns whose SUP fee ref is in sup_tx_history
  applied,    \* table fuzz_settle_applied
  v2,         \* the tip has reached the Economics v2 activation height
  spent       \* history: HMC and SUP the payer has spent on a campaign, net

vars == <<escrow, accounts, wallet, burned, sup, supBurned, supPaid, applied,
          v2, spent>>

Row == [budget : Nat, runsPool : Nat, bountyPool : Nat, perRun : Nat,
        runsPaid : Nat, bountyPaid : Nat, crashBonus : Nat,
        refundedBounty : Nat, runsDone : Nat, winner : Addr \cup {NoOne},
        status : {"none", "open", "bounty_paid", "closed"}, split : Splits,
        fee : [asset : FeeAssets, burn : Nat, platform : Nat, sup : Nat]]

Init ==
  /\ escrow = [c \in Campaigns |-> NoRow]
  /\ accounts = [a \in Addr |-> IF a = WalletAddr THEN Minted ELSE 0]
  /\ wallet = Minted
  /\ burned = 0
  /\ sup = SupSupply /\ supBurned = 0 /\ supPaid = {}
  /\ applied = {}
  /\ v2 \in BOOLEAN
  /\ spent = [c \in Campaigns |-> [hmc |-> 0, sup |-> 0]]

----------------------------------------------------------------------------

\* Mutant: a payment to the node's own address misses the wallet row.
WalletShareForgotten(a, u) == 0

\* creditUnits adds to the account and, for the node's own address, to the
\* wallet row.
Credit(acc, a, u) == [acc EXCEPT ![a] = @ + u]
Debit(acc, a, u) == [acc EXCEPT ![a] = @ - u]
WalletShare(a, u) == IF a = WalletAddr THEN u ELSE 0

\* Wallet row and account must both cover a debit.
CanDebitWallet(u) == wallet >= u /\ accounts[WalletAddr] >= u

\* The fee OpenFuzzEscrowWithFee charges, and what is left for the escrow.
OpenFee(price, asset) == IF v2 THEN OrderFeeV2(price, asset) ELSE NoFee
OpenTotal(price, asset) ==
  price - OpenFee(price, asset).burn - OpenFee(price, asset).platform

\* burnSUPForFeeTx: one charge per ref, from the wallet's SUP balance.
SupFeeOK(c, fee) == fee.sup > 0 => c \notin supPaid /\ sup >= fee.sup

\* OpenFuzzEscrowWithFee: debit wallet and account, book the fee, insert the row.
Open(c, price, runs, split, asset) ==
  LET fee == OpenFee(price, asset)
      total == OpenTotal(price, asset)
      debit == total + FeeHMCUnits(fee)
      platform == IF fee.asset = "HMC" THEN fee.platform ELSE 0
      burn == IF fee.asset = "HMC" THEN fee.burn ELSE 0
  IN /\ asset = "SUP" => v2 /\ ~IsHub
     /\ price \in MinBudget[split]..MaxBudget
     /\ SplitOK(total, runs, split)
     /\ escrow[c].status = "none"
     /\ CanDebitWallet(debit)
     /\ SupFeeOK(c, fee)
     /\ burned + burn <= Minted
     /\ escrow' = [escrow EXCEPT ![c] = OpenedRow(total, runs, split, fee)]
     /\ accounts' = Credit(Debit(accounts, WalletAddr, debit), DevFeeAddress, platform)
     /\ wallet' = wallet - debit + WalletShare(DevFeeAddress, platform)
     /\ burned' = burned + burn
     /\ sup' = sup - fee.sup
     /\ supBurned' = supBurned + fee.sup
     /\ supPaid' = IF fee.sup > 0 THEN supPaid \cup {c} ELSE supPaid
     /\ spent' = [spent EXCEPT ![c] = [hmc |-> @.hmc + debit, sup |-> @.sup + fee.sup]]
     /\ UNCHANGED <<applied, v2>>

\* payFuzzRunAmountTx for a full run or a Hunt floor slice.
PayRun(c, kind, m) ==
  LET pay == RunPayUnits(escrow[c], kind)
  IN /\ RunErr(escrow[c], kind) = "ok"
     /\ escrow' = [escrow EXCEPT ![c] = RunRow(@, kind)]
     /\ accounts' = Credit(accounts, m, pay)
     /\ wallet' = wallet + WalletShare(m, pay)
     /\ UNCHANGED spent

\* payFuzzCrashBonusTx.
PayCrashBonus(c, m) ==
  LET bonus == UniqueCrashBonusUnits(escrow[c].bountyPool, escrow[c].split)
  IN /\ CrashErr(escrow[c]) = "ok"
     /\ escrow' = [escrow EXCEPT ![c] = CrashRow(@)]
     /\ accounts' = Credit(accounts, m, bonus)
     /\ wallet' = wallet + WalletShare(m, bonus)
     /\ UNCHANGED spent

\* payFuzzBountyTx: miner and platform share the released slice.
PayBounty(c, sev, m) ==
  LET slice == BountySliceUnits(escrow[c], sev)
      fee == BountyFeeUnits(slice)
  IN /\ BountyErr(escrow[c], sev) = "ok"
     /\ escrow' = [escrow EXCEPT ![c] = BountyRow(@, sev, m)]
     /\ accounts' = Credit(Credit(accounts, m, slice - fee), DevFeeAddress, fee)
     /\ wallet' = wallet + WalletShare(m, slice - fee) + WalletShare(DevFeeAddress, fee)
     /\ UNCHANGED spent

\* finalizeFuzzEscrowTx: refund what is left to the wallet and close.  A closed
\* row is left alone and the call succeeds.
Close(c) ==
  LET refund == RefundUnits(escrow[c])
  IN /\ escrow[c].status # "none"
     /\ escrow' = [escrow EXCEPT ![c] = ClosedRow(@)]
     /\ accounts' = Credit(accounts, WalletAddr, refund)
     /\ wallet' = wallet + refund
     /\ spent' = [spent EXCEPT ![c] = [hmc |-> @.hmc - refund, sup |-> @.sup]]

Settle(kind, c, m, sev) ==
  \/ kind \in {"run", "run_floor"} /\ PayRun(c, kind, m)
  \/ kind = "crash_bonus" /\ PayCrashBonus(c, m)
  \/ kind = "finding" /\ PayBounty(c, sev, m)
  \/ kind = "finalize" /\ Close(c)

\* ApplyFuzzSettleOnce: the event row and the payment commit together; an event
\* already recorded is a no-op, a failed payment leaves it unrecorded.
ApplyFuzzSettleOnce(e, kind, c, m, sev) ==
  /\ e \notin applied
  /\ Settle(kind, c, m, sev)
  /\ applied' = applied \cup {e}
  /\ UNCHANGED <<burned, sup, supBurned, supPaid, v2>>

\* CancelFuzzEscrow and FinalizeFuzzEscrow, called outside the outbox.
CancelOrFinalize(c) ==
  /\ Live(escrow[c])
  /\ Close(c)
  /\ UNCHANGED <<burned, sup, supBurned, supPaid, applied, v2>>

\* ReopenFuzzEscrowForSettleDrain: lock the unpaid run pool again.  The bounty
\* stays refunded.
ReopenForSettleDrain(c) ==
  LET need == RunsLeftUnits(escrow[c])
  IN /\ escrow[c].status = "closed"
     /\ need > 0
     /\ CanDebitWallet(need)
     /\ escrow' = [escrow EXCEPT ![c].status = "open"]
     /\ accounts' = Debit(accounts, WalletAddr, need)
     /\ wallet' = wallet - need
     /\ spent' = [spent EXCEPT ![c] = [hmc |-> @.hmc + need, sup |-> @.sup]]
     /\ UNCHANGED <<burned, sup, supBurned, supPaid, applied, v2>>

\* Mutant: a campaign closed and reopened before any payout counts as unstarted.
UnstartedIgnoresRefund(r) ==
  r.status = "open" /\ r.runsPaid = 0 /\ r.bountyPaid = 0 /\ r.crashBonus = 0

Unstarted(r) ==
  /\ r.status = "open"
  /\ r.runsPaid = 0 /\ r.bountyPaid = 0 /\ r.crashBonus = 0
  /\ r.refundedBounty = 0

\* Mutant: the fee is taken back without looking at the platform's balance.
DevCanReturnUnchecked(platform) == TRUE

\* The platform account may have spent the fee meanwhile: then nothing is undone.
DevCanReturn(platform) == accounts[DevFeeAddress] >= platform

\* RollbackUnstartedFuzzEscrow: undo an open that paid nothing, the fee legs
\* included, and delete the row.
RollbackUnstarted(c) ==
  LET fee == escrow[c].fee
      platform == IF fee.asset = "HMC" THEN fee.platform ELSE 0
      burn == IF fee.asset = "HMC" THEN fee.burn ELSE 0
      back == IF fee.asset = "SUP" THEN fee.sup ELSE 0
      refund == escrow[c].budget + platform + burn
  IN /\ Unstarted(escrow[c])
     /\ DevCanReturn(platform)
     /\ burned >= burn
     /\ supBurned >= back
     /\ escrow' = [escrow EXCEPT ![c] = NoRow]
     /\ accounts' = Credit(Debit(accounts, DevFeeAddress, platform), WalletAddr, refund)
     /\ wallet' = wallet - WalletShare(DevFeeAddress, platform) + refund
     /\ burned' = burned - burn
     /\ sup' = sup + back
     /\ supBurned' = supBurned - back
     /\ supPaid' = IF back > 0 THEN supPaid \ {c} ELSE supPaid
     /\ spent' = [spent EXCEPT ![c] = [hmc |-> @.hmc - refund, sup |-> @.sup - back]]
     /\ UNCHANGED <<applied, v2>>

\* applyPendingTransfers, for one valid transfer: the fee is burned in part and
\* credited to the platform for the rest.
ApplyTransfer(from, to, amount) ==
  LET total == amount + TransferFee
      devFee == TransferFee - TransferBurn
      moved == Credit(Credit(Debit(accounts, from, total), to, amount), DevFeeAddress, devFee)
  IN /\ from # to
     /\ accounts[from] >= total
     /\ accounts' = moved
     /\ wallet' = IF \/ WalletAddr \in {from, to}
                     \/ devFee > 0 /\ DevFeeAddress = WalletAddr
                  THEN moved[WalletAddr] ELSE wallet
     /\ burned' = burned + TransferBurn
     /\ UNCHANGED <<escrow, sup, supBurned, supPaid, applied, v2, spent>>

\* A block takes the tip past the activation height.
ActivateV2 ==
  /\ ~v2
  /\ v2' = TRUE
  /\ UNCHANGED <<escrow, accounts, wallet, burned, sup, supBurned, supPaid,
                 applied, spent>>

Next ==
  \/ \E c \in Campaigns, p \in Prices, n \in RunBudgets, s \in OpenSplits,
        f \in {"HMC", "SUP"} : Open(c, p, n, s, f)
  \/ \E e \in Events, k \in Kinds, c \in Campaigns, m \in Addr, sev \in Severities :
        ApplyFuzzSettleOnce(e, k, c, m, sev)
  \/ \E c \in Campaigns : \/ CancelOrFinalize(c)
                          \/ ReopenForSettleDrain(c)
                          \/ RollbackUnstarted(c)
  \/ \E a \in Senders, b \in Addr, u \in TransferAmounts : ApplyTransfer(a, b, u)
  \/ ActivateV2

Spec == Init /\ [][Next]_vars

----------------------------------------------------------------------------
(* Properties.                                                              *)

\* Type invariant: every table and counter holds values of its column type;
\* in particular no uint64 subtraction of the code ever goes below zero.
TypeOK ==
  /\ escrow \in [Campaigns -> Row]
  /\ accounts \in [Addr -> Nat]
  /\ wallet \in Nat
  /\ burned \in Nat
  /\ sup \in Nat /\ supBurned \in Nat /\ supPaid \subseteq Campaigns
  /\ applied \subseteq Events
  /\ v2 \in BOOLEAN
  /\ spent \in [Campaigns -> [hmc : Int, sup : Int]]

\* The dual ledger: the wallet row equals the account of the node's address,
\* whoever is paid and whether or not the platform account is the wallet
\* (creditUnits, applyPendingTransfers and the debits of Open and Reopen).
WalletMirrorsAccount == wallet = accounts[WalletAddr]

\* No sequence of runs, bonuses, bounties, closes and reopens draws more from a
\* pool than was put in: what fuzz_escrow.go guards with refunded_bounty_units.
PoolsOK(r) ==
  /\ r.budget = r.runsPool + r.bountyPool
  /\ r.runsPaid <= r.runsPool
  /\ r.bountyPaid + r.crashBonus + r.refundedBounty <= r.bountyPool
PoolsNotOverdrawn == \A c \in Campaigns : PoolsOK(escrow[c])

\* What the payer has spent on a campaign, net of refunds, is exactly the fee,
\* the payouts and what is still locked.  A rolled back create costs nothing,
\* a closed campaign costs what was delivered, and reopening changes neither.
PayerPaysForDelivery ==
  \A c \in Campaigns :
    LET r == escrow[c]
    IN /\ spent[c].hmc = FeeHMCUnits(r.fee) + r.runsPaid + r.bountyPaid
                           + r.crashBonus + LockedUnits(r)
       /\ spent[c].sup = r.fee.sup

\* A row that is absent or closed holds nothing, a winner was paid, and a fee
\* has legs only in the asset it was charged in: what the other row properties need to be inductive.
RowShapeOK(r) ==
  /\ r.status = "none" => r = NoRow
  /\ r.status = "closed" => r.bountyPaid + r.crashBonus + r.refundedBounty = r.bountyPool
  /\ r.winner # NoOne => r.bountyPaid > 0
  /\ r.fee.asset = "none" => r.fee = NoFee
  /\ r.fee.asset # "SUP" => r.fee.sup = 0
RowShape == \A c \in Campaigns : RowShapeOK(escrow[c])

\* The inductive invariant of the proofs.
IInv == TypeOK /\ WalletMirrorsAccount /\ PoolsNotOverdrawn /\ RowShape
          /\ PayerPaysForDelivery

\* The units a step adds to the accounts, when it changes no account other than
\* the wallet's, the platform's, m and n.
Gained(a) == accounts'[a] - accounts[a]
MovedUnits(m, n) ==
  Gained(WalletAddr)
    + (IF DevFeeAddress = WalletAddr THEN 0 ELSE Gained(DevFeeAddress))
    + (IF m \in {WalletAddr, DevFeeAddress} THEN 0 ELSE Gained(m))
    + (IF n \in {WalletAddr, DevFeeAddress, m} THEN 0 ELSE Gained(n))

\* HMC is neither created nor lost, step by step: a step touches one campaign and at most two
\* accounts beside the wallet's and the platform's, and moves units between
\* them, the campaign's pools and the burn counter without changing their sum.
StepConserves ==
  \E c \in Campaigns, m, n \in Addr :
    /\ \A d \in Campaigns \ {c} : escrow'[d] = escrow[d]
    /\ \A a \in Addr \ {WalletAddr, DevFeeAddress, m, n} : accounts'[a] = accounts[a]
    /\ MovedUnits(m, n) + (LockedUnits(escrow'[c]) - LockedUnits(escrow[c]))
         + (burned' - burned) = 0
EveryStepConserves == [][StepConserves]_vars

\* The bounty is decided once: no later finding, close or reopen (which sets the
\* status back to open) changes the winner or what was paid.
BountyKept ==
  \A c \in Campaigns : escrow[c].winner # NoOne =>
    /\ escrow'[c].winner = escrow[c].winner
    /\ escrow'[c].bountyPaid = escrow[c].bountyPaid
BountyIsFinal == [][BountyKept]_vars
=============================================================================
