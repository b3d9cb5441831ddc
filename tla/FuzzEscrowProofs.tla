-------------------------- MODULE FuzzEscrowProofs --------------------------
(***************************************************************************)
(* Theorems about FuzzEscrow for every set of campaigns, addresses and     *)
(* events and every fee rate, price and bound.  The argument goes through  *)
(* the row: each operation maps a well-formed row to a well-formed row and *)
(* changes what it holds by what it pays (the lemmas), and the ledger      *)
(* moves by the same amount (the theorems).                                *)
(***************************************************************************)
EXTENDS FuzzEscrow, TLAPS

USE DEF Splits, FeeAssets

\* A row of the table that satisfies the row parts of IInv.
GoodRow(r) == r \in Row /\ PoolsOK(r) /\ RowShapeOK(r)

\* What a row has cost its payer: fee, payouts and what is still held.
Cost(r) == FeeHMCUnits(r.fee) + r.runsPaid + r.bountyPaid + r.crashBonus
             + LockedUnits(r)

----------------------------------------------------------------------------
(* Arithmetic.                                                              *)

\* The run pool RunsPoolUnits cuts off is part of the total.
LEMMA RunsPoolBound ==
  ASSUME NEW total \in Nat, NEW split \in Splits
  PROVE  RunsPoolUnits(total, split) \in 0..total
  BY DEF RunsPoolUnits, RunsTenths

\* The Economics v2 legs of OrderFeeV2FromPrice never exceed the price.
LEMMA FeeBound ==
  ASSUME NEW price \in Nat, NEW asset \in {"HMC", "SUP"}
  PROVE  LET f == OrderFeeV2(price, asset)
         IN /\ f \in [asset : FeeAssets, burn : Nat, platform : Nat, sup : Nat]
            /\ f.burn + f.platform <= price
            /\ f.asset = asset
            /\ asset = "HMC" => f.sup = 0
<1>1. /\ (price * BurnPPM) \div 1000000 \in Nat
      /\ (price * PlatformPPM) \div 1000000 \in Nat
      /\ (price * BurnPPM) \div 1000000 + (price * PlatformPPM) \div 1000000 <= price
  BY OpsAssumption
<1> QED BY <1>1 DEF OrderFeeV2

\* The crash bonus is part of the bounty pool.
LEMMA CrashBonusBound ==
  ASSUME NEW pool \in Nat, NEW split \in Splits
  PROVE  UniqueCrashBonusUnits(pool, split) \in 0..pool
  BY OpsAssumption DEF UniqueCrashBonusUnits, CrashBonusCap

\* The platform's 5% is part of the slice it is taken from.
LEMMA BountyFeeBound ==
  ASSUME NEW slice \in Nat
  PROVE  BountyFeeUnits(slice) \in 0..slice
  BY DEF BountyFeeUnits

----------------------------------------------------------------------------
(* Rows.                                                                    *)

\* A new row is well-formed and holds its whole budget.
LEMMA OpenedRowGood ==
  ASSUME NEW total \in Nat, NEW runs \in Nat, NEW split \in Splits,
         SplitOK(total, runs, split),
         NEW fee \in [asset : FeeAssets, burn : Nat, platform : Nat, sup : Nat],
         fee.asset = "none" => fee = NoFee,
         fee.asset # "SUP" => fee.sup = 0
  PROVE  LET n == OpenedRow(total, runs, split, fee)
         IN /\ GoodRow(n) /\ n.status = "open" /\ n.fee = fee
            /\ LockedUnits(n) = total
            /\ Cost(n) = FeeHMCUnits(fee) + total
<1> DEFINE n == OpenedRow(total, runs, split, fee)
           pool == RunsPoolUnits(total, split)
<1>1. pool \in 0..total BY RunsPoolBound
<1>2. runs \in Nat \ {0} BY OpsAssumption DEF SplitOK
<1>3. pool \div runs \in Nat BY <1>1, <1>2
<1>4. n = [budget |-> total, runsPool |-> pool, bountyPool |-> total - pool,
           perRun |-> pool \div runs, runsPaid |-> 0, bountyPaid |-> 0,
           crashBonus |-> 0, refundedBounty |-> 0, runsDone |-> 0,
           winner |-> NoOne, status |-> "open", split |-> split, fee |-> fee]
  BY DEF OpenedRow
<1> HIDE DEF n, pool
<1>5. n \in Row BY <1>1, <1>3, <1>4 DEF Row
<1>6. PoolsOK(n) /\ RowShapeOK(n) BY <1>1, <1>4 DEF PoolsOK, RowShapeOK
<1>7. LockedUnits(n) = total
  BY <1>1, <1>4 DEF LockedUnits, Live, RunsLeftUnits, BountyLeftUnits
<1>8. FeeHMCUnits(fee) \in Nat BY DEF FeeHMCUnits
<1>9. Cost(n) = FeeHMCUnits(fee) + total BY <1>1, <1>4, <1>7, <1>8 DEF Cost
<1> QED BY <1>4, <1>5, <1>6, <1>7, <1>9 DEF GoodRow, n

\* What a row holds is a natural number, and never more than its budget.
LEMMA LockedType ==
  ASSUME NEW r, GoodRow(r)
  PROVE  /\ LockedUnits(r) \in Nat
         /\ RunsLeftUnits(r) \in Nat
         /\ BountyLeftUnits(r) \in Nat
         /\ BountyLeftUnits(r) = r.bountyPool - r.bountyPaid - r.crashBonus - r.refundedBounty
         /\ FeeHMCUnits(r.fee) \in Nat
  BY DEF GoodRow, Row, PoolsOK, LockedUnits, Live, RunsLeftUnits,
         BountyLeftUnits, FeeHMCUnits

\* The columns two rows may differ in when a settle changes one of them.
SameTerms(n, r) ==
  /\ n.budget = r.budget /\ n.runsPool = r.runsPool /\ n.bountyPool = r.bountyPool
  /\ n.perRun = r.perRun /\ n.split = r.split /\ n.fee = r.fee

\* RunRow changes runs_paid_units and runs_done only.
LEMMA RunRowFields ==
  ASSUME NEW r \in Row, NEW kind, RunPayUnits(r, kind) \in Nat
  PROVE  LET n == RunRow(r, kind) IN
         /\ n \in Row /\ SameTerms(n, r)
         /\ n.runsPaid = r.runsPaid + RunPayUnits(r, kind)
         /\ n.bountyPaid = r.bountyPaid /\ n.crashBonus = r.crashBonus
         /\ n.refundedBounty = r.refundedBounty
         /\ n.winner = r.winner /\ n.status = r.status
<1> DEFINE x == r.runsPaid + RunPayUnits(r, kind)
           y == r.runsDone + 1
           k == [r EXCEPT !.runsPaid = x]
           n == [k EXCEPT !.runsDone = y]
<1>1. x \in Nat /\ y \in Nat BY DEF Row
<1>2. n = RunRow(r, kind) BY Zenon DEF RunRow
<1> HIDE DEF x, y
<1>3. k \in Row /\ k.runsPaid = x /\ k.runsDone = r.runsDone /\ SameTerms(k, r)
      /\ k.bountyPaid = r.bountyPaid /\ k.crashBonus = r.crashBonus
      /\ k.refundedBounty = r.refundedBounty
      /\ k.winner = r.winner /\ k.status = r.status
  BY <1>1 DEF Row, SameTerms
<1> HIDE DEF k
<1>4. n \in Row /\ n.runsPaid = k.runsPaid /\ SameTerms(n, k)
      /\ n.bountyPaid = k.bountyPaid /\ n.crashBonus = k.crashBonus
      /\ n.refundedBounty = k.refundedBounty
      /\ n.winner = k.winner /\ n.status = k.status
  BY <1>1, <1>3 DEF Row, SameTerms
<1> HIDE DEF n
<1>5. SameTerms(n, r) BY <1>3, <1>4, Zenon DEF SameTerms
<1> QED BY <1>2, <1>3, <1>4, <1>5, Zenon DEF x

\* CrashRow changes crash_bonus_paid_units only.
LEMMA CrashRowFields ==
  ASSUME NEW r \in Row
  PROVE  LET n == CrashRow(r)
             bonus == UniqueCrashBonusUnits(r.bountyPool, r.split)
         IN /\ n \in Row /\ SameTerms(n, r)
            /\ n.crashBonus = bonus
            /\ n.runsPaid = r.runsPaid /\ n.bountyPaid = r.bountyPaid
            /\ n.refundedBounty = r.refundedBounty
            /\ n.winner = r.winner /\ n.status = r.status
<1> DEFINE bonus == UniqueCrashBonusUnits(r.bountyPool, r.split)
           n == [r EXCEPT !.crashBonus = bonus]
<1>1. bonus \in Nat
  <2>1. r.bountyPool \in Nat /\ r.split \in Splits BY DEF Row
  <2> QED BY <2>1, CrashBonusBound
<1>2. n = CrashRow(r) BY Zenon DEF CrashRow
<1> HIDE DEF bonus
<1>3. /\ n \in Row /\ SameTerms(n, r)
      /\ n.crashBonus = bonus
      /\ n.runsPaid = r.runsPaid /\ n.bountyPaid = r.bountyPaid
      /\ n.refundedBounty = r.refundedBounty
      /\ n.winner = r.winner /\ n.status = r.status
  BY <1>1 DEF Row, SameTerms
<1> QED BY <1>2, <1>3, Zenon DEF bonus

\* BountyRow changes bounty_paid_units, finding_winner and status.
LEMMA BountyRowFields ==
  ASSUME NEW r \in Row, NEW sev, NEW m \in Addr, BountySliceUnits(r, sev) \in Nat
  PROVE  LET n == BountyRow(r, sev, m)
         IN /\ n \in Row /\ SameTerms(n, r)
            /\ n.bountyPaid = BountySliceUnits(r, sev)
            /\ n.winner = m /\ n.status = "bounty_paid"
            /\ n.runsPaid = r.runsPaid /\ n.crashBonus = r.crashBonus
            /\ n.refundedBounty = r.refundedBounty
<1> DEFINE x == BountySliceUnits(r, sev)
           k == [r EXCEPT !.bountyPaid = x]
           l == [k EXCEPT !.winner = m]
           n == [l EXCEPT !.status = "bounty_paid"]
<1>1. x \in Nat OBVIOUS
<1>2. n = BountyRow(r, sev, m) BY Zenon DEF BountyRow
<1> HIDE DEF x
<1>3. /\ k \in Row /\ SameTerms(k, r) /\ k.bountyPaid = x
      /\ k.runsPaid = r.runsPaid /\ k.crashBonus = r.crashBonus
      /\ k.refundedBounty = r.refundedBounty
  BY <1>1 DEF Row, SameTerms
<1> HIDE DEF k
<1>4. /\ l \in Row /\ SameTerms(l, k) /\ l.bountyPaid = k.bountyPaid
      /\ l.runsPaid = k.runsPaid /\ l.crashBonus = k.crashBonus
      /\ l.refundedBounty = k.refundedBounty /\ l.winner = m
  BY <1>3 DEF Row, SameTerms
<1> HIDE DEF l
<1>5. /\ n \in Row /\ SameTerms(n, l) /\ n.bountyPaid = l.bountyPaid
      /\ n.runsPaid = l.runsPaid /\ n.crashBonus = l.crashBonus
      /\ n.refundedBounty = l.refundedBounty /\ n.winner = l.winner
      /\ n.status = "bounty_paid"
  BY <1>4 DEF Row, SameTerms
<1> HIDE DEF n
<1>6. SameTerms(n, r) BY <1>3, <1>4, <1>5, Zenon DEF SameTerms
<1> QED BY <1>2, <1>3, <1>4, <1>5, <1>6, Zenon DEF x

\* Closing a live row moves what is left of the bounty to the refund column.
LEMMA ClosedRowFields ==
  ASSUME NEW r \in Row, r.status # "closed", BountyLeftUnits(r) \in Nat
  PROVE  LET n == ClosedRow(r)
         IN /\ n \in Row /\ SameTerms(n, r) /\ n.status = "closed"
            /\ n.refundedBounty = r.refundedBounty + BountyLeftUnits(r)
            /\ n.runsPaid = r.runsPaid /\ n.bountyPaid = r.bountyPaid
            /\ n.crashBonus = r.crashBonus /\ n.winner = r.winner
<1> DEFINE x == r.refundedBounty + BountyLeftUnits(r)
           k == [r EXCEPT !.status = "closed"]
           n == [k EXCEPT !.refundedBounty = x]
<1>1. x \in Nat BY DEF Row
<1>2. n = ClosedRow(r)
  <2>1. k.refundedBounty = r.refundedBounty BY DEF Row
  <2>2. ClosedRow(r) = [k EXCEPT !.refundedBounty = k.refundedBounty + BountyLeftUnits(r)]
    BY Zenon DEF ClosedRow
  <2> QED BY <2>1, <2>2, Zenon
<1> HIDE DEF x
<1>3. /\ k \in Row /\ SameTerms(k, r) /\ k.status = "closed"
      /\ k.runsPaid = r.runsPaid /\ k.bountyPaid = r.bountyPaid
      /\ k.crashBonus = r.crashBonus /\ k.winner = r.winner
  BY DEF Row, SameTerms
<1> HIDE DEF k
<1>4. /\ n \in Row /\ SameTerms(n, k) /\ n.status = k.status
      /\ n.refundedBounty = x
      /\ n.runsPaid = k.runsPaid /\ n.bountyPaid = k.bountyPaid
      /\ n.crashBonus = k.crashBonus /\ n.winner = k.winner
  BY <1>1, <1>3 DEF Row, SameTerms
<1> HIDE DEF n
<1>5. SameTerms(n, r) BY <1>3, <1>4, Zenon DEF SameTerms
<1> QED BY <1>2, <1>3, <1>4, <1>5, Zenon DEF x

\* A run pays at most what is left of the run pool; the row's cost is unchanged.
LEMMA RunRowGood ==
  ASSUME NEW r, GoodRow(r), NEW kind, RunErr(r, kind) = "ok"
  PROVE  LET n == RunRow(r, kind)
         IN /\ GoodRow(n) /\ n.winner = r.winner /\ n.bountyPaid = r.bountyPaid
            /\ RunPayUnits(r, kind) \in Nat
            /\ LockedUnits(n) = LockedUnits(r) - RunPayUnits(r, kind)
            /\ Cost(n) = Cost(r) /\ n.fee = r.fee
<1> DEFINE n == RunRow(r, kind)
           pay == RunPayUnits(r, kind)
<1>1. r \in Row /\ PoolsOK(r) /\ RowShapeOK(r) BY DEF GoodRow
<1>2. RunRate(r, kind) \in Nat
  <2>1. r.perRun \in Nat /\ FloorPayBPS \in Nat BY <1>1, OpsAssumption, SMT DEF Row
  <2>2. (r.perRun * FloorPayBPS) \div 10000 \in Nat BY <2>1, SMT
  <2> QED BY <2>1, <2>2, SMT DEF RunRate
<1>3. pay \in Nat /\ r.runsPaid + pay <= r.runsPool
  BY <1>1, <1>2 DEF RunPayUnits, RunsLeftUnits, PoolsOK, Row
<1>4. Live(r) BY DEF RunErr
<1>5. /\ n \in Row /\ SameTerms(n, r) /\ n.runsPaid = r.runsPaid + pay
      /\ n.bountyPaid = r.bountyPaid /\ n.crashBonus = r.crashBonus
      /\ n.refundedBounty = r.refundedBounty
      /\ n.winner = r.winner /\ n.status = r.status
  BY <1>1, <1>3, RunRowFields
<1> HIDE DEF n, pay
<1>6. PoolsOK(n) BY <1>1, <1>3, <1>5 DEF PoolsOK, Row, SameTerms
<1>7. RowShapeOK(n) BY <1>1, <1>4, <1>5 DEF RowShapeOK, Live, SameTerms
<1>8. LockedUnits(n) = LockedUnits(r) - pay
  BY <1>1, <1>3, <1>4, <1>5
  DEF LockedUnits, Live, RunsLeftUnits, BountyLeftUnits, Row, SameTerms
<1>9. LockedUnits(r) \in Nat /\ FeeHMCUnits(r.fee) \in Nat BY LockedType
<1>10. Cost(n) = Cost(r) /\ n.fee = r.fee
  BY <1>1, <1>3, <1>5, <1>8, <1>9 DEF Cost, Row, SameTerms
<1> QED BY <1>3, <1>5, <1>6, <1>7, <1>8, <1>10 DEF GoodRow, n, pay

\* A crash bonus comes out of what the bounty left; the row's cost is unchanged.
LEMMA CrashRowGood ==
  ASSUME NEW r, GoodRow(r), CrashErr(r) = "ok"
  PROVE  LET n == CrashRow(r)
             bonus == UniqueCrashBonusUnits(r.bountyPool, r.split)
         IN /\ GoodRow(n) /\ n.winner = r.winner /\ n.bountyPaid = r.bountyPaid
            /\ bonus \in Nat
            /\ LockedUnits(n) = LockedUnits(r) - bonus
            /\ Cost(n) = Cost(r) /\ n.fee = r.fee
<1> DEFINE n == CrashRow(r)
           bonus == UniqueCrashBonusUnits(r.bountyPool, r.split)
<1>1. r \in Row /\ PoolsOK(r) /\ RowShapeOK(r) BY DEF GoodRow
<1>2. bonus \in Nat
  <2>1. r.bountyPool \in Nat /\ r.split \in Splits BY <1>1 DEF Row
  <2> QED BY <2>1, CrashBonusBound
<1>3. /\ Live(r) /\ ~(r.crashBonus > 0) /\ ~(r.refundedBounty > 0)
      /\ ~(bonus > r.bountyPool - r.bountyPaid)
  BY DEF CrashErr
<1>4. /\ n \in Row /\ SameTerms(n, r) /\ n.crashBonus = bonus
      /\ n.runsPaid = r.runsPaid /\ n.bountyPaid = r.bountyPaid
      /\ n.refundedBounty = r.refundedBounty
      /\ n.winner = r.winner /\ n.status = r.status
  BY <1>1, CrashRowFields
<1> HIDE DEF n, bonus
<1>5. r.crashBonus = 0 /\ r.refundedBounty = 0 /\ r.bountyPaid + bonus <= r.bountyPool
  BY <1>1, <1>2, <1>3 DEF Row
<1>6. PoolsOK(n) BY <1>1, <1>2, <1>4, <1>5 DEF PoolsOK, Row, SameTerms
<1>7. RowShapeOK(n) BY <1>1, <1>3, <1>4 DEF RowShapeOK, Live, SameTerms
<1>8. LockedUnits(n) = LockedUnits(r) - bonus
  BY <1>1, <1>2, <1>3, <1>4, <1>5
  DEF LockedUnits, Live, RunsLeftUnits, BountyLeftUnits, Row, SameTerms
<1>9. LockedUnits(r) \in Nat /\ FeeHMCUnits(r.fee) \in Nat BY LockedType
<1>10. Cost(n) = Cost(r) /\ n.fee = r.fee
  BY <1>1, <1>2, <1>4, <1>5, <1>8, <1>9 DEF Cost, Row, SameTerms
<1> QED BY <1>2, <1>4, <1>6, <1>7, <1>8, <1>10 DEF GoodRow, n, bonus

\* A bounty is paid from an untouched bounty pool, out of what the crash bonus
\* left; the row's cost is unchanged.
LEMMA BountyRowGood ==
  ASSUME NEW r, GoodRow(r), NEW sev, NEW m \in Addr, BountyErr(r, sev) = "ok"
  PROVE  LET n == BountyRow(r, sev, m)
             slice == BountySliceUnits(r, sev)
         IN /\ GoodRow(n) /\ r.winner = NoOne
            /\ slice \in Nat
            /\ LockedUnits(n) = LockedUnits(r) - slice
            /\ Cost(n) = Cost(r) /\ n.fee = r.fee
<1> DEFINE n == BountyRow(r, sev, m)
           slice == BountySliceUnits(r, sev)
<1>1. r \in Row /\ PoolsOK(r) /\ RowShapeOK(r) BY DEF GoodRow
<1>2. /\ r.status = "open" /\ r.winner = NoOne
      /\ ~(r.bountyPaid > 0) /\ ~(r.refundedBounty > 0)
      /\ ~(r.bountyPool <= r.crashBonus)
  BY DEF BountyErr
<1>3. /\ r.bountyPaid = 0 /\ r.refundedBounty = 0
      /\ r.bountyPool - r.crashBonus \in Nat
  BY <1>1, <1>2 DEF Row
<1>4. slice \in 0..(r.bountyPool - r.crashBonus)
  BY <1>3 DEF BountySliceUnits, BountyTenths
<1>5. /\ n \in Row /\ SameTerms(n, r) /\ n.bountyPaid = slice
      /\ n.winner = m /\ n.status = "bounty_paid"
      /\ n.runsPaid = r.runsPaid /\ n.crashBonus = r.crashBonus
      /\ n.refundedBounty = r.refundedBounty
  <2>1. slice \in Nat BY <1>3, <1>4
  <2> QED BY <1>1, <2>1, BountyRowFields
<1>12. slice > 0
  <2>1. CASE r.split = "50_50"
    <3>1. ~(slice < MinPerRunUnits) BY <2>1 DEF BountyErr
    <3> HIDE DEF slice
    <3> QED BY <1>3, <1>4, <3>1, OpsAssumption, SMT
  <2>2. CASE r.split # "50_50"
    <3>1. slice = ((r.bountyPool - r.crashBonus) * 10) \div 10
      BY <2>2 DEF BountySliceUnits, BountyTenths
    <3>2. r.bountyPool - r.crashBonus > 0 BY <1>1, <1>2, <1>3 DEF Row
    <3> HIDE DEF slice
    <3> QED BY <1>3, <3>1, <3>2
  <2> QED BY <2>1, <2>2
<1> HIDE DEF n, slice
<1>6. PoolsOK(n) BY <1>1, <1>3, <1>4, <1>5 DEF PoolsOK, Row, SameTerms
<1>7. RowShapeOK(n) BY <1>1, <1>5, <1>12 DEF RowShapeOK, SameTerms
<1>8. LockedUnits(n) = LockedUnits(r) - slice
  BY <1>1, <1>2, <1>3, <1>4, <1>5
  DEF LockedUnits, Live, RunsLeftUnits, BountyLeftUnits, Row, SameTerms
<1>9. LockedUnits(r) \in Nat /\ FeeHMCUnits(r.fee) \in Nat BY LockedType
<1>10. Cost(n) = Cost(r) /\ n.fee = r.fee
  BY <1>1, <1>3, <1>4, <1>5, <1>8, <1>9 DEF Cost, Row, SameTerms
<1>11. slice \in Nat BY <1>3, <1>4
<1> QED BY <1>2, <1>6, <1>5, <1>7, <1>8, <1>10, <1>11 DEF GoodRow, n, slice

\* Closing refunds exactly what the row holds; closing twice refunds nothing.
LEMMA ClosedRowGood ==
  ASSUME NEW r, GoodRow(r), r.status # "none"
  PROVE  LET n == ClosedRow(r)
         IN /\ GoodRow(n) /\ n.winner = r.winner /\ n.bountyPaid = r.bountyPaid
            /\ RefundUnits(r) \in Nat
            /\ LockedUnits(n) = LockedUnits(r) - RefundUnits(r)
            /\ Cost(n) = Cost(r) - RefundUnits(r) /\ n.fee = r.fee
<1> DEFINE n == ClosedRow(r)
<1>1. r \in Row /\ PoolsOK(r) /\ RowShapeOK(r) BY DEF GoodRow
<1>2. /\ LockedUnits(r) \in Nat /\ FeeHMCUnits(r.fee) \in Nat
      /\ RunsLeftUnits(r) \in Nat /\ BountyLeftUnits(r) \in Nat
      /\ BountyLeftUnits(r) = r.bountyPool - r.bountyPaid - r.crashBonus - r.refundedBounty
  BY LockedType
<1>3. CASE r.status = "closed"
  <2>1. n = r BY <1>3 DEF ClosedRow
  <2>2. RefundUnits(r) = 0 BY <1>3 DEF RefundUnits
  <2>3. Cost(r) \in Int BY <1>1, <1>2 DEF Cost, Row
  <2> HIDE DEF n
  <2> QED BY <1>2, <2>1, <2>2, <2>3 DEF n
<1>4. CASE r.status # "closed"
  <2>1. /\ n \in Row /\ SameTerms(n, r) /\ n.status = "closed"
        /\ n.refundedBounty = r.refundedBounty + BountyLeftUnits(r)
        /\ n.runsPaid = r.runsPaid /\ n.bountyPaid = r.bountyPaid
        /\ n.crashBonus = r.crashBonus /\ n.winner = r.winner
    BY <1>1, <1>2, <1>4, ClosedRowFields
  <2>2. RefundUnits(r) = LockedUnits(r)
    BY <1>1, <1>4 DEF RefundUnits, LockedUnits, Live, Row
  <2> HIDE DEF n
  <2>3. LockedUnits(n) = 0 BY <2>1 DEF LockedUnits, Live
  <2>4. PoolsOK(n) BY <1>1, <1>2, <2>1 DEF PoolsOK, Row, SameTerms
  <2>5. RowShapeOK(n) BY <1>1, <1>2, <2>1 DEF RowShapeOK, Row, SameTerms
  <2>6. Cost(n) = Cost(r) - RefundUnits(r) /\ n.fee = r.fee
    BY <1>1, <1>2, <2>1, <2>2, <2>3 DEF Cost, Row, SameTerms
  <2> QED BY <1>2, <2>1, <2>2, <2>3, <2>4, <2>5, <2>6 DEF GoodRow, n
<1> QED BY <1>3, <1>4

----------------------------------------------------------------------------
(* The parts of the inductive invariant, by the state they speak about.     *)

RowPart ==
  /\ escrow \in [Campaigns -> Row]
  /\ spent \in [Campaigns -> [hmc : Int, sup : Int]]
  /\ \A c \in Campaigns : /\ GoodRow(escrow[c])
                          /\ spent[c].hmc = Cost(escrow[c])
                          /\ spent[c].sup = escrow[c].fee.sup

LedgerPart ==
  accounts \in [Addr -> Nat] /\ wallet \in Nat /\ wallet = accounts[WalletAddr]

CounterPart ==
  /\ burned \in Nat /\ sup \in Nat /\ supBurned \in Nat
  /\ supPaid \subseteq Campaigns /\ applied \subseteq Events /\ v2 \in BOOLEAN

\* IInv is the conjunction of its parts.
LEMMA IInvParts == IInv <=> RowPart /\ LedgerPart /\ CounterPart
  BY DEF IInv, TypeOK, WalletMirrorsAccount, PoolsNotOverdrawn, RowShape,
         PayerPaysForDelivery, RowPart, LedgerPart, CounterPart, GoodRow, Cost

\* The same in the next state.
LEMMA IInvPartsPrime == IInv' <=> RowPart' /\ LedgerPart' /\ CounterPart'
  BY DEF IInv, TypeOK, WalletMirrorsAccount, PoolsNotOverdrawn, RowShape,
         PayerPaysForDelivery, RowPart, LedgerPart, CounterPart, GoodRow, Cost

\* Replacing one row by a well-formed one whose cost the payer has spent keeps
\* the row part.
LEMMA RowStep ==
  ASSUME RowPart, NEW c \in Campaigns, NEW n, GoodRow(n),
         escrow' = [escrow EXCEPT ![c] = n],
         spent' \in [Campaigns -> [hmc : Int, sup : Int]],
         \A d \in Campaigns \ {c} : spent'[d] = spent[d],
         spent'[c].hmc = Cost(n), spent'[c].sup = n.fee.sup
  PROVE  RowPart' /\ escrow'[c] = n /\ \A d \in Campaigns \ {c} : escrow'[d] = escrow[d]
<1>1. escrow' \in [Campaigns -> Row] BY DEF RowPart, GoodRow
<1>2. escrow'[c] = n /\ \A d \in Campaigns \ {c} : escrow'[d] = escrow[d]
  BY DEF RowPart
<1>3. ASSUME NEW d \in Campaigns
      PROVE  /\ GoodRow(escrow'[d]) /\ spent'[d].hmc = Cost(escrow'[d])
             /\ spent'[d].sup = escrow'[d].fee.sup
  <2>1. CASE d = c BY <1>2, <2>1
  <2>2. CASE d # c BY <1>2, <2>2 DEF RowPart
  <2> QED BY <2>1, <2>2
<1>4. RowPart' BY <1>1, <1>3 DEF RowPart, GoodRow, Cost
<1> QED BY <1>2, <1>4

\* A payment that leaves the row's cost alone needs no refund.
LEMMA PayStep ==
  ASSUME RowPart, NEW c \in Campaigns, NEW n, GoodRow(n),
         escrow' = [escrow EXCEPT ![c] = n], spent' = spent,
         Cost(n) = Cost(escrow[c]), n.fee = escrow[c].fee
  PROVE  RowPart' /\ escrow'[c] = n /\ \A d \in Campaigns \ {c} : escrow'[d] = escrow[d]
<1>1. /\ spent' \in [Campaigns -> [hmc : Int, sup : Int]]
      /\ spent'[c].hmc = Cost(n) /\ spent'[c].sup = n.fee.sup
  BY DEF RowPart
<1> QED BY <1>1, RowStep

\* creditUnits keeps balances natural, and a credit of nothing changes nothing.
LEMMA CreditType ==
  ASSUME NEW acc \in [Addr -> Nat], NEW m \in Addr, NEW u \in Nat
  PROVE  Credit(acc, m, u) \in [Addr -> Nat] /\ Credit(acc, m, 0) = acc
  BY DEF Credit

\* The initial state.
LEMMA InitIInv == Init => IInv
<1> SUFFICES ASSUME Init PROVE IInv OBVIOUS
<1>1. NoFee \in [asset : FeeAssets, burn : Nat, platform : Nat, sup : Nat] BY DEF NoFee
<1>2. NoRow \in Row BY <1>1 DEF NoRow, Row
<1>3. GoodRow(NoRow) /\ Cost(NoRow) = 0 /\ NoRow.fee.sup = 0
  BY <1>2 DEF GoodRow, PoolsOK, RowShapeOK, Cost, FeeHMCUnits, LockedUnits, Live, NoRow, NoFee
<1>4. RowPart BY <1>2, <1>3 DEF Init, RowPart
<1>5. LedgerPart BY EscrowAssumption DEF Init, LedgerPart
<1>6. CounterPart BY EscrowAssumption DEF Init, CounterPart
<1> QED BY <1>4, <1>5, <1>6, IInvParts

----------------------------------------------------------------------------
(* One lemma per operation.                                                 *)

\* What each step must satisfy.
GoodStep == IInv' /\ StepConserves /\ BountyKept

\* A step that changes one row and credits miner and platform accounts with
\* exactly what the row releases is good.
LEMMA SettlePays ==
  ASSUME IInv, NEW c \in Campaigns, NEW n, GoodRow(n),
         escrow' = [escrow EXCEPT ![c] = n], spent' = spent,
         Cost(n) = Cost(escrow[c]), n.fee = escrow[c].fee,
         escrow[c].winner # NoOne => /\ n.winner = escrow[c].winner
                                     /\ n.bountyPaid = escrow[c].bountyPaid,
         NEW m \in Addr, NEW u \in Nat, NEW f \in Nat,
         accounts' = Credit(Credit(accounts, m, u), DevFeeAddress, f),
         wallet' = wallet + WalletShare(m, u) + WalletShare(DevFeeAddress, f),
         LockedUnits(n) = LockedUnits(escrow[c]) - (u + f),
         burned' = burned, CounterPart'
  PROVE  GoodStep
<1>1. RowPart /\ LedgerPart /\ CounterPart BY IInvParts
<1>2. RowPart' /\ escrow'[c] = n /\ \A d \in Campaigns \ {c} : escrow'[d] = escrow[d]
  BY <1>1, PayStep
<1>3. LedgerPart'
  BY <1>1, EscrowAssumption DEF LedgerPart, Credit, WalletShare
<1>4. LockedUnits(escrow[c]) \in Nat BY <1>1, LockedType DEF RowPart
<1>5. \A a \in Addr \ {WalletAddr, DevFeeAddress, m} : accounts'[a] = accounts[a]
  BY <1>1, EscrowAssumption DEF LedgerPart, Credit
<1>6. MovedUnits(m, m) = u + f
  BY <1>1, EscrowAssumption DEF LedgerPart, Credit, MovedUnits, Gained
<1>7. MovedUnits(m, m) + (LockedUnits(escrow'[c]) - LockedUnits(escrow[c]))
        + (burned' - burned) = 0
  <2> HIDE DEF LedgerPart
  <2> QED BY <1>1, <1>2, <1>4, <1>6 DEF CounterPart
<1>8. StepConserves BY <1>2, <1>5, <1>7 DEF StepConserves
<1>9. BountyKept BY <1>2 DEF BountyKept
<1> QED BY <1>1, <1>2, <1>3, <1>8, <1>9, IInvPartsPrime DEF GoodStep

\* A full run or a floor slice.
LEMMA PayRunGood ==
  ASSUME IInv, NEW c \in Campaigns, NEW kind, NEW m \in Addr, PayRun(c, kind, m),
         burned' = burned, CounterPart'
  PROVE  GoodStep
<1> DEFINE r == escrow[c]
           n == RunRow(r, kind)
           u == RunPayUnits(r, kind)
<1>1. GoodRow(r) /\ accounts \in [Addr -> Nat] /\ wallet \in Nat
  BY IInvParts DEF RowPart, LedgerPart
<1>2. RunErr(r, kind) = "ok" BY DEF PayRun
<1>3. /\ GoodRow(n) /\ n.winner = r.winner /\ n.bountyPaid = r.bountyPaid
      /\ u \in Nat /\ LockedUnits(n) = LockedUnits(r) - u
      /\ Cost(n) = Cost(r) /\ n.fee = r.fee
  BY <1>1, <1>2, RunRowGood
<1>4. LockedUnits(r) \in Nat BY <1>1, LockedType
<1>5. /\ escrow' = [escrow EXCEPT ![c] = n] /\ spent' = spent
      /\ accounts' = Credit(accounts, m, u) /\ wallet' = wallet + WalletShare(m, u)
  BY Zenon DEF PayRun
<1> HIDE DEF n, u
<1>6. accounts' = Credit(Credit(accounts, m, u), DevFeeAddress, 0)
  <2>1. Credit(accounts, m, u) \in [Addr -> Nat] BY <1>1, <1>3, CreditType
  <2>2. Credit(Credit(accounts, m, u), DevFeeAddress, 0) = Credit(accounts, m, u)
    BY <2>1, EscrowAssumption, CreditType
  <2> QED BY <1>5, <2>2
<1>7. wallet' = wallet + WalletShare(m, u) + WalletShare(DevFeeAddress, 0)
  BY <1>1, <1>3, <1>5 DEF WalletShare
<1>8. LockedUnits(n) = LockedUnits(r) - (u + 0) BY <1>3, <1>4
<1> QED BY <1>3, <1>5, <1>6, <1>7, <1>8, SettlePays

\* The one-shot crash bonus.
LEMMA PayCrashBonusGood ==
  ASSUME IInv, NEW c \in Campaigns, NEW m \in Addr, PayCrashBonus(c, m),
         burned' = burned, CounterPart'
  PROVE  GoodStep
<1> DEFINE r == escrow[c]
           n == CrashRow(r)
           u == UniqueCrashBonusUnits(r.bountyPool, r.split)
<1>1. GoodRow(r) /\ accounts \in [Addr -> Nat] /\ wallet \in Nat
  BY IInvParts DEF RowPart, LedgerPart
<1>2. CrashErr(r) = "ok" BY DEF PayCrashBonus
<1>3. /\ GoodRow(n) /\ n.winner = r.winner /\ n.bountyPaid = r.bountyPaid
      /\ u \in Nat /\ LockedUnits(n) = LockedUnits(r) - u
      /\ Cost(n) = Cost(r) /\ n.fee = r.fee
  BY <1>1, <1>2, CrashRowGood
<1>4. LockedUnits(r) \in Nat BY <1>1, LockedType
<1>5. /\ escrow' = [escrow EXCEPT ![c] = n] /\ spent' = spent
      /\ accounts' = Credit(accounts, m, u) /\ wallet' = wallet + WalletShare(m, u)
  BY Zenon DEF PayCrashBonus
<1> HIDE DEF n, u
<1>6. accounts' = Credit(Credit(accounts, m, u), DevFeeAddress, 0)
  <2>1. Credit(accounts, m, u) \in [Addr -> Nat] BY <1>1, <1>3, CreditType
  <2>2. Credit(Credit(accounts, m, u), DevFeeAddress, 0) = Credit(accounts, m, u)
    BY <2>1, EscrowAssumption, CreditType
  <2> QED BY <1>5, <2>2
<1>7. wallet' = wallet + WalletShare(m, u) + WalletShare(DevFeeAddress, 0)
  BY <1>1, <1>3, <1>5 DEF WalletShare
<1>8. LockedUnits(n) = LockedUnits(r) - (u + 0) BY <1>3, <1>4
<1> QED BY <1>3, <1>5, <1>6, <1>7, <1>8, SettlePays

\* The bounty, shared by the finder and the platform.
LEMMA PayBountyGood ==
  ASSUME IInv, NEW c \in Campaigns, NEW sev, NEW m \in Addr, PayBounty(c, sev, m),
         burned' = burned, CounterPart'
  PROVE  GoodStep
<1> DEFINE r == escrow[c]
           n == BountyRow(r, sev, m)
           slice == BountySliceUnits(r, sev)
           f == BountyFeeUnits(slice)
           u == slice - f
<1>1. GoodRow(r) BY IInvParts DEF RowPart
<1>2. BountyErr(r, sev) = "ok" BY DEF PayBounty
<1>3. /\ GoodRow(n) /\ r.winner = NoOne /\ slice \in Nat
      /\ LockedUnits(n) = LockedUnits(r) - slice
      /\ Cost(n) = Cost(r) /\ n.fee = r.fee
  BY <1>1, <1>2, BountyRowGood
<1>4. f \in 0..slice BY <1>3, BountyFeeBound
<1>5. /\ escrow' = [escrow EXCEPT ![c] = n] /\ spent' = spent
      /\ accounts' = Credit(Credit(accounts, m, u), DevFeeAddress, f)
      /\ wallet' = wallet + WalletShare(m, u) + WalletShare(DevFeeAddress, f)
  BY Zenon DEF PayBounty
<1> HIDE DEF n, slice, f
<1>6. u \in Nat /\ f \in Nat /\ LockedUnits(n) = LockedUnits(r) - (u + f)
  BY <1>3, <1>4
<1> HIDE DEF u
<1> QED BY <1>3, <1>5, <1>6, SettlePays

\* A step that changes one row, moves units between the payer and the row, and
\* books fee legs of the platform and the burn counter, is good when the payer's
\* spending follows the row's cost.
LEMMA PayerStep ==
  ASSUME IInv, NEW c \in Campaigns, NEW n, GoodRow(n),
         escrow' = [escrow EXCEPT ![c] = n],
         escrow[c].winner # NoOne => /\ n.winner = escrow[c].winner
                                     /\ n.bountyPaid = escrow[c].bountyPaid,
         NEW h \in Int, NEW t \in Int,
         spent' = [spent EXCEPT ![c] = [hmc |-> h, sup |-> t]],
         h = Cost(n), t = n.fee.sup,
         LedgerPart', CounterPart',
         \A a \in Addr \ {WalletAddr, DevFeeAddress} : accounts'[a] = accounts[a],
         MovedUnits(WalletAddr, WalletAddr) + (LockedUnits(n) - LockedUnits(escrow[c]))
           + (burned' - burned) = 0
  PROVE  GoodStep
<1>1. RowPart /\ LedgerPart /\ CounterPart BY IInvParts
<1>2. /\ spent' \in [Campaigns -> [hmc : Int, sup : Int]]
      /\ \A d \in Campaigns \ {c} : spent'[d] = spent[d]
      /\ spent'[c].hmc = h /\ spent'[c].sup = t
  BY <1>1 DEF RowPart
<1>3. RowPart' /\ escrow'[c] = n /\ \A d \in Campaigns \ {c} : escrow'[d] = escrow[d]
  BY <1>1, <1>2, RowStep
<1>4. StepConserves BY <1>3, EscrowAssumption DEF StepConserves
<1>5. BountyKept BY <1>3 DEF BountyKept
<1> QED BY <1>3, <1>4, <1>5, IInvPartsPrime DEF GoodStep

\* Finalize and cancel.
LEMMA CloseGood ==
  ASSUME IInv, NEW c \in Campaigns, Close(c), burned' = burned, CounterPart'
  PROVE  GoodStep
<1> DEFINE r == escrow[c]
           n == ClosedRow(r)
           u == RefundUnits(r)
           h == spent[c].hmc - u
           t == spent[c].sup
<1>1. RowPart /\ LedgerPart /\ CounterPart BY IInvParts
<1>2. GoodRow(r) /\ spent[c].hmc = Cost(r) /\ spent[c].sup = r.fee.sup
      /\ spent[c].hmc \in Int /\ spent[c].sup \in Int
  BY <1>1 DEF RowPart
<1>3. r.status # "none" BY DEF Close
<1>4. /\ GoodRow(n) /\ n.winner = r.winner /\ n.bountyPaid = r.bountyPaid
      /\ u \in Nat /\ LockedUnits(n) = LockedUnits(r) - u
      /\ Cost(n) = Cost(r) - u /\ n.fee = r.fee
  BY <1>2, <1>3, ClosedRowGood
<1>5. LockedUnits(r) \in Nat BY <1>2, LockedType
<1>6. /\ escrow' = [escrow EXCEPT ![c] = n]
      /\ accounts' = Credit(accounts, WalletAddr, u) /\ wallet' = wallet + u
      /\ spent' = [spent EXCEPT ![c] = [hmc |-> h, sup |-> t]]
  BY Zenon DEF Close
<1> HIDE DEF n, u
<1>7. LedgerPart' BY <1>1, <1>4, <1>6, EscrowAssumption DEF LedgerPart, Credit
<1>8. \A a \in Addr \ {WalletAddr, DevFeeAddress} : accounts'[a] = accounts[a]
  BY <1>1, <1>6, EscrowAssumption DEF LedgerPart, Credit
<1>9. MovedUnits(WalletAddr, WalletAddr) = u
  BY <1>1, <1>4, <1>6, EscrowAssumption DEF LedgerPart, Credit, MovedUnits, Gained
<1>10. MovedUnits(WalletAddr, WalletAddr) + (LockedUnits(n) - LockedUnits(r))
         + (burned' - burned) = 0
  BY <1>1, <1>4, <1>5, <1>9 DEF CounterPart
<1>11. h \in Int /\ t \in Int /\ h = Cost(n) /\ t = n.fee.sup
  BY <1>2, <1>4
<1> HIDE DEF h, t
<1> QED BY <1>4, <1>6, <1>7, <1>8, <1>10, <1>11, PayerStep

\* Reopening a closed escrow locks its unpaid runs again, and nothing else.
LEMMA ReopenGood ==
  ASSUME IInv, NEW c \in Campaigns, ReopenForSettleDrain(c)
  PROVE  GoodStep
<1> DEFINE r == escrow[c]
           n == [r EXCEPT !.status = "open"]
           u == RunsLeftUnits(r)
           h == spent[c].hmc + u
           t == spent[c].sup
<1>1. RowPart /\ LedgerPart /\ CounterPart BY IInvParts
<1>2. GoodRow(r) /\ spent[c].hmc = Cost(r) /\ spent[c].sup = r.fee.sup
      /\ spent[c].hmc \in Int /\ spent[c].sup \in Int
  BY <1>1 DEF RowPart
<1>3. r \in Row /\ PoolsOK(r) /\ RowShapeOK(r) BY <1>2 DEF GoodRow
<1>4. r.status = "closed" /\ wallet >= u /\ accounts[WalletAddr] >= u
  BY DEF ReopenForSettleDrain, CanDebitWallet
<1>5. /\ n \in Row /\ SameTerms(n, r) /\ n.status = "open"
      /\ n.runsPaid = r.runsPaid /\ n.bountyPaid = r.bountyPaid
      /\ n.crashBonus = r.crashBonus /\ n.refundedBounty = r.refundedBounty
      /\ n.winner = r.winner
  BY <1>3 DEF Row, SameTerms
<1>6. /\ escrow' = [escrow EXCEPT ![c] = n]
      /\ accounts' = Debit(accounts, WalletAddr, u) /\ wallet' = wallet - u
      /\ spent' = [spent EXCEPT ![c] = [hmc |-> h, sup |-> t]]
      /\ burned' = burned /\ sup' = sup /\ supBurned' = supBurned
      /\ supPaid' = supPaid /\ applied' = applied /\ v2' = v2
  BY Zenon DEF ReopenForSettleDrain
<1>7. u \in Nat /\ FeeHMCUnits(r.fee) \in Nat BY <1>2, LockedType
<1> HIDE DEF n
<1>8. PoolsOK(n) BY <1>3, <1>5 DEF PoolsOK, SameTerms
<1>9. RowShapeOK(n) BY <1>3, <1>5 DEF RowShapeOK, SameTerms
<1>10. LockedUnits(r) = 0 BY <1>4 DEF LockedUnits, Live
<1>11. LockedUnits(n) = u
  BY <1>3, <1>4, <1>5
  DEF LockedUnits, Live, RunsLeftUnits, BountyLeftUnits, Row, SameTerms, RowShapeOK, PoolsOK
<1>12. Cost(n) = Cost(r) + u /\ n.fee = r.fee
  BY <1>3, <1>5, <1>7, <1>10, <1>11 DEF Cost, Row, SameTerms
<1> HIDE DEF u
<1>13. GoodRow(n) BY <1>5, <1>8, <1>9 DEF GoodRow
<1>14. LedgerPart'
  BY <1>1, <1>4, <1>6, <1>7, EscrowAssumption DEF LedgerPart, Debit
<1>15. \A a \in Addr \ {WalletAddr, DevFeeAddress} : accounts'[a] = accounts[a]
  BY <1>1, <1>6, EscrowAssumption DEF LedgerPart, Debit
<1>16. MovedUnits(WalletAddr, WalletAddr) = 0 - u
  BY <1>1, <1>6, <1>7, EscrowAssumption DEF LedgerPart, Debit, MovedUnits, Gained
<1>17. MovedUnits(WalletAddr, WalletAddr) + (LockedUnits(n) - LockedUnits(r))
         + (burned' - burned) = 0
  BY <1>1, <1>6, <1>7, <1>10, <1>11, <1>16 DEF CounterPart
<1>18. h \in Int /\ t \in Int /\ h = Cost(n) /\ t = n.fee.sup
  BY <1>2, <1>7, <1>12
<1>19. CounterPart' BY <1>1, <1>6 DEF CounterPart
<1> HIDE DEF h, t
<1> QED BY <1>5, <1>6, <1>13, <1>14, <1>15, <1>17, <1>18, <1>19, PayerStep

\* Opening takes the price from the payer and splits it between the row, the
\* platform and the burn counter (or charges the fee in SUP).
LEMMA OpenGood ==
  ASSUME IInv, NEW c \in Campaigns, NEW price \in Prices, NEW runs \in RunBudgets,
         NEW split \in Splits, NEW asset \in {"HMC", "SUP"},
         Open(c, price, runs, split, asset)
  PROVE  GoodStep
<1> DEFINE r == escrow[c]
           fee == OpenFee(price, asset)
           total == OpenTotal(price, asset)
           debit == total + FeeHMCUnits(fee)
           platform == IF fee.asset = "HMC" THEN fee.platform ELSE 0
           burn == IF fee.asset = "HMC" THEN fee.burn ELSE 0
           n == OpenedRow(total, runs, split, fee)
           h == spent[c].hmc + debit
           t == spent[c].sup + fee.sup
<1>1. RowPart /\ LedgerPart /\ CounterPart BY IInvParts
<1>2. GoodRow(r) /\ spent[c].hmc = Cost(r) /\ spent[c].sup = r.fee.sup
  BY <1>1 DEF RowPart
<1>3. r = NoRow BY <1>2 DEF Open, GoodRow, RowShapeOK
<1>4. Cost(r) = 0 /\ r.fee.sup = 0 /\ LockedUnits(r) = 0 /\ r.winner = NoOne
  BY <1>3 DEF Cost, FeeHMCUnits, LockedUnits, Live, NoRow, NoFee
<1>5. price \in Nat /\ runs \in Nat BY EscrowAssumption
<1>6. /\ fee \in [asset : FeeAssets, burn : Nat, platform : Nat, sup : Nat]
      /\ fee.burn + fee.platform <= price
      /\ fee.asset = "none" => fee = NoFee
      /\ fee.asset # "SUP" => fee.sup = 0
  <2>1. CASE v2
    <3>1. fee = OrderFeeV2(price, asset) BY <2>1 DEF OpenFee
    <3> HIDE DEF fee
    <3> QED BY <1>5, <3>1, FeeBound
  <2>2. CASE ~v2
    <3>1. fee = NoFee BY <2>2 DEF OpenFee
    <3> HIDE DEF fee
    <3> QED BY <1>5, <3>1 DEF NoFee
  <2> QED BY <2>1, <2>2
<1>7. total = price - fee.burn - fee.platform BY DEF OpenTotal
<1>8. /\ SplitOK(total, runs, split) /\ wallet >= debit /\ accounts[WalletAddr] >= debit
      /\ SupFeeOK(c, fee)
      /\ escrow' = [escrow EXCEPT ![c] = n]
      /\ accounts' = Credit(Debit(accounts, WalletAddr, debit), DevFeeAddress, platform)
      /\ wallet' = wallet - debit + WalletShare(DevFeeAddress, platform)
      /\ burned' = burned + burn
      /\ sup' = sup - fee.sup /\ supBurned' = supBurned + fee.sup
      /\ supPaid' = IF fee.sup > 0 THEN supPaid \cup {c} ELSE supPaid
      /\ spent' = [spent EXCEPT ![c] = [hmc |-> h, sup |-> t]]
      /\ applied' = applied /\ v2' = v2
  BY Zenon DEF Open, CanDebitWallet
<1> HIDE DEF fee, total, n
<1>9. total \in Nat BY <1>5, <1>6, <1>7
<1>10. /\ GoodRow(n) /\ n.fee = fee /\ LockedUnits(n) = total
       /\ Cost(n) = FeeHMCUnits(fee) + total
  BY <1>5, <1>6, <1>8, <1>9, OpenedRowGood DEF n
<1>11. /\ platform \in Nat /\ burn \in Nat /\ fee.sup \in Nat
       /\ FeeHMCUnits(fee) = platform + burn
  BY <1>6 DEF FeeHMCUnits, NoFee
<1> HIDE DEF platform, burn
<1>12. debit \in Nat /\ debit = total + platform + burn BY <1>9, <1>11
<1> HIDE DEF debit
<1>13. LedgerPart'
  BY <1>1, <1>8, <1>11, <1>12, EscrowAssumption DEF LedgerPart, Credit, Debit, WalletShare
<1>14. \A a \in Addr \ {WalletAddr, DevFeeAddress} : accounts'[a] = accounts[a]
  BY <1>1, <1>8, EscrowAssumption DEF LedgerPart, Credit, Debit
<1>15. MovedUnits(WalletAddr, WalletAddr) = platform - debit
  BY <1>1, <1>8, <1>11, <1>12, EscrowAssumption
  DEF LedgerPart, Credit, Debit, MovedUnits, Gained
<1>16. MovedUnits(WalletAddr, WalletAddr) + (LockedUnits(n) - LockedUnits(r))
         + (burned' - burned) = 0
  BY <1>1, <1>4, <1>8, <1>9, <1>10, <1>11, <1>12, <1>15 DEF CounterPart
<1>17. CounterPart'
  <2>1. sup' \in Nat /\ supBurned' \in Nat /\ burned' \in Nat
    BY <1>1, <1>8, <1>11 DEF CounterPart, SupFeeOK
  <2>2. supPaid' \subseteq Campaigns BY <1>1, <1>8 DEF CounterPart
  <2> QED BY <1>1, <1>8, <2>1, <2>2 DEF CounterPart
<1>18. h \in Int /\ t \in Int /\ h = Cost(n) /\ t = n.fee.sup
  BY <1>2, <1>4, <1>9, <1>10, <1>11, <1>12
<1> HIDE DEF h, t
<1> QED BY <1>4, <1>8, <1>10, <1>13, <1>14, <1>16, <1>17, <1>18, PayerStep

\* Rolling back an unstarted open gives the payer the whole price back.
LEMMA RollbackGood ==
  ASSUME IInv, NEW c \in Campaigns, RollbackUnstarted(c)
  PROVE  GoodStep
<1> DEFINE r == escrow[c]
           fee == r.fee
           platform == IF fee.asset = "HMC" THEN fee.platform ELSE 0
           burn == IF fee.asset = "HMC" THEN fee.burn ELSE 0
           back == IF fee.asset = "SUP" THEN fee.sup ELSE 0
           refund == r.budget + platform + burn
           h == spent[c].hmc - refund
           t == spent[c].sup - back
<1>1. RowPart /\ LedgerPart /\ CounterPart BY IInvParts
<1>2. GoodRow(r) /\ spent[c].hmc = Cost(r) /\ spent[c].sup = fee.sup
  BY <1>1 DEF RowPart
<1>3. r \in Row /\ PoolsOK(r) /\ RowShapeOK(r) BY <1>2 DEF GoodRow
<1>4. /\ r.status = "open" /\ r.runsPaid = 0 /\ r.bountyPaid = 0
      /\ r.crashBonus = 0 /\ r.refundedBounty = 0
  BY DEF RollbackUnstarted, Unstarted
<1>5. /\ accounts[DevFeeAddress] >= platform /\ burned >= burn /\ supBurned >= back
      /\ escrow' = [escrow EXCEPT ![c] = NoRow]
      /\ accounts' = Credit(Debit(accounts, DevFeeAddress, platform), WalletAddr, refund)
      /\ wallet' = wallet - WalletShare(DevFeeAddress, platform) + refund
      /\ burned' = burned - burn /\ sup' = sup + back /\ supBurned' = supBurned - back
      /\ supPaid' = IF back > 0 THEN supPaid \ {c} ELSE supPaid
      /\ spent' = [spent EXCEPT ![c] = [hmc |-> h, sup |-> t]]
      /\ applied' = applied /\ v2' = v2
  BY Zenon DEF RollbackUnstarted, DevCanReturn
<1>6. LockedUnits(r) = r.budget
  BY <1>3, <1>4 DEF LockedUnits, Live, RunsLeftUnits, BountyLeftUnits, PoolsOK, Row
<1>7. /\ platform \in Nat /\ burn \in Nat /\ back \in Nat /\ back = fee.sup
      /\ FeeHMCUnits(fee) = platform + burn
  BY <1>3 DEF FeeHMCUnits, Row, RowShapeOK, NoFee
<1>8. r.budget \in Nat BY <1>3 DEF Row
<1>9. Cost(r) = refund BY <1>4, <1>6, <1>7, <1>8 DEF Cost
<1>10. NoFee \in [asset : FeeAssets, burn : Nat, platform : Nat, sup : Nat] BY DEF NoFee
<1>11. NoRow \in Row BY <1>10 DEF NoRow, Row
<1>12. GoodRow(NoRow) /\ Cost(NoRow) = 0 /\ NoRow.fee.sup = 0 /\ LockedUnits(NoRow) = 0
  BY <1>11 DEF GoodRow, PoolsOK, RowShapeOK, Cost, FeeHMCUnits, LockedUnits, Live, NoRow, NoFee
<1>13. r.winner # NoOne => NoRow.winner = r.winner /\ NoRow.bountyPaid = r.bountyPaid
  BY <1>3, <1>4 DEF RowShapeOK
<1> HIDE DEF platform, burn, back
<1>14. refund \in Nat BY <1>7, <1>8
<1>15. refund = r.budget + platform + burn OBVIOUS
<1> HIDE DEF refund
<1>16. LedgerPart'
  BY <1>1, <1>5, <1>7, <1>14, EscrowAssumption DEF LedgerPart, Credit, Debit, WalletShare
<1>17. \A a \in Addr \ {WalletAddr, DevFeeAddress} : accounts'[a] = accounts[a]
  BY <1>1, <1>5, EscrowAssumption DEF LedgerPart, Credit, Debit
<1>18. MovedUnits(WalletAddr, WalletAddr) = refund - platform
  BY <1>1, <1>5, <1>7, <1>14, EscrowAssumption
  DEF LedgerPart, Credit, Debit, MovedUnits, Gained
<1>19. MovedUnits(WalletAddr, WalletAddr) + (LockedUnits(NoRow) - LockedUnits(r))
         + (burned' - burned) = 0
  BY <1>1, <1>5, <1>6, <1>7, <1>8, <1>12, <1>14, <1>15, <1>18 DEF CounterPart
<1>20. CounterPart'
  <2>1. sup' \in Nat /\ supBurned' \in Nat /\ burned' \in Nat
    BY <1>1, <1>5, <1>7 DEF CounterPart
  <2>2. supPaid' \subseteq Campaigns BY <1>1, <1>5 DEF CounterPart
  <2> QED BY <1>1, <1>5, <2>1, <2>2 DEF CounterPart
<1>21. h \in Int /\ t \in Int /\ h = Cost(NoRow) /\ t = NoRow.fee.sup
  BY <1>2, <1>7, <1>9, <1>12, <1>14
<1> HIDE DEF h, t
<1> QED BY <1>5, <1>12, <1>13, <1>16, <1>17, <1>19, <1>20, <1>21, PayerStep

\* A transfer of the rest of the chain moves units between accounts and burns
\* part of its fee; the wallet row follows.
LEMMA TransferGood ==
  ASSUME IInv, NEW from \in Addr, NEW to \in Addr, NEW amount \in TransferAmounts,
         ApplyTransfer(from, to, amount)
  PROVE  GoodStep
<1> DEFINE total == amount + TransferFee
           devFee == TransferFee - TransferBurn
           moved == Credit(Credit(Debit(accounts, from, total), to, amount), DevFeeAddress, devFee)
<1>1. RowPart /\ LedgerPart /\ CounterPart BY IInvParts
<1>2. /\ amount \in Nat /\ TransferBurn \in Nat /\ devFee \in Nat /\ total \in Nat
      /\ total = amount + devFee + TransferBurn
  BY EscrowAssumption
<1>3. /\ from # to /\ accounts[from] >= total /\ accounts' = moved
      /\ wallet' = IF \/ WalletAddr \in {from, to}
                      \/ devFee > 0 /\ DevFeeAddress = WalletAddr
                   THEN moved[WalletAddr] ELSE wallet
      /\ burned' = burned + TransferBurn
      /\ escrow' = escrow /\ sup' = sup /\ supBurned' = supBurned
      /\ supPaid' = supPaid /\ applied' = applied /\ v2' = v2 /\ spent' = spent
  BY Zenon DEF ApplyTransfer
<1> HIDE DEF total, devFee
<1>4. moved \in [Addr -> Nat]
  BY <1>1, <1>2, <1>3, EscrowAssumption DEF LedgerPart, Credit, Debit
<1>5. ~(WalletAddr \in {from, to} \/ (devFee > 0 /\ DevFeeAddress = WalletAddr))
        => moved[WalletAddr] = accounts[WalletAddr]
  BY <1>1, <1>2, EscrowAssumption DEF LedgerPart, Credit, Debit
<1>6. /\ \A a \in Addr \ {WalletAddr, DevFeeAddress, from, to} : accounts'[a] = accounts[a]
      /\ MovedUnits(from, to) = 0 - TransferBurn
  <2>1. \A a \in Addr \ {WalletAddr, DevFeeAddress, from, to} : accounts'[a] = accounts[a]
    BY <1>1, <1>3, EscrowAssumption DEF LedgerPart, Credit, Debit
  <2> DEFINE Out(a) == IF a = from THEN total ELSE 0
             In(a) == IF a = to THEN amount ELSE 0
             Fee(a) == IF a = DevFeeAddress THEN devFee ELSE 0
  <2>2. \A a \in Addr : /\ accounts[a] \in Nat
                        /\ accounts'[a] = accounts[a] - Out(a) + In(a) + Fee(a)
    BY <1>1, <1>2, <1>3, EscrowAssumption DEF LedgerPart, Credit, Debit
  <2>3. \A a \in Addr : Gained(a) = In(a) + Fee(a) - Out(a)
    BY <1>2, <2>2 DEF Gained
  <2> HIDE DEF moved
  <2>4. MovedUnits(from, to) = 0 - TransferBurn
    BY <1>2, <1>3, <2>3, EscrowAssumption, SMT DEF MovedUnits
  <2> QED BY <2>1, <2>4
<1> HIDE DEF moved
<1>7. LedgerPart' BY <1>1, <1>3, <1>4, <1>5, EscrowAssumption DEF LedgerPart
<1>8. RowPart' BY <1>1, <1>3 DEF RowPart, GoodRow, Cost
<1>9. CounterPart' BY <1>1, <1>2, <1>3 DEF CounterPart
<1>10. PICK c \in Campaigns : TRUE BY EscrowAssumption
<1>11. LockedUnits(escrow[c]) \in Nat BY <1>1, LockedType DEF RowPart
<1>12. MovedUnits(from, to) + (LockedUnits(escrow'[c]) - LockedUnits(escrow[c]))
         + (burned' - burned) = 0
  BY <1>1, <1>2, <1>3, <1>6, <1>11 DEF CounterPart
<1>13. StepConserves BY <1>3, <1>6, <1>12 DEF StepConserves
<1>14. BountyKept BY <1>3 DEF BountyKept
<1> QED BY <1>7, <1>8, <1>9, <1>13, <1>14, IInvPartsPrime DEF GoodStep

\* Activation of Economics v2 moves nothing.
LEMMA ActivateGood ==
  ASSUME IInv, ActivateV2
  PROVE  GoodStep
<1>1. RowPart /\ LedgerPart /\ CounterPart BY IInvParts
<1>2. /\ escrow' = escrow /\ accounts' = accounts /\ wallet' = wallet /\ spent' = spent
      /\ burned' = burned /\ sup' = sup /\ supBurned' = supBurned
      /\ supPaid' = supPaid /\ applied' = applied /\ v2' = TRUE
  BY DEF ActivateV2
<1>3. RowPart' BY <1>1, <1>2 DEF RowPart, GoodRow, Cost
<1>4. LedgerPart' /\ CounterPart' BY <1>1, <1>2 DEF LedgerPart, CounterPart
<1>5. PICK c \in Campaigns : TRUE BY EscrowAssumption
<1>6. LockedUnits(escrow[c]) \in Nat BY <1>1, LockedType DEF RowPart
<1>7. MovedUnits(WalletAddr, WalletAddr) = 0
  BY <1>1, <1>2, EscrowAssumption DEF LedgerPart, MovedUnits, Gained
<1>8. StepConserves
  BY <1>1, <1>2, <1>6, <1>7, EscrowAssumption DEF StepConserves, CounterPart
<1>9. BountyKept BY <1>2 DEF BountyKept
<1> QED BY <1>3, <1>4, <1>8, <1>9, IInvPartsPrime DEF GoodStep

\* ApplyFuzzSettleOnce and the direct close pay through the same operations.
LEMMA SettleGood ==
  ASSUME IInv, NEW kind, NEW c \in Campaigns, NEW m \in Addr, NEW sev,
         Settle(kind, c, m, sev), burned' = burned, CounterPart'
  PROVE  GoodStep
<1>1. CASE PayRun(c, kind, m) BY <1>1, PayRunGood
<1>2. CASE PayCrashBonus(c, m) BY <1>2, PayCrashBonusGood
<1>3. CASE PayBounty(c, sev, m) BY <1>3, PayBountyGood
<1>4. CASE Close(c) BY <1>4, CloseGood
<1> QED BY <1>1, <1>2, <1>3, <1>4, Zenon DEF Settle

\* Every step of the specification is good.
LEMMA NextGood == IInv /\ Next => GoodStep
<1> SUFFICES ASSUME IInv, Next PROVE GoodStep OBVIOUS
<1>1. CounterPart BY IInvParts
<1>2. ASSUME NEW c \in Campaigns, NEW p \in Prices, NEW n \in RunBudgets,
             NEW s \in OpenSplits, NEW f \in {"HMC", "SUP"}, Open(c, p, n, s, f)
      PROVE  GoodStep
  <2>1. s \in Splits BY EscrowAssumption
  <2> QED BY <1>2, <2>1, OpenGood
<1>3. ASSUME NEW e \in Events, NEW k \in Kinds, NEW c \in Campaigns, NEW m \in Addr,
             NEW sev \in Severities, ApplyFuzzSettleOnce(e, k, c, m, sev)
      PROVE  GoodStep
  <2>1. /\ burned' = burned /\ sup' = sup /\ supBurned' = supBurned
        /\ supPaid' = supPaid /\ v2' = v2 /\ applied' = applied \cup {e}
        /\ Settle(k, c, m, sev)
    BY <1>3, Zenon DEF ApplyFuzzSettleOnce
  <2>2. CounterPart' BY <1>1, <2>1 DEF CounterPart
  <2> QED BY <2>1, <2>2, SettleGood
<1>4. ASSUME NEW c \in Campaigns, CancelOrFinalize(c) PROVE GoodStep
  <2>1. /\ burned' = burned /\ sup' = sup /\ supBurned' = supBurned
        /\ supPaid' = supPaid /\ v2' = v2 /\ applied' = applied /\ Close(c)
    BY <1>4, Zenon DEF CancelOrFinalize
  <2>2. CounterPart' BY <1>1, <2>1 DEF CounterPart
  <2> QED BY <2>1, <2>2, CloseGood
<1>5. ASSUME NEW a \in Senders, NEW b \in Addr, NEW u \in TransferAmounts,
             ApplyTransfer(a, b, u)
      PROVE  GoodStep
  <2>1. a \in Addr BY EscrowAssumption
  <2> QED BY <1>5, <2>1, TransferGood
<1> QED BY <1>2, <1>3, <1>4, <1>5, ReopenGood, RollbackGood, ActivateGood, Zenon DEF Next

----------------------------------------------------------------------------
(* The theorems.                                                            *)

\* The inductive invariant holds in every state.
THEOREM Inductive == Spec => []IInv
<1>1. IInv /\ [Next]_vars => IInv'
  <2>1. IInv /\ Next => IInv' BY NextGood DEF GoodStep
  <2>2. IInv /\ UNCHANGED vars => IInv'
    BY DEF vars, IInv, TypeOK, WalletMirrorsAccount, PoolsNotOverdrawn, RowShape,
           PayerPaysForDelivery
  <2> QED BY <2>1, <2>2
<1> QED BY InitIInv, <1>1, PTL DEF Spec

\* Type correctness: no balance, pool or counter of the code underflows.
THEOREM TypeCorrect == Spec => []TypeOK
  BY Inductive, PTL DEF IInv

\* The wallet row never drifts from the account of the node's own address.
THEOREM DualLedger == Spec => []WalletMirrorsAccount
  BY Inductive, PTL DEF IInv

\* No sequence of settles, closes and reopens overdraws a pool.
THEOREM NoOverdraft == Spec => []PoolsNotOverdrawn
  BY Inductive, PTL DEF IInv

\* The payer spends exactly the fee, the payouts and what is still locked.
THEOREM FairPrice == Spec => []PayerPaysForDelivery
  BY Inductive, PTL DEF IInv

\* Every step of every behaviour conserves units.
THEOREM Conservation == Spec => EveryStepConserves
<1>1. IInv /\ [Next]_vars => [StepConserves]_vars BY NextGood DEF GoodStep
<1> QED BY Inductive, <1>1, PTL DEF Spec, EveryStepConserves

\* A bounty is decided once, also across close and reopen.
THEOREM OneBounty == Spec => BountyIsFinal
<1>1. IInv /\ [Next]_vars => [BountyKept]_vars BY NextGood DEF GoodStep
<1> QED BY Inductive, <1>1, PTL DEF Spec, BountyIsFinal
=============================================================================
