------------------------ MODULE SettlePipelineProofs ------------------------
(***************************************************************************)
(* Theorems about SettlePipeline for every number of items and threads,    *)
(* every price, split and fault bound, and every deployment.  One          *)
(* invariant, Sound, serves the payouts: what an item, a thread, a replay  *)
(* and an outbox row say about the run of one item agrees (Claim), so an   *)
(* item has at most one run row, whichever of them enqueues it.  Gated and *)
(* Ordered add what the finalize gate and the order of a batch need.       *)
(***************************************************************************)
EXTENDS SettlePipeline, SumLemmas

USE DEF Splits

Miners == {Miner[i] : i \in Items}
HasCrash == "crash" \in scenario.outcomes

----------------------------------------------------------------------------
(* The invariant of the payouts.                                            *)

EscrowRow ==
  [budget : Nat, runsPool : Nat, bountyPool : Nat, perRun : Nat, runsPaid : Nat,
   bountyPaid : Nat, crashBonus : Nat, refundedBounty : Nat, runsDone : Nat,
   winner : Miners \cup {NoOne}, status : {"open", "bounty_paid", "closed"},
   split : Splits, fee : {NoFee}]

\* An escrow row whose pools are not overdrawn, whose rate is not zero and whose
\* bounty has a winner once it is paid.
GoodRow(r) ==
  /\ r \in EscrowRow
  /\ r.perRun > 0 /\ r.runsPaid <= r.runsPool
  /\ r.bountyPaid + r.crashBonus + r.refundedBounty <= r.bountyPool
  /\ (r.status = "bounty_paid" \/ r.bountyPaid > 0) => r.winner # NoOne

\* A bounty pool is refunded by a close, and only a reopen goes on after one.
RefundSound == row.refundedBounty > 0 => row.status = "closed" \/ "reopener" \in scenario.drains

\* e is a row that pays the run of item i.
RunRowOf(e, i) == e \in RowIDs /\ outbox[e].kind \in RunKinds /\ outbox[e].item = i

\* The key of a row is one that the coordinator enqueues.
KeySound(e) ==
  /\ outbox[e].kind \in RunKinds =>
       outbox[e].item \in Items /\ outbox[e].miner = Miner[outbox[e].item]
  /\ outbox[e].kind \in {"finding", "crash_bonus"} => outbox[e].miner \in Miners /\ HasCrash
  /\ outbox[e].kind = "finalize" => outbox[e].item = 0 /\ outbox[e].miner = NoOne

OneRowPerKey ==
  \A e, f \in RowIDs :
    SameKey(outbox[e], outbox[f].kind, outbox[f].miner, outbox[f].item) => e = f

\* The rows whose acknowledgement must mean a payment: the runs, and all payments
\* of a campaign that has no findings or is never reopened.
Honest == "reopener" \in scenario.drains => ~HasCrash
Counts(e) == outbox[e].kind \in RunKinds \/ (IsPay(e) /\ Honest)
Settled(e) == e \in applied \/ NothingOwed(outbox[e].kind)

OutboxSound ==
  /\ outbox \in Seq(RowType)
  /\ \A e \in RowIDs : KeySound(e)
  /\ OneRowPerKey
  /\ \A e \in RowIDs : outbox[e].status = "applied" /\ Counts(e) => Settled(e)

ItemSound(i) ==
  /\ (items[i].found \/ items[i].find # "") => HasCrash
  /\ items[i].runRow # NoRowID => RunRowOf(items[i].runRow, i)
  /\ items[i].findRow \in RowIDs \cup {NoRowID}
  /\ items[i].run = "paid" => items[i].runRow \in RowIDs
                                /\ outbox[items[i].runRow].status = "applied"

PCs == {"idle", "insert", "commit", "stamp", "flush", "run", "stampRun", "find",
        "stampFind", "bonus", "read", "write", "promote", "count", "unpaid",
        "finalize", "sweep", "replay", "replayFinding"}
ThreadType ==
  [pc : PCs, item : Items, outcome : {"clean", "floor", "crash", "reject"}, accepts : BOOLEAN,
   read : ItemType, id : Nat, paid : BOOLEAN,
   next : {"", "running", "completed", "cancelled"}, then : {"end", "progress"},
   todo : SUBSET (Items \X BOOLEAN)]

ThreadSound(t) ==
  /\ th[t].pc \in {"insert", "stamp"} => th[t].outcome = "crash"
  /\ th[t].outcome = "crash" => HasCrash
  /\ th[t].read.find # "" => HasCrash
  /\ th[t].read.runRow # NoRowID => RunRowOf(th[t].read.runRow, th[t].item)
  /\ th[t].read.findRow \in RowIDs \cup {NoRowID}
  /\ th[t].pc = "stampRun" => /\ th[t].read.run \in UnpaidRun
                              /\ RunRowOf(th[t].id, th[t].item)
                              /\ th[t].paid => outbox[th[t].id].status = "applied"
  /\ th[t].pc = "stampFind" => th[t].id \in RowIDs
  /\ th[t].pc = "write" => th[t].next # ""

DrainType ==
  [pc : {"idle", "fetch", "row", "apply", "ack", "look", "close"}, batch : SUBSET Nat,
   acked : SUBSET Nat, failed : BOOLEAN, attempt : {0, 1}]

DrainSound(d) ==
  /\ drain[d].batch \cup drain[d].acked \subseteq RowIDs
  /\ drain[d].pc \in {"row", "apply"} => drain[d].batch # {}
  /\ \A e \in drain[d].acked : Counts(e) => Settled(e)

\* Somebody means to pay, or a row pays, the run of item i: the floor or all of it.
Claim(i, floor) ==
  \/ \E e \in RowIDs : RunRowOf(e, i) /\ floor = (outbox[e].kind = "run_floor")
  \/ items[i].run \in UnpaidRun /\ floor = Floor(items[i].run)
  \/ \E t \in Threads : \/ /\ th[t].item = i /\ th[t].read.run \in UnpaidRun
                           /\ floor = Floor(th[t].read.run)
                        \/ <<i, floor>> \in th[t].todo

\* Claims on an item agree, and an item with a claim is done and stamped.
ClaimSound(i) ==
  /\ \A b, c \in BOOLEAN : Claim(i, b) /\ Claim(i, c) => b = c
  /\ \A b \in BOOLEAN : Claim(i, b) => items[i].status = "done" /\ items[i].run # ""

Sound ==
  /\ scenario \in Scenarios
  /\ campaign \in {"running", "completed", "cancelled"}
  /\ faults \in 0..scenario.faults
  /\ GoodRow(row) /\ RefundSound
  /\ OutboxSound
  /\ items \in [Items -> ItemType] /\ \A i \in Items : ItemSound(i)
  /\ th \in [Threads -> ThreadType] /\ \A t \in Threads : ThreadSound(t)
  /\ drain \in [scenario.drains -> DrainType] /\ \A d \in scenario.drains : DrainSound(d)
  /\ \A i \in Items : ClaimSound(i)
  /\ applied \subseteq RowIDs
  /\ row.runsDone = Cardinality({i \in Items : PaidRuns(i) # {}})

----------------------------------------------------------------------------
(* The invariant of the finalize gate.                                      *)

\* The escrow is closed by a finalize row only, no replay adds one past the gate, and
\* the gate waits for all items because no time budget ends the campaign early.
Gated == "closer" \notin scenario.drains /\ ~scenario.replays /\ ~scenario.timeBudget

\* Only the drain before a close comes to a close.
CloserOnly == \A d \in scenario.drains : drain[d].pc \in {"look", "close"} => d = "closer"

NoneLeft == AllDone /\ \A i \in Items : items[i].run \notin UnpaidRun

GateThread(t) ==
  /\ th[t].pc \notin {"replay", "replayFinding"}
  /\ th[t].pc = "write" /\ th[t].next = "completed" => AllDone
  /\ th[t].pc \in {"promote", "count", "unpaid"} => AllDone
  /\ th[t].pc = "finalize" => NoneLeft

GateSound ==
  /\ CloserOnly
  /\ campaign = "completed" => AllDone
  /\ \A t \in Threads : GateThread(t)
  /\ \A e \in RowIDs : outbox[e].kind = "finalize" => NoneLeft
  /\ row.status = "closed" => \E e \in RowIDs : outbox[e].kind = "finalize"

----------------------------------------------------------------------------
(* The invariant of the order of a batch.                                   *)

\* No settle-pull ticker beside a close that an operator may undo, and no findings
\* in a campaign with such a close.
Ordered ==
  {"closer", "reopener"} \subseteq scenario.drains => "ticker" \notin scenario.drains /\ ~HasCrash

FinalizeApplied == \E e \in applied : ~IsPay(e)

\* Why a drain with the finalize row e in its batch may be past the payment f.
Passed(d, e, f) ==
  \/ f \in drain[d].batch \/ drain[d].failed \/ Settled(f) \/ e \in applied
  \/ d # "pusher" /\ row.status = "closed"

BatchSound(d) ==
  drain[d].pc \in {"row", "apply"} =>
    \A e \in drain[d].batch, f \in Pending :
      ~IsPay(e) /\ IsPay(f) /\ f < e => Passed(d, e, f)

\* A drain that is past a failed payment applies no finalize row.
FailedFirst(d) ==
  drain[d].pc = "apply" /\ drain[d].failed => \E f \in drain[d].batch : IsPay(f)

\* A close that nobody but an operator undoes: by the drain before a close, which is
\* idle then, or by the finalize row.
CloserSound ==
  \A d \in scenario.drains :
    d = "closer" /\ drain[d].pc # "idle" /\ row.status = "closed" => FinalizeApplied
ClosedFor ==
  row.status = "closed" \/ row.refundedBounty > 0 =>
    "closer" \in scenario.drains \/ FinalizeApplied

OrderSound ==
  /\ CloserOnly
  /\ \A d \in scenario.drains : BatchSound(d) /\ FailedFirst(d)
  /\ CloserSound /\ ClosedFor

----------------------------------------------------------------------------
(* The escrow row.                                                          *)

\* The constants, as the proofs use them.
LEMMA Constants ==
  /\ NItems \in Nat \ {0} /\ 1 \in Items /\ IsFiniteSet(Items)
  /\ \A i \in Items : Miner[i] \in Miners /\ Miner[i] # NoOne
  /\ NoOne \notin Miners
  /\ \A s \in Scenarios : /\ s.split \in Splits /\ s.faults \in Nat /\ s.drains \subseteq Drains
                          /\ s.outcomes \subseteq {"clean", "floor", "crash", "reject"}
                          /\ s.timeBudget \in BOOLEAN /\ s.replays \in BOOLEAN
                          /\ SplitOK(Price, NItems, s.split)
<1>1. IsFiniteSet(Items) BY PipelineAssumption, FS_Interval DEF Items
<1>2. \A s \in Scenarios : /\ s.split \in Splits /\ s.faults \in Nat /\ s.drains \subseteq Drains
                           /\ s.outcomes \subseteq {"clean", "floor", "crash", "reject"}
                           /\ s.timeBudget \in BOOLEAN /\ s.replays \in BOOLEAN
  <2> SUFFICES ASSUME NEW s \in Scenarios
               PROVE  /\ s.split \in Splits /\ s.faults \in Nat /\ s.drains \subseteq Drains
                      /\ s.outcomes \subseteq {"clean", "floor", "crash", "reject"}
                      /\ s.timeBudget \in BOOLEAN /\ s.replays \in BOOLEAN
    OBVIOUS
  <2>1. s \in ScenarioType BY PipelineAssumption
  <2> QED BY <2>1 DEF ScenarioType
<1> QED BY <1>1, <1>2, PipelineAssumption DEF Items, Miners

\* The crash bonus is a natural number.
LEMMA BonusType ==
  ASSUME NEW pool \in Nat, NEW split \in Splits
  PROVE  UniqueCrashBonusUnits(pool, split) \in Nat
  BY OpsAssumption DEF UniqueCrashBonusUnits, CrashBonusCap

\* The terms of a row never change, and what it has paid never shrinks.
RowMoves(r, n) ==
  /\ GoodRow(n)
  /\ n.runsPool = r.runsPool /\ n.bountyPool = r.bountyPool /\ n.split = r.split
  /\ n.runsPaid >= r.runsPaid /\ n.crashBonus >= r.crashBonus
  /\ n.bountyPaid >= r.bountyPaid
  /\ r.winner # NoOne => n.winner # NoOne

\* A good row moves to itself.
LEMMA RowStays ==
  ASSUME NEW r, GoodRow(r)
  PROVE  RowMoves(r, r)
  BY DEF RowMoves, GoodRow, EscrowRow

\* A run or a floor slice is worth at least one unit.
LEMMA RunRateType ==
  ASSUME NEW r, GoodRow(r), NEW kind
  PROVE  RunRate(r, kind) \in Nat \ {0}
<1>1. r.perRun \in Nat \ {0} BY DEF GoodRow, EscrowRow
<1>2. (r.perRun * FloorPayBPS) \div 10000 \in Nat
  <2>1. FloorPayBPS \in Nat BY OpsAssumption
  <2> QED BY <1>1, <2>1, SMT
<1> QED BY <1>1, <1>2, SMT DEF RunRate

\* A live row that has nothing to pay for a run has used up its run pool.
LEMMA DepletedRuns ==
  ASSUME NEW r, GoodRow(r), NEW kind, RunPayUnits(r, kind) = 0
  PROVE  RunsLeftUnits(r) = 0
  BY RunRateType DEF RunPayUnits, RunsLeftUnits, GoodRow, EscrowRow

\* Paying a run adds to what is paid and counts it.
LEMMA RunMoves ==
  ASSUME NEW r, GoodRow(r), NEW kind
  PROVE  LET n == RunRow(r, kind)
         IN /\ RowMoves(r, n) /\ n.runsDone = r.runsDone + 1
            /\ n.status = r.status /\ n.refundedBounty = r.refundedBounty
<1> DEFINE pay == RunPayUnits(r, kind)
           x == r.runsPaid + pay
           y == r.runsDone + 1
           n == [r EXCEPT !.runsPaid = x, !.runsDone = y]
<1>1. r \in EscrowRow BY DEF GoodRow
<1>2. pay \in Nat /\ r.runsPaid + pay <= r.runsPool
  BY RunRateType DEF RunPayUnits, RunsLeftUnits, GoodRow, EscrowRow
<1>3. x \in Nat /\ y \in Nat /\ x <= r.runsPool /\ x >= r.runsPaid
  BY <1>1, <1>2 DEF EscrowRow
<1>4. n = RunRow(r, kind) BY <1>1, Zenon DEF RunRow, EscrowRow
<1> HIDE DEF x, y
<1>5. n \in EscrowRow BY <1>1, <1>3 DEF EscrowRow
<1>6. /\ n.runsPaid = x /\ n.runsDone = y /\ n.runsPool = r.runsPool /\ n.perRun = r.perRun
      /\ n.bountyPool = r.bountyPool /\ n.split = r.split /\ n.crashBonus = r.crashBonus
      /\ n.bountyPaid = r.bountyPaid /\ n.winner = r.winner /\ n.status = r.status
      /\ n.refundedBounty = r.refundedBounty
  BY <1>1 DEF EscrowRow
<1> HIDE DEF n
<1>7. GoodRow(n) BY <1>3, <1>5, <1>6 DEF GoodRow
<1>8. RowMoves(r, n) BY <1>1, <1>3, <1>6, <1>7 DEF RowMoves, EscrowRow
<1> QED BY <1>4, <1>6, <1>8 DEF y

\* Paying the crash bonus, once.
LEMMA CrashMoves ==
  ASSUME NEW r, GoodRow(r), CrashErr(r) = "ok"
  PROVE  LET n == CrashRow(r)
         IN /\ RowMoves(r, n) /\ n.runsDone = r.runsDone
            /\ n.status = r.status /\ n.refundedBounty = r.refundedBounty
<1> DEFINE bonus == UniqueCrashBonusUnits(r.bountyPool, r.split)
           n == [r EXCEPT !.crashBonus = bonus]
<1>1. r \in EscrowRow BY DEF GoodRow
<1>2. bonus \in Nat
  <2>1. r.bountyPool \in Nat /\ r.split \in Splits BY <1>1 DEF EscrowRow
  <2> QED BY <2>1, BonusType
<1>3. /\ ~(r.crashBonus > 0) /\ ~(r.refundedBounty > 0)
      /\ ~(bonus > r.bountyPool - r.bountyPaid)
  BY DEF CrashErr
<1>4. n = CrashRow(r) BY Zenon DEF CrashRow
<1> HIDE DEF bonus
<1>5. n \in EscrowRow BY <1>1, <1>2 DEF EscrowRow
<1>6. /\ n.crashBonus = bonus /\ n.runsPaid = r.runsPaid /\ n.runsDone = r.runsDone
      /\ n.runsPool = r.runsPool /\ n.perRun = r.perRun
      /\ n.bountyPool = r.bountyPool /\ n.split = r.split
      /\ n.bountyPaid = r.bountyPaid /\ n.winner = r.winner /\ n.status = r.status
      /\ n.refundedBounty = r.refundedBounty
  BY <1>1 DEF EscrowRow
<1> HIDE DEF n
<1>7. /\ r.bountyPaid + bonus + r.refundedBounty <= r.bountyPool /\ bonus >= r.crashBonus
  BY <1>1, <1>2, <1>3 DEF EscrowRow
<1>8. GoodRow(n) BY <1>5, <1>6, <1>7 DEF GoodRow
<1>9. RowMoves(r, n) BY <1>1, <1>6, <1>7, <1>8 DEF RowMoves, EscrowRow
<1> QED BY <1>4, <1>6, <1>9

\* Paying the bounty, once, to a miner.
LEMMA BountyMoves ==
  ASSUME NEW r, GoodRow(r), BountyErr(r, "critical") = "ok", NEW m \in Miners
  PROVE  LET n == BountyRow(r, "critical", m)
         IN /\ RowMoves(r, n) /\ n.runsDone = r.runsDone
            /\ r.status = "open" /\ n.status = "bounty_paid"
            /\ n.refundedBounty = r.refundedBounty
<1> DEFINE x == BountySliceUnits(r, "critical")
           n == [r EXCEPT !.bountyPaid = x, !.winner = m, !.status = "bounty_paid"]
<1>1. r \in EscrowRow /\ m # NoOne BY Constants DEF GoodRow
<1>2. /\ r.status = "open" /\ r.winner = NoOne
      /\ ~(r.bountyPaid > 0) /\ ~(r.refundedBounty > 0)
      /\ ~(r.bountyPool <= r.crashBonus)
  BY DEF BountyErr
<1>3. /\ r.bountyPaid = 0 /\ r.refundedBounty = 0
      /\ r.bountyPool - r.crashBonus \in Nat
  BY <1>1, <1>2 DEF EscrowRow
<1>4. x \in 0..(r.bountyPool - r.crashBonus)
  BY <1>3 DEF BountySliceUnits, BountyTenths
<1>5. n = BountyRow(r, "critical", m) BY Zenon DEF BountyRow
<1> HIDE DEF x
<1>6. x \in Nat BY <1>4, <1>3
<1>7. n \in EscrowRow BY <1>1, <1>6 DEF EscrowRow
<1>8. /\ n.bountyPaid = x /\ n.runsPaid = r.runsPaid /\ n.runsDone = r.runsDone
      /\ n.runsPool = r.runsPool /\ n.perRun = r.perRun
      /\ n.bountyPool = r.bountyPool /\ n.split = r.split /\ n.crashBonus = r.crashBonus
      /\ n.winner = m /\ n.status = "bounty_paid" /\ n.refundedBounty = r.refundedBounty
  BY <1>1 DEF EscrowRow
<1> HIDE DEF n
<1>9. x + r.crashBonus + r.refundedBounty <= r.bountyPool
  <2>1. r.crashBonus \in Nat /\ r.bountyPool \in Nat BY <1>1 DEF EscrowRow
  <2> QED BY <1>3, <1>4, <2>1
<1>10. GoodRow(n) BY <1>1, <1>7, <1>8, <1>9 DEF GoodRow
<1>11. RowMoves(r, n) BY <1>1, <1>3, <1>6, <1>8, <1>10 DEF RowMoves, EscrowRow
<1> QED BY <1>2, <1>5, <1>8, <1>11

\* Closing a row, again or for the first time.
LEMMA CloseMoves ==
  ASSUME NEW r, GoodRow(r)
  PROVE  LET n == ClosedRow(r)
         IN RowMoves(r, n) /\ n.runsDone = r.runsDone /\ n.status = "closed"
<1>1. CASE r.status = "closed" BY <1>1, RowStays DEF ClosedRow
<1>2. CASE r.status # "closed"
  <2> DEFINE x == r.refundedBounty + BountyLeftUnits(r)
             n == [r EXCEPT !.status = "closed", !.refundedBounty = x]
  <2>1. r \in EscrowRow BY DEF GoodRow
  <2>2. x \in Nat /\ r.bountyPaid + r.crashBonus + x <= r.bountyPool
    BY <2>1 DEF BountyLeftUnits, GoodRow, EscrowRow
  <2>3. n = ClosedRow(r) BY <1>2, <2>1, Zenon DEF ClosedRow
  <2> HIDE DEF x
  <2>4. n \in EscrowRow BY <2>1, <2>2 DEF EscrowRow
  <2>5. /\ n.bountyPaid = r.bountyPaid /\ n.runsPaid = r.runsPaid /\ n.runsDone = r.runsDone
        /\ n.runsPool = r.runsPool /\ n.perRun = r.perRun
        /\ n.bountyPool = r.bountyPool /\ n.split = r.split /\ n.crashBonus = r.crashBonus
        /\ n.winner = r.winner /\ n.status = "closed" /\ n.refundedBounty = x
    BY <2>1 DEF EscrowRow
  <2> HIDE DEF n
  <2>6. GoodRow(n) BY <2>2, <2>4, <2>5 DEF GoodRow
  <2>7. RowMoves(r, n) BY <2>1, <2>5, <2>6 DEF RowMoves, EscrowRow
  <2> QED BY <2>3, <2>5, <2>7
<1> QED BY <1>1, <1>2

\* Reopening a closed row.
LEMMA ReopenMoves ==
  ASSUME NEW r, GoodRow(r)
  PROVE  LET n == [r EXCEPT !.status = "open"]
         IN /\ RowMoves(r, n) /\ n.runsDone = r.runsDone /\ n.status = "open"
            /\ n.refundedBounty = r.refundedBounty
<1> DEFINE n == [r EXCEPT !.status = "open"]
<1>1. r \in EscrowRow BY DEF GoodRow
<1>2. n \in EscrowRow BY <1>1 DEF EscrowRow
<1>3. /\ n.bountyPaid = r.bountyPaid /\ n.runsPaid = r.runsPaid /\ n.runsDone = r.runsDone
      /\ n.runsPool = r.runsPool /\ n.perRun = r.perRun
      /\ n.bountyPool = r.bountyPool /\ n.split = r.split /\ n.crashBonus = r.crashBonus
      /\ n.winner = r.winner /\ n.status = "open" /\ n.refundedBounty = r.refundedBounty
  BY <1>1 DEF EscrowRow
<1> HIDE DEF n
<1>4. GoodRow(n) BY <1>2, <1>3 DEF GoodRow
<1>5. RowMoves(r, n) BY <1>1, <1>3, <1>4 DEF RowMoves, EscrowRow
<1> QED BY <1>3, <1>5 DEF n

\* A row for which nothing was owed stays one.
LEMMA NothingStays ==
  ASSUME GoodRow(row), RowMoves(row, row'), NEW kind, NothingOwed(kind)
  PROVE  NothingOwed(kind)'
<1> DEFINE bonus == UniqueCrashBonusUnits(row.bountyPool, row.split)
<1>1. row \in EscrowRow /\ row' \in EscrowRow BY DEF GoodRow, RowMoves
<1>2. bonus \in Nat
  <2>1. row.bountyPool \in Nat /\ row.split \in Splits BY <1>1 DEF EscrowRow
  <2> QED BY <2>1, BonusType
<1>3. UniqueCrashBonusUnits(row'.bountyPool, row'.split) = bonus BY Zenon DEF RowMoves
<1>4. CASE kind \in RunKinds /\ RunsLeftUnits(row) = 0
  <2>1. RunsLeftUnits(row') = 0
    BY <1>1, <1>4 DEF RunsLeftUnits, RowMoves, GoodRow, EscrowRow
  <2> QED BY <1>4, <2>1 DEF NothingOwed
<1>5. CASE kind = "finding" /\ (row.winner # NoOne \/ row.bountyPool <= row.crashBonus)
  <2>1. row'.winner # NoOne \/ row'.bountyPool <= row'.crashBonus
    BY <1>1, <1>5 DEF RowMoves, EscrowRow
  <2> QED BY <1>5, <2>1 DEF NothingOwed
<1>6. CASE kind = "crash_bonus" /\ (row.crashBonus > 0 \/ bonus = 0
                                      \/ row.bountyPool - row.bountyPaid < bonus)
  <2> HIDE DEF bonus
  <2>1. row'.crashBonus > 0 \/ bonus = 0 \/ row'.bountyPool - row'.bountyPaid < bonus
    BY <1>1, <1>2, <1>6 DEF RowMoves, EscrowRow
  <2> QED BY <1>3, <1>6, <2>1, Zenon DEF NothingOwed
<1> QED BY <1>4, <1>5, <1>6, Zenon DEF NothingOwed

----------------------------------------------------------------------------
(* What any step may do, variable by variable.                              *)

SceneMoves ==
  /\ scenario' = scenario /\ faults' \in 0..scenario.faults
  /\ campaign' \in {"running", "completed", "cancelled"}

\* Rows stay, a settled row stays settled, a new one has a new key, and a new run
\* row was somebody's claim.
OutMoves ==
  /\ outbox' \in Seq(RowType) /\ Len(outbox) <= Len(outbox')
  /\ \A e \in RowIDs :
       /\ outbox'[e].kind = outbox[e].kind /\ outbox'[e].miner = outbox[e].miner
       /\ outbox'[e].item = outbox[e].item
       /\ outbox[e].status = "applied" => outbox'[e].status = "applied"
  /\ \A e \in RowIDs' : KeySound(e)'
  /\ OneRowPerKey'
  /\ \A e \in RowIDs' \ RowIDs :
       /\ outbox'[e].status = "pending"
       /\ outbox'[e].kind \in RunKinds =>
            Claim(outbox'[e].item, outbox'[e].kind = "run_floor")

\* A row is acknowledged after its payment.
AckMoves ==
  \A e \in RowIDs :
    outbox[e].status = "pending" /\ outbox'[e].status = "applied" /\ Counts(e) => Settled(e)'

\* An item is done once, and a run intent is stamped when it is.
ItemMoves(i) ==
  /\ items[i].status = "done" => items'[i].status = "done"
  /\ items[i].status = "done" /\ items[i].run # "" => items'[i].run # ""
  /\ items[i].status = "done" /\ items[i].run \notin UnpaidRun => items'[i].run = items[i].run
  /\ items'[i].run \in UnpaidRun => \/ Claim(i, Floor(items'[i].run))
                                    \/ items[i].status = "leased" /\ items'[i].status = "done"
ItemsMove ==
  items' \in [Items -> ItemType] /\ \A i \in Items : ItemSound(i)' /\ ItemMoves(i)

\* A thread claims what was claimed before.
ThreadMoves(t) ==
  /\ th'[t].read.run \in UnpaidRun => Claim(th'[t].item, Floor(th'[t].read.run))
  /\ \A i \in Items, b \in BOOLEAN : <<i, b>> \in th'[t].todo => Claim(i, b)
ThreadsMove ==
  th' \in [Threads -> ThreadType] /\ \A t \in Threads : ThreadSound(t)' /\ ThreadMoves(t)

DrainsMove ==
  /\ drain' \in [scenario.drains -> DrainType]
  /\ \A d \in scenario.drains : DrainSound(d)'

OriginMoves ==
  /\ RowMoves(row, row') /\ RefundSound'
  /\ applied \subseteq applied' /\ applied' \subseteq RowIDs
  /\ row'.runsDone = Cardinality({i \in Items : PaidRuns(i)' # {}})

Moves == SceneMoves /\ OutMoves /\ AckMoves /\ ItemsMove /\ ThreadsMove /\ DrainsMove /\ OriginMoves

\* The rows of before are rows of after.
LEMMA RowsStay ==
  ASSUME Sound, OutMoves
  PROVE  /\ Len(outbox) \in Nat /\ Len(outbox') \in Nat
         /\ RowIDs \subseteq RowIDs' /\ RowIDs \subseteq Nat
         /\ \A e, i : RunRowOf(e, i) => RunRowOf(e, i)'
<1>1. outbox \in Seq(RowType) /\ outbox' \in Seq(RowType) BY DEF Sound, OutboxSound, OutMoves
<1>2. Len(outbox) \in Nat /\ Len(outbox') \in Nat /\ Len(outbox) <= Len(outbox')
  BY <1>1 DEF OutMoves
<1>3. RowIDs \subseteq RowIDs' /\ RowIDs \subseteq Nat BY <1>2 DEF RowIDs
<1>4. \A e, i : RunRowOf(e, i) => RunRowOf(e, i)' BY <1>3, Zenon DEF RunRowOf, OutMoves
<1> QED BY <1>2, <1>3, <1>4

\* Settled rows stay settled.
LEMMA SettledStays ==
  ASSUME Sound, OutMoves, RowMoves(row, row'), applied \subseteq applied',
         NEW e \in RowIDs, Settled(e)
  PROVE  Settled(e)'
<1>1. outbox'[e].kind = outbox[e].kind BY DEF OutMoves
<1>2. GoodRow(row) BY DEF Sound
<1>3. PICK k \in Kinds : k = outbox[e].kind
  <2>1. outbox[e] \in RowType BY DEF Sound, OutboxSound, RowIDs
  <2> QED BY <2>1 DEF RowType
<1>4. NothingOwed(k) => NothingOwed(k)' BY <1>2, NothingStays
<1> QED BY <1>1, <1>3, <1>4 DEF Settled

\* What counts before counts after, and nothing else.
LEMMA CountsStay ==
  ASSUME OutMoves, scenario' = scenario, NEW e \in RowIDs
  PROVE  /\ Counts(e)' <=> Counts(e)
         /\ IsPay(e)' <=> IsPay(e)
<1>1. outbox'[e].kind = outbox[e].kind BY DEF OutMoves
<1> QED BY <1>1 DEF Counts, IsPay, Honest, HasCrash

\* Claims come from claims, or from the commit of an item.
LEMMA ClaimsStay ==
  ASSUME Sound, OutMoves, ItemsMove, ThreadsMove, NEW i \in Items, NEW b \in BOOLEAN, Claim(i, b)'
  PROVE  \/ Claim(i, b)
         \/ /\ items[i].status = "leased" /\ items'[i].status = "done"
            /\ items'[i].run \in UnpaidRun /\ b = Floor(items'[i].run)
<1>1. ASSUME NEW e \in RowIDs', RunRowOf(e, i)', b = (outbox'[e].kind = "run_floor")
      PROVE  Claim(i, b)
  <2>1. CASE e \in RowIDs
    <3>1. outbox'[e].kind = outbox[e].kind /\ outbox'[e].item = outbox[e].item
      BY <2>1 DEF OutMoves
    <3>2. RunRowOf(e, i) BY <1>1, <2>1, <3>1 DEF RunRowOf
    <3> QED BY <1>1, <2>1, <3>1, <3>2 DEF Claim
  <2>2. CASE e \notin RowIDs
    <3>1. outbox'[e].kind \in RunKinds /\ outbox'[e].item = i BY <1>1 DEF RunRowOf
    <3>2. Claim(outbox'[e].item, outbox'[e].kind = "run_floor")
      BY <2>2, <3>1, <1>1 DEF OutMoves
    <3> QED BY <1>1, <3>1, <3>2
  <2> QED BY <2>1, <2>2
<1>2. ASSUME NEW t \in Threads, th'[t].item = i, th'[t].read.run \in UnpaidRun,
             b = Floor(th'[t].read.run)
      PROVE  Claim(i, b)
  BY <1>2 DEF ThreadsMove, ThreadMoves
<1>3. ASSUME NEW t \in Threads, <<i, b>> \in th'[t].todo
      PROVE  Claim(i, b)
  BY <1>3 DEF ThreadsMove, ThreadMoves
<1>4. ASSUME items'[i].run \in UnpaidRun, b = Floor(items'[i].run)
      PROVE  Claim(i, b) \/ (items[i].status = "leased" /\ items'[i].status = "done")
  BY <1>4 DEF ItemsMove, ItemMoves
<1> QED BY <1>1, <1>2, <1>3, <1>4, Zenon DEF Claim

\* ClaimSound is preserved.
LEMMA ClaimsSound ==
  ASSUME Sound, OutMoves, ItemsMove, ThreadsMove, NEW i \in Items
  PROVE  ClaimSound(i)'
<1>1. ClaimSound(i) BY DEF Sound
<1>2. ItemMoves(i) BY DEF ItemsMove
<1>3. CASE items[i].status = "leased" /\ items'[i].status = "done" /\ items'[i].run \in UnpaidRun
  <2>1. \A b \in BOOLEAN : ~Claim(i, b) BY <1>1, <1>3 DEF ClaimSound
  <2>2. \A b \in BOOLEAN : Claim(i, b)' => b = Floor(items'[i].run) BY <2>1, ClaimsStay
  <2>3. items'[i].run # "" BY <1>3 DEF UnpaidRun
  <2> QED BY <1>3, <2>2, <2>3 DEF ClaimSound
<1>4. CASE ~(items[i].status = "leased" /\ items'[i].status = "done" /\ items'[i].run \in UnpaidRun)
  <2>1. \A b \in BOOLEAN : Claim(i, b)' => Claim(i, b) BY <1>4, ClaimsStay
  <2>2. \A b \in BOOLEAN : Claim(i, b)' => items'[i].status = "done" /\ items'[i].run # ""
    BY <1>1, <1>2, <2>1 DEF ClaimSound, ItemMoves
  <2> QED BY <1>1, <2>1, <2>2 DEF ClaimSound
<1> QED BY <1>3, <1>4

\* The invariant is preserved by every step that makes such moves.
LEMMA SoundFromMoves ==
  ASSUME Sound, Moves
  PROVE  Sound'
<1>1. SceneMoves /\ OutMoves /\ AckMoves /\ ItemsMove /\ ThreadsMove /\ DrainsMove /\ OriginMoves
  BY DEF Moves
<1>2. /\ scenario' \in Scenarios /\ scenario' = scenario
      /\ campaign' \in {"running", "completed", "cancelled"}
      /\ faults' \in 0..scenario'.faults
  BY <1>1 DEF Sound, SceneMoves
<1>3. GoodRow(row)' /\ RefundSound' BY <1>1 DEF OriginMoves, RowMoves
<1>4. OutboxSound'
  <2>1. ASSUME NEW e \in RowIDs', outbox'[e].status = "applied", Counts(e)'
        PROVE  Settled(e)'
    <3>1. e \in RowIDs BY <1>1, <2>1 DEF OutMoves
    <3>2. Counts(e) BY <1>1, <1>2, <2>1, <3>1, CountsStay
    <3>3. CASE outbox[e].status = "applied"
      <4>1. Settled(e) BY <3>1, <3>2, <3>3 DEF Sound, OutboxSound
      <4> QED BY <1>1, <3>1, <4>1, SettledStays DEF OriginMoves
    <3>4. CASE outbox[e].status # "applied"
      <4>1. outbox[e] \in RowType BY <3>1 DEF Sound, OutboxSound, RowIDs
      <4>2. outbox[e].status = "pending" BY <3>4, <4>1 DEF RowType
      <4> QED BY <1>1, <2>1, <3>1, <3>2, <4>2 DEF AckMoves
    <3> QED BY <3>3, <3>4
  <2> QED BY <1>1, <2>1 DEF OutboxSound, OutMoves
<1>5. items' \in [Items -> ItemType] /\ \A i \in Items : ItemSound(i)' BY <1>1 DEF ItemsMove
<1>6. th' \in [Threads -> ThreadType] /\ \A t \in Threads : ThreadSound(t)' BY <1>1 DEF ThreadsMove
<1>7. drain' \in [scenario'.drains -> DrainType] /\ \A d \in scenario'.drains : DrainSound(d)'
  BY <1>1, <1>2 DEF DrainsMove
<1>8. \A i \in Items : ClaimSound(i)' BY <1>1, ClaimsSound
<1>9. applied' \subseteq RowIDs' BY <1>1, RowsStay DEF OriginMoves
<1>10. row'.runsDone = Cardinality({i \in Items : PaidRuns(i)' # {}}) BY <1>1 DEF OriginMoves
<1> QED BY <1>2, <1>3, <1>4, <1>5, <1>6, <1>7, <1>8, <1>9, <1>10 DEF Sound

----------------------------------------------------------------------------
(* What a step leaves alone, and what it may write.                         *)

\* The outbox is left alone.
LEMMA SameOutbox ==
  ASSUME Sound, outbox' = outbox, scenario' = scenario
  PROVE  OutMoves /\ AckMoves
<1>1. outbox \in Seq(RowType) /\ OneRowPerKey /\ \A e \in RowIDs : KeySound(e)
  BY DEF Sound, OutboxSound
<1>2. Len(outbox) \in Nat BY <1>1
<1>3. RowIDs' = RowIDs BY DEF RowIDs
<1>4. \A e \in RowIDs' : KeySound(e)' BY <1>1, <1>3 DEF KeySound, HasCrash
<1>5. OneRowPerKey' BY <1>1, <1>3 DEF OneRowPerKey, SameKey
<1>6. OutMoves BY <1>1, <1>2, <1>3, <1>4, <1>5 DEF OutMoves
<1> QED BY <1>6 DEF AckMoves

\* An item that is left alone stays sound.
LEMMA ItemStays ==
  ASSUME Sound, OutMoves, scenario' = scenario, NEW i \in Items, items'[i] = items[i]
  PROVE  ItemSound(i)' /\ ItemMoves(i)
<1>1. ItemSound(i) BY DEF Sound
<1>2. ItemSound(i)'
  <2>1. (items'[i].found \/ items'[i].find # "") => HasCrash' BY <1>1 DEF ItemSound, HasCrash
  <2>2. (items[i].runRow # NoRowID => RunRowOf(items[i].runRow, i))'
    BY <1>1, RowsStay DEF ItemSound, RunRowOf
  <2>3. items'[i].findRow \in RowIDs' \cup {NoRowID} BY <1>1, RowsStay DEF ItemSound
  <2>4. items'[i].run = "paid" => items'[i].runRow \in RowIDs'
                                   /\ outbox'[items'[i].runRow].status = "applied"
    BY <1>1, RowsStay DEF ItemSound, OutMoves
  <2> QED BY <2>1, <2>2, <2>3, <2>4 DEF ItemSound
<1>3. items[i].run \in UnpaidRun => Claim(i, Floor(items[i].run)) BY DEF Claim
<1> QED BY <1>2, <1>3 DEF ItemMoves

\* The items are left alone.
LEMMA SameItems ==
  ASSUME Sound, OutMoves, scenario' = scenario, items' = items
  PROVE  ItemsMove
<1>1. items' \in [Items -> ItemType] BY DEF Sound
<1> QED BY <1>1, ItemStays DEF ItemsMove

\* One item is written.
LEMMA OneItem ==
  ASSUME Sound, OutMoves, scenario' = scenario, NEW i \in Items,
         items' \in [Items -> ItemType], \A j \in Items : j # i => items'[j] = items[j],
         ItemSound(i)', ItemMoves(i)
  PROVE  ItemsMove
  BY ItemStays DEF ItemsMove

\* A thread that is left alone stays sound.
LEMMA ThreadStays ==
  ASSUME Sound, OutMoves, scenario' = scenario, NEW t \in Threads, th'[t] = th[t]
  PROVE  ThreadSound(t)' /\ ThreadMoves(t)
<1>1. ThreadSound(t) BY DEF Sound
<1>2. /\ th'[t].pc \in {"insert", "stamp"} => th'[t].outcome = "crash"
      /\ th'[t].outcome = "crash" => HasCrash'
      /\ th'[t].read.find # "" => HasCrash'
      /\ th'[t].pc = "write" => th'[t].next # ""
  BY <1>1 DEF ThreadSound, HasCrash
<1>3. (th[t].read.runRow # NoRowID => RunRowOf(th[t].read.runRow, th[t].item))'
  <2>1. th[t].read.runRow # NoRowID => RunRowOf(th[t].read.runRow, th[t].item) BY <1>1 DEF ThreadSound
  <2> QED BY <2>1, RowsStay DEF RunRowOf
<1>4. th'[t].read.findRow \in RowIDs' \cup {NoRowID} /\ (th'[t].pc = "stampFind" => th'[t].id \in RowIDs')
  BY <1>1, RowsStay DEF ThreadSound
<1>5. (th[t].pc = "stampRun" => /\ th[t].read.run \in UnpaidRun
                                /\ RunRowOf(th[t].id, th[t].item)
                                /\ th[t].paid => outbox[th[t].id].status = "applied")'
  <2>1. th[t].pc = "stampRun" => /\ th[t].read.run \in UnpaidRun
                                 /\ RunRowOf(th[t].id, th[t].item)
                                 /\ th[t].paid => outbox[th[t].id].status = "applied"
    BY <1>1 DEF ThreadSound
  <2> QED BY <2>1, RowsStay DEF RunRowOf, OutMoves
<1>6. ThreadSound(t)' BY <1>2, <1>3, <1>4, <1>5 DEF ThreadSound
<1>7. ThreadMoves(t)
  <2>1. th[t].read.run \in UnpaidRun => Claim(th[t].item, Floor(th[t].read.run)) BY DEF Claim
  <2>2. \A i \in Items, b \in BOOLEAN : <<i, b>> \in th[t].todo => Claim(i, b) BY DEF Claim
  <2> QED BY <2>1, <2>2 DEF ThreadMoves
<1> QED BY <1>6, <1>7

\* The threads are left alone.
LEMMA SameThreads ==
  ASSUME Sound, OutMoves, scenario' = scenario, th' = th
  PROVE  ThreadsMove
<1>1. th' \in [Threads -> ThreadType] BY DEF Sound
<1> QED BY <1>1, ThreadStays DEF ThreadsMove

\* One thread goes on.
LEMMA OneThread ==
  ASSUME Sound, OutMoves, scenario' = scenario, NEW t \in Threads, NEW n \in ThreadType,
         th' = [th EXCEPT ![t] = n], ThreadSound(t)', ThreadMoves(t)
  PROVE  ThreadsMove
<1>1. th \in [Threads -> ThreadType] BY DEF Sound
<1>2. th' \in [Threads -> ThreadType] /\ \A u \in Threads : u # t => th'[u] = th[u] BY <1>1
<1> QED BY <1>2, ThreadStays DEF ThreadsMove

\* A drain that is left alone stays sound.
LEMMA DrainStays ==
  ASSUME Sound, OutMoves, scenario' = scenario, RowMoves(row, row'), applied \subseteq applied',
         NEW d \in scenario.drains, drain'[d] = drain[d]
  PROVE  DrainSound(d)'
<1>1. DrainSound(d) BY DEF Sound
<1>2. drain[d].batch \cup drain[d].acked \subseteq RowIDs BY <1>1 DEF DrainSound
<1>3. ASSUME NEW e \in drain[d].acked, Counts(e)' PROVE Settled(e)'
  <2>1. e \in RowIDs BY <1>2
  <2>2. Counts(e) BY <1>3, <2>1, CountsStay
  <2>3. Settled(e) BY <1>1, <2>2 DEF DrainSound
  <2> QED BY <2>1, <2>3, SettledStays
<1>4. drain'[d].batch \cup drain'[d].acked \subseteq RowIDs' BY <1>2, RowsStay
<1> QED BY <1>1, <1>3, <1>4 DEF DrainSound

\* The drains are left alone.
LEMMA SameDrains ==
  ASSUME Sound, OutMoves, scenario' = scenario, RowMoves(row, row'), applied \subseteq applied',
         drain' = drain
  PROVE  DrainsMove
<1>1. drain' \in [scenario.drains -> DrainType] BY DEF Sound
<1> QED BY <1>1, DrainStays DEF DrainsMove

\* One drain goes on.
LEMMA OneDrain ==
  ASSUME Sound, OutMoves, scenario' = scenario, RowMoves(row, row'), applied \subseteq applied',
         NEW d \in scenario.drains, NEW n \in DrainType,
         drain' = [drain EXCEPT ![d] = n], DrainSound(d)'
  PROVE  DrainsMove
<1>1. drain \in [scenario.drains -> DrainType] BY DEF Sound
<1>2. /\ drain' \in [scenario.drains -> DrainType]
      /\ \A c \in scenario.drains : c # d => drain'[c] = drain[c]
  BY <1>1
<1> QED BY <1>2, DrainStays DEF DrainsMove

\* What the chain has paid of an item is read off rows that do not change.
LEMMA PaidStays ==
  ASSUME Sound, OutMoves, applied' = applied, NEW i
  PROVE  PaidRuns(i)' = PaidRuns(i)
<1>1. applied \subseteq RowIDs BY DEF Sound
<1>2. \A e \in applied : outbox'[e].item = outbox[e].item /\ outbox'[e].kind = outbox[e].kind
  BY <1>1 DEF OutMoves
<1> QED BY <1>2 DEF PaidRuns

\* The count of the runs paid does not change with the outbox.
LEMMA CountStays ==
  ASSUME Sound, OutMoves, applied' = applied, row'.runsDone = row.runsDone
  PROVE  row'.runsDone = Cardinality({i \in Items : PaidRuns(i)' # {}})
<1>1. {i \in Items : PaidRuns(i)' # {}} = {i \in Items : PaidRuns(i) # {}} BY PaidStays
<1>2. row.runsDone = Cardinality({i \in Items : PaidRuns(i) # {}}) BY DEF Sound
<1> QED BY <1>1, <1>2

\* The origin is left alone.
LEMMA SameOrigin ==
  ASSUME Sound, OutMoves, scenario' = scenario, row' = row, applied' = applied
  PROVE  OriginMoves /\ RowMoves(row, row') /\ applied \subseteq applied'
<1>1. RowMoves(row, row') BY RowStays DEF Sound
<1>2. RefundSound' BY DEF Sound, RefundSound
<1>3. applied' \subseteq RowIDs BY DEF Sound
<1>4. row'.runsDone = Cardinality({i \in Items : PaidRuns(i)' # {}}) BY CountStays
<1> QED BY <1>1, <1>2, <1>3, <1>4 DEF OriginMoves

\* The coordinator works while the origin and the drains are left alone.
LEMMA CoordinatorMoves ==
  ASSUME Sound, SceneMoves, OutMoves, AckMoves, ItemsMove, ThreadsMove,
         origin' = origin, drain' = drain
  PROVE  Moves
<1>1. scenario' = scenario /\ row' = row /\ applied' = applied BY DEF SceneMoves, origin
<1>2. OriginMoves /\ RowMoves(row, row') /\ applied \subseteq applied' BY <1>1, SameOrigin
<1>3. DrainsMove BY <1>1, <1>2, SameDrains
<1> QED BY <1>2, <1>3 DEF Moves

\* The campaign and the fault count are left alone.
LEMMA SameScene ==
  ASSUME Sound, scenario' = scenario, campaign' = campaign, faults' = faults
  PROVE  SceneMoves
  BY DEF Sound, SceneMoves

\* One more fault.
LEMMA FaultScene ==
  ASSUME Sound, scenario' = scenario, campaign' = campaign, Fault
  PROVE  SceneMoves
<1>1. scenario.faults \in Nat BY Constants DEF Sound
<1> QED BY <1>1 DEF Sound, SceneMoves, Fault

----------------------------------------------------------------------------
(* Rows are enqueued and acknowledged.                                      *)

\* A key the coordinator may enqueue.
KeyOK(kind, miner, item) ==
  /\ kind \in Kinds /\ miner \in Miners \cup {NoOne} /\ item \in Nat
  /\ kind \in RunKinds => /\ item \in Items /\ miner = Miner[item]
                          /\ Claim(item, kind = "run_floor")
  /\ kind \in {"finding", "crash_bonus"} => miner \in Miners /\ HasCrash
  /\ kind = "finalize" => item = 0 /\ miner = NoOne

\* EnqueueSettleOutbox writes at most one row, of a key that had none, and returns
\* the row of the key.
LEMMA EnqueueMoves ==
  ASSUME Sound, scenario' = scenario, NEW kind, NEW miner, NEW item, NEW id,
         KeyOK(kind, miner, item), Enqueue(kind, miner, item, id)
  PROVE  /\ OutMoves /\ AckMoves
         /\ id \in RowIDs' /\ id \in Nat
         /\ outbox'[id].kind = kind /\ outbox'[id].item = item
<1>1. outbox \in Seq(RowType) /\ OneRowPerKey /\ \A e \in RowIDs : KeySound(e)
  BY DEF Sound, OutboxSound
<1>2. Len(outbox) \in Nat BY <1>1
<1>3. CASE Kept(kind, miner, item) # {}
  <2>1. id \in Kept(kind, miner, item) /\ outbox' = outbox BY <1>3 DEF Enqueue
  <2>2. id \in RowIDs /\ outbox[id].kind = kind /\ outbox[id].item = item
    BY <2>1 DEF Kept, SameKey
  <2>3. id \in RowIDs' /\ id \in Nat BY <1>2, <2>1, <2>2 DEF RowIDs
  <2> QED BY <2>1, <2>2, <2>3, SameOutbox
<1>4. CASE Kept(kind, miner, item) = {}
  <2> DEFINE r == NewRow(kind, miner, item)
  <2>0. PICK n \in Nat : n = Len(outbox) + 1 BY <1>2
  <2>1. id = n /\ outbox' = Append(outbox, r) BY <1>4, <2>0 DEF Enqueue
  <2>2. /\ r \in RowType /\ r.kind = kind /\ r.miner = miner /\ r.item = item
        /\ r.status = "pending"
    BY DEF KeyOK, NewRow, RowType, Miners
  <2> HIDE DEF r
  <2>3. /\ outbox' \in Seq(RowType) /\ Len(outbox') = n
        /\ \A e \in RowIDs : outbox'[e] = outbox[e]
        /\ outbox'[n] = r
    BY <1>1, <2>0, <2>1, <2>2 DEF RowIDs
  <2>4. /\ RowIDs' = RowIDs \cup {n} /\ n \notin RowIDs /\ n \in Nat
    BY <1>2, <2>0, <2>3 DEF RowIDs
  <2>5. \A e \in RowIDs' : KeySound(e)'
    <3>1. KeySound(n)' BY <2>2, <2>3 DEF KeySound, KeyOK, HasCrash
    <3>2. \A e \in RowIDs : KeySound(e)' BY <1>1, <2>3 DEF KeySound, HasCrash
    <3> QED BY <2>4, <3>1, <3>2
  <2>6. OneRowPerKey'
    <3> SUFFICES ASSUME NEW e \in RowIDs', NEW f \in RowIDs',
                        SameKey(outbox'[e], outbox'[f].kind, outbox'[f].miner, outbox'[f].item)
                 PROVE  e = f
      BY Zenon DEF OneRowPerKey
    <3>1. \A g \in RowIDs : ~SameKey(outbox[g], kind, miner, item) BY <1>4 DEF Kept
    <3>2. CASE e \in RowIDs /\ f \in RowIDs BY <1>1, <2>3, <3>2 DEF OneRowPerKey
    <3>3. CASE e = n /\ f \in RowIDs BY <2>2, <2>3, <3>1, <3>3 DEF SameKey
    <3>4. CASE f = n /\ e \in RowIDs BY <2>2, <2>3, <3>1, <3>4 DEF SameKey
    <3> QED BY <2>4, <3>2, <3>3, <3>4
  <2>7. \A e \in RowIDs' \ RowIDs :
          /\ outbox'[e].status = "pending"
          /\ outbox'[e].kind \in RunKinds => Claim(outbox'[e].item, outbox'[e].kind = "run_floor")
    BY <2>2, <2>3, <2>4 DEF KeyOK
  <2>8. Len(outbox) <= Len(outbox') BY <1>2, <2>0, <2>3
  <2>9. OutMoves BY <2>3, <2>5, <2>6, <2>7, <2>8 DEF OutMoves
  <2>10. AckMoves BY <2>3 DEF AckMoves
  <2> QED BY <2>1, <2>2, <2>3, <2>4, <2>9, <2>10
<1> QED BY <1>3, <1>4

\* An acknowledgement changes the status of its rows.
LEMMA AckedMoves ==
  ASSUME Sound, scenario' = scenario, NEW S \in SUBSET RowIDs, outbox' = Acked(S),
         \A e \in S : Counts(e) => Settled(e)'
  PROVE  /\ OutMoves /\ AckMoves
         /\ RowIDs' = RowIDs /\ \A e \in S : outbox'[e].status = "applied"
<1>1. outbox \in Seq(RowType) /\ OneRowPerKey /\ \A e \in RowIDs : KeySound(e)
  BY DEF Sound, OutboxSound
<1>2. Len(outbox) \in Nat /\ \A e \in RowIDs : outbox[e] \in RowType BY <1>1 DEF RowIDs
<1>3. \A e \in RowIDs : outbox'[e] = IF e \in S THEN [outbox[e] EXCEPT !.status = "applied"]
                                     ELSE outbox[e]
  BY DEF Acked
<1>4. ASSUME NEW e \in RowIDs
      PROVE  /\ outbox'[e] \in RowType
             /\ outbox'[e].kind = outbox[e].kind /\ outbox'[e].miner = outbox[e].miner
             /\ outbox'[e].item = outbox[e].item
             /\ outbox'[e].status = IF e \in S THEN "applied" ELSE outbox[e].status
  BY <1>2, <1>3 DEF RowType
<1>5. outbox' \in Seq(RowType) /\ Len(outbox') = Len(outbox)
  <2> DEFINE n == Len(outbox)
             g(e) == IF e \in S THEN [outbox[e] EXCEPT !.status = "applied"] ELSE outbox[e]
             f == [e \in 1..n |-> g(e)]
  <2>1. outbox' = f BY Zenon DEF Acked, RowIDs
  <2>2. \A e \in 1..n : g(e) \in RowType BY <1>3, <1>4 DEF RowIDs
  <2>3. n \in Nat BY <1>2
  <2> HIDE DEF n, g
  <2>4. f \in [1..n -> RowType] BY <2>2
  <2>5. f \in Seq(RowType) /\ Len(f) = n BY <2>3, <2>4
  <2> QED BY <2>1, <2>5 DEF n
<1>6. RowIDs' = RowIDs BY <1>5 DEF RowIDs
<1>7. \A e \in RowIDs' : KeySound(e)' BY <1>1, <1>4, <1>6 DEF KeySound, HasCrash
<1>8. OneRowPerKey' BY <1>1, <1>4, <1>6 DEF OneRowPerKey, SameKey
<1>9. OutMoves BY <1>2, <1>4, <1>5, <1>6, <1>7, <1>8 DEF OutMoves
<1>10. AckMoves BY <1>4 DEF AckMoves
<1> QED BY <1>4, <1>6, <1>9, <1>10

\* A promotion pays intents whose rows are settled.
LEMMA PromotedMoves ==
  ASSUME Sound, OutMoves, scenario' = scenario, NEW S \in SUBSET RowIDs,
         items' = Promoted(S), \A e \in S : outbox'[e].status = "applied"
  PROVE  ItemsMove
<1>1. items \in [Items -> ItemType] BY DEF Sound
<1> DEFINE run(i) == IF items[i].run \in UnpaidRun /\ items[i].runRow \in S THEN "paid" ELSE items[i].run
           find(i) == IF items[i].find \in UnpaidFind /\ items[i].findRow \in S THEN "paid" ELSE items[i].find
<1>2. ASSUME NEW i \in Items
      PROVE  /\ items'[i] \in ItemType /\ items'[i].status = items[i].status
             /\ items'[i].run = run(i) /\ items'[i].find = find(i)
             /\ items'[i].runRow = items[i].runRow /\ items'[i].findRow = items[i].findRow
             /\ items'[i].found = items[i].found
  <2>1. items[i] \in ItemType BY <1>1
  <2>2. items'[i] = [items[i] EXCEPT !.run = run(i), !.find = find(i)]
    BY <2>1 DEF Promoted, ItemType
  <2>3. run(i) \in RunStatus /\ find(i) \in FindStatus
    BY <2>1 DEF ItemType, RunStatus, FindStatus
  <2> HIDE DEF run, find
  <2> QED BY <2>1, <2>2, <2>3 DEF ItemType
<1>3. items' \in [Items -> ItemType]
  <2>1. DOMAIN items' = Items /\ items' = [i \in Items |-> items'[i]] BY DEF Promoted
  <2> QED BY <1>2, <2>1
<1>4. ASSUME NEW i \in Items PROVE ItemSound(i)'
  <2>1. ItemSound(i) BY DEF Sound
  <2>2. (items'[i].found \/ items'[i].find # "") => HasCrash'
    BY <1>2, <2>1 DEF ItemSound, HasCrash, UnpaidFind
  <2>3. (items[i].runRow # NoRowID => RunRowOf(items[i].runRow, i))'
    <3>1. items'[i].runRow = items[i].runRow BY <1>2
    <3>2. items[i].runRow # NoRowID => RunRowOf(items[i].runRow, i) BY <2>1 DEF ItemSound
    <3> QED BY <3>1, <3>2, RowsStay DEF RunRowOf
  <2>4. items'[i].findRow \in RowIDs' \cup {NoRowID} BY <1>2, <2>1, RowsStay DEF ItemSound
  <2>5. items'[i].run = "paid" => items'[i].runRow \in RowIDs'
                                   /\ outbox'[items'[i].runRow].status = "applied"
    <3>1. CASE items[i].run \in UnpaidRun /\ items[i].runRow \in S
      BY <1>2, <3>1, RowsStay
    <3>2. CASE ~(items[i].run \in UnpaidRun /\ items[i].runRow \in S)
      <4>1. items'[i].run = items[i].run /\ items'[i].runRow = items[i].runRow BY <1>2, <3>2
      <4>2. items[i].run = "paid" => items[i].runRow \in RowIDs
                                       /\ outbox[items[i].runRow].status = "applied"
        BY <2>1 DEF ItemSound
      <4> QED BY <4>1, <4>2, RowsStay DEF OutMoves
    <3> QED BY <3>1, <3>2
  <2> QED BY <2>2, <2>3, <2>4, <2>5 DEF ItemSound
<1>5. ASSUME NEW i \in Items PROVE ItemMoves(i)
  <2>1. items[i].run \in UnpaidRun => Claim(i, Floor(items[i].run)) BY DEF Claim
  <2> QED BY <1>2, <2>1 DEF ItemMoves, UnpaidRun
<1> QED BY <1>3, <1>4, <1>5 DEF ItemsMove

----------------------------------------------------------------------------
(* Threads start, go on and end.                                            *)

\* The initial records have their types.
LEMMA Records ==
  /\ Leased \in ItemType /\ Idle \in ThreadType /\ NoDrain \in DrainType
  /\ Leased.run = "" /\ Leased.runRow = NoRowID /\ Leased.find = ""
  /\ Leased.findRow = NoRowID /\ Leased.found = FALSE /\ Leased.status = "leased"
  /\ Idle.read = Leased /\ Idle.todo = {} /\ Idle.outcome = "reject" /\ Idle.pc = "idle"
  /\ NoDrain.pc = "idle" /\ NoDrain.batch = {} /\ NoDrain.acked = {} /\ ~NoDrain.failed
<1>1. Leased \in ItemType
  BY DEF Leased, ItemType, RunStatus, FindStatus, NoRowID
<1>2. 1 \in Items BY Constants
<1>3. Idle \in ThreadType
  <2> HIDE DEF Leased
  <2> QED BY <1>1, <1>2 DEF Idle, ThreadType, PCs, NoRowID
<1>4. NoDrain \in DrainType BY DEF NoDrain, DrainType
<1> QED BY <1>1, <1>3, <1>4 DEF Leased, Idle, NoDrain

\* A thread starts with nothing read.
LEMMA ThreadStarts ==
  ASSUME Sound, OutMoves, scenario' = scenario, NEW t \in Threads, NEW n \in ThreadType,
         th' = [th EXCEPT ![t] = n], n.read = Leased,
         n.pc \notin {"stampRun", "stampFind", "write"},
         n.pc \in {"insert", "stamp"} => n.outcome = "crash", n.outcome = "crash" => HasCrash,
         \A i \in Items, b \in BOOLEAN : <<i, b>> \in n.todo => Claim(i, b)
  PROVE  ThreadsMove
<1>1. th'[t] = n BY DEF Sound
<1>2. ThreadSound(t)' BY <1>1, Records DEF ThreadSound, HasCrash
<1>3. ThreadMoves(t) BY <1>1, Records DEF ThreadMoves, UnpaidRun
<1> QED BY <1>2, <1>3, OneThread

\* A thread ends.
LEMMA ThreadEnds ==
  ASSUME Sound, OutMoves, scenario' = scenario, NEW t \in Threads, Ends(t)
  PROVE  ThreadsMove
  BY Records, ThreadStarts DEF Ends

\* A thread goes on to its next statement, with what it knows.
LEMMA ThreadGoes ==
  ASSUME Sound, OutMoves, scenario' = scenario, NEW t \in Threads,
         NEW pc \in PCs \ {"stampRun", "stampFind", "write"}, Step(t, pc),
         pc \in {"insert", "stamp"} => th[t].outcome = "crash"
  PROVE  ThreadsMove
<1> DEFINE n == [th[t] EXCEPT !.pc = pc]
<1>1. th \in [Threads -> ThreadType] /\ th[t] \in ThreadType /\ ThreadSound(t) BY DEF Sound
<1>2. th' = [th EXCEPT ![t] = n] /\ th'[t] = n BY <1>1 DEF Step
<1>3. /\ n \in ThreadType /\ n.pc = pc /\ n.read = th[t].read /\ n.item = th[t].item
      /\ n.outcome = th[t].outcome /\ n.todo = th[t].todo
  <2>1. /\ n.pc = pc /\ n.read = th[t].read /\ n.item = th[t].item
        /\ n.outcome = th[t].outcome /\ n.todo = th[t].todo
    BY <1>1 DEF ThreadType
  <2>2. n \in ThreadType BY <1>1 DEF ThreadType
  <2> QED BY <2>1, <2>2
<1> HIDE DEF n
<1>4. ThreadSound(t)'
  <2>1. (th[t].read.runRow # NoRowID => RunRowOf(th[t].read.runRow, th[t].item))'
    <3>1. th[t].read.runRow # NoRowID => RunRowOf(th[t].read.runRow, th[t].item) BY <1>1 DEF ThreadSound
    <3> QED BY <1>2, <1>3, <3>1, RowsStay DEF RunRowOf
  <2>2. th'[t].read.findRow \in RowIDs' \cup {NoRowID} BY <1>1, <1>2, <1>3, RowsStay DEF ThreadSound
  <2>3. /\ th'[t].pc \in {"insert", "stamp"} => th'[t].outcome = "crash"
        /\ th'[t].outcome = "crash" => HasCrash'
        /\ th'[t].read.find # "" => HasCrash'
        /\ th'[t].pc \notin {"stampRun", "stampFind", "write"}
    BY <1>1, <1>2, <1>3 DEF ThreadSound, HasCrash
  <2> QED BY <2>1, <2>2, <2>3 DEF ThreadSound
<1>5. ThreadMoves(t)
  <2>1. th[t].read.run \in UnpaidRun => Claim(th[t].item, Floor(th[t].read.run)) BY DEF Claim
  <2>2. \A i \in Items, b \in BOOLEAN : <<i, b>> \in th[t].todo => Claim(i, b) BY DEF Claim
  <2> QED BY <1>2, <1>3, <2>1, <2>2 DEF ThreadMoves
<1> QED BY <1>2, <1>3, <1>4, <1>5, OneThread

\* A thread that only ends or goes on changes nothing else.
LEMMA ThreadOnly ==
  ASSUME Sound, SceneMoves, ThreadsMove, items' = items, outbox' = outbox, origin' = origin,
         drain' = drain
  PROVE  Moves
<1>1. scenario' = scenario BY DEF SceneMoves
<1>2. OutMoves /\ AckMoves BY <1>1, SameOutbox
<1>3. ItemsMove BY <1>1, <1>2, SameItems
<1> QED BY <1>2, <1>3, CoordinatorMoves

\* A thread that writes an item changes the item and itself.
LEMMA ThreadItem ==
  ASSUME Sound, SceneMoves, ThreadsMove, ItemsMove, outbox' = outbox, origin' = origin,
         drain' = drain
  PROVE  Moves
<1>1. scenario' = scenario BY DEF SceneMoves
<1>2. OutMoves /\ AckMoves BY <1>1, SameOutbox
<1> QED BY <1>2, CoordinatorMoves

----------------------------------------------------------------------------
(* The invariant holds at first.                                            *)

\* Every initial state is sound.
LEMMA InitSound == Init => Sound
<1> SUFFICES ASSUME Init PROVE Sound OBVIOUS
<1>1. /\ scenario \in Scenarios /\ campaign = "running" /\ faults = 0
      /\ items = [i \in Items |-> Leased] /\ outbox = << >>
      /\ th = [t \in Threads |-> Idle] /\ applied = {}
      /\ drain = [d \in scenario.drains |-> NoDrain]
      /\ row = OpenedRow(Price, NItems, scenario.split, NoFee)
  BY DEF Init
<1>2. scenario.faults \in Nat /\ SplitOK(Price, NItems, scenario.split) /\ scenario.split \in Splits
  BY <1>1, Constants
<1>3. GoodRow(row) /\ row.refundedBounty = 0 /\ row.runsDone = 0
  <2> DEFINE pool == RunsPoolUnits(Price, scenario.split)
             per == pool \div NItems
  <2>1. NItems \in Nat \ {0} /\ Price \in Nat BY PipelineAssumption
  <2>2. pool \in 0..Price BY <1>2, <2>1 DEF RunsPoolUnits, RunsTenths
  <2>3. per \in Nat BY <2>1, <2>2
  <2>4. per > 0
    <3>1. per >= (IF scenario.split = "50_50" THEN HuntMinPerShardUnits ELSE MinPerRunUnits)
      BY <1>2 DEF SplitOK
    <3> HIDE DEF per
    <3> QED BY <2>3, <3>1, OpsAssumption
  <2>5. row = [budget |-> Price, runsPool |-> pool, bountyPool |-> Price - pool,
               perRun |-> per, runsPaid |-> 0, bountyPaid |-> 0,
               crashBonus |-> 0, refundedBounty |-> 0, runsDone |-> 0,
               winner |-> NoOne, status |-> "open", split |-> scenario.split, fee |-> NoFee]
    BY <1>1 DEF OpenedRow
  <2> HIDE DEF pool, per
  <2>6. Price - pool \in Nat /\ pool \in Nat BY <2>1, <2>2
  <2>7. row \in EscrowRow BY <1>2, <2>1, <2>3, <2>5, <2>6 DEF EscrowRow
  <2> QED BY <2>4, <2>5, <2>6, <2>7 DEF GoodRow
<1>4. RowIDs = {} /\ outbox \in Seq(RowType) BY <1>1 DEF RowIDs
<1>5. OutboxSound BY <1>4 DEF OutboxSound, OneRowPerKey
<1>6. items \in [Items -> ItemType] /\ \A i \in Items : items[i] = Leased BY <1>1, Records
<1>7. \A i \in Items : ItemSound(i) BY <1>6, Records DEF ItemSound
<1>8. th \in [Threads -> ThreadType] /\ \A t \in Threads : th[t] = Idle BY <1>1, Records
<1>9. \A t \in Threads : ThreadSound(t) BY <1>8, Records DEF ThreadSound
<1>10. drain \in [scenario.drains -> DrainType] /\ \A d \in scenario.drains : drain[d] = NoDrain
  BY <1>1, Records
<1>11. \A d \in scenario.drains : DrainSound(d) BY <1>10, Records DEF DrainSound
<1>12. \A i \in Items : ClaimSound(i)
  <2>1. \A i \in Items, b \in BOOLEAN : ~Claim(i, b)
    BY <1>4, <1>6, <1>8, Records DEF Claim, UnpaidRun
  <2> QED BY <2>1 DEF ClaimSound
<1>13. {i \in Items : PaidRuns(i) # {}} = {} BY <1>1 DEF PaidRuns
<1>14. row.runsDone = Cardinality({i \in Items : PaidRuns(i) # {}}) BY <1>3, <1>13, FS_EmptySet
<1>15. RefundSound BY <1>3 DEF RefundSound
<1>16. faults \in 0..scenario.faults BY <1>1, <1>2
<1>17. applied \subseteq RowIDs BY <1>1
<1> QED BY <1>1, <1>3, <1>5, <1>6, <1>7, <1>8, <1>9, <1>10, <1>11, <1>12, <1>14, <1>15, <1>16, <1>17
    DEF Sound

----------------------------------------------------------------------------
(* The handlers of the coordinator, step by step.                           *)

\* A submit starts.
LEMMA StepSubmit ==
  ASSUME Sound, scenario' = scenario, NEW t \in Threads, NEW i \in Items,
         NEW o \in scenario.outcomes, Submit(t, i, o)
  PROVE  Moves
<1> DEFINE pc == IF Hunt /\ o = "crash" THEN "insert" ELSE "commit"
           n == [Idle EXCEPT !.pc = pc, !.item = i, !.outcome = o, !.accepts = AcceptsSettle,
                             !.then = "progress"]
<1>1. /\ th' = [th EXCEPT ![t] = n] /\ campaign' = campaign /\ faults' = faults
      /\ items' = items /\ outbox' = outbox /\ origin' = origin /\ drain' = drain
  BY DEF Submit, coordinator
<1>2. SceneMoves BY <1>1, SameScene
<1>3. o \in {"clean", "floor", "crash", "reject"} BY Constants DEF Sound
<1>4. AcceptsSettle \in BOOLEAN BY DEF AcceptsSettle
<1>5. pc \in {"insert", "commit"} /\ (pc = "insert" => o = "crash") OBVIOUS
<1> HIDE DEF pc
<1>6. /\ n \in ThreadType /\ n.read = Leased /\ n.pc = pc /\ n.outcome = o /\ n.todo = {}
  <2>1. Idle \in ThreadType /\ Idle.read = Leased /\ Idle.todo = {} BY Records
  <2>2. n.read = Leased /\ n.pc = pc /\ n.outcome = o /\ n.todo = {}
    BY <2>1 DEF ThreadType
  <2>3. pc \in PCs BY <1>5 DEF PCs
  <2>4. n \in ThreadType BY <1>3, <1>4, <2>1, <2>3 DEF ThreadType
  <2> QED BY <2>2, <2>4
<1> HIDE DEF n
<1>7. o = "crash" => HasCrash BY DEF HasCrash
<1>8. OutMoves BY <1>1, SameOutbox
<1>9. ThreadsMove BY <1>1, <1>5, <1>6, <1>7, <1>8, ThreadStarts
<1> QED BY <1>1, <1>2, <1>9, ThreadOnly

\* A tick starts.
LEMMA StepTick ==
  ASSUME Sound, scenario' = scenario, NEW t \in Threads, Tick(t)
  PROVE  Moves
<1> DEFINE n == [Idle EXCEPT !.pc = "read"]
<1>1. /\ th' = [th EXCEPT ![t] = n] /\ campaign' = campaign /\ faults' = faults
      /\ items' = items /\ outbox' = outbox /\ origin' = origin /\ drain' = drain
  BY DEF Tick, coordinator
<1>2. SceneMoves BY <1>1, SameScene
<1>3. /\ n \in ThreadType /\ n.read = Leased /\ n.pc = "read" /\ n.outcome = "reject" /\ n.todo = {}
  BY Records DEF ThreadType, PCs
<1> HIDE DEF n
<1>4. OutMoves BY <1>1, SameOutbox
<1>5. ThreadsMove BY <1>1, <1>3, <1>4, ThreadStarts
<1> QED BY <1>1, <1>2, <1>5, ThreadOnly

\* A cancellation starts with the campaign.
LEMMA StepCancel ==
  ASSUME Sound, scenario' = scenario, NEW t \in Threads, Cancel(t)
  PROVE  Moves
<1> DEFINE n == [Idle EXCEPT !.pc = "sweep"]
<1>1. /\ th' = [th EXCEPT ![t] = n] /\ campaign' = "cancelled" /\ faults' = faults
      /\ items' = items /\ outbox' = outbox /\ origin' = origin /\ drain' = drain
  BY DEF Cancel
<1>2. SceneMoves BY <1>1 DEF SceneMoves, Sound
<1>3. /\ n \in ThreadType /\ n.read = Leased /\ n.pc = "sweep" /\ n.outcome = "reject" /\ n.todo = {}
  BY Records DEF ThreadType, PCs
<1> HIDE DEF n
<1>4. OutMoves BY <1>1, SameOutbox
<1>5. ThreadsMove BY <1>1, <1>3, <1>4, ThreadStarts
<1> QED BY <1>1, <1>2, <1>5, ThreadOnly

\* A replay takes the unpaid runs down, each with its rate.
LEMMA StepReplay ==
  ASSUME Sound, scenario' = scenario, NEW t \in Threads, Replay(t)
  PROVE  Moves
<1> DEFINE U == {j \in Items : items[j].status = "done" /\ items[j].run \in UnpaidRun}
           T == {<<i, Floor(items[i].run)>> : i \in U}
           n == [Idle EXCEPT !.pc = "replay", !.todo = T]
<1>1. /\ th' = [th EXCEPT ![t] = n] /\ campaign' = campaign /\ faults' = faults
      /\ items' = items /\ outbox' = outbox /\ origin' = origin /\ drain' = drain
  BY DEF Replay, coordinator
<1>2. SceneMoves BY <1>1, SameScene
<1>3. T \in SUBSET (Items \X BOOLEAN)
  <2>1. \A i \in U : i \in Items /\ Floor(items[i].run) \in BOOLEAN BY DEF Floor
  <2> HIDE DEF U
  <2> QED BY <2>1
<1>4. ASSUME NEW i \in Items, NEW b \in BOOLEAN, <<i, b>> \in T PROVE Claim(i, b)
  <2>1. items[i].run \in UnpaidRun /\ b = Floor(items[i].run) BY <1>4
  <2> QED BY <2>1 DEF Claim
<1> HIDE DEF T
<1>5. /\ n \in ThreadType /\ n.read = Leased /\ n.pc = "replay" /\ n.outcome = "reject" /\ n.todo = T
  BY <1>3, Records DEF ThreadType, PCs
<1> HIDE DEF n
<1>6. OutMoves BY <1>1, SameOutbox
<1>7. ThreadsMove BY <1>1, <1>4, <1>5, <1>6, ThreadStarts
<1> QED BY <1>1, <1>2, <1>7, ThreadOnly

\* The item is committed once.
LEMMA StepCommit ==
  ASSUME Sound, scenario' = scenario, NEW t \in Threads, Commit(t)
  PROVE  Moves
<1> DEFINE o == th[t].outcome
           i == th[t].item
<1>1. /\ At(t, "commit") /\ campaign' = campaign /\ faults' = faults
      /\ outbox' = outbox /\ origin' = origin /\ drain' = drain
  BY DEF Commit
<1>2. SceneMoves BY <1>1, SameScene
<1>3. OutMoves BY <1>1, SameOutbox
<1>4. /\ th \in [Threads -> ThreadType] /\ th[t] \in ThreadType /\ ThreadSound(t)
      /\ items \in [Items -> ItemType]
  BY DEF Sound
<1>5. /\ i \in Items /\ items[i] \in ItemType /\ o \in {"clean", "floor", "crash", "reject"}
      /\ th[t].accepts \in BOOLEAN
  BY <1>4 DEF ThreadType
<1>6. CASE items[i].status = "leased"
  <2> DEFINE r == IF th[t].accepts THEN RunStamp(o) ELSE items[i].run
             pc == IF o = "crash" THEN IF Hunt THEN "stamp" ELSE "insert"
                   ELSE IF o = "reject" THEN "read" ELSE "flush"
             m == [items[i] EXCEPT !.status = "done", !.run = r]
  <2>1. items' = [items EXCEPT ![i] = m]
    <3>1. items' = [items EXCEPT ![i].status = "done",
                                 ![i].run = IF th[t].accepts THEN RunStamp(o) ELSE @]
      BY <1>6 DEF Commit, Cur
    <3> QED BY <1>4, <1>5, <3>1 DEF ItemType
  <2>2. Step(t, pc) BY <1>6 DEF Commit, Cur
  <2>3. RunStamp(o) \in {"", "pending", "pending_floor"} BY DEF RunStamp
  <2>4. r \in RunStatus /\ (r = "paid" => r = items[i].run)
    BY <1>5, <2>3 DEF RunStatus, ItemType, UnpaidRun
  <2>5. pc \in {"stamp", "insert", "read", "flush"} /\ (pc \in {"stamp", "insert"} => o = "crash")
    OBVIOUS
  <2> HIDE DEF r, pc
  <2>6. ThreadsMove BY <1>3, <2>2, <2>5, ThreadGoes DEF PCs
  <2>7. /\ m \in ItemType /\ m.status = "done" /\ m.run = r /\ m.find = items[i].find
        /\ m.runRow = items[i].runRow /\ m.findRow = items[i].findRow /\ m.found = items[i].found
    BY <1>5, <2>4 DEF ItemType
  <2> HIDE DEF m
  <2>8. PICK j \in Items : j = i BY <1>5
  <2> HIDE DEF i
  <2>9. /\ items' \in [Items -> ItemType] /\ items'[j] = m
        /\ \A k \in Items : k # j => items'[k] = items[k]
    BY <1>4, <2>1, <2>7, <2>8
  <2>10. ItemSound(j) BY DEF Sound
  <2>11. ItemSound(j)'
    <3>1. (items[j].found \/ items[j].find # "" => HasCrash)'
      BY <2>7, <2>8, <2>9, <2>10 DEF ItemSound, HasCrash
    <3>2. (items[j].runRow # NoRowID => RunRowOf(items[j].runRow, j))'
      <4>1. items[j].runRow # NoRowID => RunRowOf(items[j].runRow, j) BY <2>10 DEF ItemSound
      <4>2. items'[j].runRow = items[j].runRow BY <2>7, <2>8, <2>9
      <4> QED BY <1>3, <4>1, <4>2, RowsStay DEF RunRowOf
    <3>3. items'[j].findRow \in RowIDs' \cup {NoRowID}
      BY <1>3, <2>7, <2>8, <2>9, <2>10, RowsStay DEF ItemSound
    <3>4. items'[j].run = "paid" => items'[j].runRow \in RowIDs'
                                     /\ outbox'[items'[j].runRow].status = "applied"
      <4>1. items'[j].run = "paid" => items[j].run = "paid" BY <2>4, <2>7, <2>8, <2>9
      <4>2. items'[j].runRow = items[j].runRow BY <2>7, <2>8, <2>9
      <4> QED BY <1>1, <1>3, <2>10, <4>1, <4>2, RowsStay DEF ItemSound
    <3> QED BY <3>1, <3>2, <3>3, <3>4 DEF ItemSound
  <2>12. ItemMoves(j) BY <1>6, <2>7, <2>8, <2>9 DEF ItemMoves
  <2>13. ItemsMove BY <1>3, <2>9, <2>11, <2>12, OneItem
  <2> QED BY <1>1, <1>2, <2>6, <2>13, ThreadItem
<1>7. CASE items[i].status # "leased" /\ Hunt /\ items[i].status = "cancelled"
  <2>1. Ends(t) /\ items' = items BY <1>7 DEF Commit, Cur
  <2>2. ThreadsMove BY <1>3, <2>1, ThreadEnds
  <2> QED BY <1>1, <1>2, <2>1, <2>2, ThreadOnly
<1>8. CASE items[i].status # "leased" /\ ~(Hunt /\ items[i].status = "cancelled")
  <2> DEFINE n == [th[t] EXCEPT !.pc = "flush", !.outcome = "reject"]
  <2>1. th' = [th EXCEPT ![t] = n] /\ items' = items
    BY <1>4, <1>8 DEF Commit, Cur
  <2>2. /\ n \in ThreadType /\ n.pc = "flush" /\ n.read = th[t].read /\ n.item = th[t].item
        /\ n.outcome = "reject" /\ n.todo = th[t].todo
    BY <1>4 DEF ThreadType, PCs
  <2> HIDE DEF n
  <2>3. th'[t] = n BY <1>4, <2>1
  <2>4. ThreadSound(t)'
    <3>1. (th[t].read.runRow # NoRowID => RunRowOf(th[t].read.runRow, th[t].item))'
      <4>1. th[t].read.runRow # NoRowID => RunRowOf(th[t].read.runRow, th[t].item)
        BY <1>4 DEF ThreadSound
      <4> QED BY <1>3, <2>2, <2>3, <4>1, RowsStay DEF RunRowOf
    <3>2. th'[t].read.findRow \in RowIDs' \cup {NoRowID}
      BY <1>3, <1>4, <2>2, <2>3, RowsStay DEF ThreadSound
    <3> QED BY <1>4, <2>2, <2>3, <3>1, <3>2 DEF ThreadSound, HasCrash
  <2>5. ThreadMoves(t)
    <3>1. th[t].read.run \in UnpaidRun => Claim(th[t].item, Floor(th[t].read.run)) BY DEF Claim
    <3>2. \A j \in Items, b \in BOOLEAN : <<j, b>> \in th[t].todo => Claim(j, b) BY DEF Claim
    <3> QED BY <2>2, <2>3, <3>1, <3>2 DEF ThreadMoves
  <2>6. ThreadsMove BY <1>3, <2>1, <2>2, <2>4, <2>5, OneThread
  <2> QED BY <1>1, <1>2, <2>1, <2>6, ThreadOnly
<1> QED BY <1>6, <1>7, <1>8

\* The finding side of an item is written, the run side is not.
LEMMA FindingWritten ==
  ASSUME Sound, OutMoves, scenario' = scenario, HasCrash, NEW i \in Items, NEW m \in ItemType,
         items' = [items EXCEPT ![i] = m], m.status = items[i].status, m.run = items[i].run,
         m.runRow = items[i].runRow, m.findRow \in RowIDs' \cup {NoRowID}
  PROVE  ItemsMove
<1>1. items \in [Items -> ItemType] /\ ItemSound(i) BY DEF Sound
<1>2. /\ items' \in [Items -> ItemType] /\ items'[i] = m
      /\ \A k \in Items : k # i => items'[k] = items[k]
  BY <1>1
<1>3. ItemSound(i)'
  <2>1. HasCrash' BY DEF HasCrash
  <2>2. (items[i].runRow # NoRowID => RunRowOf(items[i].runRow, i))'
    <3>1. items[i].runRow # NoRowID => RunRowOf(items[i].runRow, i) BY <1>1 DEF ItemSound
    <3> QED BY <1>2, <3>1, RowsStay DEF RunRowOf
  <2>3. items'[i].run = "paid" => items'[i].runRow \in RowIDs'
                                   /\ outbox'[items'[i].runRow].status = "applied"
    BY <1>1, <1>2, RowsStay DEF ItemSound, OutMoves
  <2> QED BY <1>2, <2>1, <2>2, <2>3 DEF ItemSound
<1>4. ItemMoves(i)
  <2>1. items[i].run \in UnpaidRun => Claim(i, Floor(items[i].run)) BY DEF Claim
  <2> QED BY <1>2, <2>1 DEF ItemMoves
<1> QED BY <1>2, <1>3, <1>4, OneItem

\* A finding is recorded.
LEMMA StepInsertFinding ==
  ASSUME Sound, scenario' = scenario, NEW t \in Threads, InsertFinding(t)
  PROVE  Moves
<1> DEFINE i == th[t].item
           m == [items[i] EXCEPT !.found = TRUE]
           pc == IF Hunt THEN "commit" ELSE "stamp"
<1>1. /\ At(t, "insert") /\ campaign' = campaign /\ faults' = faults
      /\ outbox' = outbox /\ origin' = origin /\ drain' = drain /\ Step(t, pc)
  BY DEF InsertFinding
<1>2. SceneMoves BY <1>1, SameScene
<1>3. OutMoves BY <1>1, SameOutbox
<1>4. /\ th[t] \in ThreadType /\ ThreadSound(t) /\ items \in [Items -> ItemType] BY DEF Sound
<1>5. i \in Items /\ items[i] \in ItemType BY <1>4 DEF ThreadType
<1>6. th[t].outcome = "crash" /\ HasCrash BY <1>1, <1>4 DEF ThreadSound, At
<1>7. items' = [items EXCEPT ![i] = m] BY <1>4, <1>5 DEF InsertFinding, ItemType
<1>8. /\ m \in ItemType /\ m.status = items[i].status /\ m.run = items[i].run
      /\ m.runRow = items[i].runRow /\ m.findRow = items[i].findRow
  BY <1>5 DEF ItemType
<1> HIDE DEF m
<1>9. items[i].findRow \in RowIDs' \cup {NoRowID}
  <2>1. items[i].findRow \in RowIDs \cup {NoRowID} BY <1>5 DEF Sound, ItemSound
  <2> QED BY <1>3, <2>1, RowsStay
<1>10. ItemsMove BY <1>3, <1>5, <1>6, <1>7, <1>8, <1>9, FindingWritten
<1>11. ThreadsMove BY <1>1, <1>3, <1>6, ThreadGoes DEF PCs
<1> QED BY <1>1, <1>2, <1>10, <1>11, ThreadItem

\* The finding intent is stamped.
LEMMA StepStampFinding ==
  ASSUME Sound, scenario' = scenario, NEW t \in Threads, StampFinding(t)
  PROVE  Moves
<1> DEFINE i == th[t].item
           m == [items[i] EXCEPT !.find = "pending"]
<1>1. /\ At(t, "stamp") /\ campaign' = campaign /\ faults' = faults
      /\ outbox' = outbox /\ origin' = origin /\ drain' = drain /\ Step(t, "flush")
  BY DEF StampFinding
<1>2. SceneMoves BY <1>1, SameScene
<1>3. OutMoves BY <1>1, SameOutbox
<1>4. /\ th[t] \in ThreadType /\ ThreadSound(t) /\ items \in [Items -> ItemType] BY DEF Sound
<1>5. i \in Items /\ items[i] \in ItemType BY <1>4 DEF ThreadType
<1>6. th[t].outcome = "crash" /\ HasCrash BY <1>1, <1>4 DEF ThreadSound, At
<1>7. items' = [items EXCEPT ![i] = m] BY <1>4, <1>5 DEF StampFinding, ItemType
<1>8. /\ m \in ItemType /\ m.status = items[i].status /\ m.run = items[i].run
      /\ m.runRow = items[i].runRow /\ m.findRow = items[i].findRow
  BY <1>5 DEF ItemType, FindStatus, UnpaidFind
<1> HIDE DEF m
<1>9. items[i].findRow \in RowIDs' \cup {NoRowID}
  <2>1. items[i].findRow \in RowIDs \cup {NoRowID} BY <1>5 DEF Sound, ItemSound
  <2> QED BY <1>3, <2>1, RowsStay
<1>10. ItemsMove BY <1>3, <1>5, <1>6, <1>7, <1>8, <1>9, FindingWritten
<1>11. ThreadsMove BY <1>1, <1>3, ThreadGoes DEF PCs
<1> QED BY <1>1, <1>2, <1>10, <1>11, ThreadItem

\* A flush reads the item, and with it the item's claim.
LEMMA StepFlush ==
  ASSUME Sound, scenario' = scenario, NEW t \in Threads, Flush(t)
  PROVE  Moves
<1> DEFINE i == th[t].item
           n == [th[t] EXCEPT !.pc = "run", !.read = items[i]]
<1>1. /\ campaign' = campaign /\ faults' = faults /\ items' = items
      /\ outbox' = outbox /\ origin' = origin /\ drain' = drain
  BY DEF Flush, coordinator
<1>2. SceneMoves BY <1>1, SameScene
<1>3. OutMoves BY <1>1, SameOutbox
<1>4. /\ th \in [Threads -> ThreadType] /\ th[t] \in ThreadType /\ ThreadSound(t)
      /\ items \in [Items -> ItemType]
  BY DEF Sound
<1>5. i \in Items /\ items[i] \in ItemType BY <1>4 DEF ThreadType
<1>6. ItemSound(i) BY <1>5 DEF Sound
<1>7. th' = [th EXCEPT ![t] = n] /\ th'[t] = n BY <1>4 DEF Flush, Cur
<1>8. /\ n \in ThreadType /\ n.pc = "run" /\ n.read = items[i] /\ n.item = i
      /\ n.outcome = th[t].outcome /\ n.todo = th[t].todo
  BY <1>4, <1>5 DEF ThreadType, PCs
<1> HIDE DEF n
<1>9. ThreadSound(t)'
  <2>1. (th[t].read.runRow # NoRowID => RunRowOf(th[t].read.runRow, th[t].item))'
    <3>1. items[i].runRow # NoRowID => RunRowOf(items[i].runRow, i) BY <1>6 DEF ItemSound
    <3> QED BY <1>3, <1>7, <1>8, <3>1, RowsStay DEF RunRowOf
  <2>2. th'[t].read.findRow \in RowIDs' \cup {NoRowID}
    BY <1>3, <1>6, <1>7, <1>8, RowsStay DEF ItemSound
  <2>3. /\ th'[t].outcome = "crash" => HasCrash'
        /\ th'[t].read.find # "" => HasCrash'
    BY <1>4, <1>6, <1>7, <1>8 DEF ThreadSound, ItemSound, HasCrash
  <2> QED BY <1>7, <1>8, <2>1, <2>2, <2>3 DEF ThreadSound
<1>10. ThreadMoves(t)
  <2>1. items[i].run \in UnpaidRun => Claim(i, Floor(items[i].run)) BY DEF Claim
  <2>2. \A j \in Items, b \in BOOLEAN : <<j, b>> \in th[t].todo => Claim(j, b) BY DEF Claim
  <2> QED BY <1>7, <1>8, <2>1, <2>2 DEF ThreadMoves
<1>11. ThreadsMove BY <1>3, <1>7, <1>8, <1>9, <1>10, OneThread
<1> QED BY <1>1, <1>2, <1>11, ThreadOnly

\* The thread after relay, with the row id and whether it is paid.
LEMMA RelayThread ==
  ASSUME Sound, OutMoves, scenario' = scenario, NEW t \in Threads,
         NEW pc \in {"stampRun", "stampFind"}, NEW id \in Nat, id \in RowIDs', NEW paid \in BOOLEAN,
         th' = [th EXCEPT ![t].pc = pc, ![t].id = id, ![t].paid = paid],
         pc = "stampRun" => /\ th[t].read.run \in UnpaidRun
                            /\ outbox'[id].kind \in RunKinds /\ outbox'[id].item = th[t].item
                            /\ paid => outbox'[id].status = "applied"
  PROVE  ThreadsMove
<1> DEFINE n == [th[t] EXCEPT !.pc = pc, !.id = id, !.paid = paid]
<1>1. /\ th \in [Threads -> ThreadType] /\ th[t] \in ThreadType /\ ThreadSound(t) BY DEF Sound
<1>2. th' = [th EXCEPT ![t] = n] /\ th'[t] = n BY <1>1
<1>3. /\ n \in ThreadType /\ n.pc = pc /\ n.read = th[t].read /\ n.item = th[t].item
      /\ n.outcome = th[t].outcome /\ n.todo = th[t].todo /\ n.id = id /\ n.paid = paid
  BY <1>1 DEF ThreadType, PCs
<1> HIDE DEF n
<1>4. ThreadSound(t)'
  <2>1. (th[t].read.runRow # NoRowID => RunRowOf(th[t].read.runRow, th[t].item))'
    <3>1. th[t].read.runRow # NoRowID => RunRowOf(th[t].read.runRow, th[t].item)
      BY <1>1 DEF ThreadSound
    <3> QED BY <1>2, <1>3, <3>1, RowsStay DEF RunRowOf
  <2>2. th'[t].read.findRow \in RowIDs' \cup {NoRowID}
    BY <1>1, <1>2, <1>3, RowsStay DEF ThreadSound
  <2>3. /\ th'[t].outcome = "crash" => HasCrash'
        /\ th'[t].read.find # "" => HasCrash'
    BY <1>1, <1>2, <1>3 DEF ThreadSound, HasCrash
  <2>4. (th[t].pc = "stampRun" => /\ th[t].read.run \in UnpaidRun
                                  /\ RunRowOf(th[t].id, th[t].item)
                                  /\ th[t].paid => outbox[th[t].id].status = "applied")'
    BY <1>2, <1>3 DEF RunRowOf
  <2> QED BY <1>2, <1>3, <2>1, <2>2, <2>3, <2>4 DEF ThreadSound
<1>5. ThreadMoves(t)
  <2>1. th[t].read.run \in UnpaidRun => Claim(th[t].item, Floor(th[t].read.run)) BY DEF Claim
  <2>2. \A j \in Items, b \in BOOLEAN : <<j, b>> \in th[t].todo => Claim(j, b) BY DEF Claim
  <2> QED BY <1>2, <1>3, <2>1, <2>2 DEF ThreadMoves
<1> QED BY <1>2, <1>3, <1>4, <1>5, OneThread

\* The run intent of an item becomes its row.
LEMMA StepEnqueueRun ==
  ASSUME Sound, scenario' = scenario, NEW t \in Threads, EnqueueRun(t)
  PROVE  Moves
<1> DEFINE i == th[t].item
           run == th[t].read.run
           stamped == th[t].read.runRow
           kind == IF Floor(run) THEN "run_floor" ELSE "run"
<1>1. /\ campaign' = campaign /\ faults' = faults /\ items' = items
      /\ origin' = origin /\ drain' = drain
  BY DEF EnqueueRun
<1>2. SceneMoves BY <1>1, SameScene
<1>3. /\ th[t] \in ThreadType /\ ThreadSound(t) BY DEF Sound
<1>4. i \in Items /\ run \in RunStatus /\ stamped \in Nat BY <1>3 DEF ThreadType, ItemType
<1>5. CASE run \notin UnpaidRun
  <2>1. Step(t, "find") /\ outbox' = outbox BY <1>5 DEF EnqueueRun
  <2>2. OutMoves BY <2>1, SameOutbox
  <2>3. ThreadsMove BY <2>1, <2>2, ThreadGoes DEF PCs
  <2> QED BY <1>1, <1>2, <2>1, <2>3, ThreadOnly
<1>6. CASE run \in UnpaidRun
  <2>1. Relay(t, kind, stamped, "stampRun") BY <1>6 DEF EnqueueRun
  <2>2. PICK id \in 1..Len(outbox) + 1 :
          /\ IF stamped # NoRowID THEN id = stamped /\ UNCHANGED outbox
             ELSE Enqueue(kind, Miner[i], i, id)
          /\ th' = [th EXCEPT ![t].pc = "stampRun", ![t].id = id,
                      ![t].paid = stamped # NoRowID /\ outbox[id].status = "applied"]
    BY <2>1 DEF Relay
  <2> DEFINE paid == stamped # NoRowID /\ outbox[id].status = "applied"
  <2>3. CASE stamped # NoRowID
    <3>1. id = stamped /\ outbox' = outbox BY <2>2, <2>3
    <3>2. OutMoves /\ AckMoves BY <3>1, SameOutbox
    <3>3. RunRowOf(stamped, i) BY <1>3, <2>3 DEF ThreadSound
    <3>4. /\ id \in RowIDs' /\ outbox'[id].kind \in RunKinds /\ outbox'[id].item = th[t].item
          /\ id \in Nat
      BY <1>4, <3>1, <3>3 DEF RunRowOf, RowIDs
    <3>5. paid \in BOOLEAN /\ (paid => outbox'[id].status = "applied") BY <3>1
    <3>6. th' = [th EXCEPT ![t].pc = "stampRun", ![t].id = id, ![t].paid = paid] BY <2>2
    <3> HIDE DEF paid
    <3>7. ThreadsMove BY <1>6, <3>2, <3>4, <3>5, <3>6, RelayThread
    <3>8. ItemsMove BY <1>1, <3>2, SameItems
    <3> QED BY <1>1, <1>2, <3>2, <3>7, <3>8, CoordinatorMoves
  <2>4. CASE stamped = NoRowID
    <3>1. Enqueue(kind, Miner[i], i, id) BY <2>2, <2>4
    <3>2. kind \in RunKinds /\ kind \in Kinds /\ (kind = "run_floor") = Floor(run)
      BY DEF RunKinds, Kinds, Floor
    <3>3. Claim(i, Floor(run)) BY <1>6 DEF Claim
    <3>4. KeyOK(kind, Miner[i], i)
      <4>1. Miner[i] \in Miners /\ i \in Nat BY <1>4, Constants DEF Items
      <4>2. Claim(i, kind = "run_floor") BY <3>2, <3>3, Zenon
      <4>3. kind \notin {"finding", "crash_bonus", "finalize"} BY <3>2 DEF RunKinds
      <4> QED BY <1>4, <3>2, <4>1, <4>2, <4>3 DEF KeyOK
    <3> HIDE DEF kind
    <3>5. /\ OutMoves /\ AckMoves /\ id \in RowIDs' /\ id \in Nat
          /\ outbox'[id].kind = kind /\ outbox'[id].item = i
      BY <3>1, <3>4, EnqueueMoves
    <3>6. th' = [th EXCEPT ![t].pc = "stampRun", ![t].id = id, ![t].paid = FALSE]
      <4>1. paid = FALSE BY <2>4
      <4> QED BY <2>2, <4>1
    <3>7. ThreadsMove BY <1>6, <3>2, <3>5, <3>6, RelayThread
    <3>8. ItemsMove BY <1>1, <3>5, SameItems
    <3> QED BY <1>1, <1>2, <3>5, <3>7, <3>8, CoordinatorMoves
  <2> QED BY <2>3, <2>4
<1> QED BY <1>5, <1>6

\* The row is stamped on an item whose run is still unpaid.
LEMMA StepStampRun ==
  ASSUME Sound, scenario' = scenario, NEW t \in Threads, StampRun(t)
  PROVE  Moves
<1> DEFINE id == th[t].id
           st == NextStatus(th[t].read.run, th[t].paid)
<1>1. /\ At(t, "stampRun") /\ campaign' = campaign /\ faults' = faults
      /\ outbox' = outbox /\ origin' = origin /\ drain' = drain /\ Step(t, "find")
  BY DEF StampRun
<1>2. SceneMoves BY <1>1, SameScene
<1>3. OutMoves BY <1>1, SameOutbox
<1>4. /\ th[t] \in ThreadType /\ ThreadSound(t) /\ items \in [Items -> ItemType] BY DEF Sound
<1>5. PICK i \in Items : i = th[t].item BY <1>4 DEF ThreadType
<1>6. items[i] \in ItemType /\ id \in Nat /\ th[t].paid \in BOOLEAN
  BY <1>4, <1>5 DEF ThreadType
<1>7. ThreadsMove BY <1>1, <1>3, ThreadGoes DEF PCs
<1>8. CASE items[i].run \notin UnpaidRun
  <2>1. items' = items BY <1>5, <1>8 DEF StampRun, Cur
  <2> QED BY <1>1, <1>2, <1>7, <2>1, ThreadOnly
<1>9. CASE items[i].run \in UnpaidRun
  <2> DEFINE m == [items[i] EXCEPT !.runRow = id, !.run = st]
  <2>1. items' = [items EXCEPT ![i] = m] BY <1>4, <1>5, <1>9 DEF StampRun, Cur, ItemType
  <2>2. /\ th[t].read.run \in UnpaidRun /\ RunRowOf(id, i)
        /\ th[t].paid => outbox[id].status = "applied"
    BY <1>1, <1>4, <1>5 DEF ThreadSound, At
  <2>3. /\ st \in UnpaidRun \cup {"paid"} /\ (st = "paid" => th[t].paid)
        /\ st \in UnpaidRun => Floor(st) = Floor(th[t].read.run)
    BY <1>6, <2>2 DEF NextStatus, Floor, UnpaidRun
  <2>4. st \in RunStatus /\ st # "" BY <2>3 DEF RunStatus, UnpaidRun
  <2> HIDE DEF st
  <2>5. /\ m \in ItemType /\ m.status = items[i].status /\ m.run = st /\ m.find = items[i].find
        /\ m.runRow = id /\ m.findRow = items[i].findRow /\ m.found = items[i].found
    BY <1>6, <2>4 DEF ItemType
  <2> HIDE DEF m
  <2>6. /\ items' \in [Items -> ItemType] /\ items'[i] = m
        /\ \A k \in Items : k # i => items'[k] = items[k]
    BY <1>4, <2>1, <2>5
  <2>7. ItemSound(i) BY DEF Sound
  <2>8. ItemSound(i)'
    <3>1. (items[i].found \/ items[i].find # "" => HasCrash)'
      BY <2>5, <2>6, <2>7 DEF ItemSound, HasCrash
    <3>2. (items[i].runRow # NoRowID => RunRowOf(items[i].runRow, i))'
      BY <1>1, <2>2, <2>5, <2>6 DEF RunRowOf, RowIDs
    <3>3. items'[i].findRow \in RowIDs' \cup {NoRowID}
      BY <1>3, <2>5, <2>6, <2>7, RowsStay DEF ItemSound
    <3>4. items'[i].run = "paid" => items'[i].runRow \in RowIDs'
                                     /\ outbox'[items'[i].runRow].status = "applied"
      BY <1>1, <2>2, <2>3, <2>5, <2>6 DEF RunRowOf, RowIDs
    <3> QED BY <3>1, <3>2, <3>3, <3>4 DEF ItemSound
  <2>9. ItemMoves(i)
    <3>1. Claim(i, Floor(th[t].read.run)) BY <1>5, <2>2 DEF Claim
    <3>2. items'[i].run \in UnpaidRun => Claim(i, Floor(items'[i].run)) BY <2>3, <2>5, <2>6, <3>1
    <3> QED BY <1>9, <2>4, <2>5, <2>6, <3>2 DEF ItemMoves
  <2>10. ItemsMove BY <1>3, <2>6, <2>8, <2>9, OneItem
  <2> QED BY <1>1, <1>2, <1>7, <2>10, ThreadItem
<1> QED BY <1>8, <1>9

\* A row is enqueued by a thread that goes on or ends.
LEMMA ThreadEnqueues ==
  ASSUME Sound, SceneMoves, NEW kind, NEW miner, NEW item, NEW id, KeyOK(kind, miner, item),
         Enqueue(kind, miner, item, id), OutMoves => ThreadsMove, items' = items,
         origin' = origin, drain' = drain
  PROVE  Moves
<1>1. scenario' = scenario BY DEF SceneMoves
<1>2. OutMoves /\ AckMoves BY <1>1, EnqueueMoves
<1>3. ItemsMove BY <1>1, <1>2, SameItems
<1> QED BY <1>2, <1>3, CoordinatorMoves

\* The finding intent of an item becomes its row.
LEMMA StepEnqueueFinding ==
  ASSUME Sound, scenario' = scenario, NEW t \in Threads, EnqueueFinding(t)
  PROVE  Moves
<1> DEFINE i == th[t].item
           find == th[t].read.find
           stamped == th[t].read.findRow
<1>1. /\ campaign' = campaign /\ faults' = faults /\ items' = items
      /\ origin' = origin /\ drain' = drain
  BY DEF EnqueueFinding
<1>2. SceneMoves BY <1>1, SameScene
<1>3. /\ th[t] \in ThreadType /\ ThreadSound(t) BY DEF Sound
<1>4. i \in Items /\ stamped \in Nat BY <1>3 DEF ThreadType, ItemType
<1>5. CASE find \notin UnpaidFind
  <2>1. Step(t, "bonus") /\ outbox' = outbox BY <1>5 DEF EnqueueFinding
  <2>2. OutMoves BY <2>1, SameOutbox
  <2>3. ThreadsMove BY <2>1, <2>2, ThreadGoes DEF PCs
  <2> QED BY <1>1, <1>2, <2>1, <2>3, ThreadOnly
<1>6. CASE find \in UnpaidFind
  <2>1. Relay(t, "finding", stamped, "stampFind") BY <1>6 DEF EnqueueFinding
  <2>2. PICK id \in 1..Len(outbox) + 1 :
          /\ IF stamped # NoRowID THEN id = stamped /\ UNCHANGED outbox
             ELSE Enqueue("finding", Miner[i], i, id)
          /\ th' = [th EXCEPT ![t].pc = "stampFind", ![t].id = id,
                      ![t].paid = stamped # NoRowID /\ outbox[id].status = "applied"]
    BY <2>1 DEF Relay
  <2> DEFINE paid == stamped # NoRowID /\ outbox[id].status = "applied"
  <2>3. th' = [th EXCEPT ![t].pc = "stampFind", ![t].id = id, ![t].paid = paid] BY <2>2
  <2>4. paid \in BOOLEAN OBVIOUS
  <2> HIDE DEF paid
  <2>5. CASE stamped # NoRowID
    <3>1. id = stamped /\ outbox' = outbox BY <2>2, <2>5
    <3>2. OutMoves /\ AckMoves BY <3>1, SameOutbox
    <3>3. stamped \in RowIDs BY <1>3, <2>5 DEF ThreadSound
    <3>4. id \in RowIDs' /\ id \in Nat BY <1>4, <3>1, <3>3 DEF RowIDs
    <3>5. ThreadsMove BY <2>3, <2>4, <3>2, <3>4, RelayThread
    <3> QED BY <1>1, <1>2, <3>1, <3>5, ThreadOnly
  <2>6. CASE stamped = NoRowID
    <3>1. Enqueue("finding", Miner[i], i, id) BY <2>2, <2>6
    <3>2. HasCrash BY <1>3, <1>6 DEF ThreadSound, UnpaidFind
    <3>3. KeyOK("finding", Miner[i], i)
      <4>1. Miner[i] \in Miners /\ i \in Nat BY <1>4, Constants DEF Items
      <4> QED BY <3>2, <4>1 DEF KeyOK, Kinds, RunKinds
    <3>4. /\ OutMoves /\ AckMoves /\ id \in RowIDs' /\ id \in Nat BY <3>1, <3>3, EnqueueMoves
    <3>5. ThreadsMove BY <2>3, <2>4, <3>4, RelayThread
    <3> QED BY <1>1, <1>2, <3>1, <3>3, <3>5, ThreadEnqueues
  <2> QED BY <2>5, <2>6
<1> QED BY <1>5, <1>6

\* The row is stamped on an item whose finding is still unpaid.
LEMMA StepStampFind ==
  ASSUME Sound, scenario' = scenario, NEW t \in Threads, StampFind(t)
  PROVE  Moves
<1> DEFINE i == th[t].item
           id == th[t].id
           st == NextStatus(th[t].read.find, th[t].paid)
<1>1. /\ At(t, "stampFind") /\ campaign' = campaign /\ faults' = faults
      /\ outbox' = outbox /\ origin' = origin /\ drain' = drain /\ Step(t, "bonus")
  BY DEF StampFind
<1>2. SceneMoves BY <1>1, SameScene
<1>3. OutMoves BY <1>1, SameOutbox
<1>4. /\ th[t] \in ThreadType /\ ThreadSound(t) /\ items \in [Items -> ItemType] BY DEF Sound
<1>5. /\ i \in Items /\ items[i] \in ItemType /\ id \in Nat /\ th[t].paid \in BOOLEAN
      /\ th[t].read.find \in FindStatus
  BY <1>4 DEF ThreadType, ItemType
<1>6. ThreadsMove BY <1>1, <1>3, ThreadGoes DEF PCs
<1>7. CASE items[i].find \notin UnpaidFind
  <2>1. items' = items BY <1>7 DEF StampFind, Cur
  <2> QED BY <1>1, <1>2, <1>6, <2>1, ThreadOnly
<1>8. CASE items[i].find \in UnpaidFind
  <2> DEFINE m == [items[i] EXCEPT !.findRow = id, !.find = st]
  <2>1. items' = [items EXCEPT ![i] = m] BY <1>4, <1>8 DEF StampFind, Cur, ItemType
  <2>2. st \in FindStatus BY <1>5 DEF NextStatus, Floor, FindStatus, UnpaidFind
  <2> HIDE DEF st
  <2>3. /\ m \in ItemType /\ m.status = items[i].status /\ m.run = items[i].run
        /\ m.runRow = items[i].runRow /\ m.findRow = id
    BY <1>5, <2>2 DEF ItemType
  <2> HIDE DEF m
  <2>4. id \in RowIDs' \cup {NoRowID} BY <1>1, <1>3, <1>4, RowsStay DEF ThreadSound, At
  <2>5. HasCrash BY <1>5, <1>8 DEF Sound, ItemSound, UnpaidFind
  <2>6. ItemsMove BY <1>3, <1>5, <2>1, <2>3, <2>4, <2>5, FindingWritten
  <2> QED BY <1>1, <1>2, <1>6, <2>6, ThreadItem
<1> QED BY <1>7, <1>8

\* The crash bonus of a miner is enqueued.
LEMMA StepCrashBonus ==
  ASSUME Sound, scenario' = scenario, NEW t \in Threads, CrashBonus(t)
  PROVE  Moves
<1>1. /\ campaign' = campaign /\ faults' = faults /\ items' = items
      /\ origin' = origin /\ drain' = drain /\ Step(t, "read")
  BY DEF CrashBonus
<1>2. SceneMoves BY <1>1, SameScene
<1>3. OutMoves => ThreadsMove BY <1>1, ThreadGoes DEF PCs
<1>4. CASE th[t].outcome = "crash"
  <2>1. PICK id \in 1..Len(outbox) + 1 : Enqueue("crash_bonus", Miner[th[t].item], 0, id)
    BY <1>4 DEF CrashBonus
  <2>2. th[t] \in ThreadType /\ ThreadSound(t) BY DEF Sound
  <2>3. Miner[th[t].item] \in Miners BY <2>2, Constants DEF ThreadType
  <2>4. HasCrash BY <1>4, <2>2 DEF ThreadSound
  <2>5. KeyOK("crash_bonus", Miner[th[t].item], 0) BY <2>3, <2>4 DEF KeyOK, Kinds, RunKinds
  <2> QED BY <1>1, <1>2, <1>3, <2>1, <2>5, ThreadEnqueues
<1>5. CASE th[t].outcome # "crash"
  <2>1. outbox' = outbox BY <1>5 DEF CrashBonus
  <2>2. OutMoves BY <2>1, SameOutbox
  <2> QED BY <1>1, <1>2, <1>3, <2>1, <2>2, ThreadOnly
<1> QED BY <1>4, <1>5

\* The progress is read.
LEMMA StepReadProgress ==
  ASSUME Sound, scenario' = scenario, NEW t \in Threads, ReadProgress(t)
  PROVE  Moves
<1>1. /\ campaign' = campaign /\ faults' = faults /\ items' = items /\ outbox' = outbox
      /\ origin' = origin /\ drain' = drain
  BY DEF ReadProgress, coordinator
<1>2. PICK over \in {FALSE, scenario.timeBudget} :
        th' = [th EXCEPT ![t].pc = "write",
                         ![t].next = IF AllDone \/ over THEN "completed" ELSE campaign]
  BY DEF ReadProgress
<1> DEFINE next == IF AllDone \/ over THEN "completed" ELSE campaign
           n == [th[t] EXCEPT !.pc = "write", !.next = next]
<1>3. SceneMoves BY <1>1, SameScene
<1>4. OutMoves BY <1>1, SameOutbox
<1>5. /\ th \in [Threads -> ThreadType] /\ th[t] \in ThreadType /\ ThreadSound(t)
      /\ campaign \in {"running", "completed", "cancelled"}
  BY DEF Sound
<1>6. next \in {"running", "completed", "cancelled"} BY <1>5
<1>7. th' = [th EXCEPT ![t] = n] /\ th'[t] = n BY <1>2, <1>5
<1> HIDE DEF next
<1>8. /\ n \in ThreadType /\ n.pc = "write" /\ n.read = th[t].read /\ n.item = th[t].item
      /\ n.outcome = th[t].outcome /\ n.todo = th[t].todo /\ n.next = next
  BY <1>5, <1>6 DEF ThreadType, PCs
<1> HIDE DEF n
<1>9. ThreadSound(t)'
  <2>1. (th[t].read.runRow # NoRowID => RunRowOf(th[t].read.runRow, th[t].item))'
    <3>1. th[t].read.runRow # NoRowID => RunRowOf(th[t].read.runRow, th[t].item)
      BY <1>5 DEF ThreadSound
    <3> QED BY <1>4, <1>7, <1>8, <3>1, RowsStay DEF RunRowOf
  <2>2. th'[t].read.findRow \in RowIDs' \cup {NoRowID}
    BY <1>4, <1>5, <1>7, <1>8, RowsStay DEF ThreadSound
  <2>3. /\ th'[t].outcome = "crash" => HasCrash'
        /\ th'[t].read.find # "" => HasCrash'
        /\ th'[t].next # "" /\ th'[t].pc = "write"
    BY <1>5, <1>6, <1>7, <1>8 DEF ThreadSound, HasCrash
  <2> QED BY <2>1, <2>2, <2>3 DEF ThreadSound
<1>10. ThreadMoves(t)
  <2>1. th[t].read.run \in UnpaidRun => Claim(th[t].item, Floor(th[t].read.run)) BY DEF Claim
  <2>2. \A j \in Items, b \in BOOLEAN : <<j, b>> \in th[t].todo => Claim(j, b) BY DEF Claim
  <2> QED BY <1>7, <1>8, <2>1, <2>2 DEF ThreadMoves
<1>11. ThreadsMove BY <1>4, <1>7, <1>8, <1>9, <1>10, OneThread
<1> QED BY <1>1, <1>3, <1>11, ThreadOnly

\* The progress is written.
LEMMA StepWriteProgress ==
  ASSUME Sound, scenario' = scenario, NEW t \in Threads, WriteProgress(t)
  PROVE  Moves
<1>1. /\ campaign' = th[t].next /\ faults' = faults /\ items' = items /\ outbox' = outbox
      /\ origin' = origin /\ drain' = drain /\ th[t].pc = "write"
      /\ Step(t, "promote") \/ Ends(t)
  BY DEF WriteProgress, At
<1>2. SceneMoves
  <2>1. th[t] \in ThreadType /\ ThreadSound(t) BY DEF Sound
  <2>2. th[t].next \in {"running", "completed", "cancelled"} BY <1>1, <2>1 DEF ThreadType, ThreadSound
  <2> QED BY <1>1, <2>2 DEF SceneMoves, Sound
<1>3. OutMoves BY <1>1, SameOutbox
<1>4. ThreadsMove BY <1>1, <1>3, ThreadGoes, ThreadEnds DEF PCs
<1> QED BY <1>1, <1>2, <1>4, ThreadOnly

\* Intents of settled rows are healed before the gate looks.
LEMMA StepPromote ==
  ASSUME Sound, scenario' = scenario, NEW t \in Threads, Promote(t)
  PROVE  Moves
<1> DEFINE S == RowIDs \ Pending
<1>1. /\ campaign' = campaign /\ faults' = faults /\ items' = Promoted(S) /\ outbox' = outbox
      /\ origin' = origin /\ drain' = drain /\ Step(t, "count")
  BY DEF Promote
<1>2. SceneMoves BY <1>1, SameScene
<1>3. OutMoves BY <1>1, SameOutbox
<1>4. ThreadsMove BY <1>1, <1>3, ThreadGoes DEF PCs
<1>5. \A e \in S : outbox'[e].status = "applied"
  <2>1. \A e \in RowIDs : outbox[e] \in RowType BY DEF Sound, OutboxSound, RowIDs
  <2> QED BY <1>1, <2>1 DEF Pending, RowType
<1>6. S \in SUBSET RowIDs OBVIOUS
<1> HIDE DEF S
<1>7. ItemsMove BY <1>1, <1>3, <1>5, <1>6, PromotedMoves
<1> QED BY <1>1, <1>2, <1>4, <1>7, ThreadItem

\* The gate counts the pending rows.
LEMMA StepCountPending ==
  ASSUME Sound, scenario' = scenario, NEW t \in Threads, CountPending(t)
  PROVE  Moves
<1>1. /\ campaign' = campaign /\ faults' = faults /\ items' = items /\ outbox' = outbox
      /\ origin' = origin /\ drain' = drain /\ (Step(t, "unpaid") \/ Ends(t))
  BY DEF CountPending, coordinator
<1>2. SceneMoves BY <1>1, SameScene
<1>3. OutMoves BY <1>1, SameOutbox
<1>4. ThreadsMove BY <1>1, <1>3, ThreadGoes, ThreadEnds DEF PCs
<1> QED BY <1>1, <1>2, <1>4, ThreadOnly

\* The gate counts the unpaid intents.
LEMMA StepCountUnpaid ==
  ASSUME Sound, scenario' = scenario, NEW t \in Threads, CountUnpaid(t)
  PROVE  Moves
<1>1. /\ campaign' = campaign /\ faults' = faults /\ items' = items /\ outbox' = outbox
      /\ origin' = origin /\ drain' = drain /\ (Step(t, "finalize") \/ Ends(t))
  BY DEF CountUnpaid, coordinator
<1>2. SceneMoves BY <1>1, SameScene
<1>3. OutMoves BY <1>1, SameOutbox
<1>4. ThreadsMove BY <1>1, <1>3, ThreadGoes, ThreadEnds DEF PCs
<1> QED BY <1>1, <1>2, <1>4, ThreadOnly

\* The finalize row is enqueued.
LEMMA StepFinalize ==
  ASSUME Sound, scenario' = scenario, NEW t \in Threads, Finalize(t)
  PROVE  Moves
<1>1. /\ campaign' = campaign /\ faults' = faults /\ items' = items
      /\ origin' = origin /\ drain' = drain /\ Ends(t)
  BY DEF Finalize
<1>2. SceneMoves BY <1>1, SameScene
<1>3. PICK id \in 1..Len(outbox) + 1 : Enqueue("finalize", NoOne, 0, id) BY DEF Finalize
<1>4. KeyOK("finalize", NoOne, 0) BY DEF KeyOK, Kinds, RunKinds
<1>5. OutMoves => ThreadsMove BY <1>1, ThreadEnds
<1> QED BY <1>1, <1>2, <1>3, <1>4, <1>5, ThreadEnqueues

\* A cancellation sweeps the open items.
LEMMA StepSweep ==
  ASSUME Sound, scenario' = scenario, NEW t \in Threads, Sweep(t)
  PROVE  Moves
<1>1. /\ campaign' = campaign /\ faults' = faults /\ outbox' = outbox
      /\ origin' = origin /\ drain' = drain /\ Ends(t)
      /\ items' = [i \in Items |-> IF items[i].status = "leased"
                                   THEN [items[i] EXCEPT !.status = "cancelled"] ELSE items[i]]
  BY DEF Sweep
<1>2. SceneMoves BY <1>1, SameScene
<1>3. OutMoves BY <1>1, SameOutbox
<1>4. ThreadsMove BY <1>1, <1>3, ThreadEnds
<1>5. items \in [Items -> ItemType] BY DEF Sound
<1>6. ASSUME NEW i \in Items
      PROVE  /\ items'[i] \in ItemType /\ items'[i].run = items[i].run /\ items'[i].find = items[i].find
             /\ items'[i].runRow = items[i].runRow /\ items'[i].findRow = items[i].findRow
             /\ items'[i].found = items[i].found
             /\ items[i].status = "done" => items'[i].status = "done"
  <2>1. items[i] \in ItemType BY <1>5
  <2>2. CASE items[i].status = "leased"
    <3>1. items'[i] = [items[i] EXCEPT !.status = "cancelled"] BY <1>1, <2>2
    <3> QED BY <2>1, <2>2, <3>1 DEF ItemType
  <2>3. CASE items[i].status # "leased" BY <1>1, <2>1, <2>3
  <2> QED BY <2>2, <2>3
<1>7. items' \in [Items -> ItemType]
  <2>1. DOMAIN items' = Items /\ items' = [i \in Items |-> items'[i]] BY <1>1
  <2> QED BY <1>6, <2>1
<1>8. ASSUME NEW i \in Items PROVE ItemSound(i)'
  <2>1. ItemSound(i) BY DEF Sound
  <2>2. items'[i].runRow = items[i].runRow BY <1>6
  <2>3. (items[i].runRow # NoRowID => RunRowOf(items[i].runRow, i))'
    BY <1>3, <2>1, <2>2, RowsStay DEF ItemSound, RunRowOf
  <2>4. items'[i].findRow \in RowIDs' \cup {NoRowID} BY <1>3, <1>6, <2>1, RowsStay DEF ItemSound
  <2>5. items'[i].run = "paid" => items'[i].runRow \in RowIDs'
                                   /\ outbox'[items'[i].runRow].status = "applied"
    BY <1>1, <1>3, <1>6, <2>1, <2>2, RowsStay DEF ItemSound
  <2>6. (items'[i].found \/ items'[i].find # "") => HasCrash' BY <1>6, <2>1 DEF ItemSound, HasCrash
  <2> QED BY <2>3, <2>4, <2>5, <2>6 DEF ItemSound
<1>9. ASSUME NEW i \in Items PROVE ItemMoves(i)
  <2>1. items[i].run \in UnpaidRun => Claim(i, Floor(items[i].run)) BY DEF Claim
  <2> QED BY <1>6, <2>1 DEF ItemMoves
<1>10. ItemsMove BY <1>7, <1>8, <1>9 DEF ItemsMove
<1> QED BY <1>1, <1>2, <1>4, <1>10, ThreadItem

\* A replay takes the first of what it has taken down.
LEMMA ReplayPick ==
  ASSUME NEW T \in SUBSET (Items \X BOOLEAN), T # {}
  PROVE  (CHOOSE x \in T : \A y \in T : x[1] <= y[1]) \in T
<1> DEFINE N == {x[1] : x \in T}
<1>1. N \in SUBSET Nat /\ N # {} BY DEF Items
<1>2. PICK n \in N : \A m \in N : n <= m BY <1>1, LeastNumber
<1>3. PICK x \in T : x[1] = n BY <1>2
<1>4. \A y \in T : x[1] <= y[1] BY <1>2, <1>3
<1> QED BY <1>4

\* A replay enqueues what it took down.
LEMMA StepReplayRun ==
  ASSUME Sound, scenario' = scenario, NEW t \in Threads, ReplayRun(t)
  PROVE  Moves
<1> DEFINE T == th[t].todo
           r == CHOOSE x \in T : \A y \in T : x[1] <= y[1]
           kind == IF r[2] THEN "run_floor" ELSE "run"
           n == [th[t] EXCEPT !.todo = T \ {r}]
<1>1. /\ campaign' = campaign /\ faults' = faults /\ items' = items
      /\ origin' = origin /\ drain' = drain /\ th[t].pc = "replay"
  BY DEF ReplayRun, At
<1>2. SceneMoves BY <1>1, SameScene
<1>3. /\ th \in [Threads -> ThreadType] /\ th[t] \in ThreadType /\ ThreadSound(t) BY DEF Sound
<1>4. T \in SUBSET (Items \X BOOLEAN) BY <1>3 DEF ThreadType
<1>5. CASE T = {}
  <2>1. Step(t, "replayFinding") /\ outbox' = outbox BY <1>5 DEF ReplayRun
  <2>2. OutMoves BY <2>1, SameOutbox
  <2>3. ThreadsMove BY <2>1, <2>2, ThreadGoes DEF PCs
  <2> QED BY <1>1, <1>2, <2>1, <2>3, ThreadOnly
<1>6. CASE T # {}
  <2>1. r \in T BY <1>4, <1>6, ReplayPick
  <2>2. PICK id \in 1..Len(outbox) + 1 : Enqueue(kind, Miner[r[1]], r[1], id)
    BY <1>6, Zenon DEF ReplayRun
  <2>3. th' = [th EXCEPT ![t].todo = @ \ {r}] BY <1>6, Zenon DEF ReplayRun
  <2>4. th' = [th EXCEPT ![t] = n] BY <1>3, <2>3
  <2> HIDE DEF r
  <2>5. PICK i \in Items, b \in BOOLEAN : r = <<i, b>> BY <1>4, <2>1
  <2>6. r[1] = i /\ r[2] = b /\ Claim(i, b) BY <2>1, <2>5 DEF Claim
  <2>7. kind \in RunKinds /\ kind \in Kinds /\ (kind = "run_floor") = b
    BY <2>6 DEF RunKinds, Kinds
  <2> HIDE DEF kind
  <2>8. KeyOK(kind, Miner[r[1]], r[1])
    <3>1. Miner[i] \in Miners /\ i \in Nat BY Constants DEF Items
    <3>2. Claim(i, kind = "run_floor") BY <2>6, <2>7, Zenon
    <3>3. kind \notin {"finding", "crash_bonus", "finalize"} BY <2>7 DEF RunKinds
    <3> QED BY <2>6, <2>7, <3>1, <3>2, <3>3 DEF KeyOK
  <2>9. OutMoves BY <2>2, <2>8, EnqueueMoves
  <2>10. /\ n \in ThreadType /\ n.pc = "replay" /\ n.read = th[t].read /\ n.item = th[t].item
         /\ n.outcome = th[t].outcome /\ n.todo \subseteq T
    BY <1>1, <1>3 DEF ThreadType
  <2> HIDE DEF n
  <2>11. th'[t] = n BY <1>3, <2>4
  <2>12. ThreadSound(t)'
    <3>1. (th[t].read.runRow # NoRowID => RunRowOf(th[t].read.runRow, th[t].item))'
      <4>1. th[t].read.runRow # NoRowID => RunRowOf(th[t].read.runRow, th[t].item)
        BY <1>3 DEF ThreadSound
      <4>2. th'[t].read.runRow = th[t].read.runRow /\ th'[t].item = th[t].item BY <2>10, <2>11
      <4>3. \A e, j : RunRowOf(e, j) => RunRowOf(e, j)' BY <2>9, RowsStay
      <4> QED BY <4>1, <4>2, <4>3, Zenon DEF RunRowOf
    <3>2. th'[t].read.findRow \in RowIDs' \cup {NoRowID}
      BY <1>3, <2>9, <2>10, <2>11, RowsStay DEF ThreadSound
    <3>3. /\ th'[t].outcome = "crash" => HasCrash'
          /\ th'[t].read.find # "" => HasCrash'
          /\ th'[t].pc = "replay"
      BY <1>3, <2>10, <2>11 DEF ThreadSound, HasCrash
    <3> QED BY <3>1, <3>2, <3>3 DEF ThreadSound
  <2>13. ThreadMoves(t)
    <3>1. th[t].read.run \in UnpaidRun => Claim(th[t].item, Floor(th[t].read.run)) BY DEF Claim
    <3>2. \A j \in Items, c \in BOOLEAN : <<j, c>> \in th[t].todo => Claim(j, c) BY DEF Claim
    <3> QED BY <2>10, <2>11, <3>1, <3>2 DEF ThreadMoves
  <2>14. ThreadsMove BY <2>4, <2>9, <2>10, <2>12, <2>13, OneThread
  <2> QED BY <1>1, <1>2, <2>2, <2>8, <2>14, ThreadEnqueues
<1> QED BY <1>5, <1>6

\* A replay enqueues the first finding.
LEMMA StepReplayFinding ==
  ASSUME Sound, scenario' = scenario, NEW t \in Threads, ReplayFinding(t)
  PROVE  Moves
<1> DEFINE found == {i \in Items : items[i].found}
<1>1. /\ campaign' = campaign /\ faults' = faults /\ items' = items
      /\ origin' = origin /\ drain' = drain /\ Step(t, "finalize")
      /\ IF found = {} THEN UNCHANGED outbox
         ELSE \E i \in found, id \in 1..Len(outbox) + 1 : Enqueue("finding", Miner[i], 0, id)
  BY DEF ReplayFinding
<1>2. SceneMoves BY <1>1, SameScene
<1>3. OutMoves => ThreadsMove BY <1>1, ThreadGoes DEF PCs
<1>4. CASE found = {}
  <2>1. outbox' = outbox BY <1>1, <1>4
  <2>2. OutMoves BY <2>1, SameOutbox
  <2> QED BY <1>1, <1>2, <1>3, <2>1, <2>2, ThreadOnly
<1>5. CASE found # {}
  <2>1. PICK i \in found, id \in 1..Len(outbox) + 1 : Enqueue("finding", Miner[i], 0, id)
    BY <1>1, <1>5
  <2>2. Miner[i] \in Miners BY <2>1, Constants
  <2>3. HasCrash BY <2>1 DEF Sound, ItemSound
  <2>4. KeyOK("finding", Miner[i], 0) BY <2>2, <2>3 DEF KeyOK, Kinds, RunKinds
  <2> QED BY <1>1, <1>2, <1>3, <2>1, <2>4, ThreadEnqueues
<1> QED BY <1>4, <1>5

\* A handler fails.
LEMMA StepHandlerFails ==
  ASSUME Sound, scenario' = scenario, NEW t \in Threads, HandlerFails(t)
  PROVE  Moves
<1>1. /\ campaign' = campaign /\ Fault /\ items' = items /\ outbox' = outbox
      /\ origin' = origin /\ drain' = drain /\ Ends(t)
  BY DEF HandlerFails, coordinator
<1>2. SceneMoves BY <1>1, FaultScene
<1>3. OutMoves BY <1>1, SameOutbox
<1>4. ThreadsMove BY <1>1, <1>3, ThreadEnds
<1> QED BY <1>1, <1>2, <1>4, ThreadOnly

\* An idle drain is sound.
LEMMA NoDrainSound ==
  ASSUME NEW d, drain'[d] = NoDrain
  PROVE  DrainSound(d)'
  BY Records DEF DrainSound

\* The coordinator crashes.
LEMMA StepCrash ==
  ASSUME Sound, scenario' = scenario, Crash
  PROVE  Moves
<1>1. /\ campaign' = campaign /\ Fault /\ items' = items /\ outbox' = outbox
      /\ row' = row /\ applied' = applied /\ th' = [t \in Threads |-> Idle]
      /\ drain' = [d \in scenario.drains |-> IF d = "pusher" THEN NoDrain ELSE drain[d]]
  BY DEF Crash, coordinator, origin
<1>2. SceneMoves BY <1>1, FaultScene
<1>3. OutMoves /\ AckMoves BY <1>1, SameOutbox
<1>4. ItemsMove BY <1>1, <1>3, SameItems
<1>5. ThreadsMove
  <2>1. th' \in [Threads -> ThreadType] BY <1>1, Records
  <2>2. ASSUME NEW t \in Threads PROVE ThreadSound(t)' /\ ThreadMoves(t)
    <3>1. th'[t] = Idle BY <1>1
    <3> QED BY <3>1, Records DEF ThreadSound, ThreadMoves, UnpaidRun
  <2> QED BY <2>1, <2>2 DEF ThreadsMove
<1>6. OriginMoves /\ RowMoves(row, row') /\ applied \subseteq applied' BY <1>1, <1>3, SameOrigin
<1>7. DrainsMove
  <2>1. drain \in [scenario.drains -> DrainType] BY DEF Sound
  <2>2. drain' \in [scenario.drains -> DrainType] BY <1>1, <2>1, Records
  <2>3. ASSUME NEW d \in scenario.drains PROVE DrainSound(d)'
    <3>1. CASE d = "pusher" BY <1>1, <3>1, NoDrainSound
    <3>2. CASE d # "pusher" BY <1>1, <1>3, <1>6, <3>2, DrainStays
    <3> QED BY <3>1, <3>2
  <2> QED BY <2>2, <2>3 DEF DrainsMove
<1> QED BY <1>2, <1>3, <1>4, <1>5, <1>6, <1>7 DEF Moves

----------------------------------------------------------------------------
(* The origin applies a row.                                                *)

\* An item has one run row.
LEMMA OneRunRow ==
  ASSUME Sound, NEW i \in Items, NEW e, NEW f, RunRowOf(e, i), RunRowOf(f, i)
  PROVE  e = f
<1>1. e \in RowIDs /\ f \in RowIDs /\ outbox[e].kind \in RunKinds /\ outbox[f].kind \in RunKinds
      /\ outbox[e].item = i /\ outbox[f].item = i
  BY DEF RunRowOf
<1>2. outbox[e].miner = Miner[i] /\ outbox[f].miner = Miner[i]
  BY <1>1 DEF Sound, OutboxSound, KeySound
<1>3. Claim(i, outbox[e].kind = "run_floor") /\ Claim(i, outbox[f].kind = "run_floor")
  BY <1>1 DEF Claim
<1>4. (outbox[e].kind = "run_floor") = (outbox[f].kind = "run_floor")
  BY <1>3 DEF Sound, ClaimSound
<1>5. outbox[e].kind = outbox[f].kind BY <1>1, <1>4 DEF RunKinds
<1>6. SameKey(outbox[e], outbox[f].kind, outbox[f].miner, outbox[f].item)
  BY <1>1, <1>2, <1>5 DEF SameKey
<1> QED BY <1>1, <1>6 DEF Sound, OutboxSound, OneRowPerKey

\* The kinds of the rows.
LEMMA RowKind ==
  ASSUME Sound, NEW e \in RowIDs
  PROVE  /\ outbox[e] \in RowType /\ outbox[e].kind \in Kinds
         /\ outbox[e].status \in {"pending", "applied"}
         /\ outbox[e].kind \in RunKinds \/ outbox[e].kind = "finding"
              \/ outbox[e].kind = "crash_bonus" \/ outbox[e].kind = "finalize"
<1>1. outbox[e] \in RowType BY DEF Sound, OutboxSound, RowIDs
<1> QED BY <1>1 DEF RowType, Kinds, RunKinds

\* The escrow after a row is applied for the first time.
LEMMA SettledMoves ==
  ASSUME Sound, NEW e \in RowIDs, e \notin applied, SettleErr(e) = "ok"
  PROVE  LET n == SettledRow(e) IN
         /\ RowMoves(row, n)
         /\ n.runsDone = row.runsDone + (IF outbox[e].kind \in RunKinds THEN 1 ELSE 0)
         /\ IsPay(e) => /\ n.refundedBounty = row.refundedBounty
                        /\ row.status # "closed" /\ n.status # "closed"
         /\ ~IsPay(e) => n.status = "closed"
<1> DEFINE k == outbox[e].kind
<1>1. GoodRow(row) /\ row \in EscrowRow BY DEF Sound, GoodRow
<1>2. row.runsDone \in Nat BY <1>1 DEF EscrowRow
<1>3. CASE k = "finalize"
  <2>1. SettledRow(e) = ClosedRow(row) BY <1>3 DEF SettledRow, WasApplied
  <2> QED BY <1>1, <1>2, <1>3, <2>1, CloseMoves DEF IsPay, RunKinds
<1>4. CASE k \in RunKinds
  <2>1. k # "finalize" BY <1>4 DEF RunKinds
  <2>2. SettledRow(e) = RunRow(row, k) BY <1>4, <2>1 DEF SettledRow, WasApplied
  <2>3. RunErr(row, k) = "ok" BY <1>4, <2>1 DEF SettleErr, WasApplied
  <2>4. row.status # "closed" BY <2>3 DEF RunErr, Live
  <2> QED BY <1>1, <1>4, <2>1, <2>2, <2>4, RunMoves DEF IsPay
<1>5. CASE k = "crash_bonus"
  <2>1. SettledRow(e) = CrashRow(row) BY <1>5 DEF SettledRow, WasApplied, RunKinds
  <2>2. CrashErr(row) = "ok" BY <1>5 DEF SettleErr, WasApplied, RunKinds
  <2>3. row.status # "closed" BY <2>2 DEF CrashErr, Live
  <2> QED BY <1>1, <1>2, <1>5, <2>1, <2>2, <2>3, CrashMoves DEF IsPay, RunKinds
<1>6. CASE k = "finding"
  <2>1. SettledRow(e) = BountyRow(row, "critical", outbox[e].miner)
    BY <1>6 DEF SettledRow, WasApplied, RunKinds
  <2>2. BountyErr(row, "critical") = "ok" BY <1>6 DEF SettleErr, WasApplied, RunKinds
  <2>3. outbox[e].miner \in Miners BY <1>6 DEF Sound, OutboxSound, KeySound
  <2> QED BY <1>1, <1>2, <1>6, <2>1, <2>2, <2>3, BountyMoves DEF IsPay, RunKinds
<1> QED BY <1>3, <1>4, <1>5, <1>6, RowKind

\* ApplyFuzzSettleOnce counts the run of an item the first time.
LEMMA ApplyMoves ==
  ASSUME Sound, scenario' = scenario, OutMoves, NEW e \in RowIDs, SettleErr(e) = "ok", ApplyOnce(e)
  PROVE  OriginMoves /\ RowMoves(row, row') /\ applied \subseteq applied' /\ e \in applied'
<1>1. applied' = applied \cup {e} /\ row' = SettledRow(e) /\ applied \subseteq RowIDs
  BY DEF ApplyOnce, Sound
<1>2. CASE e \in applied
  <2>1. applied' = applied BY <1>1, <1>2
  <2>2. row' = row BY <1>1, <1>2 DEF SettledRow, WasApplied
  <2> QED BY <1>2, <2>1, <2>2, SameOrigin
<1>3. CASE e \notin applied
  <2>1. /\ RowMoves(row, row')
        /\ row'.runsDone = row.runsDone + (IF outbox[e].kind \in RunKinds THEN 1 ELSE 0)
        /\ IsPay(e) => row'.refundedBounty = row.refundedBounty /\ row.status # "closed"
        /\ ~IsPay(e) => row'.status = "closed"
    BY <1>1, <1>3, SettledMoves
  <2>2. RefundSound' BY <2>1 DEF Sound, RefundSound
  <2>3. \A f \in RowIDs : outbox'[f].item = outbox[f].item /\ outbox'[f].kind = outbox[f].kind
    BY DEF OutMoves
  <2> DEFINE P == {i \in Items : PaidRuns(i) # {}}
             Q == {i \in Items : PaidRuns(i)' # {}}
  <2>4. row.runsDone = Cardinality(P) /\ row.runsDone \in Nat
    BY DEF Sound, GoodRow, EscrowRow
  <2>5. IsFiniteSet(P) BY FS_Subset, Constants
  <2>6. CASE outbox[e].kind \in RunKinds
    <3> DEFINE i == outbox[e].item
    <3>1. i \in Items /\ RunRowOf(e, i) BY <2>6 DEF Sound, OutboxSound, KeySound, RunRowOf
    <3>2. i \notin P
      <4>1. \A f \in PaidRuns(i) : RunRowOf(f, i) BY <1>1 DEF PaidRuns, RunRowOf
      <4>2. \A f \in PaidRuns(i) : f = e BY <3>1, <4>1, OneRunRow
      <4>3. PaidRuns(i) \subseteq applied BY DEF PaidRuns
      <4> QED BY <1>3, <4>2, <4>3
    <3>3. Q = P \cup {i}
      <4>1. \A j \in Items : PaidRuns(j)' = PaidRuns(j) \cup (IF j = i THEN {e} ELSE {})
        BY <1>1, <2>3, <2>6 DEF PaidRuns
      <4> QED BY <3>1, <4>1
    <3> HIDE DEF i, P, Q
    <3>4. Cardinality(Q) = Cardinality(P) + 1 BY <2>5, <3>2, <3>3, FS_AddElement
    <3>5. row'.runsDone = Cardinality(Q) BY <2>1, <2>4, <2>6, <3>4
    <3> QED BY <1>1, <2>1, <2>2, <3>5 DEF OriginMoves, Q
  <2>7. CASE outbox[e].kind \notin RunKinds
    <3>1. Q = P
      <4>1. \A j \in Items : PaidRuns(j)' = PaidRuns(j) BY <1>1, <2>3, <2>7 DEF PaidRuns
      <4> QED BY <4>1
    <3> HIDE DEF P, Q
    <3>2. row'.runsDone = Cardinality(Q) BY <2>1, <2>4, <2>7, <3>1
    <3> QED BY <1>1, <2>1, <2>2, <3>2 DEF OriginMoves, Q
  <2> QED BY <2>6, <2>7
<1> QED BY <1>2, <1>3

\* An error that acknowledges a row means that nothing is owed for it, unless the
\* bounty pool was refunded by a close that an operator has undone.
LEMMA ErrSettled ==
  ASSUME Sound, NEW e \in RowIDs, IsPay(e), DrainOnErr(SettleErr(e)),
         outbox[e].kind \in RunKinds \/ row.refundedBounty = 0 \/ row.status = "closed"
  PROVE  Settled(e)
<1> DEFINE k == outbox[e].kind
           err == SettleErr(e)
           bonus == UniqueCrashBonusUnits(row.bountyPool, row.split)
<1>1. GoodRow(row) /\ row \in EscrowRow BY DEF Sound, GoodRow
<1>2. e \notin applied /\ k # "finalize" /\ err \in {"Depleted", "AlreadyPaid"}
  BY DEF DrainOnErr, SettleErr, WasApplied, IsPay
<1>3. CASE k \in RunKinds
  <2>1. err = RunErr(row, k) BY <1>2, <1>3 DEF SettleErr, WasApplied
  <2>2. RunPayUnits(row, k) = 0 BY <1>2, <2>1 DEF RunErr
  <2>3. RunsLeftUnits(row) = 0 BY <1>1, <2>2, DepletedRuns
  <2> QED BY <1>3, <2>3 DEF Settled, NothingOwed
<1>4. CASE k = "crash_bonus"
  <2>1. err = CrashErr(row) BY <1>2, <1>4 DEF SettleErr, WasApplied, RunKinds
  <2>2. row.status # "closed" BY <1>2, <2>1 DEF CrashErr, Live
  <2>3. row.refundedBounty = 0 BY <1>4, <2>2 DEF RunKinds
  <2>4. bonus \in Nat
    <3>1. row.bountyPool \in Nat /\ row.split \in Splits BY <1>1 DEF EscrowRow
    <3> QED BY <3>1, BonusType
  <2>5. \/ row.crashBonus > 0 \/ row.bountyPool - row.bountyPaid <= 0 \/ bonus = 0
        \/ bonus > row.bountyPool - row.bountyPaid
    BY <1>2, <2>1, <2>3 DEF CrashErr, Live
  <2> HIDE DEF bonus
  <2>6. row.crashBonus > 0 \/ bonus = 0 \/ row.bountyPool - row.bountyPaid < bonus
    BY <1>1, <2>4, <2>5 DEF EscrowRow
  <2> QED BY <1>4, <2>6, Zenon DEF Settled, NothingOwed, bonus
<1>5. CASE k = "finding"
  <2>1. err = BountyErr(row, "critical") BY <1>2, <1>5 DEF SettleErr, WasApplied, RunKinds
  <2>2. row.status # "closed" BY <1>2, <2>1 DEF BountyErr
  <2>3. row.refundedBounty = 0 BY <1>5, <2>2 DEF RunKinds
  <2>4. \/ row.status = "bounty_paid" \/ row.bountyPaid > 0 \/ row.winner # NoOne
        \/ row.bountyPool <= row.crashBonus
    BY <1>2, <2>1, <2>3 DEF BountyErr
  <2>5. row.winner # NoOne \/ row.bountyPool <= row.crashBonus BY <1>1, <2>4 DEF GoodRow
  <2> QED BY <1>5, <2>5 DEF Settled, NothingOwed
<1> QED BY <1>2, <1>3, <1>4, <1>5, RowKind

\* So it is for the rows that count.
LEMMA CountedErr ==
  ASSUME Sound, NEW e \in RowIDs, Counts(e), DrainOnErr(SettleErr(e))
  PROVE  Settled(e)
<1>1. CASE outbox[e].kind \in RunKinds
  <2>1. IsPay(e) BY <1>1 DEF IsPay, RunKinds
  <2> QED BY <1>1, <2>1, ErrSettled
<1>2. CASE outbox[e].kind \notin RunKinds
  <2>1. IsPay(e) /\ Honest BY <1>2 DEF Counts
  <2>2. HasCrash BY <1>2, <2>1, RowKind DEF Sound, OutboxSound, KeySound, IsPay
  <2>3. "reopener" \notin scenario.drains BY <2>1, <2>2 DEF Honest
  <2>4. row.refundedBounty \in Nat BY DEF Sound, GoodRow, EscrowRow
  <2>5. row.refundedBounty = 0 \/ row.status = "closed" BY <2>3, <2>4 DEF Sound, RefundSound
  <2> QED BY <2>1, <2>5, ErrSettled
<1> QED BY <1>1, <1>2

----------------------------------------------------------------------------
(* Drains go on.                                                            *)

DrainPCs == {"idle", "fetch", "row", "apply", "ack", "look", "close"}

\* The head of a batch: no row of the batch comes before it.
LEMMA FirstOfBatch ==
  ASSUME Sound, NEW d \in scenario.drains, drain[d].pc \in {"row", "apply"}
  PROVE  /\ First(d) \in drain[d].batch /\ First(d) \in RowIDs
         /\ \A f \in drain[d].batch : Before(First(d), f)
<1> DEFINE B == drain[d].batch
           P == {e \in B : IsPay(e)}
<1>1. B # {} /\ B \subseteq RowIDs BY DEF Sound, DrainSound
<1>2. RowIDs \subseteq Nat
  <2>1. Len(outbox) \in Nat BY DEF Sound, OutboxSound
  <2> QED BY <2>1 DEF RowIDs
<1>3. \E e \in B : \A f \in B : Before(e, f)
  <2>1. CASE P # {}
    <3>1. PICK e \in P : \A f \in P : e <= f BY <1>1, <1>2, <2>1, LeastNumber
    <3> QED BY <3>1 DEF Before
  <2>2. CASE P = {}
    <3>1. PICK e \in B : \A f \in B : e <= f BY <1>1, <1>2, LeastNumber
    <3>2. \A f \in B : IsPay(e) = IsPay(f)
      <4>1. \A f \in B : ~IsPay(f) BY <2>2
      <4>2. \A f \in B : IsPay(f) = FALSE BY <4>1 DEF IsPay
      <4> QED BY <3>1, <4>2
    <3> QED BY <3>1, <3>2 DEF Before
  <2> QED BY <2>1, <2>2
<1>4. First(d) \in B /\ \A f \in B : Before(First(d), f) BY <1>3, Zenon DEF First
<1> QED BY <1>1, <1>4

\* A drain quits.
LEMMA DrainQuits ==
  ASSUME Sound, OutMoves, scenario' = scenario, RowMoves(row, row'), applied \subseteq applied',
         NEW d \in scenario.drains, Quit(d)
  PROVE  DrainsMove
<1>1. drain' = [drain EXCEPT ![d] = NoDrain] /\ drain'[d] = NoDrain BY DEF Quit, Sound
<1>2. DrainSound(d)' BY <1>1, NoDrainSound
<1> QED BY <1>1, <1>2, Records, OneDrain

\* A drain goes on with a record that acknowledges nothing new.
LEMMA DrainWrites ==
  ASSUME Sound, OutMoves, scenario' = scenario, RowMoves(row, row'), applied \subseteq applied',
         NEW d \in scenario.drains, NEW n \in DrainType, drain' = [drain EXCEPT ![d] = n],
         n.acked \subseteq drain[d].acked, n.batch \subseteq RowIDs,
         n.pc \in {"row", "apply"} => n.batch # {}
  PROVE  DrainsMove
<1>1. drain'[d] = n /\ DrainSound(d) BY DEF Sound
<1>2. DrainSound(d)'
  <2>1. drain[d].acked \subseteq RowIDs BY <1>1 DEF DrainSound
  <2>2. ASSUME NEW e \in n.acked, Counts(e)' PROVE Settled(e)'
    <3>1. e \in RowIDs /\ e \in drain[d].acked BY <2>1
    <3>2. Counts(e) BY <2>2, <3>1, CountsStay
    <3>3. Settled(e) BY <1>1, <3>1, <3>2 DEF DrainSound
    <3> QED BY <3>1, <3>3, SettledStays
  <2>3. n.batch \cup n.acked \subseteq RowIDs' BY <2>1, RowsStay
  <2> QED BY <1>1, <2>2, <2>3 DEF DrainSound
<1> QED BY <1>2, OneDrain

\* A drain goes to another place.
LEMMA DrainGoes ==
  ASSUME Sound, OutMoves, scenario' = scenario, RowMoves(row, row'), applied \subseteq applied',
         NEW d \in scenario.drains, NEW pc \in DrainPCs, Goto(d, pc),
         pc \in {"row", "apply"} => drain[d].batch # {}
  PROVE  DrainsMove
<1> DEFINE n == [drain[d] EXCEPT !.pc = pc]
<1>1. drain \in [scenario.drains -> DrainType] /\ drain[d] \in DrainType /\ DrainSound(d)
  BY DEF Sound
<1>2. drain' = [drain EXCEPT ![d] = n] BY <1>1 DEF Goto
<1>3. n \in DrainType /\ n.pc = pc /\ n.batch = drain[d].batch /\ n.acked = drain[d].acked
  BY <1>1 DEF DrainType, DrainPCs
<1> HIDE DEF n
<1>4. n.batch \subseteq RowIDs BY <1>1, <1>3 DEF DrainSound
<1> QED BY <1>2, <1>3, <1>4, DrainWrites

\* A drain drops the head of its batch.
LEMMA DrainDone ==
  ASSUME Sound, OutMoves, scenario' = scenario, RowMoves(row, row'), applied \subseteq applied',
         NEW d \in scenario.drains, drain[d].pc \in {"row", "apply"},
         NEW ack \in BOOLEAN, NEW fail \in BOOLEAN, Done(d, ack, fail),
         NEW e \in RowIDs, e = First(d), ack /\ Counts(e) => Settled(e)'
  PROVE  DrainsMove
<1> DEFINE o == drain[d]
           n == [o EXCEPT !.batch = o.batch \ {e},
                          !.acked = IF ack THEN o.acked \cup {e} ELSE o.acked,
                          !.failed = o.failed \/ fail,
                          !.pc = IF o.batch = {e} THEN "ack" ELSE "row"]
<1>1. drain \in [scenario.drains -> DrainType] /\ o \in DrainType /\ DrainSound(d)
  BY DEF Sound
<1>2. drain' = [drain EXCEPT ![d] = n] /\ drain'[d] = n
  <2>1. drain' = [drain EXCEPT ![d].batch = @ \ {e},
              ![d].acked = IF ack THEN @ \cup {e} ELSE @,
              ![d].failed = @ \/ fail,
              ![d].pc = IF drain[d].batch = {e} THEN "ack" ELSE "row"]
    BY Zenon DEF Done
  <2>2. drain' = [drain EXCEPT ![d] = n] BY <1>1, <2>1 DEF DrainType
  <2> QED BY <1>1, <2>2
<1>3. e \in o.batch BY FirstOfBatch
<1>4. e \in Nat /\ RowIDs \subseteq Nat BY RowsStay
<1> DEFINE acked == IF ack THEN o.acked \cup {e} ELSE o.acked
           failed == o.failed \/ fail
           pc == IF o.batch = {e} THEN "ack" ELSE "row"
<1>5. /\ acked \in SUBSET Nat /\ failed \in BOOLEAN /\ pc \in {"ack", "row"}
      /\ o.batch \ {e} \in SUBSET Nat
  BY <1>1, <1>4 DEF DrainType
<1>6. pc = "row" => o.batch \ {e} # {} BY <1>3
<1>7. \A f \in acked : f \in o.acked \/ (ack /\ f = e) OBVIOUS
<1>8. n = [o EXCEPT !.batch = o.batch \ {e}, !.acked = acked, !.failed = failed, !.pc = pc]
  OBVIOUS
<1> HIDE DEF n, acked, failed, pc
<1>9. /\ n \in DrainType /\ n.batch = o.batch \ {e} /\ n.acked = acked /\ n.pc = pc
  BY <1>1, <1>5, <1>8 DEF DrainType
<1>10. DrainSound(d)'
  <2>1. o.batch \cup o.acked \subseteq RowIDs BY <1>1 DEF DrainSound
  <2>2. ASSUME NEW f \in n.acked, Counts(f)' PROVE Settled(f)'
    <3>1. f \in RowIDs BY <1>7, <1>9, <2>1
    <3>2. Counts(f) BY <2>2, <3>1, CountsStay
    <3>3. CASE f \in o.acked
      <4>1. Settled(f) BY <1>1, <3>2, <3>3 DEF DrainSound
      <4> QED BY <3>1, <4>1, SettledStays
    <3>4. CASE ack /\ f = e BY <3>2, <3>4
    <3> QED BY <1>7, <1>9, <3>3, <3>4
  <2>3. n.batch \cup n.acked \subseteq RowIDs' BY <1>7, <1>9, <2>1, RowsStay
  <2>4. n.pc \in {"row", "apply"} => n.batch # {} BY <1>5, <1>6, <1>9
  <2> QED BY <1>2, <2>2, <2>3, <2>4 DEF DrainSound
<1> QED BY <1>2, <1>9, <1>10, OneDrain

\* A drain works while the coordinator is left alone.
LEMMA DrainOnly ==
  ASSUME Sound, SceneMoves, DrainsMove, OriginMoves, items' = items, outbox' = outbox, th' = th
  PROVE  Moves
<1>1. scenario' = scenario BY DEF SceneMoves
<1>2. OutMoves /\ AckMoves BY <1>1, SameOutbox
<1>3. ItemsMove BY <1>1, <1>2, SameItems
<1>4. ThreadsMove BY <1>1, <1>2, SameThreads
<1> QED BY <1>2, <1>3, <1>4 DEF Moves

----------------------------------------------------------------------------
(* The steps of the drains.                                                 *)

\* While nothing but a drain moves, the facts the drains' lemmas ask for hold.
LEMMA QuietFacts ==
  ASSUME Sound, scenario' = scenario, outbox' = outbox, origin' = origin
  PROVE  OutMoves /\ OriginMoves /\ RowMoves(row, row') /\ applied \subseteq applied'
<1>1. row' = row /\ applied' = applied BY DEF origin
<1>2. OutMoves BY SameOutbox
<1> QED BY <1>1, <1>2, SameOrigin

\* A drain goes on without touching either side.
LEMMA DrainAlone ==
  ASSUME Sound, SceneMoves, DrainsMove, coordinator' = coordinator, th' = th, origin' = origin
  PROVE  Moves
<1>1. items' = items /\ outbox' = outbox /\ scenario' = scenario BY DEF coordinator, SceneMoves
<1>2. OriginMoves BY <1>1, QuietFacts
<1> QED BY <1>1, <1>2, DrainOnly

\* A drain starts.
LEMMA StepStartDrain ==
  ASSUME Sound, scenario' = scenario, NEW d \in scenario.drains, StartDrain(d)
  PROVE  Moves
<1>1. /\ Goto(d, "fetch") /\ coordinator' = coordinator /\ th' = th /\ origin' = origin
      /\ faults' = faults /\ outbox' = outbox /\ campaign' = campaign
  BY DEF StartDrain, coordinator
<1>2. SceneMoves BY <1>1, SameScene
<1>3. DrainsMove BY <1>1, QuietFacts, DrainGoes DEF DrainPCs
<1> QED BY <1>1, <1>2, <1>3, DrainAlone

\* A drain fetches the pending rows.
LEMMA StepFetch ==
  ASSUME Sound, scenario' = scenario, NEW d \in scenario.drains, Fetch(d)
  PROVE  Moves
<1>1. /\ coordinator' = coordinator /\ th' = th /\ origin' = origin
      /\ faults' = faults /\ outbox' = outbox /\ campaign' = campaign
      /\ IF Pending = {} THEN IF d = "closer" THEN Goto(d, "look") ELSE Quit(d)
         ELSE drain' = [drain EXCEPT ![d].pc = "row", ![d].batch = Pending,
                                     ![d].acked = {}, ![d].failed = FALSE]
  BY DEF Fetch, coordinator
<1>2. SceneMoves BY <1>1, SameScene
<1>3. OutMoves /\ RowMoves(row, row') /\ applied \subseteq applied' BY <1>1, QuietFacts
<1>4. CASE Pending = {} /\ d = "closer"
  <2>1. Goto(d, "look") BY <1>1, <1>4
  <2>2. DrainsMove BY <1>3, <2>1, DrainGoes DEF DrainPCs
  <2> QED BY <1>1, <1>2, <2>2, DrainAlone
<1>5. CASE Pending = {} /\ d # "closer"
  <2>1. DrainsMove BY <1>1, <1>3, <1>5, DrainQuits
  <2> QED BY <1>1, <1>2, <2>1, DrainAlone
<1>6. CASE Pending # {}
  <2> DEFINE S == Pending
             n == [drain[d] EXCEPT !.pc = "row", !.batch = S, !.acked = {}, !.failed = FALSE]
  <2>1. drain \in [scenario.drains -> DrainType] /\ drain[d] \in DrainType BY DEF Sound
  <2>2. drain' = [drain EXCEPT ![d] = n] BY <1>1, <1>6, <2>1 DEF DrainType
  <2>3. S \subseteq RowIDs /\ RowIDs \subseteq Nat BY <1>3, RowsStay DEF Pending
  <2> HIDE DEF S
  <2>4. n \in DrainType /\ n.acked = {} /\ n.batch = S BY <2>1, <2>3 DEF DrainType
  <2> HIDE DEF n
  <2>5. DrainsMove BY <1>3, <1>6, <2>2, <2>3, <2>4, DrainWrites DEF S
  <2> QED BY <1>1, <1>2, <2>5, DrainAlone
<1> QED BY <1>4, <1>5, <1>6

\* A row that the escrow's status acknowledges without applying it is not one that
\* counts, or is a finding after the bounty is paid.
LEMMA StatusSettled ==
  ASSUME Sound, NEW e \in RowIDs, OutboxAction(row.status, e) = "drain", IsPay(e)
  PROVE  Settled(e)
<1>1. row.status = "bounty_paid" /\ outbox[e].kind = "finding" BY DEF OutboxAction
<1>2. row.winner # NoOne BY <1>1 DEF Sound, GoodRow
<1> QED BY <1>1, <1>2 DEF Settled, NothingOwed

\* Rows that count are payments.
LEMMA CountsPay ==
  ASSUME NEW e, Counts(e)
  PROVE  IsPay(e)
  BY DEF Counts, IsPay, RunKinds

\* A drain looks at the escrow before it applies a row.
LEMMA StepLook ==
  ASSUME Sound, scenario' = scenario, NEW d \in scenario.drains, Look(d)
  PROVE  Moves
<1>1. /\ coordinator' = coordinator /\ th' = th /\ origin' = origin
      /\ faults' = faults /\ outbox' = outbox /\ campaign' = campaign
      /\ drain[d].pc = "row"
  BY DEF Look, coordinator, DrainAt
<1>2. SceneMoves BY <1>1, SameScene
<1>3. OutMoves /\ RowMoves(row, row') /\ applied \subseteq applied' BY <1>1, QuietFacts
<1>4. PICK e \in RowIDs : e = First(d) BY <1>1, FirstOfBatch
<1>5. drain[d].batch # {} BY <1>1 DEF Sound, DrainSound
<1>6. CASE Done(d, FALSE, FALSE)
  <2>1. DrainsMove BY <1>1, <1>3, <1>4, <1>6, DrainDone
  <2> QED BY <1>1, <1>2, <2>1, DrainAlone
<1>7. CASE Goto(d, "apply")
  <2>1. DrainsMove BY <1>3, <1>5, <1>7, DrainGoes DEF DrainPCs
  <2> QED BY <1>1, <1>2, <2>1, DrainAlone
<1>8. CASE Done(d, TRUE, FALSE) /\ OutboxAction(row.status, e) = "drain"
  <2>1. Counts(e) => Settled(e) BY <1>8, CountsPay, StatusSettled
  <2>2. Counts(e) => Settled(e)' BY <1>3, <2>1, SettledStays
  <2>3. DrainsMove BY <1>1, <1>3, <1>4, <1>8, <2>2, DrainDone
  <2> QED BY <1>1, <1>2, <2>3, DrainAlone
<1>9. \/ Done(d, FALSE, FALSE) \/ Goto(d, "apply")
      \/ Done(d, TRUE, FALSE) /\ OutboxAction(row.status, e) = "drain"
  <2>1. \/ Done(d, FALSE, FALSE) \/ Goto(d, "apply")
        \/ Done(d, OutboxAction(row.status, e) = "drain", FALSE)
    BY <1>4, Zenon DEF Look
  <2> QED BY <2>1
<1> QED BY <1>6, <1>7, <1>8, <1>9

\* A drain of the origin applies a row, or acknowledges it for its error.
LEMMA StepApply ==
  ASSUME Sound, scenario' = scenario, NEW d \in scenario.drains, Apply(d)
  PROVE  Moves
<1>1. /\ coordinator' = coordinator /\ th' = th /\ items' = items
      /\ faults' = faults /\ outbox' = outbox /\ campaign' = campaign
      /\ drain[d].pc = "apply"
  BY DEF Apply, coordinator, DrainAt
<1>2. SceneMoves /\ OutMoves BY <1>1, SameScene, SameOutbox
<1>3. PICK e \in RowIDs : e = First(d) BY <1>1, FirstOfBatch
<1> DEFINE err == SettleErr(e)
           ack == err = "ok" \/ DrainOnErr(err)
           fail == IsPay(e) /\ err # "ok" /\ ~DrainOnErr(err)
<1>4. /\ IF err = "ok" THEN ApplyOnce(e) ELSE UNCHANGED origin
      /\ Done(d, ack, fail)
  BY <1>3, Zenon DEF Apply
<1>5. ack \in BOOLEAN /\ fail \in BOOLEAN OBVIOUS
<1>6. CASE err = "ok"
  <2>1. ApplyOnce(e) BY <1>4, <1>6
  <2>2. OriginMoves /\ RowMoves(row, row') /\ applied \subseteq applied' /\ e \in applied'
    BY <1>2, <1>6, <2>1, ApplyMoves
  <2>3. Settled(e)' BY <2>2 DEF Settled
  <2> HIDE DEF ack, fail
  <2>4. DrainsMove BY <1>1, <1>2, <1>3, <1>4, <1>5, <2>2, <2>3, DrainDone
  <2> QED BY <1>1, <1>2, <2>2, <2>4, DrainOnly
<1>7. CASE err # "ok"
  <2>1. origin' = origin BY <1>4, <1>7
  <2>2. RowMoves(row, row') /\ applied \subseteq applied' BY <1>1, <2>1, QuietFacts
  <2>3. ack /\ Counts(e) => Settled(e)'
    <3>1. ack /\ Counts(e) => Settled(e) BY <1>7, CountedErr
    <3> QED BY <1>2, <2>2, <3>1, SettledStays
  <2> HIDE DEF ack, fail
  <2>4. DrainsMove BY <1>1, <1>2, <1>3, <1>4, <1>5, <2>2, <2>3, DrainDone
  <2> QED BY <1>1, <1>2, <2>1, <2>4, DrainAlone
<1> QED BY <1>6, <1>7

\* The transaction of a drain fails.
LEMMA StepApplyFails ==
  ASSUME Sound, scenario' = scenario, NEW d \in scenario.drains, ApplyFails(d)
  PROVE  Moves
<1>1. /\ coordinator' = coordinator /\ th' = th /\ origin' = origin /\ Fault
      /\ outbox' = outbox /\ campaign' = campaign /\ Done(d, FALSE, TRUE)
      /\ drain[d].pc = "apply"
  BY DEF ApplyFails, coordinator, DrainAt
<1>2. SceneMoves BY <1>1, FaultScene
<1>3. OutMoves /\ RowMoves(row, row') /\ applied \subseteq applied' BY <1>1, QuietFacts
<1>4. PICK e \in RowIDs : e = First(d) BY <1>1, FirstOfBatch
<1>5. DrainsMove BY <1>1, <1>3, <1>4, DrainDone
<1> QED BY <1>1, <1>2, <1>5, DrainAlone

\* Rows that are acknowledged are settled, and their intents are paid.
LEMMA AckPromotes ==
  ASSUME Sound, scenario' = scenario, row' = row, applied' = applied,
         NEW d \in scenario.drains, NEW S \in SUBSET drain[d].acked, NEW R \in SUBSET S,
         outbox' = Acked(S), items' = Promoted(R)
  PROVE  /\ OutMoves /\ AckMoves /\ ItemsMove
         /\ OriginMoves /\ RowMoves(row, row') /\ applied \subseteq applied'
<1>1. DrainSound(d) /\ GoodRow(row) BY DEF Sound
<1>2. S \in SUBSET RowIDs /\ R \in SUBSET RowIDs BY <1>1 DEF DrainSound
<1>3. \A e \in S : outbox[e].kind \in Kinds BY <1>2, RowKind
<1>4. \A e \in RowIDs : e \in S => outbox'[e].kind = outbox[e].kind
  <2>1. ASSUME NEW e \in RowIDs PROVE outbox'[e].kind = outbox[e].kind
    <3>1. outbox[e] \in RowType BY RowKind
    <3>2. outbox'[e] = IF e \in S THEN [outbox[e] EXCEPT !.status = "applied"] ELSE outbox[e]
      BY DEF Acked
    <3> QED BY <3>1, <3>2 DEF RowType
  <2> QED BY <2>1
<1>5. ASSUME NEW e \in S, Counts(e) PROVE Settled(e)'
  <2>1. Settled(e) BY <1>1, <1>5 DEF DrainSound
  <2>2. outbox'[e].kind = outbox[e].kind BY <1>2, <1>4
  <2>3. PICK k \in Kinds : k = outbox[e].kind BY <1>3
  <2>4. NothingOwed(k) => NothingOwed(k)' BY <1>1, RowStays, NothingStays
  <2> QED BY <2>1, <2>2, <2>3, <2>4 DEF Settled
<1>6. OutMoves /\ AckMoves /\ \A e \in S : outbox'[e].status = "applied"
  BY <1>2, <1>5, AckedMoves
<1>7. ItemsMove BY <1>2, <1>6, PromotedMoves
<1> QED BY <1>6, <1>7, SameOrigin

\* The end of a pass.
LEMMA StepAck ==
  ASSUME Sound, scenario' = scenario, NEW d \in scenario.drains, Ack(d)
  PROVE  Moves
<1> DEFINE n == [drain[d] EXCEPT !.pc = "fetch", !.acked = {}, !.failed = FALSE]
<1>1. /\ campaign' = campaign /\ th' = th /\ origin' = origin /\ faults' = faults
      /\ row' = row /\ applied' = applied
      /\ IF drain[d].acked # {}
         THEN /\ outbox' = Acked(drain[d].acked) /\ items' = Promoted(drain[d].acked)
              /\ drain' = [drain EXCEPT ![d].pc = "fetch", ![d].acked = {}, ![d].failed = FALSE]
         ELSE /\ IF d = "closer" /\ ~drain[d].failed THEN Goto(d, "look") ELSE Quit(d)
              /\ UNCHANGED <<outbox, items>>
  BY DEF Ack, origin
<1>2. SceneMoves BY <1>1, SameScene
<1>3. CASE drain[d].acked # {}
  <2>1. PICK S \in SUBSET drain[d].acked : S = drain[d].acked OBVIOUS
  <2>2. outbox' = Acked(S) /\ items' = Promoted(S) BY <1>1, <1>3, <2>1
  <2>3. /\ OutMoves /\ AckMoves /\ ItemsMove /\ OriginMoves
        /\ RowMoves(row, row') /\ applied \subseteq applied'
    BY <1>1, <2>2, AckPromotes
  <2>4. drain \in [scenario.drains -> DrainType] /\ drain[d] \in DrainType /\ DrainSound(d)
    BY DEF Sound
  <2>5. drain' = [drain EXCEPT ![d] = n] BY <1>1, <1>3, <2>4 DEF DrainType
  <2>6. n \in DrainType /\ n.pc = "fetch" /\ n.acked = {} /\ n.batch = drain[d].batch
    BY <2>4 DEF DrainType
  <2> HIDE DEF n
  <2>7. n.batch \subseteq RowIDs BY <2>4, <2>6 DEF DrainSound
  <2>8. DrainsMove BY <2>3, <2>5, <2>6, <2>7, DrainWrites
  <2>9. ThreadsMove BY <1>1, <2>3, SameThreads
  <2> QED BY <1>2, <2>3, <2>8, <2>9 DEF Moves
<1>4. CASE drain[d].acked = {}
  <2>1. outbox' = outbox /\ items' = items /\ coordinator' = coordinator
    BY <1>1, <1>4 DEF coordinator
  <2>2. Goto(d, "look") \/ Quit(d) BY <1>1, <1>4
  <2>3. OutMoves /\ RowMoves(row, row') /\ applied \subseteq applied' BY <1>1, <2>1, QuietFacts
  <2>4. Goto(d, "look") => DrainsMove BY <2>3, DrainGoes DEF DrainPCs
  <2>5. DrainsMove BY <2>2, <2>3, <2>4, DrainQuits
  <2> QED BY <1>1, <1>2, <2>1, <2>5, DrainAlone
<1> QED BY <1>3, <1>4

\* A pull that fails.
LEMMA DrainPullFails ==
  ASSUME Sound, OutMoves, scenario' = scenario, RowMoves(row, row'), applied \subseteq applied',
         NEW d \in scenario.drains, PullFails(d)
  PROVE  DrainsMove
<1> DEFINE n == [NoDrain EXCEPT !.pc = "fetch", !.attempt = 1]
<1>1. CASE Quit(d) BY <1>1, DrainQuits
<1>2. CASE drain' = [drain EXCEPT ![d] = n]
  <2>1. n \in DrainType /\ n.pc = "fetch" /\ n.acked = {} /\ n.batch = {}
    BY DEF NoDrain, DrainType
  <2> HIDE DEF n
  <2> QED BY <1>2, <2>1, DrainWrites
<1> QED BY <1>1, <1>2 DEF PullFails

\* A fetch fails.
LEMMA StepFetchFails ==
  ASSUME Sound, scenario' = scenario, NEW d \in scenario.drains, FetchFails(d)
  PROVE  Moves
<1>1. /\ coordinator' = coordinator /\ th' = th /\ origin' = origin /\ Fault
      /\ outbox' = outbox /\ campaign' = campaign /\ PullFails(d)
  BY DEF FetchFails, coordinator
<1>2. SceneMoves BY <1>1, FaultScene
<1>3. DrainsMove BY <1>1, QuietFacts, DrainPullFails
<1> QED BY <1>1, <1>2, <1>3, DrainAlone

\* An acknowledgement is lost, cut short, or its answer is.
LEMMA StepAckLost ==
  ASSUME Sound, scenario' = scenario, NEW d \in scenario.drains, AckLost(d)
  PROVE  Moves
<1>1. /\ campaign' = campaign /\ th' = th /\ row' = row /\ applied' = applied /\ Fault
      /\ PullFails(d)
  BY DEF AckLost, origin
<1>2. PICK S \in SUBSET drain[d].acked :
        \E R \in SUBSET S : outbox' = Acked(S) /\ items' = Promoted(R)
  BY DEF AckLost
<1>3. PICK R \in SUBSET S : outbox' = Acked(S) /\ items' = Promoted(R) BY <1>2
<1>4. /\ OutMoves /\ AckMoves /\ ItemsMove /\ OriginMoves
      /\ RowMoves(row, row') /\ applied \subseteq applied'
  BY <1>1, <1>3, AckPromotes
<1>5. SceneMoves BY <1>1, FaultScene
<1>6. DrainsMove BY <1>1, <1>4, DrainPullFails
<1>7. ThreadsMove BY <1>1, <1>4, SameThreads
<1> QED BY <1>4, <1>5, <1>6, <1>7 DEF Moves

\* The drain before a close looks at the outbox.
LEMMA StepLookForPending ==
  ASSUME Sound, scenario' = scenario, NEW d \in scenario.drains, LookForPending(d)
  PROVE  Moves
<1> DEFINE n == [drain[d] EXCEPT !.pc = "fetch", !.attempt = 1]
<1>1. /\ coordinator' = coordinator /\ th' = th /\ origin' = origin
      /\ faults' = faults /\ outbox' = outbox /\ campaign' = campaign
      /\ \/ Goto(d, "close")
         \/ drain' = [drain EXCEPT ![d].pc = "fetch", ![d].attempt = 1]
  BY DEF LookForPending, coordinator
<1>2. SceneMoves BY <1>1, SameScene
<1>3. OutMoves /\ RowMoves(row, row') /\ applied \subseteq applied' BY <1>1, QuietFacts
<1>4. Goto(d, "close") => DrainsMove BY <1>3, DrainGoes DEF DrainPCs
<1>5. ASSUME drain' = [drain EXCEPT ![d].pc = "fetch", ![d].attempt = 1]
      PROVE  DrainsMove
  <2>1. drain \in [scenario.drains -> DrainType] /\ drain[d] \in DrainType /\ DrainSound(d)
    BY DEF Sound
  <2>2. drain' = [drain EXCEPT ![d] = n] BY <1>5, <2>1 DEF DrainType
  <2>3. n \in DrainType /\ n.pc = "fetch" /\ n.acked = drain[d].acked /\ n.batch = drain[d].batch
    BY <2>1 DEF DrainType
  <2> HIDE DEF n
  <2>4. n.batch \subseteq RowIDs BY <2>1, <2>3 DEF DrainSound
  <2> QED BY <1>3, <2>2, <2>3, <2>4, DrainWrites
<1>6. DrainsMove BY <1>1, <1>4, <1>5
<1> QED BY <1>1, <1>2, <1>6, DrainAlone

\* The escrow is closed.
LEMMA StepCloseEscrow ==
  ASSUME Sound, scenario' = scenario, NEW d \in scenario.drains, CloseEscrow(d)
  PROVE  Moves
<1>1. /\ items' = items /\ outbox' = outbox /\ campaign' = campaign /\ th' = th
      /\ applied' = applied /\ faults' = faults /\ row' = ClosedRow(row) /\ Quit(d)
  BY DEF CloseEscrow, coordinator
<1>2. SceneMoves /\ OutMoves BY <1>1, SameScene, SameOutbox
<1>3. RowMoves(row, row') /\ row'.runsDone = row.runsDone /\ row'.status = "closed"
  BY <1>1, CloseMoves DEF Sound
<1>4. OriginMoves
  <2>1. RefundSound' BY <1>3 DEF RefundSound
  <2>2. row'.runsDone = Cardinality({i \in Items : PaidRuns(i)' # {}}) BY <1>1, <1>2, <1>3, CountStays
  <2> QED BY <1>1, <1>3, <2>1, <2>2 DEF OriginMoves, Sound
<1>5. DrainsMove BY <1>1, <1>2, <1>3, DrainQuits
<1> QED BY <1>1, <1>2, <1>4, <1>5, DrainOnly

\* The close is refused.
LEMMA StepRefuseClose ==
  ASSUME Sound, scenario' = scenario, NEW d \in scenario.drains, RefuseClose(d)
  PROVE  Moves
<1>1. /\ coordinator' = coordinator /\ th' = th /\ origin' = origin
      /\ faults' = faults /\ outbox' = outbox /\ campaign' = campaign /\ Quit(d)
  BY DEF RefuseClose, coordinator
<1>2. SceneMoves BY <1>1, SameScene
<1>3. DrainsMove BY <1>1, QuietFacts, DrainQuits
<1> QED BY <1>1, <1>2, <1>3, DrainAlone

\* The escrow is reopened and pulled.
LEMMA StepReopen ==
  ASSUME Sound, scenario' = scenario, NEW d \in scenario.drains, Reopen(d)
  PROVE  Moves
<1>1. /\ items' = items /\ outbox' = outbox /\ campaign' = campaign /\ th' = th
      /\ applied' = applied /\ faults' = faults /\ d = "reopener"
      /\ row' = IF row.status = "closed" THEN [row EXCEPT !.status = "open"] ELSE row
      /\ Goto(d, "fetch") \/ drain' = drain
  BY DEF Reopen, coordinator
<1>2. SceneMoves /\ OutMoves BY <1>1, SameScene, SameOutbox
<1>3. GoodRow(row) BY DEF Sound
<1>4. RowMoves(row, row') /\ row'.runsDone = row.runsDone
  BY <1>1, <1>3, ReopenMoves, RowStays
<1>5. OriginMoves
  <2>1. RefundSound' BY <1>1 DEF RefundSound
  <2>2. row'.runsDone = Cardinality({i \in Items : PaidRuns(i)' # {}}) BY <1>1, <1>2, <1>4, CountStays
  <2> QED BY <1>1, <1>4, <2>1, <2>2 DEF OriginMoves, Sound
<1>6. applied \subseteq applied' BY <1>1
<1>7. Goto(d, "fetch") => DrainsMove BY <1>2, <1>4, <1>6, DrainGoes DEF DrainPCs
<1>8. DrainsMove BY <1>1, <1>2, <1>4, <1>6, <1>7, SameDrains
<1> QED BY <1>1, <1>2, <1>5, <1>8, DrainOnly

\* The relay pushes a row and acknowledges an ok.
LEMMA StepPush ==
  ASSUME Sound, scenario' = scenario, NEW d \in scenario.drains, Push(d)
  PROVE  Moves
<1>1. /\ campaign' = campaign /\ th' = th /\ faults' = faults /\ drain[d].pc = "row"
  BY DEF Push, DrainAt
<1>2. SceneMoves BY <1>1, SameScene
<1>3. PICK e \in RowIDs : e = First(d) BY <1>1, FirstOfBatch
<1> DEFINE fail == IsPay(e) /\ SettleErr(e) # "ok"
<1>4. \/ \E f \in BOOLEAN : Done(d, FALSE, f) /\ UNCHANGED <<outbox, items, origin>>
      \/ /\ SettleErr(e) = "ok" /\ Done(d, FALSE, fail)
         /\ ApplyOnce(e) /\ outbox' = Acked({e}) /\ items' = Promoted({e})
  <2>1. \/ Done(d, FALSE, FALSE) /\ UNCHANGED <<outbox, items, origin>>
        \/ /\ Done(d, FALSE, fail)
           /\ IF SettleErr(e) = "ok" THEN ApplyOnce(e) /\ outbox' = Acked({e}) /\ items' = Promoted({e})
              ELSE UNCHANGED <<outbox, items, origin>>
    BY <1>3, Zenon DEF Push
  <2>2. fail \in BOOLEAN OBVIOUS
  <2> HIDE DEF fail
  <2> QED BY <2>1, <2>2
<1>5. fail \in BOOLEAN OBVIOUS
<1> HIDE DEF fail
<1>6. CASE \E f \in BOOLEAN : Done(d, FALSE, f) /\ UNCHANGED <<outbox, items, origin>>
  <2>1. PICK f \in BOOLEAN : Done(d, FALSE, f) BY <1>6
  <2>2. outbox' = outbox /\ items' = items /\ origin' = origin BY <1>6
  <2>3. coordinator' = coordinator BY <1>1, <2>2 DEF coordinator
  <2>4. OutMoves /\ RowMoves(row, row') /\ applied \subseteq applied' BY <2>2, QuietFacts
  <2>5. DrainsMove BY <1>1, <1>3, <2>1, <2>4, DrainDone
  <2> QED BY <1>1, <1>2, <2>2, <2>3, <2>5, DrainAlone
<1>7. CASE /\ SettleErr(e) = "ok" /\ Done(d, FALSE, fail)
           /\ ApplyOnce(e) /\ outbox' = Acked({e}) /\ items' = Promoted({e})
  <2>1. e \in applied' BY <1>7 DEF ApplyOnce
  <2>2. PICK S \in SUBSET RowIDs : S = {e} BY <1>3
  <2>3. \A f \in S : Counts(f) => Settled(f)' BY <2>1, <2>2 DEF Settled
  <2>4. outbox' = Acked(S) /\ items' = Promoted(S) BY <1>7, <2>2
  <2>5. OutMoves /\ AckMoves /\ \A f \in S : outbox'[f].status = "applied"
    BY <2>3, <2>4, AckedMoves
  <2>6. ItemsMove BY <2>4, <2>5, PromotedMoves
  <2>7. OriginMoves /\ RowMoves(row, row') /\ applied \subseteq applied'
    BY <1>7, <2>5, ApplyMoves
  <2>8. DrainsMove BY <1>1, <1>3, <1>5, <1>7, <2>5, <2>7, DrainDone
  <2>9. ThreadsMove BY <1>1, <2>5, SameThreads
  <2> QED BY <1>2, <2>5, <2>6, <2>7, <2>8, <2>9 DEF Moves
<1> QED BY <1>4, <1>6, <1>7

\* A push or its answer is lost.
LEMMA StepPushLost ==
  ASSUME Sound, scenario' = scenario, NEW d \in scenario.drains, PushLost(d)
  PROVE  Moves
<1>1. /\ coordinator' = coordinator /\ th' = th /\ Fault /\ drain[d].pc = "row"
      /\ outbox' = outbox /\ items' = items /\ campaign' = campaign
  BY DEF PushLost, DrainAt, coordinator
<1>2. SceneMoves /\ OutMoves BY <1>1, FaultScene, SameOutbox
<1>3. PICK e \in RowIDs : e = First(d) BY <1>1, FirstOfBatch
<1>4. (SettleErr(e) = "ok" /\ ApplyOnce(e)) \/ UNCHANGED origin
  BY <1>3, Zenon DEF PushLost
<1>5. PICK f \in BOOLEAN : Done(d, FALSE, f)
  <2>1. \/ \E fail \in BOOLEAN : Done(d, FALSE, fail /\ IsPay(e))
        \/ Done(d, FALSE, IsPay(e))
    BY <1>3, Zenon DEF PushLost
  <2>2. IsPay(e) \in BOOLEAN BY DEF IsPay
  <2> QED BY <2>1, <2>2
<1>6. OriginMoves /\ RowMoves(row, row') /\ applied \subseteq applied'
  BY <1>1, <1>2, <1>4, ApplyMoves, QuietFacts
<1>7. DrainsMove BY <1>1, <1>2, <1>3, <1>5, <1>6, DrainDone
<1> QED BY <1>1, <1>2, <1>6, <1>7, DrainOnly

\* A push ends.
LEMMA StepEndPush ==
  ASSUME Sound, scenario' = scenario, NEW d \in scenario.drains, EndPush(d)
  PROVE  Moves
<1>1. /\ coordinator' = coordinator /\ th' = th /\ origin' = origin
      /\ faults' = faults /\ outbox' = outbox /\ campaign' = campaign /\ Quit(d)
  BY DEF EndPush, coordinator
<1>2. SceneMoves BY <1>1, SameScene
<1>3. DrainsMove BY <1>1, QuietFacts, DrainQuits
<1> QED BY <1>1, <1>2, <1>3, DrainAlone

----------------------------------------------------------------------------
(* The payouts.                                                             *)

\* The steps of a thread and of a drain, as Next takes them.
Works(t) ==
  \/ ThreadStep(t) \/ HandlerFails(t) \/ Tick(t) \/ Cancel(t) \/ Replay(t)
  \/ \E i \in Items, o \in scenario.outcomes : Submit(t, i, o)

DrainMoves(d) ==
  \/ DrainStep(d) \/ ApplyFails(d) \/ FetchFails(d) \/ AckLost(d)
  \/ PushLost(d) \/ LookForPending(d) \/ CloseEscrow(d)
  \/ RefuseClose(d) \/ Reopen(d)

\* A step is one of a thread or of a drain, or a crash.
LEMMA NextSteps ==
  ASSUME Next
  PROVE  /\ scenario' = scenario
         /\ \/ \E t \in Threads : Works(t)
            \/ \E d \in scenario.drains : DrainMoves(d)
            \/ Crash
  BY Zenon DEF Next, Works, DrainMoves

\* A step of a thread is sound.
LEMMA ThreadStepMoves ==
  ASSUME Sound, scenario' = scenario, NEW t \in Threads, Works(t)
  PROVE  Moves
<1>1. CASE ThreadStep(t)
  BY <1>1, StepCommit, StepInsertFinding, StepStampFinding, StepFlush, StepEnqueueRun,
     StepStampRun, StepEnqueueFinding, StepStampFind, StepCrashBonus, StepReadProgress,
     StepWriteProgress, StepPromote, StepCountPending, StepCountUnpaid, StepFinalize,
     StepSweep, StepReplayRun, StepReplayFinding, Zenon DEF ThreadStep
<1>2. CASE HandlerFails(t) \/ Tick(t) \/ Cancel(t) \/ Replay(t)
  BY <1>2, StepHandlerFails, StepTick, StepCancel, StepReplay
<1>3. CASE \E i \in Items, o \in scenario.outcomes : Submit(t, i, o) BY <1>3, StepSubmit
<1> QED BY <1>1, <1>2, <1>3 DEF Works

\* A step of a drain is sound.
LEMMA DrainStepMoves ==
  ASSUME Sound, scenario' = scenario, NEW d \in scenario.drains, DrainMoves(d)
  PROVE  Moves
<1>1. CASE DrainStep(d)
  BY <1>1, StepStartDrain, StepFetch, StepLook, StepApply, StepAck, StepPush, StepEndPush,
     Zenon DEF DrainStep
<1>2. CASE \/ ApplyFails(d) \/ FetchFails(d) \/ AckLost(d) \/ PushLost(d)
  BY <1>2, StepApplyFails, StepFetchFails, StepAckLost, StepPushLost
<1>3. CASE LookForPending(d) \/ CloseEscrow(d) \/ RefuseClose(d) \/ Reopen(d)
  BY <1>3, StepLookForPending, StepCloseEscrow, StepRefuseClose, StepReopen
<1> QED BY <1>1, <1>2, <1>3 DEF DrainMoves

\* Every step moves as it should.
LEMMA NextMoves ==
  ASSUME Sound, Next
  PROVE  Moves
  BY NextSteps, ThreadStepMoves, DrainStepMoves, StepCrash

\* The invariant and the scenario outlive a step.
LEMMA NextSound ==
  ASSUME Sound, [Next]_vars
  PROVE  Sound' /\ scenario' = scenario
<1>1. CASE Next BY <1>1, NextMoves, SoundFromMoves DEF Next
<1>2. CASE UNCHANGED vars
  <2>1. /\ scenario' = scenario /\ campaign' = campaign /\ items' = items /\ outbox' = outbox
        /\ th' = th /\ row' = row /\ applied' = applied /\ drain' = drain /\ faults' = faults
    BY <1>2 DEF vars
  <2>2. SceneMoves /\ OutMoves /\ AckMoves BY <2>1, SameScene, SameOutbox
  <2>3. OriginMoves /\ RowMoves(row, row') /\ applied \subseteq applied' BY <2>1, <2>2, SameOrigin
  <2>4. DrainsMove BY <2>1, <2>2, <2>3, SameDrains
  <2> QED BY <2>1, <2>2, <2>3, <2>4, DrainOnly, SoundFromMoves
<1> QED BY <1>1, <1>2

\* What an item, a thread, a replay and an outbox row say about the run of one item
\* agrees in every reachable state, and a row that was acknowledged is settled.
THEOREM PipelineSound == Spec => []Sound
<1>1. Init => Sound BY InitSound
<1>2. Sound /\ [Next]_vars => Sound' BY NextSound
<1> QED BY <1>1, <1>2, PTL DEF Spec

\* Both sides keep their types: a stamped row id exists, an applied event has a
\* row, and no pool of the escrow is overdrawn.
THEOREM PipelineTypes == Spec => []TypeOK
<1>1. Sound => TypeOK
  <2> SUFFICES ASSUME Sound PROVE TypeOK OBVIOUS
  <2>1. ASSUME NEW i \in Items
        PROVE  {items[i].runRow, items[i].findRow} \subseteq RowIDs \cup {NoRowID}
    BY DEF Sound, ItemSound, RunRowOf
  <2>2. \A d \in scenario.drains : drain[d].batch \cup drain[d].acked \subseteq RowIDs
    BY DEF Sound, DrainSound
  <2>3. /\ row.runsPaid \in 0..row.runsPool
        /\ row.bountyPaid + row.crashBonus + row.refundedBounty <= row.bountyPool
    BY DEF Sound, GoodRow, EscrowRow
  <2> QED BY <2>1, <2>2, <2>3 DEF TypeOK, Sound, OutboxSound
<1> QED BY <1>1, PipelineSound, PTL

\* However often an item is submitted, flushed, replayed and delivered, the chain
\* pays its run once, and has paid no more runs than there are such items.
THEOREM RunsPaidOnce == Spec => []RunPaidOnce
<1>1. Sound => RunPaidOnce
  <2> SUFFICES ASSUME Sound PROVE RunPaidOnce OBVIOUS
  <2>1. ASSUME NEW i \in Items PROVE Cardinality(PaidRuns(i)) <= 1
    <3>1. \A e \in PaidRuns(i) : RunRowOf(e, i) BY DEF Sound, PaidRuns, RunRowOf
    <3>2. \A e, f \in PaidRuns(i) : e = f BY <3>1, OneRunRow
    <3>3. CASE PaidRuns(i) = {} BY <3>3, FS_EmptySet
    <3>4. CASE PaidRuns(i) # {}
      <4>1. PICK e : e \in PaidRuns(i) BY <3>4
      <4>2. PaidRuns(i) = {e} BY <3>2, <4>1
      <4>3. Cardinality(PaidRuns(i)) = 1 BY <4>2, FS_Singleton
      <4> QED BY <4>3
    <3> QED BY <3>3, <3>4
  <2>2. row.runsDone = Cardinality({i \in Items : PaidRuns(i) # {}}) BY DEF Sound
  <2> QED BY <2>1, <2>2 DEF RunPaidOnce
<1> QED BY <1>1, PipelineSound, PTL

\* An item the coordinator calls paid was paid on the chain, or the run pool was
\* used up.
THEOREM PaidItemsWerePaid == Spec => []PaidItemWasPaid
<1>1. Sound => PaidItemWasPaid
  <2> SUFFICES ASSUME Sound, NEW i \in Items, items[i].run = "paid"
               PROVE  items[i].runRow \in applied \/ RunsLeftUnits(row) = 0
    BY DEF PaidItemWasPaid
  <2>1. PICK e \in RowIDs : e = items[i].runRow /\ outbox[e].status = "applied"
    BY DEF Sound, ItemSound
  <2>2. e # NoRowID
    <3>1. Len(outbox) \in Nat BY DEF Sound, OutboxSound
    <3> QED BY <3>1 DEF RowIDs, NoRowID
  <2>3. outbox[e].kind \in RunKinds BY <2>1, <2>2 DEF Sound, ItemSound, RunRowOf
  <2>4. Settled(e) BY <2>1, <2>3 DEF Sound, OutboxSound, Counts
  <2> QED BY <2>1, <2>3, <2>4 DEF Settled, NothingOwed, RunKinds
<1> QED BY <1>1, PipelineSound, PTL

\* Where an operator cannot undo a close, or the campaign has no findings, an
\* acknowledged payment was applied on the chain or nothing was owed for it.
THEOREM AckedPaymentsWerePaid == Spec /\ Honest => []AckedWasPaid
<1> DEFINE I == Sound /\ Honest
<1>1. Init /\ Honest => I BY InitSound
<1>2. I /\ [Next]_vars => I' BY NextSound DEF Honest, HasCrash
<1>3. I => AckedWasPaid
  <2> SUFFICES ASSUME Sound, Honest, NEW e \in RowIDs, e \notin Pending, IsPay(e)
               PROVE  e \in applied \/ NothingOwed(outbox[e].kind)
    BY DEF AckedWasPaid
  <2>1. outbox[e].status = "applied" BY RowKind DEF Pending
  <2>2. Counts(e) BY DEF Counts
  <2> QED BY <2>1, <2>2 DEF Sound, OutboxSound, Settled
<1> HIDE DEF I
<1> QED BY <1>1, <1>2, <1>3, PTL DEF Spec

----------------------------------------------------------------------------
(* What the steps leave alone.                                              *)

\* A step of the coordinator leaves the origin and the drains alone.
LEMMA ThreadQuiet ==
  ASSUME NEW t \in Threads, Works(t)
  PROVE  row' = row /\ applied' = applied /\ drain' = drain
<1>1. CASE ThreadStep(t)
  <2>1. origin' = origin /\ drain' = drain
    BY <1>1, Zenon DEF ThreadStep, Commit, InsertFinding, StampFinding, Flush, EnqueueRun,
       StampRun, EnqueueFinding, StampFind, CrashBonus, ReadProgress, WriteProgress,
       Promote, CountPending, CountUnpaid, Finalize, Sweep, ReplayRun, ReplayFinding
  <2> QED BY <2>1 DEF origin
<1>2. CASE HandlerFails(t) \/ Tick(t) \/ Cancel(t) \/ Replay(t)
  BY <1>2 DEF HandlerFails, Tick, Cancel, Replay, origin
<1>3. CASE \E i \in Items, o \in scenario.outcomes : Submit(t, i, o)
  BY <1>3 DEF Submit, origin
<1> QED BY <1>1, <1>2, <1>3 DEF Works

\* A drain that goes to another place is the only one that moves.
LEMMA GotoShape ==
  ASSUME Sound, NEW d \in scenario.drains, NEW pc, Goto(d, pc)
  PROVE  /\ drain'[d].pc = pc /\ drain'[d].batch = drain[d].batch
         /\ drain'[d].failed = drain[d].failed
         /\ \A c \in scenario.drains : c # d => drain'[c] = drain[c]
<1>1. drain \in [scenario.drains -> DrainType] BY DEF Sound
<1> QED BY <1>1 DEF Goto, DrainType

\* A drain that quits is the only one that moves.
LEMMA QuitShape ==
  ASSUME Sound, NEW d \in scenario.drains, Quit(d)
  PROVE  /\ drain'[d].pc = "idle"
         /\ \A c \in scenario.drains : c # d => drain'[c] = drain[c]
<1>1. drain \in [scenario.drains -> DrainType] BY DEF Sound
<1> QED BY <1>1, Records DEF Quit

\* A drain that drops the head of its batch is the only one that moves.
LEMMA DoneShape ==
  ASSUME Sound, NEW d \in scenario.drains, NEW ack, NEW fail, Done(d, ack, fail)
  PROVE  /\ drain'[d].pc \in {"ack", "row"} /\ drain'[d].batch = drain[d].batch \ {First(d)}
         /\ drain'[d].failed = (drain[d].failed \/ fail)
         /\ \A c \in scenario.drains : c # d => drain'[c] = drain[c]
<1> DEFINE e == First(d)
<1>1. drain \in [scenario.drains -> DrainType] BY DEF Sound
<1>2. drain' = [drain EXCEPT ![d].batch = @ \ {e},
              ![d].acked = IF ack THEN @ \cup {e} ELSE @,
              ![d].failed = @ \/ fail,
              ![d].pc = IF drain[d].batch = {e} THEN "ack" ELSE "row"]
  BY Zenon DEF Done
<1> HIDE DEF e
<1> QED BY <1>1, <1>2 DEF DrainType, e

\* A drain whose pull fails is the only one that moves.
LEMMA PullShape ==
  ASSUME Sound, NEW d \in scenario.drains, PullFails(d)
  PROVE  /\ drain'[d].pc \in {"idle", "fetch"}
         /\ \A c \in scenario.drains : c # d => drain'[c] = drain[c]
<1>1. drain \in [scenario.drains -> DrainType] BY DEF Sound
<1>2. CASE Quit(d) BY <1>2, QuitShape
<1>3. CASE drain' = [drain EXCEPT ![d] = [NoDrain EXCEPT !.pc = "fetch", !.attempt = 1]]
  BY <1>1, <1>3 DEF NoDrain
<1> QED BY <1>2, <1>3 DEF PullFails

\* A step of a drain moves no other drain.
LEMMA OneDrainMoves ==
  ASSUME Sound, NEW d \in scenario.drains, DrainMoves(d), NEW c \in scenario.drains, c # d
  PROVE  drain'[c] = drain[c]
<1>1. drain \in [scenario.drains -> DrainType] BY DEF Sound
<1>3. CASE \E pc : Goto(d, pc) BY <1>3, GotoShape
<1>4. CASE Quit(d) BY <1>4, QuitShape
<1>5. CASE \E a, f : Done(d, a, f) BY <1>5, DoneShape
<1>6. CASE PullFails(d) BY <1>6, PullShape
<1>7. CASE StartDrain(d) \/ CloseEscrow(d) \/ RefuseClose(d) \/ EndPush(d)
  <2>1. Goto(d, "fetch") \/ Quit(d)
    BY <1>7, Zenon DEF StartDrain, CloseEscrow, RefuseClose, EndPush
  <2> QED BY <1>3, <1>4, <2>1
<1>8. CASE Apply(d) \/ Push(d) \/ PushLost(d) \/ ApplyFails(d)
  <2>1. \E a, f : Done(d, a, f) BY <1>8, Zenon DEF Apply, Push, PushLost, ApplyFails
  <2> QED BY <1>5, <2>1
<1>9. CASE FetchFails(d) \/ AckLost(d)
  <2>1. PullFails(d) BY <1>9 DEF FetchFails, AckLost
  <2> QED BY <1>6, <2>1
<1>10. CASE Fetch(d)
  <2>1. \/ Goto(d, "look") \/ Quit(d)
        \/ drain' = [drain EXCEPT ![d].pc = "row", ![d].batch = Pending,
                                  ![d].acked = {}, ![d].failed = FALSE]
    BY <1>10, Zenon DEF Fetch
  <2> QED BY <1>1, <1>3, <1>4, <2>1
<1>11. CASE Look(d)
  <2>1. Goto(d, "apply") \/ \E a, f : Done(d, a, f) BY <1>11, Zenon DEF Look
  <2> QED BY <1>3, <1>5, <2>1
<1>12. CASE Ack(d)
  <2>1. \/ Goto(d, "look") \/ Quit(d)
        \/ drain' = [drain EXCEPT ![d].pc = "fetch", ![d].acked = {}, ![d].failed = FALSE]
    BY <1>12, Zenon DEF Ack
  <2> QED BY <1>1, <1>3, <1>4, <2>1
<1>13. CASE LookForPending(d)
  <2>1. Goto(d, "close") \/ drain' = [drain EXCEPT ![d].pc = "fetch", ![d].attempt = 1]
    BY <1>13, Zenon DEF LookForPending
  <2> QED BY <1>1, <1>3, <2>1
<1>14. CASE Reopen(d)
  <2>1. Goto(d, "fetch") \/ drain' = drain BY <1>14, Zenon DEF Reopen
  <2> QED BY <1>3, <2>1
<1> QED BY <1>7, <1>8, <1>9, <1>10, <1>11, <1>12, <1>13, <1>14, Zenon DEF DrainMoves, DrainStep

\* How the escrow moves with a step of a drain.
LEMMA EscrowSteps ==
  ASSUME Sound, CloserOnly, NEW d \in scenario.drains, DrainMoves(d)
  PROVE  \/ row' = row
         \/ \E e \in RowIDs : ~IsPay(e) /\ e \in applied' /\ row'.status = "closed"
         \/ /\ row'.refundedBounty = row.refundedBounty
            /\ row'.status # "closed" /\ row.status # "closed"
         \/ d = "closer" /\ CloseEscrow(d) /\ row'.status = "closed"
         \/ /\ d = "reopener" /\ row.status = "closed"
            /\ drain[d].pc = "idle" /\ drain'[d].pc \in {"idle", "fetch"}
<1>1. ASSUME NEW e \in RowIDs, SettleErr(e) = "ok", ApplyOnce(e)
      PROVE  \/ row' = row
             \/ ~IsPay(e) /\ e \in applied' /\ row'.status = "closed"
             \/ /\ row'.refundedBounty = row.refundedBounty
                /\ row'.status # "closed" /\ row.status # "closed"
  <2>1. row' = SettledRow(e) /\ e \in applied' BY <1>1 DEF ApplyOnce
  <2>2. CASE e \in applied BY <2>1, <2>2 DEF SettledRow, WasApplied
  <2>3. CASE e \notin applied BY <1>1, <2>1, <2>3, SettledMoves
  <2> QED BY <2>2, <2>3
<1>2. CASE Apply(d) \/ Push(d) \/ PushLost(d)
  <2>1. drain[d].pc \in {"row", "apply"} BY <1>2, Zenon DEF Apply, Push, PushLost, DrainAt
  <2>2. PICK e \in RowIDs : e = First(d) BY <2>1, FirstOfBatch
  <2>3. (SettleErr(e) = "ok" /\ ApplyOnce(e)) \/ origin' = origin
    BY <1>2, <2>2, Zenon DEF Apply, Push, PushLost
  <2> QED BY <1>1, <2>3 DEF origin
<1>3. CASE \/ StartDrain(d) \/ Fetch(d) \/ Look(d) \/ Ack(d) \/ EndPush(d)
           \/ ApplyFails(d) \/ FetchFails(d) \/ AckLost(d) \/ LookForPending(d) \/ RefuseClose(d)
  <2>1. origin' = origin
    BY <1>3, Zenon DEF StartDrain, Fetch, Look, Ack, EndPush, ApplyFails, FetchFails, AckLost,
       LookForPending, RefuseClose
  <2> QED BY <2>1 DEF origin
<1>4. CASE CloseEscrow(d)
  <2>1. drain[d].pc = "close" /\ row' = ClosedRow(row) BY <1>4 DEF CloseEscrow, DrainAt
  <2>2. row'.status = "closed" BY <2>1, CloseMoves DEF Sound
  <2> QED BY <1>4, <2>1, <2>2 DEF CloserOnly
<1>5. CASE Reopen(d)
  <2>1. /\ d = "reopener" /\ drain[d].pc = "idle" /\ (Goto(d, "fetch") \/ drain' = drain)
        /\ row.status # "closed" => row' = row
    BY <1>5 DEF Reopen, DrainAt
  <2>2. drain'[d].pc \in {"idle", "fetch"} BY <2>1, GotoShape
  <2> QED BY <2>1, <2>2
<1> QED BY <1>2, <1>3, <1>4, <1>5, Zenon DEF DrainMoves, DrainStep

\* Only the drain before a close comes to a close.
LEMMA CloserStays ==
  ASSUME Sound, CloserOnly, Next
  PROVE  CloserOnly'
<1>1. scenario' = scenario BY DEF Next
<1>2. drain \in [scenario.drains -> DrainType] BY DEF Sound
<1> SUFFICES ASSUME NEW c \in scenario.drains, drain'[c].pc \in {"look", "close"}
             PROVE  c = "closer"
  BY <1>1 DEF CloserOnly
<1>3. ASSUME drain'[c] = drain[c] PROVE c = "closer" BY <1>3 DEF CloserOnly
<1>4. CASE \E t \in Threads : Works(t) BY <1>3, <1>4, ThreadQuiet
<1>5. CASE Crash
  <2>1. drain'[c] = IF c = "pusher" THEN NoDrain ELSE drain[c] BY <1>5 DEF Crash
  <2> QED BY <1>3, <2>1, Records
<1>6. ASSUME NEW d \in scenario.drains, DrainMoves(d) PROVE c = "closer"
  <2>1. CASE c # d BY <1>3, <1>6, <2>1, OneDrainMoves
  <2>2. CASE c = d
    <3>1. CASE \/ StartDrain(d) \/ Look(d) \/ Apply(d) \/ Push(d) \/ EndPush(d) \/ ApplyFails(d)
               \/ FetchFails(d) \/ AckLost(d) \/ PushLost(d) \/ CloseEscrow(d) \/ RefuseClose(d)
      <4>1. \/ Quit(d) \/ PullFails(d) \/ (\E pc \in {"fetch", "apply"} : Goto(d, pc))
            \/ \E a, f : Done(d, a, f)
        BY <3>1, Zenon DEF StartDrain, Look, Apply, Push, EndPush, ApplyFails, FetchFails,
           AckLost, PushLost, CloseEscrow, RefuseClose
      <4> QED BY <2>2, <4>1, QuitShape, PullShape, GotoShape, DoneShape
    <3>2. CASE Fetch(d)
      <4>1. \/ Quit(d) \/ d = "closer"
            \/ drain' = [drain EXCEPT ![d].pc = "row", ![d].batch = Pending,
                                      ![d].acked = {}, ![d].failed = FALSE]
        BY <3>2, Zenon DEF Fetch
      <4>2. CASE drain' = [drain EXCEPT ![d].pc = "row", ![d].batch = Pending,
                                        ![d].acked = {}, ![d].failed = FALSE]
        <5>1. drain'[d].pc = "row" BY <1>2, <4>2 DEF DrainType
        <5> QED BY <2>2, <5>1
      <4> QED BY <2>2, <4>1, <4>2, QuitShape
    <3>3. CASE Ack(d)
      <4>1. \/ Quit(d) \/ d = "closer"
            \/ drain' = [drain EXCEPT ![d].pc = "fetch", ![d].acked = {}, ![d].failed = FALSE]
        BY <3>3, Zenon DEF Ack
      <4>2. CASE drain' = [drain EXCEPT ![d].pc = "fetch", ![d].acked = {}, ![d].failed = FALSE]
        <5>1. drain'[d].pc = "fetch" BY <1>2, <4>2 DEF DrainType
        <5> QED BY <2>2, <5>1
      <4> QED BY <2>2, <4>1, <4>2, QuitShape
    <3>4. CASE LookForPending(d)
      <4>1. drain[d].pc = "look" BY <3>4 DEF LookForPending, DrainAt
      <4> QED BY <2>2, <4>1 DEF CloserOnly
    <3>5. CASE Reopen(d)
      <4>1. Goto(d, "fetch") \/ drain' = drain BY <3>5, Zenon DEF Reopen
      <4> QED BY <1>3, <2>2, <4>1, GotoShape
    <3> QED BY <1>6, <3>1, <3>2, <3>3, <3>4, <3>5, Zenon DEF DrainMoves, DrainStep
  <2> QED BY <2>1, <2>2
<1> QED BY <1>4, <1>5, <1>6, NextSteps, Zenon

\* An acknowledgement adds no row.
LEMMA AckedRows ==
  ASSUME OutMoves, NEW S, outbox' = Acked(S)
  PROVE  RowIDs' = RowIDs
<1>1. DOMAIN outbox' = RowIDs BY DEF Acked
<1>2. DOMAIN outbox' = 1..Len(outbox') BY DEF OutMoves
<1> QED BY <1>1, <1>2 DEF RowIDs

\* A drain adds no row and leaves the threads and the campaign alone.
LEMMA DrainQuiet ==
  ASSUME OutMoves, NEW d \in scenario.drains, DrainMoves(d)
  PROVE  RowIDs' = RowIDs /\ th' = th /\ campaign' = campaign
<1>1. outbox' = outbox => RowIDs' = RowIDs BY DEF RowIDs
<1>2. CASE \/ StartDrain(d) \/ Fetch(d) \/ Look(d) \/ Apply(d) \/ EndPush(d)
           \/ ApplyFails(d) \/ FetchFails(d) \/ PushLost(d) \/ LookForPending(d)
           \/ CloseEscrow(d) \/ RefuseClose(d) \/ Reopen(d)
  <2>1. coordinator' = coordinator /\ th' = th
    BY <1>2, Zenon DEF StartDrain, Fetch, Look, Apply, EndPush, ApplyFails, FetchFails,
       PushLost, LookForPending, CloseEscrow, RefuseClose, Reopen
  <2> QED BY <1>1, <2>1 DEF coordinator
<1>3. CASE Ack(d) \/ Push(d) \/ AckLost(d)
  <2>1. th' = th /\ campaign' = campaign BY <1>3, Zenon DEF Ack, Push, AckLost
  <2>2. outbox' = outbox \/ \E S : outbox' = Acked(S)
    BY <1>3, Zenon DEF Ack, Push, AckLost
  <2> QED BY <1>1, <2>1, <2>2, AckedRows
<1> QED BY <1>2, <1>3, Zenon DEF DrainMoves, DrainStep

----------------------------------------------------------------------------
(* The finalize gate.                                                       *)

\* What is over stays over.
LEMMA DoneStays ==
  ASSUME Sound, Moves
  PROVE  (AllDone => AllDone') /\ (NoneLeft => NoneLeft')
<1>1. \A i \in Items : ItemMoves(i) BY DEF Moves, ItemsMove
<1>2. AllDone => AllDone' BY <1>1 DEF AllDone, ItemMoves
<1>3. NoneLeft => NoneLeft' BY <1>1, <1>2 DEF NoneLeft, AllDone, ItemMoves
<1> QED BY <1>2, <1>3

\* A thread that is left alone keeps what it knows.
LEMMA GateThreadStays ==
  ASSUME Sound, Moves, NEW t \in Threads, GateThread(t), th'[t] = th[t]
  PROVE  GateThread(t)'
  BY DoneStays DEF GateThread

\* The gate holds after a step that completes no campaign, enqueues no finalize row
\* and closes no escrow without reason.
LEMMA GateFrom ==
  ASSUME Sound, Moves, GateSound, CloserOnly',
         campaign' = "completed" => AllDone',
         \A t \in Threads : GateThread(t)',
         \A e \in RowIDs' \ RowIDs : outbox'[e].kind = "finalize" => NoneLeft,
         row'.status = "closed" => \/ row.status = "closed"
                                   \/ \E e \in RowIDs : outbox[e].kind = "finalize"
  PROVE  GateSound'
<1>1. /\ RowIDs \subseteq RowIDs' /\ \A e \in RowIDs : outbox'[e].kind = outbox[e].kind
  BY RowsStay DEF Moves, OutMoves
<1>2. ASSUME NEW e \in RowIDs', outbox'[e].kind = "finalize" PROVE NoneLeft'
  BY <1>1, <1>2, DoneStays DEF GateSound
<1>3. row'.status = "closed" => \E e \in RowIDs : outbox[e].kind = "finalize" BY DEF GateSound
<1>4. row'.status = "closed" => \E e \in RowIDs' : outbox'[e].kind = "finalize" BY <1>1, <1>3
<1> QED BY <1>2, <1>4 DEF GateSound

\* Where a thread knows nothing about the gate.
NoGate == {"idle", "insert", "commit", "stamp", "flush", "run", "stampRun", "find", "stampFind",
           "bonus", "read", "sweep"}

\* The gate holds after a step of a thread that comes to know nothing.
LEMMA GateHarmless ==
  ASSUME Sound, Moves, GateSound, CloserOnly', NEW t \in Threads,
         th'[t].pc \in NoGate, \A u \in Threads : u # t => th'[u] = th[u],
         campaign' \in {campaign, "cancelled"}, row' = row,
         \A e \in RowIDs' \ RowIDs : outbox'[e].kind # "finalize"
  PROVE  GateSound'
<1>1. GateThread(t)' BY DEF GateThread, NoGate
<1>2. \A u \in Threads : GateThread(u)' BY <1>1, GateThreadStays DEF GateSound
<1>3. campaign' = "completed" => AllDone' BY DoneStays DEF GateSound
<1> QED BY <1>2, <1>3, GateFrom

\* The gate holds after a step of a thread that knows why it goes on.
LEMMA GateGoes ==
  ASSUME Sound, Moves, GateSound, CloserOnly', NEW t \in Threads,
         GateThread(t)', \A u \in Threads : u # t => th'[u] = th[u],
         campaign' = "completed" => AllDone, row' = row,
         \A e \in RowIDs' \ RowIDs : outbox'[e].kind = "finalize" => NoneLeft
  PROVE  GateSound'
<1>1. \A u \in Threads : GateThread(u)' BY GateThreadStays DEF GateSound
<1>2. campaign' = "completed" => AllDone' BY DoneStays
<1> QED BY <1>1, <1>2, GateFrom

\* An enqueued row has the kind it was enqueued with.
LEMMA EnqueuedKind ==
  ASSUME Sound, NEW kind, NEW miner, NEW item, NEW id, Enqueue(kind, miner, item, id),
         NEW e \in RowIDs' \ RowIDs
  PROVE  outbox'[e].kind = kind
<1>1. outbox \in Seq(RowType) BY DEF Sound, OutboxSound
<1>2. CASE outbox' = outbox BY <1>2 DEF RowIDs
<1>3. CASE outbox' = Append(outbox, NewRow(kind, miner, item))
  <2> DEFINE r == NewRow(kind, miner, item)
  <2>1. r.kind = kind BY DEF NewRow
  <2> HIDE DEF r
  <2>2. Len(outbox') = Len(outbox) + 1 /\ Len(outbox) \in Nat /\ outbox'[Len(outbox) + 1] = r
    BY <1>1, <1>3 DEF r
  <2>3. e = Len(outbox) + 1 BY <2>2 DEF RowIDs
  <2> QED BY <2>1, <2>2, <2>3
<1> QED BY <1>2, <1>3 DEF Enqueue

\* relay enqueues rows of its kind.
LEMMA RelayedKind ==
  ASSUME Sound, NEW t \in Threads, NEW kind, NEW stamped, NEW pc, Relay(t, kind, stamped, pc),
         NEW e \in RowIDs' \ RowIDs
  PROVE  outbox'[e].kind = kind
<1>1. PICK id \in 1..Len(outbox) + 1 :
        IF stamped # NoRowID THEN id = stamped /\ UNCHANGED outbox
        ELSE Enqueue(kind, Miner[th[t].item], th[t].item, id)
  BY Zenon DEF Relay
<1>2. outbox' # outbox BY DEF RowIDs
<1>3. Enqueue(kind, Miner[th[t].item], th[t].item, id) BY <1>1, <1>2
<1> QED BY <1>3, EnqueuedKind

\* A thread that goes on or ends is the only one that moves.
LEMMA ThreadShape ==
  ASSUME Sound, NEW t \in Threads, NEW n, th' = [th EXCEPT ![t] = n]
  PROVE  th'[t] = n /\ \A u \in Threads : u # t => th'[u] = th[u]
<1>1. th \in [Threads -> ThreadType] BY DEF Sound
<1> QED BY <1>1

\* A thread that goes to another place keeps the rest.
LEMMA StepShape ==
  ASSUME Sound, NEW t \in Threads, NEW pc, Step(t, pc)
  PROVE  th'[t].pc = pc /\ th'[t].next = th[t].next /\ \A u \in Threads : u # t => th'[u] = th[u]
<1> DEFINE n == [th[t] EXCEPT !.pc = pc]
<1>1. th \in [Threads -> ThreadType] /\ th[t] \in ThreadType BY DEF Sound
<1>2. th' = [th EXCEPT ![t] = n] BY <1>1 DEF Step
<1>3. n.pc = pc /\ n.next = th[t].next BY <1>1 DEF ThreadType
<1> HIDE DEF n
<1> QED BY <1>2, <1>3, ThreadShape

\* A thread that ends is the only one that moves.
LEMMA EndShape ==
  ASSUME Sound, NEW t \in Threads, Ends(t)
  PROVE  th'[t].pc = "idle" /\ \A u \in Threads : u # t => th'[u] = th[u]
  BY ThreadShape, Records DEF Ends

\* The steps of a submit up to its flush know nothing about the gate.
LEMMA GateSubmitSteps ==
  ASSUME Sound, Moves, GateSound, CloserOnly', NEW t \in Threads, row' = row,
         \/ \E i \in Items, o \in scenario.outcomes : Submit(t, i, o)
         \/ Commit(t) \/ InsertFinding(t) \/ StampFinding(t) \/ Flush(t)
         \/ Tick(t) \/ Cancel(t) \/ HandlerFails(t) \/ Sweep(t)
  PROVE  GateSound'
<1>1. outbox' = outbox
  BY Zenon DEF Submit, Commit, InsertFinding, StampFinding, Flush, Tick, Cancel, HandlerFails,
     Sweep, coordinator
<1>2. RowIDs' = RowIDs BY <1>1 DEF RowIDs
<1>3. campaign' \in {campaign, "cancelled"}
  BY Zenon DEF Submit, Commit, InsertFinding, StampFinding, Flush, Tick, Cancel, HandlerFails,
     Sweep, coordinator
<1>4. th \in [Threads -> ThreadType] BY DEF Sound
<1>5. th'[t].pc \in NoGate /\ \A u \in Threads : u # t => th'[u] = th[u]
  <2>1. CASE \E i \in Items, o \in scenario.outcomes : Submit(t, i, o)
    <3>1. PICK i \in Items, o \in scenario.outcomes : Submit(t, i, o) BY <2>1
    <3>2. th' = [th EXCEPT ![t] = [Idle EXCEPT
                   !.pc = IF Hunt /\ o = "crash" THEN "insert" ELSE "commit",
                   !.item = i, !.outcome = o, !.accepts = AcceptsSettle,
                   !.then = "progress"]]
      BY <3>1 DEF Submit
    <3> QED BY <1>4, <3>2 DEF Idle, NoGate
  <2>2. CASE Commit(t)
    <3>1. \/ \E pc \in {"stamp", "insert", "read", "flush"} : Step(t, pc)
          \/ Ends(t) \/ th' = [th EXCEPT ![t].pc = "flush", ![t].outcome = "reject"]
      BY <2>2 DEF Commit
    <3>2. CASE th' = [th EXCEPT ![t].pc = "flush", ![t].outcome = "reject"]
      <4> DEFINE n == [th[t] EXCEPT !.pc = "flush", !.outcome = "reject"]
      <4>1. th[t] \in ThreadType /\ th' = [th EXCEPT ![t] = n] BY <1>4, <3>2
      <4>2. n.pc = "flush" BY <4>1 DEF ThreadType
      <4> HIDE DEF n
      <4> QED BY <4>1, <4>2, ThreadShape DEF NoGate
    <3> QED BY <3>1, <3>2, StepShape, EndShape DEF NoGate
  <2>3. CASE InsertFinding(t) \/ StampFinding(t)
    <3>1. \E pc \in {"commit", "stamp", "flush"} : Step(t, pc)
      BY <2>3 DEF InsertFinding, StampFinding
    <3> QED BY <3>1, StepShape DEF NoGate
  <2>4. CASE Flush(t)
    <3> DEFINE n == [th[t] EXCEPT !.pc = "run", !.read = Cur(t)]
    <3>1. th' = [th EXCEPT ![t].pc = "run", ![t].read = Cur(t)] BY <2>4 DEF Flush
    <3>2. th[t] \in ThreadType /\ th' = [th EXCEPT ![t] = n] BY <1>4, <3>1
    <3>3. n.pc = "run" BY <3>2 DEF ThreadType
    <3> HIDE DEF n
    <3> QED BY <3>2, <3>3, ThreadShape DEF NoGate
  <2>5. CASE Tick(t)
    <3>1. th' = [th EXCEPT ![t] = [Idle EXCEPT !.pc = "read"]] BY <2>5 DEF Tick
    <3> QED BY <1>4, <3>1 DEF Idle, NoGate
  <2>6. CASE Cancel(t)
    <3>1. th' = [th EXCEPT ![t] = [Idle EXCEPT !.pc = "sweep"]] BY <2>6 DEF Cancel
    <3> QED BY <1>4, <3>1 DEF Idle, NoGate
  <2>7. CASE HandlerFails(t) \/ Sweep(t)
    <3>1. Ends(t) BY <2>7 DEF HandlerFails, Sweep
    <3> QED BY <3>1, EndShape DEF NoGate
  <2> QED BY <2>1, <2>2, <2>3, <2>4, <2>5, <2>6, <2>7
<1> QED BY <1>2, <1>3, <1>5, GateHarmless

\* Neither do the steps of a flush, which enqueue no finalize row.
LEMMA GateFlushSteps ==
  ASSUME Sound, Moves, GateSound, CloserOnly', NEW t \in Threads, row' = row,
         EnqueueRun(t) \/ StampRun(t) \/ EnqueueFinding(t) \/ StampFind(t) \/ CrashBonus(t)
  PROVE  GateSound'
<1>1. campaign' = campaign
  BY Zenon DEF EnqueueRun, StampRun, EnqueueFinding, StampFind, CrashBonus
<1>2. th \in [Threads -> ThreadType] BY DEF Sound
<1>3. ASSUME NEW kind, NEW stamped, NEW pc \in NoGate, Relay(t, kind, stamped, pc),
             kind # "finalize"
      PROVE  GateSound'
  <2>1. PICK id : th' = [th EXCEPT ![t].pc = pc, ![t].id = id,
                          ![t].paid = stamped # NoRowID /\ outbox[id].status = "applied"]
    BY <1>3, Zenon DEF Relay
  <2> DEFINE paid == stamped # NoRowID /\ outbox[id].status = "applied"
  <2>2. th' = [th EXCEPT ![t].pc = pc, ![t].id = id, ![t].paid = paid] BY <2>1, Zenon
  <2> HIDE DEF paid
  <2>3. th'[t].pc = pc /\ \A u \in Threads : u # t => th'[u] = th[u]
    <3> DEFINE n == [th[t] EXCEPT !.pc = pc, !.id = id, !.paid = paid]
    <3>1. th[t] \in ThreadType /\ th' = [th EXCEPT ![t] = n] BY <1>2, <2>2
    <3>2. n.pc = pc BY <3>1 DEF ThreadType
    <3> HIDE DEF n
    <3> QED BY <3>1, <3>2, ThreadShape
  <2>4. \A e \in RowIDs' \ RowIDs : outbox'[e].kind # "finalize" BY <1>3, RelayedKind
  <2> QED BY <1>1, <2>3, <2>4, GateHarmless
<1>4. ASSUME NEW pc \in NoGate, Step(t, pc),
             \A e \in RowIDs' \ RowIDs : outbox'[e].kind # "finalize"
      PROVE  GateSound'
  BY <1>1, <1>4, StepShape, GateHarmless
<1>5. outbox' = outbox => \A e \in RowIDs' \ RowIDs : outbox'[e].kind # "finalize"
  BY DEF RowIDs
<1>6. CASE EnqueueRun(t)
  <2> DEFINE kind == IF Floor(th[t].read.run) THEN "run_floor" ELSE "run"
  <2>1. Relay(t, kind, th[t].read.runRow, "stampRun") \/ (Step(t, "find") /\ outbox' = outbox)
    BY <1>6, Zenon DEF EnqueueRun
  <2>2. kind # "finalize" OBVIOUS
  <2> HIDE DEF kind
  <2>3. "stampRun" \in NoGate /\ "find" \in NoGate BY DEF NoGate
  <2> QED BY <1>3, <1>4, <1>5, <2>1, <2>2, <2>3
<1>7. CASE EnqueueFinding(t)
  <2>1. \/ Relay(t, "finding", th[t].read.findRow, "stampFind")
        \/ Step(t, "bonus") /\ outbox' = outbox
    BY <1>7, Zenon DEF EnqueueFinding
  <2>2. "stampFind" \in NoGate /\ "bonus" \in NoGate BY DEF NoGate
  <2> QED BY <1>3, <1>4, <1>5, <2>1, <2>2
<1>8. CASE StampRun(t) \/ StampFind(t)
  <2>1. outbox' = outbox /\ \E pc \in {"find", "bonus"} : Step(t, pc)
    BY <1>8, Zenon DEF StampRun, StampFind
  <2>2. {"find", "bonus"} \subseteq NoGate BY DEF NoGate
  <2> QED BY <1>4, <1>5, <2>1, <2>2
<1>9. CASE CrashBonus(t)
  <2>1. /\ Step(t, "read")
        /\ \/ outbox' = outbox
           \/ \E id : Enqueue("crash_bonus", Miner[th[t].item], 0, id)
    BY <1>9, Zenon DEF CrashBonus
  <2>2. \A e \in RowIDs' \ RowIDs : outbox'[e].kind # "finalize" BY <1>5, <2>1, EnqueuedKind
  <2>3. "read" \in NoGate BY DEF NoGate
  <2> QED BY <1>4, <2>1, <2>2, <2>3
<1> QED BY <1>6, <1>7, <1>8, <1>9

\* recomputeProgress completes the campaign when every item is done.
LEMMA GateProgress ==
  ASSUME Sound, Moves, Gated, GateSound, CloserOnly', NEW t \in Threads, row' = row,
         ReadProgress(t) \/ WriteProgress(t)
  PROVE  GateSound'
<1>1. outbox' = outbox BY Zenon DEF ReadProgress, WriteProgress, coordinator
<1>2. RowIDs' \ RowIDs = {} BY <1>1 DEF RowIDs
<1>3. th \in [Threads -> ThreadType] BY DEF Sound
<1>4. CASE ReadProgress(t)
  <2>1. campaign' = campaign BY <1>4 DEF ReadProgress, coordinator
  <2>2. PICK over \in {FALSE, scenario.timeBudget} :
          th' = [th EXCEPT ![t].pc = "write",
                  ![t].next = IF AllDone \/ over THEN "completed" ELSE campaign]
    BY <1>4, Zenon DEF ReadProgress
  <2>3. ~over BY DEF Gated
  <2> DEFINE next == IF AllDone \/ over THEN "completed" ELSE campaign
  <2>4. next = "completed" => AllDone BY <2>3 DEF GateSound
  <2>5. th' = [th EXCEPT ![t].pc = "write", ![t].next = next] BY <2>2, Zenon
  <2> HIDE DEF next
  <2>6. /\ th'[t].pc = "write" /\ th'[t].next = next
        /\ \A u \in Threads : u # t => th'[u] = th[u]
    <3> DEFINE n == [th[t] EXCEPT !.pc = "write", !.next = next]
    <3>1. th[t] \in ThreadType /\ th' = [th EXCEPT ![t] = n] BY <1>3, <2>5
    <3>2. n.pc = "write" /\ n.next = next BY <3>1 DEF ThreadType
    <3> HIDE DEF n
    <3> QED BY <3>1, <3>2, ThreadShape
  <2>7. GateThread(t)' BY <2>4, <2>6, DoneStays DEF GateThread
  <2>8. campaign' = "completed" => AllDone BY <2>1 DEF GateSound
  <2> QED BY <1>2, <2>6, <2>7, <2>8, GateGoes
<1>5. CASE WriteProgress(t)
  <2>1. campaign' = th[t].next /\ th[t].pc = "write" BY <1>5 DEF WriteProgress, At
  <2>2. th[t].next = "completed" => AllDone BY <2>1 DEF GateSound, GateThread
  <2>3. \/ th[t].next = "completed" /\ Step(t, "promote")
        \/ Ends(t)
    BY <1>5 DEF WriteProgress
  <2>4. GateThread(t)' BY <2>2, <2>3, StepShape, EndShape, DoneStays DEF GateThread
  <2>5. \A u \in Threads : u # t => th'[u] = th[u] BY <2>3, StepShape, EndShape
  <2> QED BY <1>2, <2>1, <2>2, <2>4, <2>5, GateGoes
<1> QED BY <1>4, <1>5

\* tryFinalizeEscrow comes to its finalize row with nothing left unpaid.
LEMMA GateFinalize ==
  ASSUME Sound, Moves, GateSound, CloserOnly', NEW t \in Threads, row' = row,
         Promote(t) \/ CountPending(t) \/ CountUnpaid(t) \/ Finalize(t)
  PROVE  GateSound'
<1>1. campaign' = campaign
  BY Zenon DEF Promote, CountPending, CountUnpaid, Finalize, coordinator
<1>2. campaign' = "completed" => AllDone BY <1>1 DEF GateSound
<1>3. GateThread(t) BY DEF GateSound
<1>4. CASE Promote(t) \/ CountPending(t)
  <2>1. /\ th[t].pc \in {"promote", "count"} /\ outbox' = outbox
        /\ Ends(t) \/ \E pc \in {"count", "unpaid"} : Step(t, pc)
    BY <1>4, Zenon DEF Promote, CountPending, At, coordinator
  <2>2. AllDone BY <1>3, <2>1 DEF GateThread
  <2>3. GateThread(t)' /\ \A u \in Threads : u # t => th'[u] = th[u]
    BY <2>1, <2>2, StepShape, EndShape, DoneStays DEF GateThread
  <2>4. RowIDs' \ RowIDs = {} BY <2>1 DEF RowIDs
  <2> QED BY <1>2, <2>3, <2>4, GateGoes
<1>5. CASE CountUnpaid(t)
  <2>1. /\ th[t].pc = "unpaid" /\ outbox' = outbox
        /\ Ends(t) \/ (UnpaidItems = {} /\ Step(t, "finalize"))
    BY <1>5, Zenon DEF CountUnpaid, At, coordinator
  <2>2. AllDone BY <1>3, <2>1 DEF GateThread
  <2>3. UnpaidItems = {} => NoneLeft BY <2>2 DEF UnpaidItems, NoneLeft
  <2>4. GateThread(t)' /\ \A u \in Threads : u # t => th'[u] = th[u]
    BY <2>1, <2>3, StepShape, EndShape, DoneStays DEF GateThread
  <2>5. RowIDs' \ RowIDs = {} BY <2>1 DEF RowIDs
  <2> QED BY <1>2, <2>4, <2>5, GateGoes
<1>6. CASE Finalize(t)
  <2>1. th[t].pc = "finalize" /\ Ends(t) BY <1>6 DEF Finalize, At
  <2>2. NoneLeft BY <1>3, <2>1 DEF GateThread
  <2>3. GateThread(t)' /\ \A u \in Threads : u # t => th'[u] = th[u]
    BY <2>1, EndShape DEF GateThread
  <2> QED BY <1>2, <2>2, <2>3, GateGoes
<1> QED BY <1>4, <1>5, <1>6

\* The gate holds after every step of the coordinator.
LEMMA GateThreads ==
  ASSUME Sound, Moves, Gated, GateSound, CloserOnly', NEW t \in Threads, Works(t)
  PROVE  GateSound'
<1>1. row' = row BY ThreadQuiet
<1>2. ~Replay(t) BY DEF Gated, Replay
<1>3. ~ReplayRun(t) /\ ~ReplayFinding(t)
  <2>1. th[t].pc \notin {"replay", "replayFinding"} BY DEF GateSound, GateThread
  <2> QED BY <2>1, Zenon DEF ReplayRun, ReplayFinding, At
<1>4. CASE ThreadStep(t)
  <2>1. \/ Commit(t) \/ InsertFinding(t) \/ StampFinding(t) \/ Flush(t) \/ Sweep(t)
        \/ EnqueueRun(t) \/ StampRun(t) \/ EnqueueFinding(t) \/ StampFind(t) \/ CrashBonus(t)
        \/ ReadProgress(t) \/ WriteProgress(t)
        \/ Promote(t) \/ CountPending(t) \/ CountUnpaid(t) \/ Finalize(t)
    BY <1>3, <1>4, Zenon DEF ThreadStep
  <2> QED BY <1>1, <2>1, GateSubmitSteps, GateFlushSteps, GateProgress, GateFinalize, Zenon
<1>5. CASE \/ HandlerFails(t) \/ Tick(t) \/ Cancel(t)
           \/ \E i \in Items, o \in scenario.outcomes : Submit(t, i, o)
  BY <1>1, <1>5, GateSubmitSteps, Zenon
<1> QED BY <1>2, <1>4, <1>5 DEF Works

\* The escrow is closed by the finalize row, or by the drain before a close.
LEMMA ClosedBy ==
  ASSUME Sound, CloserOnly, NEW d \in scenario.drains, DrainMoves(d),
         row'.status = "closed", row.status # "closed"
  PROVE  d = "closer" \/ \E e \in RowIDs : outbox[e].kind = "finalize"
  BY EscrowSteps DEF IsPay

\* The gate holds after every step.
LEMMA GateNext ==
  ASSUME Sound, Gated, GateSound, [Next]_vars
  PROVE  GateSound'
<1>1. CASE Next
  <2>1. Moves /\ scenario' = scenario BY <1>1, NextMoves DEF Next
  <2>2. CloserOnly' BY <1>1, CloserStays DEF GateSound
  <2>3. CASE \E t \in Threads : Works(t) BY <2>1, <2>2, <2>3, GateThreads
  <2>4. ASSUME NEW d \in scenario.drains, DrainMoves(d) PROVE GateSound'
    <3>1. RowIDs' = RowIDs /\ th' = th /\ campaign' = campaign
      BY <2>1, <2>4, DrainQuiet DEF Moves
    <3>2. \A t \in Threads : GateThread(t)' BY <2>1, <3>1, GateThreadStays DEF GateSound
    <3>3. campaign' = "completed" => AllDone' BY <2>1, <3>1, DoneStays DEF GateSound
    <3>4. row'.status = "closed" => \/ row.status = "closed"
                                    \/ \E e \in RowIDs : outbox[e].kind = "finalize"
      BY <2>4, ClosedBy DEF GateSound, Gated
    <3> QED BY <2>1, <2>2, <3>1, <3>2, <3>3, <3>4, GateFrom
  <2>5. CASE Crash
    <3>1. /\ campaign' = campaign /\ outbox' = outbox /\ row' = row
          /\ \A t \in Threads : th'[t] = Idle
      BY <2>5 DEF Crash, coordinator, origin
    <3>2. \A t \in Threads : GateThread(t)' BY <3>1, Records DEF GateThread
    <3>3. campaign' = "completed" => AllDone' BY <2>1, <3>1, DoneStays DEF GateSound
    <3>4. RowIDs' \ RowIDs = {} BY <3>1 DEF RowIDs
    <3> QED BY <2>1, <2>2, <3>1, <3>2, <3>3, <3>4, GateFrom
  <2> QED BY <1>1, <2>3, <2>4, <2>5, NextSteps, Zenon
<1>2. CASE UNCHANGED vars
  <2>1. /\ scenario' = scenario /\ campaign' = campaign /\ items' = items /\ outbox' = outbox
        /\ th' = th /\ row' = row /\ drain' = drain
    BY <1>2 DEF vars
  <2>2. AllDone' = AllDone /\ NoneLeft' = NoneLeft BY <2>1 DEF NoneLeft, AllDone
  <2> QED BY <2>1, <2>2 DEF GateSound, GateThread, CloserOnly, RowIDs
<1> QED BY <1>1, <1>2

\* Where tryFinalizeEscrow alone leads to a close, and only after all items are done,
\* a closed escrow leaves no run unpaid: the finalize row is enqueued when nothing is left, an item without an
\* unpaid intent gets none again, and its only run row is the one it was paid by.
THEOREM GatedCloseStrandsNone == Spec /\ Gated => []NoStrandedRun
<1> DEFINE I == Sound /\ Gated /\ GateSound
<1>1. Init /\ Gated => I
  <2> SUFFICES ASSUME Init, Gated PROVE I OBVIOUS
  <2>1. /\ campaign = "running" /\ outbox = << >> /\ th = [t \in Threads |-> Idle]
        /\ drain = [d \in scenario.drains |-> NoDrain]
        /\ row = OpenedRow(Price, NItems, scenario.split, NoFee)
    BY DEF Init
  <2>2. RowIDs = {} BY <2>1 DEF RowIDs
  <2>3. CloserOnly BY <2>1, Records DEF CloserOnly
  <2>4. \A t \in Threads : GateThread(t) BY <2>1, Records DEF GateThread
  <2>5. row.status = "open" BY <2>1 DEF OpenedRow
  <2> QED BY <2>1, <2>2, <2>3, <2>4, <2>5, InitSound DEF GateSound
<1>2. I /\ [Next]_vars => I' BY NextSound, GateNext DEF Gated
<1>3. I => NoStrandedRun
  <2> SUFFICES ASSUME Sound, GateSound, row.status = "closed"
               PROVE  /\ \A e \in Pending : outbox[e].kind \in RunKinds => e \in applied
                      /\ \A i \in Items : items[i].run \in UnpaidRun => PaidRuns(i) # {}
    BY DEF NoStrandedRun
  <2>1. NoneLeft BY DEF GateSound
  <2>2. ASSUME NEW e \in Pending, outbox[e].kind \in RunKinds PROVE FALSE
    <3>1. e \in RowIDs /\ outbox[e].status = "pending" BY DEF Pending
    <3>2. PICK i \in Items : i = outbox[e].item BY <2>2, <3>1 DEF Sound, OutboxSound, KeySound
    <3>3. RunRowOf(e, i) BY <2>2, <3>1, <3>2 DEF RunRowOf
    <3>4. Claim(i, outbox[e].kind = "run_floor") BY <3>1, <3>3 DEF Claim
    <3>5. items[i].run # "" BY <3>4 DEF Sound, ClaimSound
    <3>6. items[i] \in ItemType /\ items[i].run \notin UnpaidRun BY <2>1 DEF Sound, NoneLeft
    <3>7. items[i].run = "paid" BY <3>5, <3>6 DEF ItemType, RunStatus
    <3>8. items[i].runRow \in RowIDs /\ outbox[items[i].runRow].status = "applied"
      BY <3>7 DEF Sound, ItemSound
    <3>9. items[i].runRow # NoRowID
      <4>1. Len(outbox) \in Nat BY DEF Sound, OutboxSound
      <4> QED BY <3>8, <4>1 DEF RowIDs, NoRowID
    <3>10. RunRowOf(items[i].runRow, i) BY <3>9 DEF Sound, ItemSound
    <3>11. items[i].runRow = e BY <3>3, <3>10, OneRunRow
    <3> QED BY <3>1, <3>8, <3>11
  <2> QED BY <2>1, <2>2 DEF NoneLeft
<1> HIDE DEF I
<1> QED BY <1>1, <1>2, <1>3, PTL DEF Spec

----------------------------------------------------------------------------
(* The order of a batch.                                                    *)

\* A campaign has one finalize row.
LEMMA OneFinalize ==
  ASSUME Sound, NEW e \in RowIDs, NEW f \in RowIDs, ~IsPay(e), ~IsPay(f)
  PROVE  e = f
<1>1. /\ outbox[e].kind = "finalize" /\ outbox[e].item = 0 /\ outbox[e].miner = NoOne
      /\ outbox[f].kind = "finalize" /\ outbox[f].item = 0 /\ outbox[f].miner = NoOne
  BY DEF Sound, OutboxSound, KeySound, IsPay
<1>2. SameKey(outbox[e], outbox[f].kind, outbox[f].miner, outbox[f].item) BY <1>1 DEF SameKey
<1> QED BY <1>2 DEF Sound, OutboxSound, OneRowPerKey

\* So once it is applied, any finalize row is.
LEMMA AppliedFinalize ==
  ASSUME Sound, FinalizeApplied, NEW e \in RowIDs, ~IsPay(e)
  PROVE  e \in applied
<1>1. PICK f \in applied : ~IsPay(f) BY DEF FinalizeApplied
<1>2. f \in RowIDs BY DEF Sound
<1> QED BY <1>1, <1>2, OneFinalize

\* An applied finalize row stays applied.
LEMMA FinalizeStays ==
  ASSUME Sound, Moves, FinalizeApplied
  PROVE  FinalizeApplied'
<1>1. PICK f \in applied : ~IsPay(f) BY DEF FinalizeApplied
<1>2. f \in RowIDs /\ f \in applied' BY DEF Sound, Moves, OriginMoves
<1>3. ~IsPay(f)' BY <1>1, <1>2, CountsStay DEF Moves, SceneMoves
<1> QED BY <1>2, <1>3 DEF FinalizeApplied

\* A row before another one is pending after a step only if it was pending.
LEMMA PendingBefore ==
  ASSUME Sound, Moves, NEW e \in RowIDs, NEW f \in Pending', f < e
  PROVE  f \in Pending
<1>1. Len(outbox) \in Nat /\ Len(outbox') \in Nat /\ OutMoves BY RowsStay DEF Moves
<1>2. f \in RowIDs' /\ outbox'[f].status = "pending" BY DEF Pending
<1>3. f \in RowIDs BY <1>1, <1>2 DEF RowIDs
<1>4. outbox[f].status # "applied" BY <1>1, <1>2, <1>3 DEF OutMoves
<1> QED BY <1>3, <1>4, RowKind DEF Pending

\* The order is kept by a drain that is left alone, unless a close is undone.
LEMMA BatchStays ==
  ASSUME Sound, Moves, NEW d \in scenario.drains, drain'[d] = drain[d], BatchSound(d),
         FailedFirst(d),
         row.status = "closed" => \/ row'.status = "closed" \/ d = "pusher"
                                  \/ drain[d].pc = "idle" \/ FinalizeApplied
  PROVE  BatchSound(d)' /\ FailedFirst(d)'
<1>1. drain[d].batch \subseteq RowIDs BY DEF Sound, DrainSound
<1>2. scenario' = scenario /\ OutMoves /\ RowMoves(row, row') /\ applied \subseteq applied'
  BY DEF Moves, SceneMoves, OriginMoves
<1>3. \A e \in RowIDs : IsPay(e)' <=> IsPay(e) BY <1>2, CountsStay
<1>4. FailedFirst(d)' BY <1>1, <1>3 DEF FailedFirst
<1>5. ASSUME drain[d].pc \in {"row", "apply"}, NEW e \in drain[d].batch, NEW f \in Pending',
             ~IsPay(e)', IsPay(f)', f < e
      PROVE  Passed(d, e, f)'
  <2>1. e \in RowIDs /\ f \in Pending /\ f \in RowIDs BY <1>1, <1>5, PendingBefore DEF Pending
  <2>2. ~IsPay(e) /\ IsPay(f) BY <1>3, <1>5, <2>1
  <2>3. Passed(d, e, f) BY <1>5, <2>1, <2>2 DEF BatchSound
  <2>4. CASE f \in drain[d].batch \/ drain[d].failed BY <2>4 DEF Passed
  <2>5. CASE Settled(f)
    <3>1. Settled(f)' BY <1>2, <2>1, <2>5, SettledStays
    <3> QED BY <3>1 DEF Passed
  <2>6. CASE e \in applied BY <1>2, <2>6 DEF Passed
  <2>7. CASE d # "pusher" /\ row.status = "closed"
    <3>1. row'.status = "closed" \/ FinalizeApplied BY <1>5, <2>7
    <3>2. FinalizeApplied => e \in applied BY <2>1, <2>2, AppliedFinalize
    <3> QED BY <1>2, <2>7, <3>1, <3>2 DEF Passed
  <2> QED BY <2>3, <2>4, <2>5, <2>6, <2>7 DEF Passed
<1>6. BatchSound(d)' BY <1>5 DEF BatchSound
<1> QED BY <1>4, <1>6

\* The order is kept by a drain that drops a row which is no payment, which failed,
\* which is settled, or which cannot be paid any more.
LEMMA BatchDrops ==
  ASSUME Sound, Moves, NEW d \in scenario.drains, drain[d].pc \in {"row", "apply"}, BatchSound(d),
         NEW ack, NEW fail, Done(d, ack, fail), NEW h \in RowIDs, h = First(d),
         row.status = "closed" => row'.status = "closed",
         IsPay(h) => \/ drain[d].failed \/ fail \/ Settled(h)' \/ FinalizeApplied
                     \/ d # "pusher" /\ row'.status = "closed"
  PROVE  BatchSound(d)' /\ FailedFirst(d)'
<1>1. drain[d].batch \subseteq RowIDs BY DEF Sound, DrainSound
<1>2. scenario' = scenario /\ OutMoves /\ RowMoves(row, row') /\ applied \subseteq applied'
  BY DEF Moves, SceneMoves, OriginMoves
<1>3. \A e \in RowIDs : IsPay(e)' <=> IsPay(e) BY <1>2, CountsStay
<1>4. /\ drain'[d].pc \in {"ack", "row"} /\ drain'[d].batch = drain[d].batch \ {h}
      /\ drain'[d].failed = (drain[d].failed \/ fail)
  BY DoneShape
<1>5. ASSUME NEW e \in drain'[d].batch, NEW f \in Pending', ~IsPay(e)', IsPay(f)', f < e
      PROVE  Passed(d, e, f)'
  <2>1. e \in RowIDs /\ e \in drain[d].batch BY <1>1, <1>4
  <2>2. f \in Pending /\ f \in RowIDs BY <1>5, <2>1, PendingBefore DEF Pending
  <2>3. ~IsPay(e) /\ IsPay(f) BY <1>3, <1>5, <2>1, <2>2
  <2>4. Passed(d, e, f) BY <1>5, <2>1, <2>2, <2>3 DEF BatchSound
  <2>5. CASE drain[d].failed BY <1>4, <2>5 DEF Passed
  <2>6. CASE Settled(f)
    <3>1. Settled(f)' BY <1>2, <2>2, <2>6, SettledStays
    <3> QED BY <3>1 DEF Passed
  <2>7. CASE e \in applied BY <1>2, <2>7 DEF Passed
  <2>8. CASE d # "pusher" /\ row.status = "closed" BY <2>8 DEF Passed
  <2>9. CASE f \in drain[d].batch /\ f # h BY <1>4, <2>9 DEF Passed
  <2>10. CASE f = h
    <3>1. FinalizeApplied => e \in applied BY <2>1, <2>3, AppliedFinalize
    <3>2. \/ drain[d].failed \/ fail \/ Settled(f)' \/ FinalizeApplied
          \/ d # "pusher" /\ row'.status = "closed"
      BY <2>3, <2>10
    <3> QED BY <1>2, <1>4, <3>1, <3>2 DEF Passed
  <2> QED BY <2>4, <2>5, <2>6, <2>7, <2>8, <2>9, <2>10 DEF Passed
<1>6. BatchSound(d)' BY <1>5 DEF BatchSound
<1>7. FailedFirst(d)' BY <1>4 DEF FailedFirst
<1> QED BY <1>6, <1>7

\* A drain with no batch in hand keeps the order.
LEMMA BatchOver ==
  ASSUME NEW d, drain'[d].pc \notin {"row", "apply"}
  PROVE  BatchSound(d)' /\ FailedFirst(d)'
  BY DEF BatchSound, FailedFirst

\* When a close is undone, no other drain of the origin is past a payment because of it.
LEMMA UndoneClose ==
  ASSUME Sound, Ordered, OrderSound, NEW d \in scenario.drains, DrainMoves(d),
         row.status = "closed", row'.status # "closed", NEW c \in scenario.drains
  PROVE  c = "pusher" \/ drain[c].pc = "idle" \/ FinalizeApplied
<1>1. d = "reopener" /\ drain[d].pc = "idle" BY EscrowSteps DEF OrderSound
<1>2. c \in Drains
  <2>1. scenario.drains \subseteq Drains BY Constants DEF Sound
  <2> QED BY <2>1
<1>3. CASE c = "ticker"
  <2>1. "closer" \notin scenario.drains BY <1>1, <1>3 DEF Ordered
  <2> QED BY <2>1 DEF OrderSound, ClosedFor
<1>4. CASE c = "closer" BY <1>4 DEF OrderSound, CloserSound
<1> QED BY <1>1, <1>2, <1>3, <1>4 DEF Drains

\* An error that acknowledges a payment, in a deployment that keeps the order.
LEMMA OrderedErr ==
  ASSUME Sound, Ordered, OrderSound, NEW e \in RowIDs, IsPay(e), DrainOnErr(SettleErr(e))
  PROVE  Settled(e) \/ FinalizeApplied
<1>1. CASE outbox[e].kind \in RunKinds \/ row.refundedBounty = 0 \/ row.status = "closed"
  BY <1>1, ErrSettled
<1>2. CASE ~(outbox[e].kind \in RunKinds \/ row.refundedBounty = 0 \/ row.status = "closed")
  <2>1. HasCrash BY <1>2, RowKind DEF Sound, OutboxSound, KeySound, IsPay
  <2>2. row.refundedBounty \in Nat BY DEF Sound, GoodRow, EscrowRow
  <2>3. row.refundedBounty > 0 BY <1>2, <2>2
  <2>4. "reopener" \in scenario.drains BY <1>2, <2>3 DEF Sound, RefundSound
  <2>5. "closer" \notin scenario.drains BY <2>1, <2>4 DEF Ordered
  <2> QED BY <2>3, <2>5 DEF OrderSound, ClosedFor
<1> QED BY <1>1, <1>2

\* A drain drops the head of its batch for a reason.
LEMMA OwnBatchDrops ==
  ASSUME Sound, Moves, Ordered, OrderSound, NEW d \in scenario.drains,
         Look(d) \/ Apply(d) \/ ApplyFails(d) \/ Push(d) \/ PushLost(d), ~Goto(d, "apply")
  PROVE  BatchSound(d)' /\ FailedFirst(d)'
<1>1. drain[d].pc \in {"row", "apply"}
  BY Zenon DEF Look, Apply, ApplyFails, Push, PushLost, DrainAt
<1>2. PICK h \in RowIDs : h = First(d) BY <1>1, FirstOfBatch
<1>3. /\ scenario' = scenario /\ OutMoves /\ RowMoves(row, row') /\ applied \subseteq applied'
      /\ BatchSound(d)
  BY DEF Moves, SceneMoves, OriginMoves, OrderSound
<1>4. row.status = "closed" => row'.status = "closed"
  <2>1. DrainMoves(d) BY <1>3, Zenon DEF DrainMoves, DrainStep
  <2>2. drain[d].pc # "idle" BY <1>1
  <2> QED BY <2>1, <2>2, EscrowSteps DEF OrderSound
<1>5. ASSUME NEW ack, NEW fail, Done(d, ack, fail),
             IsPay(h) => \/ drain[d].failed \/ fail \/ Settled(h)' \/ FinalizeApplied
                         \/ d # "pusher" /\ row'.status = "closed"
      PROVE  BatchSound(d)' /\ FailedFirst(d)'
  BY <1>1, <1>2, <1>3, <1>4, <1>5, BatchDrops
<1>6. Settled(h) => Settled(h)' BY <1>3, SettledStays
<1>7. ApplyOnce(h) => Settled(h)' BY DEF ApplyOnce, Settled
<1>8. SettleErr(h) # "ok" => IsPay(h) BY DEF SettleErr, IsPay
<1>9. CASE Look(d)
  <2> DEFINE action == OutboxAction(row.status, h)
  <2>1. /\ d # "pusher" /\ row' = row
        /\ \/ SkipFinalize(d, h) /\ Done(d, FALSE, FALSE)
           \/ action # "apply" /\ Done(d, action = "drain", FALSE)
    BY <1>2, <1>9, Zenon DEF Look, origin
  <2>2. CASE SkipFinalize(d, h) /\ Done(d, FALSE, FALSE)
    <3>1. ~IsPay(h) BY <2>2 DEF SkipFinalize
    <3> QED BY <1>5, <2>2, <3>1
  <2>3. CASE action # "apply" /\ Done(d, action = "drain", FALSE)
    <3>1. action = "drain" /\ IsPay(h) => Settled(h)' BY <1>6, StatusSettled
    <3>2. action # "drain" => row.status = "closed" BY <2>3 DEF OutboxAction
    <3> HIDE DEF action
    <3> QED BY <1>5, <2>1, <2>3, <3>1, <3>2
  <2> QED BY <2>1, <2>2, <2>3
<1>10. CASE Apply(d)
  <2> DEFINE err == SettleErr(h)
             ack == err = "ok" \/ DrainOnErr(err)
             fail == IsPay(h) /\ err # "ok" /\ ~DrainOnErr(err)
  <2>1. (err = "ok" => ApplyOnce(h)) /\ Done(d, ack, fail) BY <1>2, <1>10, Zenon DEF Apply
  <2>2. IsPay(h) => fail \/ Settled(h)' \/ FinalizeApplied
    BY <1>6, <1>7, <2>1, OrderedErr
  <2> HIDE DEF ack, fail
  <2> QED BY <1>5, <2>1, <2>2
<1>11. CASE ApplyFails(d)
  <2>1. Done(d, FALSE, TRUE) BY <1>11 DEF ApplyFails
  <2> QED BY <1>5, <2>1
<1>12. CASE Push(d)
  <2> DEFINE fail == IsPay(h) /\ SettleErr(h) # "ok"
  <2>1. \/ SkipFinalize(d, h) /\ Done(d, FALSE, FALSE)
        \/ Done(d, FALSE, fail) /\ (SettleErr(h) = "ok" => ApplyOnce(h))
    BY <1>2, <1>12, Zenon DEF Push
  <2>2. CASE SkipFinalize(d, h) /\ Done(d, FALSE, FALSE)
    <3>1. ~IsPay(h) BY <2>2 DEF SkipFinalize
    <3> QED BY <1>5, <2>2, <3>1
  <2>3. CASE Done(d, FALSE, fail) /\ (SettleErr(h) = "ok" => ApplyOnce(h))
    <3>1. IsPay(h) => fail \/ Settled(h)' BY <1>7, <2>3
    <3> HIDE DEF fail
    <3> QED BY <1>5, <2>3, <3>1
  <2> QED BY <2>1, <2>2, <2>3
<1>13. CASE PushLost(d)
  <2>1. \/ ApplyOnce(h) /\ \E fail \in BOOLEAN : Done(d, FALSE, fail /\ IsPay(h))
        \/ Done(d, FALSE, IsPay(h))
    BY <1>2, <1>13, Zenon DEF PushLost
  <2>2. CASE ApplyOnce(h) /\ \E fail \in BOOLEAN : Done(d, FALSE, fail /\ IsPay(h))
    <3>1. PICK fail \in BOOLEAN : Done(d, FALSE, fail /\ IsPay(h)) BY <2>2
    <3>2. Settled(h)' BY <1>7, <2>2
    <3> QED BY <1>5, <3>1, <3>2
  <2>3. CASE Done(d, FALSE, IsPay(h)) BY <1>5, <2>3
  <2> QED BY <2>1, <2>2, <2>3
<1> QED BY <1>9, <1>10, <1>11, <1>12, <1>13

\* A drain keeps the order of its own batch.
LEMMA OwnBatch ==
  ASSUME Sound, Moves, Ordered, OrderSound, NEW d \in scenario.drains, DrainMoves(d)
  PROVE  BatchSound(d)' /\ FailedFirst(d)'
<1>1. drain \in [scenario.drains -> DrainType] /\ BatchSound(d) /\ FailedFirst(d)
  BY DEF Sound, OrderSound
<1>2. CASE \/ StartDrain(d) \/ EndPush(d) \/ FetchFails(d) \/ AckLost(d)
           \/ CloseEscrow(d) \/ RefuseClose(d)
  <2>1. Goto(d, "fetch") \/ Quit(d) \/ PullFails(d)
    BY <1>2, Zenon DEF StartDrain, EndPush, FetchFails, AckLost, CloseEscrow, RefuseClose
  <2>2. drain'[d].pc \in {"idle", "fetch"} BY <2>1, GotoShape, QuitShape, PullShape
  <2> QED BY <2>2, BatchOver
<1>3. CASE Reopen(d)
  <2>1. drain[d].pc = "idle" /\ (Goto(d, "fetch") \/ drain' = drain)
    BY <1>3, Zenon DEF Reopen, DrainAt
  <2>2. drain'[d].pc \in {"idle", "fetch"} BY <2>1, GotoShape
  <2> QED BY <2>2, BatchOver
<1>4. CASE Ack(d)
  <2>1. \/ Goto(d, "look") \/ Quit(d)
        \/ drain' = [drain EXCEPT ![d].pc = "fetch", ![d].acked = {}, ![d].failed = FALSE]
    BY <1>4, Zenon DEF Ack
  <2>2. CASE drain' = [drain EXCEPT ![d].pc = "fetch", ![d].acked = {}, ![d].failed = FALSE]
    <3>1. drain'[d].pc = "fetch" BY <1>1, <2>2 DEF DrainType
    <3> QED BY <3>1, BatchOver
  <2>3. CASE Goto(d, "look") \/ Quit(d)
    <3>1. drain'[d].pc \in {"look", "idle"} BY <2>3, GotoShape, QuitShape
    <3> QED BY <3>1, BatchOver
  <2> QED BY <2>1, <2>2, <2>3
<1>5. CASE LookForPending(d)
  <2>1. Goto(d, "close") \/ drain' = [drain EXCEPT ![d].pc = "fetch", ![d].attempt = 1]
    BY <1>5, Zenon DEF LookForPending
  <2>2. CASE drain' = [drain EXCEPT ![d].pc = "fetch", ![d].attempt = 1]
    <3>1. drain'[d].pc = "fetch" BY <1>1, <2>2 DEF DrainType
    <3> QED BY <3>1, BatchOver
  <2>3. CASE Goto(d, "close")
    <3>1. drain'[d].pc = "close" BY <2>3, GotoShape
    <3> QED BY <3>1, BatchOver
  <2> QED BY <2>1, <2>2, <2>3
<1>6. CASE Fetch(d)
  <2>1. /\ outbox' = outbox
        /\ \/ Goto(d, "look") \/ Quit(d)
           \/ drain' = [drain EXCEPT ![d].pc = "row", ![d].batch = Pending,
                                     ![d].acked = {}, ![d].failed = FALSE]
    BY <1>6, Zenon DEF Fetch, coordinator
  <2>2. CASE Goto(d, "look") \/ Quit(d)
    <3>1. drain'[d].pc \in {"look", "idle"} BY <2>2, GotoShape, QuitShape
    <3> QED BY <3>1, BatchOver
  <2>3. CASE drain' = [drain EXCEPT ![d].pc = "row", ![d].batch = Pending,
                                    ![d].acked = {}, ![d].failed = FALSE]
    <3>1. drain'[d].pc = "row" /\ drain'[d].batch = Pending BY <1>1, <2>3 DEF DrainType
    <3>2. Pending' = Pending BY <2>1 DEF Pending, RowIDs
    <3>3. BatchSound(d)' BY <3>1, <3>2 DEF BatchSound, Passed
    <3> QED BY <3>1, <3>3 DEF FailedFirst
  <2> QED BY <2>1, <2>2, <2>3
<1>7. CASE Look(d) /\ Goto(d, "apply")
  <2>1. PICK h : h = First(d) OBVIOUS
  <2>2. /\ drain[d].pc = "row" /\ outbox' = outbox /\ row' = row /\ applied' = applied
        /\ ~SkipFinalize(d, h) \/ Done(d, FALSE, FALSE)
    BY <1>7, <2>1, Zenon DEF Look, DrainAt, coordinator, origin
  <2>3. /\ drain'[d].pc = "apply" /\ drain'[d].batch = drain[d].batch
        /\ drain'[d].failed = drain[d].failed
    BY <1>7, GotoShape
  <2>4. h \in drain[d].batch BY <2>1, <2>2, FirstOfBatch
  <2>5. ~SkipFinalize(d, h)
    <3>1. Done(d, FALSE, FALSE) => drain'[d].pc \in {"ack", "row"} BY DoneShape
    <3> QED BY <2>2, <2>3, <3>1
  <2>6. \A e : IsPay(e)' = IsPay(e) BY <2>2 DEF IsPay
  <2>7. FailedFirst(d)' BY <2>3, <2>4, <2>5, <2>6 DEF FailedFirst, SkipFinalize
  <2>8. Pending' = Pending /\ \A e : Settled(e)' = Settled(e)
    BY <2>2 DEF Pending, RowIDs, Settled, NothingOwed
  <2>9. BatchSound(d)' BY <1>1, <2>2, <2>3, <2>6, <2>8 DEF BatchSound, Passed
  <2> QED BY <2>7, <2>9
<1>8. CASE /\ Look(d) \/ Apply(d) \/ ApplyFails(d) \/ Push(d) \/ PushLost(d)
           /\ ~Goto(d, "apply")
  BY <1>8, OwnBatchDrops
<1>9. Apply(d) \/ ApplyFails(d) \/ Push(d) \/ PushLost(d) => ~Goto(d, "apply")
  <2>1. Apply(d) \/ ApplyFails(d) \/ Push(d) \/ PushLost(d) => \E a, f : Done(d, a, f)
    BY Zenon DEF Apply, ApplyFails, Push, PushLost
  <2> QED BY <2>1, DoneShape, GotoShape
<1> QED BY <1>2, <1>3, <1>4, <1>5, <1>6, <1>7, <1>8, <1>9, Zenon DEF DrainMoves, DrainStep

\* The drains' order is kept by a step of a drain.
LEMMA OrderDrains ==
  ASSUME Sound, Moves, Ordered, OrderSound, CloserOnly', NEW d \in scenario.drains, DrainMoves(d)
  PROVE  OrderSound'
<1>1. scenario' = scenario /\ applied \subseteq applied' /\ OutMoves
  BY DEF Moves, SceneMoves, OriginMoves
<1>2. ASSUME NEW c \in scenario.drains PROVE BatchSound(c)' /\ FailedFirst(c)'
  <2>1. CASE c = d BY <2>1, OwnBatch
  <2>2. CASE c # d
    <3>1. drain'[c] = drain[c] BY <2>2, OneDrainMoves
    <3>2. row.status = "closed" => \/ row'.status = "closed" \/ c = "pusher"
                                   \/ drain[c].pc = "idle" \/ FinalizeApplied
      BY UndoneClose
    <3> QED BY <3>1, <3>2, BatchStays DEF OrderSound
  <2> QED BY <2>1, <2>2
<1>3. FinalizeApplied => FinalizeApplied' BY FinalizeStays
<1>4. (\E e \in RowIDs : ~IsPay(e) /\ e \in applied') => FinalizeApplied'
  BY <1>1, CountsStay DEF FinalizeApplied
<1>5. ClosedFor'
  <2> SUFFICES ASSUME row'.status = "closed" \/ row'.refundedBounty > 0
               PROVE  "closer" \in scenario.drains \/ FinalizeApplied'
    BY <1>1 DEF ClosedFor
  <2>1. \/ row.status = "closed" \/ row.refundedBounty > 0
        \/ d = "closer" \/ \E e \in RowIDs : ~IsPay(e) /\ e \in applied'
    BY EscrowSteps DEF OrderSound
  <2> QED BY <1>3, <1>4, <2>1 DEF OrderSound, ClosedFor
<1>6. CloserSound'
  <2> SUFFICES ASSUME NEW c \in scenario.drains, c = "closer", drain'[c].pc # "idle",
                      row'.status = "closed"
               PROVE  FinalizeApplied'
    BY <1>1 DEF CloserSound
  <2>1. CASE row.status # "closed"
    <3>1. \/ d = "closer" /\ CloseEscrow(d)
          \/ \E e \in RowIDs : ~IsPay(e) /\ e \in applied'
      BY <2>1, EscrowSteps DEF OrderSound
    <3>2. ~(d = "closer" /\ CloseEscrow(d)) BY QuitShape DEF CloseEscrow
    <3> QED BY <1>4, <3>1, <3>2
  <2>2. CASE row.status = "closed" /\ drain[c].pc # "idle"
    BY <1>3, <2>2 DEF OrderSound, CloserSound
  <2>3. CASE row.status = "closed" /\ drain[c].pc = "idle"
    <3>1. c = d BY <2>3, OneDrainMoves
    <3>2. StartDrain(d) \/ Reopen(d)
      BY <2>3, <3>1, Zenon DEF DrainMoves, DrainStep, Fetch, Look, Apply, Ack, Push, EndPush,
         ApplyFails, FetchFails, AckLost, PushLost, LookForPending, CloseEscrow, RefuseClose,
         DrainAt
    <3>3. d # "reopener" BY <3>1
    <3>4. StartDrain(d) BY <3>2, <3>3 DEF Reopen
    <3>5. Live(row) BY <3>1, <3>4 DEF StartDrain
    <3> QED BY <2>3, <3>5 DEF Live
  <2> QED BY <2>1, <2>2, <2>3
<1> QED BY <1>1, <1>2, <1>5, <1>6 DEF OrderSound

\* The drains' order is kept by a step of the coordinator, and by its crash.
LEMMA OrderCoordinator ==
  ASSUME Sound, Moves, OrderSound, CloserOnly', row' = row, applied' = applied,
         \A d \in scenario.drains : drain'[d] = drain[d] \/ drain'[d] = NoDrain
  PROVE  OrderSound'
<1>1. scenario' = scenario BY DEF Moves, SceneMoves
<1>2. ASSUME NEW d \in scenario.drains PROVE BatchSound(d)' /\ FailedFirst(d)'
  <2>1. CASE drain'[d] = drain[d] BY <2>1, BatchStays DEF OrderSound
  <2>2. CASE drain'[d] = NoDrain BY <2>2, Records, BatchOver
  <2> QED BY <2>1, <2>2
<1>3. FinalizeApplied => FinalizeApplied' BY FinalizeStays
<1>4. ClosedFor' BY <1>1, <1>3 DEF OrderSound, ClosedFor
<1>5. CloserSound' BY <1>1, <1>3, Records DEF OrderSound, CloserSound
<1> QED BY <1>1, <1>2, <1>4, <1>5 DEF OrderSound

\* The order is kept by every step.
LEMMA OrderNext ==
  ASSUME Sound, Ordered, OrderSound, [Next]_vars
  PROVE  OrderSound'
<1>1. CASE Next
  <2>1. Moves /\ CloserOnly' BY <1>1, NextMoves, CloserStays DEF OrderSound
  <2>2. CASE \E t \in Threads : Works(t)
    <3>1. row' = row /\ applied' = applied /\ drain' = drain BY <2>2, ThreadQuiet
    <3> QED BY <2>1, <3>1, OrderCoordinator
  <2>3. CASE \E d \in scenario.drains : DrainMoves(d) BY <2>1, <2>3, OrderDrains
  <2>4. CASE Crash
    <3>1. /\ row' = row /\ applied' = applied
          /\ \A d \in scenario.drains : drain'[d] = drain[d] \/ drain'[d] = NoDrain
      BY <2>4 DEF Crash, origin
    <3> QED BY <2>1, <3>1, OrderCoordinator
  <2> QED BY <1>1, <2>2, <2>3, <2>4, NextSteps
<1>2. CASE UNCHANGED vars
  <2>1. /\ scenario' = scenario /\ outbox' = outbox /\ row' = row /\ applied' = applied
        /\ drain' = drain
    BY <1>2 DEF vars
  <2> QED BY <2>1 DEF OrderSound, CloserOnly, BatchSound, FailedFirst, CloserSound, ClosedFor,
       FinalizeApplied, Passed, Pending, RowIDs, IsPay, Settled, NothingOwed
<1> QED BY <1>1, <1>2

\* A finalize row that refunds the payer has no payment before it left.
LEMMA OvertakesNone ==
  ASSUME Sound, OrderSound, Next
  PROVE  FinalizeOvertakesNone
<1> SUFFICES ASSUME NEW e \in applied' \ applied, ~IsPay(e), row.status # "closed",
                    NEW f \in Pending, IsPay(f), f < e
             PROVE  Settled(f)
  BY DEF FinalizeOvertakesNone, Settled
<1>1. PICK d \in scenario.drains : DrainMoves(d)
  <2>1. applied' # applied OBVIOUS
  <2>2. ~Crash BY <2>1 DEF Crash, origin
  <2>3. ~\E t \in Threads : Works(t) BY <2>1, ThreadQuiet
  <2> QED BY <2>2, <2>3, NextSteps
<1>2. Apply(d) \/ Push(d) \/ PushLost(d)
  <2>1. ASSUME \/ StartDrain(d) \/ Fetch(d) \/ Look(d) \/ Ack(d) \/ EndPush(d) \/ CloseEscrow(d)
               \/ ApplyFails(d) \/ FetchFails(d) \/ AckLost(d) \/ LookForPending(d)
               \/ RefuseClose(d) \/ Reopen(d)
        PROVE  applied' = applied
    BY <2>1, Zenon DEF StartDrain, Fetch, Look, Ack, EndPush, CloseEscrow, ApplyFails, FetchFails,
       AckLost, LookForPending, RefuseClose, Reopen, origin
  <2>2. applied' # applied OBVIOUS
  <2> QED BY <1>1, <2>1, <2>2, Zenon DEF DrainMoves, DrainStep
<1>3. drain[d].pc \in {"row", "apply"} BY <1>2, Zenon DEF Apply, Push, PushLost, DrainAt
<1>4. PICK h \in RowIDs : h = First(d) BY <1>3, FirstOfBatch
<1>5. ApplyOnce(h) BY <1>2, <1>4, Zenon DEF Apply, Push, PushLost, origin
<1>6. e = h BY <1>5 DEF ApplyOnce
<1>7. e \in drain[d].batch /\ \A g \in drain[d].batch : ~IsPay(g)
  <2>1. e \in drain[d].batch /\ \A g \in drain[d].batch : Before(e, g)
    BY <1>3, <1>4, <1>6, FirstOfBatch
  <2> QED BY <2>1 DEF Before, IsPay
<1>8. Passed(d, e, f) BY <1>3, <1>7 DEF OrderSound, BatchSound
<1>9. ~drain[d].failed
  <2>1. CASE drain[d].pc = "apply" BY <1>7, <2>1 DEF OrderSound, FailedFirst
  <2>2. CASE drain[d].pc = "row"
    <3>1. Push(d) \/ PushLost(d) BY <1>2, <2>2, Zenon DEF Apply, DrainAt
    <3>2. ~SkipFinalize(d, h) \/ origin' = origin BY <1>4, <3>1, Zenon DEF Push, PushLost
    <3> QED BY <1>6, <3>2 DEF SkipFinalize, origin
  <2> QED BY <1>3, <2>1, <2>2
<1> QED BY <1>7, <1>8, <1>9 DEF Passed

\* In a deployment without a settle-pull ticker, and a campaign without findings,
\* beside a close that an operator may undo, a finalize row refunds the payer only
\* after every payment enqueued before it.
THEOREM FinalizeComesLast == Spec /\ Ordered => FinalizeIsLast
<1> DEFINE I == Sound /\ Ordered /\ OrderSound
<1>1. Init /\ Ordered => I
  <2> SUFFICES ASSUME Init, Ordered PROVE I OBVIOUS
  <2>1. /\ applied = {} /\ drain = [d \in scenario.drains |-> NoDrain]
        /\ row = OpenedRow(Price, NItems, scenario.split, NoFee)
    BY DEF Init
  <2>2. \A d \in scenario.drains : drain[d].pc = "idle" BY <2>1, Records
  <2>3. CloserOnly /\ CloserSound BY <2>2 DEF CloserOnly, CloserSound
  <2>4. \A d \in scenario.drains : BatchSound(d) /\ FailedFirst(d)
    BY <2>2 DEF BatchSound, FailedFirst
  <2>5. row.status = "open" /\ row.refundedBounty = 0 BY <2>1 DEF OpenedRow
  <2>6. ClosedFor BY <2>5 DEF ClosedFor
  <2> QED BY <2>3, <2>4, <2>6, InitSound DEF OrderSound
<1>2. I /\ [Next]_vars => I' BY NextSound, OrderNext DEF Ordered, HasCrash
<1>3. I /\ [Next]_vars => [FinalizeOvertakesNone]_vars BY OvertakesNone
<1> HIDE DEF I
<1> QED BY <1>1, <1>2, <1>3, PTL DEF Spec, FinalizeIsLast
=============================================================================
