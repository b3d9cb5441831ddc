---------------------------- MODULE ChainOrders ----------------------------
(***************************************************************************)
(* Blocks and paid orders of the chain (internal/chain): the hub produces  *)
(* blocks from the solves of the pool and of its own miner, keeps the      *)
(* escrow of the open orders and pays them; a desktop node follows by      *)
(* importing the blocks (import.go) and is funded for its own orders by a  *)
(* transfer on the hub (orders_fund.go, orders_fund_api.go).               *)
(*                                                                         *)
(* Everything a node does to its ledger is one transaction under s.mu and  *)
(* one step here.  What a solve reads before it takes s.mu are steps of    *)
(* its own.                                                                *)
(***************************************************************************)
EXTENDS Naturals, Sequences, FiniteSets, Functions

CONSTANTS
  HubOrders, DeskOrders,   \* orders posted at either node
  Nonces,
  Miners,                  \* addresses that solve orders; the hub's wallet may be one
  Solvers,                 \* solves in work at once
  Funds,                   \* transfers that fund the desktop
  HubWallet, DeskWallet,
  Platform,                \* DevFeeAddress
  Rewards, Targets,        \* reward_units and target_solves of an order
  V2From,                  \* first block of Economics v2
  RewardV1, RewardV2, SupReward,
  MaxSupply, SupCap,       \* caps of the v1 subsidy and of SUP
  FeePct, BurnPct, V2FeePct, V2BurnPct, SupRate,
  Genesis, Deposit,        \* units on the hub of its wallet and of the desktop's address
  FundUnits, TransferFee,
  MaxHeight                \* bound: blocks

Hub == "hub"
Desk == "desk"
Nodes == {Hub, Desk}
Orders == HubOrders \cup DeskOrders
Addresses == {HubWallet, DeskWallet, Platform} \cup Miners
NoOrder == "no order"
NoNonce == "no nonce"
Wallet(n) == IF n = Hub THEN HubWallet ELSE DeskWallet
PostedAt(n) == IF n = Hub THEN HubOrders ELSE DeskOrders

ASSUME ChainAssumption ==
  /\ Rewards \subseteq Nat \ {0} /\ Targets \subseteq Nat \ {0}
  /\ {V2From, RewardV1, RewardV2, SupReward, MaxSupply, SupCap, SupRate,
      Genesis, Deposit, FundUnits, TransferFee, MaxHeight} \subseteq Nat
  /\ {FeePct, BurnPct, V2FeePct, V2BurnPct} \subseteq 0..100 /\ V2FeePct + V2BurnPct < 100
  /\ HubOrders \cap DeskOrders = {} /\ NoOrder \notin Orders /\ NoNonce \notin Nonces
  /\ HubWallet # DeskWallet
  /\ IsFiniteSet(Orders) /\ IsFiniteSet(Addresses) /\ IsFiniteSet(Funds)

VARIABLES
  blocks,     \* the hub's chain above genesis
  synced,     \* how much of it the desktop has imported
  ledger,     \* each node's wallet row, accounts, tasks and counters
  found,      \* order_found_nonces of the hub
  solver,
  transfer,   \* the funding transfers as the hub knows them
  credited,   \* orders_fund_tx of the desktop
  destroyed,  \* history: units of a node that left every balance
  funded      \* history: units a node was credited from outside

vars == <<blocks, synced, ledger, found, solver, transfer, credited, destroyed, funded>>

NoTask == [status |-> "none", reward |-> 0, target |-> 0, progress |-> 0, due |-> FALSE]
Resting == [pc |-> "idle", tip |-> 0, order |-> NoOrder, nonce |-> NoNonce, miner |-> HubWallet,
            reward |-> 0]

Init ==
  /\ blocks = <<>> /\ synced = 0
  /\ ledger = [n \in Nodes |->
       LET units == [a \in Addresses |-> CASE n = Hub /\ a = HubWallet -> Genesis
                                          [] n = Hub /\ a = DeskWallet -> Deposit
                                          [] OTHER -> 0]
       IN [acct |-> units, row |-> units[Wallet(n)], sup |-> [a \in Addresses |-> 0],
           escrow |-> 0, tasks |-> [o \in Orders |-> NoTask],
           minted |-> Genesis + Deposit, burned |-> 0, supMinted |-> 0]]
  /\ found = {}
  /\ solver = [s \in Solvers |-> Resting]
  /\ transfer = [t \in Funds |-> "none"]
  /\ credited = {}
  /\ destroyed = [n \in Nodes |-> 0]
  /\ funded = [n \in Nodes |-> 0]

Lesser(a, b) == IF a <= b THEN a ELSE b
Above(a, b) == IF a > b THEN a - b ELSE 0

----------------------------------------------------------------------------
(* What the transactions do to a ledger L.                                  *)

\* Mutant: the wallet row is forgotten.
CreditAccountOnly(L, n, a, units) == [L EXCEPT !.acct[a] = @ + units]

\* creditUnits: the account, and the wallet row when it is the node's own.
Credit(L, n, a, units) ==
  [L EXCEPT !.acct[a] = @ + units, !.row = IF a = Wallet(n) THEN @ + units ELSE @]

Open(L) == {o \in Orders : L.tasks[o].status = "open"}
Due(L) == {o \in Open(L) : L.tasks[o].due}
Rest(task) == task.reward * (task.target - task.progress)
RestOf(L, set) == SumFunction([o \in set |-> Rest(L.tasks[o])])

\* Mutant: the escrow counter keeps what was refunded.
ExpireKeepsCounter(L, n, set) ==
  [Credit(L, n, Wallet(n), RestOf(L, set)) EXCEPT
     !.tasks = [o \in Orders |-> IF o \in set THEN [@[o] EXCEPT !.status = "cancelled"] ELSE @[o]]]

\* expireOpenOrderTasksTx: the orders of set are cancelled and their rest comes back.
Expire(L, n, set) ==
  [Credit(L, n, Wallet(n), RestOf(L, set)) EXCEPT
     !.escrow = @ - RestOf(L, set),
     !.tasks = [o \in Orders |-> IF o \in set THEN [@[o] EXCEPT !.status = "cancelled"] ELSE @[o]]]
CanExpire(L, set) == RestOf(L, set) <= L.escrow

\* bumpOrderTaskProgress and the solver's pay.
PayOrder(L, n, o, miner) ==
  LET task == L.tasks[o]
  IN [Credit(L, n, miner, task.reward) EXCEPT
        !.escrow = @ - task.reward,
        !.tasks[o].status = IF task.progress + 1 >= task.target THEN "completed" ELSE @,
        !.tasks[o].progress = @ + 1]

V2(index) == index >= V2From
Reward(index) == IF V2(index) THEN RewardV2 ELSE RewardV1

\* The subsidy: v1 stops at the maximal supply.
Subsidy(L, index, reward) == IF V2(index) THEN reward ELSE Lesser(reward, Above(MaxSupply, L.minted))

\* An empty block: HMC to an address, SUP from v2 on up to its cap.
Mint(L, n, index, reward, to, supTo) ==
  LET units == Subsidy(L, index, reward)
      sup == IF V2(index) THEN Lesser(SupReward, Above(SupCap, L.supMinted)) ELSE 0
  IN [Credit(L, n, to, units) EXCEPT
        !.minted = @ + units, !.supMinted = @ + sup, !.sup[supTo] = @ + sup]

\* checkEconomicInvariants, before a commit.
EconomyHolds(L, height) ==
  /\ L.burned <= L.minted
  /\ V2(height + 1) \/ L.minted <= MaxSupply
  /\ RestOf(L, Open(L)) <= L.escrow

----------------------------------------------------------------------------
(* Orders.                                                                  *)

Height(n) == IF n = Hub THEN Len(blocks) ELSE synced

\* The fee of an order: v1 adds a platform fee and counts a burn that leaves no
\* balance, v2 takes both from the price, or SUP in their place.
Fee(v2, prepaid, asset) ==
  LET price == (prepaid * 100) \div (100 - V2FeePct - V2BurnPct)
      burn == (price * V2BurnPct) \div 100
      platform == (price * V2FeePct) \div 100
  IN CASE ~v2 -> [hmc |-> (prepaid * FeePct) \div 100, platform |-> (prepaid * FeePct) \div 100,
                  burn |-> (prepaid * BurnPct) \div 100, sup |-> 0]
       [] v2 /\ asset = "HMC" -> [hmc |-> burn + platform, platform |-> platform, burn |-> burn, sup |-> 0]
       [] OTHER -> [hmc |-> 0, platform |-> 0, burn |-> 0, sup |-> (burn + platform) * SupRate]

\* Mutant: off by one.
AlmostAffords(L, n, units) == L.row + 1 >= units /\ L.acct[Wallet(n)] + 1 >= units

\* Both ledgers must cover a debit.
Affords(L, n, units) == L.row >= units /\ L.acct[Wallet(n)] >= units

\* InsertOrderTask.
PostOrder(n, o, reward, target, asset) ==
  LET L == ledger[n]
      w == Wallet(n)
      v2 == V2(Height(n) + 1)
      prepaid == reward * target
      fee == Fee(v2, prepaid, asset)
      debit == prepaid + fee.hmc
      debited == [L EXCEPT !.acct[w] = @ - debit, !.row = @ - debit, !.sup[w] = @ - fee.sup]
      booked == [Credit(debited, n, Platform, fee.platform) EXCEPT
                   !.burned = @ + fee.burn,
                   !.escrow = @ + prepaid,
                   !.tasks[o] = [status |-> "open", reward |-> reward, target |-> target,
                                 progress |-> 0, due |-> FALSE]]
  IN /\ o \in PostedAt(n) /\ L.tasks[o] = NoTask
     /\ asset = "HMC" \/ v2
     /\ Affords(L, n, debit) /\ L.sup[w] >= fee.sup
     /\ EconomyHolds(booked, Height(n))
     /\ ledger' = [ledger EXCEPT ![n] = booked]
     /\ destroyed' = [destroyed EXCEPT ![n] = @ + fee.hmc - fee.platform]
     /\ UNCHANGED <<blocks, synced, found, solver, transfer, credited, funded>>

\* Time passes expires_at of an open order.
Pass(n, o) ==
  /\ o \in Open(ledger[n]) /\ ~ledger[n].tasks[o].due
  /\ ledger' = [ledger EXCEPT ![n].tasks[o].due = TRUE]
  /\ UNCHANGED <<blocks, synced, found, solver, transfer, credited, destroyed, funded>>

ExpireOpenOrderTasks(n) ==
  LET L == ledger[n]
      expired == Expire(L, n, Due(L))
  IN /\ Due(L) # {} /\ CanExpire(L, Due(L))
     /\ EconomyHolds(expired, Height(n))
     /\ ledger' = [ledger EXCEPT ![n] = expired]
     /\ UNCHANGED <<blocks, synced, found, solver, transfer, credited, destroyed, funded>>

----------------------------------------------------------------------------
(* Funding the desktop's orders.                                            *)

\* fundOrdersSpendable: a transfer to the platform on the hub, one at a time by
\* its nonce.
SendFund(t) ==
  /\ transfer[t] = "none" /\ \A u \in Funds : transfer[u] # "pending"
  /\ ledger[Hub].acct[DeskWallet] >= FundUnits + TransferFee
  /\ transfer' = [transfer EXCEPT ![t] = "pending"]
  /\ UNCHANGED <<blocks, synced, ledger, found, solver, credited, destroyed, funded>>

\* applyPendingTransfers in a block of the hub, for those of the desktop.
TransferBurn == TransferFee \div 2
Pending == {t \in Funds : transfer[t] = "pending"}

\* Mutant: the burned half of the fee is paid to the platform as well.
MovedWithBurn(L) ==
  LET left == [L EXCEPT !.acct[DeskWallet] = @ - FundUnits - TransferFee]
  IN [Credit(left, Hub, Platform, FundUnits + TransferFee) EXCEPT !.burned = @ + TransferBurn]

Moved(L) ==
  LET left == [L EXCEPT !.acct[DeskWallet] = @ - FundUnits - TransferFee]
  IN [Credit(left, Hub, Platform, FundUnits + TransferFee - TransferBurn) EXCEPT !.burned = @ + TransferBurn]
Included(L) == Pending # {} /\ L.acct[DeskWallet] >= FundUnits + TransferFee

\* Mutant: a repeated confirm credits again.
CreditedAgain(t) == TRUE

Uncredited(t) == t \notin credited

\* CreditOrdersFund, from the request that waits or from a later confirm, as often
\* as it is called.
CreditOrdersFund(t) ==
  /\ transfer[t] = "included" /\ Uncredited(t)
  /\ ledger' = [ledger EXCEPT ![Desk] = Credit(@, Desk, DeskWallet, FundUnits)]
  /\ credited' = credited \cup {t}
  /\ funded' = [funded EXCEPT ![Desk] = @ + FundUnits]
  /\ UNCHANGED <<blocks, synced, found, solver, transfer, destroyed>>

----------------------------------------------------------------------------
(* Blocks.                                                                  *)

\* SubmitOrderPoHSolve, SubmitBaselinePoHSolve and the hub's miner read the tip
\* the work is for, then the order or the scheduled reward, without s.mu.
ReadTip(s, o, nonce, miner) ==
  /\ solver[s].pc = "idle" /\ Len(blocks) < MaxHeight
  /\ solver' = [solver EXCEPT ![s] =
       [Resting EXCEPT !.pc = "reward", !.tip = Len(blocks), !.order = o, !.nonce = nonce, !.miner = miner]]
  /\ UNCHANGED <<blocks, synced, ledger, found, transfer, credited, destroyed, funded>>

ReadReward(s) ==
  LET q == solver[s]
      task == ledger[Hub].tasks[q.order]
  IN /\ q.pc = "reward"
     /\ solver' = [solver EXCEPT ![s] =
          CASE q.order = NoOrder -> [q EXCEPT !.pc = "append", !.reward = Reward(Len(blocks) + 1)]
            [] q.order # NoOrder /\ task.status = "open" /\ ~task.due ->
                 [q EXCEPT !.pc = "append", !.reward = task.reward]
            [] OTHER -> Resting]
     /\ UNCHANGED <<blocks, synced, ledger, found, transfer, credited, destroyed, funded>>

\* Mutant: the tip may have moved since the work was searched.
AnyTip(q) == TRUE

\* The work of a solve is bound to the block it was searched on.
OnTip(q) == q.tip = Len(blocks)

\* Mutant: order_found_nonces is not consulted.
AnyNonce(q) == TRUE

\* One nonce credits an order once.
FreshNonce(q) == <<q.order, q.nonce>> \notin found

\* The ledger after a block: expired orders, the order's pay or the subsidy, then
\* the pending transfer.
Rewarded(q) ==
  LET L == Expire(ledger[Hub], Hub, Due(ledger[Hub]))
  IN IF q.order = NoOrder THEN Mint(L, Hub, Len(blocks) + 1, q.reward, HubWallet, HubWallet)
     ELSE PayOrder(L, Hub, q.order, q.miner)
AfterBlock(q) == IF Included(Rewarded(q)) THEN Moved(Rewarded(q)) ELSE Rewarded(q)

Appendable(q) ==
  /\ OnTip(q)
  /\ CanExpire(ledger[Hub], Due(ledger[Hub]))
  /\ q.order # NoOrder =>
       /\ q.order \in Open(ledger[Hub]) \ Due(ledger[Hub])
       /\ FreshNonce(q)
       /\ q.reward = ledger[Hub].tasks[q.order].reward /\ q.reward <= ledger[Hub].escrow
  /\ EconomyHolds(AfterBlock(q), Len(blocks) + 1)

\* AppendPoHBlock.
AppendPoHBlock(s) ==
  LET q == solver[s]
      included == Included(Rewarded(q))
  IN /\ q.pc = "append" /\ Appendable(q)
     /\ blocks' = Append(blocks, [order |-> q.order, to |-> HubWallet, minted |-> AfterBlock(q).minted])
     /\ ledger' = [ledger EXCEPT ![Hub] = AfterBlock(q)]
     /\ found' = IF q.order = NoOrder THEN found ELSE found \cup {<<q.order, q.nonce>>}
     /\ transfer' = [t \in Funds |-> IF t \notin Pending THEN transfer[t]
                                     ELSE IF included THEN "included" ELSE "rejected"]
     /\ destroyed' = [destroyed EXCEPT ![Hub] = @ + (IF included THEN TransferBurn ELSE 0)]
     /\ solver' = [solver EXCEPT ![s] = Resting]
     /\ UNCHANGED <<synced, credited, funded>>

\* A solve that comes too late changes nothing.
Refused(s) ==
  /\ solver[s].pc = "append" /\ ~Appendable(solver[s])
  /\ solver' = [solver EXCEPT ![s] = Resting]
  /\ UNCHANGED <<blocks, synced, ledger, found, transfer, credited, destroyed, funded>>

\* ImportPoHBlock, of the next block: an order block is refused, v2 credits the
\* recipient in the header, v1 the local wallet.  Orders expire by the time in the
\* header, which may lie before the desktop's.
ImportPoHBlock ==
  LET b == blocks[synced + 1]
      L == ledger[Desk]
      to == IF V2(synced + 1) THEN b.to ELSE DeskWallet
  IN /\ synced < Len(blocks) /\ b.order = NoOrder
     /\ \E set \in {{}, Due(L)} :
          LET after == Mint(Expire(L, Desk, set), Desk, synced + 1, Reward(synced + 1), to, b.to)
          IN /\ CanExpire(L, set) /\ EconomyHolds(after, synced + 1)
             /\ ledger' = [ledger EXCEPT ![Desk] = after]
     /\ synced' = synced + 1
     /\ UNCHANGED <<blocks, found, solver, transfer, credited, destroyed, funded>>

----------------------------------------------------------------------------

Solving(s) ==
  \/ ReadTip(s, NoOrder, NoNonce, HubWallet)
  \/ \E o \in HubOrders, nonce \in Nonces, miner \in Miners : ReadTip(s, o, nonce, miner)
  \/ ReadReward(s) \/ AppendPoHBlock(s) \/ Refused(s)

Next ==
  \/ \E n \in Nodes :
       \/ ExpireOpenOrderTasks(n)
       \/ \E o \in Orders :
            \/ Pass(n, o)
            \/ \E reward \in Rewards, target \in Targets, asset \in {"HMC", "SUP"} :
                 PostOrder(n, o, reward, target, asset)
  \/ \E s \in Solvers : Solving(s)
  \/ \E t \in Funds : SendFund(t) \/ CreditOrdersFund(t)
  \/ ImportPoHBlock

Spec == Init /\ [][Next]_vars

----------------------------------------------------------------------------
(* Properties.                                                              *)

Statuses == {"none", "open", "completed", "cancelled"}

\* Type invariant: no unsigned balance or counter of a node goes below zero.
TypeOK ==
  /\ synced \in 0..Len(blocks) /\ Len(blocks) <= MaxHeight
  /\ \A n \in Nodes :
       LET L == ledger[n]
       IN /\ L.acct \in [Addresses -> Nat] /\ L.sup \in [Addresses -> Nat]
          /\ {L.row, L.escrow, L.minted, L.burned, L.supMinted} \subseteq Nat
          /\ \A o \in Orders : L.tasks[o].status \in Statuses /\ L.tasks[o].progress <= L.tasks[o].target
  /\ found \subseteq HubOrders \X Nonces
  /\ credited \subseteq Funds

\* The escrow counter of a node is exactly what its open orders still owe, so a
\* block is never refused for it and no unit is stranded.  "Already paid solves are
\* preserved; only remaining liability is refunded."
EscrowExact == \A n \in Nodes : ledger[n].escrow = RestOf(ledger[n], Open(ledger[n]))

\* The units of a node's accounts and escrow are those it minted and was funded
\* with, less what was really burned: paying, expiring, posting and importing move
\* units and make none.  The desktop starts without the balances of the chain.
Opening(n) == IF n = Desk THEN Genesis + Deposit ELSE 0
UnitsConserved ==
  \A n \in Nodes :
    SumFunction(ledger[n].acct) + ledger[n].escrow + destroyed[n] + Opening(n)
      = ledger[n].minted + funded[n]

\* The wallet row, which gates new orders, is the account of the wallet.
RowIsAccount == \A n \in Nodes : ledger[n].row = ledger[n].acct[Wallet(n)]

\* The desktop was credited the units of the transfers that the hub included for
\* it, each once, however often a funding is confirmed.
FundingIsBacked ==
  funded[Desk] <= FundUnits * Cardinality({t \in Funds : transfer[t] = "included"})

\* A follower that imports by the schedule has minted what the hub had at that
\* height, although the hub mints what a solve read before it took the lock.
FollowerAgrees ==
  ledger[Desk].minted = IF synced = 0 THEN Genesis + Deposit ELSE blocks[synced].minted

\* The hub keeps what it promises the customer of an order.
Promise == INSTANCE OrderPromise WITH
  Orders <- HubOrders,
  held <- ledger[Hub].escrow,
  promise <- [o \in HubOrders |->
    LET task == ledger[Hub].tasks[o]
    IN [status |-> task.status, reward |-> task.reward, left |-> task.target - task.progress,
        solvedBy |-> {nonce \in Nonces : <<o, nonce>> \in found}]]
PromiseKept == Promise!Spec
=============================================================================
