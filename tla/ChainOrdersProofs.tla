------------------------- MODULE ChainOrdersProofs -------------------------
(***************************************************************************)
(* Theorems about ChainOrders for every set of orders, solvers and         *)
(* transfers and every price.  What a transaction does to a ledger is      *)
(* proved once for every ledger; the invariant of a node's ledger follows  *)
(* action by action.                                                       *)
(***************************************************************************)
EXTENDS ChainOrders, SumLemmas

TaskRec == [status : Statuses, reward : Nat, target : Nat, progress : Nat, due : BOOLEAN]
TaskOK(t) ==
  /\ t \in TaskRec /\ t.progress <= t.target
  /\ t.status = "open" => t.progress < t.target
LedgerRec ==
  [acct : [Addresses -> Nat], row : Nat, sup : [Addresses -> Nat], escrow : Nat,
   tasks : [Orders -> TaskRec], minted : Nat, burned : Nat, supMinted : Nat]

Total(L) == SumFunctionOnSet(L.acct, Addresses)
RestAll(L) == [o \in Orders |-> Rest(L.tasks[o])]
Owed(L, set) == SumFunctionOnSet(RestAll(L), set)

\* A ledger whose wallet row is the account.
Sound(L, n) ==
  /\ L \in LedgerRec /\ L.row = L.acct[Wallet(n)]
  /\ \A o \in Orders : TaskOK(L.tasks[o])

----------------------------------------------------------------------------
(* Sums of a ledger.                                                        *)

\* What an order still owes is a natural.
LEMMA RestNat ==
  ASSUME NEW t, TaskOK(t)
  PROVE  Rest(t) \in Nat
<1>1. t.reward \in Nat /\ t.target - t.progress \in Nat BY DEF TaskOK, TaskRec
<1> QED BY <1>1 DEF Rest

\* What the orders of a set owe is the sum over the ledger's orders.
LEMMA RestIsOwed ==
  ASSUME NEW n, NEW L, Sound(L, n), NEW set \in SUBSET Orders
  PROVE  /\ RestOf(L, set) = Owed(L, set) /\ Owed(L, set) \in Nat
         /\ IsFiniteSet(set) /\ \A o \in set : RestAll(L)[o] \in Nat
<1> DEFINE f == [o \in set |-> Rest(L.tasks[o])]
           e == RestAll(L)
<1>1. IsFiniteSet(set) BY ChainAssumption, FS_Subset
<1>2. \A o \in set : f[o] = e[o] /\ e[o] \in Nat BY RestNat DEF RestAll, Sound
<1>3. SumFunctionOnSet(f, set) = SumFunctionOnSet(e, set) BY <1>1, <1>2, SumSame
<1>4. RestOf(L, set) = SumFunctionOnSet(f, set) BY DEF RestOf, SumFunction
<1>5. SumFunctionOnSet(e, set) \in Nat BY <1>1, <1>2, SumNat
<1> QED BY <1>1, <1>2, <1>3, <1>4, <1>5 DEF Owed

\* The units of all accounts are a natural.
LEMMA TotalNat ==
  ASSUME NEW L \in LedgerRec
  PROVE  Total(L) \in Nat
  BY ChainAssumption, SumNat DEF Total, LedgerRec

\* The total after one account changed.
LEMMA TotalUpdate ==
  ASSUME NEW L \in LedgerRec, NEW M \in LedgerRec, NEW a \in Addresses, NEW v \in Nat,
         M.acct = [L.acct EXCEPT ![a] = v]
  PROVE  Total(M) + L.acct[a] = Total(L) + v
<1>1. L.acct \in [Addresses -> Nat] /\ M.acct \in [Addresses -> Nat] BY DEF LedgerRec
<1>2. M.acct[a] = v /\ \A x \in Addresses \ {a} : L.acct[x] = M.acct[x] BY <1>1
<1>3. SumFunctionOnSet(M.acct, Addresses) + L.acct[a] = SumFunctionOnSet(L.acct, Addresses) + M.acct[a]
  BY <1>1, <1>2, ChainAssumption, SumUpdate
<1> QED BY <1>2, <1>3 DEF Total

----------------------------------------------------------------------------
(* What the transactions do to a ledger.                                    *)

\* creditUnits adds the units to one account, and to the row if it is the wallet's.
LEMMA CreditSound ==
  ASSUME NEW n \in Nodes, NEW L, Sound(L, n), NEW a \in Addresses, NEW units \in Nat
  PROVE  LET M == Credit(L, n, a, units)
         IN /\ Sound(M, n) /\ Total(M) = Total(L) + units
            /\ M.sup = L.sup /\ M.escrow = L.escrow /\ M.tasks = L.tasks
            /\ M.minted = L.minted /\ M.burned = L.burned /\ M.supMinted = L.supMinted
<1> DEFINE M == Credit(L, n, a, units)
           acct == [L.acct EXCEPT ![a] = L.acct[a] + units]
           row == IF a = Wallet(n) THEN L.row + units ELSE L.row
           K == [L EXCEPT !.acct = acct]
<1>1. L \in LedgerRec BY DEF Sound
<1>2. M = [K EXCEPT !.row = row] BY <1>1 DEF Credit, LedgerRec
<1>3. acct \in [Addresses -> Nat] /\ row \in Nat BY <1>1 DEF LedgerRec
<1>4. Wallet(n) \in Addresses BY DEF Wallet, Addresses
<1>5. row = acct[Wallet(n)] BY <1>1, <1>4 DEF Sound, LedgerRec
<1> HIDE DEF acct, row
<1>6. /\ M \in LedgerRec /\ M.acct = acct /\ M.row = row
      /\ M.sup = L.sup /\ M.escrow = L.escrow /\ M.tasks = L.tasks
      /\ M.minted = L.minted /\ M.burned = L.burned /\ M.supMinted = L.supMinted
  BY <1>1, <1>2, <1>3 DEF LedgerRec
<1> HIDE DEF M
<1>7. Sound(M, n) BY <1>5, <1>6 DEF Sound
<1>8. L.acct[a] \in Nat BY <1>1 DEF LedgerRec
<1>9. Total(M) + L.acct[a] = Total(L) + (L.acct[a] + units)
  BY <1>1, <1>6, <1>8, TotalUpdate DEF acct
<1>10. Total(M) \in Nat /\ Total(L) \in Nat BY <1>1, <1>6, TotalNat
<1>11. Total(M) = Total(L) + units BY <1>8, <1>9, <1>10
<1> QED BY <1>6, <1>7, <1>11 DEF M

\* expireOpenOrderTasksTx cancels open orders and pays back what they owe: the
\* units move from the escrow to the wallet.
LEMMA ExpireSound ==
  ASSUME NEW n \in Nodes, NEW L, Sound(L, n), NEW set \in SUBSET Open(L), CanExpire(L, set)
  PROVE  LET M == Expire(L, n, set)
         IN /\ Sound(M, n) /\ Total(M) = Total(L) + Owed(L, set)
            /\ M.escrow = L.escrow - Owed(L, set) /\ Owed(L, set) <= L.escrow /\ Owed(L, set) \in Nat
            /\ M.sup = L.sup /\ M.minted = L.minted /\ M.burned = L.burned
            /\ M.supMinted = L.supMinted
            /\ M.tasks = [o \in Orders |-> IF o \in set THEN [L.tasks[o] EXCEPT !.status = "cancelled"]
                                           ELSE L.tasks[o]]
            /\ Open(M) = Open(L) \ set /\ Owed(M, Open(M)) = Owed(L, Open(L)) - Owed(L, set)
<1> DEFINE M == Expire(L, n, set)
           C == Credit(L, n, Wallet(n), RestOf(L, set))
           tasks == [o \in Orders |-> IF o \in set THEN [L.tasks[o] EXCEPT !.status = "cancelled"]
                                      ELSE L.tasks[o]]
           owed == Owed(L, set)
           K == [C EXCEPT !.escrow = L.escrow - owed]
<1>1. set \in SUBSET Orders /\ Open(L) \in SUBSET Orders BY DEF Open
<1>2. /\ RestOf(L, set) = owed /\ owed \in Nat /\ owed <= L.escrow
  BY <1>1, RestIsOwed DEF CanExpire
<1>3. Wallet(n) \in Addresses BY DEF Wallet, Addresses
<1>4. /\ Sound(C, n) /\ Total(C) = Total(L) + owed
      /\ C.sup = L.sup /\ C.escrow = L.escrow /\ C.tasks = L.tasks
      /\ C.minted = L.minted /\ C.burned = L.burned /\ C.supMinted = L.supMinted
  BY <1>2, <1>3, CreditSound
<1>5. M = [K EXCEPT !.tasks = tasks]
  <2>1. M = [C EXCEPT !.escrow = C.escrow - RestOf(L, set),
                      !.tasks = [o \in Orders |-> IF o \in set THEN [C.tasks[o] EXCEPT !.status = "cancelled"]
                                                  ELSE C.tasks[o]]]
    BY Zenon DEF Expire
  <2> QED BY <1>2, <1>4, <2>1
<1>6. L \in LedgerRec /\ C \in LedgerRec /\ L.escrow \in Nat /\ L.tasks \in [Orders -> TaskRec]
  BY <1>4 DEF Sound, LedgerRec
<1>7. \A o \in Orders : /\ TaskOK(tasks[o]) /\ Rest(tasks[o]) = Rest(L.tasks[o])
                        /\ tasks[o].status = "open" <=> L.tasks[o].status = "open" /\ o \notin set
  <2> SUFFICES ASSUME NEW o \in Orders
               PROVE  /\ TaskOK(tasks[o]) /\ Rest(tasks[o]) = Rest(L.tasks[o])
                      /\ tasks[o].status = "open" <=> L.tasks[o].status = "open" /\ o \notin set
    OBVIOUS
  <2> DEFINE t == L.tasks[o]
  <2>1. TaskOK(t) BY DEF Sound
  <2>2. tasks[o] = IF o \in set THEN [t EXCEPT !.status = "cancelled"] ELSE t OBVIOUS
  <2> HIDE DEF t, tasks
  <2>3. CASE o \in set BY <2>1, <2>2, <2>3 DEF TaskOK, TaskRec, Rest, Statuses, t
  <2>4. CASE o \notin set BY <2>1, <2>2, <2>4 DEF t
  <2> QED BY <2>3, <2>4
<1>8. tasks \in [Orders -> TaskRec]
  <2>1. \A o \in Orders : tasks[o] \in TaskRec BY <1>7 DEF TaskOK
  <2>2. tasks = [o \in Orders |-> tasks[o]] OBVIOUS
  <2> HIDE DEF tasks
  <2> QED BY <2>1, <2>2
<1> HIDE DEF C, tasks, owed
<1>9. /\ M \in LedgerRec /\ M.acct = C.acct /\ M.row = C.row /\ M.sup = C.sup
      /\ M.escrow = L.escrow - owed /\ M.tasks = tasks /\ M.minted = C.minted
      /\ M.burned = C.burned /\ M.supMinted = C.supMinted
  <2> DEFINE x == L.escrow - owed
  <2>1. x \in Nat BY <1>2, <1>6
  <2> HIDE DEF x
  <2> QED BY <1>5, <1>6, <1>8, <2>1 DEF LedgerRec, x
<1> HIDE DEF M
<1>10. Sound(M, n) BY <1>4, <1>7, <1>9 DEF Sound
<1>11. Total(M) = Total(L) + owed BY <1>4, <1>9 DEF Total
<1>12. Open(M) = Open(L) \ set BY <1>7, <1>9 DEF Open
<1>13. RestAll(M) = RestAll(L) BY <1>7, <1>9 DEF RestAll
<1>14. Owed(M, Open(M)) = Owed(L, Open(L)) - owed
  <2>1. /\ IsFiniteSet(Open(L)) /\ \A o \in Open(L) : RestAll(L)[o] \in Nat
        /\ Owed(L, Open(L)) \in Nat
    BY <1>1, RestIsOwed
  <2>2. Owed(L, Open(L)) = Owed(L, set) + Owed(L, Open(L) \ set) BY <2>1, SumSplit DEF Owed
  <2>3. Owed(M, Open(M)) = Owed(L, Open(L) \ set) BY <1>12, <1>13 DEF Owed
  <2>4. Owed(L, Open(L) \ set) \in Nat
    <3>1. Open(L) \ set \in SUBSET Orders BY <1>1
    <3> QED BY <3>1, RestIsOwed
  <2> QED BY <1>2, <2>1, <2>2, <2>3, <2>4 DEF owed
<1> QED BY <1>2, <1>4, <1>9, <1>10, <1>11, <1>12, <1>14 DEF M, tasks, owed

\* An open order after a solve.
Solved(task) ==
  [[task EXCEPT !.status = IF task.target - task.progress = 1 THEN "completed" ELSE "open"]
     EXCEPT !.progress = task.progress + 1]

\* bumpOrderTaskProgress and the pay of the solver: the units of one solve move
\* from the escrow to the solver, and the order owes that much less.
LEMMA PaySound ==
  ASSUME NEW n \in Nodes, NEW L, Sound(L, n), NEW o \in Open(L), NEW miner \in Addresses,
         L.tasks[o].reward <= L.escrow
  PROVE  LET M == PayOrder(L, n, o, miner)
             task == L.tasks[o]
         IN /\ Sound(M, n) /\ task.reward \in Nat /\ Total(M) = Total(L) + task.reward
            /\ M.escrow = L.escrow - task.reward
            /\ M.sup = L.sup /\ M.minted = L.minted /\ M.burned = L.burned
            /\ M.supMinted = L.supMinted
            /\ Owed(M, Open(M)) = Owed(L, Open(L)) - task.reward
            /\ M.tasks = [L.tasks EXCEPT ![o] = Solved(task)]
<1> DEFINE task == L.tasks[o]
           C == Credit(L, n, miner, task.reward)
           status == IF task.target - task.progress = 1 THEN "completed" ELSE "open"
           new == Solved(task)
           tasks == [L.tasks EXCEPT ![o] = new]
           K == [C EXCEPT !.escrow = L.escrow - task.reward]
           M == PayOrder(L, n, o, miner)
<1>1. o \in Orders /\ task.status = "open" BY DEF Open
<1>2. TaskOK(task) /\ L \in LedgerRec BY <1>1 DEF Sound
<1>3. /\ task \in TaskRec /\ task.reward \in Nat /\ task.target \in Nat /\ task.progress \in Nat
      /\ task.due \in BOOLEAN /\ task.progress < task.target
  BY <1>1, <1>2 DEF TaskOK, TaskRec
<1>4. /\ Sound(C, n) /\ Total(C) = Total(L) + task.reward
      /\ C.sup = L.sup /\ C.escrow = L.escrow /\ C.tasks = L.tasks
      /\ C.minted = L.minted /\ C.burned = L.burned /\ C.supMinted = L.supMinted
  BY <1>3, CreditSound
<1>5. C \in LedgerRec /\ L.tasks \in [Orders -> TaskRec] /\ L.escrow \in Nat
  BY <1>2, <1>4 DEF Sound, LedgerRec
<1>6. M = [K EXCEPT !.tasks = tasks]
  <2> DEFINE s == IF task.progress + 1 >= task.target THEN "completed" ELSE task.status
             k == [task EXCEPT !.status = s]
             q == [k EXCEPT !.progress = task.progress + 1]
  <2>1. M = [C EXCEPT !.escrow = C.escrow - task.reward,
               !.tasks[o].status = IF task.progress + 1 >= task.target THEN "completed" ELSE @,
               !.tasks[o].progress = @ + 1]
    BY Zenon DEF PayOrder
  <2>2. q = new
    <3>1. s = status BY <1>1, <1>3
    <3> QED BY <3>1 DEF Solved
  <2>3. M = [C EXCEPT !.escrow = C.escrow - task.reward, !.tasks[o].status = s,
                      !.tasks[o].progress = @ + 1]
    BY <1>4, <2>1
  <2>4. task = L.tasks[o] OBVIOUS
  <2> HIDE DEF s, task, C
  <2>5. M = [K EXCEPT !.tasks = [L.tasks EXCEPT ![o] = q]]
    BY <1>1, <1>3, <1>4, <1>5, <2>3, <2>4, ZenonT(90) DEF TaskRec
  <2> QED BY <2>2, <2>5
<1>7. /\ new \in TaskRec /\ TaskOK(new) /\ new.status = status /\ new.reward = task.reward
      /\ new.target = task.target /\ new.progress = task.progress + 1
  <2>1. status \in {"completed", "open"} /\ (status = "open" => task.progress + 1 < task.target)
    BY <1>3
  <2>2. new = [[task EXCEPT !.status = status] EXCEPT !.progress = task.progress + 1] BY DEF Solved
  <2> DEFINE k == [task EXCEPT !.status = status]
             p == task.progress + 1
  <2>3. p \in Nat /\ p <= task.target /\ new = [k EXCEPT !.progress = p] BY <1>3, <2>2
  <2> HIDE DEF task, status, new, p
  <2>4. /\ k \in TaskRec /\ k.status = status /\ k.reward = task.reward /\ k.target = task.target
        /\ k.due = task.due
    BY <1>3, <2>1 DEF TaskRec, Statuses
  <2> HIDE DEF k
  <2>5. /\ new \in TaskRec /\ new.status = status /\ new.reward = task.reward
        /\ new.target = task.target /\ new.progress = p
    BY <2>3, <2>4 DEF TaskRec
  <2> QED BY <2>1, <2>3, <2>5 DEF TaskOK, p
<1>8. Rest(new) = Rest(task) - task.reward /\ (status = "completed" => Rest(new) = 0)
  <2> DEFINE d == task.target - task.progress
  <2>1. d \in Nat /\ task.target - (task.progress + 1) = d - 1 BY <1>3
  <2>2. Rest(new) = task.reward * (d - 1) /\ Rest(task) = task.reward * d BY <1>7, <2>1 DEF Rest
  <2> HIDE DEF d
  <2>3. task.reward * (d - 1) = task.reward * d - task.reward BY <1>3, <2>1
  <2>4. status = "completed" => d = 1 BY DEF d
  <2>5. task.reward * 0 = 0 BY <1>3
  <2> QED BY <2>1, <2>2, <2>3, <2>4, <2>5
<1>9. tasks \in [Orders -> TaskRec] BY <1>1, <1>5, <1>7
<1> HIDE DEF C, task, status, new
<1>10. /\ M \in LedgerRec /\ M.acct = C.acct /\ M.row = C.row /\ M.sup = C.sup
       /\ M.escrow = L.escrow - task.reward /\ M.tasks = tasks /\ M.minted = C.minted
       /\ M.burned = C.burned /\ M.supMinted = C.supMinted
  <2>1. L.escrow - task.reward \in Nat BY <1>3, <1>5 DEF task
  <2> HIDE DEF tasks
  <2> QED BY <1>5, <1>6, <1>9, <2>1 DEF LedgerRec
<1> HIDE DEF M
<1>11. tasks[o] = new /\ \A p \in Orders \ {o} : tasks[p] = L.tasks[p] BY <1>1, <1>5
<1> HIDE DEF tasks
<1>12. Sound(M, n) BY <1>4, <1>7, <1>10, <1>11 DEF Sound
<1>13. Total(M) = Total(L) + task.reward BY <1>4, <1>10 DEF Total
<1>14. Owed(M, Open(M)) = Owed(L, Open(L)) - task.reward
  <2> DEFINE f == RestAll(L)
             e == RestAll(M)
             S == Open(L)
  <2>1. S \in SUBSET Orders /\ Open(M) \in SUBSET Orders BY DEF Open
  <2>2. IsFiniteSet(S) /\ (\A p \in S : f[p] \in Nat) /\ Owed(L, S) \in Nat BY <2>1, RestIsOwed
  <2>3. /\ \A p \in Orders : e[p] \in Nat /\ f[p] \in Nat
        /\ f[o] = Rest(task) /\ e[o] = Rest(new) /\ \A p \in S \ {o} : f[p] = e[p]
    BY <1>1, <1>10, <1>11, <1>12, <2>1, RestNat DEF RestAll, Sound, task
  <2>4. SumFunctionOnSet(e, S) + f[o] = SumFunctionOnSet(f, S) + e[o]
    BY <2>1, <2>2, <2>3, SumUpdate
  <2>5. SumFunctionOnSet(e, S) \in Nat BY <2>1, <2>2, <2>3, SumNat
  <2>6. SumFunctionOnSet(e, S) = Owed(L, S) - task.reward
    BY <1>1, <1>3, <1>8, <2>2, <2>3, <2>4, <2>5 DEF Owed
  <2>7. CASE status = "completed"
    <3>1. Open(M) = S \ {o} BY <1>7, <1>10, <1>11, <2>7 DEF Open
    <3>2. SumFunctionOnSet(e, S) = e[o] + SumFunctionOnSet(e, S \ {o})
      BY <2>1, <2>2, <2>3, SumRemove
    <3>3. SumFunctionOnSet(e, S \ {o}) \in Nat
      <4>1. IsFiniteSet(S \ {o}) BY <2>2, FS_RemoveElement
      <4> QED BY <2>1, <2>3, <4>1, SumNat
    <3>4. e[o] = 0 BY <1>8, <2>3, <2>7
    <3> QED BY <2>6, <3>1, <3>2, <3>3, <3>4 DEF Owed
  <2>8. CASE status = "open"
    <3>1. Open(M) = S BY <1>1, <1>7, <1>10, <1>11, <2>8 DEF Open, task
    <3> QED BY <2>6, <3>1 DEF Owed
  <2> QED BY <2>7, <2>8 DEF status
<1> QED BY <1>3, <1>4, <1>10, <1>12, <1>13, <1>14 DEF M, tasks, new, task

\* The subsidy is a natural.
LEMMA SubsidyNat ==
  ASSUME NEW L \in LedgerRec, NEW index, NEW reward \in Nat
  PROVE  Subsidy(L, index, reward) \in Nat
<1>1. L.minted \in Nat /\ MaxSupply \in Nat BY ChainAssumption DEF LedgerRec
<1> QED BY <1>1 DEF Subsidy, Lesser, Above

\* An empty block mints its subsidy and touches no order.
LEMMA MintSound ==
  ASSUME NEW n \in Nodes, NEW L, Sound(L, n), NEW index, NEW reward \in Nat,
         NEW to \in Addresses, NEW supTo \in Addresses
  PROVE  LET M == Mint(L, n, index, reward, to, supTo)
             units == Subsidy(L, index, reward)
         IN /\ Sound(M, n) /\ units \in Nat /\ Total(M) = Total(L) + units
            /\ M.minted = L.minted + units
            /\ M.escrow = L.escrow /\ M.tasks = L.tasks /\ M.burned = L.burned
<1> DEFINE units == Subsidy(L, index, reward)
           sup == IF V2(index) THEN Lesser(SupReward, Above(SupCap, L.supMinted)) ELSE 0
           C == Credit(L, n, to, units)
           M == Mint(L, n, index, reward, to, supTo)
<1>1. L \in LedgerRec BY DEF Sound
<1>2. units \in Nat BY <1>1, SubsidyNat
<1>3. sup \in Nat
  <2>1. L.supMinted \in Nat /\ SupReward \in Nat /\ SupCap \in Nat
    BY <1>1, ChainAssumption DEF LedgerRec
  <2> QED BY <2>1 DEF Lesser, Above
<1>4. /\ Sound(C, n) /\ Total(C) = Total(L) + units
      /\ C.sup = L.sup /\ C.escrow = L.escrow /\ C.tasks = L.tasks
      /\ C.minted = L.minted /\ C.burned = L.burned /\ C.supMinted = L.supMinted
  BY <1>2, CreditSound
<1>5. M = [C EXCEPT !.minted = C.minted + units, !.supMinted = C.supMinted + sup,
                    !.sup[supTo] = C.sup[supTo] + sup]
  BY Zenon DEF Mint
<1>6. C \in LedgerRec BY <1>4 DEF Sound
<1> HIDE DEF units, sup, C, M
<1>7. /\ C.minted \in Nat /\ C.supMinted \in Nat /\ C.sup \in [Addresses -> Nat]
      /\ C.minted + units \in Nat /\ C.supMinted + sup \in Nat
      /\ [C.sup EXCEPT ![supTo] = C.sup[supTo] + sup] \in [Addresses -> Nat]
  BY <1>2, <1>3, <1>6 DEF LedgerRec
<1> DEFINE m == C.minted + units
           sm == C.supMinted + sup
           sf == [C.sup EXCEPT ![supTo] = C.sup[supTo] + sup]
           k1 == [C EXCEPT !.minted = m]
           k2 == [k1 EXCEPT !.supMinted = sm]
<1>8. M = [k2 EXCEPT !.sup = sf] BY <1>5, <1>6 DEF LedgerRec
<1> HIDE DEF m, sm, sf
<1>9. /\ M \in LedgerRec /\ M.acct = C.acct /\ M.row = C.row /\ M.minted = m
      /\ M.escrow = C.escrow /\ M.tasks = C.tasks /\ M.burned = C.burned
  BY <1>6, <1>7, <1>8 DEF LedgerRec, m, sm, sf
<1>10. Sound(M, n) BY <1>4, <1>9 DEF Sound
<1>11. Total(M) = Total(L) + units BY <1>4, <1>9 DEF Total
<1> QED BY <1>2, <1>4, <1>9, <1>10, <1>11 DEF M, m, units

\* A funding transfer leaves the desktop's account on the hub: the burned half of
\* the fee leaves every balance, the rest goes to the platform.
LEMMA MovedSound ==
  ASSUME NEW L, Sound(L, Hub), L.acct[DeskWallet] >= FundUnits + TransferFee
  PROVE  LET M == Moved(L)
         IN /\ Sound(M, Hub) /\ TransferBurn \in Nat /\ Total(M) = Total(L) - TransferBurn
            /\ M.minted = L.minted /\ M.escrow = L.escrow /\ M.tasks = L.tasks
            /\ M.burned = L.burned + TransferBurn
<1> DEFINE gone == FundUnits + TransferFee
           rest == FundUnits + TransferFee - TransferBurn
           left == [L EXCEPT !.acct[DeskWallet] = @ - FundUnits - TransferFee]
           C == Credit(left, Hub, Platform, rest)
           M == Moved(L)
<1>1. /\ L \in LedgerRec /\ L.acct \in [Addresses -> Nat] /\ Hub \in Nodes
      /\ DeskWallet \in Addresses /\ Platform \in Addresses /\ HubWallet \in Addresses
      /\ Wallet(Hub) = HubWallet /\ DeskWallet # HubWallet
  BY ChainAssumption DEF Sound, LedgerRec, Nodes, Addresses, Wallet
<1>2. FundUnits \in Nat /\ TransferFee \in Nat BY ChainAssumption
<1>3. TransferBurn \in Nat /\ TransferBurn <= TransferFee BY <1>2 DEF TransferBurn
<1>4. rest \in Nat /\ gone \in Nat BY <1>2, <1>3
<1> DEFINE v == L.acct[DeskWallet] - FundUnits - TransferFee
           acct == [L.acct EXCEPT ![DeskWallet] = v]
<1>5. v \in Nat /\ v + gone = L.acct[DeskWallet] BY <1>1, <1>2
<1>6. left = [L EXCEPT !.acct = acct] BY <1>1 DEF LedgerRec
<1>7. acct \in [Addresses -> Nat] /\ acct[HubWallet] = L.acct[HubWallet] BY <1>1, <1>5
<1> HIDE DEF v, acct, left, rest, gone
<1>8. /\ left \in LedgerRec /\ left.acct = acct /\ left.row = L.row /\ left.tasks = L.tasks
      /\ left.minted = L.minted /\ left.escrow = L.escrow /\ left.burned = L.burned
  BY <1>1, <1>6, <1>7 DEF LedgerRec
<1>9. Sound(left, Hub) BY <1>1, <1>7, <1>8 DEF Sound
<1>10. Total(left) + gone = Total(L)
  <2>1. Total(left) + L.acct[DeskWallet] = Total(L) + v
    BY <1>1, <1>5, <1>8, TotalUpdate DEF acct
  <2>2. Total(left) \in Nat /\ Total(L) \in Nat BY <1>1, <1>8, TotalNat
  <2> QED BY <1>4, <1>5, <2>1, <2>2
<1>11. /\ Sound(C, Hub) /\ Total(C) = Total(left) + rest
       /\ C.escrow = L.escrow /\ C.tasks = L.tasks
       /\ C.minted = L.minted /\ C.burned = L.burned
  <2>1. /\ Sound(C, Hub) /\ Total(C) = Total(left) + rest
        /\ C.escrow = left.escrow /\ C.tasks = left.tasks
        /\ C.minted = left.minted /\ C.burned = left.burned
    <3>1. Hub \in Nodes /\ Platform \in Addresses /\ rest \in Nat BY <1>1, <1>4
    <3> QED BY <1>9, <3>1, CreditSound
  <2> QED BY <1>8, <2>1
<1>12. M = [C EXCEPT !.burned = C.burned + TransferBurn] BY Zenon DEF Moved, left, rest
<1> HIDE DEF C, M
<1>13. C \in LedgerRec /\ C.burned + TransferBurn \in Nat BY <1>3, <1>11 DEF Sound, LedgerRec
<1>14. /\ M \in LedgerRec /\ M.acct = C.acct /\ M.row = C.row /\ M.minted = C.minted
       /\ M.escrow = C.escrow /\ M.tasks = C.tasks /\ M.burned = C.burned + TransferBurn
  BY <1>12, <1>13 DEF LedgerRec
<1>15. Sound(M, Hub) BY <1>11, <1>14 DEF Sound
<1>16. Total(M) = Total(L) - TransferBurn
  <2>1. Total(left) \in Nat /\ Total(L) \in Nat BY <1>1, <1>8, TotalNat
  <2>2. Total(M) = Total(left) + rest BY <1>11, <1>14 DEF Total
  <2> QED BY <1>2, <1>3, <1>10, <2>1, <2>2 DEF gone, rest
<1> QED BY <1>3, <1>11, <1>14, <1>15, <1>16 DEF M

\* What InsertOrderTask charges is a natural, and what is neither the platform's
\* nor held leaves every balance.
LEMMA FeeNat ==
  ASSUME NEW v2 \in BOOLEAN, NEW prepaid \in Nat, NEW asset \in {"HMC", "SUP"}
  PROVE  LET fee == Fee(v2, prepaid, asset)
         IN /\ fee.hmc \in Nat /\ fee.platform \in Nat /\ fee.burn \in Nat /\ fee.sup \in Nat
            /\ fee.platform <= fee.hmc
<1> DEFINE d == 100 - V2FeePct - V2BurnPct
           price == (prepaid * 100) \div d
           burn == (price * V2BurnPct) \div 100
           platform == (price * V2FeePct) \div 100
           fee1 == (prepaid * FeePct) \div 100
           burn1 == (prepaid * BurnPct) \div 100
           sup == (burn + platform) * SupRate
<1>1. /\ FeePct \in Nat /\ BurnPct \in Nat /\ V2FeePct \in Nat /\ V2BurnPct \in Nat /\ SupRate \in Nat
      /\ d \in Nat /\ d > 0
  BY ChainAssumption
<1>2. fee1 \in Nat /\ burn1 \in Nat
  <2>1. prepaid * FeePct \in Nat /\ prepaid * BurnPct \in Nat BY <1>1
  <2> QED BY <2>1
<1>3. price \in Nat
  <2>1. prepaid * 100 \in Nat OBVIOUS
  <2> HIDE DEF d
  <2> QED BY <1>1, <2>1
<1> HIDE DEF price
<1>4. burn \in Nat /\ platform \in Nat
  <2>1. price * V2BurnPct \in Nat /\ price * V2FeePct \in Nat BY <1>1, <1>3
  <2> QED BY <2>1
<1> HIDE DEF burn, platform, fee1, burn1
<1>5. sup \in Nat
  <2>1. burn + platform \in Nat BY <1>4
  <2> QED BY <1>1, <2>1
<1> HIDE DEF sup
<1>6. \/ Fee(v2, prepaid, asset) = [hmc |-> fee1, platform |-> fee1, burn |-> burn1, sup |-> 0]
      \/ Fee(v2, prepaid, asset) = [hmc |-> burn + platform, platform |-> platform, burn |-> burn, sup |-> 0]
      \/ Fee(v2, prepaid, asset) = [hmc |-> 0, platform |-> 0, burn |-> 0, sup |-> sup]
  BY DEF Fee, fee1, burn1, burn, platform, price, sup
<1> QED BY <1>2, <1>4, <1>5, <1>6

\* The ledger after InsertOrderTask, and the order it opens.
NewTask(reward, target) ==
  [status |-> "open", reward |-> reward, target |-> target, progress |-> 0, due |-> FALSE]
Debited(L, w, debit, sup) ==
  [L EXCEPT !.acct[w] = @ - debit, !.row = @ - debit, !.sup[w] = @ - sup]
Booked(L, n, o, reward, target, fee) ==
  [Credit(Debited(L, Wallet(n), reward * target + fee.hmc, fee.sup), n, Platform, fee.platform) EXCEPT
     !.burned = @ + fee.burn, !.escrow = @ + reward * target,
     !.tasks[o] = NewTask(reward, target)]

\* A debit takes the same from the wallet row and the account.
LEMMA DebitSound ==
  ASSUME NEW n \in Nodes, NEW L, Sound(L, n), NEW debit \in Nat, NEW sup \in Nat,
         Affords(L, n, debit), L.sup[Wallet(n)] >= sup
  PROVE  LET M == Debited(L, Wallet(n), debit, sup)
         IN /\ Sound(M, n) /\ Total(M) + debit = Total(L)
            /\ M.escrow = L.escrow /\ M.tasks = L.tasks /\ M.minted = L.minted /\ M.burned = L.burned
<1> DEFINE w == Wallet(n)
           M == Debited(L, w, debit, sup)
           v == L.acct[w] - debit
           acct == [L.acct EXCEPT ![w] = v]
           row == L.row - debit
           sups == [L.sup EXCEPT ![w] = L.sup[w] - sup]
           k1 == [L EXCEPT !.acct = acct]
           k2 == [k1 EXCEPT !.row = row]
<1>1. L \in LedgerRec /\ w \in Addresses BY DEF Sound, Wallet, Addresses
<1>2. /\ L.acct \in [Addresses -> Nat] /\ L.sup \in [Addresses -> Nat] /\ L.row \in Nat
      /\ L.row = L.acct[w]
  BY <1>1 DEF LedgerRec, Sound
<1>3. v \in Nat /\ row \in Nat /\ row = v /\ v + debit = L.acct[w] BY <1>1, <1>2 DEF Affords
<1>4. acct \in [Addresses -> Nat] /\ acct[w] = v BY <1>1, <1>2, <1>3
<1>5. sups \in [Addresses -> Nat] BY <1>1, <1>2
<1>6. M = [k2 EXCEPT !.sup = sups] BY <1>1 DEF Debited, LedgerRec
<1> HIDE DEF acct, row, sups, v, w
<1>7. /\ M \in LedgerRec /\ M.acct = acct /\ M.row = row /\ M.escrow = L.escrow /\ M.tasks = L.tasks
      /\ M.minted = L.minted /\ M.burned = L.burned
  BY <1>1, <1>3, <1>4, <1>5, <1>6 DEF LedgerRec
<1> HIDE DEF M
<1>8. Sound(M, n) BY <1>3, <1>4, <1>7 DEF Sound, w
<1>9. Total(M) + L.acct[w] = Total(L) + v BY <1>1, <1>3, <1>7, TotalUpdate DEF acct
<1>10. Total(M) \in Nat /\ Total(L) \in Nat BY <1>1, <1>7, TotalNat
<1>11. Total(M) + debit = Total(L) BY <1>3, <1>9, <1>10
<1> QED BY <1>7, <1>8, <1>11 DEF M, w

\* InsertOrderTask: what the new order owes is in the escrow.
LEMMA PostSound ==
  ASSUME NEW n \in Nodes, NEW L, Sound(L, n), NEW o \in Orders, L.tasks[o] = NoTask,
         NEW reward \in Nat, NEW target \in Nat \ {0}, NEW fee,
         fee.hmc \in Nat, fee.platform \in Nat, fee.burn \in Nat, fee.sup \in Nat,
         Affords(L, n, reward * target + fee.hmc), L.sup[Wallet(n)] >= fee.sup
  PROVE  LET M == Booked(L, n, o, reward, target, fee)
         IN /\ Sound(M, n) /\ Total(M) + reward * target + fee.hmc = Total(L) + fee.platform
            /\ reward * target \in Nat
            /\ M.escrow = L.escrow + reward * target /\ M.minted = L.minted
            /\ M.tasks = [L.tasks EXCEPT ![o] = NewTask(reward, target)]
            /\ Owed(M, Open(M)) = Owed(L, Open(L)) + reward * target
<1> DEFINE prepaid == reward * target
           debit == prepaid + fee.hmc
           D == Debited(L, Wallet(n), debit, fee.sup)
           C == Credit(D, n, Platform, fee.platform)
           new == NewTask(reward, target)
           tasks == [L.tasks EXCEPT ![o] = new]
           M == Booked(L, n, o, reward, target, fee)
<1>1. prepaid \in Nat OBVIOUS
<1> HIDE DEF prepaid
<1>2. debit \in Nat BY <1>1
<1>3. /\ Sound(D, n) /\ Total(D) + debit = Total(L)
      /\ D.escrow = L.escrow /\ D.tasks = L.tasks /\ D.minted = L.minted /\ D.burned = L.burned
  BY <1>2, DebitSound DEF prepaid
<1>4. Platform \in Addresses BY DEF Addresses
<1>5. /\ Sound(C, n) /\ Total(C) = Total(D) + fee.platform
      /\ C.escrow = D.escrow /\ C.tasks = D.tasks /\ C.minted = D.minted /\ C.burned = D.burned
  BY <1>3, <1>4, CreditSound
<1>6. M = [C EXCEPT !.burned = C.burned + fee.burn, !.escrow = C.escrow + prepaid,
                    !.tasks[o] = new]
  BY Zenon DEF Booked, prepaid
<1>7. L \in LedgerRec /\ C \in LedgerRec BY <1>5 DEF Sound
<1>8. new \in TaskRec /\ TaskOK(new) /\ new.status = "open" /\ Rest(new) = prepaid
  BY DEF NewTask, TaskRec, TaskOK, Statuses, Rest, prepaid
<1>9. L.tasks \in [Orders -> TaskRec] /\ C.burned + fee.burn \in Nat /\ C.escrow + prepaid \in Nat
  BY <1>1, <1>7 DEF LedgerRec
<1> HIDE DEF new
<1>10. tasks \in [Orders -> TaskRec] /\ tasks[o] = new /\ \A p \in Orders \ {o} : tasks[p] = L.tasks[p]
  BY <1>8, <1>9
<1> DEFINE b == C.burned + fee.burn
           c == C.escrow + prepaid
           k1 == [C EXCEPT !.burned = b]
           k2 == [k1 EXCEPT !.escrow = c]
<1>11. M = [k2 EXCEPT !.tasks = tasks] BY <1>3, <1>5, <1>6, <1>7 DEF LedgerRec
<1> HIDE DEF tasks, C, M, b, c, D
<1>12. /\ M \in LedgerRec /\ M.acct = C.acct /\ M.row = C.row /\ M.escrow = c /\ M.tasks = tasks
       /\ M.minted = C.minted
  BY <1>7, <1>9, <1>10, <1>11 DEF LedgerRec, b, c
<1>13. Sound(M, n) BY <1>5, <1>8, <1>10, <1>12 DEF Sound
<1>14. Total(M) + prepaid + fee.hmc = Total(L) + fee.platform
  <2>1. Total(M) = Total(C) BY <1>12 DEF Total
  <2>2. Total(L) \in Nat /\ Total(D) \in Nat BY <1>3, <1>7, TotalNat DEF Sound
  <2> QED BY <1>1, <1>3, <1>5, <2>1, <2>2
<1>15. Owed(M, Open(M)) = Owed(L, Open(L)) + prepaid
  <2> DEFINE f == RestAll(L)
             e == RestAll(M)
             S == Open(L)
  <2>1. S \in SUBSET Orders /\ Open(M) \in SUBSET Orders BY DEF Open
  <2>2. IsFiniteSet(S) /\ Owed(L, S) \in Nat /\ IsFiniteSet(Open(M)) BY <1>13, <2>1, RestIsOwed
  <2>3. o \notin S BY DEF Open, NoTask
  <2>4. Open(M) = S \cup {o} BY <1>8, <1>10, <1>12, <2>1 DEF Open
  <2>5. /\ \A p \in Orders : e[p] \in Nat
        /\ e[o] = prepaid /\ \A p \in S : f[p] = e[p]
    BY <1>8, <1>10, <1>12, <1>13, <2>1, <2>3, RestNat DEF RestAll, Sound
  <2>6. SumFunctionOnSet(e, Open(M)) = e[o] + SumFunctionOnSet(e, Open(M) \ {o})
    BY <2>1, <2>2, <2>4, <2>5, SumRemove
  <2>7. Open(M) \ {o} = S BY <2>3, <2>4
  <2>8. SumFunctionOnSet(e, S) = SumFunctionOnSet(f, S) BY <2>2, <2>5, SumSame
  <2>9. SumFunctionOnSet(e, Open(M)) = prepaid + SumFunctionOnSet(f, S)
    BY <2>5, <2>6, <2>7, <2>8, Zenon
  <2>10. Owed(M, Open(M)) = prepaid + Owed(L, S) BY <2>9 DEF Owed
  <2> QED BY <1>1, <2>2, <2>10
<1> QED BY <1>1, <1>3, <1>5, <1>12, <1>13, <1>14, <1>15 DEF M, tasks, new, prepaid, c

----------------------------------------------------------------------------
(* The invariant.                                                           *)

BlockRec == [order : HubOrders \cup {NoOrder}, to : {HubWallet}, minted : Nat]
SolverRec ==
  [pc : {"idle", "reward", "append"}, tip : Nat, order : HubOrders \cup {NoOrder},
   nonce : Nonces \cup {NoNonce}, miner : Miners \cup {HubWallet}, reward : Nat]

\* A ledger whose escrow counter is what its open orders owe.
Balanced(L, n) == Sound(L, n) /\ L.escrow = Owed(L, Open(L))

LedgerInv ==
  /\ ledger \in [Nodes -> LedgerRec]
  /\ \A n \in Nodes : Balanced(ledger[n], n)

ChainType ==
  /\ blocks \in Seq(BlockRec) /\ synced \in 0..Len(blocks) /\ Len(blocks) <= MaxHeight
  /\ found \subseteq HubOrders \X Nonces
  /\ transfer \in [Funds -> {"none", "pending", "included", "rejected"}]
  /\ credited \subseteq Funds
  /\ destroyed \in [Nodes -> Nat] /\ funded \in [Nodes -> Nat]

\* A solve that has not ended is for a block there is room for.
SolverInv ==
  /\ solver \in [Solvers -> SolverRec]
  /\ \A s \in Solvers :
       /\ solver[s].pc # "idle" => solver[s].tip < MaxHeight
       /\ solver[s].order # NoOrder => solver[s].nonce \in Nonces

ConserveInv ==
  \A n \in Nodes :
    Total(ledger[n]) + ledger[n].escrow + destroyed[n] + Opening(n) = ledger[n].minted + funded[n]

Inv == LedgerInv /\ ChainType /\ SolverInv /\ ConserveInv

\* Ledgers with the same orders owe the same.
LEMMA OwedSame ==
  ASSUME NEW L, NEW M, M.tasks = L.tasks
  PROVE  Open(M) = Open(L) /\ Owed(M, Open(M)) = Owed(L, Open(L))
  BY DEF Open, Owed, RestAll

\* An open order owes at least one solve.
LEMMA OwedAtLeast ==
  ASSUME NEW n \in Nodes, NEW L, Sound(L, n), NEW o \in Open(L)
  PROVE  L.tasks[o].reward \in Nat /\ L.tasks[o].reward <= Owed(L, Open(L))
<1> DEFINE t == L.tasks[o]
           d == t.target - t.progress
           f == RestAll(L)
           S == Open(L)
<1>1. o \in Orders /\ S \in SUBSET Orders /\ t.status = "open" BY DEF Open
<1>2. TaskOK(t) BY <1>1 DEF Sound
<1>3. t.reward \in Nat /\ d \in Nat /\ d - 1 \in Nat BY <1>1, <1>2 DEF TaskOK, TaskRec
<1>4. IsFiniteSet(S) /\ \A p \in S : f[p] \in Nat BY <1>1, RestIsOwed
<1>5. Owed(L, S) = f[o] + SumFunctionOnSet(f, S \ {o}) BY <1>4, SumRemove DEF Owed
<1>6. SumFunctionOnSet(f, S \ {o}) \in Nat
  <2>1. IsFiniteSet(S \ {o}) BY <1>4, FS_RemoveElement
  <2> QED BY <1>4, <2>1, SumNat
<1>7. f[o] = t.reward * d BY <1>1 DEF RestAll, Rest
<1> HIDE DEF d, f, t
<1>8. t.reward * d = t.reward * (d - 1) + t.reward /\ t.reward * (d - 1) \in Nat BY <1>3
<1> QED BY <1>3, <1>5, <1>6, <1>7, <1>8 DEF t

\* One node's ledger becomes M.
LEMMA LedgerStep ==
  ASSUME LedgerInv, NEW n \in Nodes, NEW M, Balanced(M, n), ledger' = [ledger EXCEPT ![n] = M]
  PROVE  LedgerInv' /\ ledger'[n] = M /\ \A m \in Nodes \ {n} : ledger'[m] = ledger[m]
<1>1. M \in LedgerRec BY DEF Balanced, Sound
<1> QED BY <1>1 DEF LedgerInv

\* The units of one node's ledger M, of which d were destroyed and u came from outside.
LEMMA ConserveStep ==
  ASSUME Inv, NEW n \in Nodes, NEW M, Balanced(M, n), ledger' = [ledger EXCEPT ![n] = M],
         NEW d \in Nat, NEW u \in Nat,
         destroyed' = [destroyed EXCEPT ![n] = destroyed[n] + d],
         funded' = [funded EXCEPT ![n] = funded[n] + u],
         Total(M) + M.escrow + d + ledger[n].minted = Total(ledger[n]) + ledger[n].escrow + M.minted + u
  PROVE  LedgerInv' /\ ConserveInv' /\ destroyed' \in [Nodes -> Nat] /\ funded' \in [Nodes -> Nat]
<1> DEFINE L == ledger[n]
<1>1. LedgerInv' /\ ledger'[n] = M /\ \A m \in Nodes \ {n} : ledger'[m] = ledger[m]
  BY LedgerStep DEF Inv
<1>2. destroyed \in [Nodes -> Nat] /\ funded \in [Nodes -> Nat] BY DEF Inv, ChainType
<1>3. /\ destroyed'[n] = destroyed[n] + d /\ funded'[n] = funded[n] + u
      /\ \A m \in Nodes \ {n} : destroyed'[m] = destroyed[m] /\ funded'[m] = funded[m]
  BY <1>2
<1>4. L \in LedgerRec /\ M \in LedgerRec BY DEF Inv, LedgerInv, Balanced, Sound
<1>5. /\ Total(L) \in Nat /\ Total(M) \in Nat /\ L.escrow \in Nat /\ M.escrow \in Nat
      /\ L.minted \in Nat /\ M.minted \in Nat /\ Opening(n) \in Nat
  BY <1>4, TotalNat, ChainAssumption DEF LedgerRec, Opening
<1>6. Total(L) + L.escrow + destroyed[n] + Opening(n) = L.minted + funded[n] BY DEF Inv, ConserveInv
<1>7. destroyed[n] \in Nat /\ funded[n] \in Nat BY <1>2
<1>8. Total(M) + M.escrow + d + L.minted = Total(L) + L.escrow + M.minted + u OBVIOUS
<1>9. Total(M) + M.escrow + (destroyed[n] + d) + Opening(n) = M.minted + (funded[n] + u)
  <2> DEFINE t == Total(L)
             e == L.escrow
             m == L.minted
             t2 == Total(M)
             e2 == M.escrow
             m2 == M.minted
             x == destroyed[n]
             f == funded[n]
             p == Opening(n)
  <2>1. /\ t \in Nat /\ e \in Nat /\ m \in Nat /\ t2 \in Nat /\ e2 \in Nat /\ m2 \in Nat
        /\ x \in Nat /\ f \in Nat /\ p \in Nat
        /\ t + e + x + p = m + f /\ t2 + e2 + d + m = t + e + m2 + u
    BY <1>5, <1>6, <1>7, <1>8
  <2> HIDE DEF t, e, m, t2, e2, m2, x, f, p
  <2>2. t2 + e2 + (x + d) + p = m2 + (f + u) BY <2>1
  <2> QED BY <2>2 DEF t2, e2, m2, x, f, p
<1>10. ConserveInv' BY <1>1, <1>3, <1>9 DEF Inv, ConserveInv, Opening
<1>11. destroyed' \in [Nodes -> Nat] /\ funded' \in [Nodes -> Nat] BY <1>2, <1>3, <1>7
<1> QED BY <1>1, <1>10, <1>11

\* A step that leaves both histories alone.
LEMMA ConserveQuiet ==
  ASSUME Inv, NEW n \in Nodes, NEW M, Balanced(M, n), ledger' = [ledger EXCEPT ![n] = M],
         UNCHANGED <<destroyed, funded>>,
         Total(M) + M.escrow + ledger[n].minted = Total(ledger[n]) + ledger[n].escrow + M.minted
  PROVE  LedgerInv' /\ ConserveInv' /\ destroyed' \in [Nodes -> Nat] /\ funded' \in [Nodes -> Nat]
<1> DEFINE none == 0
<1>1. destroyed \in [Nodes -> Nat] /\ funded \in [Nodes -> Nat] BY DEF Inv, ChainType
<1>2. /\ destroyed' = [destroyed EXCEPT ![n] = destroyed[n] + none]
      /\ funded' = [funded EXCEPT ![n] = funded[n] + none]
  BY <1>1
<1>3. ledger[n] \in LedgerRec /\ M \in LedgerRec BY DEF Inv, LedgerInv, Balanced, Sound
<1>4. Total(M) + M.escrow + none + ledger[n].minted = Total(ledger[n]) + ledger[n].escrow + M.minted + none
  BY <1>3, TotalNat DEF LedgerRec
<1>5. none \in Nat OBVIOUS
<1> HIDE DEF none
<1> QED BY <1>2, <1>4, <1>5, ConserveStep, ZenonT(60)

----------------------------------------------------------------------------
(* The actions.                                                             *)

\* The orders of a ledger when those of a set have been cancelled.
Cancelled(L, set) ==
  [o \in Orders |-> IF o \in set THEN [L.tasks[o] EXCEPT !.status = "cancelled"] ELSE L.tasks[o]]

\* Expiring a set of open orders leaves a balanced ledger and moves no unit out of it.
LEMMA ExpireBalanced ==
  ASSUME NEW n \in Nodes, NEW L, Balanced(L, n), NEW set \in SUBSET Open(L), CanExpire(L, set)
  PROVE  LET M == Expire(L, n, set)
         IN /\ Balanced(M, n) /\ Total(M) + M.escrow = Total(L) + L.escrow
            /\ M.minted = L.minted /\ Open(M) = Open(L) \ set
            /\ M.escrow = L.escrow - Owed(L, set) /\ Owed(L, set) \in Nat
            /\ M.tasks = Cancelled(L, set)
<1> DEFINE M == Expire(L, n, set)
           w == Owed(L, set)
<1>1. Sound(L, n) /\ L.escrow = Owed(L, Open(L)) BY DEF Balanced
<1>2. /\ Sound(M, n) /\ Total(M) = Total(L) + w
      /\ M.escrow = L.escrow - w /\ w <= L.escrow /\ w \in Nat
      /\ M.minted = L.minted
      /\ M.tasks = [o \in Orders |-> IF o \in set THEN [L.tasks[o] EXCEPT !.status = "cancelled"]
                                     ELSE L.tasks[o]]
      /\ Open(M) = Open(L) \ set /\ Owed(M, Open(M)) = Owed(L, Open(L)) - w
  BY <1>1, ExpireSound
<1>3. Total(L) \in Nat /\ L.escrow \in Nat BY <1>1, TotalNat DEF Sound, LedgerRec
<1> HIDE DEF M, w
<1>4. Total(M) + M.escrow = Total(L) + L.escrow BY <1>2, <1>3
<1>5. Balanced(M, n) BY <1>1, <1>2 DEF Balanced
<1> QED BY <1>2, <1>4, <1>5 DEF M, w, Cancelled

\* ExpireOpenOrderTasks.
LEMMA ExpireStep ==
  ASSUME Inv, NEW n \in Nodes, ExpireOpenOrderTasks(n)
  PROVE  /\ Inv'
         /\ \E M : /\ ledger' = [ledger EXCEPT ![n] = M] /\ M.minted = ledger[n].minted
                   /\ M.escrow = ledger[n].escrow - Owed(ledger[n], Due(ledger[n]))
                   /\ M.tasks = Cancelled(ledger[n], Due(ledger[n]))
         /\ Due(ledger[n]) # {}
         /\ UNCHANGED <<blocks, synced, found, solver, transfer, credited, destroyed, funded>>
<1> DEFINE L == ledger[n]
           M == Expire(L, n, Due(L))
<1>1. Balanced(L, n) BY DEF Inv, LedgerInv
<1>2. /\ Due(L) # {} /\ CanExpire(L, Due(L)) /\ ledger' = [ledger EXCEPT ![n] = M]
      /\ UNCHANGED <<blocks, synced, found, solver, transfer, credited, destroyed, funded>>
  BY Zenon DEF ExpireOpenOrderTasks
<1>3. Due(L) \in SUBSET Open(L) BY DEF Due
<1>4. /\ Balanced(M, n) /\ Total(M) + M.escrow = Total(L) + L.escrow /\ M.minted = L.minted
      /\ M.escrow = L.escrow - Owed(L, Due(L)) /\ M.tasks = Cancelled(L, Due(L))
  <2> DEFINE set == Due(L)
  <2>1. CanExpire(L, set) /\ set \in SUBSET Open(L) BY <1>2, <1>3
  <2> HIDE DEF set, L
  <2>2. LET N == Expire(L, n, set)
        IN /\ Balanced(N, n) /\ Total(N) + N.escrow = Total(L) + L.escrow /\ N.minted = L.minted
           /\ N.escrow = L.escrow - Owed(L, set) /\ N.tasks = Cancelled(L, set)
    BY <1>1, <2>1, ExpireBalanced
  <2> QED BY <2>2 DEF set
<1>5. L \in LedgerRec /\ M \in LedgerRec BY <1>1, <1>4 DEF Balanced, Sound
<1> HIDE DEF M
<1>6. Total(M) + M.escrow + L.minted = Total(L) + L.escrow + M.minted BY <1>4, <1>5
<1>7. LedgerInv' /\ ConserveInv' /\ destroyed' \in [Nodes -> Nat] /\ funded' \in [Nodes -> Nat]
  BY <1>2, <1>4, <1>6, ConserveQuiet
<1>8. Inv' BY <1>2, <1>7 DEF Inv, ChainType, SolverInv
<1> QED BY <1>2, <1>4, <1>8

\* InsertOrderTask.
LEMMA PostStep ==
  ASSUME Inv, NEW n \in Nodes, NEW o \in Orders, NEW reward \in Rewards, NEW target \in Targets,
         NEW asset \in {"HMC", "SUP"}, PostOrder(n, o, reward, target, asset)
  PROVE  /\ Inv'
         /\ \E M : /\ ledger' = [ledger EXCEPT ![n] = M]
                   /\ M.escrow = ledger[n].escrow + reward * target /\ M.minted = ledger[n].minted
                   /\ M.tasks = [ledger[n].tasks EXCEPT ![o] = NewTask(reward, target)]
         /\ UNCHANGED <<blocks, synced, found, solver, transfer, credited, funded>>
         /\ o \in PostedAt(n) /\ ledger[n].tasks[o] = NoTask
<1> DEFINE L == ledger[n]
           w == Wallet(n)
           v2 == V2(Height(n) + 1)
           prepaid == reward * target
           fee == Fee(v2, prepaid, asset)
           debit == prepaid + fee.hmc
           M == Booked(L, n, o, reward, target, fee)
<1>1. Balanced(L, n) BY DEF Inv, LedgerInv
<1>2. /\ ledger' = [ledger EXCEPT ![n] = M]
      /\ L.tasks[o] = NoTask /\ Affords(L, n, debit) /\ L.sup[w] >= fee.sup
      /\ destroyed' = [destroyed EXCEPT ![n] = destroyed[n] + fee.hmc - fee.platform]
      /\ UNCHANGED <<blocks, synced, found, solver, transfer, credited, funded>>
      /\ o \in PostedAt(n)
  BY Zenon DEF PostOrder, Booked, Debited, NewTask
<1>3. reward \in Nat /\ target \in Nat \ {0} BY ChainAssumption
<1>4. prepaid \in Nat BY <1>3
<1>5. v2 \in BOOLEAN BY DEF V2
<1>6. /\ fee.hmc \in Nat /\ fee.platform \in Nat /\ fee.burn \in Nat /\ fee.sup \in Nat
      /\ fee.platform <= fee.hmc
  BY <1>4, <1>5, FeeNat
<1> HIDE DEF fee
<1>7. /\ Sound(M, n) /\ Total(M) + reward * target + fee.hmc = Total(L) + fee.platform
      /\ M.escrow = L.escrow + reward * target /\ M.minted = L.minted
      /\ M.tasks = [L.tasks EXCEPT ![o] = NewTask(reward, target)]
      /\ Owed(M, Open(M)) = Owed(L, Open(L)) + reward * target
  BY <1>1, <1>2, <1>3, <1>6, PostSound DEF Balanced
<1> HIDE DEF M
<1>8. Balanced(M, n) BY <1>1, <1>7 DEF Balanced
<1> DEFINE d == fee.hmc - fee.platform
<1>9. d \in Nat BY <1>6
<1>10. /\ destroyed \in [Nodes -> Nat] /\ funded \in [Nodes -> Nat]
       /\ L \in LedgerRec /\ M \in LedgerRec
  BY <1>8 DEF Inv, ChainType, LedgerInv, Balanced, Sound
<1>11. /\ destroyed' = [destroyed EXCEPT ![n] = destroyed[n] + d]
       /\ funded' = [funded EXCEPT ![n] = funded[n] + 0]
  <2>1. destroyed[n] + fee.hmc - fee.platform = destroyed[n] + d BY <1>6, <1>10
  <2> QED BY <1>2, <1>10, <2>1
<1>12. Total(M) + M.escrow + d + L.minted = Total(L) + L.escrow + M.minted + 0
  <2> DEFINE t == Total(L)
             e == L.escrow
             m == L.minted
             t2 == Total(M)
             e2 == M.escrow
             h == fee.hmc
             f == fee.platform
  <2>1. /\ t \in Nat /\ e \in Nat /\ m \in Nat /\ t2 \in Nat /\ e2 \in Nat
    BY <1>10, TotalNat DEF LedgerRec
  <2>2. h \in Nat /\ f \in Nat /\ d = h - f /\ t2 + prepaid + h = t + f /\ e2 = e + prepaid /\ M.minted = m
    BY <1>6, <1>7
  <2> HIDE DEF t, e, m, t2, e2, h, f, prepaid, d
  <2>3. t2 + e2 + d + m = t + e + m + 0 BY <1>4, <2>1, <2>2
  <2> QED BY <2>2, <2>3 DEF t, e, m, t2, e2
<1>13. LedgerInv' /\ ConserveInv' /\ destroyed' \in [Nodes -> Nat] /\ funded' \in [Nodes -> Nat]
  <2>1. 0 \in Nat OBVIOUS
  <2>2. ledger' = [ledger EXCEPT ![n] = M] BY <1>2
  <2>3. Total(M) + M.escrow + d + ledger[n].minted = Total(ledger[n]) + ledger[n].escrow + M.minted + 0
    BY <1>12
  <2> HIDE DEF d, L
  <2> QED BY <2>2, <1>8, <1>9, <1>11, <2>1, <2>3, ConserveStep
<1>14. Inv' BY <1>2, <1>13 DEF Inv, ChainType, SolverInv
<1> QED BY <1>2, <1>7, <1>14

\* Time passes an order's expires_at.
LEMMA PassStep ==
  ASSUME Inv, NEW n \in Nodes, NEW o \in Orders, Pass(n, o)
  PROVE  /\ Inv'
         /\ \E M : /\ ledger' = [ledger EXCEPT ![n] = M]
                   /\ M.escrow = ledger[n].escrow /\ M.minted = ledger[n].minted
                   /\ M.tasks = [ledger[n].tasks EXCEPT ![o] = [ledger[n].tasks[o] EXCEPT !.due = TRUE]]
         /\ UNCHANGED <<blocks, synced, found, solver, transfer, credited, destroyed, funded>>
<1> DEFINE L == ledger[n]
           t == L.tasks[o]
           new == [t EXCEPT !.due = TRUE]
           tasks == [L.tasks EXCEPT ![o] = new]
           M == [L EXCEPT !.tasks = tasks]
<1>1. Balanced(L, n) /\ L \in LedgerRec /\ L.tasks \in [Orders -> TaskRec] /\ ledger \in [Nodes -> LedgerRec]
  BY DEF Inv, LedgerInv, Balanced, Sound, LedgerRec
<1>2. /\ ledger' = [ledger EXCEPT ![n].tasks[o].due = TRUE]
      /\ UNCHANGED <<blocks, synced, found, solver, transfer, credited, destroyed, funded>>
  BY Zenon DEF Pass
<1>3. ledger' = [ledger EXCEPT ![n] = M] BY <1>1, <1>2
<1>4. TaskOK(t) BY <1>1 DEF Balanced, Sound
<1>5. new \in TaskRec /\ TaskOK(new) /\ Rest(new) = Rest(t) /\ new.status = t.status
  <2> HIDE DEF t
  <2> QED BY <1>4 DEF TaskOK, TaskRec, Rest
<1> HIDE DEF new, t
<1>6. tasks \in [Orders -> TaskRec] /\ tasks[o] = new /\ \A p \in Orders \ {o} : tasks[p] = L.tasks[p]
  BY <1>1, <1>5
<1> HIDE DEF tasks
<1>7. /\ M \in LedgerRec /\ M.acct = L.acct /\ M.row = L.row /\ M.escrow = L.escrow /\ M.tasks = tasks
      /\ M.minted = L.minted
  BY <1>1, <1>6 DEF LedgerRec
<1> HIDE DEF M
<1>8. Sound(M, n) BY <1>1, <1>5, <1>6, <1>7 DEF Balanced, Sound
<1>9. Open(M) = Open(L) /\ RestAll(M) = RestAll(L) BY <1>5, <1>6, <1>7 DEF Open, RestAll, t
<1>10. Balanced(M, n) BY <1>1, <1>7, <1>8, <1>9 DEF Balanced, Owed
<1>11. Total(M) = Total(L) BY <1>7 DEF Total
<1>12. LedgerInv' /\ ConserveInv' BY <1>2, <1>3, <1>7, <1>10, <1>11, ConserveQuiet
<1>13. Inv' BY <1>2, <1>12 DEF Inv, ChainType, SolverInv
<1> QED BY <1>2, <1>3, <1>7, <1>13 DEF tasks, new, t

\* fundOrdersSpendable touches no ledger.
LEMMA SendStep ==
  ASSUME Inv, NEW t \in Funds, SendFund(t)
  PROVE  Inv'
  BY DEF Inv, SendFund, LedgerInv, ChainType, SolverInv, ConserveInv

\* CreditOrdersFund.
LEMMA FundStep ==
  ASSUME Inv, NEW t \in Funds, CreditOrdersFund(t)
  PROVE  /\ Inv'
         /\ \E M : /\ ledger' = [ledger EXCEPT ![Desk] = M] /\ M.minted = ledger[Desk].minted
<1> DEFINE L == ledger[Desk]
           M == Credit(L, Desk, DeskWallet, FundUnits)
<1>1. Desk \in Nodes /\ DeskWallet \in Addresses /\ FundUnits \in Nat
  BY ChainAssumption DEF Nodes, Addresses
<1>2. Balanced(L, Desk) BY <1>1 DEF Inv, LedgerInv
<1>3. /\ ledger' = [ledger EXCEPT ![Desk] = M] /\ credited' = credited \cup {t}
      /\ funded' = [funded EXCEPT ![Desk] = funded[Desk] + FundUnits]
      /\ UNCHANGED <<blocks, synced, found, solver, transfer, destroyed>>
  BY Zenon DEF CreditOrdersFund
<1>4. Sound(L, Desk) BY <1>2 DEF Balanced
<1>5. /\ Sound(M, Desk) /\ Total(M) = Total(L) + FundUnits
      /\ M.escrow = L.escrow /\ M.tasks = L.tasks /\ M.minted = L.minted
  BY <1>1, <1>4, CreditSound
<1> HIDE DEF M
<1>6. Balanced(M, Desk) BY <1>2, <1>5, OwedSame DEF Balanced
<1>7. destroyed \in [Nodes -> Nat] /\ L \in LedgerRec BY <1>1, <1>4 DEF Inv, ChainType, Sound
<1>8. destroyed' = [destroyed EXCEPT ![Desk] = destroyed[Desk] + 0] BY <1>1, <1>3, <1>7
<1>9. Total(M) + M.escrow + 0 + L.minted = Total(L) + L.escrow + M.minted + FundUnits
  <2> DEFINE x == Total(L)
             e == L.escrow
             m == L.minted
  <2>1. x \in Nat /\ e \in Nat /\ m \in Nat BY <1>7, TotalNat DEF LedgerRec
  <2>2. Total(M) = x + FundUnits /\ M.escrow = e /\ M.minted = m BY <1>5
  <2> HIDE DEF x, e, m
  <2>3. (x + FundUnits) + e + 0 + m = x + e + m + FundUnits BY <1>1, <2>1
  <2> QED BY <2>2, <2>3 DEF x, e, m
<1>10. 0 \in Nat OBVIOUS
<1>11. LedgerInv' /\ ConserveInv' /\ destroyed' \in [Nodes -> Nat] /\ funded' \in [Nodes -> Nat]
  BY <1>1, <1>3, <1>6, <1>8, <1>9, <1>10, ConserveStep
<1>12. Inv' BY <1>3, <1>11 DEF Inv, ChainType, SolverInv
<1> QED BY <1>3, <1>5, <1>12

\* A subsidy adds what it mints to the accounts.
LEMMA MintBalanced ==
  ASSUME NEW n \in Nodes, NEW L, Balanced(L, n), NEW index, NEW reward \in Nat,
         NEW to \in Addresses, NEW supTo \in Addresses
  PROVE  LET M == Mint(L, n, index, reward, to, supTo)
         IN /\ Balanced(M, n) /\ Total(M) + M.escrow + L.minted = Total(L) + L.escrow + M.minted
            /\ M.minted = L.minted + Subsidy(L, index, reward) /\ M.escrow = L.escrow
            /\ M.tasks = L.tasks
<1> DEFINE M == Mint(L, n, index, reward, to, supTo)
           u == Subsidy(L, index, reward)
<1>1. Sound(L, n) /\ L.escrow = Owed(L, Open(L)) /\ L \in LedgerRec BY DEF Balanced, Sound
<1>2. /\ Sound(M, n) /\ u \in Nat /\ Total(M) = Total(L) + u /\ M.minted = L.minted + u
      /\ M.escrow = L.escrow /\ M.tasks = L.tasks
  BY <1>1, MintSound
<1> HIDE DEF M, u
<1>3. Balanced(M, n) BY <1>1, <1>2, OwedSame DEF Balanced
<1>4. Total(M) + M.escrow + L.minted = Total(L) + L.escrow + M.minted
  <2> DEFINE t == Total(L)
             e == L.escrow
             m == L.minted
  <2>1. t \in Nat /\ e \in Nat /\ m \in Nat BY <1>1, TotalNat DEF LedgerRec
  <2>2. Total(M) = t + u /\ M.escrow = e /\ M.minted = m + u BY <1>2
  <2> HIDE DEF t, e, m
  <2>3. (t + u) + e + m = t + e + (m + u) BY <1>2, <2>1
  <2> QED BY <2>2, <2>3 DEF t, e, m
<1> QED BY <1>2, <1>3, <1>4 DEF M, u

\* Paying a solve moves its reward from the escrow to the miner.
LEMMA PayBalanced ==
  ASSUME NEW n \in Nodes, NEW L, Balanced(L, n), NEW o \in Open(L), NEW miner \in Addresses
  PROVE  LET M == PayOrder(L, n, o, miner)
         IN /\ Balanced(M, n) /\ Total(M) + M.escrow = Total(L) + L.escrow
            /\ M.minted = L.minted /\ M.escrow = L.escrow - L.tasks[o].reward
            /\ M.tasks = [L.tasks EXCEPT ![o] = Solved(L.tasks[o])]
<1> DEFINE M == PayOrder(L, n, o, miner)
           r == L.tasks[o].reward
<1>1. Sound(L, n) /\ L.escrow = Owed(L, Open(L)) /\ L \in LedgerRec BY DEF Balanced, Sound
<1>2. r \in Nat /\ r <= L.escrow BY <1>1, OwedAtLeast
<1>3. /\ Sound(M, n) /\ Total(M) = Total(L) + r /\ M.escrow = L.escrow - r /\ M.minted = L.minted
      /\ Owed(M, Open(M)) = Owed(L, Open(L)) - r /\ M.tasks = [L.tasks EXCEPT ![o] = Solved(L.tasks[o])]
  <2>1. L.tasks[o].reward <= L.escrow BY <1>2
  <2>2. LET N == PayOrder(L, n, o, miner)
            task == L.tasks[o]
        IN /\ Sound(N, n) /\ task.reward \in Nat /\ Total(N) = Total(L) + task.reward
           /\ N.escrow = L.escrow - task.reward
           /\ N.sup = L.sup /\ N.minted = L.minted /\ N.burned = L.burned
           /\ N.supMinted = L.supMinted
           /\ Owed(N, Open(N)) = Owed(L, Open(L)) - task.reward
           /\ N.tasks = [L.tasks EXCEPT ![o] = Solved(task)]
    BY <1>1, <2>1, PaySound
  <2> QED BY <2>2
<1> HIDE DEF M, r
<1>4. Balanced(M, n) BY <1>1, <1>3 DEF Balanced
<1>5. Total(M) + M.escrow = Total(L) + L.escrow
  <2> DEFINE t == Total(L)
             e == L.escrow
  <2>1. t \in Nat /\ e \in Nat BY <1>1, TotalNat DEF LedgerRec
  <2>2. Total(M) = t + r /\ M.escrow = e - r BY <1>3
  <2> HIDE DEF t, e
  <2>3. (t + r) + (e - r) = t + e BY <1>2, <2>1
  <2> QED BY <2>2, <2>3 DEF t, e
<1> QED BY <1>3, <1>4, <1>5 DEF M, r

\* An address that work is done for.
LEMMA KnownAddresses ==
  /\ HubWallet \in Addresses /\ DeskWallet \in Addresses /\ Miners \subseteq Addresses
  /\ Hub \in Nodes /\ Desk \in Nodes /\ Hub # Desk
  BY DEF Addresses, Nodes, Hub, Desk

\* A block on the hub, before the transfer: an empty one mints, one of an order pays it.
LEMMA RewardedBalanced ==
  ASSUME Inv, NEW s \in Solvers, Appendable(solver[s])
  PROVE  LET q == solver[s]
             L == ledger[Hub]
             R == Rewarded(q)
         IN /\ Balanced(R, Hub) /\ Total(R) + R.escrow + L.minted = Total(L) + L.escrow + R.minted
            /\ Owed(L, Due(L)) \in Nat
            /\ q.order = NoOrder =>
                 /\ R.minted = L.minted + Subsidy(L, Len(blocks) + 1, q.reward)
                 /\ R.escrow = L.escrow - Owed(L, Due(L)) /\ R.tasks = Cancelled(L, Due(L))
            /\ q.order # NoOrder =>
                 /\ R.minted = L.minted
                 /\ q.order \in Open(L) \ Due(L) /\ FreshNonce(q)
                 /\ R.escrow = L.escrow - Owed(L, Due(L)) - L.tasks[q.order].reward
                 /\ R.tasks = [Cancelled(L, Due(L)) EXCEPT ![q.order] = Solved(L.tasks[q.order])]
<1> DEFINE q == solver[s]
           L == ledger[Hub]
           set == Due(L)
           E == Expire(L, Hub, set)
           R == Rewarded(q)
           w == Owed(L, set)
<1>1. Hub \in Nodes /\ HubWallet \in Addresses /\ Miners \subseteq Addresses BY KnownAddresses
<1>2. Balanced(L, Hub) /\ L \in LedgerRec BY <1>1 DEF Inv, LedgerInv
<1>3. q \in SolverRec BY DEF Inv, SolverInv
<1>4. set \in SUBSET Open(L) /\ CanExpire(L, set) BY DEF Due, Appendable
<1> HIDE DEF set, L
<1>5. /\ Balanced(E, Hub) /\ Total(E) + E.escrow = Total(L) + L.escrow /\ E.minted = L.minted
      /\ Open(E) = Open(L) \ set /\ E.escrow = L.escrow - w /\ w \in Nat /\ E.tasks = Cancelled(L, set)
  BY <1>1, <1>2, <1>4, ExpireBalanced
<1>6. E \in LedgerRec BY <1>5 DEF Balanced, Sound
<1>7. R = IF q.order = NoOrder THEN Mint(E, Hub, Len(blocks) + 1, q.reward, HubWallet, HubWallet)
          ELSE PayOrder(E, Hub, q.order, q.miner)
  BY DEF Rewarded, set, L
<1>8. q.reward \in Nat /\ q.miner \in Addresses BY <1>1, <1>3 DEF SolverRec
<1> HIDE DEF E, R, q, w
<1> DEFINE index == Len(blocks) + 1
<1> HIDE DEF index
<1>9. CASE q.order = NoOrder
  <2>1. R = Mint(E, Hub, index, q.reward, HubWallet, HubWallet) BY <1>7, <1>9 DEF index
  <2>2. /\ Balanced(R, Hub) /\ Total(R) + R.escrow + E.minted = Total(E) + E.escrow + R.minted
        /\ R.minted = E.minted + Subsidy(E, index, q.reward) /\ R.escrow = E.escrow
        /\ R.tasks = E.tasks
    <3> DEFINE reward == q.reward
    <3>1. reward \in Nat BY <1>8
    <3>2. R = Mint(E, Hub, index, reward, HubWallet, HubWallet) BY <2>1
    <3> HIDE DEF reward
    <3>3. LET M == Mint(E, Hub, index, reward, HubWallet, HubWallet)
          IN /\ Balanced(M, Hub) /\ Total(M) + M.escrow + E.minted = Total(E) + E.escrow + M.minted
             /\ M.minted = E.minted + Subsidy(E, index, reward) /\ M.escrow = E.escrow
             /\ M.tasks = E.tasks
      BY <1>1, <1>5, <3>1, MintBalanced
    <3> QED BY <3>2, <3>3 DEF reward
  <2>3. Subsidy(E, index, q.reward) = Subsidy(L, index, q.reward) BY <1>5 DEF Subsidy
  <2>4. R.minted = L.minted + Subsidy(L, index, q.reward) BY <1>5, <2>2, <2>3
  <2>5. Total(R) + R.escrow + L.minted = Total(L) + L.escrow + R.minted BY <1>5, <2>2
  <2> QED BY <1>5, <1>9, <2>2, <2>4, <2>5 DEF set, L, w, q, R, index
<1>10. CASE q.order # NoOrder
  <2> DEFINE o == q.order
  <2>1. R = PayOrder(E, Hub, o, q.miner) BY <1>7, <1>10
  <2>2. o \in Open(L) \ set /\ FreshNonce(q) BY <1>10 DEF Appendable, set, L, q
  <2>3. o \in Open(E) /\ o \in Orders BY <1>5, <2>2 DEF Open
  <2>4. E.tasks[o] = L.tasks[o] BY <1>5, <2>2, <2>3 DEF Cancelled
  <2> HIDE DEF o
  <2>5. /\ Balanced(R, Hub) /\ Total(R) + R.escrow = Total(E) + E.escrow
        /\ R.minted = E.minted /\ R.escrow = E.escrow - E.tasks[o].reward
        /\ R.tasks = [E.tasks EXCEPT ![o] = Solved(E.tasks[o])]
    <3> DEFINE miner == q.miner
    <3>1. miner \in Addresses BY <1>8
    <3>2. R = PayOrder(E, Hub, o, miner) BY <2>1
    <3> HIDE DEF miner
    <3>3. LET M == PayOrder(E, Hub, o, miner)
          IN /\ Balanced(M, Hub) /\ Total(M) + M.escrow = Total(E) + E.escrow
             /\ M.minted = E.minted /\ M.escrow = E.escrow - E.tasks[o].reward
             /\ M.tasks = [E.tasks EXCEPT ![o] = Solved(E.tasks[o])]
      BY <1>1, <1>5, <2>3, <3>1, PayBalanced
    <3> QED BY <3>2, <3>3
  <2>6. R.tasks = [Cancelled(L, set) EXCEPT ![o] = Solved(L.tasks[o])] BY <1>5, <2>4, <2>5
  <2>7. R.escrow = L.escrow - w - L.tasks[o].reward BY <1>5, <2>4, <2>5
  <2>8. R.minted = L.minted BY <1>5, <2>5
  <2>9. R \in LedgerRec BY <2>5 DEF Balanced, Sound
  <2>10. Total(R) + R.escrow + L.minted = Total(L) + L.escrow + R.minted
    BY <1>2, <1>5, <2>5, <2>8
  <2> QED BY <1>5, <1>10, <2>2, <2>5, <2>6, <2>7, <2>8, <2>10 DEF set, L, w, q, R, o
<1> QED BY <1>9, <1>10

\* The ledger after a block: a transfer that is included destroys half of its fee.
LEMMA AfterBlockBalanced ==
  ASSUME NEW q, NEW d, d = IF Included(Rewarded(q)) THEN TransferBurn ELSE 0, Balanced(Rewarded(q), Hub)
  PROVE  LET R == Rewarded(q)
             M == AfterBlock(q)
         IN /\ Balanced(M, Hub) /\ d \in Nat /\ Total(M) + d = Total(R)
            /\ M.escrow = R.escrow /\ M.minted = R.minted /\ M.tasks = R.tasks
<1> DEFINE R == Rewarded(q)
           M == AfterBlock(q)
<1>1. M = IF Included(R) THEN Moved(R) ELSE R BY Zenon DEF AfterBlock
<1>2. Balanced(R, Hub) /\ R \in LedgerRec /\ Sound(R, Hub) BY DEF Balanced, Sound
<1>3. Total(R) \in Nat BY <1>2, TotalNat
<1>4. d = IF Included(R) THEN TransferBurn ELSE 0 OBVIOUS
<1> HIDE DEF R, M
<1>5. CASE Included(R)
  <2>1. R.acct[DeskWallet] >= FundUnits + TransferFee BY <1>5 DEF Included
  <2>2. M = Moved(R) BY <1>1, <1>5
  <2>3. /\ Sound(M, Hub) /\ TransferBurn \in Nat /\ Total(M) = Total(R) - TransferBurn
        /\ M.minted = R.minted /\ M.escrow = R.escrow /\ M.tasks = R.tasks
    BY <1>2, <2>1, <2>2, MovedSound
  <2>4. Balanced(M, Hub) BY <1>2, <2>3, OwedSame DEF Balanced
  <2>5. Total(M) + TransferBurn = Total(R) BY <1>3, <2>3
  <2> QED BY <1>4, <1>5, <2>3, <2>4, <2>5 DEF R, M
<1>6. CASE ~Included(R)
  <2>1. M = R BY <1>1, <1>6
  <2>2. d = 0 BY <1>4, <1>6
  <2> QED BY <1>2, <1>3, <2>1, <2>2 DEF R, M
<1> QED BY <1>5, <1>6

\* What AppendPoHBlock makes of the hub's ledger.
LEMMA BlockLedger ==
  ASSUME Inv, NEW s \in Solvers, Appendable(solver[s])
  PROVE  LET q == solver[s]
             L == ledger[Hub]
             M == AfterBlock(q)
             d == IF Included(Rewarded(q)) THEN TransferBurn ELSE 0
         IN /\ Balanced(M, Hub) /\ d \in Nat
            /\ Total(M) + M.escrow + d + L.minted = Total(L) + L.escrow + M.minted
            /\ Owed(L, Due(L)) \in Nat
            /\ q.order = NoOrder =>
                 /\ M.minted = L.minted + Subsidy(L, Len(blocks) + 1, q.reward)
                 /\ M.escrow = L.escrow - Owed(L, Due(L)) /\ M.tasks = Cancelled(L, Due(L))
            /\ q.order # NoOrder =>
                 /\ M.minted = L.minted
                 /\ q.order \in Open(L) \ Due(L) /\ FreshNonce(q)
                 /\ M.escrow = L.escrow - Owed(L, Due(L)) - L.tasks[q.order].reward
                 /\ M.tasks = [Cancelled(L, Due(L)) EXCEPT ![q.order] = Solved(L.tasks[q.order])]
<1> DEFINE q == solver[s]
           L == ledger[Hub]
           R == Rewarded(q)
           M == AfterBlock(q)
           d == IF Included(R) THEN TransferBurn ELSE 0
           w == Owed(L, Due(L))
<1>1. /\ Balanced(R, Hub) /\ Total(R) + R.escrow + L.minted = Total(L) + L.escrow + R.minted
      /\ w \in Nat
      /\ q.order = NoOrder =>
           /\ R.minted = L.minted + Subsidy(L, Len(blocks) + 1, q.reward)
           /\ R.escrow = L.escrow - w /\ R.tasks = Cancelled(L, Due(L))
      /\ q.order # NoOrder =>
           /\ R.minted = L.minted /\ q.order \in Open(L) \ Due(L) /\ FreshNonce(q)
           /\ R.escrow = L.escrow - w - L.tasks[q.order].reward
           /\ R.tasks = [Cancelled(L, Due(L)) EXCEPT ![q.order] = Solved(L.tasks[q.order])]
  BY RewardedBalanced
<1> HIDE DEF q
<1>2. d = IF Included(Rewarded(q)) THEN TransferBurn ELSE 0 OBVIOUS
<1> HIDE DEF d
<1>3. /\ Balanced(M, Hub) /\ d \in Nat /\ Total(M) + d = Total(R)
      /\ M.escrow = R.escrow /\ M.minted = R.minted /\ M.tasks = R.tasks
  BY <1>1, <1>2, AfterBlockBalanced
<1>4. L \in LedgerRec /\ R \in LedgerRec /\ M \in LedgerRec
  BY <1>1, <1>3, KnownAddresses DEF Inv, LedgerInv, Balanced, Sound
<1>5. /\ Total(L) \in Nat /\ Total(R) \in Nat /\ Total(M) \in Nat
      /\ L.escrow \in Nat /\ L.minted \in Nat /\ R.escrow \in Nat /\ R.minted \in Nat
  BY <1>4, TotalNat DEF LedgerRec
<1> HIDE DEF R, M, L, w
<1>6. Total(M) + M.escrow + d + L.minted = Total(L) + L.escrow + M.minted
  <2> DEFINE x == Total(L)
             y == Total(M)
             z == Total(R)
             e == L.escrow
             f == R.escrow
             m == L.minted
             k == R.minted
  <2>1. /\ x \in Nat /\ y \in Nat /\ z \in Nat /\ e \in Nat /\ f \in Nat /\ m \in Nat /\ k \in Nat
        /\ y + d = z /\ z + f + m = x + e + k /\ M.escrow = f /\ M.minted = k
    BY <1>1, <1>3, <1>5
  <2> HIDE DEF x, y, z, e, f, m, k
  <2>2. y + f + d + m = x + e + k BY <1>3, <2>1
  <2> QED BY <2>1, <2>2 DEF x, y, e, m
<1> QED BY <1>1, <1>3, <1>6 DEF L, M, R, d, w, q

\* AppendPoHBlock.
LEMMA AppendStep ==
  ASSUME Inv, NEW s \in Solvers, AppendPoHBlock(s)
  PROVE  Inv'
<1> DEFINE q == solver[s]
           L == ledger[Hub]
           M == AfterBlock(q)
           d == IF Included(Rewarded(q)) THEN TransferBurn ELSE 0
           b == [order |-> q.order, to |-> HubWallet, minted |-> M.minted]
<1>1. /\ q.pc = "append" /\ Appendable(q) /\ OnTip(q)
      /\ blocks' = Append(blocks, b) /\ ledger' = [ledger EXCEPT ![Hub] = M]
      /\ found' = IF q.order = NoOrder THEN found ELSE found \cup {<<q.order, q.nonce>>}
      /\ transfer' = [t \in Funds |-> IF t \notin Pending THEN transfer[t]
                                      ELSE IF Included(Rewarded(q)) THEN "included" ELSE "rejected"]
      /\ destroyed' = [destroyed EXCEPT ![Hub] = destroyed[Hub] + d]
      /\ solver' = [solver EXCEPT ![s] = Resting]
      /\ UNCHANGED <<synced, credited, funded>>
  BY Zenon DEF AppendPoHBlock, Appendable
<1>2. /\ Balanced(M, Hub) /\ d \in Nat
      /\ Total(M) + M.escrow + d + L.minted = Total(L) + L.escrow + M.minted
  BY <1>1, BlockLedger
<1>3. q \in SolverRec /\ q.tip < MaxHeight /\ q.tip = Len(blocks) /\ (q.order # NoOrder => q.nonce \in Nonces)
  BY <1>1 DEF Inv, SolverInv, OnTip
<1>4. Hub \in Nodes BY KnownAddresses
<1>5. M.minted \in Nat BY <1>2 DEF Balanced, Sound, LedgerRec
<1> HIDE DEF d, M
<1>6. /\ LedgerInv' /\ ConserveInv' /\ destroyed' \in [Nodes -> Nat] /\ funded' \in [Nodes -> Nat]
  <2>1. funded' = [funded EXCEPT ![Hub] = funded[Hub] + 0]
    BY <1>1, <1>4 DEF Inv, ChainType
  <2>2. L \in LedgerRec /\ M \in LedgerRec BY <1>2, <1>4 DEF Inv, LedgerInv, Balanced, Sound
  <2>3. Total(M) + M.escrow + d + L.minted = Total(L) + L.escrow + M.minted + 0
    BY <1>2, <2>2, TotalNat DEF LedgerRec
  <2>4. 0 \in Nat OBVIOUS
  <2> QED BY <1>1, <1>2, <1>4, <2>1, <2>3, <2>4, ConserveStep
<1>7. b \in BlockRec BY <1>3, <1>5 DEF BlockRec, SolverRec
<1>8. /\ blocks' \in Seq(BlockRec) /\ synced' \in 0..Len(blocks') /\ Len(blocks') <= MaxHeight
  <2>1. blocks \in Seq(BlockRec) /\ synced \in 0..Len(blocks) /\ MaxHeight \in Nat
    BY ChainAssumption DEF Inv, ChainType
  <2> HIDE DEF b
  <2>2. blocks' \in Seq(BlockRec) /\ Len(blocks') = Len(blocks) + 1 BY <1>1, <1>7, <2>1
  <2>3. Len(blocks) < MaxHeight BY <1>3
  <2> QED BY <1>1, <2>1, <2>2, <2>3
<1>9. found' \subseteq HubOrders \X Nonces BY <1>1, <1>3 DEF Inv, ChainType, SolverRec
<1>10. transfer' \in [Funds -> {"none", "pending", "included", "rejected"}] BY <1>1 DEF Inv, ChainType
<1>11. SolverInv'
  <2>1. Resting \in SolverRec /\ Resting.pc = "idle" /\ Resting.order = NoOrder
    BY DEF Resting, SolverRec
  <2> QED BY <1>1, <2>1 DEF Inv, SolverInv
<1> QED BY <1>1, <1>6, <1>8, <1>9, <1>10, <1>11 DEF Inv, ChainType

\* The reads of a solve, and one that comes too late.
LEMMA SolverStep ==
  ASSUME Inv, NEW s \in Solvers,
         \/ ReadTip(s, NoOrder, NoNonce, HubWallet)
         \/ \E o \in HubOrders, nonce \in Nonces, miner \in Miners : ReadTip(s, o, nonce, miner)
         \/ ReadReward(s) \/ Refused(s)
  PROVE  Inv'
<1>1. Resting \in SolverRec /\ Resting.pc = "idle" /\ Resting.order = NoOrder
  BY DEF Resting, SolverRec
<1>2. solver \in [Solvers -> SolverRec] BY DEF Inv, SolverInv
<1>3. ASSUME NEW q \in SolverRec, solver' = [solver EXCEPT ![s] = q],
             q.pc # "idle" => q.tip < MaxHeight, q.order # NoOrder => q.nonce \in Nonces,
             UNCHANGED <<blocks, synced, ledger, found, transfer, credited, destroyed, funded>>
      PROVE  Inv'
  BY <1>2, <1>3 DEF Inv, LedgerInv, ChainType, SolverInv, ConserveInv
<1>4. ASSUME NEW o \in HubOrders \cup {NoOrder}, NEW nonce \in Nonces \cup {NoNonce},
             NEW miner \in Miners \cup {HubWallet}, o # NoOrder => nonce \in Nonces,
             ReadTip(s, o, nonce, miner)
      PROVE  Inv'
  <2> DEFINE q == [Resting EXCEPT !.pc = "reward", !.tip = Len(blocks), !.order = o,
                                  !.nonce = nonce, !.miner = miner]
  <2>1. Len(blocks) \in Nat /\ Len(blocks) < MaxHeight
    <3>1. blocks \in Seq(BlockRec) BY DEF Inv, ChainType
    <3>2. Len(blocks) < MaxHeight BY <1>4 DEF ReadTip
    <3> QED BY <3>1, <3>2
  <2>2. q \in SolverRec /\ q.tip = Len(blocks) /\ q.order = o /\ q.nonce = nonce
    BY <2>1 DEF Resting, SolverRec
  <2>3. /\ solver' = [solver EXCEPT ![s] = q]
        /\ UNCHANGED <<blocks, synced, ledger, found, transfer, credited, destroyed, funded>>
    BY <1>4, Zenon DEF ReadTip
  <2> HIDE DEF q
  <2> QED BY <1>3, <1>4, <2>1, <2>2, <2>3
<1>5. CASE ReadTip(s, NoOrder, NoNonce, HubWallet) BY <1>4, <1>5
<1>6. CASE \E o \in HubOrders, nonce \in Nonces, miner \in Miners : ReadTip(s, o, nonce, miner)
  BY <1>4, <1>6
<1>7. CASE ReadReward(s)
  <2> DEFINE q == solver[s]
             task == ledger[Hub].tasks[q.order]
             a == [q EXCEPT !.pc = "append", !.reward = Reward(Len(blocks) + 1)]
             c == [q EXCEPT !.pc = "append", !.reward = task.reward]
             r == CASE q.order = NoOrder -> a
                    [] q.order # NoOrder /\ task.status = "open" /\ ~task.due -> c
                    [] OTHER -> Resting
  <2>1. /\ q.pc = "reward" /\ solver' = [solver EXCEPT ![s] = r]
        /\ UNCHANGED <<blocks, synced, ledger, found, transfer, credited, destroyed, funded>>
    BY <1>7, Zenon DEF ReadReward
  <2>2. q \in SolverRec /\ q.tip < MaxHeight /\ (q.order # NoOrder => q.nonce \in Nonces)
    BY <2>1 DEF Inv, SolverInv
  <2>3. Reward(Len(blocks) + 1) \in Nat BY ChainAssumption DEF Reward
  <2>4. q.order # NoOrder => task.reward \in Nat
    <3>1. ledger[Hub].tasks \in [Orders -> TaskRec] BY KnownAddresses DEF Inv, LedgerInv, LedgerRec
    <3>2. q.order # NoOrder => q.order \in Orders BY <2>2 DEF SolverRec, Orders
    <3> QED BY <3>1, <3>2 DEF TaskRec
  <2>5. a \in SolverRec /\ a.tip = q.tip /\ a.order = q.order /\ a.nonce = q.nonce
    <3> HIDE DEF q
    <3> QED BY <2>2, <2>3 DEF SolverRec
  <2>6. q.order # NoOrder => c \in SolverRec /\ c.tip = q.tip /\ c.order = q.order /\ c.nonce = q.nonce
    <3> HIDE DEF q
    <3> QED BY <2>2, <2>4 DEF SolverRec
  <2>7. \/ q.order = NoOrder /\ r = a
        \/ q.order # NoOrder /\ r = c
        \/ r = Resting
    <3> HIDE DEF a, c
    <3> QED OBVIOUS
  <2> HIDE DEF a, c
  <2>8. r \in SolverRec /\ (r.pc # "idle" => r.tip < MaxHeight) /\ (r.order # NoOrder => r.nonce \in Nonces)
    <3> HIDE DEF r
    <3> QED BY <1>1, <2>2, <2>5, <2>6, <2>7
  <2> HIDE DEF r
  <2> QED BY <1>3, <2>1, <2>8
<1>8. CASE Refused(s) BY <1>1, <1>3, <1>8 DEF Refused
<1> QED BY <1>5, <1>6, <1>7, <1>8

\* ImportPoHBlock, for either choice of the orders that expire.
LEMMA ImportLedger ==
  ASSUME Inv, NEW L, L = ledger[Desk], NEW set \in {{}, Due(L)}, CanExpire(L, set),
         NEW index, NEW to \in Addresses, NEW supTo \in Addresses
  PROVE  LET M == Mint(Expire(L, Desk, set), Desk, index, Reward(index), to, supTo)
         IN /\ Balanced(M, Desk) /\ Total(M) + M.escrow + L.minted = Total(L) + L.escrow + M.minted
            /\ M.minted = L.minted + Subsidy(L, index, Reward(index))
<1> DEFINE E == Expire(L, Desk, set)
           r == Reward(index)
           M == Mint(E, Desk, index, r, to, supTo)
<1>1. Desk \in Nodes BY KnownAddresses
<1>2. Balanced(L, Desk) /\ set \in SUBSET Open(L) BY <1>1 DEF Inv, LedgerInv, Due
<1>3. /\ Balanced(E, Desk) /\ Total(E) + E.escrow = Total(L) + L.escrow /\ E.minted = L.minted
  BY <1>1, <1>2, ExpireBalanced
<1>4. r \in Nat BY ChainAssumption DEF Reward
<1> HIDE DEF E, r
<1>5. /\ Balanced(M, Desk) /\ Total(M) + M.escrow + E.minted = Total(E) + E.escrow + M.minted
      /\ M.minted = E.minted + Subsidy(E, index, r)
  BY <1>1, <1>3, <1>4, MintBalanced
<1>6. Subsidy(E, index, r) = Subsidy(L, index, r) BY <1>3 DEF Subsidy
<1> HIDE DEF M
<1>7. /\ Total(M) + M.escrow + L.minted = Total(L) + L.escrow + M.minted
      /\ M.minted = L.minted + Subsidy(L, index, r)
  BY <1>3, <1>5, <1>6
<1> QED BY <1>5, <1>7 DEF M, E, r

\* ImportPoHBlock.
LEMMA ImportStep ==
  ASSUME Inv, ImportPoHBlock
  PROVE  /\ Inv' /\ synced < Len(blocks) /\ synced' = synced + 1 /\ blocks[synced + 1].order = NoOrder
         /\ \E M : /\ ledger' = [ledger EXCEPT ![Desk] = M]
                   /\ M.minted = ledger[Desk].minted + Subsidy(ledger[Desk], synced + 1, Reward(synced + 1))
         /\ UNCHANGED <<blocks, found, solver, transfer, credited, destroyed, funded>>
<1> DEFINE b == blocks[synced + 1]
           L == ledger[Desk]
           index == synced + 1
           to == IF V2(index) THEN b.to ELSE DeskWallet
<1>1. PICK set \in {{}, Due(L)} :
        /\ CanExpire(L, set)
        /\ ledger' = [ledger EXCEPT ![Desk] = Mint(Expire(L, Desk, set), Desk, index, Reward(index), to, b.to)]
  BY Zenon DEF ImportPoHBlock
<1>2. /\ synced < Len(blocks) /\ b.order = NoOrder /\ synced' = synced + 1
      /\ UNCHANGED <<blocks, found, solver, transfer, credited, destroyed, funded>>
  BY Zenon DEF ImportPoHBlock
<1>3. blocks \in Seq(BlockRec) /\ synced \in Nat BY DEF Inv, ChainType
<1>4. synced + 1 \in 1..Len(blocks) BY <1>2, <1>3
<1>5. b \in BlockRec BY <1>3, <1>4
<1>6. b.to \in Addresses /\ to \in Addresses BY <1>5, KnownAddresses DEF BlockRec
<1> DEFINE M == Mint(Expire(L, Desk, set), Desk, index, Reward(index), to, b.to)
<1>7. /\ Balanced(M, Desk) /\ Total(M) + M.escrow + L.minted = Total(L) + L.escrow + M.minted
      /\ M.minted = L.minted + Subsidy(L, index, Reward(index))
  <2> DEFINE supTo == b.to
             K == L
  <2>1. supTo \in Addresses /\ K = ledger[Desk] /\ CanExpire(K, set) /\ set \in {{}, Due(K)}
    BY <1>1, <1>6
  <2> HIDE DEF supTo, to, index, K
  <2>2. LET N == Mint(Expire(K, Desk, set), Desk, index, Reward(index), to, supTo)
        IN /\ Balanced(N, Desk) /\ Total(N) + N.escrow + K.minted = Total(K) + K.escrow + N.minted
           /\ N.minted = K.minted + Subsidy(K, index, Reward(index))
    BY <1>6, <2>1, ImportLedger
  <2> QED BY <2>2 DEF supTo, K
<1>8. Desk \in Nodes BY KnownAddresses
<1> HIDE DEF M
<1>9. ledger' = [ledger EXCEPT ![Desk] = M] BY <1>1 DEF M
<1>10. LedgerInv' /\ ConserveInv' /\ destroyed' \in [Nodes -> Nat] /\ funded' \in [Nodes -> Nat]
  BY <1>2, <1>7, <1>8, <1>9, ConserveQuiet
<1>11. Inv'
  <2>1. synced' \in 0..Len(blocks') BY <1>2, <1>3
  <2> QED BY <1>2, <1>10, <2>1 DEF Inv, ChainType, SolverInv
<1> QED BY <1>2, <1>7, <1>9, <1>11

----------------------------------------------------------------------------
(* The specification.                                                       *)

Units(n) == [a \in Addresses |-> CASE n = Hub /\ a = HubWallet -> Genesis
                                   [] n = Hub /\ a = DeskWallet -> Deposit
                                   [] OTHER -> 0]
Start(n) == [acct |-> Units(n), row |-> Units(n)[Wallet(n)], sup |-> [a \in Addresses |-> 0],
             escrow |-> 0, tasks |-> [o \in Orders |-> NoTask],
             minted |-> Genesis + Deposit, burned |-> 0, supMinted |-> 0]

\* The first ledger of a node holds its units, and owes nothing.
LEMMA StartBalanced ==
  ASSUME NEW n \in Nodes
  PROVE  /\ Balanced(Start(n), n) /\ Total(Start(n)) + Opening(n) = Genesis + Deposit
         /\ Start(n).escrow = 0 /\ Start(n).minted = Genesis + Deposit
         /\ Start(n).tasks = [o \in Orders |-> NoTask]
<1> DEFINE L == Start(n)
           u == Units(n)
           tasks == [o \in Orders |-> NoTask]
           sup == [a \in Addresses |-> 0]
<1>1. Genesis \in Nat /\ Deposit \in Nat /\ IsFiniteSet(Addresses) /\ HubWallet # DeskWallet
  BY ChainAssumption
<1>2. Wallet(n) \in Addresses /\ Hub # Desk /\ n \in {Hub, Desk} BY KnownAddresses DEF Wallet, Nodes
<1>3. u \in [Addresses -> Nat] BY <1>1 DEF Units
<1>4. TaskOK(NoTask) /\ NoTask \in TaskRec /\ NoTask.status = "none"
  BY DEF NoTask, TaskOK, TaskRec, Statuses
<1>5. tasks \in [Orders -> TaskRec] /\ \A o \in Orders : tasks[o] = NoTask BY <1>4
<1>6. sup \in [Addresses -> Nat] OBVIOUS
<1>7. u[Wallet(n)] \in Nat BY <1>2, <1>3
<1> HIDE DEF u, tasks, sup
<1>8. L = [acct |-> u, row |-> u[Wallet(n)], sup |-> sup, escrow |-> 0, tasks |-> tasks,
           minted |-> Genesis + Deposit, burned |-> 0, supMinted |-> 0]
  BY Zenon DEF Start, u, tasks, sup
<1> HIDE DEF L
<1>9. /\ L \in LedgerRec /\ L.acct = u /\ L.row = u[Wallet(n)] /\ L.escrow = 0 /\ L.tasks = tasks
      /\ L.minted = Genesis + Deposit
  BY <1>1, <1>3, <1>5, <1>6, <1>7, <1>8 DEF LedgerRec
<1>10. Sound(L, n) BY <1>4, <1>5, <1>9 DEF Sound
<1>11. Open(L) = {} BY <1>4, <1>5, <1>9 DEF Open
<1>12. Owed(L, Open(L)) = 0 BY <1>11, SumEmpty DEF Owed
<1>13. Balanced(L, n) BY <1>9, <1>10, <1>12 DEF Balanced
<1>14. Total(L) + Opening(n) = Genesis + Deposit
  <2>1. CASE n = Desk
    <3>1. \A a \in Addresses : u[a] = 0 BY <1>2, <2>1 DEF u, Units
    <3>2. Total(L) = 0 BY <1>1, <1>9, <3>1, SumZero DEF Total
    <3> QED BY <1>1, <2>1, <3>2 DEF Opening
  <2>2. CASE n = Hub
    <3> DEFINE S == Addresses \ {HubWallet}
               T == S \ {DeskWallet}
    <3>1. /\ u[HubWallet] = Genesis /\ u[DeskWallet] = Deposit /\ \A a \in T : u[a] = 0
      BY <1>1, <2>2, KnownAddresses DEF u, Units
    <3>2. /\ IsFiniteSet(S) /\ IsFiniteSet(T) /\ HubWallet \in Addresses /\ DeskWallet \in S
          /\ \A a \in S : u[a] \in Nat
      BY <1>1, <1>3, KnownAddresses, FS_RemoveElement
    <3>3. SumFunctionOnSet(u, Addresses) = u[HubWallet] + SumFunctionOnSet(u, S)
      BY <1>1, <1>3, <3>2, SumRemove
    <3>4. SumFunctionOnSet(u, S) = u[DeskWallet] + SumFunctionOnSet(u, T) BY <3>2, SumRemove
    <3>5. SumFunctionOnSet(u, T) = 0 BY <3>1, <3>2, SumZero
    <3>6. Total(L) = Genesis + (Deposit + 0) BY <1>9, <3>1, <3>3, <3>4, <3>5 DEF Total
    <3>7. Opening(n) = 0 BY <1>2, <2>2 DEF Opening
    <3> QED BY <1>1, <3>6, <3>7
  <2> QED BY <1>2, <2>1, <2>2
<1> QED BY <1>9, <1>13, <1>14 DEF L, tasks

\* The invariant holds at the start.
LEMMA InitInv ==
  ASSUME Init
  PROVE  /\ Inv /\ blocks = <<>> /\ synced = 0 /\ ledger = [n \in Nodes |-> Start(n)]
         /\ found = {} /\ credited = {} /\ funded = [n \in Nodes |-> 0]
         /\ solver = [s \in Solvers |-> Resting]
<1>1. /\ blocks = <<>> /\ synced = 0 /\ ledger = [n \in Nodes |-> Start(n)]
      /\ found = {} /\ solver = [s \in Solvers |-> Resting]
      /\ transfer = [t \in Funds |-> "none"] /\ credited = {}
      /\ destroyed = [n \in Nodes |-> 0] /\ funded = [n \in Nodes |-> 0]
  BY Zenon DEF Init, Start, Units
<1>2. \A n \in Nodes : ledger[n] = Start(n) BY <1>1
<1>3. LedgerInv BY <1>1, <1>2, StartBalanced DEF LedgerInv, Balanced, Sound
<1>4. ChainType
  <2>1. blocks \in Seq(BlockRec) /\ Len(blocks) = 0 BY <1>1
  <2>2. MaxHeight \in Nat BY ChainAssumption
  <2> QED BY <1>1, <2>1, <2>2 DEF ChainType
<1>5. SolverInv
  <2>1. Resting \in SolverRec /\ Resting.pc = "idle" /\ Resting.order = NoOrder
    BY DEF Resting, SolverRec
  <2> QED BY <1>1, <2>1 DEF SolverInv
<1>6. ConserveInv
  <2> SUFFICES ASSUME NEW n \in Nodes
               PROVE  Total(ledger[n]) + ledger[n].escrow + destroyed[n] + Opening(n)
                        = ledger[n].minted + funded[n]
    BY DEF ConserveInv
  <2> DEFINE t == Total(Start(n))
             p == Opening(n)
             g == Genesis + Deposit
  <2>1. t + p = g /\ t \in Nat /\ p \in Nat /\ g \in Nat
    BY StartBalanced, TotalNat, ChainAssumption DEF Balanced, Sound, Opening
  <2>2. ledger[n].escrow = 0 /\ ledger[n].minted = g /\ destroyed[n] = 0 /\ funded[n] = 0
    BY <1>1, <1>2, StartBalanced
  <2>3. Total(ledger[n]) = t BY <1>2
  <2> HIDE DEF t, p, g
  <2>4. t + 0 + 0 + p = g + 0 BY <2>1
  <2> QED BY <2>2, <2>3, <2>4 DEF p
<1> QED BY <1>1, <1>3, <1>4, <1>5, <1>6 DEF Inv

\* Every step keeps the invariant.
LEMMA NextInv ==
  ASSUME Inv, [Next]_vars
  PROVE  Inv'
<1>1. ASSUME NEW n \in Nodes, ExpireOpenOrderTasks(n) PROVE Inv' BY <1>1, ExpireStep
<1>2. ASSUME NEW n \in Nodes, NEW o \in Orders, Pass(n, o) PROVE Inv' BY <1>2, PassStep
<1>3. ASSUME NEW n \in Nodes, NEW o \in Orders, NEW reward \in Rewards, NEW target \in Targets,
             NEW asset \in {"HMC", "SUP"}, PostOrder(n, o, reward, target, asset)
      PROVE  Inv'
  BY <1>3, PostStep
<1>4. ASSUME NEW s \in Solvers, Solving(s) PROVE Inv'
  BY <1>4, AppendStep, SolverStep DEF Solving
<1>5. ASSUME NEW t \in Funds, SendFund(t) PROVE Inv' BY <1>5, SendStep
<1>6. ASSUME NEW t \in Funds, CreditOrdersFund(t) PROVE Inv' BY <1>6, FundStep
<1>7. ASSUME ImportPoHBlock PROVE Inv' BY <1>7, ImportStep
<1>8. CASE UNCHANGED vars
  BY <1>8 DEF vars, Inv, LedgerInv, ChainType, SolverInv, ConserveInv
<1> QED BY <1>1, <1>2, <1>3, <1>4, <1>5, <1>6, <1>7, <1>8 DEF Next

\* The invariant of the two ledgers holds always.
THEOREM LedgersInductive == Spec => []Inv
<1>1. Init => Inv BY InitInv
<1>2. Inv /\ [Next]_vars => Inv' BY NextInv
<1> QED BY <1>1, <1>2, PTL DEF Spec

\* TypeOK: no unsigned balance or counter of a node goes below zero, although
\* orders, solves, expiry, transfers and imports take units from it.
THEOREM TypeCorrect == Spec => []TypeOK
<1>1. Inv => TypeOK
  <2> SUFFICES ASSUME Inv PROVE TypeOK OBVIOUS
  <2>1. ASSUME NEW n \in Nodes
        PROVE  LET L == ledger[n]
               IN /\ L.acct \in [Addresses -> Nat] /\ L.sup \in [Addresses -> Nat]
                  /\ {L.row, L.escrow, L.minted, L.burned, L.supMinted} \subseteq Nat
                  /\ \A o \in Orders : L.tasks[o].status \in Statuses /\ L.tasks[o].progress <= L.tasks[o].target
    BY DEF Inv, LedgerInv, Balanced, Sound, LedgerRec, TaskOK, TaskRec
  <2> QED BY <2>1 DEF TypeOK, Inv, ChainType
<1> QED BY <1>1, LedgersInductive, PTL

\* RowIsAccount: the wallet row, which gates new orders, is the wallet's account.
THEOREM RowHolds == Spec => []RowIsAccount
<1>1. Inv => RowIsAccount BY DEF Inv, LedgerInv, Balanced, Sound, RowIsAccount
<1> QED BY <1>1, LedgersInductive, PTL

\* EscrowExact: the escrow counter is what the open orders still owe.
THEOREM EscrowHolds == Spec => []EscrowExact
<1>1. Inv => EscrowExact
  <2> SUFFICES ASSUME Inv, NEW n \in Nodes
               PROVE  ledger[n].escrow = RestOf(ledger[n], Open(ledger[n]))
    BY DEF EscrowExact
  <2> DEFINE L == ledger[n]
  <2>1. Balanced(L, n) /\ Open(L) \in SUBSET Orders BY DEF Inv, LedgerInv, Open
  <2> HIDE DEF L
  <2>2. RestOf(L, Open(L)) = Owed(L, Open(L)) BY <2>1, RestIsOwed DEF Balanced
  <2>3. L.escrow = RestOf(L, Open(L)) BY <2>1, <2>2 DEF Balanced
  <2> QED BY <2>3 DEF L
<1> QED BY <1>1, LedgersInductive, PTL

\* UnitsConserved: no step of a node makes or loses a unit other than by the
\* subsidy, the funding and what is burned.
THEOREM UnitsHold == Spec => []UnitsConserved
<1>1. Inv => UnitsConserved
  <2> SUFFICES ASSUME Inv, NEW n \in Nodes
               PROVE  SumFunction(ledger[n].acct) + ledger[n].escrow + destroyed[n] + Opening(n)
                        = ledger[n].minted + funded[n]
    BY DEF UnitsConserved
  <2>1. ledger[n].acct \in [Addresses -> Nat] BY DEF Inv, LedgerInv, LedgerRec
  <2>2. DOMAIN ledger[n].acct = Addresses BY <2>1
  <2>3. SumFunction(ledger[n].acct) = Total(ledger[n]) BY <2>2 DEF SumFunction, Total
  <2> QED BY <2>3 DEF Inv, ConserveInv
<1> QED BY <1>1, LedgersInductive, PTL

----------------------------------------------------------------------------
(* The funding of the desktop.                                              *)

FundedTransfers == {t \in Funds : transfer[t] = "included"}
FundInv ==
  /\ credited \subseteq FundedTransfers
  /\ funded[Desk] = FundUnits * Cardinality(credited)

\* A set of transfers is finite, and has as many members as a natural says.
LEMMA FundsFinite ==
  ASSUME NEW S \in SUBSET Funds
  PROVE  IsFiniteSet(S) /\ Cardinality(S) \in Nat
  BY ChainAssumption, FS_Subset, FS_CardinalityType

\* Every step keeps the funding exact.
LEMMA NextFund ==
  ASSUME Inv, FundInv, [Next]_vars
  PROVE  FundInv'
<1>1. ASSUME UNCHANGED <<credited, funded>>, FundedTransfers \subseteq FundedTransfers'
      PROVE  FundInv'
  BY <1>1 DEF FundInv
<1>2. ASSUME UNCHANGED <<transfer, credited, funded>> PROVE FundInv'
  <2>1. FundedTransfers' = FundedTransfers BY <1>2 DEF FundedTransfers
  <2> QED BY <1>1, <1>2, <2>1
<1>3. ASSUME NEW n \in Nodes, ExpireOpenOrderTasks(n) PROVE FundInv'
  BY <1>2, <1>3 DEF ExpireOpenOrderTasks
<1>4. ASSUME NEW n \in Nodes, NEW o \in Orders, Pass(n, o) PROVE FundInv' BY <1>2, <1>4 DEF Pass
<1>5. ASSUME NEW n \in Nodes, NEW o \in Orders, NEW reward \in Rewards, NEW target \in Targets,
             NEW asset \in {"HMC", "SUP"}, PostOrder(n, o, reward, target, asset)
      PROVE  FundInv'
  BY <1>2, <1>5, PostStep
<1>6. ASSUME NEW s \in Solvers, Solving(s) PROVE FundInv'
  <2>1. CASE AppendPoHBlock(s)
    <3>1. /\ UNCHANGED <<credited, funded>>
          /\ transfer' = [t \in Funds |-> IF t \notin Pending THEN transfer[t]
                          ELSE IF Included(Rewarded(solver[s])) THEN "included" ELSE "rejected"]
      BY <2>1, Zenon DEF AppendPoHBlock
    <3>2. FundedTransfers \subseteq FundedTransfers'
      BY <3>1 DEF FundedTransfers, Pending
    <3> QED BY <1>1, <3>1, <3>2
  <2>2. CASE ~AppendPoHBlock(s)
    <3>1. UNCHANGED <<transfer, credited, funded>>
      BY <1>6, <2>2 DEF Solving, ReadTip, ReadReward, Refused
    <3> QED BY <1>2, <3>1
  <2> QED BY <2>1, <2>2
<1>7. ASSUME NEW t \in Funds, SendFund(t) PROVE FundInv'
  <2>1. FundedTransfers \subseteq FundedTransfers'
    BY <1>7 DEF SendFund, FundedTransfers, Inv, ChainType
  <2> QED BY <1>1, <1>7, <2>1 DEF SendFund
<1>8. ASSUME NEW t \in Funds, CreditOrdersFund(t) PROVE FundInv'
  <2>1. /\ t \in FundedTransfers /\ t \notin credited /\ credited' = credited \cup {t}
        /\ funded' = [funded EXCEPT ![Desk] = funded[Desk] + FundUnits] /\ transfer' = transfer
    BY <1>8, Zenon DEF CreditOrdersFund, Uncredited, FundedTransfers
  <2> DEFINE c == Cardinality(credited)
  <2>2. credited \in SUBSET Funds BY DEF Inv, ChainType
  <2>3. IsFiniteSet(credited) /\ c \in Nat BY <2>2, FundsFinite
  <2>4. Cardinality(credited \cup {t}) = c + 1 BY <2>1, <2>3, FS_AddElement
  <2>5. funded'[Desk] = funded[Desk] + FundUnits BY <2>1, KnownAddresses DEF Inv, ChainType
  <2>6. FundUnits \in Nat BY ChainAssumption
  <2> HIDE DEF c
  <2>7. FundUnits * (c + 1) = FundUnits * c + FundUnits BY <2>3, <2>6
  <2>8. funded'[Desk] = FundUnits * Cardinality(credited') BY <2>1, <2>4, <2>5, <2>7 DEF FundInv, c
  <2>9. FundedTransfers' = FundedTransfers BY <2>1 DEF FundedTransfers
  <2>10. credited' \subseteq FundedTransfers' BY <2>1, <2>9 DEF FundInv
  <2> QED BY <2>8, <2>10 DEF FundInv
<1>9. ASSUME ImportPoHBlock PROVE FundInv' BY <1>2, <1>9, ImportStep
<1>10. CASE UNCHANGED vars BY <1>2, <1>10 DEF vars
<1> QED BY <1>3, <1>4, <1>5, <1>6, <1>7, <1>8, <1>9, <1>10 DEF Next

\* FundingIsBacked: the desktop is credited no more than the included transfers
\* paid for, however often CreditOrdersFund is called for one of them.
THEOREM FundingHolds == Spec => []FundingIsBacked
<1>1. Init => FundInv
  <2> SUFFICES ASSUME Init PROVE FundInv OBVIOUS
  <2>1. credited = {} /\ funded[Desk] = 0 BY InitInv, KnownAddresses
  <2>2. Cardinality({}) = 0 BY FS_EmptySet
  <2>3. FundUnits * 0 = 0 BY ChainAssumption
  <2> QED BY <2>1, <2>2, <2>3 DEF FundInv
<1>2. Inv /\ FundInv /\ [Next]_vars => FundInv' BY NextFund
<1>3. Inv /\ FundInv => FundingIsBacked
  <2> SUFFICES ASSUME FundInv PROVE FundingIsBacked OBVIOUS
  <2> DEFINE a == Cardinality(credited)
             b == Cardinality(FundedTransfers)
  <2>1. FundedTransfers \in SUBSET Funds BY DEF FundedTransfers
  <2>2. IsFiniteSet(FundedTransfers) /\ b \in Nat BY <2>1, FundsFinite
  <2>3. a \in Nat /\ a <= b BY <2>2, FS_Subset, FS_CardinalityType DEF FundInv
  <2>4. FundUnits \in Nat BY ChainAssumption
  <2> HIDE DEF a, b
  <2>5. b - a \in Nat /\ FundUnits * (b - a) \in Nat /\ FundUnits * b = FundUnits * a + FundUnits * (b - a)
    BY <2>2, <2>3, <2>4
  <2>6. FundUnits * a <= FundUnits * b BY <2>2, <2>3, <2>4, <2>5
  <2> QED BY <2>6 DEF FundInv, FundingIsBacked, FundedTransfers, a, b
<1> QED BY <1>1, <1>2, <1>3, LedgersInductive, PTL DEF Spec

----------------------------------------------------------------------------
(* The follower.                                                            *)

MintedAt(chain, i) == IF i = 0 THEN Genesis + Deposit ELSE chain[i].minted

\* What the schedule mints on top of m units at a height.
Scheduled(m, i) == IF V2(i) THEN Reward(i) ELSE Lesser(Reward(i), Above(MaxSupply, m))

\* The blocks carry the schedule, and so does a solve that is still on the tip.
FollowInv ==
  /\ \A i \in 1..Len(blocks) :
       blocks[i].order = NoOrder => MintedAt(blocks, i) = MintedAt(blocks, i - 1) + Scheduled(MintedAt(blocks, i - 1), i)
  /\ ledger[Hub].minted = MintedAt(blocks, Len(blocks))
  /\ ledger[Desk].minted = MintedAt(blocks, synced)
  /\ \A s \in Solvers :
       /\ solver[s].pc # "idle" => solver[s].tip <= Len(blocks)
       /\ solver[s].pc = "append" /\ solver[s].order = NoOrder /\ solver[s].tip = Len(blocks) =>
            solver[s].reward = Reward(Len(blocks) + 1)

\* A block on the hub.
LEMMA AppendFollow ==
  ASSUME Inv, FollowInv, NEW s \in Solvers, AppendPoHBlock(s)
  PROVE  FollowInv'
<1> DEFINE q == solver[s]
           L == ledger[Hub]
           M == AfterBlock(q)
           h == Len(blocks)
           b == [order |-> q.order, to |-> HubWallet, minted |-> M.minted]
<1>1. /\ q.pc = "append" /\ Appendable(q) /\ q.tip = h
      /\ blocks' = Append(blocks, b) /\ ledger' = [ledger EXCEPT ![Hub] = M]
      /\ solver' = [solver EXCEPT ![s] = Resting] /\ UNCHANGED synced
  BY Zenon DEF AppendPoHBlock, Appendable, OnTip
<1>2. /\ blocks \in Seq(BlockRec) /\ synced \in 0..h /\ ledger \in [Nodes -> LedgerRec]
      /\ solver \in [Solvers -> SolverRec]
  BY DEF Inv, ChainType, LedgerInv, SolverInv
<1>3. q.order = NoOrder => M.minted = L.minted + Subsidy(L, h + 1, q.reward)
  BY <1>1, BlockLedger
<1>4. q.order = NoOrder => q.reward = Reward(h + 1) BY <1>1 DEF FollowInv
<1>5. q.order = NoOrder => M.minted = MintedAt(blocks, h) + Scheduled(MintedAt(blocks, h), h + 1)
  BY <1>3, <1>4 DEF Subsidy, Scheduled, FollowInv
<1> HIDE DEF M
<1>6. b.order = q.order /\ b.minted = M.minted OBVIOUS
<1> HIDE DEF b
<1>7. /\ Len(blocks') = h + 1 /\ h \in Nat /\ blocks'[h + 1] = b
      /\ \A i \in 1..h : blocks'[i] = blocks[i]
  BY <1>1, <1>2
<1>8. MintedAt(blocks', h + 1) = M.minted /\ \A i \in 0..h : MintedAt(blocks', i) = MintedAt(blocks, i)
  BY <1>6, <1>7 DEF MintedAt
<1>9. ASSUME NEW i \in 1..Len(blocks'), blocks'[i].order = NoOrder
      PROVE  MintedAt(blocks', i) = MintedAt(blocks', i - 1) + Scheduled(MintedAt(blocks', i - 1), i)
  <2>1. CASE i = h + 1
    <3>1. i - 1 = h /\ h \in 0..h BY <1>7, <2>1
    <3>2. q.order = NoOrder BY <1>6, <1>7, <1>9, <2>1
    <3> QED BY <1>5, <1>8, <2>1, <3>1, <3>2
  <2>2. CASE i \in 1..h
    <3>1. i - 1 \in 0..h /\ i \in 0..h BY <1>7, <2>2
    <3>2. blocks[i].order = NoOrder BY <1>7, <1>9, <2>2
    <3>3. MintedAt(blocks, i) = MintedAt(blocks, i - 1) + Scheduled(MintedAt(blocks, i - 1), i) BY <2>2, <3>2 DEF FollowInv
    <3> QED BY <1>8, <3>1, <3>3
  <2> QED BY <1>7, <2>1, <2>2
<1>10. ledger'[Hub].minted = MintedAt(blocks', Len(blocks')) BY <1>1, <1>2, <1>7, <1>8, KnownAddresses
<1>11. ledger'[Desk].minted = MintedAt(blocks', synced')
  <2>1. ledger'[Desk] = ledger[Desk] BY <1>1, <1>2, KnownAddresses
  <2>2. MintedAt(blocks', synced') = MintedAt(blocks, synced) BY <1>1, <1>2, <1>8
  <2> QED BY <2>1, <2>2 DEF FollowInv
<1>12. ASSUME NEW z \in Solvers
       PROVE  /\ solver'[z].pc # "idle" => solver'[z].tip <= Len(blocks')
              /\ solver'[z].pc = "append" /\ solver'[z].order = NoOrder /\ solver'[z].tip = Len(blocks') =>
                   solver'[z].reward = Reward(Len(blocks') + 1)
  <2>1. CASE z = s BY <1>1, <1>2, <2>1 DEF Resting
  <2>2. CASE z # s
    <3>1. solver'[z] = solver[z] /\ solver[z] \in SolverRec BY <1>1, <1>2, <2>2
    <3>2. solver[z].pc # "idle" => solver[z].tip <= h BY DEF FollowInv
    <3>3. solver[z].tip \in Nat BY <3>1 DEF SolverRec
    <3>4. solver[z].pc # "idle" => solver[z].tip # h + 1 /\ solver[z].tip <= h + 1 BY <1>7, <3>2, <3>3
    <3> QED BY <1>7, <3>1, <3>4
  <2> QED BY <2>1, <2>2
<1> QED BY <1>9, <1>10, <1>11, <1>12 DEF FollowInv

\* The reads of a solve take the scheduled reward of the block above the tip.
LEMMA SolverFollow ==
  ASSUME Inv, FollowInv, NEW s \in Solvers, Solving(s), ~AppendPoHBlock(s)
  PROVE  FollowInv'
<1> DEFINE h == Len(blocks)
<1>1. solver \in [Solvers -> SolverRec] /\ blocks \in Seq(BlockRec) BY DEF Inv, SolverInv, ChainType
<1>2. h \in Nat BY <1>1
<1>3. ASSUME NEW q, solver' = [solver EXCEPT ![s] = q], UNCHANGED <<blocks, synced, ledger>>,
             q.pc # "idle" => q.tip <= h,
             q.pc = "append" /\ q.order = NoOrder => q.reward = Reward(h + 1)
      PROVE  FollowInv'
  <2>1. ASSUME NEW z \in Solvers
        PROVE  /\ solver'[z].pc # "idle" => solver'[z].tip <= h
               /\ solver'[z].pc = "append" /\ solver'[z].order = NoOrder /\ solver'[z].tip = h =>
                    solver'[z].reward = Reward(h + 1)
    <3>1. CASE z = s BY <1>1, <1>3, <3>1
    <3>2. CASE z # s BY <1>1, <1>3, <3>2 DEF FollowInv
    <3> QED BY <3>1, <3>2
  <2> QED BY <1>3, <2>1 DEF FollowInv
<1>4. ASSUME NEW o, NEW nonce, NEW miner, ReadTip(s, o, nonce, miner) PROVE FollowInv'
  <2> DEFINE q == [Resting EXCEPT !.pc = "reward", !.tip = h, !.order = o, !.nonce = nonce, !.miner = miner]
  <2>1. solver' = [solver EXCEPT ![s] = q] /\ UNCHANGED <<blocks, synced, ledger>>
    BY <1>4, Zenon DEF ReadTip
  <2>2. q.pc = "reward" /\ q.tip <= h BY <1>2 DEF Resting
  <2> HIDE DEF q
  <2> QED BY <1>3, <2>1, <2>2
<1>5. CASE ReadReward(s)
  <2> DEFINE q == solver[s]
             task == ledger[Hub].tasks[q.order]
             a == [q EXCEPT !.pc = "append", !.reward = Reward(h + 1)]
             c == [q EXCEPT !.pc = "append", !.reward = task.reward]
             r == CASE q.order = NoOrder -> a
                    [] q.order # NoOrder /\ task.status = "open" /\ ~task.due -> c
                    [] OTHER -> Resting
  <2>1. q.pc = "reward" /\ solver' = [solver EXCEPT ![s] = r] /\ UNCHANGED <<blocks, synced, ledger>>
    BY <1>5, Zenon DEF ReadReward
  <2>2. q \in SolverRec /\ q.tip <= h BY <1>1, <2>1 DEF FollowInv
  <2>3. /\ a.tip = q.tip /\ a.reward = Reward(h + 1)
        /\ c.tip = q.tip /\ c.order = q.order
    <3> HIDE DEF q
    <3> QED BY <2>2 DEF SolverRec
  <2>4. r = a \/ (q.order # NoOrder /\ r = c) \/ r = Resting
    <3> HIDE DEF a, c
    <3> QED OBVIOUS
  <2>5. Resting.pc = "idle" BY DEF Resting
  <2> HIDE DEF a, c, r
  <2>6. (r.pc # "idle" => r.tip <= h) /\ (r.pc = "append" /\ r.order = NoOrder => r.reward = Reward(h + 1))
    BY <2>2, <2>3, <2>4, <2>5
  <2> QED BY <1>3, <2>1, <2>6
<1>6. CASE Refused(s)
  <2>1. Resting.pc = "idle" BY DEF Resting
  <2> QED BY <1>3, <1>6, <2>1 DEF Refused
<1> QED BY <1>4, <1>5, <1>6 DEF Solving

\* Every step keeps the follower with the schedule.
LEMMA NextFollow ==
  ASSUME Inv, FollowInv, [Next]_vars
  PROVE  FollowInv'
<1>1. ASSUME UNCHANGED <<blocks, synced, solver>>,
             \A n \in Nodes : ledger'[n].minted = ledger[n].minted
      PROVE  FollowInv'
  BY <1>1, KnownAddresses DEF FollowInv
<1>2. ASSUME NEW n \in Nodes, NEW M, ledger' = [ledger EXCEPT ![n] = M], M.minted = ledger[n].minted,
             UNCHANGED <<blocks, synced, solver>>
      PROVE  FollowInv'
  BY <1>1, <1>2 DEF Inv, LedgerInv
<1>3. ASSUME NEW n \in Nodes, ExpireOpenOrderTasks(n) PROVE FollowInv' BY <1>2, <1>3, ExpireStep
<1>4. ASSUME NEW n \in Nodes, NEW o \in Orders, Pass(n, o) PROVE FollowInv' BY <1>2, <1>4, PassStep
<1>5. ASSUME NEW n \in Nodes, NEW o \in Orders, NEW reward \in Rewards, NEW target \in Targets,
             NEW asset \in {"HMC", "SUP"}, PostOrder(n, o, reward, target, asset)
      PROVE  FollowInv'
  <2>1. /\ \E M : /\ ledger' = [ledger EXCEPT ![n] = M]
                  /\ M.escrow = ledger[n].escrow + reward * target /\ M.minted = ledger[n].minted
                  /\ M.tasks = [ledger[n].tasks EXCEPT ![o] = NewTask(reward, target)]
        /\ UNCHANGED <<blocks, synced, found, solver, transfer, credited, funded>>
    BY <1>5, PostStep
  <2> QED BY <1>2, <2>1
<1>6. ASSUME NEW s \in Solvers, Solving(s) PROVE FollowInv' BY <1>6, AppendFollow, SolverFollow
<1>7. ASSUME NEW t \in Funds, SendFund(t) PROVE FollowInv' BY <1>1, <1>7 DEF SendFund
<1>8. ASSUME NEW t \in Funds, CreditOrdersFund(t) PROVE FollowInv'
  <2>1. UNCHANGED <<blocks, synced, solver>> BY <1>8 DEF CreditOrdersFund
  <2> QED BY <1>2, <1>8, <2>1, FundStep, KnownAddresses
<1>9. ASSUME ImportPoHBlock PROVE FollowInv'
  <2> DEFINE L == ledger[Desk]
             i == synced + 1
  <2>1. PICK M : /\ ledger' = [ledger EXCEPT ![Desk] = M]
                 /\ M.minted = L.minted + Subsidy(L, i, Reward(i))
    BY <1>9, ImportStep
  <2>2. /\ synced < Len(blocks) /\ synced' = i /\ blocks[i].order = NoOrder /\ UNCHANGED <<blocks, solver>>
    BY <1>9, ImportStep
  <2>3. blocks \in Seq(BlockRec) /\ synced \in Nat /\ ledger \in [Nodes -> LedgerRec]
    BY DEF Inv, ChainType, LedgerInv
  <2>4. i \in 1..Len(blocks) /\ i - 1 = synced BY <2>2, <2>3
  <2>5. MintedAt(blocks, i) = MintedAt(blocks, synced) + Scheduled(MintedAt(blocks, synced), i)
    BY <2>2, <2>4 DEF FollowInv
  <2>6. M.minted = MintedAt(blocks, i) BY <2>1, <2>5 DEF FollowInv, Subsidy, Scheduled
  <2>7. ledger'[Desk] = M /\ ledger'[Hub] = ledger[Hub] BY <2>1, <2>3, KnownAddresses
  <2> QED BY <2>2, <2>6, <2>7 DEF FollowInv
<1>10. CASE UNCHANGED vars BY <1>1, <1>10 DEF vars
<1> QED BY <1>3, <1>4, <1>5, <1>6, <1>7, <1>8, <1>9, <1>10 DEF Next

\* FollowerAgrees: importing by the schedule mints what the hub minted at that
\* height, although a solve reads its reward before AppendPoHBlock takes s.mu.
THEOREM FollowerHolds == Spec => []FollowerAgrees
<1>1. Init => FollowInv
  <2> SUFFICES ASSUME Init PROVE FollowInv OBVIOUS
  <2>1. /\ blocks = <<>> /\ synced = 0 /\ ledger = [n \in Nodes |-> Start(n)]
        /\ solver = [s \in Solvers |-> Resting]
    BY InitInv
  <2>2. ledger[Hub].minted = Genesis + Deposit /\ ledger[Desk].minted = Genesis + Deposit
    BY <2>1, KnownAddresses, StartBalanced
  <2>3. Len(blocks) = 0 BY <2>1
  <2>4. \A s \in Solvers : solver[s].pc = "idle" BY <2>1 DEF Resting
  <2> QED BY <2>1, <2>2, <2>3, <2>4 DEF FollowInv, MintedAt
<1>2. Inv /\ FollowInv /\ [Next]_vars => FollowInv' BY NextFollow
<1>3. FollowInv => FollowerAgrees BY DEF FollowInv, FollowerAgrees, MintedAt
<1> QED BY <1>1, <1>2, <1>3, LedgersInductive, PTL DEF Spec

----------------------------------------------------------------------------
(* The promise to the customer of an order.                                 *)

\* The hub's orders are its own, and only one that was posted has been solved.
PromiseInv ==
  /\ \A o \in DeskOrders : ledger[Hub].tasks[o] = NoTask
  /\ \A p \in found : ledger[Hub].tasks[p[1]].status # "none"

\* What the customer of an order sees of a task.
View(task, nonces) ==
  [status |-> task.status, reward |-> task.reward, left |-> task.target - task.progress,
   solvedBy |-> nonces]
PaidNonces(F, o) == {nonce \in Nonces : <<o, nonce>> \in F}
Seen == [o \in HubOrders |-> View(ledger[Hub].tasks[o], PaidNonces(found, o))]

\* The sums of the two modules are the same.
LEMMA SameSum ==
  ASSUME NEW f
  PROVE  Promise!SumFunction(f) = SumFunction(f)
  BY Zenon DEF SumFunction, SumFunctionOnSet, FoldFunctionOnSet, MapThenFoldSet,
               Promise!SumFunction, Promise!SumFunctionOnSet, Promise!FoldFunctionOnSet, Promise!MapThenFoldSet

\* A step that takes an order.
LEMMA TakeMapped ==
  ASSUME NEW o \in HubOrders, NEW reward \in Rewards, NEW left \in Targets,
         Seen[o] = Promise!Nothing,
         Seen' = [Seen EXCEPT ![o] = [status |-> "open", reward |-> reward, left |-> left, solvedBy |-> {}]],
         ledger'[Hub].escrow = ledger[Hub].escrow + reward * left
  PROVE  Promise!Next
<1>1. Promise!Take(o, reward, left) BY Zenon DEF Promise!Take, Seen, View, PaidNonces
<1> QED BY <1>1 DEF Promise!Next

SeenGivenUp(set) ==
  [o \in HubOrders |-> IF o \in set THEN [Seen[o] EXCEPT !.status = "cancelled"] ELSE Seen[o]]
SeenOwed(set) == SumFunction([o \in set |-> Seen[o].reward * Seen[o].left])

\* A step that gives orders back.
LEMMA GiveMapped ==
  ASSUME NEW set \in SUBSET HubOrders, set # {}, \A o \in set : Seen[o].status = "open",
         Seen' = SeenGivenUp(set), ledger'[Hub].escrow = ledger[Hub].escrow - SeenOwed(set)
  PROVE  Promise!Next
<1>1. set \subseteq Promise!Open BY DEF Promise!Open, Seen, View, PaidNonces
<1>2. Seen' = Promise!GivenUp(set) BY Zenon DEF SeenGivenUp, Promise!GivenUp, Seen, View, PaidNonces
<1>3. SeenOwed(set) = Promise!SumFunction([o \in set |-> Promise!Owed(o)])
  BY SameSum, Zenon DEF SeenOwed, Promise!Owed, Seen, View, PaidNonces
<1>4. ledger'[Hub].escrow = ledger[Hub].escrow - Promise!SumFunction([o \in set |-> Promise!Owed(o)])
  BY <1>3
<1>5. Promise!GiveBack(set)
  BY <1>1, <1>2, <1>4, Zenon DEF Promise!GiveBack, Seen, View, PaidNonces
<1> QED BY <1>5 DEF Promise!Next

\* A step that pays a solve.
LEMMA SolveMapped ==
  ASSUME NEW set \in SUBSET HubOrders, \A p \in set : Seen[p].status = "open",
         NEW o \in HubOrders \ set, Seen[o].status = "open", NEW nonce \in Nonces,
         nonce \notin Seen[o].solvedBy,
         Seen' = [SeenGivenUp(set) EXCEPT ![o] =
                    [status |-> IF Seen[o].left = 1 THEN "completed" ELSE "open",
                     reward |-> Seen[o].reward, left |-> Seen[o].left - 1,
                     solvedBy |-> Seen[o].solvedBy \cup {nonce}]],
         ledger'[Hub].escrow = ledger[Hub].escrow - Seen[o].reward - SeenOwed(set)
  PROVE  Promise!Next
<1>1. set \subseteq Promise!Open /\ o \in Promise!Open \ set
  BY DEF Promise!Open, Seen, View, PaidNonces
<1>2. SeenGivenUp(set) = Promise!GivenUp(set)
  BY Zenon DEF SeenGivenUp, Promise!GivenUp, Seen, View, PaidNonces
<1>3. SeenOwed(set) = Promise!SumFunction([p \in set |-> Promise!Owed(p)])
  BY SameSum, Zenon DEF SeenOwed, Promise!Owed, Seen, View, PaidNonces
<1>4. ledger'[Hub].escrow = ledger[Hub].escrow - Seen[o].reward - Promise!SumFunction([p \in set |-> Promise!Owed(p)])
  BY <1>3
<1>5. Seen' = [Promise!GivenUp(set) EXCEPT ![o] =
                 [status |-> IF Seen[o].left = 1 THEN "completed" ELSE "open",
                  reward |-> Seen[o].reward, left |-> Seen[o].left - 1,
                  solvedBy |-> Seen[o].solvedBy \cup {nonce}]]
  BY <1>2
<1>6. Promise!Solve(o, nonce, set)
  BY <1>1, <1>4, <1>5, Zenon DEF Promise!Solve, Seen, View, PaidNonces
<1> QED BY <1>1, <1>6 DEF Promise!Next, Promise!Open

\* The orders of the hub that are due are its own, are open, and owe what the customers see.
LEMMA HubDue ==
  ASSUME Inv, PromiseInv, NEW L, L = ledger[Hub], NEW set, set = Due(L)
  PROVE  /\ set \in SUBSET HubOrders /\ \A o \in set : Seen[o].status = "open"
         /\ SeenOwed(set) = Owed(L, set)
<1>1. Open(L) \in SUBSET HubOrders
  BY DEF PromiseInv, Open, NoTask, Orders
<1>2. set \in SUBSET HubOrders /\ \A o \in set : L.tasks[o].status = "open" BY <1>1 DEF Due, Open
<1>3. \A o \in set : Seen[o].status = "open" /\ Seen[o].reward * Seen[o].left = Rest(L.tasks[o])
  BY <1>2 DEF Seen, View, Rest
<1>4. SeenOwed(set) = RestOf(L, set)
  <2>1. [o \in set |-> Seen[o].reward * Seen[o].left] = [o \in set |-> Rest(L.tasks[o])] BY <1>3
  <2> QED BY <2>1 DEF SeenOwed, RestOf
<1>5. Sound(L, Hub) BY KnownAddresses DEF Inv, LedgerInv, Balanced
<1>6. set \in SUBSET Orders BY <1>2 DEF Orders
<1>7. RestOf(L, set) = Owed(L, set) BY <1>5, <1>6, RestIsOwed
<1> QED BY <1>2, <1>3, <1>4, <1>7

\* Cancelling orders is what giving them back looks like.
LEMMA CancelSeen ==
  ASSUME NEW L, L = ledger[Hub], NEW set \in SUBSET HubOrders,
         \A o \in HubOrders : ledger'[Hub].tasks[o] = Cancelled(L, set)[o],
         found' = found, L.tasks \in [Orders -> TaskRec]
  PROVE  Seen' = SeenGivenUp(set)
<1> SUFFICES ASSUME NEW o \in HubOrders PROVE Seen'[o] = SeenGivenUp(set)[o] BY DEF Seen, SeenGivenUp
<1> DEFINE t == L.tasks[o]
           N == PaidNonces(found, o)
<1>1. o \in Orders /\ t \in TaskRec BY DEF Orders
<1>2. ledger'[Hub].tasks[o] = IF o \in set THEN [t EXCEPT !.status = "cancelled"] ELSE t
  BY <1>1 DEF Cancelled
<1>3. PaidNonces(found', o) = N BY DEF PaidNonces
<1>4. Seen[o] = View(t, N) /\ Seen'[o] = View(ledger'[Hub].tasks[o], N) BY <1>3 DEF Seen
<1> HIDE DEF t, N
<1>5. View([t EXCEPT !.status = "cancelled"], N) = [View(t, N) EXCEPT !.status = "cancelled"]
  BY <1>1 DEF View, TaskRec
<1> QED BY <1>2, <1>4, <1>5 DEF SeenGivenUp

\* PromiseInv holds when tasks of the desktop's orders stay and posted orders stay posted.
LEMMA PromiseStays ==
  ASSUME Inv, PromiseInv,
         \A o \in DeskOrders : ledger'[Hub].tasks[o] = ledger[Hub].tasks[o],
         \A o \in HubOrders : ledger[Hub].tasks[o].status # "none" => ledger'[Hub].tasks[o].status # "none",
         \A p \in found' : p \in found \/ ledger'[Hub].tasks[p[1]].status # "none"
  PROVE  PromiseInv'
<1>1. \A p \in found : p[1] \in HubOrders BY DEF Inv, ChainType
<1> QED BY <1>1 DEF PromiseInv

Untouched == Seen' = Seen /\ ledger'[Hub].escrow = ledger[Hub].escrow

\* A step that leaves the hub's orders, escrow and found nonces alone.
LEMMA PromiseQuiet ==
  ASSUME Inv, PromiseInv, ledger'[Hub].tasks = ledger[Hub].tasks,
         ledger'[Hub].escrow = ledger[Hub].escrow, found' = found
  PROVE  PromiseInv' /\ Untouched
<1>1. PromiseInv' BY PromiseStays
<1>2. Seen' = Seen BY DEF Seen, PaidNonces
<1> QED BY <1>1, <1>2 DEF Untouched

\* ExpireOpenOrderTasks on the hub gives the due orders back.
LEMMA ExpirePromise ==
  ASSUME Inv, PromiseInv, ExpireOpenOrderTasks(Hub)
  PROVE  PromiseInv' /\ Promise!Next
<1> DEFINE L == ledger[Hub]
           set == Due(L)
<1>1. Hub \in Nodes /\ ledger \in [Nodes -> LedgerRec] /\ L.tasks \in [Orders -> TaskRec]
  BY KnownAddresses DEF Inv, LedgerInv, LedgerRec
<1>2. PICK M : /\ ledger' = [ledger EXCEPT ![Hub] = M]
               /\ M.escrow = L.escrow - Owed(L, set) /\ M.tasks = Cancelled(L, set)
  BY <1>1, ExpireStep
<1>3. set # {} /\ found' = found BY <1>1, ExpireStep
<1>4. ledger'[Hub] = M BY <1>1, <1>2
<1>5. set \in SUBSET HubOrders /\ (\A o \in set : Seen[o].status = "open") /\ SeenOwed(set) = Owed(L, set)
  BY HubDue
<1> HIDE DEF set, L
<1>6. L = ledger[Hub] BY DEF L
<1>7. Seen' = SeenGivenUp(set) BY <1>1, <1>2, <1>3, <1>4, <1>5, <1>6, CancelSeen
<1>8. ledger'[Hub].escrow = ledger[Hub].escrow - SeenOwed(set) BY <1>2, <1>4, <1>5, <1>6
<1>9. Promise!Next BY <1>3, <1>5, <1>7, <1>8, GiveMapped
<1>10. PromiseInv'
  <2>1. \A o \in HubOrders : L.tasks[o].status # "none" => M.tasks[o].status # "none"
    BY <1>1, <1>2 DEF Cancelled, TaskRec, Orders
  <2>2. \A o \in DeskOrders : M.tasks[o] = L.tasks[o]
    BY <1>2, <1>5, ChainAssumption DEF Cancelled, Orders
  <2> QED BY <1>3, <1>4, <1>6, <2>1, <2>2, PromiseStays
<1> QED BY <1>9, <1>10

\* InsertOrderTask on the hub takes an order.
LEMMA PostPromise ==
  ASSUME Inv, PromiseInv, NEW o \in Orders, NEW reward \in Rewards, NEW target \in Targets,
         NEW asset \in {"HMC", "SUP"}, PostOrder(Hub, o, reward, target, asset)
  PROVE  PromiseInv' /\ Promise!Next
<1> DEFINE L == ledger[Hub]
           new == NewTask(reward, target)
<1>1. Hub \in Nodes /\ ledger \in [Nodes -> LedgerRec] /\ L.tasks \in [Orders -> TaskRec]
  BY KnownAddresses DEF Inv, LedgerInv, LedgerRec
<1>2. /\ \E M : /\ ledger' = [ledger EXCEPT ![Hub] = M]
                /\ M.escrow = ledger[Hub].escrow + reward * target /\ M.minted = ledger[Hub].minted
                /\ M.tasks = [ledger[Hub].tasks EXCEPT ![o] = NewTask(reward, target)]
      /\ UNCHANGED <<blocks, synced, found, solver, transfer, credited, funded>>
      /\ o \in PostedAt(Hub) /\ ledger[Hub].tasks[o] = NoTask
  BY <1>1, PostStep
<1>3. PICK M : /\ ledger' = [ledger EXCEPT ![Hub] = M] /\ M.escrow = L.escrow + reward * target
               /\ M.tasks = [L.tasks EXCEPT ![o] = new]
  BY <1>2
<1>4. o \in HubOrders /\ L.tasks[o] = NoTask /\ found' = found BY <1>2 DEF PostedAt
<1>5. ledger'[Hub] = M BY <1>1, <1>3
<1>6. target \in Nat /\ reward \in Nat BY ChainAssumption
<1>7. new.status = "open" /\ new.reward = reward /\ new.target - new.progress = target
  BY <1>6 DEF NewTask
<1> HIDE DEF new, L
<1>8. M.tasks[o] = new /\ \A p \in Orders \ {o} : M.tasks[p] = L.tasks[p] BY <1>1, <1>3
<1>9. PaidNonces(found, o) = {}
  <2>1. NoTask.status = "none" BY DEF NoTask
  <2> QED BY <1>4, <2>1 DEF PaidNonces, PromiseInv, L
<1>10. \A p \in HubOrders : PaidNonces(found', p) = PaidNonces(found, p) BY <1>4 DEF PaidNonces
<1>11. Seen[o] = Promise!Nothing
  <2>1. Seen[o] = View(NoTask, {}) BY <1>4, <1>9 DEF Seen, L
  <2>2. NoTask.target - NoTask.progress = 0 BY DEF NoTask
  <2> QED BY <2>1, <2>2 DEF View, NoTask, Promise!Nothing
<1>12. Seen' = [Seen EXCEPT ![o] = [status |-> "open", reward |-> reward, left |-> target, solvedBy |-> {}]]
  <2> DEFINE v == [status |-> "open", reward |-> reward, left |-> target, solvedBy |-> {}]
  <2>1. View(new, {}) = v BY <1>7 DEF View
  <2>2. Seen'[o] = v BY <1>4, <1>5, <1>8, <1>9, <1>10, <2>1 DEF Seen
  <2>3. \A p \in HubOrders \ {o} : Seen'[p] = Seen[p]
    BY <1>5, <1>8, <1>10 DEF Seen, Orders, L
  <2> HIDE DEF v
  <2>4. Seen' = [Seen EXCEPT ![o] = v] BY <2>2, <2>3 DEF Seen
  <2> QED BY <2>4 DEF v
<1>13. ledger'[Hub].escrow = ledger[Hub].escrow + reward * target BY <1>3, <1>5 DEF L
<1>14. Promise!Next BY <1>4, <1>11, <1>12, <1>13, TakeMapped
<1>15. PromiseInv'
  <2>1. \A p \in DeskOrders : p \in Orders \ {o} BY <1>4, ChainAssumption DEF Orders
  <2>2. \A p \in HubOrders : L.tasks[p].status # "none" => M.tasks[p].status # "none"
    BY <1>7, <1>8 DEF Orders
  <2> QED BY <1>4, <1>5, <1>8, <2>1, <2>2, PromiseStays DEF L
<1> QED BY <1>14, <1>15

\* An order that passes its time still looks the same.
LEMMA PassPromise ==
  ASSUME Inv, PromiseInv, NEW o \in Orders, Pass(Hub, o)
  PROVE  PromiseInv' /\ Untouched
<1> DEFINE L == ledger[Hub]
           t == L.tasks[o]
           new == [t EXCEPT !.due = TRUE]
<1>1. /\ Hub \in Nodes /\ ledger \in [Nodes -> LedgerRec] /\ L.tasks \in [Orders -> TaskRec]
      /\ t \in TaskRec
  BY KnownAddresses DEF Inv, LedgerInv, LedgerRec
<1>2. PICK M : /\ ledger' = [ledger EXCEPT ![Hub] = M] /\ M.escrow = L.escrow
               /\ M.tasks = [L.tasks EXCEPT ![o] = new]
  BY <1>1, PassStep
<1>3. found' = found /\ t.status = "open" BY DEF Pass, Open
<1>4. o \in HubOrders BY <1>3 DEF PromiseInv, NoTask, Orders
<1>5. ledger'[Hub] = M BY <1>1, <1>2
<1>6. /\ new.status = t.status /\ new.reward = t.reward /\ new.target = t.target
      /\ new.progress = t.progress
  <2> HIDE DEF t
  <2> QED BY <1>1 DEF TaskRec
<1> HIDE DEF new
<1>7. M.tasks[o] = new /\ \A p \in Orders \ {o} : M.tasks[p] = L.tasks[p] BY <1>1, <1>2
<1>8. \A p \in HubOrders : PaidNonces(found', p) = PaidNonces(found, p) BY <1>3 DEF PaidNonces
<1>9. \A p \in HubOrders : Seen'[p] = Seen[p]
  <2> SUFFICES ASSUME NEW p \in HubOrders PROVE Seen'[p] = Seen[p] OBVIOUS
  <2>1. CASE p = o BY <1>5, <1>6, <1>7, <1>8, <2>1 DEF Seen, View
  <2>2. CASE p # o BY <1>5, <1>7, <1>8, <2>2 DEF Seen, Orders
  <2> QED BY <2>1, <2>2
<1>10. Seen' = Seen BY <1>9 DEF Seen
<1>11. \A p \in DeskOrders : p \in Orders \ {o} BY <1>4, ChainAssumption DEF Orders
<1>12. \A p \in HubOrders : L.tasks[p].status # "none" => M.tasks[p].status # "none"
  BY <1>6, <1>7 DEF Orders
<1>13. PromiseInv' BY <1>3, <1>5, <1>7, <1>11, <1>12, PromiseStays
<1> QED BY <1>2, <1>5, <1>10, <1>13 DEF Untouched

\* An empty block gives back the orders that are due, if there are any.
LEMMA EmptyBlockPromise ==
  ASSUME Inv, PromiseInv, NEW s \in Solvers, AppendPoHBlock(s), solver[s].order = NoOrder
  PROVE  PromiseInv' /\ (Promise!Next \/ Untouched)
<1> DEFINE L == ledger[Hub]
           set == Due(L)
           M == AfterBlock(solver[s])
<1>1. /\ Appendable(solver[s]) /\ ledger' = [ledger EXCEPT ![Hub] = M] /\ found' = found
  BY Zenon DEF AppendPoHBlock
<1>2. M.escrow = L.escrow - Owed(L, set) /\ M.tasks = Cancelled(L, set) BY <1>1, BlockLedger
<1>3. Hub \in Nodes /\ ledger \in [Nodes -> LedgerRec] /\ L.tasks \in [Orders -> TaskRec] /\ L.escrow \in Nat
  BY KnownAddresses DEF Inv, LedgerInv, LedgerRec
<1> HIDE DEF M
<1>4. ledger'[Hub] = M BY <1>1, <1>3
<1>5. set \in SUBSET HubOrders /\ (\A o \in set : Seen[o].status = "open") /\ SeenOwed(set) = Owed(L, set)
  BY HubDue
<1> HIDE DEF set, L
<1>6. L = ledger[Hub] BY DEF L
<1>7. Seen' = SeenGivenUp(set) BY <1>1, <1>2, <1>3, <1>4, <1>5, <1>6, CancelSeen
<1>8. ledger'[Hub].escrow = ledger[Hub].escrow - SeenOwed(set) BY <1>2, <1>4, <1>5, <1>6
<1>9. CASE set # {} 
  <2>1. Promise!Next BY <1>5, <1>7, <1>8, <1>9, GiveMapped
  <2>2. \A o \in HubOrders : L.tasks[o].status # "none" => M.tasks[o].status # "none"
    BY <1>2, <1>3 DEF Cancelled, TaskRec, Orders
  <2>3. \A o \in DeskOrders : M.tasks[o] = L.tasks[o]
    BY <1>2, <1>5, ChainAssumption DEF Cancelled, Orders
  <2>4. PromiseInv' BY <1>1, <1>4, <1>6, <2>2, <2>3, PromiseStays
  <2> QED BY <2>1, <2>4
<1>10. CASE set = {}
  <2>1. M.tasks = L.tasks BY <1>2, <1>3, <1>10 DEF Cancelled
  <2>2. Owed(L, set) = 0 BY <1>10, SumEmpty DEF Owed
  <2>3. M.escrow = L.escrow BY <1>2, <1>3, <2>2
  <2> QED BY <1>1, <1>4, <1>6, <2>1, <2>3, PromiseQuiet
<1> QED BY <1>9, <1>10

\* A block of an order pays one solve, and gives back the orders that are due.
LEMMA OrderBlockPromise ==
  ASSUME Inv, PromiseInv, NEW s \in Solvers, AppendPoHBlock(s), solver[s].order # NoOrder
  PROVE  PromiseInv' /\ Promise!Next
<1> DEFINE L == ledger[Hub]
           set == Due(L)
           q == solver[s]
           o == q.order
           nonce == q.nonce
           M == AfterBlock(q)
           t == L.tasks[o]
           new == Solved(t)
<1>1. /\ Appendable(q) /\ ledger' = [ledger EXCEPT ![Hub] = M] /\ found' = found \cup {<<o, nonce>>}
  BY Zenon DEF AppendPoHBlock
<1>2. /\ o \in Open(L) \ set /\ FreshNonce(q)
      /\ M.escrow = L.escrow - Owed(L, set) - t.reward /\ Owed(L, set) \in Nat
      /\ M.tasks = [Cancelled(L, set) EXCEPT ![o] = new]
  BY <1>1, BlockLedger
<1>3. /\ Hub \in Nodes /\ ledger \in [Nodes -> LedgerRec] /\ L.tasks \in [Orders -> TaskRec] /\ L.escrow \in Nat
      /\ \A p \in Orders : TaskOK(L.tasks[p])
  BY KnownAddresses DEF Inv, LedgerInv, Balanced, Sound, LedgerRec
<1>4. o \in HubOrders /\ nonce \in Nonces /\ o \in Orders
  BY DEF Inv, SolverInv, SolverRec, Orders
<1>5. set \in SUBSET HubOrders /\ (\A p \in set : Seen[p].status = "open") /\ SeenOwed(set) = Owed(L, set)
  BY HubDue
<1>6. o \notin set /\ t.status = "open" /\ <<o, nonce>> \notin found BY <1>2 DEF Open, FreshNonce
<1>7. TaskOK(t) /\ t \in TaskRec BY <1>3, <1>4
<1> HIDE DEF M, new, t, set, L, o, nonce
<1>8. L = ledger[Hub] /\ t = L.tasks[o] BY DEF L, t
<1>9. ledger'[Hub] = M BY <1>1, <1>3
<1>10. /\ new.status = (IF t.target - t.progress = 1 THEN "completed" ELSE "open")
       /\ new.reward = t.reward /\ new.target - new.progress = (t.target - t.progress) - 1
  <2> DEFINE status == IF t.target - t.progress = 1 THEN "completed" ELSE "open"
             k1 == [t EXCEPT !.status = status]
             k2 == [k1 EXCEPT !.progress = t.progress + 1]
  <2>1. new = k2 BY DEF new, Solved
  <2>2. t.target \in Nat /\ t.progress \in Nat BY <1>7 DEF TaskRec
  <2> HIDE DEF status
  <2>3. k2.status = status /\ k2.reward = t.reward /\ k2.target = t.target /\ k2.progress = t.progress + 1
    BY <1>7 DEF TaskRec
  <2> QED BY <2>1, <2>2, <2>3 DEF status
<1>11. /\ M.tasks[o] = new
       /\ \A p \in Orders \ {o} : M.tasks[p] = Cancelled(L, set)[p]
  BY <1>2, <1>4 DEF Cancelled
<1>12. /\ PaidNonces(found', o) = PaidNonces(found, o) \cup {nonce}
       /\ \A p \in HubOrders \ {o} : PaidNonces(found', p) = PaidNonces(found, p)
  BY <1>1, <1>4 DEF PaidNonces
<1>13. Seen[o] = View(t, PaidNonces(found, o)) BY <1>4, <1>8 DEF Seen
<1>14. /\ Seen[o].status = "open" /\ Seen[o].reward = t.reward /\ Seen[o].left = t.target - t.progress
       /\ Seen[o].solvedBy = PaidNonces(found, o)
  BY <1>6, <1>13 DEF View
<1>15. nonce \notin Seen[o].solvedBy BY <1>6, <1>14 DEF PaidNonces
<1> DEFINE v == [status |-> IF Seen[o].left = 1 THEN "completed" ELSE "open",
                 reward |-> Seen[o].reward, left |-> Seen[o].left - 1,
                 solvedBy |-> Seen[o].solvedBy \cup {nonce}]
<1>16. Seen'[o] = v
  <2>1. Seen'[o] = View(new, PaidNonces(found, o) \cup {nonce}) BY <1>4, <1>9, <1>11, <1>12 DEF Seen
  <2> QED BY <1>10, <1>14, <2>1 DEF View
<1> HIDE DEF v
<1>17. \A p \in HubOrders \ {o} : Seen'[p] = SeenGivenUp(set)[p]
  <2> SUFFICES ASSUME NEW p \in HubOrders \ {o} PROVE Seen'[p] = SeenGivenUp(set)[p] OBVIOUS
  <2> DEFINE u == L.tasks[p]
             N == PaidNonces(found, p)
  <2>1. p \in Orders /\ u \in TaskRec BY <1>3 DEF Orders
  <2>2. M.tasks[p] = IF p \in set THEN [u EXCEPT !.status = "cancelled"] ELSE u
    BY <1>11, <2>1 DEF Cancelled
  <2>3. Seen[p] = View(u, N) /\ Seen'[p] = View(M.tasks[p], N) BY <1>8, <1>9, <1>12 DEF Seen
  <2> HIDE DEF u, N
  <2>4. View([u EXCEPT !.status = "cancelled"], N) = [View(u, N) EXCEPT !.status = "cancelled"]
    BY <2>1 DEF View, TaskRec
  <2> QED BY <2>2, <2>3, <2>4 DEF SeenGivenUp
<1>18. Seen' = [SeenGivenUp(set) EXCEPT ![o] = v] BY <1>4, <1>16, <1>17 DEF Seen, SeenGivenUp
<1>19. ledger'[Hub].escrow = ledger[Hub].escrow - Seen[o].reward - SeenOwed(set)
  <2>1. t.reward \in Nat BY <1>7 DEF TaskRec
  <2> DEFINE e == L.escrow
             w == Owed(L, set)
             r == t.reward
  <2>2. e \in Nat /\ w \in Nat /\ r \in Nat /\ M.escrow = e - w - r BY <1>2, <1>3, <2>1
  <2> HIDE DEF e, w, r
  <2>3. M.escrow = e - r - w BY <2>2
  <2> QED BY <1>5, <1>8, <1>9, <1>14, <2>3 DEF e, w, r
<1>20. o \in HubOrders \ set BY <1>4, <1>6
<1>21. Promise!Next
  BY <1>4, <1>5, <1>14, <1>15, <1>18, <1>19, <1>20, SolveMapped DEF v
<1>22. PromiseInv'
  <2>1. \A p \in DeskOrders : M.tasks[p] = L.tasks[p]
    BY <1>4, <1>5, <1>11, ChainAssumption DEF Cancelled, Orders
  <2>2. new.status # "none" BY <1>10
  <2>3. \A p \in HubOrders : L.tasks[p].status # "none" => M.tasks[p].status # "none"
    <3> SUFFICES ASSUME NEW p \in HubOrders, L.tasks[p].status # "none" PROVE M.tasks[p].status # "none"
      OBVIOUS
    <3>1. p \in Orders /\ L.tasks[p] \in TaskRec BY <1>3 DEF Orders
    <3>2. CASE p = o BY <1>11, <2>2, <3>2
    <3>3. CASE p # o BY <1>11, <3>1, <3>3 DEF Cancelled, TaskRec
    <3> QED BY <3>2, <3>3
  <2>4. \A p \in found' : p \in found \/ M.tasks[p[1]].status # "none" BY <1>1, <1>11, <2>2
  <2> QED BY <1>8, <1>9, <2>1, <2>3, <2>4, PromiseStays
<1> QED BY <1>21, <1>22

\* Every step of the chain is a step of the promise, or leaves it alone.
LEMMA NextPromise ==
  ASSUME Inv, PromiseInv, [Next]_vars
  PROVE  PromiseInv' /\ (Promise!Next \/ Untouched)
<1>1. ASSUME NEW n \in Nodes, NEW M, ledger' = [ledger EXCEPT ![n] = M], n # Hub, found' = found
      PROVE  PromiseInv' /\ Untouched
  <2>1. ledger'[Hub] = ledger[Hub] BY <1>1, KnownAddresses DEF Inv, LedgerInv
  <2> QED BY <1>1, <2>1, PromiseQuiet
<1>2. ASSUME UNCHANGED <<ledger, found>> PROVE PromiseInv' /\ Untouched BY <1>2, PromiseQuiet
<1>3. ASSUME NEW n \in Nodes, ExpireOpenOrderTasks(n) PROVE PromiseInv' /\ (Promise!Next \/ Untouched)
  <2>1. CASE n = Hub BY <1>3, <2>1, ExpirePromise
  <2>2. CASE n # Hub BY <1>1, <1>3, <2>2, ExpireStep
  <2> QED BY <2>1, <2>2
<1>4. ASSUME NEW n \in Nodes, NEW o \in Orders, Pass(n, o) PROVE PromiseInv' /\ (Promise!Next \/ Untouched)
  <2>1. CASE n = Hub BY <1>4, <2>1, PassPromise
  <2>2. CASE n # Hub BY <1>1, <1>4, <2>2, PassStep
  <2> QED BY <2>1, <2>2
<1>5. ASSUME NEW n \in Nodes, NEW o \in Orders, NEW reward \in Rewards, NEW target \in Targets,
             NEW asset \in {"HMC", "SUP"}, PostOrder(n, o, reward, target, asset)
      PROVE  PromiseInv' /\ (Promise!Next \/ Untouched)
  <2>1. CASE n = Hub BY <1>5, <2>1, PostPromise
  <2>2. CASE n # Hub
    <3>1. /\ \E M : /\ ledger' = [ledger EXCEPT ![n] = M]
                    /\ M.escrow = ledger[n].escrow + reward * target /\ M.minted = ledger[n].minted
                    /\ M.tasks = [ledger[n].tasks EXCEPT ![o] = NewTask(reward, target)]
          /\ UNCHANGED <<blocks, synced, found, solver, transfer, credited, funded>>
      BY <1>5, PostStep
    <3> QED BY <1>1, <2>2, <3>1
  <2> QED BY <2>1, <2>2
<1>6. ASSUME NEW s \in Solvers, Solving(s) PROVE PromiseInv' /\ (Promise!Next \/ Untouched)
  <2>1. CASE AppendPoHBlock(s) BY <2>1, EmptyBlockPromise, OrderBlockPromise
  <2>2. CASE ~AppendPoHBlock(s)
    <3>1. UNCHANGED <<ledger, found>> BY <1>6, <2>2 DEF Solving, ReadTip, ReadReward, Refused
    <3> QED BY <1>2, <3>1
  <2> QED BY <2>1, <2>2
<1>7. ASSUME NEW t \in Funds, SendFund(t) PROVE PromiseInv' /\ Untouched BY <1>2, <1>7 DEF SendFund
<1>8. ASSUME NEW t \in Funds, CreditOrdersFund(t) PROVE PromiseInv' /\ Untouched
  <2>1. found' = found BY <1>8 DEF CreditOrdersFund
  <2> QED BY <1>1, <1>8, <2>1, FundStep, KnownAddresses
<1>9. ASSUME ImportPoHBlock PROVE PromiseInv' /\ Untouched BY <1>1, <1>9, ImportStep, KnownAddresses
<1>10. CASE UNCHANGED vars BY <1>2, <1>10 DEF vars
<1> QED BY <1>3, <1>4, <1>5, <1>6, <1>7, <1>8, <1>9, <1>10 DEF Next

\* PromiseKept: the hub's blocks, solves and expiries implement the promise to the
\* customer of an order: every solve is paid from what was held for it, for a nonce
\* that has not paid before, and the rest comes back once.
THEOREM PromiseHolds == Spec => PromiseKept
<1>1. Init => PromiseInv /\ Promise!Init
  <2> SUFFICES ASSUME Init PROVE PromiseInv /\ Promise!Init OBVIOUS
  <2>1. ledger[Hub] = Start(Hub) /\ found = {} BY InitInv, KnownAddresses
  <2>2. ledger[Hub].escrow = 0 /\ \A o \in Orders : ledger[Hub].tasks[o] = NoTask
    BY <2>1, StartBalanced, KnownAddresses
  <2>3. PromiseInv BY <2>1, <2>2 DEF PromiseInv, Orders
  <2>4. View(NoTask, {}) = Promise!Nothing
    <3>1. NoTask.target - NoTask.progress = 0 BY DEF NoTask
    <3> QED BY <3>1 DEF View, NoTask, Promise!Nothing
  <2>5. \A o \in HubOrders : PaidNonces(found, o) = {} BY <2>1 DEF PaidNonces
  <2>6. Seen = [o \in HubOrders |-> Promise!Nothing] BY <2>2, <2>4, <2>5 DEF Seen, Orders
  <2>7. Promise!Init BY <2>2, <2>6, Zenon DEF Promise!Init, Seen, View, PaidNonces
  <2> QED BY <2>3, <2>7
<1>2. Inv /\ PromiseInv /\ [Next]_vars => PromiseInv' BY NextPromise
<1>3. Inv /\ PromiseInv /\ [Next]_vars => [Promise!Next]_<<Seen, ledger[Hub].escrow>>
  BY NextPromise DEF Untouched
<1> QED BY <1>1, <1>2, <1>3, LedgersInductive, PTL
        DEF Spec, PromiseKept, Promise!Spec, Seen, View, PaidNonces

=============================================================================
