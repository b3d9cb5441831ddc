---------------------------- MODULE OrderPromise ----------------------------
(***************************************************************************)
(* What a chain node promises the customer of a paid order                 *)
(* (internal/chain/order_tasks.go): the units of every solve are held from *)
(* the start, each solve pays one of them for a nonce that has not paid    *)
(* before, and what is left when the order ends comes back, once.          *)
(***************************************************************************)
EXTENDS Naturals, Functions

CONSTANTS Orders, Nonces, Rewards, Targets

VARIABLES
  promise,   \* of an order: its status, the units of a solve, the solves left, the nonces paid
  held       \* units held for all orders

Nothing == [status |-> "none", reward |-> 0, left |-> 0, solvedBy |-> {}]
Open == {o \in Orders : promise[o].status = "open"}
Owed(o) == promise[o].reward * promise[o].left

Init ==
  /\ promise = [o \in Orders |-> Nothing]
  /\ held = 0

Take(o, reward, left) ==
  /\ promise[o] = Nothing
  /\ promise' = [promise EXCEPT ![o] =
       [status |-> "open", reward |-> reward, left |-> left, solvedBy |-> {}]]
  /\ held' = held + reward * left

\* The orders of a set are given up and their rest goes back to the customer.
GivenUp(set) ==
  [o \in Orders |-> IF o \in set THEN [promise[o] EXCEPT !.status = "cancelled"] ELSE promise[o]]

GiveBack(set) ==
  /\ set # {} /\ set \subseteq Open
  /\ promise' = GivenUp(set)
  /\ held' = held - SumFunction([o \in set |-> Owed(o)])

\* A solve; the same block may end other orders.
Solve(o, n, set) ==
  /\ set \subseteq Open /\ o \in Open \ set
  /\ n \notin promise[o].solvedBy
  /\ promise' = [GivenUp(set) EXCEPT ![o] =
       [status |-> IF promise[o].left = 1 THEN "completed" ELSE "open",
        reward |-> promise[o].reward, left |-> promise[o].left - 1,
        solvedBy |-> promise[o].solvedBy \cup {n}]]
  /\ held' = held - promise[o].reward - SumFunction([p \in set |-> Owed(p)])

Next ==
  \/ \E o \in Orders, reward \in Rewards, left \in Targets : Take(o, reward, left)
  \/ \E set \in SUBSET Orders :
       GiveBack(set) \/ \E o \in Orders, n \in Nonces : Solve(o, n, set)

Spec == Init /\ [][Next]_<<promise, held>>
=============================================================================
