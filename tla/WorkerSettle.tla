---------------------------- MODULE WorkerSettle ----------------------------
(***************************************************************************)
(* The worker payout settler: internal/workersettle (Run and its SQLite    *)
(* ledger) between the coordinator, whose counters say what a worker has   *)
(* earned, and the chain node, whose transfer lane of the payer carries    *)
(* the payouts.  HMC is paid by Run (settler.go), SUP by RunSUP            *)
(* (sup_settle.go) in columns, a nonce and a pool of its own; the two hold *)
(* the same lock and share no other state, so a behaviour shows one lane.  *)
(*                                                                         *)
(* One settler runs at a time (flock on the ledger and on the payer).  Each*)
(* call it makes to the node and each ledger transaction is a step of its  *)
(* own, so that blocks, other senders, a coordinator restart, a lost       *)
(* response and a crash of the settler can fall between any two of them.   *)
(*                                                                         *)
(* A send is handled by the node before the settler's next call, or never. *)
(***************************************************************************)
EXTENDS Integers, Sequences, FiniteSets

CONSTANTS
  Lanes,                \* subset of {"hmc", "sup"}
  Workers,              \* worker ids
  Addresses,            \* payout addresses
  PayoutAddress,        \* [Workers -> Addresses]
  OtherAddress,         \* where the payer's other transfers go
  FirstNonce,           \* the payer's next_nonce at the start
  MinSettle, ForceMin,  \* MinSettleUnits, DailyMinSettleUnits
  MaxChunk,             \* MaxChunkUnits; 0 is no limit
  Headrooms,            \* treasury balance above the reserve, as a run finds it
  NonceRetries,         \* sends per intent
  ForceModes,           \* whether a run may, or must, be a daily force run
  StrandedMaxScan,      \* slots a stranded intent is looked for in
  ClearPending,         \* the operator set CLEAR_PENDING_HMC
  ClearPendingForce,    \* the operator set CLEAR_PENDING_HMC_FORCE
  ClearPendingSUP,      \* the operator set CLEAR_PENDING_SUP
  BlocksBetweenReads,   \* a block may land between the two reads of a lookup
  Increments,           \* what a worker earns at once
  MaxEarned,            \* bound: units a worker earns
  MaxOthers,            \* bound: transfers the payer sends for other reasons
  MaxFaults,            \* bound: crashes, losses and failed lookups
  MaxResets,            \* bound: counters that fall back
  MaxRejects,           \* bound: pending transfers a block refuses
  MaxTransfers          \* bound: no run starts once there are so many transfers

ASSUME SettleAssumption ==
  /\ Lanes \subseteq {"hmc", "sup"}
  /\ Workers # {} /\ PayoutAddress \in [Workers -> Addresses]
  /\ OtherAddress \notin Workers \cup Addresses
  /\ FirstNonce \in Nat /\ MinSettle \in Nat /\ ForceMin \in Nat /\ MaxChunk \in Nat
  /\ Headrooms \subseteq Nat /\ Increments \subseteq Nat \ {0}
  /\ ForceModes \subseteq BOOLEAN /\ NonceRetries \in Nat \ {0} /\ StrandedMaxScan \in Nat
  /\ ClearPending \in BOOLEAN /\ ClearPendingForce \in BOOLEAN
  /\ ClearPendingSUP \in BOOLEAN /\ BlocksBetweenReads \in BOOLEAN
  /\ MaxEarned \in Nat /\ MaxOthers \in Nat /\ MaxFaults \in Nat
  /\ MaxResets \in Nat /\ MaxRejects \in Nat /\ MaxTransfers \in Nat

VARIABLES
  lane,      \* the token this settler pays
  accrued,   \* coordinator: payout_units per worker, since its last reset
  earned,    \* history: what each worker really earned
  settled,   \* ledger: settled_units watermark
  anchor,    \* ledger: session_anchor_units, 0 when unset
  intent,    \* ledger: pending_json
  known,     \* ledger: transfers stamped on an intent or an outbox row
  nonce,     \* node: next_nonce of the payer
  txs,       \* node: transfers of the payer, pool and history, in arrival order
  paid,      \* history: what landed on the chain for each worker
  pc,        \* settler: where the run is
  todo,      \* settler: workers this run has not visited
  seen,      \* settler: the counters fetched at the start of the run
  force,     \* settler: force-settle mode of the run
  cur,       \* settler: the worker being settled
  tries,     \* settler: sends of the current intent
  reply,     \* settler: the tx_hash the node answered
  faults,    \* how many faults have happened
  resets     \* how many resets of a counter have happened

ledger == <<settled, anchor, intent, known>>
node == <<nonce, txs, paid>>
run == <<pc, todo, seen, force, cur, tries, reply>>
bounds == <<faults, resets>>
vars == <<lane, accrued, earned, settled, anchor, intent, known, nonce, txs, paid,
          pc, todo, seen, force, cur, tries, reply, faults, resets>>

NoTx == 0
NoIntent == [amount |-> 0, nonce |-> 0, hash |-> NoTx]

TxIds == 1..Len(txs)
Sup == lane = "sup"
Steps == {"idle", "next", "recover", "resolve", "pool", "prepare", "send",
          "retry", "failed", "history", "inpool", "attach", "confirm"}

----------------------------------------------------------------------------
(* delta.go                                                                 *)

\* ComputeAccrualDelta: what is unpaid of a counter.  A counter below the
\* watermark was reset; only its growth above the session anchor is paid.
Rebase(acc, set) == set > acc
NeedAnchor(acc, set, anc) == Rebase(acc, set) /\ (anc = 0 \/ acc < anc)
\* Mutants: a reset counter is not anchored; its anchor underflows.
NeverAnchored(acc, set, anc) == IF Rebase(acc, set) THEN anc ELSE 0
AnchorUnderflows(acc, set, anc) ==
  IF NeedAnchor(acc, set, anc) THEN acc - set ELSE IF Rebase(acc, set) THEN anc ELSE 0

NewAnchor(acc, set, anc) ==
  IF NeedAnchor(acc, set, anc) THEN acc ELSE IF Rebase(acc, set) THEN anc ELSE 0
Baseline(acc, set, anc) ==
  IF Rebase(acc, set) THEN NewAnchor(acc, set, anc) ELSE set
Delta(acc, set, anc) ==
  IF acc > Baseline(acc, set, anc) THEN acc - Baseline(acc, set, anc) ELSE 0

ShouldSettle(delta) == delta >= MinSettle \/ (~Sup /\ force /\ delta >= ForceMin)

CapChunk(delta, avail) ==
  LET cap == IF MaxChunk > 0 /\ MaxChunk < avail THEN MaxChunk ELSE avail
  IN IF delta < cap THEN delta ELSE cap

\* The delta of the worker being settled, from the counters of this run.
CurRebase == Rebase(seen[cur], settled[cur])
CurBaseline == Baseline(seen[cur], settled[cur], anchor[cur])
CurDelta == Delta(seen[cur], settled[cur], anchor[cur])

----------------------------------------------------------------------------
(* The coordinator and the node.                                            *)

\* The settler is a process: between two runs its variables mean nothing.
AnyWorker == CHOOSE w \in Workers : TRUE
Exit ==
  /\ pc' = "idle" /\ todo' = {} /\ seen' = [w \in Workers |-> 0]
  /\ force' = FALSE /\ cur' = AnyWorker /\ tries' = 0 /\ reply' = NoTx

Init ==
  /\ lane \in Lanes
  /\ accrued = [w \in Workers |-> 0] /\ earned = [w \in Workers |-> 0]
  /\ settled = [w \in Workers |-> 0] /\ anchor = [w \in Workers |-> 0]
  /\ intent = [w \in Workers |-> NoIntent] /\ known = {}
  /\ nonce = FirstNonce /\ txs = << >> /\ paid = [w \in Workers |-> 0]
  /\ pc = "idle" /\ todo = {} /\ seen = [w \in Workers |-> 0]
  /\ force = FALSE /\ cur = AnyWorker /\ tries = 0 /\ reply = NoTx
  /\ faults = 0 /\ resets = 0

Fault == faults < MaxFaults /\ faults' = faults + 1 /\ UNCHANGED resets

\* A share is accepted.
Earn(w, k) ==
  /\ earned[w] + k <= MaxEarned
  /\ accrued' = [accrued EXCEPT ![w] = @ + k]
  /\ earned' = [earned EXCEPT ![w] = @ + k]
  /\ UNCHANGED <<lane, ledger, node, run, bounds>>

\* The coordinator restarts from an older persisted counter, or from nothing.
CounterReset(w) ==
  /\ resets < MaxResets /\ resets' = resets + 1
  /\ \E a \in 0..accrued[w] : a < accrued[w] /\ accrued' = [accrued EXCEPT ![w] = a]
  /\ UNCHANGED <<lane, earned, ledger, node, run, faults>>

\* A block includes the pending transfer of the next nonce.
NoReadPending == pc \notin {"pool", "inpool"}
Include(t) ==
  /\ BlocksBetweenReads \/ NoReadPending
  /\ txs[t].status = "pending" /\ txs[t].nonce = nonce
  /\ nonce' = nonce + 1
  /\ txs' = [txs EXCEPT ![t].status = "included"]
  /\ paid' = [w \in Workers |-> IF w = txs[t].owner THEN paid[w] + txs[t].amount
                                ELSE paid[w]]
  /\ UNCHANGED <<lane, accrued, earned, ledger, run, bounds>>

\* A block refuses it: too old by now, or the payer's balance fell.
Reject(t) ==
  /\ Cardinality({u \in TxIds : txs[u].status = "rejected"}) < MaxRejects
  /\ txs[t].status = "pending"
  /\ txs' = [txs EXCEPT ![t].status = "rejected"]
  /\ UNCHANGED <<lane, accrued, earned, ledger, nonce, paid, run, bounds>>

\* SubmitTransferTx: one pending transfer per nonce, and only at next_nonce.
PoolHasNonce(n) == \E t \in TxIds : txs[t].status = "pending" /\ txs[t].nonce = n
Accepts(n) == n = nonce /\ ~PoolHasNonce(n)

\* The owner is a history field: the worker whose intent the transfer serves.
NewTx(to, amount, n, owner) ==
  [to |-> to, amount |-> amount, nonce |-> n, status |-> "pending", owner |-> owner]

\* The payer's wallet is used for something else: a refund, a manual transfer.
OtherSend ==
  /\ Cardinality({t \in TxIds : txs[t].owner = OtherAddress}) < MaxOthers
  /\ Accepts(nonce)
  /\ txs' = Append(txs, NewTx(OtherAddress, 1, nonce, OtherAddress))
  /\ UNCHANGED <<lane, accrued, earned, ledger, nonce, paid, run, bounds>>

----------------------------------------------------------------------------
(* One run of the settler.                                                  *)

Goto(step) == pc' = step /\ UNCHANGED <<todo, seen, force, cur, tries, reply>>

\* The loop goes on to the next worker and forgets what it read of this one.
Leave(w) ==
  /\ pc' = "next" /\ seen' = [seen EXCEPT ![w] = 0]
  /\ cur' = AnyWorker /\ tries' = 0 /\ reply' = NoTx
  /\ UNCHANGED force
NextWorker == Leave(cur) /\ UNCHANGED todo

\* Run: take the locks, fetch the coordinator's counters.
StartRun ==
  /\ pc = "idle" /\ Len(txs) < MaxTransfers
  /\ pc' = "next" /\ todo' = Workers /\ seen' = accrued
  /\ force' \in ForceModes
  /\ UNCHANGED <<cur, tries, reply, lane, accrued, earned, ledger, node, bounds>>

EndRun ==
  /\ pc = "next" /\ todo = {}
  /\ Exit
  /\ UNCHANGED <<lane, accrued, earned, ledger, node, bounds>>

\* The head of the loop over workers: set or clear the session anchor, leave a
\* worker below the floor alone, and branch on its intent.
\* An error of the write that clears an anchor is ignored.
WriteAnchor(w) ==
  \/ /\ anchor' = [anchor EXCEPT ![w] = NewAnchor(seen[w], settled[w], @)]
     /\ UNCHANGED bounds
  \/ /\ ~Rebase(seen[w], settled[w]) /\ anchor[w] # 0
     /\ Fault /\ UNCHANGED anchor

TooLittle(w) ==
  LET delta == Delta(seen[w], settled[w], anchor[w])
  IN ~ShouldSettle(delta) \/ delta = 0
Enter(w, step) == pc' = step /\ cur' = w /\ UNCHANGED <<seen, force, tries, reply>>
IntentStep(w) == IF intent[w].hash # NoTx THEN "recover" ELSE "resolve"

Visit(w) ==
  /\ pc = "next" /\ w \in todo /\ ~Sup
  /\ todo' = todo \ {w}
  /\ WriteAnchor(w)
  /\ IF TooLittle(w) THEN Leave(w)
     ELSE Enter(w, IF intent[w] = NoIntent THEN "prepare" ELSE IntentStep(w))
  /\ UNCHANGED <<lane, settled, intent, known, accrued, earned, node>>

\* The SUP lane looks at the intent first.
SupVisit(w) ==
  /\ pc = "next" /\ w \in todo /\ Sup
  /\ todo' = todo \ {w}
  /\ WriteAnchor(w)
  /\ CASE intent[w] # NoIntent -> Enter(w, IntentStep(w))
       [] intent[w] = NoIntent /\ TooLittle(w) -> Leave(w)
       [] OTHER -> Enter(w, "prepare")
  /\ UNCHANGED <<lane, settled, intent, known, accrued, earned, node>>

\* ApplySettleUnits: move the watermark, clear the intent.
ApplySettle(amount, anc) ==
  /\ settled' = [settled EXCEPT ![cur] = @ + amount]
  /\ anchor' = [anchor EXCEPT ![cur] = anc]
  /\ intent' = [intent EXCEPT ![cur] = NoIntent]
  /\ UNCHANGED known

\* AttachTxHash, ClearPending.
AttachTxHash(t) ==
  /\ intent' = [intent EXCEPT ![cur].hash = t]
  /\ known' = known \cup {t}
  /\ UNCHANGED <<settled, anchor>>
DropIntent ==
  /\ intent' = [intent EXCEPT ![cur] = NoIntent]
  /\ UNCHANGED <<settled, anchor, known>>

\* Mutant: a transfer counts as confirmed as long as it is not rejected.
NotRejected(t) == txs[t].status # "rejected"

Included(t) == txs[t].status = "included"

\* Mutant: the anchor jumps to the counter.
ConfirmAnchorJumps == IF CurRebase THEN seen[cur] ELSE 0

\* The anchor after a confirmed payout: it moves by what was paid.
ConfirmAnchor == IF CurRebase THEN CurBaseline + intent[cur].amount ELSE 0

\* The anchor after a recovered payout of the HMC lane.
RecoverAnchor == IF CurRebase THEN seen[cur] ELSE 0

KeepUnconfirmed ==
  IF ClearPending /\ ClearPendingForce THEN DropIntent ELSE UNCHANGED ledger

\* Crash recovery of an intent with a tx_hash: apply it when it is included,
\* otherwise never send again; only a forced clear drops it.
Recover ==
  /\ pc = "recover" /\ ~Sup
  /\ NextWorker
  /\ \/ Included(intent[cur].hash) /\ ApplySettle(intent[cur].amount, RecoverAnchor)
     \/ /\ ~Included(intent[cur].hash)
        /\ KeepUnconfirmed
  /\ UNCHANGED <<lane, accrued, earned, node, bounds>>

\* The SUP lane moves the anchor as a confirmed payout does, and drops the intent
\* of a transfer the chain refused.
SupRecover ==
  /\ pc = "recover" /\ Sup
  /\ NextWorker
  /\ CASE txs[intent[cur].hash].status = "included" -> ApplySettle(intent[cur].amount, ConfirmAnchor)
       [] txs[intent[cur].hash].status = "rejected" -> DropIntent
       [] OTHER -> UNCHANGED ledger
  /\ UNCHANGED <<lane, accrued, earned, node, bounds>>

\* The transfers that match an intent, and what the slot of a nonce says of it.
Matches(t) == txs[t].to = PayoutAddress[cur] /\ txs[t].amount = intent[cur].amount
Slot(n) == {t \in TxIds : txs[t].nonce = n}
SlotPaid(n) == {t \in Slot(n) : Matches(t) /\ Included(t)}

\* Mutant: a slot taken by a transfer to someone else decides nothing.
SlotNeverTaken(n) == FALSE

SlotTaken(n) ==
  /\ \E t \in Slot(n) : Included(t) /\ txs[t].to # PayoutAddress[cur]
  /\ ~\E t \in Slot(n) : Matches(t) /\ txs[t].status = "pending"

\* An intent the chain does not decide is kept.  CLEAR_PENDING_HMC drops it
\* unless the payer's nonce is seen to have moved past it.
KeepIntent(readable) ==
  IF /\ ClearPending
     /\ \/ ClearPendingForce
        \/ intent[cur].nonce = 0
        \/ ~readable
        \/ nonce <= intent[cur].nonce
  THEN DropIntent
  ELSE UNCHANGED ledger

\* resolveStrandedPending, first part: the nonce and the slots below it.  The
\* first slot not taken by a transfer to someone else decides.
Scannable ==
  /\ intent[cur].nonce > 0
  /\ nonce >= intent[cur].nonce
  /\ nonce - intent[cur].nonce <= StrandedMaxScan
Undecided(n) == SlotTaken(n) /\ SlotPaid(n) = {}
Deciding == {n \in intent[cur].nonce..(nonce - 1) : ~Undecided(n)}
FirstDeciding == CHOOSE n \in Deciding : \A m \in Deciding : n <= m

Resolve ==
  /\ pc = "resolve" /\ ~Sup
  /\ \/ /\ Scannable /\ Deciding = {}
        /\ Goto("pool") /\ UNCHANGED ledger
     \/ /\ Scannable /\ Deciding # {}
        /\ NextWorker
        /\ IF SlotPaid(FirstDeciding) # {}
           THEN \E t \in SlotPaid(FirstDeciding) :
                  IF t \in known THEN UNCHANGED ledger ELSE AttachTxHash(t)
           ELSE KeepIntent(TRUE)
     \/ ~Scannable /\ NextWorker /\ KeepIntent(TRUE)
  /\ UNCHANGED <<lane, accrued, earned, node, bounds>>

\* resolveStrandedPending, second part: no matching transfer in the mempool
\* means that the intent was never sent.

\* Mutant: the mempool is not consulted.
PoolSkipped == FALSE

PoolHasTransfer == \E t \in TxIds : txs[t].status = "pending" /\ Matches(t)
ResolvePool ==
  /\ pc = "pool" /\ ~Sup
  /\ NextWorker
  /\ IF PoolHasTransfer THEN KeepIntent(TRUE) ELSE DropIntent
  /\ UNCHANGED <<lane, accrued, earned, node, bounds>>

\* The SUP lane keeps an intent without a hash.  CLEAR_PENDING_SUP reads the
\* mempool, then the nonce, and drops the intent when neither shows a send.
SupClearPool ==
  /\ pc = "resolve" /\ Sup
  /\ IF ClearPendingSUP /\ ~PoolHasTransfer THEN Goto("pool") ELSE NextWorker
  /\ UNCHANGED <<lane, accrued, earned, ledger, node, bounds>>

SupClear ==
  /\ pc = "pool" /\ Sup
  /\ NextWorker
  /\ IF nonce <= intent[cur].nonce THEN DropIntent ELSE UNCHANGED ledger
  /\ UNCHANGED <<lane, accrued, earned, node, bounds>>

\* Cap the payout, read the nonce, record the intent before anything is sent.
Prepare ==
  /\ pc = "prepare"
  /\ \E avail \in Headrooms :
       LET amount == CapChunk(CurDelta, avail)
       IN IF amount = 0 THEN NextWorker /\ UNCHANGED ledger
          ELSE /\ intent' = [intent EXCEPT
                    ![cur] = [amount |-> amount, nonce |-> nonce, hash |-> NoTx]]
               /\ Goto("send")
               /\ UNCHANGED <<settled, anchor, known>>
  /\ UNCHANGED <<lane, accrued, earned, node, bounds>>

\* The node accepts the transfer; its response arrives or is lost.
SendAccepted ==
  /\ pc = "send"
  /\ Accepts(intent[cur].nonce)
  /\ txs' = Append(txs, NewTx(PayoutAddress[cur], intent[cur].amount, intent[cur].nonce, cur))
  /\ \/ pc' = "attach" /\ reply' = Len(txs) + 1 /\ UNCHANGED bounds
     \/ pc' = "failed" /\ Fault /\ UNCHANGED reply
  /\ UNCHANGED <<todo, seen, force, cur, tries, lane, accrued, earned, ledger, nonce, paid>>

\* invalid_nonce or pending_nonce_conflict: try again, a bounded number of times;
\* the SUP lane does not.
SendRefused ==
  /\ pc = "send"
  /\ ~Accepts(intent[cur].nonce)
  /\ tries' = tries + 1
  /\ pc' = IF ~Sup /\ tries + 1 < NonceRetries THEN "retry" ELSE "failed"
  /\ UNCHANGED <<todo, seen, force, cur, reply, lane, accrued, earned, ledger, node, bounds>>

\* The request does not reach the node, or is refused for another reason.
SendFails ==
  /\ pc = "send"
  /\ Fault
  /\ Goto("failed")
  /\ UNCHANGED <<lane, accrued, earned, ledger, node>>

\* An advanced nonce may be our own first send: keep the intent, do not retry.
Retry ==
  /\ pc = "retry"
  /\ IF nonce > intent[cur].nonce THEN NextWorker ELSE Goto("send")
  /\ UNCHANGED <<lane, accrued, earned, ledger, node, bounds>>

\* After a failed send: an advanced nonce keeps the intent, otherwise the node is
\* asked for the transfers of that nonce, history first and pool second.
AfterFailure == IF Sup THEN "inpool" ELSE "history"
SendFailed ==
  /\ pc = "failed"
  /\ IF nonce > intent[cur].nonce THEN NextWorker ELSE Goto(AfterFailure)
  /\ UNCHANGED <<lane, accrued, earned, ledger, node, bounds>>

FindIn(status, otherwise) ==
  LET found == {t \in Slot(intent[cur].nonce) : Matches(t) /\ txs[t].status = status}
  IN IF found # {} THEN NextWorker /\ \E t \in found : AttachTxHash(t)
     ELSE otherwise

FindInHistory ==
  /\ pc = "history"
  /\ FindIn("included", Goto("inpool") /\ UNCHANGED ledger)
  /\ UNCHANGED <<lane, accrued, earned, node, bounds>>

FindInPool ==
  /\ pc = "inpool" /\ ~Sup
  /\ FindIn("pending", NextWorker /\ DropIntent)
  /\ UNCHANGED <<lane, accrued, earned, node, bounds>>

\* findSUPInflight: the pool alone, whatever the nonce.
SupFindInPool ==
  LET found == {t \in TxIds : Matches(t) /\ txs[t].status = "pending"}
  IN /\ pc = "inpool" /\ Sup
     /\ NextWorker
     /\ \/ \E t \in found : AttachTxHash(t)
        \/ found = {} /\ DropIntent
     /\ UNCHANGED <<lane, accrued, earned, node, bounds>>

\* Stamp the tx_hash on the intent and wait for its inclusion.
Attach ==
  /\ pc = "attach"
  /\ AttachTxHash(reply)
  /\ Goto("confirm")
  /\ UNCHANGED <<lane, accrued, earned, node, bounds>>

Confirm ==
  /\ pc = "confirm"
  /\ NextWorker
  /\ IF Included(reply) THEN ApplySettle(intent[cur].amount, ConfirmAnchor)
     ELSE UNCHANGED ledger
  /\ UNCHANGED <<lane, accrued, earned, node, bounds>>

\* A lookup or a ledger write fails: the worker is left for the next run with
\* the intent it has, as far as the operator's clears allow.
LookupFails ==
  /\ Fault
  /\ \/ /\ pc = "next"
        /\ \E w \in todo : Leave(w) /\ todo' = todo \ {w}
        /\ UNCHANGED ledger
     \/ pc = "recover" /\ NextWorker /\ ((~Sup /\ KeepUnconfirmed) \/ UNCHANGED ledger)
     \/ /\ pc \in {"resolve", "pool"} /\ NextWorker
        /\ (~Sup /\ \E b \in BOOLEAN : KeepIntent(b)) \/ UNCHANGED ledger
     \/ pc = "retry" /\ Goto("failed") /\ UNCHANGED ledger
     \/ pc = "failed" /\ Goto(AfterFailure) /\ UNCHANGED ledger
     \/ /\ pc \in {"prepare", "history", "inpool", "attach", "confirm"}
        /\ NextWorker /\ UNCHANGED ledger
  /\ UNCHANGED <<lane, accrued, earned, node>>

\* The settler dies; the ledger and the node keep what they have.
Crash ==
  /\ pc # "idle"
  /\ Fault
  /\ Exit
  /\ UNCHANGED <<lane, accrued, earned, ledger, node>>

SettlerStep ==
  \/ StartRun \/ EndRun \/ (\E w \in Workers : Visit(w) \/ SupVisit(w))
  \/ Recover \/ Resolve \/ ResolvePool \/ Prepare
  \/ SupRecover \/ SupClearPool \/ SupClear \/ SupFindInPool
  \/ SendAccepted \/ SendRefused \/ Retry
  \/ SendFailed \/ FindInHistory \/ FindInPool \/ Attach \/ Confirm

BlockStep == \E t \in TxIds : Include(t)

Next ==
  \/ SettlerStep
  \/ BlockStep
  \/ SendFails \/ LookupFails \/ Crash \/ OtherSend
  \/ \E t \in TxIds : Reject(t)
  \/ \E w \in Workers : CounterReset(w)
  \/ \E w \in Workers, k \in Increments : Earn(w, k)

Spec == Init /\ [][Next]_vars

\* A timer starts runs, a run goes on, and blocks are produced.
FairSpec == Spec /\ WF_vars(SettlerStep) /\ WF_vars(BlockStep)

----------------------------------------------------------------------------
(* Properties.                                                              *)

Intent == [amount : Nat, nonce : Nat, hash : Nat]
Tx == [to : Addresses \cup {OtherAddress}, amount : Nat, nonce : Nat,
       status : {"pending", "included", "rejected"}, owner : Workers \cup {OtherAddress}]

\* Type invariant: every counter and column holds a value of its type.
TypeOK ==
  /\ lane \in Lanes
  /\ accrued \in [Workers -> Nat] /\ earned \in [Workers -> Nat]
  /\ settled \in [Workers -> Nat] /\ anchor \in [Workers -> Nat]
  /\ intent \in [Workers -> Intent] /\ known \subseteq Nat
  /\ nonce \in Nat /\ txs \in Seq(Tx) /\ paid \in [Workers -> Nat]
  /\ pc \in Steps /\ todo \subseteq Workers /\ seen \in [Workers -> Nat]
  /\ force \in BOOLEAN /\ cur \in Workers /\ tries \in Nat /\ reply \in Nat
  /\ faults \in Nat /\ resets \in Nat

\* No worker receives more than it earned, whatever crashes, resets of the
\* counters, lost responses and nonce conflicts do (the "double pay" the
\* settler's comments are about).
NeverOverpaid == \A w \in Workers : paid[w] <= earned[w]

\* The watermark never claims a payout that did not land: ApplySettleUnits only
\* runs for an included transfer, and a transfer counts for one intent.
SettledWasPaid == \A w \in Workers : settled[w] <= paid[w]

\* A payout that is in flight, or landed and not yet booked, is still covered by
\* the intent that sent it, and there is one at most: what allows the settler to
\* send whenever it finds no intent.
Unbooked(w) == {t \in TxIds : /\ txs[t].owner = w /\ txs[t].status # "rejected"
                             /\ ~(t \in known /\ t # intent[w].hash)}
InFlightHasIntent ==
  \A w \in Workers : \A t \in Unbooked(w) :
    /\ Unbooked(w) = {t}
    /\ intent[w].amount = txs[t].amount
    /\ intent[w].hash \in {NoTx, t}

\* What a run would find to pay to a worker now.
Owed(w) == Delta(accrued[w], settled[w], anchor[w])
BookedKeepsOwed ==
  \A w \in Workers : settled'[w] > settled[w] =>
    Owed(w)' >= Owed(w) - (settled'[w] - settled[w])

\* Booking a confirmed payout takes no more off what is owed than was paid: a
\* partial chunk after a counter reset leaves the remainder payable, in the SUP lane
\* also when a later run books it.
ConfirmKeepsRemainder == [][pc = "confirm" \/ Sup => BookedKeepsOwed]_vars

\* Without resets and rejected transfers, whatever crashes, losses and other
\* senders do, everything earned above the floor is paid and booked in the end.
EventuallySettled == <>[](\A w \in Workers : Owed(w) < MinSettle)
=============================================================================
