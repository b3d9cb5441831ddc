------------------------- MODULE WorkerSettleProofs -------------------------
(***************************************************************************)
(* What holds of the payout settler for every number of workers, every     *)
(* floor, chunk and headroom, and however many blocks, other transfers,    *)
(* resets, rejections and faults there are.                                *)
(***************************************************************************)
EXTENDS WorkerSettle, SequenceTheorems, TLAPS

\* The two lookups of a failed send are one moment, nobody uses the operator's
\* clears, no two workers share an address, and in the SUP lane, which takes a
\* failed read of the nonce for a nonce that did not move, at most one thing fails.
Careful ==
  /\ ~BlocksBetweenReads /\ ~ClearPending
  /\ \A v, w \in Workers : PayoutAddress[v] = PayoutAddress[w] => v = w
  /\ "sup" \in Lanes => MaxFaults <= 1

----------------------------------------------------------------------------
(* The invariants.                                                          *)

\* The node.  One transfer is pending at most, at the payer's next nonce.
Is(t, status) == txs[t].status = status
NodeInv ==
  /\ \A t \in TxIds :
       /\ Is(t, "pending") => txs[t].nonce = nonce
       /\ Is(t, "included") => txs[t].nonce < nonce
       /\ txs[t].owner \in Workers => /\ txs[t].to = PayoutAddress[txs[t].owner]
                                      /\ txs[t].amount # 0
       /\ txs[t].owner = OtherAddress => txs[t].to = OtherAddress
  /\ \A t, u \in TxIds : Is(t, "pending") /\ Is(u, "pending") => t = u

\* The ledger.  A transfer that is stamped and no intent's is decided, and older
\* than the intent there is; what landed is booked but for the intent's transfer.
Landed(w) == \E t \in Unbooked(w) : Included(t)
IntentInv(w) ==
  /\ \A t \in Unbooked(w) :
       /\ \A u \in Unbooked(w) : t = u
       /\ intent[w].amount = txs[t].amount /\ intent[w].nonce = txs[t].nonce
       /\ intent[w].hash \in {NoTx, t}
  /\ intent[w] # NoIntent => intent[w].amount # 0
  /\ intent[w].hash # NoTx =>
       /\ intent[w].hash \in known \cap TxIds
       /\ txs[intent[w].hash].owner = w /\ txs[intent[w].hash].amount = intent[w].amount
  /\ \A t \in known \cap TxIds : txs[t].owner = w /\ t # intent[w].hash =>
       \/ Is(t, "rejected")
       \/ Is(t, "included") /\ (intent[w] # NoIntent => txs[t].nonce < intent[w].nonce)
BookInv(w) == paid[w] = IF Landed(w) THEN settled[w] + intent[w].amount ELSE settled[w]
LedgerInv ==
  /\ known \subseteq TxIds
  /\ \A w \in Workers : IntentInv(w) /\ BookInv(w)

\* The settler.  Where it is says what its worker's intent is, and what it has
\* found out about the intent's transfer.
Idle == {"idle", "next"}
Open == {"resolve", "pool", "send", "retry", "failed", "history", "inpool", "attach"}
RunAt(w) ==
  /\ pc \in Open => intent[w] # NoIntent /\ intent[w].hash = NoTx
  /\ pc \in {"recover", "confirm"} => intent[w].hash # NoTx
  /\ pc = "prepare" => intent[w] = NoIntent
  /\ pc \in {"send", "retry"} => Unbooked(w) = {}
  /\ pc = "inpool" \/ (pc = "pool" /\ ~Sup) => \A t \in Unbooked(w) : Is(t, "pending")
  /\ pc = "pool" /\ Sup => \A t \in Unbooked(w) : Is(t, "included")
  /\ pc = "attach" =>
       /\ reply \in TxIds \ known /\ reply # NoTx /\ txs[reply].owner = w
       /\ txs[reply].amount = intent[w].amount /\ \A t \in Unbooked(w) : t = reply
  /\ pc = "confirm" => reply = intent[w].hash
  /\ Sup /\ pc = "failed" /\ Unbooked(w) # {} => faults > 0
RunInv ==
  /\ pc = "idle" => todo = {}
  /\ pc \notin Idle => cur \notin todo /\ RunAt(cur)
  /\ faults <= MaxFaults

\* What is earned covers what is booked, the intent, and what a run may still find
\* to pay: from the counter, from the counter the run has read, and above the anchor.
InRun(w) == w \in todo \/ (pc \notin Idle /\ w = cur)
EarnInv(w) ==
  /\ accrued[w] <= earned[w]
  /\ settled[w] + intent[w].amount <= earned[w]
  /\ anchor[w] # 0 => settled[w] + accrued[w] <= earned[w] + anchor[w]
  /\ InRun(w) =>
       /\ seen[w] <= earned[w]
       /\ settled[w] + intent[w].amount + accrued[w] <= earned[w] + seen[w]
       /\ anchor[w] # 0 => settled[w] + seen[w] <= earned[w] + anchor[w]
CoverInv == \A w \in Workers : EarnInv(w)

SafeInv == NodeInv /\ LedgerInv /\ RunInv /\ CoverInv

----------------------------------------------------------------------------
(* Transfers.                                                               *)

\* A transfer of the pool or of the history has its type.
LEMMA TxTypes ==
  ASSUME TypeOK
  PROVE  /\ Len(txs) \in Nat /\ NoTx \notin TxIds /\ TxIds \subseteq Nat
         /\ \A t \in TxIds : txs[t] \in Tx
<1>1. txs \in Seq(Tx) BY DEF TypeOK
<1>2. Len(txs) \in Nat /\ \A t \in 1..Len(txs) : txs[t] \in Tx BY <1>1, ElementOfSeq, LenProperties
<1> QED BY <1>2 DEF TxIds, NoTx

\* A transfer is accepted into the pool.
LEMMA Sent ==
  ASSUME TypeOK, NEW r \in Tx, txs' = Append(txs, r)
  PROVE  /\ txs' \in Seq(Tx) /\ TxIds' = TxIds \cup {Len(txs) + 1}
         /\ Len(txs) + 1 \notin TxIds
         /\ \A t \in TxIds : txs'[t] = txs[t]
         /\ txs'[Len(txs) + 1] = r
<1>1. txs \in Seq(Tx) /\ Len(txs) \in Nat BY TxTypes DEF TypeOK
<1>2. /\ txs' \in Seq(Tx) /\ Len(txs') = Len(txs) + 1
      /\ \A t \in 1..Len(txs) : txs'[t] = txs[t]
      /\ txs'[Len(txs) + 1] = r
  BY <1>1, AppendProperties
<1>3. TxIds' = 1..(Len(txs) + 1) BY <1>2 DEF TxIds
<1>4. 1..(Len(txs) + 1) = 1..Len(txs) \cup {Len(txs) + 1} BY <1>1
<1>5. Len(txs) + 1 \notin 1..Len(txs) BY <1>1
<1> QED BY <1>2, <1>3, <1>4, <1>5 DEF TxIds

\* A block includes or refuses a transfer.
LEMMA Restated ==
  ASSUME TypeOK, NEW t \in TxIds, NEW s \in {"included", "rejected"},
         txs' = [txs EXCEPT ![t].status = s]
  PROVE  /\ txs' \in Seq(Tx) /\ TxIds' = TxIds
         /\ \A u \in TxIds : /\ txs'[u].owner = txs[u].owner /\ txs'[u].to = txs[u].to
                             /\ txs'[u].amount = txs[u].amount /\ txs'[u].nonce = txs[u].nonce
                             /\ txs'[u].status = IF u = t THEN s ELSE txs[u].status
<1> DEFINE r == [txs[t] EXCEPT !.status = s]
<1>1. txs \in Seq(Tx) /\ txs[t] \in Tx BY TxTypes DEF TypeOK
<1>2. /\ r \in Tx /\ r.owner = txs[t].owner /\ r.to = txs[t].to /\ r.amount = txs[t].amount
      /\ r.nonce = txs[t].nonce /\ r.status = s
  BY <1>1 DEF Tx
<1>3. txs' = [txs EXCEPT ![t] = r] OBVIOUS
<1> HIDE DEF r
<1>4. /\ txs' \in Seq(Tx) /\ Len(txs') = Len(txs)
      /\ \A u \in 1..Len(txs) : txs'[u] = IF u = t THEN r ELSE txs[u]
  BY <1>1, <1>2, <1>3, ExceptSeq DEF TxIds
<1> QED BY <1>2, <1>4 DEF TxIds

----------------------------------------------------------------------------
(* What a step does to the ledger.                                          *)

\* The types of an intent.
LEMMA IntentTypes ==
  ASSUME TypeOK, NEW w \in Workers
  PROVE  /\ intent[w] \in Intent /\ intent[w].amount \in Nat /\ intent[w].nonce \in Nat
         /\ intent[w].hash \in Nat /\ settled[w] \in Nat /\ anchor[w] \in Nat
         /\ accrued[w] \in Nat /\ earned[w] \in Nat /\ seen[w] \in Nat /\ paid[w] \in Nat
BY DEF TypeOK, Intent

\* No intent is an intent for nothing.
LEMMA NoIntentType ==
  NoIntent \in Intent /\ NoIntent.amount = 0 /\ NoIntent.nonce = 0 /\ NoIntent.hash = NoTx
BY DEF NoIntent, Intent, NoTx

\* A transfer that is pending for a worker, or was included and not stamped, is
\* the one its intent is about.
LEMMA PendingIsOpen ==
  ASSUME TypeOK, LedgerInv, NEW w \in Workers, NEW t \in TxIds,
         txs[t].owner = w, Is(t, "pending") \/ (Is(t, "included") /\ t \notin known)
  PROVE  t \in Unbooked(w)
BY DEF LedgerInv, IntentInv, Unbooked, Is

\* A step that leaves the node, the intents, the stamps and the watermarks alone.
LEMMA LedgerSame ==
  ASSUME NodeInv, LedgerInv, UNCHANGED <<node, settled, intent, known>>
  PROVE  NodeInv' /\ LedgerInv'
<1>1. NodeInv' BY DEF NodeInv, node, Is, TxIds
<1>2. \A w \in Workers : Unbooked(w)' = Unbooked(w) BY DEF Unbooked, node, TxIds
<1>3. \A w \in Workers : (Landed(w))' <=> Landed(w) BY <1>2 DEF Landed, Included, node
<1>4. ASSUME NEW w \in Workers PROVE IntentInv(w)' /\ BookInv(w)'
  <2>1. IntentInv(w)' BY <1>2 DEF LedgerInv, IntentInv, Is, node, TxIds
  <2>2. BookInv(w)' BY <1>3 DEF LedgerInv, BookInv, node
  <2> QED BY <2>1, <2>2
<1> QED BY <1>1, <1>4 DEF LedgerInv, node, TxIds

\* An intent that nothing is in flight for is dropped.
LEMMA LedgerDrop ==
  ASSUME TypeOK, NodeInv, LedgerInv, NEW c \in Workers, c = cur, DropIntent, UNCHANGED node,
         Unbooked(c) = {}
  PROVE  NodeInv' /\ LedgerInv'
<1>1. NodeInv' BY DEF NodeInv, node, Is, TxIds
<1>2. /\ intent'[c] = NoIntent /\ \A w \in Workers \ {c} : intent'[w] = intent[w]
      /\ known' = known /\ settled' = settled /\ txs' = txs /\ paid' = paid
  BY DEF DropIntent, node, TypeOK
<1>3. ASSUME NEW w \in Workers, w # c PROVE IntentInv(w)' /\ BookInv(w)'
  <2>1. intent'[w] = intent[w] /\ Unbooked(w)' = Unbooked(w) BY <1>2, <1>3 DEF Unbooked, TxIds
  <2>2. IntentInv(w)' BY <1>2, <2>1 DEF LedgerInv, IntentInv, Is, TxIds
  <2>3. Landed(w)' <=> Landed(w) BY <1>2, <2>1 DEF Landed, Included
  <2>4. BookInv(w)' BY <1>2, <2>1, <2>3 DEF LedgerInv, BookInv
  <2> QED BY <2>2, <2>4
<1>4. Unbooked(c)' = {}
  <2>1. NoTx \notin TxIds BY TxTypes
  <2> QED BY <1>2, <2>1, NoIntentType DEF Unbooked, TxIds, LedgerInv, IntentInv
<1>5. IntentInv(c)'
  BY <1>2, <1>4, NoIntentType DEF LedgerInv, IntentInv, Is, TxIds, Unbooked
<1>6. BookInv(c)'
  <2>1. ~Landed(c) /\ ~(Landed(c)') BY <1>4 DEF Landed
  <2> QED BY <1>2, <2>1 DEF LedgerInv, BookInv
<1> QED BY <1>1, <1>2, <1>3, <1>5, <1>6 DEF LedgerInv, TxIds

\* What a step leaves alone of a worker that it is not about.
Apart(w) ==
  /\ intent'[w] = intent[w] /\ settled'[w] = settled[w] /\ paid'[w] = paid[w]
  /\ Unbooked(w)' = Unbooked(w)
\* The step keeps what the ledger says of that worker.
LEMMA LedgerApart ==
  ASSUME LedgerInv, NEW w \in Workers, Apart(w), TxIds \subseteq TxIds',
         \A t \in TxIds : txs'[t].owner = txs[t].owner,
         \A t \in TxIds : txs[t].owner = w => txs'[t] = txs[t],
         \A t \in known' : t \in known \/ txs'[t].owner # w,
         known \subseteq known'
  PROVE  IntentInv(w)' /\ BookInv(w)'
<1>1. \A t \in Unbooked(w) : t \in TxIds /\ txs'[t] = txs[t] BY DEF Unbooked
<1>2. IntentInv(w)'
  <2>1. IntentInv(w) /\ known \subseteq TxIds BY DEF LedgerInv
  <2>2. \A t \in Unbooked(w)' :
          /\ \A u \in Unbooked(w)' : t = u
          /\ intent'[w].amount = txs'[t].amount /\ intent'[w].nonce = txs'[t].nonce
          /\ intent'[w].hash \in {NoTx, t}
    BY <1>1, <2>1 DEF Apart, IntentInv
  <2>3. intent'[w].hash # NoTx =>
          /\ intent'[w].hash \in known' \cap TxIds'
          /\ txs'[intent'[w].hash].owner = w /\ txs'[intent'[w].hash].amount = intent'[w].amount
    BY <2>1 DEF Apart, IntentInv
  <2>4. \A t \in known' \cap TxIds' : txs'[t].owner = w /\ t # intent'[w].hash =>
          \/ txs'[t].status = "rejected"
          \/ /\ txs'[t].status = "included"
             /\ intent'[w] # NoIntent => txs'[t].nonce < intent'[w].nonce
    BY <2>1 DEF Apart, IntentInv, Is
  <2> QED BY <2>1, <2>2, <2>3, <2>4 DEF Apart, IntentInv, Is
<1>3. Landed(w)' <=> Landed(w) BY <1>1 DEF Apart, Landed, Included
<1> QED BY <1>2, <1>3 DEF Apart, LedgerInv, BookInv

\* An intent is stamped with the transfer that serves it.
LEMMA LedgerAttach ==
  ASSUME TypeOK, NodeInv, LedgerInv, NEW c \in Workers, c = cur, NEW t \in TxIds,
         t \notin known, txs[t].owner = c, txs[t].amount = intent[c].amount,
         \A u \in Unbooked(c) : u = t,
         intent[c] # NoIntent, intent[c].hash = NoTx, AttachTxHash(t), UNCHANGED node
  PROVE  /\ NodeInv' /\ LedgerInv' /\ intent'[c].hash = t
         /\ \A w \in Workers : intent'[w].amount = intent[w].amount
<1>1. NodeInv' BY DEF NodeInv, node, Is, TxIds
<1>2. /\ intent'[c] = [intent[c] EXCEPT !.hash = t]
      /\ \A w \in Workers \ {c} : intent'[w] = intent[w]
      /\ known' = known \cup {t} /\ settled' = settled /\ txs' = txs /\ paid' = paid
      /\ TxIds' = TxIds
  BY DEF AttachTxHash, node, TypeOK, TxIds
<1>3. t # NoTx BY TxTypes
<1>4. /\ intent'[c].hash = t /\ intent'[c].amount = intent[c].amount
      /\ intent'[c].nonce = intent[c].nonce
  BY <1>2, IntentTypes DEF Intent
<1>5. ASSUME NEW w \in Workers, w # c PROVE IntentInv(w)' /\ BookInv(w)'
  <2>1. Unbooked(w)' = Unbooked(w) BY <1>2, <1>5 DEF Unbooked
  <2>2. Apart(w) BY <1>2, <1>5, <2>1 DEF Apart
  <2> QED BY <1>2, <1>5, <2>2, LedgerApart
<1>6. Unbooked(c)' = Unbooked(c)
  <2>1. \A u \in TxIds : u \in known => u # NoTx BY TxTypes
  <2> QED BY <1>2, <1>4, <2>1 DEF Unbooked, LedgerInv
<1>7. IntentInv(c) /\ BookInv(c) /\ known \subseteq TxIds BY DEF LedgerInv
<1>8. IntentInv(c)'
  <2>1. intent'[c].amount # 0 BY <1>4, <1>7 DEF IntentInv
  <2>2. \A u \in Unbooked(c)' :
          /\ \A v \in Unbooked(c)' : u = v
          /\ intent'[c].amount = txs'[u].amount /\ intent'[c].nonce = txs'[u].nonce
          /\ intent'[c].hash \in {NoTx, u}
    BY <1>2, <1>4, <1>6, <1>7 DEF IntentInv
  <2>3. \A u \in known' \cap TxIds' : txs'[u].owner = c /\ u # intent'[c].hash =>
          \/ txs'[u].status = "rejected"
          \/ txs'[u].status = "included" /\ txs'[u].nonce < intent'[c].nonce
    BY <1>2, <1>4, <1>7, TxTypes DEF IntentInv, Is
  <2> QED BY <1>2, <1>4, <2>1, <2>2, <2>3 DEF IntentInv, Is
<1>9. BookInv(c)'
  <2>1. Landed(c)' <=> Landed(c) BY <1>2, <1>6 DEF Landed, Included
  <2> QED BY <1>2, <1>4, <1>7, <2>1 DEF BookInv
<1> QED BY <1>1, <1>2, <1>4, <1>5, <1>7, <1>8, <1>9 DEF LedgerInv

\* A transfer that was included is booked.
LEMMA LedgerBook ==
  ASSUME TypeOK, NodeInv, LedgerInv, NEW c \in Workers, c = cur, NEW a \in Nat,
         intent[c].hash # NoTx, Included(intent[c].hash), ApplySettle(intent[c].amount, a),
         UNCHANGED node
  PROVE  NodeInv' /\ LedgerInv'
<1>1. NodeInv' BY DEF NodeInv, node, Is, TxIds
<1>2. /\ intent'[c] = NoIntent /\ settled'[c] = settled[c] + intent[c].amount
      /\ \A w \in Workers \ {c} : intent'[w] = intent[w] /\ settled'[w] = settled[w]
      /\ known' = known /\ txs' = txs /\ paid' = paid /\ TxIds' = TxIds
  BY DEF ApplySettle, node, TypeOK, TxIds
<1>3. ASSUME NEW w \in Workers, w # c PROVE IntentInv(w)' /\ BookInv(w)'
  <2>1. Unbooked(w)' = Unbooked(w) BY <1>2, <1>3 DEF Unbooked
  <2>2. Apart(w) BY <1>2, <1>3, <2>1 DEF Apart
  <2> QED BY <1>2, <1>3, <2>2, LedgerApart
<1>4. IntentInv(c) /\ BookInv(c) /\ known \subseteq TxIds BY DEF LedgerInv
<1>5. /\ intent[c].hash \in known \cap TxIds /\ intent[c].hash \in Unbooked(c)
      /\ \A t \in Unbooked(c) : t = intent[c].hash
  BY <1>4 DEF IntentInv, Unbooked, Included
<1>6. Landed(c) BY <1>5 DEF Landed
<1>7. Unbooked(c)' = {}
  <2>1. NoTx \notin TxIds BY TxTypes
  <2> QED BY <1>2, <1>5, <2>1, NoIntentType DEF Unbooked
<1>8. ~(Landed(c)') BY <1>7 DEF Landed
<1>9. BookInv(c)' BY <1>2, <1>4, <1>6, <1>8 DEF BookInv
<1>10. \A t \in known \cap TxIds : txs[t].owner = c =>
         txs[t].status = "rejected" \/ txs[t].status = "included"
  BY <1>4 DEF IntentInv, Is, Included
<1>11. IntentInv(c)' BY <1>2, <1>7, <1>10, NoIntentType DEF IntentInv, Is
<1> QED BY <1>1, <1>2, <1>3, <1>4, <1>9, <1>11 DEF LedgerInv

\* An intent is recorded.
LEMMA LedgerPrepare ==
  ASSUME TypeOK, NodeInv, LedgerInv, NEW c \in Workers, intent[c] = NoIntent,
         NEW n \in Nat \ {0},
         intent' = [intent EXCEPT ![c] = [amount |-> n, nonce |-> nonce, hash |-> NoTx]],
         UNCHANGED <<node, settled, known>>
  PROVE  NodeInv' /\ LedgerInv' /\ Unbooked(c)' = {}
<1>1. NodeInv' BY DEF NodeInv, node, Is, TxIds
<1> DEFINE r == [amount |-> n, nonce |-> nonce, hash |-> NoTx]
<1>2. r.amount = n /\ r.nonce = nonce /\ r.hash = NoTx OBVIOUS
<1>3. /\ intent'[c] = r /\ \A w \in Workers \ {c} : intent'[w] = intent[w]
      /\ known' = known /\ settled' = settled /\ txs' = txs /\ paid' = paid /\ TxIds' = TxIds
      /\ nonce' = nonce
  BY DEF node, TypeOK, TxIds
<1> HIDE DEF r
<1>4. ASSUME NEW w \in Workers, w # c PROVE IntentInv(w)' /\ BookInv(w)'
  <2>1. Unbooked(w)' = Unbooked(w) BY <1>3, <1>4 DEF Unbooked
  <2>2. Apart(w) BY <1>3, <1>4, <2>1 DEF Apart
  <2> QED BY <1>3, <1>4, <2>2, LedgerApart
<1>5. IntentInv(c) /\ BookInv(c) /\ known \subseteq TxIds BY DEF LedgerInv
<1>6. Unbooked(c) = {}
  <2>1. \A t \in Unbooked(c) : txs[t].amount = 0 BY <1>5, NoIntentType DEF IntentInv
  <2>2. \A t \in Unbooked(c) : txs[t].amount # 0 BY DEF Unbooked, NodeInv
  <2> QED BY <2>1, <2>2
<1>7. Unbooked(c)' = {} BY <1>2, <1>3, <1>6, NoIntentType DEF Unbooked
<1>8. BookInv(c)'
  <2>1. ~Landed(c) /\ ~(Landed(c)') BY <1>6, <1>7 DEF Landed
  <2> QED BY <1>3, <1>5, <2>1 DEF BookInv
<1>9. \A t \in known \cap TxIds : txs[t].owner = c =>
        txs[t].status = "rejected" \/ (txs[t].status = "included" /\ txs[t].nonce < nonce)
  BY <1>5, NoIntentType, TxTypes DEF IntentInv, Is, NodeInv
<1>10. IntentInv(c)' BY <1>2, <1>3, <1>7, <1>9 DEF IntentInv, Is
<1> QED BY <1>1, <1>3, <1>4, <1>5, <1>7, <1>8, <1>10 DEF LedgerInv

\* A transfer joins the pool: the node takes one only at the next nonce, and only
\* when none is pending there.
LEMMA NodeSend ==
  ASSUME TypeOK, NodeInv, NEW r \in Tx, r.status = "pending", r.nonce = nonce,
         ~PoolHasNonce(nonce), txs' = Append(txs, r), nonce' = nonce,
         r.owner \in Workers => r.to = PayoutAddress[r.owner] /\ r.amount # 0,
         r.owner = OtherAddress => r.to = OtherAddress
  PROVE  NodeInv'
<1> DEFINE n == Len(txs) + 1
<1>1. /\ TxIds' = TxIds \cup {n} /\ n \notin TxIds
      /\ \A t \in TxIds : txs'[t] = txs[t]
      /\ txs'[n] = r
  BY Sent
<1>2. \A t \in TxIds : txs[t].status # "pending" BY DEF PoolHasNonce, NodeInv, Is
<1> HIDE DEF n
<1>3. ASSUME NEW t \in TxIds'
      PROVE  /\ txs'[t].status = "pending" => txs'[t].nonce = nonce'
             /\ txs'[t].status = "included" => txs'[t].nonce < nonce'
             /\ txs'[t].owner \in Workers => /\ txs'[t].to = PayoutAddress[txs'[t].owner]
                                             /\ txs'[t].amount # 0
             /\ txs'[t].owner = OtherAddress => txs'[t].to = OtherAddress
  <2>1. CASE t = n BY <1>1, <2>1
  <2>2. CASE t \in TxIds
    <3>1. txs'[t] = txs[t] BY <1>1, <2>2
    <3> QED BY <2>2, <3>1 DEF NodeInv, Is
  <2> QED BY <1>1, <2>1, <2>2
<1>4. \A t \in TxIds' : txs'[t].status = "pending" => t = n BY <1>1, <1>2
<1> QED BY <1>3, <1>4 DEF NodeInv, Is

\* The settler's transfer joins the pool.
LEMMA LedgerSend ==
  ASSUME TypeOK, NodeInv, LedgerInv, NEW c \in Workers,
         intent[c] # NoIntent, intent[c].hash = NoTx, Unbooked(c) = {},
         Accepts(intent[c].nonce), UNCHANGED <<ledger, nonce, paid>>,
         txs' = Append(txs, NewTx(PayoutAddress[c], intent[c].amount, intent[c].nonce, c))
  PROVE  /\ NodeInv' /\ LedgerInv' /\ txs' \in Seq(Tx)
         /\ Len(txs) + 1 \in TxIds' \ known' /\ Len(txs) + 1 # NoTx /\ Len(txs) + 1 \in Nat
         /\ txs'[Len(txs) + 1].owner = c /\ txs'[Len(txs) + 1].amount = intent'[c].amount
         /\ \A t \in Unbooked(c)' : t = Len(txs) + 1
<1> DEFINE n == Len(txs) + 1
           r == NewTx(PayoutAddress[c], intent[c].amount, intent[c].nonce, c)
<1>1. /\ r \in Tx /\ r.owner = c /\ r.amount = intent[c].amount /\ r.nonce = intent[c].nonce
      /\ r.status = "pending" /\ r.to = PayoutAddress[c]
  BY IntentTypes, SettleAssumption DEF NewTx, Tx
<1>2. txs' = Append(txs, r) OBVIOUS
<1>3. IntentInv(c) /\ BookInv(c) /\ known \subseteq TxIds BY DEF LedgerInv
<1>4. intent[c].nonce = nonce /\ ~PoolHasNonce(nonce) BY DEF Accepts
<1>5. c # OtherAddress BY SettleAssumption
<1>6. intent[c].amount # 0 BY <1>3 DEF IntentInv
<1> HIDE DEF r
<1>7. NodeInv' BY <1>1, <1>2, <1>4, <1>5, <1>6, NodeSend
<1>8. /\ TxIds' = TxIds \cup {n} /\ n \notin TxIds /\ txs' \in Seq(Tx)
      /\ \A t \in TxIds : txs'[t] = txs[t]
      /\ txs'[n] = r
  BY <1>1, <1>2, Sent
<1>9. n \in Nat /\ n # NoTx BY TxTypes DEF NoTx
<1> HIDE DEF n
<1>10. known' = known /\ intent' = intent /\ settled' = settled /\ paid' = paid BY DEF ledger
<1>11. ASSUME NEW w \in Workers, w # c PROVE IntentInv(w)' /\ BookInv(w)'
  <2>0. txs'[n].owner # w BY <1>1, <1>8, <1>11
  <2>1. Unbooked(w)' = Unbooked(w) BY <1>8, <1>10, <2>0 DEF Unbooked
  <2>2. Apart(w) BY <1>10, <2>1 DEF Apart
  <2> QED BY <1>8, <1>10, <2>2, LedgerApart
<1>12. \A t \in Unbooked(c)' : t = n BY <1>8, <1>10 DEF Unbooked
<1>13. IntentInv(c)'
  <2>1. \A t \in Unbooked(c)' :
          /\ \A u \in Unbooked(c)' : t = u
          /\ intent'[c].amount = txs'[t].amount /\ intent'[c].nonce = txs'[t].nonce
          /\ intent'[c].hash \in {NoTx, t}
    BY <1>1, <1>8, <1>10, <1>12
  <2>2. \A t \in known' \cap TxIds' : txs'[t].owner = c =>
          \/ txs'[t].status = "rejected"
          \/ txs'[t].status = "included" /\ txs'[t].nonce < intent'[c].nonce
    <3>1. \A t \in known : t \in TxIds /\ t # NoTx /\ txs'[t] = txs[t]
      BY <1>3, <1>8, TxTypes
    <3>2. \A t \in known : txs[t].owner = c =>
            \/ txs[t].status = "rejected"
            \/ txs[t].status = "included" /\ txs[t].nonce < intent[c].nonce
      BY <1>3, <3>1 DEF IntentInv, Is
    <3> QED BY <1>10, <3>1, <3>2
  <2> QED BY <1>6, <1>10, <2>1, <2>2 DEF IntentInv, Is
<1>14. BookInv(c)'
  <2>1. ~(Landed(c)')
    BY <1>1, <1>8, <1>12 DEF Landed, Included
  <2>2. ~Landed(c) BY DEF Landed
  <2> QED BY <1>3, <1>10, <2>1, <2>2 DEF BookInv
<1>15. LedgerInv' BY <1>3, <1>8, <1>10, <1>11, <1>13, <1>14 DEF LedgerInv
<1>16. n \in TxIds' \ known' /\ txs'[n].owner = c /\ txs'[n].amount = intent'[c].amount
  BY <1>1, <1>3, <1>8, <1>10
<1> QED BY <1>7, <1>8, <1>9, <1>12, <1>15, <1>16 DEF n

\* The payer sends something else.
LEMMA LedgerOther ==
  ASSUME TypeOK, NodeInv, LedgerInv, OtherSend
  PROVE  /\ NodeInv' /\ LedgerInv' /\ txs' \in Seq(Tx)
         /\ \A w \in Workers : Unbooked(w)' = Unbooked(w)
         /\ TxIds \subseteq TxIds' /\ \A t \in TxIds : txs'[t] = txs[t]
<1> DEFINE n == Len(txs) + 1
           r == NewTx(OtherAddress, 1, nonce, OtherAddress)
<1>1. /\ r \in Tx /\ r.owner = OtherAddress /\ r.nonce = nonce
      /\ r.status = "pending" /\ r.to = OtherAddress
  BY DEF NewTx, Tx, TypeOK
<1>2. txs' = Append(txs, r) BY DEF OtherSend
<1>3. OtherAddress \notin Workers BY SettleAssumption
<1>4. ~PoolHasNonce(nonce) /\ nonce' = nonce BY DEF OtherSend, Accepts
<1> HIDE DEF r
<1>5. NodeInv' BY <1>1, <1>2, <1>3, <1>4, NodeSend
<1>6. /\ TxIds' = TxIds \cup {n} /\ n \notin TxIds /\ txs' \in Seq(Tx)
      /\ \A t \in TxIds : txs'[t] = txs[t]
      /\ txs'[n] = r
  BY <1>1, <1>2, Sent
<1> HIDE DEF n
<1>7. known' = known /\ intent' = intent /\ settled' = settled /\ paid' = paid
  BY DEF OtherSend, ledger
<1>8. known \subseteq TxIds BY DEF LedgerInv
<1>9. ASSUME NEW w \in Workers PROVE Unbooked(w)' = Unbooked(w) /\ IntentInv(w)' /\ BookInv(w)'
  <2>1. Unbooked(w)' = Unbooked(w) BY <1>1, <1>3, <1>6, <1>7 DEF Unbooked
  <2>2. Apart(w) BY <1>7, <2>1 DEF Apart
  <2> QED BY <1>6, <1>7, <2>1, <2>2, LedgerApart
<1> QED BY <1>5, <1>6, <1>7, <1>8, <1>9 DEF LedgerInv

\* A block includes or refuses a transfer: what is decided stays decided.
LEMMA LedgerInclude ==
  ASSUME TypeOK, NodeInv, LedgerInv, NEW t \in TxIds, Include(t)
  PROVE  /\ NodeInv' /\ LedgerInv' /\ txs' \in Seq(Tx) /\ paid' \in [Workers -> Nat]
         /\ nonce' \in Nat
         /\ \A w \in Workers : Unbooked(w)' = Unbooked(w)
         /\ TxIds' = TxIds /\ \A u \in TxIds : /\ txs'[u].owner = txs[u].owner
                                               /\ txs'[u].amount = txs[u].amount
                                               /\ txs[u].status = "included" =>
                                                    txs'[u].status = "included"
<1>1. txs[t].status = "pending" /\ txs[t].nonce = nonce /\ nonce \in Nat /\ nonce' = nonce + 1
  BY DEF Include, TypeOK
<1>2. txs' = [txs EXCEPT ![t].status = "included"] BY DEF Include
<1>3. /\ txs' \in Seq(Tx) /\ TxIds' = TxIds
      /\ \A u \in TxIds : /\ txs'[u].owner = txs[u].owner /\ txs'[u].to = txs[u].to
                          /\ txs'[u].amount = txs[u].amount /\ txs'[u].nonce = txs[u].nonce
                          /\ txs'[u].status = IF u = t THEN "included" ELSE txs[u].status
  BY <1>2, Restated
<1>4. \A u \in TxIds : txs[u] \in Tx /\ txs[u].nonce \in Nat BY TxTypes DEF Tx
<1>5. NodeInv' BY <1>1, <1>3, <1>4 DEF NodeInv, Is
<1>6. known' = known /\ intent' = intent /\ settled' = settled BY DEF Include, ledger
<1>7. known \subseteq TxIds BY DEF LedgerInv
<1>8. \A w \in Workers : Unbooked(w)' = Unbooked(w) BY <1>1, <1>3, <1>6 DEF Unbooked
<1>9. \A w \in Workers : paid'[w] = IF w = txs[t].owner THEN paid[w] + txs[t].amount ELSE paid[w]
  BY DEF Include
<1>10. paid' \in [Workers -> Nat]
  <2>1. txs[t].amount \in Nat /\ \A w \in Workers : paid[w] \in Nat BY <1>4 DEF Tx, TypeOK
  <2>2. \A w \in Workers : paid'[w] \in Nat BY <1>9, <2>1
  <2> QED BY <2>2 DEF Include
<1>11. ASSUME NEW w \in Workers PROVE IntentInv(w)' /\ BookInv(w)'
  <2>1. IntentInv(w) /\ BookInv(w) BY DEF LedgerInv
  <2>2. IntentInv(w)'
    <3>1. \A u \in Unbooked(w) :
            /\ \A v \in Unbooked(w) : u = v
            /\ intent[w].amount = txs'[u].amount /\ intent[w].nonce = txs'[u].nonce
            /\ intent[w].hash \in {NoTx, u}
      BY <1>3, <2>1 DEF IntentInv, Unbooked
    <3>2. intent[w].hash # NoTx =>
            /\ intent[w].hash \in known \cap TxIds
            /\ txs'[intent[w].hash].owner = w /\ txs'[intent[w].hash].amount = intent[w].amount
      BY <1>3, <2>1 DEF IntentInv
    <3>3. \A u \in known \cap TxIds : txs'[u].owner = w /\ u # intent[w].hash =>
            \/ txs'[u].status = "rejected"
            \/ /\ txs'[u].status = "included"
               /\ intent[w] # NoIntent => txs'[u].nonce < intent[w].nonce
      BY <1>1, <1>3, <2>1 DEF IntentInv, Is
    <3> QED BY <1>3, <1>6, <1>8, <2>1, <3>1, <3>2, <3>3 DEF IntentInv, Is
  <2>3. CASE txs[t].owner = w
    <3>1. t \in Unbooked(w) BY <1>1, <2>3, PendingIsOpen DEF Is
    <3>2. \A u \in Unbooked(w) : u = t BY <2>1, <3>1 DEF IntentInv
    <3>3. ~Landed(w) BY <1>1, <3>2 DEF Landed, Included
    <3>4. Landed(w)' BY <1>3, <1>8, <3>1 DEF Landed, Included
    <3>5. intent[w].amount = txs[t].amount BY <2>1, <3>1 DEF IntentInv
    <3> QED BY <1>6, <1>9, <2>1, <2>2, <2>3, <3>3, <3>4, <3>5 DEF BookInv
  <2>4. CASE txs[t].owner # w
    <3>1. \A u \in Unbooked(w) : u \in TxIds /\ u # t BY <2>4 DEF Unbooked
    <3>2. Landed(w)' <=> Landed(w) BY <1>3, <1>8, <3>1 DEF Landed, Included
    <3> QED BY <1>6, <1>9, <2>1, <2>2, <2>4, <3>2 DEF BookInv
  <2> QED BY <2>3, <2>4
<1>12. LedgerInv' BY <1>3, <1>6, <1>7, <1>11 DEF LedgerInv
<1> QED BY <1>1, <1>3, <1>5, <1>8, <1>10, <1>12

\* A block refuses a pending transfer.
LEMMA LedgerReject ==
  ASSUME TypeOK, NodeInv, LedgerInv, NEW t \in TxIds, Reject(t)
  PROVE  /\ NodeInv' /\ LedgerInv' /\ txs' \in Seq(Tx)
         /\ \A w \in Workers : Unbooked(w)' = Unbooked(w) \ {t}
         /\ TxIds' = TxIds /\ \A u \in TxIds : /\ txs'[u].owner = txs[u].owner
                                               /\ txs'[u].amount = txs[u].amount
                                               /\ u # t => txs'[u].status = txs[u].status
<1>1. txs[t].status = "pending" BY DEF Reject
<1>2. txs' = [txs EXCEPT ![t].status = "rejected"] BY DEF Reject
<1>3. /\ txs' \in Seq(Tx) /\ TxIds' = TxIds
      /\ \A u \in TxIds : /\ txs'[u].owner = txs[u].owner /\ txs'[u].to = txs[u].to
                          /\ txs'[u].amount = txs[u].amount /\ txs'[u].nonce = txs[u].nonce
                          /\ txs'[u].status = IF u = t THEN "rejected" ELSE txs[u].status
  BY <1>2, Restated
<1>4. nonce' = nonce BY DEF Reject
<1>5. NodeInv' BY <1>1, <1>3, <1>4 DEF NodeInv, Is
<1>6. known' = known /\ intent' = intent /\ settled' = settled /\ paid' = paid
  BY DEF Reject, ledger
<1>7. known \subseteq TxIds BY DEF LedgerInv
<1>8. \A w \in Workers : Unbooked(w)' = Unbooked(w) \ {t} BY <1>1, <1>3, <1>6 DEF Unbooked
<1>9. ASSUME NEW w \in Workers PROVE IntentInv(w)' /\ BookInv(w)'
  <2>1. IntentInv(w) /\ BookInv(w) BY DEF LedgerInv
  <2>2. IntentInv(w)'
    <3>1. \A u \in Unbooked(w) :
            /\ \A v \in Unbooked(w) : u = v
            /\ intent[w].amount = txs'[u].amount /\ intent[w].nonce = txs'[u].nonce
            /\ intent[w].hash \in {NoTx, u}
      BY <1>3, <2>1 DEF IntentInv, Unbooked
    <3>2. intent[w].hash # NoTx =>
            /\ intent[w].hash \in known \cap TxIds
            /\ txs'[intent[w].hash].owner = w /\ txs'[intent[w].hash].amount = intent[w].amount
      BY <1>3, <2>1 DEF IntentInv
    <3>3. \A u \in known \cap TxIds : txs'[u].owner = w /\ u # intent[w].hash =>
            \/ txs'[u].status = "rejected"
            \/ /\ txs'[u].status = "included"
               /\ intent[w] # NoIntent => txs'[u].nonce < intent[w].nonce
      BY <1>1, <1>3, <2>1 DEF IntentInv, Is
    <3> QED BY <1>3, <1>6, <1>8, <2>1, <3>1, <3>2, <3>3 DEF IntentInv, Is
  <2>3. \A u \in Unbooked(w) : u \in TxIds BY DEF Unbooked
  <2>4. Landed(w)' <=> Landed(w) BY <1>1, <1>3, <1>8, <2>3 DEF Landed, Included
  <2> QED BY <1>6, <2>1, <2>2, <2>4 DEF BookInv
<1>10. LedgerInv' BY <1>3, <1>6, <1>7, <1>9 DEF LedgerInv
<1> QED BY <1>3, <1>5, <1>8, <1>10

----------------------------------------------------------------------------
(* Types.                                                                   *)

RunType ==
  /\ pc \in Steps /\ todo \subseteq Workers /\ seen \in [Workers -> Nat]
  /\ force \in BOOLEAN /\ cur \in Workers /\ tries \in Nat /\ reply \in Nat
LedgerType ==
  /\ settled \in [Workers -> Nat] /\ anchor \in [Workers -> Nat]
  /\ intent \in [Workers -> Intent] /\ known \subseteq Nat
NodeType == nonce \in Nat /\ txs \in Seq(Tx) /\ paid \in [Workers -> Nat]
CounterType == lane \in Lanes /\ accrued \in [Workers -> Nat] /\ earned \in [Workers -> Nat]
BoundType == faults \in Nat /\ resets \in Nat

\* The parts of the type invariant.
LEMMA TypeParts == TypeOK <=> RunType /\ LedgerType /\ NodeType /\ CounterType /\ BoundType
BY DEF TypeOK, RunType, LedgerType, NodeType, CounterType, BoundType

\* The same of the next state.
LEMMA TypePrimed == RunType' /\ LedgerType' /\ NodeType' /\ CounterType' /\ BoundType' => TypeOK'
BY DEF TypeOK, RunType, LedgerType, NodeType, CounterType, BoundType

\* There is a worker.
LEMMA SomeWorker == AnyWorker \in Workers
BY SettleAssumption DEF AnyWorker

\* The run is left alone.
LEMMA RunSame == RunType /\ UNCHANGED run => RunType'
BY DEF RunType, run

\* The ledger is left alone.
LEMMA LedgerTypeSame == LedgerType /\ UNCHANGED ledger => LedgerType'
BY DEF LedgerType, ledger

\* The node is left alone.
LEMMA NodeTypeSame == NodeType /\ UNCHANGED node => NodeType'
BY DEF NodeType, node

\* The counters are left alone.
LEMMA CounterSame == CounterType /\ UNCHANGED <<lane, accrued, earned>> => CounterType'
BY DEF CounterType

\* No fault and no reset.
LEMMA BoundSame == BoundType /\ UNCHANGED bounds => BoundType'
BY DEF BoundType, bounds
\* A fault is counted.
LEMMA BoundFault == BoundType /\ Fault => BoundType' /\ faults' <= MaxFaults /\ faults' > 0
BY SettleAssumption DEF BoundType, Fault

\* The run goes to a step.
LEMMA GotoType == ASSUME RunType, NEW step \in Steps, Goto(step) PROVE RunType'
BY DEF RunType, Goto

\* The run ends.
LEMMA ExitType == ASSUME Exit PROVE RunType'
<1>1. pc' \in Steps /\ todo' \subseteq Workers /\ force' \in BOOLEAN BY DEF Exit, Steps
<1>2. seen' \in [Workers -> Nat] BY DEF Exit
<1>3. cur' \in Workers /\ tries' \in Nat /\ reply' \in Nat BY SomeWorker DEF Exit, NoTx
<1> QED BY <1>1, <1>2, <1>3 DEF RunType

\* The settler is done with a worker.
LEMMA LeaveType ==
  ASSUME RunType, NEW w \in Workers, Leave(w), todo' \subseteq Workers
  PROVE  RunType'
BY SomeWorker DEF RunType, Leave, Steps, NoTx

\* The settler goes on to the next worker.
LEMMA NextWorkerType == RunType /\ NextWorker => RunType'
BY LeaveType DEF NextWorker, RunType

\* The settler turns to a worker.
LEMMA EnterType ==
  ASSUME RunType, NEW w \in Workers, NEW step \in Steps, Enter(w, step), todo' \subseteq Workers
  PROVE  RunType'
BY DEF RunType, Enter

\* An intent is dropped.
LEMMA DropType == ASSUME LedgerType, DropIntent PROVE LedgerType'
BY NoIntentType DEF LedgerType, DropIntent

\* An intent is stamped.
LEMMA AttachType == ASSUME LedgerType, NEW t \in Nat, AttachTxHash(t) PROVE LedgerType'
<1>1. intent' \in [Workers -> Intent] BY DEF LedgerType, AttachTxHash, Intent
<1> QED BY <1>1 DEF LedgerType, AttachTxHash

\* A payout is booked.
LEMMA ApplyType ==
  ASSUME LedgerType, RunType, NEW a \in Nat, ApplySettle(intent[cur].amount, a)
  PROVE  LedgerType'
<1>1. intent[cur].amount \in Nat /\ settled[cur] \in Nat BY DEF LedgerType, RunType, Intent
<1>2. settled[cur] + intent[cur].amount \in Nat BY <1>1
<1> QED BY <1>2, NoIntentType DEF LedgerType, ApplySettle

\* The deltas are natural numbers.
LEMMA DeltaTypes ==
  ASSUME NEW acc \in Nat, NEW set \in Nat, NEW anc \in Nat
  PROVE  /\ NewAnchor(acc, set, anc) \in Nat /\ Baseline(acc, set, anc) \in Nat
         /\ Delta(acc, set, anc) \in Nat
BY DEF NewAnchor, Baseline, Delta, Rebase, NeedAnchor

\* A payout is no more than the delta.
LEMMA CapTypes ==
  ASSUME NEW delta \in Nat, NEW avail \in Headrooms
  PROVE  CapChunk(delta, avail) \in Nat /\ CapChunk(delta, avail) <= delta
BY SettleAssumption DEF CapChunk

\* The anchors a payout leaves are natural numbers.
LEMMA AnchorTypes ==
  ASSUME TypeOK
  PROVE  ConfirmAnchor \in Nat /\ RecoverAnchor \in Nat /\ CurDelta \in Nat
<1>1. cur \in Workers BY DEF TypeOK
<1>2. seen[cur] \in Nat /\ settled[cur] \in Nat /\ anchor[cur] \in Nat /\ intent[cur].amount \in Nat
  BY <1>1, IntentTypes
<1>3. CurBaseline \in Nat /\ CurDelta \in Nat BY <1>2, DeltaTypes DEF CurBaseline, CurDelta
<1>4. CurBaseline + intent[cur].amount \in Nat BY <1>2, <1>3
<1> QED BY <1>2, <1>3, <1>4 DEF ConfirmAnchor, RecoverAnchor

\* What keeps an intent, or drops it, keeps the types.
LEMMA KeepTypes ==
  ASSUME LedgerType, KeepUnconfirmed \/ UNCHANGED ledger \/ \E b \in BOOLEAN : KeepIntent(b)
  PROVE  LedgerType'
<1>1. DropIntent \/ UNCHANGED ledger BY DEF KeepUnconfirmed, KeepIntent
<1> QED BY <1>1, DropType, LedgerTypeSame

\* The head of the loop.
LEMMA VisitTypes ==
  ASSUME TypeOK, NEW w \in Workers, WriteAnchor(w), UNCHANGED <<settled, intent, known>>
  PROVE  LedgerType' /\ BoundType'
<1>1. NewAnchor(seen[w], settled[w], anchor[w]) \in Nat BY IntentTypes, DeltaTypes
<1>2. anchor' \in [Workers -> Nat] BY <1>1 DEF WriteAnchor, TypeOK
<1>3. LedgerType' BY <1>2, TypeParts DEF LedgerType
<1>4. BoundType' BY TypeParts, BoundSame, BoundFault DEF WriteAnchor
<1> QED BY <1>3, <1>4

\* The steps of the settler keep the types.
LEMMA TypeSettler ==
  ASSUME TypeOK, SettlerStep
  PROVE  TypeOK'
<1> USE TypeParts, TypePrimed
<1>1. CASE StartRun
  BY <1>1, LedgerTypeSame, NodeTypeSame, BoundSame, SettleAssumption
  DEF StartRun, RunType, CounterType, Steps
<1>2. CASE EndRun
  BY <1>2, ExitType, LedgerTypeSame, NodeTypeSame, BoundSame, CounterSame DEF EndRun
<1>3. ASSUME NEW w \in Workers, Visit(w) \/ SupVisit(w) PROVE TypeOK'
  <2>1. LedgerType' /\ BoundType' BY <1>3, VisitTypes DEF Visit, SupVisit
  <2>2. /\ todo' \subseteq Workers
        /\ Leave(w) \/ Enter(w, "prepare") \/ Enter(w, "recover") \/ Enter(w, "resolve")
    BY <1>3 DEF Visit, SupVisit, IntentStep, RunType
  <2>3. RunType' BY <2>2, LeaveType, EnterType DEF Steps
  <2> QED BY <1>3, <2>1, <2>3, NodeTypeSame, CounterSame DEF Visit, SupVisit
<1>4. CASE Recover \/ SupRecover
  <2>1. LedgerType'
    BY <1>4, AnchorTypes, ApplyType, KeepTypes, DropType, LedgerTypeSame DEF Recover, SupRecover
  <2> QED BY <1>4, <2>1, NextWorkerType, NodeTypeSame, BoundSame, CounterSame
          DEF Recover, SupRecover
<1>5. CASE Resolve
  <2>1. LedgerType'
    <3>1. \A n \in Nat : SlotPaid(n) \subseteq Nat BY TxTypes DEF SlotPaid, Slot
    <3>2. \A t \in SlotPaid(FirstDeciding) : t \in Nat BY TxTypes DEF SlotPaid, Slot
    <3> QED BY <1>5, <3>2, AttachType, KeepTypes, LedgerTypeSame DEF Resolve
  <2>2. RunType' BY <1>5, NextWorkerType, GotoType DEF Resolve, Steps
  <2> QED BY <1>5, <2>1, <2>2, NodeTypeSame, BoundSame, CounterSame DEF Resolve
<1>6. CASE ResolvePool
  <2>1. LedgerType' BY <1>6, DropType, KeepTypes DEF ResolvePool
  <2> QED BY <1>6, <2>1, NextWorkerType, NodeTypeSame, BoundSame, CounterSame DEF ResolvePool
<1>7. CASE Prepare
  <2>1. PICK avail \in Headrooms :
          LET amount == CapChunk(CurDelta, avail)
          IN IF amount = 0 THEN NextWorker /\ UNCHANGED ledger
             ELSE /\ intent' = [intent EXCEPT
                       ![cur] = [amount |-> amount, nonce |-> nonce, hash |-> NoTx]]
                  /\ Goto("send")
                  /\ UNCHANGED <<settled, anchor, known>>
    BY <1>7 DEF Prepare
  <2> DEFINE amount == CapChunk(CurDelta, avail)
             r == [amount |-> amount, nonce |-> nonce, hash |-> NoTx]
  <2>2. amount \in Nat BY AnchorTypes, CapTypes
  <2>3. r \in Intent BY <2>2 DEF Intent, TypeOK, NoTx
  <2>4. \/ NextWorker /\ UNCHANGED ledger
        \/ /\ intent' = [intent EXCEPT ![cur] = r] /\ Goto("send")
           /\ UNCHANGED <<settled, anchor, known>>
    BY <2>1
  <2> HIDE DEF r
  <2>5. LedgerType' BY <2>3, <2>4, LedgerTypeSame DEF LedgerType
  <2>6. RunType' BY <2>4, NextWorkerType, GotoType DEF Steps
  <2> QED BY <1>7, <2>5, <2>6, NodeTypeSame, BoundSame, CounterSame DEF Prepare
<1>8. CASE SupClearPool
  BY <1>8, NextWorkerType, GotoType, LedgerTypeSame, NodeTypeSame, BoundSame, CounterSame
  DEF SupClearPool, Steps
<1>9. CASE SupClear
  <2>1. LedgerType' BY <1>9, DropType, LedgerTypeSame DEF SupClear
  <2> QED BY <1>9, <2>1, NextWorkerType, NodeTypeSame, BoundSame, CounterSame DEF SupClear
<1>10. CASE SupFindInPool
  <2>1. LedgerType' BY <1>10, TxTypes, AttachType, DropType DEF SupFindInPool
  <2> QED BY <1>10, <2>1, NextWorkerType, NodeTypeSame, BoundSame, CounterSame DEF SupFindInPool
<1>11. CASE SendAccepted
  <2> DEFINE r == NewTx(PayoutAddress[cur], intent[cur].amount, intent[cur].nonce, cur)
  <2>1. r \in Tx BY IntentTypes, SettleAssumption DEF NewTx, Tx, TypeOK
  <2>2. txs' = Append(txs, r) BY <1>11 DEF SendAccepted
  <2> HIDE DEF r
  <2>3. txs' \in Seq(Tx) BY <2>1, <2>2, Sent
  <2>4. NodeType' BY <1>11, <2>3 DEF SendAccepted, NodeType
  <2>5. Len(txs) + 1 \in Nat BY TxTypes
  <2>6. RunType' BY <1>11, <2>5 DEF SendAccepted, RunType, Steps
  <2>7. BoundType' BY <1>11, BoundSame, BoundFault DEF SendAccepted
  <2> QED BY <1>11, <2>4, <2>6, <2>7, LedgerTypeSame, CounterSame DEF SendAccepted
<1>12. CASE SendRefused
  <2>1. RunType' BY <1>12 DEF SendRefused, RunType, Steps
  <2> QED BY <1>12, <2>1, LedgerTypeSame, NodeTypeSame, BoundSame, CounterSame DEF SendRefused
<1>13. CASE Retry \/ SendFailed
  BY <1>13, NextWorkerType, GotoType, LedgerTypeSame, NodeTypeSame, BoundSame, CounterSame
  DEF Retry, SendFailed, AfterFailure, Steps
<1>14. CASE FindInHistory
  <2>1. LedgerType' /\ RunType'
    BY <1>14, TxTypes, AttachType, LedgerTypeSame, NextWorkerType, GotoType
    DEF FindInHistory, FindIn, Slot, Steps
  <2> QED BY <1>14, <2>1, NodeTypeSame, BoundSame, CounterSame DEF FindInHistory
<1>15. CASE FindInPool
  <2>1. LedgerType' /\ RunType'
    BY <1>15, TxTypes, AttachType, DropType, NextWorkerType DEF FindInPool, FindIn, Slot
  <2> QED BY <1>15, <2>1, NodeTypeSame, BoundSame, CounterSame DEF FindInPool
<1>16. CASE Attach
  <2>1. LedgerType' BY <1>16, AttachType DEF Attach, RunType
  <2> QED BY <1>16, <2>1, GotoType, NodeTypeSame, BoundSame, CounterSame DEF Attach, Steps
<1>17. CASE Confirm
  <2>1. LedgerType' BY <1>17, AnchorTypes, ApplyType, LedgerTypeSame DEF Confirm
  <2> QED BY <1>17, <2>1, NextWorkerType, NodeTypeSame, BoundSame, CounterSame DEF Confirm
<1> QED
  BY <1>1, <1>2, <1>3, <1>4, <1>5, <1>6, <1>7, <1>8, <1>9, <1>10, <1>11, <1>12, <1>13, <1>14,
     <1>15, <1>16, <1>17 DEF SettlerStep

\* Every step keeps the types.
LEMMA TypeNext ==
  ASSUME TypeOK, [Next]_vars
  PROVE  TypeOK'
<1> USE TypeParts, TypePrimed
<1>1. CASE SettlerStep BY <1>1, TypeSettler
<1>2. ASSUME NEW t \in TxIds, Include(t) PROVE TypeOK'
  <2>1. txs' \in Seq(Tx) BY <1>2, Restated DEF Include
  <2>2. txs[t].amount \in Nat BY TxTypes DEF Tx
  <2>3. \A w \in Workers : paid[w] + txs[t].amount \in Nat /\ paid[w] \in Nat
    BY <2>2, IntentTypes
  <2>4. paid' \in [Workers -> Nat] BY <1>2, <2>3 DEF Include
  <2>5. NodeType' BY <1>2, <2>1, <2>4 DEF Include, NodeType
  <2> QED BY <1>2, <2>5, RunSame, LedgerTypeSame, BoundSame, CounterSame DEF Include
<1>3. CASE SendFails
  BY <1>3, GotoType, LedgerTypeSame, NodeTypeSame, BoundFault, CounterSame DEF SendFails, Steps
<1>4. CASE LookupFails
  <2>1. LedgerType' BY <1>4, LedgerTypeSame, KeepTypes DEF LookupFails
  <2>2. RunType'
    <3>1. ASSUME NEW w \in todo, Leave(w), todo' = todo \ {w} PROVE RunType'
      BY <3>1, LeaveType DEF RunType
    <3> QED BY <1>4, <3>1, NextWorkerType, GotoType DEF LookupFails, AfterFailure, Steps
  <2> QED BY <1>4, <2>1, <2>2, NodeTypeSame, BoundFault, CounterSame DEF LookupFails
<1>5. CASE Crash
  BY <1>5, ExitType, LedgerTypeSame, NodeTypeSame, BoundFault, CounterSame DEF Crash
<1>6. CASE OtherSend
  <2> DEFINE r == NewTx(OtherAddress, 1, nonce, OtherAddress)
  <2>1. r \in Tx BY DEF NewTx, Tx, TypeOK
  <2>2. txs' = Append(txs, r) BY <1>6 DEF OtherSend
  <2> HIDE DEF r
  <2>3. txs' \in Seq(Tx) BY <2>1, <2>2, Sent
  <2>4. NodeType' BY <1>6, <2>3 DEF OtherSend, NodeType
  <2> QED BY <1>6, <2>4, RunSame, LedgerTypeSame, BoundSame, CounterSame DEF OtherSend
<1>7. ASSUME NEW t \in TxIds, Reject(t) PROVE TypeOK'
  <2>1. txs' \in Seq(Tx) BY <1>7, Restated DEF Reject
  <2>2. NodeType' BY <1>7, <2>1 DEF Reject, NodeType
  <2> QED BY <1>7, <2>2, RunSame, LedgerTypeSame, BoundSame, CounterSame DEF Reject
<1>8. ASSUME NEW w \in Workers, CounterReset(w) PROVE TypeOK'
  <2>1. CounterType' BY <1>8 DEF CounterReset, CounterType
  <2>2. BoundType' BY <1>8 DEF CounterReset, BoundType
  <2> QED BY <1>8, <2>1, <2>2, RunSame, LedgerTypeSame, NodeTypeSame DEF CounterReset
<1>9. ASSUME NEW w \in Workers, NEW k \in Increments, Earn(w, k) PROVE TypeOK'
  <2>1. k \in Nat /\ accrued[w] + k \in Nat /\ earned[w] + k \in Nat
    BY SettleAssumption, IntentTypes
  <2>2. CounterType' BY <1>9, <2>1 DEF Earn, CounterType
  <2> QED BY <1>9, <2>2, RunSame, LedgerTypeSame, NodeTypeSame, BoundSame DEF Earn
<1>10. CASE UNCHANGED vars
  BY <1>10 DEF vars, TypeOK
<1> QED
  BY <1>1, <1>2, <1>3, <1>4, <1>5, <1>6, <1>7, <1>8, <1>9, <1>10 DEF Next, BlockStep

----------------------------------------------------------------------------
(* The ways a step of the settler ends.                                     *)

\* What is earned covers the rest when no counter, watermark or anchor moves and no
\* intent grows.
LEMMA CoverKept ==
  ASSUME TypeOK, CoverInv, UNCHANGED <<accrued, earned, settled, anchor>>,
         \A w \in Workers : intent'[w].amount \in Nat /\ intent'[w].amount <= intent[w].amount,
         \A w \in Workers : InRun(w)' => InRun(w) /\ seen'[w] = seen[w]
  PROVE  CoverInv'
<1> SUFFICES ASSUME NEW w \in Workers PROVE EarnInv(w)' BY DEF CoverInv
<1> DEFINE n == intent[w].amount
           m == intent'[w].amount
           s == settled[w]
           e == earned[w]
           a == accrued[w]
           x == seen[w]
<1>1. /\ n \in Nat /\ m \in Nat /\ m <= n /\ s \in Nat /\ e \in Nat /\ a \in Nat /\ x \in Nat
  BY IntentTypes
<1>2. EarnInv(w) BY DEF CoverInv
<1>3. /\ s + n <= e /\ (InRun(w) => s + n + a <= e + x) BY <1>2 DEF EarnInv
<1> HIDE DEF n, m, s, e, a, x
<1>4. s + m <= e BY <1>1, <1>3
<1>5. InRun(w) => s + m + a <= e + x BY <1>1, <1>3
<1>6. InRun(w)' => InRun(w) /\ seen'[w] = seen[w] OBVIOUS
<1> QED BY <1>2, <1>4, <1>5, <1>6 DEF EarnInv, n, m, s, e, a, x

\* The run is through with its worker.
LEMMA RunLeaves ==
  ASSUME TypeOK, RunInv, pc \notin Idle, NextWorker, faults' <= MaxFaults
  PROVE  /\ RunInv'
         /\ \A w \in Workers : InRun(w)' => InRun(w) /\ seen'[w] = seen[w]
BY DEF RunInv, NextWorker, Leave, Idle, InRun, TypeOK

\* The run goes on with its worker.
LEMMA RunStays ==
  ASSUME TypeOK, RunInv, pc \notin Idle, NEW c \in Workers, c = cur, pc' \notin Idle,
         UNCHANGED <<cur, todo, seen>>, RunAt(c)', faults' <= MaxFaults
  PROVE  /\ RunInv'
         /\ \A w \in Workers : InRun(w)' => InRun(w) /\ seen'[w] = seen[w]
<1>1. cur' = c /\ cur' \notin todo' BY DEF RunInv
<1>2. RunAt(cur)' BY <1>1 DEF RunAt, Is, Unbooked, TxIds
<1>3. RunInv' BY <1>1, <1>2 DEF RunInv, Idle
<1> QED BY <1>3 DEF InRun

\* The intent stays as it is.
LEMMA KeepWorker ==
  ASSUME TypeOK, SafeInv, pc \notin Idle, NextWorker, faults' <= MaxFaults,
         UNCHANGED <<accrued, earned, ledger, node>>
  PROVE  SafeInv'
<1>1. NodeInv' /\ LedgerInv' BY LedgerSame DEF SafeInv, ledger
<1>2. /\ RunInv'
      /\ \A w \in Workers : InRun(w)' => InRun(w) /\ seen'[w] = seen[w]
  BY RunLeaves DEF SafeInv
<1>3. \A w \in Workers : intent'[w].amount \in Nat /\ intent'[w].amount <= intent[w].amount
  BY IntentTypes DEF ledger
<1>4. CoverInv' BY <1>2, <1>3, CoverKept DEF SafeInv, ledger
<1> QED BY <1>1, <1>2, <1>4 DEF SafeInv

\* The intent is dropped.
LEMMA DropWorker ==
  ASSUME TypeOK, SafeInv, pc \notin Idle, NextWorker, faults' <= MaxFaults,
         DropIntent, UNCHANGED <<accrued, earned, node>>, Unbooked(cur) = {}
  PROVE  SafeInv'
<1>0. PICK c \in Workers : c = cur BY DEF TypeOK
<1>1. NodeInv' /\ LedgerInv' BY <1>0, LedgerDrop DEF SafeInv
<1>2. /\ RunInv'
      /\ \A w \in Workers : InRun(w)' => InRun(w) /\ seen'[w] = seen[w]
  BY RunLeaves DEF SafeInv
<1>3. \A w \in Workers : intent'[w].amount \in Nat /\ intent'[w].amount <= intent[w].amount
  <2>1. \A w \in Workers : intent'[w] = IF w = c THEN NoIntent ELSE intent[w]
    BY <1>0 DEF DropIntent, TypeOK
  <2> QED BY <2>1, IntentTypes, NoIntentType
<1>4. CoverInv' BY <1>2, <1>3, CoverKept DEF SafeInv, DropIntent
<1> QED BY <1>1, <1>2, <1>4 DEF SafeInv

\* The intent is stamped with a transfer that was found.
LEMMA AttachWorker ==
  ASSUME TypeOK, SafeInv, pc \in Open, NextWorker, faults' <= MaxFaults, NEW t \in TxIds,
         AttachTxHash(t), UNCHANGED <<accrued, earned, node>>,
         t \in Unbooked(cur), t \notin known
  PROVE  SafeInv'
<1>0. PICK c \in Workers : c = cur BY DEF TypeOK
<1>1. pc \notin Idle BY DEF Open, Idle
<1>2. intent[c] # NoIntent /\ intent[c].hash = NoTx BY <1>0, <1>1 DEF SafeInv, RunInv, RunAt
<1>3. /\ txs[t].owner = c /\ txs[t].amount = intent[c].amount
      /\ \A u \in Unbooked(c) : u = t
  BY <1>0 DEF SafeInv, LedgerInv, IntentInv, Unbooked
<1>4. NodeInv' /\ LedgerInv' /\ \A w \in Workers : intent'[w].amount = intent[w].amount
  BY <1>0, <1>2, <1>3, LedgerAttach DEF SafeInv
<1>5. /\ RunInv'
      /\ \A w \in Workers : InRun(w)' => InRun(w) /\ seen'[w] = seen[w]
  BY <1>1, RunLeaves DEF SafeInv
<1>6. \A w \in Workers : intent'[w].amount \in Nat /\ intent'[w].amount <= intent[w].amount
  BY <1>4, IntentTypes
<1>7. CoverInv' BY <1>5, <1>6, CoverKept DEF SafeInv, AttachTxHash
<1> QED BY <1>4, <1>5, <1>7 DEF SafeInv

\* A payout is booked, with an anchor above which no more is owed than was earned.
LEMMA BookWorker ==
  ASSUME TypeOK, SafeInv, pc \notin Idle, NextWorker, faults' <= MaxFaults, NEW b \in Nat,
         intent[cur].hash # NoTx, Included(intent[cur].hash),
         ApplySettle(intent[cur].amount, b), UNCHANGED <<accrued, earned, node>>,
         b # 0 => settled[cur] + intent[cur].amount + accrued[cur] <= earned[cur] + b
  PROVE  SafeInv'
<1>0. PICK c \in Workers : c = cur BY DEF TypeOK
<1>1. NodeInv' /\ LedgerInv' BY <1>0, LedgerBook DEF SafeInv
<1>2. /\ RunInv'
      /\ \A w \in Workers : InRun(w)' => InRun(w) /\ seen'[w] = seen[w]
  BY RunLeaves DEF SafeInv
<1>3. ~(InRun(c)') BY <1>0 DEF SafeInv, RunInv, InRun, NextWorker, Leave, Idle
<1>4. /\ settled'[c] = settled[c] + intent[c].amount /\ intent'[c] = NoIntent /\ anchor'[c] = b
      /\ \A w \in Workers \ {c} : /\ settled'[w] = settled[w] /\ intent'[w] = intent[w]
                                  /\ anchor'[w] = anchor[w]
  BY <1>0 DEF ApplySettle, TypeOK
<1>5. EarnInv(c)'
  <2> DEFINE n == intent[c].amount
             s == settled[c]
             e == earned[c]
             a == accrued[c]
  <2>1. n \in Nat /\ s \in Nat /\ e \in Nat /\ a \in Nat BY IntentTypes
  <2>2. s + n <= e /\ a <= e BY DEF SafeInv, CoverInv, EarnInv
  <2>3. b # 0 => s + n + a <= e + b BY <1>0
  <2>4. settled'[c] = s + n /\ intent'[c].amount = 0 /\ accrued'[c] = a /\ earned'[c] = e
    BY <1>4, NoIntentType
  <2> HIDE DEF n, s, e, a
  <2>5. /\ settled'[c] + intent'[c].amount <= e
        /\ b # 0 => settled'[c] + a <= e + b
    BY <2>1, <2>2, <2>3, <2>4
  <2> QED BY <1>3, <1>4, <2>2, <2>4, <2>5 DEF EarnInv
<1>6. ASSUME NEW w \in Workers, w # c PROVE EarnInv(w)'
  <2>1. EarnInv(w) BY DEF SafeInv, CoverInv
  <2>2. settled'[w] = settled[w] /\ intent'[w] = intent[w] /\ anchor'[w] = anchor[w]
    BY <1>4, <1>6
  <2>3. InRun(w)' => InRun(w) /\ seen'[w] = seen[w] BY <1>2
  <2>4. accrued'[w] = accrued[w] /\ earned'[w] = earned[w] OBVIOUS
  <2> QED BY <2>1, <2>2, <2>3, <2>4 DEF EarnInv
<1> QED BY <1>1, <1>2, <1>5, <1>6 DEF SafeInv, CoverInv

\* The run goes on, and neither the ledger nor the node changes.
LEMMA StayWorker ==
  ASSUME TypeOK, SafeInv, pc \notin Idle, NEW c \in Workers, c = cur, pc' \notin Idle,
         UNCHANGED <<cur, todo, seen, accrued, earned, ledger, node>>,
         (\A w \in Workers : Unbooked(w)' = Unbooked(w)) => RunAt(c)', faults' <= MaxFaults
  PROVE  SafeInv'
<1>1. \A w \in Workers : Unbooked(w)' = Unbooked(w) BY DEF Unbooked, ledger, node, TxIds
<1>2. NodeInv' /\ LedgerInv' BY LedgerSame DEF SafeInv, ledger
<1>3. /\ RunInv'
      /\ \A w \in Workers : InRun(w)' => InRun(w) /\ seen'[w] = seen[w]
  BY <1>1, RunStays DEF SafeInv
<1>4. \A w \in Workers : intent'[w].amount \in Nat /\ intent'[w].amount <= intent[w].amount
  BY IntentTypes DEF ledger
<1>5. CoverInv' BY <1>3, <1>4, CoverKept DEF SafeInv, ledger
<1> QED BY <1>2, <1>3, <1>5 DEF SafeInv

----------------------------------------------------------------------------
(* The steps of the settler.                                                *)

\* A transfer that matches the intent of a worker is that worker's.
LEMMA MatchOwner ==
  ASSUME Careful, TypeOK, NodeInv, NEW c \in Workers, c = cur, NEW t \in TxIds, Matches(t)
  PROVE  txs[t].owner = c /\ txs[t].amount = intent[c].amount
<1>1. txs[t].owner \in Workers \cup {OtherAddress} BY TxTypes DEF Tx
<1>2. PayoutAddress[c] \in Addresses /\ OtherAddress \notin Addresses BY SettleAssumption
<1> QED BY <1>1, <1>2 DEF NodeInv, Matches, Careful

\* A transfer of a worker in flight matches its intent.
LEMMA OpenMatches ==
  ASSUME TypeOK, NodeInv, LedgerInv, NEW c \in Workers, c = cur, NEW t \in Unbooked(c)
  PROVE  /\ t \in TxIds /\ Matches(t) /\ txs[t].nonce = intent[c].nonce
         /\ Is(t, "pending") \/ Is(t, "included")
<1>1. t \in TxIds /\ txs[t].owner = c /\ txs[t].status # "rejected" BY DEF Unbooked
<1>2. txs[t].status \in {"pending", "included", "rejected"} BY <1>1, TxTypes DEF Tx
<1>3. IntentInv(c) BY DEF LedgerInv
<1> QED BY <1>1, <1>2, <1>3 DEF NodeInv, IntentInv, Matches, Is

\* Nobody clears what the chain does not decide.
LEMMA NothingCleared ==
  ASSUME Careful, KeepUnconfirmed \/ \E b \in BOOLEAN : KeepIntent(b)
  PROVE  UNCHANGED ledger
BY DEF Careful, KeepUnconfirmed, KeepIntent

\* The anchors of a payout cover what may still be owed.
LEMMA AnchorCovers ==
  ASSUME TypeOK, SafeInv, pc \notin Idle
  PROVE  /\ ConfirmAnchor # 0 => settled[cur] + intent[cur].amount + accrued[cur]
                                   <= earned[cur] + ConfirmAnchor
         /\ RecoverAnchor # 0 => settled[cur] + intent[cur].amount + accrued[cur]
                                   <= earned[cur] + RecoverAnchor
<1>0. PICK c \in Workers : c = cur BY DEF TypeOK
<1> DEFINE n == intent[c].amount
           s == settled[c]
           e == earned[c]
           a == accrued[c]
           x == seen[c]
           y == anchor[c]
           z == Baseline(x, s, y)
<1>1. /\ n \in Nat /\ s \in Nat /\ e \in Nat /\ a \in Nat /\ x \in Nat /\ y \in Nat
  BY IntentTypes
<1>2. EarnInv(c) /\ InRun(c) BY <1>0 DEF SafeInv, CoverInv, InRun
<1>3. s + n + a <= e + x /\ (y # 0 => s + a <= e + y) BY <1>2 DEF EarnInv
<1>4. s > x => z = x \/ (z = y /\ y # 0)
  BY <1>1 DEF Baseline, NewAnchor, NeedAnchor, Rebase
<1>5. ConfirmAnchor = IF s > x THEN z + n ELSE 0
  BY <1>0 DEF ConfirmAnchor, CurRebase, CurBaseline, Rebase
<1>6. RecoverAnchor = IF s > x THEN x ELSE 0
  BY <1>0 DEF RecoverAnchor, CurRebase, Rebase
<1> HIDE DEF n, s, e, a, x, y, z
<1>7. s > x => s + n + a <= e + (z + n) BY <1>1, <1>3, <1>4
<1>8. /\ ConfirmAnchor # 0 => s + n + a <= e + ConfirmAnchor
      /\ RecoverAnchor # 0 => s + n + a <= e + RecoverAnchor
  BY <1>3, <1>5, <1>6, <1>7
<1> QED BY <1>0, <1>8 DEF n, s, e, a

\* A run begins: the counters it reads are what it knows.
LEMMA StepStartRun ==
  ASSUME TypeOK, SafeInv, StartRun
  PROVE  SafeInv'
<1>1. NodeInv' /\ LedgerInv' BY LedgerSame DEF SafeInv, StartRun, ledger
<1>2. RunInv' BY DEF StartRun, SafeInv, RunInv, Idle, bounds
<1>3. ASSUME NEW w \in Workers PROVE EarnInv(w)'
  <2> DEFINE n == intent[w].amount
             s == settled[w]
             e == earned[w]
             a == accrued[w]
  <2>1. n \in Nat /\ s \in Nat /\ e \in Nat /\ a \in Nat BY IntentTypes
  <2>2. EarnInv(w) BY DEF SafeInv, CoverInv
  <2>3. /\ intent'[w].amount = n /\ settled'[w] = s /\ earned'[w] = e /\ accrued'[w] = a
        /\ seen'[w] = a /\ anchor' = anchor
    BY DEF StartRun, ledger
  <2>4. s + n <= e BY <2>2 DEF EarnInv
  <2> HIDE DEF n, s, e, a
  <2>5. s + n + a <= e + a BY <2>1, <2>4
  <2> QED BY <2>2, <2>3, <2>5 DEF EarnInv, n, s, e, a
<1> QED BY <1>1, <1>2, <1>3 DEF SafeInv, CoverInv

\* A run ends.
LEMMA StepExit ==
  ASSUME TypeOK, SafeInv, Exit, UNCHANGED <<accrued, earned, ledger, node>>, faults' <= MaxFaults
  PROVE  SafeInv'
<1>1. NodeInv' /\ LedgerInv' BY LedgerSame DEF SafeInv, ledger
<1>2. RunInv' BY DEF Exit, RunInv, Idle
<1>3. \A w \in Workers : ~(InRun(w)') BY DEF Exit, InRun, Idle
<1>4. \A w \in Workers : intent'[w].amount \in Nat /\ intent'[w].amount <= intent[w].amount
  BY IntentTypes DEF ledger
<1>5. CoverInv' BY <1>3, <1>4, CoverKept DEF SafeInv, ledger
<1> QED BY <1>1, <1>2, <1>5 DEF SafeInv

\* The head of the loop: the anchor of a counter that fell back is what the run has
\* read of it.
LEMMA StepVisit ==
  ASSUME TypeOK, SafeInv, NEW w \in Workers, Visit(w) \/ SupVisit(w)
  PROVE  SafeInv'
<1>1. /\ pc = "next" /\ w \in todo /\ todo' = todo \ {w} /\ WriteAnchor(w)
      /\ UNCHANGED <<settled, intent, known, accrued, earned, node>>
  BY DEF Visit, SupVisit
<1>2. NodeInv' /\ LedgerInv' BY <1>1, LedgerSame DEF SafeInv
<1>3. faults' <= MaxFaults
  BY <1>1, TypeParts, BoundFault DEF WriteAnchor, bounds, SafeInv, RunInv
<1>4. \/ Leave(w)
      \/ Enter(w, "prepare") /\ intent[w] = NoIntent
      \/ Enter(w, IntentStep(w)) /\ intent[w] # NoIntent
  BY DEF Visit, SupVisit
<1>5. /\ RunInv'
      /\ \A v \in Workers : InRun(v)' => v \in todo /\ seen'[v] = seen[v]
  <2>1. CASE Leave(w)
    BY <1>1, <1>3, <2>1 DEF Leave, RunInv, Idle, InRun, TypeOK
  <2>2. CASE Enter(w, "prepare") /\ intent[w] = NoIntent
    <3>1. pc' = "prepare" /\ cur' = w /\ seen' = seen BY <2>2 DEF Enter
    <3>2. RunAt(w)' BY <1>1, <2>2, <3>1 DEF RunAt, Open
    <3>3. RunAt(cur)' BY <3>1, <3>2 DEF RunAt, Is, Unbooked, TxIds
    <3> QED BY <1>1, <1>3, <3>1, <3>3 DEF RunInv, Idle, InRun
  <2>3. CASE Enter(w, IntentStep(w)) /\ intent[w] # NoIntent
    <3>1. cur' = w /\ seen' = seen /\ pc' = IntentStep(w) BY <2>3 DEF Enter
    <3>2. \/ pc' = "recover" /\ intent[w].hash # NoTx
          \/ pc' = "resolve" /\ intent[w].hash = NoTx
      BY <3>1 DEF IntentStep
    <3>3. RunAt(w)' BY <1>1, <2>3, <3>2 DEF RunAt, Open
    <3>4. RunAt(cur)' BY <3>1, <3>3 DEF RunAt, Is, Unbooked, TxIds
    <3> QED BY <1>1, <1>3, <3>1, <3>2, <3>4 DEF RunInv, Idle, InRun
  <2> QED BY <1>4, <2>1, <2>2, <2>3
<1>6. ASSUME NEW v \in Workers PROVE EarnInv(v)'
  <2> DEFINE n == intent[v].amount
             s == settled[v]
             e == earned[v]
             a == accrued[v]
             x == seen[v]
             y == anchor[v]
             z == anchor'[v]
  <2>1. /\ n \in Nat /\ s \in Nat /\ e \in Nat /\ a \in Nat /\ x \in Nat /\ y \in Nat
    BY IntentTypes
  <2>2. EarnInv(v) /\ (v \in todo => InRun(v)) BY DEF SafeInv, CoverInv, InRun
  <2>3. /\ intent'[v] = intent[v] /\ settled'[v] = s /\ earned'[v] = e /\ accrued'[v] = a
    BY <1>1
  <2>4. z = y \/ z = 0 \/ (z = x /\ v \in todo)
    <3>1. CASE anchor' = anchor BY <3>1
    <3>2. CASE anchor' = [anchor EXCEPT ![w] = NewAnchor(seen[w], settled[w], anchor[w])]
      <4>1. z = IF v = w THEN NewAnchor(seen[w], settled[w], anchor[w]) ELSE y
        BY <3>2 DEF TypeOK
      <4> QED BY <1>1, <4>1 DEF NewAnchor
    <3> QED BY <1>1, <3>1, <3>2 DEF WriteAnchor
  <2>5. /\ a <= e /\ s + n <= e /\ (y # 0 => s + a <= e + y)
        /\ v \in todo => x <= e /\ s + n + a <= e + x /\ (y # 0 => s + x <= e + y)
    BY <2>2 DEF EarnInv
  <2>6. InRun(v)' => v \in todo /\ seen'[v] = x BY <1>5
  <2> HIDE DEF n, s, e, a, x, y, z
  <2>7. z # 0 => s + a <= e + z BY <2>1, <2>4, <2>5
  <2>8. v \in todo /\ z # 0 => s + x <= e + z BY <2>1, <2>4, <2>5
  <2> QED BY <2>3, <2>5, <2>6, <2>7, <2>8 DEF EarnInv, n, s, e, a, x, z
<1> QED BY <1>2, <1>5, <1>6 DEF SafeInv, CoverInv

\* What the invariant says of the worker the run is at.
LEMMA AtWorker ==
  ASSUME TypeOK, SafeInv, pc \notin Idle
  PROVE  /\ cur \in Workers /\ RunAt(cur) /\ faults <= MaxFaults
         /\ NodeInv /\ LedgerInv /\ IntentInv(cur)
BY DEF TypeOK, SafeInv, RunInv, LedgerInv

\* An intent with a hash: the chain decides.
LEMMA StepRecover ==
  ASSUME Careful, TypeOK, SafeInv, Recover \/ SupRecover
  PROVE  SafeInv'
<1> DEFINE t == intent[cur].hash
<1>1. /\ pc = "recover" /\ pc \notin Idle /\ NextWorker /\ faults' = faults
      /\ UNCHANGED <<accrued, earned, node>>
  BY DEF Recover, SupRecover, Idle, bounds
<1>2. faults' <= MaxFaults /\ t # NoTx BY <1>1, AtWorker DEF RunAt
<1>3. CASE UNCHANGED ledger BY <1>1, <1>2, <1>3, KeepWorker
<1>4. CASE txs[t].status = "rejected" /\ DropIntent
  <2>1. Unbooked(cur) = {}
    <3>1. \A u \in Unbooked(cur) : u = t BY <1>1, <1>2, AtWorker DEF IntentInv
    <3>2. \A u \in Unbooked(cur) : txs[u].status # "rejected" BY DEF Unbooked
    <3> QED BY <1>4, <3>1, <3>2
  <2> QED BY <1>1, <1>2, <1>4, <2>1, DropWorker
<1>5. CASE Included(t) /\ ApplySettle(intent[cur].amount, RecoverAnchor)
  BY <1>1, <1>2, <1>5, AnchorTypes, AnchorCovers, BookWorker
<1>6. CASE Included(t) /\ ApplySettle(intent[cur].amount, ConfirmAnchor)
  BY <1>1, <1>2, <1>6, AnchorTypes, AnchorCovers, BookWorker
<1>7. KeepUnconfirmed => UNCHANGED ledger BY NothingCleared
<1> QED BY <1>3, <1>4, <1>5, <1>6, <1>7 DEF Recover, SupRecover, Included

\* The slots below the nonce: a transfer that landed for the intent is in the slot
\* of the intent's nonce.
LEMMA StepResolve ==
  ASSUME Careful, TypeOK, SafeInv, Resolve
  PROVE  SafeInv'
<1>0. PICK c \in Workers : c = cur BY DEF TypeOK
<1>1. /\ pc = "resolve" /\ pc \notin Idle /\ pc \in Open /\ ~Sup /\ lane' = lane /\ faults' = faults
      /\ UNCHANGED <<accrued, earned, node>>
  BY DEF Resolve, Idle, Open, bounds
<1>2. /\ RunAt(c) /\ faults' <= MaxFaults /\ NodeInv /\ LedgerInv /\ IntentInv(c)
  BY <1>0, <1>1, AtWorker
<1>3. CASE Scannable /\ Deciding = {} /\ Goto("pool") /\ UNCHANGED ledger
  <2>1. ASSUME NEW t \in Unbooked(c) PROVE Is(t, "pending")
    <3>1. /\ t \in TxIds /\ Matches(t) /\ txs[t].nonce = intent[c].nonce
          /\ Is(t, "pending") \/ Is(t, "included")
      BY <1>0, <1>2, OpenMatches
    <3>2. ASSUME Is(t, "included") PROVE FALSE
      <4> DEFINE n == intent[c].nonce
      <4>1. n < nonce /\ n \in Nat /\ nonce \in Nat
        BY <1>2, <3>1, <3>2, IntentTypes DEF NodeInv, TypeOK
      <4> HIDE DEF n
      <4>2. n \in n..(nonce - 1) BY <4>1
      <4>3. Undecided(n) BY <1>0, <1>3, <4>2 DEF Deciding, n
      <4>4. t \in SlotPaid(n) BY <3>1, <3>2 DEF SlotPaid, Slot, Included, Is, n
      <4> QED BY <4>3, <4>4 DEF Undecided
    <3> QED BY <3>1, <3>2
  <2>2. pc' = "pool" /\ UNCHANGED <<cur, todo, seen>> BY <1>3 DEF Goto
  <2>3. (\A w \in Workers : Unbooked(w)' = Unbooked(w)) => RunAt(c)'
    BY <1>1, <1>2, <1>3, <2>1, <2>2 DEF RunAt, Open, Is, Sup, ledger, node
  <2> QED BY <1>0, <1>1, <1>2, <1>3, <2>2, <2>3, StayWorker DEF Idle
<1>4. CASE NextWorker /\ UNCHANGED ledger
  BY <1>1, <1>2, <1>4, KeepWorker
<1>5. CASE NextWorker /\ KeepIntent(TRUE)
  BY <1>1, <1>2, <1>5, NothingCleared, KeepWorker
<1>6. ASSUME NextWorker, NEW t \in SlotPaid(FirstDeciding), t \notin known, AttachTxHash(t)
      PROVE  SafeInv'
  <2>1. t \in TxIds /\ Matches(t) /\ Is(t, "included") BY DEF SlotPaid, Slot, Included, Is
  <2>2. txs[t].owner = c BY <1>0, <1>2, <2>1, MatchOwner
  <2>3. t \in Unbooked(c) BY <1>2, <1>6, <2>1, <2>2, PendingIsOpen
  <2> QED BY <1>0, <1>1, <1>2, <1>6, <2>1, <2>3, AttachWorker
<1> QED BY <1>3, <1>4, <1>5, <1>6 DEF Resolve

\* Neither the slots nor the mempool have the transfer: it was never sent.
LEMMA StepResolvePool ==
  ASSUME Careful, TypeOK, SafeInv, ResolvePool
  PROVE  SafeInv'
<1>0. PICK c \in Workers : c = cur BY DEF TypeOK
<1>1. /\ pc = "pool" /\ pc \notin Idle /\ ~Sup /\ faults' = faults /\ NextWorker
      /\ UNCHANGED <<accrued, earned, node>>
  BY DEF ResolvePool, Idle, bounds
<1>2. /\ RunAt(c) /\ faults' <= MaxFaults /\ NodeInv /\ LedgerInv
  BY <1>0, <1>1, AtWorker
<1>3. CASE KeepIntent(TRUE)
  BY <1>1, <1>2, <1>3, NothingCleared, KeepWorker
<1>4. CASE ~PoolHasTransfer /\ DropIntent
  <2>1. ASSUME NEW t \in Unbooked(c) PROVE FALSE
    <3>1. t \in TxIds /\ Matches(t) BY <1>0, <1>2, OpenMatches
    <3>2. Is(t, "pending") BY <1>1, <1>2 DEF RunAt
    <3> QED BY <1>4, <3>1, <3>2 DEF PoolHasTransfer, Is
  <2> QED BY <1>0, <1>1, <1>2, <1>4, <2>1, DropWorker
<1> QED BY <1>3, <1>4 DEF ResolvePool

\* CLEAR_PENDING_SUP: what is in flight is in the mempool, or below the nonce.
LEMMA StepSupClearPool ==
  ASSUME TypeOK, SafeInv, SupClearPool
  PROVE  SafeInv'
<1>0. PICK c \in Workers : c = cur BY DEF TypeOK
<1>1. /\ pc = "resolve" /\ pc \notin Idle /\ Sup /\ lane' = lane /\ faults' = faults
      /\ UNCHANGED <<accrued, earned, ledger, node>>
  BY DEF SupClearPool, Idle, bounds
<1>2. /\ RunAt(c) /\ faults' <= MaxFaults /\ NodeInv /\ LedgerInv
  BY <1>0, <1>1, AtWorker
<1>3. CASE ~PoolHasTransfer /\ Goto("pool")
  <2>1. ASSUME NEW t \in Unbooked(c) PROVE Is(t, "included")
    <3>1. t \in TxIds /\ Matches(t) /\ (Is(t, "pending") \/ Is(t, "included"))
      BY <1>0, <1>2, OpenMatches
    <3> QED BY <1>3, <3>1 DEF PoolHasTransfer, Is
  <2>2. pc' = "pool" /\ UNCHANGED <<cur, todo, seen>> BY <1>3 DEF Goto
  <2>3. (\A w \in Workers : Unbooked(w)' = Unbooked(w)) => RunAt(c)'
    BY <1>1, <1>2, <1>3, <2>1, <2>2 DEF RunAt, Open, Is, Sup, ledger, node
  <2> QED BY <1>0, <1>1, <1>2, <2>2, <2>3, StayWorker DEF Idle
<1>4. CASE NextWorker
  BY <1>1, <1>2, <1>4, KeepWorker
<1> QED BY <1>3, <1>4 DEF SupClearPool

\* The nonce has not moved past the intent: nothing of it landed.
LEMMA StepSupClear ==
  ASSUME TypeOK, SafeInv, SupClear
  PROVE  SafeInv'
<1>0. PICK c \in Workers : c = cur BY DEF TypeOK
<1>1. /\ pc = "pool" /\ pc \notin Idle /\ Sup /\ faults' = faults /\ NextWorker
      /\ UNCHANGED <<accrued, earned, node>>
  BY DEF SupClear, Idle, bounds
<1>2. /\ RunAt(c) /\ faults' <= MaxFaults /\ NodeInv /\ LedgerInv
  BY <1>0, <1>1, AtWorker
<1>3. CASE UNCHANGED ledger
  BY <1>1, <1>2, <1>3, KeepWorker
<1>4. CASE nonce <= intent[cur].nonce /\ DropIntent
  <2>1. ASSUME NEW t \in Unbooked(c) PROVE FALSE
    <3>1. t \in TxIds /\ txs[t].nonce = intent[c].nonce BY <1>0, <1>2, OpenMatches
    <3>2. Is(t, "included") BY <1>1, <1>2 DEF RunAt
    <3>3. txs[t].nonce < nonce BY <1>2, <3>1, <3>2 DEF NodeInv
    <3>4. nonce \in Nat /\ intent[c].nonce \in Nat BY IntentTypes DEF TypeOK
    <3> QED BY <1>0, <1>4, <3>1, <3>3, <3>4
  <2> QED BY <1>0, <1>1, <1>2, <1>4, <2>1, DropWorker
<1> QED BY <1>3, <1>4 DEF SupClear

\* An intent for no more than the delta is recorded.
LEMMA StepPrepare ==
  ASSUME TypeOK, TypeOK', SafeInv, Prepare
  PROVE  SafeInv'
<1>0. PICK c \in Workers : c = cur BY DEF TypeOK
<1>1. /\ pc = "prepare" /\ pc \notin Idle /\ faults' = faults /\ lane' = lane
      /\ UNCHANGED <<accrued, earned, node>>
  BY DEF Prepare, Idle, bounds
<1>2. /\ RunAt(c) /\ faults' <= MaxFaults /\ NodeInv /\ LedgerInv
  BY <1>0, <1>1, AtWorker
<1>3. intent[c] = NoIntent BY <1>1, <1>2 DEF RunAt
<1>4. CASE NextWorker /\ UNCHANGED ledger
  BY <1>1, <1>2, <1>4, KeepWorker
<1>5. ASSUME NEW n \in Nat \ {0}, n <= CurDelta, Goto("send"), UNCHANGED <<settled, anchor, known>>,
             intent' = [intent EXCEPT ![cur] = [amount |-> n, nonce |-> nonce, hash |-> NoTx]]
      PROVE  SafeInv'
  <2>1. NodeInv' /\ LedgerInv' /\ Unbooked(c)' = {}
    BY <1>0, <1>1, <1>2, <1>3, <1>5, LedgerPrepare
  <2>2. /\ intent'[c].amount = n /\ intent'[c].hash = NoTx
        /\ \A w \in Workers \ {c} : intent'[w] = intent[w]
    BY <1>0, <1>5 DEF TypeOK
  <2>3. pc' = "send" /\ UNCHANGED <<cur, todo, seen>> BY <1>5 DEF Goto
  <2>4. RunAt(c)' BY <2>1, <2>2, <2>3, NoIntentType DEF RunAt, Open
  <2>5. /\ RunInv'
        /\ \A w \in Workers : InRun(w)' => InRun(w) /\ seen'[w] = seen[w]
    BY <1>0, <1>1, <1>2, <2>3, <2>4, RunStays DEF SafeInv, Idle
  <2>6. ASSUME NEW w \in Workers, w # c PROVE EarnInv(w)'
    <3>1. EarnInv(w) BY DEF SafeInv, CoverInv
    <3>2. InRun(w)' => InRun(w) /\ seen'[w] = seen[w] BY <2>5
    <3>3. intent'[w] = intent[w] BY <2>2, <2>6
    <3> QED BY <1>1, <1>5, <3>1, <3>2, <3>3 DEF EarnInv
  <2>7. EarnInv(c)'
    <3> DEFINE s == settled[c]
               e == earned[c]
               a == accrued[c]
               x == seen[c]
               y == anchor[c]
    <3>1. s \in Nat /\ e \in Nat /\ a \in Nat /\ x \in Nat /\ y \in Nat BY IntentTypes
    <3>2. EarnInv(c) /\ InRun(c) BY <1>0, <1>1 DEF SafeInv, CoverInv, InRun
    <3>3. /\ a <= e /\ x <= e /\ (y # 0 => s + a <= e + y /\ s + x <= e + y)
      BY <3>2 DEF EarnInv
    <3>4. /\ s > x => (y # 0 /\ x >= y /\ n <= x - y)
          /\ ~(s > x) => n <= x - s
      <4>1. n <= Delta(x, s, y) BY <1>0, <1>5 DEF CurDelta
      <4>2. n \in Nat /\ n # 0 BY <1>5
      <4> HIDE DEF x, s, y
      <4> QED BY <3>1, <4>1, <4>2 DEF Delta, Baseline, NewAnchor, NeedAnchor, Rebase
    <3>5. intent'[c].amount = n /\ settled'[c] = s /\ earned'[c] = e /\ accrued'[c] = a
          /\ anchor'[c] = y
      BY <1>1, <1>5, <2>2
    <3>6. n \in Nat BY <1>5
    <3> HIDE DEF s, e, a, x, y
    <3>7. s + n <= e BY <3>1, <3>3, <3>4, <3>6
    <3>8. s + n + a <= e + x BY <3>1, <3>3, <3>4, <3>6
    <3>9. InRun(c)' => seen'[c] = x BY <2>5 DEF x
    <3> QED BY <3>3, <3>5, <3>7, <3>8, <3>9 DEF EarnInv
  <2> QED BY <2>1, <2>5, <2>6, <2>7 DEF SafeInv, CoverInv
<1>6. PICK avail \in Headrooms :
        LET amount == CapChunk(CurDelta, avail)
        IN IF amount = 0 THEN NextWorker /\ UNCHANGED ledger
           ELSE /\ intent' = [intent EXCEPT
                     ![cur] = [amount |-> amount, nonce |-> nonce, hash |-> NoTx]]
                /\ Goto("send")
                /\ UNCHANGED <<settled, anchor, known>>
  BY DEF Prepare
<1>7. CapChunk(CurDelta, avail) \in Nat /\ CapChunk(CurDelta, avail) <= CurDelta
  BY AnchorTypes, CapTypes
<1> QED BY <1>4, <1>5, <1>6, <1>7

\* The node takes the transfer of an intent that had none.
LEMMA StepSendAccepted ==
  ASSUME TypeOK, SafeInv, SendAccepted
  PROVE  SafeInv'
<1>0. PICK c \in Workers : c = cur BY DEF TypeOK
<1>1. /\ pc = "send" /\ pc \notin Idle /\ lane' = lane /\ UNCHANGED <<cur, todo, seen>>
      /\ UNCHANGED <<accrued, earned, ledger, nonce, paid>>
  BY DEF SendAccepted, Idle
<1>2. /\ RunAt(c) /\ faults <= MaxFaults /\ NodeInv /\ LedgerInv
  BY <1>0, <1>1, AtWorker
<1>3. intent[c] # NoIntent /\ intent[c].hash = NoTx /\ Unbooked(c) = {}
  BY <1>1, <1>2 DEF RunAt, Open
<1> DEFINE n == Len(txs) + 1
<1>4. /\ NodeInv' /\ LedgerInv'
      /\ n \in TxIds' \ known' /\ n # NoTx
      /\ txs'[n].owner = c /\ txs'[n].amount = intent'[c].amount
      /\ \A t \in Unbooked(c)' : t = n
  BY <1>0, <1>1, <1>2, <1>3, LedgerSend DEF SendAccepted
<1>5. \/ pc' = "attach" /\ reply' = n /\ faults' = faults
      \/ pc' = "failed" /\ Fault
  BY DEF SendAccepted, bounds
<1> HIDE DEF n
<1>6. faults' <= MaxFaults /\ (pc' = "failed" => faults' > 0)
  BY <1>2, <1>5, TypeParts, BoundFault
<1>7. RunAt(c)' BY <1>1, <1>3, <1>4, <1>5, <1>6 DEF RunAt, Open, ledger
<1>8. /\ RunInv'
      /\ \A w \in Workers : InRun(w)' => InRun(w) /\ seen'[w] = seen[w]
  BY <1>0, <1>1, <1>5, <1>6, <1>7, RunStays DEF SafeInv, Idle
<1>9. \A w \in Workers : intent'[w].amount \in Nat /\ intent'[w].amount <= intent[w].amount
  BY <1>1, IntentTypes DEF ledger
<1>10. CoverInv' BY <1>1, <1>8, <1>9, CoverKept DEF SafeInv, ledger
<1> QED BY <1>4, <1>8, <1>10 DEF SafeInv

\* The other outcomes of a send, and what the settler reads after them.
LEMMA StepSending ==
  ASSUME TypeOK, SafeInv, SendRefused \/ SendFails \/ Retry \/ SendFailed
  PROVE  SafeInv'
<1>0. PICK c \in Workers : c = cur BY DEF TypeOK
<1>1. /\ pc \in {"send", "retry", "failed"} /\ pc \notin Idle /\ pc \in Open /\ lane' = lane
      /\ UNCHANGED <<accrued, earned, ledger, node>>
  BY DEF SendRefused, SendFails, Retry, SendFailed, Idle, Open
<1>2. /\ RunAt(c) /\ faults <= MaxFaults /\ NodeInv /\ LedgerInv
  BY <1>0, <1>1, AtWorker
<1>3. faults' <= MaxFaults
  BY <1>2, TypeParts, BoundFault DEF SendRefused, SendFails, Retry, SendFailed, bounds
<1>4. CASE NextWorker
  BY <1>1, <1>3, <1>4, KeepWorker
<1>5. CASE /\ pc \in {"send", "retry"} /\ pc' \in {"retry", "failed", "send"}
           /\ UNCHANGED <<cur, todo, seen>>
  <2>1. (\A w \in Workers : Unbooked(w)' = Unbooked(w)) => RunAt(c)'
    BY <1>1, <1>2, <1>5 DEF RunAt, Open, ledger
  <2> QED BY <1>0, <1>1, <1>3, <1>5, <2>1, StayWorker DEF Idle
<1>6. CASE pc = "failed" /\ ~(nonce > intent[cur].nonce) /\ Goto(AfterFailure)
  <2>1. ASSUME NEW t \in Unbooked(c) PROVE Is(t, "pending")
    <3>1. /\ t \in TxIds /\ txs[t].nonce = intent[c].nonce
          /\ Is(t, "pending") \/ Is(t, "included")
      BY <1>0, <1>2, OpenMatches
    <3>2. nonce \in Nat /\ intent[c].nonce \in Nat BY IntentTypes DEF TypeOK
    <3> QED BY <1>0, <1>2, <1>6, <3>1, <3>2 DEF NodeInv
  <2>2. pc' \in {"inpool", "history"} /\ UNCHANGED <<cur, todo, seen>>
    BY <1>6 DEF Goto, AfterFailure
  <2>3. (\A w \in Workers : Unbooked(w)' = Unbooked(w)) => RunAt(c)'
    BY <1>1, <1>2, <2>1, <2>2 DEF RunAt, Open, Is, ledger, node
  <2> QED BY <1>0, <1>1, <1>3, <2>2, <2>3, StayWorker DEF Idle
<1> QED BY <1>4, <1>5, <1>6 DEF SendRefused, SendFails, Retry, SendFailed, Goto

\* The history has the transfer, or it is pending.
LEMMA StepFindInHistory ==
  ASSUME Careful, TypeOK, SafeInv, FindInHistory
  PROVE  SafeInv'
<1>0. PICK c \in Workers : c = cur BY DEF TypeOK
<1>1. /\ pc = "history" /\ pc \notin Idle /\ pc \in Open /\ lane' = lane /\ faults' = faults
      /\ UNCHANGED <<accrued, earned, node>>
  BY DEF FindInHistory, Idle, Open, bounds
<1>2. /\ RunAt(c) /\ faults' <= MaxFaults /\ NodeInv /\ LedgerInv /\ IntentInv(c)
      /\ intent[c].hash = NoTx /\ intent[c] # NoIntent
  BY <1>0, <1>1, AtWorker DEF RunAt
<1> DEFINE found == {t \in Slot(intent[cur].nonce) : Matches(t) /\ txs[t].status = "included"}
<1>3. ASSUME NEW t \in found, NextWorker, AttachTxHash(t) PROVE SafeInv'
  <2>1. t \in TxIds /\ Matches(t) /\ Is(t, "included") /\ txs[t].nonce = intent[c].nonce
    BY <1>0 DEF Slot, Is
  <2>2. txs[t].owner = c BY <1>0, <1>2, <2>1, MatchOwner
  <2>3. t # NoTx /\ intent[c].nonce \in Nat BY <2>1, TxTypes, IntentTypes
  <2>4. t \notin known BY <1>2, <2>1, <2>2, <2>3 DEF IntentInv, Is
  <2>5. t \in Unbooked(c) BY <1>2, <2>1, <2>2, <2>4, PendingIsOpen
  <2> QED BY <1>0, <1>1, <1>2, <1>3, <2>1, <2>4, <2>5, AttachWorker
<1>4. CASE found = {} /\ Goto("inpool") /\ UNCHANGED ledger
  <2>1. ASSUME NEW t \in Unbooked(c) PROVE Is(t, "pending")
    <3>1. /\ t \in TxIds /\ Matches(t) /\ txs[t].nonce = intent[c].nonce
          /\ Is(t, "pending") \/ Is(t, "included")
      BY <1>0, <1>2, OpenMatches
    <3>2. Is(t, "included") => t \in found BY <1>0, <3>1 DEF Slot, Is
    <3> QED BY <1>4, <3>1, <3>2
  <2>2. pc' = "inpool" /\ UNCHANGED <<cur, todo, seen>> BY <1>4 DEF Goto
  <2>3. (\A w \in Workers : Unbooked(w)' = Unbooked(w)) => RunAt(c)'
    BY <1>1, <1>2, <1>4, <2>1, <2>2 DEF RunAt, Open, Is, ledger, node
  <2> QED BY <1>0, <1>1, <1>2, <1>4, <2>2, <2>3, StayWorker DEF Idle
<1> QED BY <1>3, <1>4 DEF FindInHistory, FindIn

\* What is in flight is pending, and the pool would have it.
LEMMA StepFindInPool ==
  ASSUME Careful, TypeOK, SafeInv, FindInPool \/ SupFindInPool
  PROVE  SafeInv'
<1>0. PICK c \in Workers : c = cur BY DEF TypeOK
<1>1. /\ pc = "inpool" /\ pc \notin Idle /\ pc \in Open /\ faults' = faults /\ NextWorker
      /\ UNCHANGED <<accrued, earned, node>>
  BY DEF FindInPool, SupFindInPool, FindIn, Idle, Open, bounds
<1>2. /\ RunAt(c) /\ faults' <= MaxFaults /\ NodeInv /\ LedgerInv /\ intent[c].hash = NoTx
  BY <1>0, <1>1, AtWorker DEF RunAt
<1> DEFINE found == {t \in Slot(intent[cur].nonce) : Matches(t) /\ txs[t].status = "pending"}
           open == {t \in TxIds : Matches(t) /\ txs[t].status = "pending"}
<1>3. \/ \E t \in open : AttachTxHash(t)
      \/ (found = {} \/ open = {}) /\ DropIntent
  BY DEF FindInPool, SupFindInPool, FindIn, Slot
<1>4. ASSUME NEW t \in open, AttachTxHash(t) PROVE SafeInv'
  <2>1. t \in TxIds /\ Matches(t) /\ Is(t, "pending") BY DEF Is
  <2>2. txs[t].owner = c BY <1>0, <1>2, <2>1, MatchOwner
  <2>3. t \in Unbooked(c) BY <1>2, <2>1, <2>2, PendingIsOpen
  <2>4. t \notin known BY <1>2, <2>1, <2>3, TxTypes DEF Unbooked
  <2> QED BY <1>0, <1>1, <1>2, <1>4, <2>1, <2>3, <2>4, AttachWorker
<1>5. CASE (found = {} \/ open = {}) /\ DropIntent
  <2>1. ASSUME NEW t \in Unbooked(c) PROVE FALSE
    <3>1. t \in TxIds /\ Matches(t) /\ txs[t].nonce = intent[c].nonce
      BY <1>0, <1>2, OpenMatches
    <3>2. txs[t].status = "pending" BY <1>1, <1>2 DEF RunAt, Is
    <3>3. t \in found /\ t \in open BY <1>0, <3>1, <3>2 DEF Slot
    <3> QED BY <1>5, <3>3
  <2> QED BY <1>0, <1>1, <1>2, <1>5, <2>1, DropWorker
<1> QED BY <1>3, <1>4, <1>5

\* The hash the node answered is stamped.
LEMMA StepAttach ==
  ASSUME TypeOK, SafeInv, Attach
  PROVE  SafeInv'
<1>0. PICK c \in Workers : c = cur BY DEF TypeOK
<1>1. /\ pc = "attach" /\ pc \notin Idle /\ pc \in Open /\ faults' = faults /\ lane' = lane
      /\ Goto("confirm") /\ AttachTxHash(reply) /\ UNCHANGED <<accrued, earned, node>>
  BY DEF Attach, Idle, Open, bounds
<1>2. /\ RunAt(c) /\ faults' <= MaxFaults /\ NodeInv /\ LedgerInv
  BY <1>0, <1>1, AtWorker
<1>3. PICK t \in TxIds : t = reply BY <1>1, <1>2 DEF RunAt
<1>4. /\ NodeInv' /\ LedgerInv' /\ intent'[c].hash = t
      /\ \A w \in Workers : intent'[w].amount = intent[w].amount
  BY <1>0, <1>1, <1>2, <1>3, LedgerAttach DEF RunAt
<1>5. t # NoTx BY TxTypes
<1>6. pc' = "confirm" /\ reply' = reply /\ UNCHANGED <<cur, todo, seen>> BY <1>1 DEF Goto
<1>7. RunAt(c)' BY <1>3, <1>4, <1>5, <1>6 DEF RunAt, Open
<1>8. /\ RunInv'
      /\ \A w \in Workers : InRun(w)' => InRun(w) /\ seen'[w] = seen[w]
  BY <1>0, <1>1, <1>2, <1>6, <1>7, RunStays DEF SafeInv, Idle
<1>9. \A w \in Workers : intent'[w].amount \in Nat /\ intent'[w].amount <= intent[w].amount
  BY <1>4, IntentTypes
<1>10. CoverInv' BY <1>1, <1>8, <1>9, CoverKept DEF SafeInv, AttachTxHash
<1> QED BY <1>4, <1>8, <1>10 DEF SafeInv

\* A payout that was included is booked at once.
LEMMA StepConfirm ==
  ASSUME TypeOK, SafeInv, Confirm
  PROVE  SafeInv'
<1>1. /\ pc = "confirm" /\ pc \notin Idle /\ NextWorker /\ faults' = faults
      /\ UNCHANGED <<accrued, earned, node>>
  BY DEF Confirm, Idle, bounds
<1>2. /\ faults' <= MaxFaults /\ intent[cur].hash # NoTx /\ reply = intent[cur].hash
  BY <1>1, AtWorker DEF RunAt
<1>3. CASE UNCHANGED ledger BY <1>1, <1>2, <1>3, KeepWorker
<1>4. CASE Included(reply) /\ ApplySettle(intent[cur].amount, ConfirmAnchor)
  BY <1>1, <1>2, <1>4, AnchorTypes, AnchorCovers, BookWorker
<1> QED BY <1>3, <1>4 DEF Confirm

\* A lookup or a write fails.  In the SUP lane a nonce that could not be read counts
\* as one that did not move; nothing else has failed then, so nothing was sent.
LEMMA StepLookupFails ==
  ASSUME Careful, TypeOK, SafeInv, LookupFails
  PROVE  SafeInv'
<1>0. PICK c \in Workers : c = cur BY DEF TypeOK
<1>1. lane' = lane /\ Fault /\ UNCHANGED <<accrued, earned, node>> BY DEF LookupFails
<1>2. faults' <= MaxFaults /\ faults < MaxFaults BY <1>1, TypeParts, BoundFault DEF Fault
<1>3. ASSUME pc = "next", NEW w \in todo, Leave(w), todo' = todo \ {w}, UNCHANGED ledger
      PROVE  SafeInv'
  <2>1. NodeInv' /\ LedgerInv' BY <1>1, <1>3, LedgerSame DEF SafeInv, ledger
  <2>2. /\ RunInv'
        /\ \A v \in Workers : InRun(v)' => InRun(v) /\ seen'[v] = seen[v]
    BY <1>2, <1>3 DEF Leave, RunInv, Idle, InRun, TypeOK
  <2>3. \A v \in Workers : intent'[v].amount \in Nat /\ intent'[v].amount <= intent[v].amount
    BY <1>3, IntentTypes DEF ledger
  <2>4. CoverInv' BY <1>1, <1>3, <2>2, <2>3, CoverKept DEF SafeInv, ledger
  <2> QED BY <2>1, <2>2, <2>4 DEF SafeInv
<1>4. CASE pc \notin Idle /\ NextWorker /\ UNCHANGED ledger
  BY <1>1, <1>2, <1>4, KeepWorker
<1>5. CASE pc \in {"retry", "failed"} /\ UNCHANGED ledger
           /\ (pc = "retry" => Goto("failed")) /\ (pc = "failed" => Goto(AfterFailure))
  <2>1. pc \notin Idle /\ pc \in Open BY <1>5 DEF Idle, Open
  <2>2. RunAt(c) BY <1>0, <2>1, AtWorker
  <2>3. UNCHANGED <<cur, todo, seen>> BY <1>5 DEF Goto
  <2>4. (\A w \in Workers : Unbooked(w)' = Unbooked(w)) => RunAt(c)'
    <3>1. CASE pc = "retry"
      BY <1>5, <2>2, <3>1 DEF RunAt, Open, Goto, ledger
    <3>2. CASE pc = "failed" /\ ~Sup
      BY <1>1, <1>5, <2>2, <3>2 DEF RunAt, Open, Goto, AfterFailure, Sup, ledger
    <3>3. CASE pc = "failed" /\ Sup
      <4>1. MaxFaults <= 1 BY <3>3 DEF Careful, Sup, TypeOK
      <4>2. ~(faults > 0) BY <1>2, <4>1, SettleAssumption DEF TypeOK
      <4>3. Unbooked(c) = {} BY <2>2, <3>3, <4>2 DEF RunAt
      <4> QED BY <1>5, <2>2, <3>3, <4>3 DEF RunAt, Open, Goto, AfterFailure, ledger
    <3> QED BY <1>5, <3>1, <3>2, <3>3
  <2>5. pc' \notin Idle BY <1>5 DEF Goto, AfterFailure, Idle
  <2> QED BY <1>0, <1>1, <1>2, <1>5, <2>1, <2>3, <2>4, <2>5, StayWorker
<1>6. KeepUnconfirmed \/ (\E b \in BOOLEAN : KeepIntent(b)) => UNCHANGED ledger
  BY NothingCleared
<1> QED BY <1>3, <1>4, <1>5, <1>6 DEF LookupFails, Idle

----------------------------------------------------------------------------
(* The steps of others, and the theorems.                                   *)

\* Others leave the run where it is.
LEMMA RunElse ==
  ASSUME TypeOK, RunInv, UNCHANGED run, faults' = faults,
         NEW c \in Workers, c = cur, pc \notin Idle => RunAt(c)'
  PROVE  /\ RunInv'
         /\ \A w \in Workers : InRun(w)' => InRun(w) /\ seen'[w] = seen[w]
<1>1. /\ pc' = pc /\ cur' = c /\ todo' = todo /\ seen' = seen BY DEF run
<1>2. pc' \notin Idle => RunAt(cur)' BY <1>1 DEF RunAt, Is, Unbooked, TxIds
<1> QED BY <1>1, <1>2 DEF RunInv, InRun

\* A block includes a transfer: not while the settler is between two reads.
LEMMA StepInclude ==
  ASSUME Careful, TypeOK, SafeInv, NEW t \in TxIds, Include(t)
  PROVE  SafeInv'
<1>0. PICK c \in Workers : c = cur BY DEF TypeOK
<1>1. /\ NodeInv' /\ LedgerInv'
      /\ \A w \in Workers : Unbooked(w)' = Unbooked(w)
      /\ TxIds' = TxIds /\ \A u \in TxIds : /\ txs'[u].owner = txs[u].owner
                                            /\ txs'[u].amount = txs[u].amount
                                            /\ txs[u].status = "included" =>
                                                 txs'[u].status = "included"
  <2>1. NodeInv /\ LedgerInv BY DEF SafeInv
  <2> QED BY <2>1, LedgerInclude
<1>2. /\ pc \notin {"pool", "inpool"} /\ lane' = lane /\ faults' = faults /\ UNCHANGED run
      /\ UNCHANGED <<accrued, earned, ledger>>
  BY DEF Include, Careful, NoReadPending, bounds
<1>3. ASSUME pc \notin Idle PROVE RunAt(c)'
  <2>1. RunAt(c) BY <1>0, <1>3, AtWorker
  <2>2. pc' = pc /\ reply' = reply /\ intent' = intent /\ known' = known
    BY <1>2 DEF run, ledger
  <2> QED BY <1>1, <1>2, <2>1, <2>2 DEF RunAt, Sup
<1>4. /\ RunInv'
      /\ \A w \in Workers : InRun(w)' => InRun(w) /\ seen'[w] = seen[w]
  BY <1>0, <1>2, <1>3, RunElse DEF SafeInv
<1>5. \A w \in Workers : intent'[w].amount \in Nat /\ intent'[w].amount <= intent[w].amount
  BY <1>2, IntentTypes DEF ledger
<1>6. CoverInv' BY <1>2, <1>4, <1>5, CoverKept DEF SafeInv, ledger
<1> QED BY <1>1, <1>4, <1>6 DEF SafeInv

\* A block refuses a transfer.
LEMMA StepReject ==
  ASSUME TypeOK, SafeInv, NEW t \in TxIds, Reject(t)
  PROVE  SafeInv'
<1>0. PICK c \in Workers : c = cur BY DEF TypeOK
<1>1. /\ NodeInv' /\ LedgerInv'
      /\ \A w \in Workers : Unbooked(w)' = Unbooked(w) \ {t}
      /\ TxIds' = TxIds /\ \A u \in TxIds : /\ txs'[u].owner = txs[u].owner
                                            /\ txs'[u].amount = txs[u].amount
                                            /\ u # t => txs'[u].status = txs[u].status
  BY LedgerReject DEF SafeInv
<1>2. /\ lane' = lane /\ faults' = faults /\ UNCHANGED run
      /\ UNCHANGED <<accrued, earned, ledger>>
  BY DEF Reject, bounds
<1>3. ASSUME pc \notin Idle PROVE RunAt(c)'
  <2>1. RunAt(c) BY <1>0, <1>3, AtWorker
  <2>2. pc' = pc /\ reply' = reply /\ intent' = intent /\ known' = known
    BY <1>2 DEF run, ledger
  <2>3. Unbooked(c)' = Unbooked(c) \ {t} BY <1>1
  <2>4. Unbooked(c) \subseteq TxIds BY DEF Unbooked
  <2>5. \A u \in Unbooked(c)' : /\ u \in Unbooked(c) /\ u \in TxIds
                                /\ txs'[u].status = txs[u].status
    BY <1>1, <2>3, <2>4
  <2> QED BY <1>1, <1>2, <2>1, <2>2, <2>5 DEF RunAt, Sup, Is
<1>4. /\ RunInv'
      /\ \A w \in Workers : InRun(w)' => InRun(w) /\ seen'[w] = seen[w]
  BY <1>0, <1>2, <1>3, RunElse DEF SafeInv
<1>5. \A w \in Workers : intent'[w].amount \in Nat /\ intent'[w].amount <= intent[w].amount
  BY <1>2, IntentTypes DEF ledger
<1>6. CoverInv' BY <1>2, <1>4, <1>5, CoverKept DEF SafeInv, ledger
<1> QED BY <1>1, <1>4, <1>6 DEF SafeInv

\* The payer sends something else.
LEMMA StepOtherSend ==
  ASSUME TypeOK, SafeInv, OtherSend
  PROVE  SafeInv'
<1>0. PICK c \in Workers : c = cur BY DEF TypeOK
<1>1. /\ NodeInv' /\ LedgerInv'
      /\ \A w \in Workers : Unbooked(w)' = Unbooked(w)
      /\ TxIds \subseteq TxIds' /\ \A u \in TxIds : txs'[u] = txs[u]
  BY LedgerOther DEF SafeInv
<1>2. /\ lane' = lane /\ faults' = faults /\ UNCHANGED run
      /\ UNCHANGED <<accrued, earned, ledger>>
  BY DEF OtherSend, bounds
<1>3. ASSUME pc \notin Idle PROVE RunAt(c)'
  <2>1. RunAt(c) BY <1>0, <1>3, AtWorker
  <2>2. pc' = pc /\ reply' = reply /\ intent' = intent /\ known' = known
    BY <1>2 DEF run, ledger
  <2>3. \A u \in Unbooked(c) : u \in TxIds BY DEF Unbooked
  <2> QED BY <1>1, <1>2, <2>1, <2>2, <2>3 DEF RunAt, Sup, Is
<1>4. /\ RunInv'
      /\ \A w \in Workers : InRun(w)' => InRun(w) /\ seen'[w] = seen[w]
  BY <1>0, <1>2, <1>3, RunElse DEF SafeInv
<1>5. \A w \in Workers : intent'[w].amount \in Nat /\ intent'[w].amount <= intent[w].amount
  BY <1>2, IntentTypes DEF ledger
<1>6. CoverInv' BY <1>2, <1>4, <1>5, CoverKept DEF SafeInv, ledger
<1> QED BY <1>1, <1>4, <1>6 DEF SafeInv

\* A worker earns, or the coordinator restarts from an older counter: a counter never
\* grows by more than what is earned.
LEMMA StepCounter ==
  ASSUME TypeOK, TypeOK', SafeInv, NEW v \in Workers,
         (\E k \in Increments : Earn(v, k)) \/ CounterReset(v)
  PROVE  SafeInv'
<1>0. PICK c \in Workers : c = cur BY DEF TypeOK
<1>1. UNCHANGED <<lane, ledger, node, run, faults>> BY DEF Earn, CounterReset, bounds
<1>2. NodeInv' /\ LedgerInv' BY <1>1, LedgerSame DEF SafeInv, ledger
<1>3. ASSUME pc \notin Idle PROVE RunAt(c)'
  <2>1. RunAt(c) BY <1>0, <1>3, AtWorker
  <2> QED BY <1>1, <2>1 DEF RunAt, Sup, Is, Unbooked, TxIds, run, ledger, node
<1>4. /\ RunInv'
      /\ \A w \in Workers : InRun(w)' => InRun(w) /\ seen'[w] = seen[w]
  BY <1>0, <1>1, <1>3, RunElse DEF SafeInv
<1>5. ASSUME NEW w \in Workers PROVE EarnInv(w)'
  <2> DEFINE n == intent[w].amount
             s == settled[w]
             e == earned[w]
             f == earned'[w]
             a == accrued[w]
             b == accrued'[w]
             x == seen[w]
             y == anchor[w]
  <2>1. /\ n \in Nat /\ s \in Nat /\ e \in Nat /\ a \in Nat /\ x \in Nat /\ y \in Nat
        /\ f \in Nat /\ b \in Nat
    BY IntentTypes DEF TypeOK
  <2>2. EarnInv(w) BY DEF SafeInv, CoverInv
  <2>3. \E i \in Nat : f = e + i /\ b <= a + i
    <3>1. ASSUME NEW k \in Increments, Earn(v, k) PROVE \E i \in Nat : f = e + i /\ b <= a + i
      <4>1. k \in Nat BY SettleAssumption
      <4>2. /\ accrued' = [accrued EXCEPT ![v] = @ + k]
            /\ earned' = [earned EXCEPT ![v] = @ + k]
        BY <3>1 DEF Earn
      <4>3. DOMAIN accrued = Workers /\ DOMAIN earned = Workers BY DEF TypeOK
      <4>4. CASE w = v
        <5>1. f = e + k /\ b = a + k BY <4>2, <4>3, <4>4
        <5> HIDE DEF e, f, a, b
        <5>2. b <= a + k BY <2>1, <4>1, <5>1
        <5> QED BY <4>1, <5>1, <5>2
      <4>5. CASE w # v
        <5>1. f = e /\ b = a BY <4>2, <4>3, <4>5
        <5> HIDE DEF e, f, a, b
        <5>2. f = e + 0 /\ b <= a + 0 BY <2>1, <5>1
        <5> QED BY <5>2
      <4> QED BY <4>4, <4>5
    <3>2. CASE CounterReset(v)
      <4>1. PICK z \in 0 .. accrued[v] : accrued' = [accrued EXCEPT ![v] = z]
        BY <3>2 DEF CounterReset
      <4>2. DOMAIN accrued = Workers /\ accrued[v] \in Nat BY DEF TypeOK
      <4>3. z <= accrued[v] BY <4>1, <4>2
      <4>4. f = e BY <3>2 DEF CounterReset
      <4>5. b <= a
        <5>1. CASE w = v BY <4>1, <4>2, <4>3, <5>1
        <5>2. CASE w # v
          <6>1. b = a BY <4>1, <4>2, <5>2
          <6> HIDE DEF a, b
          <6> QED BY <2>1, <6>1
        <5> QED BY <5>1, <5>2
      <4> HIDE DEF e, f, a, b
      <4>6. f = e + 0 /\ b <= a + 0 BY <2>1, <4>4, <4>5
      <4> QED BY <4>6
    <3> QED BY <3>1, <3>2
  <2>4. /\ a <= e /\ s + n <= e /\ (y # 0 => s + a <= e + y)
        /\ InRun(w) => x <= e /\ s + n + a <= e + x /\ (y # 0 => s + x <= e + y)
    BY <2>2 DEF EarnInv
  <2>5. /\ intent'[w].amount = n /\ settled'[w] = s /\ anchor'[w] = y /\ seen'[w] = x
        /\ InRun(w)' => InRun(w)
    BY <1>1, <1>4 DEF ledger, run
  <2> HIDE DEF n, s, e, f, a, b, x, y
  <2>6. /\ b <= f /\ s + n <= f /\ (y # 0 => s + b <= f + y)
        /\ InRun(w) => x <= f /\ s + n + b <= f + x /\ (y # 0 => s + x <= f + y)
    BY <2>1, <2>3, <2>4
  <2> QED BY <2>5, <2>6 DEF EarnInv, f, b
<1> QED BY <1>2, <1>4, <1>5 DEF SafeInv, CoverInv

\* Every step keeps the invariant.
LEMMA SafeNext ==
  ASSUME Careful, TypeOK, SafeInv, [Next]_vars
  PROVE  SafeInv'
<1>0. TypeOK' BY TypeNext
<1>1. CASE SettlerStep
  <2>1. EndRun => SafeInv' BY StepExit DEF EndRun, SafeInv, RunInv, bounds
  <2> QED
    BY <1>0, <1>1, <2>1, StepStartRun, StepVisit, StepRecover, StepResolve, StepResolvePool,
       StepPrepare, StepSupClearPool, StepSupClear, StepSendAccepted, StepSending,
       StepFindInHistory, StepFindInPool, StepAttach, StepConfirm DEF SettlerStep
<1>2. CASE BlockStep BY <1>2, StepInclude DEF BlockStep
<1>3. CASE SendFails BY <1>3, StepSending
<1>4. CASE LookupFails BY <1>4, StepLookupFails
<1>5. CASE Crash
  <2>1. faults' <= MaxFaults BY <1>5, TypeParts, BoundFault DEF Crash
  <2> QED BY <1>5, <2>1, StepExit DEF Crash
<1>6. CASE OtherSend BY <1>6, StepOtherSend
<1>7. ASSUME NEW t \in TxIds, Reject(t) PROVE SafeInv' BY <1>7, StepReject
<1>8. ASSUME NEW w \in Workers, NEW k \in Increments, Earn(w, k) PROVE SafeInv'
  BY <1>0, <1>8, StepCounter
<1>9. ASSUME NEW w \in Workers, CounterReset(w) PROVE SafeInv'
  BY <1>0, <1>9, StepCounter
<1>10. CASE UNCHANGED vars
  BY <1>10 DEF vars, SafeInv, NodeInv, LedgerInv, RunInv, CoverInv, IntentInv, BookInv, Landed,
     Unbooked, Included, RunAt, EarnInv, InRun, Is, Sup, TxIds
<1> QED
  BY <1>1, <1>2, <1>3, <1>4, <1>5, <1>6, <1>7, <1>8, <1>9, <1>10 DEF Next

\* The invariant holds before the first run.
LEMMA SafeInit ==
  ASSUME Init
  PROVE  TypeOK /\ SafeInv
<1>1. txs = << >> /\ Len(txs) = 0 /\ txs \in Seq(Tx) BY EmptySeq DEF Init
<1>2. TxIds = {} BY <1>1 DEF TxIds
<1>3. TypeOK
  <2>1. intent \in [Workers -> Intent] BY NoIntentType DEF Init
  <2>2. cur \in Workers BY SomeWorker DEF Init
  <2>3. FirstNonce \in Nat BY SettleAssumption
  <2> QED BY <1>1, <2>1, <2>2, <2>3 DEF Init, TypeOK, Steps, NoTx
<1>4. \A w \in Workers : Unbooked(w) = {} /\ ~Landed(w) BY <1>2 DEF Unbooked, Landed
<1>5. \A w \in Workers : /\ intent[w] = NoIntent /\ settled[w] = 0 /\ anchor[w] = 0
                         /\ accrued[w] = 0 /\ earned[w] = 0 /\ paid[w] = 0 /\ ~InRun(w)
  BY DEF Init, InRun, Idle
<1>6. NodeInv BY <1>2 DEF NodeInv
<1>7. LedgerInv BY <1>2, <1>4, <1>5, NoIntentType DEF LedgerInv, IntentInv, BookInv, Init
<1>8. RunInv BY SettleAssumption DEF RunInv, Init, Idle
<1>9. CoverInv BY <1>5, NoIntentType DEF CoverInv, EarnInv
<1> QED BY <1>3, <1>6, <1>7, <1>8, <1>9 DEF SafeInv

\* TypeOK: the counters, the ledger's columns, the node's transfers and the variables
\* of a run keep their types.
THEOREM TypeCorrect == Spec => []TypeOK
<1>1. Init => TypeOK BY SafeInit
<1>2. TypeOK /\ [Next]_vars => TypeOK' BY TypeNext
<1> QED BY <1>1, <1>2, PTL DEF Spec

\* What the invariant says of the three properties.
LEMMA SafeImplies ==
  ASSUME TypeOK, SafeInv
  PROVE  NeverOverpaid /\ SettledWasPaid /\ InFlightHasIntent
<1>1. ASSUME NEW w \in Workers PROVE settled[w] <= paid[w] /\ paid[w] <= earned[w]
  <2>1. /\ settled[w] \in Nat /\ paid[w] \in Nat /\ earned[w] \in Nat
        /\ intent[w].amount \in Nat
    BY IntentTypes
  <2>2. BookInv(w) /\ settled[w] + intent[w].amount <= earned[w]
    BY DEF SafeInv, LedgerInv, CoverInv, EarnInv
  <2> QED BY <2>1, <2>2 DEF BookInv
<1>2. InFlightHasIntent
  <2> SUFFICES ASSUME NEW w \in Workers, NEW t \in Unbooked(w)
               PROVE  /\ Unbooked(w) = {t} /\ intent[w].amount = txs[t].amount
                      /\ intent[w].hash \in {NoTx, t}
    BY DEF InFlightHasIntent
  <2> QED BY DEF SafeInv, LedgerInv, IntentInv
<1> QED BY <1>1, <1>2 DEF NeverOverpaid, SettledWasPaid

\* NeverOverpaid: whatever crashes, losses, nonce conflicts, other transfers and resets
\* of the counters do, no worker receives more than it earned.
THEOREM NeverOverpays ==
  ASSUME Careful
  PROVE  Spec => []NeverOverpaid
<1>1. Init => TypeOK /\ SafeInv BY SafeInit
<1>2. TypeOK /\ SafeInv /\ [Next]_vars => (TypeOK /\ SafeInv)' BY TypeNext, SafeNext
<1>3. TypeOK /\ SafeInv => NeverOverpaid BY SafeImplies
<1> QED BY <1>1, <1>2, <1>3, PTL DEF Spec

\* SettledWasPaid: the watermark never claims a payout that did not land.
THEOREM BooksWhatLanded ==
  ASSUME Careful
  PROVE  Spec => []SettledWasPaid
<1>1. Init => TypeOK /\ SafeInv BY SafeInit
<1>2. TypeOK /\ SafeInv /\ [Next]_vars => (TypeOK /\ SafeInv)' BY TypeNext, SafeNext
<1>3. TypeOK /\ SafeInv => SettledWasPaid BY SafeImplies
<1> QED BY <1>1, <1>2, <1>3, PTL DEF Spec

\* InFlightHasIntent: a payout in flight, or landed and not booked, is the only one of
\* its worker and is covered by the intent that sent it.
THEOREM IntentCovers ==
  ASSUME Careful
  PROVE  Spec => []InFlightHasIntent
<1>1. Init => TypeOK /\ SafeInv BY SafeInit
<1>2. TypeOK /\ SafeInv /\ [Next]_vars => (TypeOK /\ SafeInv)' BY TypeNext, SafeNext
<1>3. TypeOK /\ SafeInv => InFlightHasIntent BY SafeImplies
<1> QED BY <1>1, <1>2, <1>3, PTL DEF Spec
=============================================================================
