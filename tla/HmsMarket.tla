----------------------------- MODULE HmsMarket -----------------------------
(***************************************************************************)
(* The storage market of the HMS lane: a node debits its wallet for an     *)
(* order (internal/chain/hms_market_payment.go) and forwards it to the HMS *)
(* coordinator (internal/hms), which takes uploads of the order's chunk,   *)
(* copies them to storage workers, lists who has a copy, repairs the list  *)
(* in a health tick, and completes or cancels the order.                   *)
(*                                                                         *)
(* An order has one chunk.  Every SQL statement and every file write is a  *)
(* step; a read is a step where what it read is used later.  Requests run  *)
(* beside each other and beside the tick: nothing in the coordinator locks *)
(* an order.  hms_replica_health and the repair log, which nothing here    *)
(* reads, are left out, and so are sizes: a request that is too large, or  *)
(* finds no capacity, is one that did not come.                            *)
(***************************************************************************)
EXTENDS Naturals, Sequences, FiniteSets

CONSTANTS
  Workers,    \* storage workers
  Quota,      \* [Workers -> Nat]: how many chunks a worker has room for
  Replicas,   \* HMS_MARKET_REPLICAS
  Contents,   \* ciphertexts a client uploads as the chunk
  Keys,       \* idempotency keys of a client's orders
  Storage, Fee, Burn,  \* the quote, in units
  Balance,    \* the node's wallet in the beginning
  Requests,   \* requests the coordinator handles
  MaxOrders,  \* bound: orders
  Scenarios   \* what runs beside what, see ScenarioType

NoOne == "nobody"
Nothing == "nothing"
Orders == 1..MaxOrders
Threads == Requests \cup {"tick"}

\* A scenario: whether the health loop runs, and the bounds: requests under way at
\* once, requests for an order, and faults (failed writes, lost answers and
\* files, crashes).
ScenarioType == [tick : BOOLEAN, requests : Nat, creates : Nat, faults : Nat]

ASSUME MarketAssumption ==
  /\ Quota \in [Workers -> Nat] /\ NoOne \notin Workers /\ Nothing \notin Contents
  /\ IsFiniteSet(Workers) /\ IsFiniteSet(Contents)
  /\ "tick" \notin Requests
  /\ {Replicas, MaxOrders} \subseteq Nat \ {0}
  /\ {Storage, Fee, Burn, Balance} \subseteq Nat /\ Burn <= Storage
  /\ Scenarios \subseteq ScenarioType

VARIABLES
  scenario, \* it never changes
  node,     \* the node: wallet, counters, recorded payments by key
  order,    \* coordinator: hms_orders with the chunk's rows; history of an order
  file,     \* the chunk's file of a worker
  online,   \* workers that were seen lately
  th,       \* requests and the tick
  creates, faults, lost

vars == <<scenario, node, order, file, online, th, creates, faults, lost>>
bounds == <<scenario, creates, faults, lost>>

\* known: the client has the token.  list: hms_order_chunk_replicas by index;
\* row: worker_id of hms_order_chunks; hash, holder: those of hms_chunks.
\* acked, cancelled: what was answered and whether a cancel was written.
NoOrder == [pay |-> 0, status |-> "none", token |-> FALSE, known |-> FALSE,
            list |-> << >>, row |-> NoOne, hash |-> Nothing, holder |-> NoOne,
            acked |-> {}, cancelled |-> FALSE]
Idle == [pc |-> "idle", order |-> 1, pay |-> 0, content |-> Nothing, todo |-> << >>,
         list |-> << >>, index |-> 1, first |-> NoOne, need |-> 0, healthy |-> 0,
         next |-> "", late |-> FALSE]

Init ==
  /\ scenario \in Scenarios
  /\ node = [balance |-> Balance, escrow |-> 0, fees |-> 0, burned |-> 0, payments |-> << >>]
  /\ order = [o \in Orders |-> NoOrder]
  /\ file = [o \in Orders |-> [w \in Workers |-> Nothing]]
  /\ online \in {Workers} \cup {{w} : w \in Workers}
  /\ th = [t \in Threads |-> Idle]
  /\ creates = 0 /\ faults = 0 /\ lost = FALSE

Fault == faults < scenario.faults /\ faults' = faults + 1 /\ UNCHANGED scenario
At(t, pc) == th[t].pc = pc
Free(t) == At(t, "idle") /\ Cardinality({r \in Requests : ~At(r, "idle")}) < scenario.requests
Step(t, pc) == th' = [th EXCEPT ![t].pc = pc]
Ends(t) == th' = [th EXCEPT ![t] = Idle]
Mine(t) == order[th[t].order]

----------------------------------------------------------------------------
(* Paying for an order and creating it.                                     *)

Debit == Storage + Fee

\* The payment recorded under the key.
PaymentOf(k) == {p \in DOMAIN node.payments : node.payments[p] = k}

\* PayHMSStorageMarket: one transaction under the chain's lock.  A retry gets the
\* payment of its key; the burn is carved out of the storage amount.
PayHMSStorageMarket(k, p) ==
  \/ p \in PaymentOf(k) /\ UNCHANGED node
  \/ /\ PaymentOf(k) = {} /\ node.balance >= Debit
     /\ p = Len(node.payments) + 1
     /\ node' = [node EXCEPT !.balance = @ - Debit, !.fees = @ + Fee, !.burned = @ + Burn,
                             !.escrow = @ + Storage - Burn, !.payments = Append(@, k)]

\* handleHMSMarketOrders: pay, then forward to the coordinator.
Order(t, k) ==
  /\ Free(t) /\ creates < scenario.creates /\ creates' = creates + 1
  /\ \E p \in 1..Len(node.payments) + 1 :
       /\ PayHMSStorageMarket(k, p)
       /\ th' = [th EXCEPT ![t] = [Idle EXCEPT !.pc = "create", !.pay = p]]
  /\ UNCHANGED <<scenario, order, file, online, faults, lost>>

Ordered(p) == {o \in Orders : order[o].pay = p}

\* CreateStorageOrder: refused for a payment that has an order and without an
\* online worker; the index on payment_id is unique.
CheckOrder(t) ==
  /\ At(t, "create")
  /\ IF Ordered(th[t].pay) # {} \/ online = {} THEN Ends(t) ELSE Step(t, "insertOrder")
  /\ UNCHANGED <<node, order, file, online, bounds>>

\* Mutant: the index on payment_id is not unique.
AnyPayment(p) == TRUE

UniquePayment(p) == Ordered(p) = {}

InsertOrder(t, answered) ==
  /\ At(t, "insertOrder") /\ UniquePayment(th[t].pay)
  /\ \E o \in Ordered(0) :
       /\ \A q \in Ordered(0) : o <= q
       /\ order' = [order EXCEPT ![o] = [NoOrder EXCEPT !.pay = th[t].pay,
                      !.status = "draft", !.token = TRUE, !.known = answered]]
  /\ Ends(t)
  /\ UNCHANGED <<node, file, online>>

CreateOrder(t) == InsertOrder(t, TRUE) /\ UNCHANGED bounds

RefuseOrder(t) ==
  /\ At(t, "insertOrder") /\ ~UniquePayment(th[t].pay)
  /\ Ends(t)
  /\ UNCHANGED <<node, order, file, online, bounds>>

\* The answer, and with it the only copy of the token, is lost.
CreateAnswerLost(t) == InsertOrder(t, FALSE) /\ Fault /\ UNCHANGED <<creates, lost>>

----------------------------------------------------------------------------
(* Copies.                                                                  *)

\* PickStorageWorkers: the online workers with most room.
Room(w) == Quota[w] - Cardinality({o \in Orders : order[o].holder = w})
Picks ==
  LET n == IF Cardinality(online) < Replicas THEN Cardinality(online) ELSE Replicas
  IN {s \in [1..n -> online] :
        /\ \A i, j \in 1..n : i < j => s[i] # s[j] /\ Room(s[i]) >= Room(s[j])
        /\ \A w \in online \ {s[i] : i \in 1..n} : \A i \in 1..n : Room(s[i]) >= Room(w)}

\* readVerifiedMarketChunkFile: a file counts when it has the registered hash.
FileOK(o, w) == file[o][w] # Nothing /\ file[o][w] = order[o].hash

\* listChunkReplicaWorkers: by replica_index; without entries the chunk's row.
Nth(S, i) == CHOOSE n \in S : Cardinality({m \in S : m <= n}) = i
InOrder(list) == [i \in 1..Cardinality(DOMAIN list) |-> list[Nth(DOMAIN list, i)]]
Listed(o) ==
  LET list == order[o].list
  IN IF DOMAIN list = {} THEN <<order[o].row>> ELSE InOrder(list)
Names(s) == {s[i] : i \in DOMAIN s}

\* recordChunkReplicas deletes the list and inserts it entry by entry.
DeleteList(t) ==
  /\ At(t, "delete")
  /\ order' = [order EXCEPT ![th[t].order].list = << >>]
  /\ th' = [th EXCEPT ![t].pc = "insert", ![t].index = 1]
  /\ UNCHANGED <<node, file, online, bounds>>

\* An entry that is there is an error: it ends an upload, the tick ignores it.
Recorded(t) ==
  IF t # "tick" THEN Step(t, "row")
  ELSE th' = [th EXCEPT !["tick"].need = @ - 1,
                        !["tick"].pc = IF th["tick"].need = 1 THEN "read" ELSE "pickSpare"]

InsertEntry(t) ==
  LET o == th[t].order
      n == th[t].index
      list == order[o].list
  IN /\ At(t, "insert")
     /\ IF n > Len(th[t].list) THEN Recorded(t) /\ UNCHANGED order
        ELSE IF n \in DOMAIN list
        THEN (IF t = "tick" THEN Recorded(t) ELSE Ends(t)) /\ UNCHANGED order
        ELSE /\ order' = [order EXCEPT ![o].list =
                  [i \in DOMAIN list \cup {n} |-> IF i = n THEN th[t].list[n] ELSE list[i]]]
             /\ th' = [th EXCEPT ![t].index = n + 1]
     /\ UNCHANGED <<node, file, online, bounds>>

----------------------------------------------------------------------------
(* The client's requests.                                                   *)

Token(o) == order[o].known /\ order[o].token

\* UploadOrderChunk: the token, then the status and the workers.
Upload(t, o, c) ==
  /\ Free(t) /\ Token(o)
  /\ th' = [th EXCEPT ![t] = [Idle EXCEPT !.pc = "pick", !.order = o, !.content = c,
                                          !.late = order[o].cancelled]]
  /\ UNCHANGED <<node, order, file, online, bounds>>

PickWorkers(t) ==
  /\ At(t, "pick")
  /\ IF Mine(t).status \in {"cancelled", "failed"} \/ online = {} THEN Ends(t)
     ELSE \E s \in Picks : th' = [th EXCEPT ![t].pc = "write", ![t].todo = s,
                                           ![t].first = s[1]]
  /\ UNCHANGED <<node, order, file, online, bounds>>

\* writeMarketChunkFile, worker by worker; one that fails is left out.
WriteCopy(t) ==
  LET w == Head(th[t].todo)
  IN /\ At(t, "write") /\ th[t].todo # << >>
     /\ file' = [file EXCEPT ![th[t].order][w] = th[t].content]
     /\ th' = [th EXCEPT ![t].todo = Tail(@), ![t].list = Append(@, w)]
     /\ UNCHANGED <<node, order, online, bounds>>

\* Mutant: a failed write counts as a copy.
CountFailed(list, w) == Append(list, w)

AfterFailedWrite(list, w) == list

WriteFails(t) ==
  /\ At(t, "write") /\ th[t].todo # << >>
  /\ Fault
  /\ th' = [th EXCEPT ![t].todo = Tail(@),
                      ![t].list = AfterFailedWrite(@, Head(th[t].todo))]
  /\ UNCHANGED <<node, order, file, online, creates, lost>>

\* AssignMarketChunk registers the hash and the first copy.
AssignMarketChunk(t) ==
  /\ At(t, "write") /\ th[t].todo = << >>
  /\ IF th[t].list = << >> THEN Ends(t) /\ UNCHANGED order
     ELSE /\ order' = [order EXCEPT ![th[t].order].hash = th[t].content,
                                    ![th[t].order].holder = th[t].list[1]]
          /\ Step(t, "delete")
  /\ UNCHANGED <<node, file, online, bounds>>

\* The chunk's row names the first worker that was picked.
UpsertRow(t) ==
  /\ At(t, "row")
  /\ order' = [order EXCEPT ![th[t].order].row = th[t].first]
  /\ Step(t, "ack")
  /\ UNCHANGED <<node, file, online, bounds>>

AckUpload(t) ==
  /\ At(t, "ack")
  /\ order' = [order EXCEPT ![th[t].order].status = "uploading",
                            ![th[t].order].acked = @ \cup {th[t].content}]
  /\ Ends(t)
  /\ UNCHANGED <<node, file, online, bounds>>

\* The complete request asks for the token and a chunk, then writes the status.
Complete(t, o) ==
  /\ Free(t) /\ Token(o) /\ order[o].row # NoOne
  /\ th' = [th EXCEPT ![t] = [Idle EXCEPT !.pc = "store", !.order = o,
                                          !.late = order[o].cancelled]]
  /\ UNCHANGED <<node, order, file, online, bounds>>

StoreOrder(t) ==
  /\ At(t, "store")
  /\ order' = [order EXCEPT ![th[t].order].status = "stored"]
  /\ Step(t, "read")
  /\ UNCHANGED <<node, file, online, bounds>>

\* CancelStorageOrder reads the status, then clears the token.
Cancel(t, o) ==
  /\ Free(t) /\ order[o].status \notin {"none", "cancelled", "failed"}
  /\ th' = [th EXCEPT ![t] = [Idle EXCEPT !.pc = "cancel", !.order = o]]
  /\ UNCHANGED <<node, order, file, online, bounds>>

\* Mutant: a cancel only writes the status.
StatusOnly(r) == [r EXCEPT !.status = "cancelled", !.cancelled = TRUE]

CancelledOrder(r) == [r EXCEPT !.status = "cancelled", !.token = FALSE, !.cancelled = TRUE]

CancelOrder(t) ==
  /\ At(t, "cancel")
  /\ order' = [order EXCEPT ![th[t].order] = CancelledOrder(@)]
  /\ Step(t, "read")
  /\ UNCHANGED <<node, file, online, bounds>>

----------------------------------------------------------------------------
(* Health: the repair of a chunk and the refresh of an order.               *)

Active(o) == order[o].status \in {"uploading", "stored", "degraded"} /\ order[o].row # NoOne
Healthy(o, s) == Cardinality({i \in DOMAIN s : s[i] \in online /\ FileOK(o, s[i])})

\* RunHealthTick, repairMissingReplicas: the list of an active order's chunk.
Tick(o) ==
  /\ scenario.tick /\ At("tick", "idle") /\ Active(o)
  /\ th' = [th EXCEPT !["tick"] = [Idle EXCEPT !.pc = "scan", !.order = o, !.list = Listed(o)]]
  /\ UNCHANGED <<node, order, file, online, bounds>>

\* How many copies are short, and the first one that can be copied.
Scan ==
  LET o == th["tick"].order
      s == th["tick"].list
  IN /\ At("tick", "scan")
     /\ IF Healthy(o, s) >= Replicas \/ \A w \in Names(s) : ~FileOK(o, w) THEN Step("tick", "read")
        ELSE th' = [th EXCEPT !["tick"].pc = "pickSpare", !["tick"].content = order[o].hash,
                              !["tick"].need = Replicas - Healthy(o, s)]
     /\ UNCHANGED <<node, order, file, online, bounds>>

\* tryRepairChunk: the first of the workers with most room that is not listed.
PickSpare ==
  /\ At("tick", "pickSpare")
  /\ IF online = {} THEN Step("tick", "read")
     ELSE \E s \in Picks :
            LET spares == {i \in DOMAIN s : s[i] \notin Names(th["tick"].list)}
            IN IF spares = {} THEN Step("tick", "read")
               ELSE \E i \in spares :
                      /\ \A j \in spares : i <= j
                      /\ th' = [th EXCEPT !["tick"].pc = "copy", !["tick"].first = s[i]]
  /\ UNCHANGED <<node, order, file, online, bounds>>

CopySpare ==
  LET t == th["tick"]
  IN /\ At("tick", "copy")
     /\ file' = [file EXCEPT ![t.order][t.first] = t.content]
     /\ th' = [th EXCEPT !["tick"].pc = "delete", !["tick"].list = Append(@, t.first)]
     /\ UNCHANGED <<node, order, online, bounds>>

CopyFails ==
  /\ At("tick", "copy")
  /\ Fault
  /\ Recorded("tick")
  /\ UNCHANGED <<node, order, file, online, creates, lost>>

\* refreshOrderHealth, at the end of a tick, a complete and a cancel: the list of
\* an active order, its healthy entries, its status again, and the write.
ReadList(t) ==
  LET o == th[t].order
  IN /\ At(t, "read")
     /\ IF Active(o) THEN th' = [th EXCEPT ![t] = [Idle EXCEPT !.pc = "count", !.order = o,
                                    !.list = Listed(o), !.late = th[t].late]]
        ELSE Ends(t)
     /\ UNCHANGED <<node, order, file, online, bounds>>

CountHealthy(t) ==
  /\ At(t, "count")
  /\ th' = [th EXCEPT ![t].pc = "current", ![t].list = << >>,
                      ![t].healthy = Healthy(th[t].order, th[t].list)]
  /\ UNCHANGED <<node, order, file, online, bounds>>

HealthStatus(healthy, current) ==
  IF healthy = 0 THEN "failed"
  ELSE IF current = "uploading" THEN "uploading"
  ELSE IF healthy < Replicas THEN "degraded" ELSE "stored"

ReadStatus(t) ==
  /\ At(t, "current")
  /\ th' = [th EXCEPT ![t].pc = "set", ![t].healthy = 0,
                      ![t].next = HealthStatus(th[t].healthy, Mine(t).status)]
  /\ UNCHANGED <<node, order, file, online, bounds>>

SetHealth(t) ==
  /\ At(t, "set")
  /\ order' = [order EXCEPT ![th[t].order].status =
                 IF @ \in {"failed", "cancelled"} THEN @ ELSE th[t].next]
  /\ Ends(t)
  /\ UNCHANGED <<node, file, online, bounds>>

----------------------------------------------------------------------------
(* The environment.                                                         *)

\* A worker's heartbeat comes or stays out for longer than the cutoff.
Heartbeat(w) ==
  /\ online' = IF w \in online THEN online \ {w} ELSE online \cup {w}
  /\ UNCHANGED <<node, order, file, th, bounds>>

\* A file is deleted, swapped or torn by a write that broke off.
Lose(o, w) ==
  /\ file[o][w] # Nothing
  /\ Fault
  /\ file' = [file EXCEPT ![o][w] = Nothing] /\ lost' = TRUE
  /\ UNCHANGED <<node, order, online, th, creates>>

\* A query of a handler fails and it returns the error, or the forwarded request
\* of the node does not arrive.
HandlerFails(t) ==
  /\ ~At(t, "idle")
  /\ Fault
  /\ Ends(t)
  /\ UNCHANGED <<node, order, file, online, creates, lost>>

\* The coordinator dies between two statements.
Crash ==
  /\ Fault
  /\ th' = [t \in Threads |-> Idle]
  /\ UNCHANGED <<node, order, file, online, creates, lost>>

----------------------------------------------------------------------------

ThreadStep(t) ==
  \/ CheckOrder(t) \/ CreateOrder(t) \/ RefuseOrder(t)
  \/ PickWorkers(t) \/ WriteCopy(t) \/ AssignMarketChunk(t)
  \/ DeleteList(t) \/ InsertEntry(t) \/ UpsertRow(t) \/ AckUpload(t)
  \/ StoreOrder(t) \/ CancelOrder(t)
  \/ ReadList(t) \/ CountHealthy(t) \/ ReadStatus(t) \/ SetHealth(t)

TickStep ==
  \/ \E o \in Orders : Tick(o)
  \/ Scan \/ PickSpare \/ CopySpare \/ ThreadStep("tick")

Next ==
  \/ \E t \in Requests :
       \/ ThreadStep(t) \/ CreateAnswerLost(t) \/ WriteFails(t) \/ HandlerFails(t)
       \/ \E k \in Keys : Order(t, k)
       \/ \E o \in Orders : \/ \E c \in Contents : Upload(t, o, c)
                            \/ Complete(t, o) \/ Cancel(t, o)
  \/ TickStep \/ CopyFails
  \/ \E w \in Workers : Heartbeat(w) \/ \E o \in Orders : Lose(o, w)
  \/ Crash

Spec == Init /\ [][Next]_vars

----------------------------------------------------------------------------
(* Properties.                                                              *)

OrderStatus == {"none", "draft", "uploading", "stored", "degraded", "failed", "cancelled"}

\* Type invariant; in particular an order belongs to a payment, a listed copy has
\* its chunk registered, and an order without a status has no rows.
TypeOK ==
  /\ node.payments \in Seq(Keys)
  /\ online \subseteq Workers
  /\ \A o \in Orders :
       /\ order[o].status \in OrderStatus
       /\ order[o].pay \in 0..Len(node.payments)
       /\ Names(order[o].list) \subseteq Workers
       /\ DOMAIN order[o].list # {} => order[o].hash \in Contents /\ order[o].holder \in Workers
       /\ order[o].status = "none" => order[o] = NoOrder
  /\ faults \in 0..scenario.faults /\ creates \in 0..scenario.creates

\* However often a client repeats its order, the key is debited once, the debit
\* is in the escrow, the fees and the burned units, and it buys one order.
PaidOnce ==
  /\ \A k \in Keys : Cardinality(PaymentOf(k)) <= 1
  /\ Balance - node.balance = Debit * Len(node.payments)
  /\ node.escrow + node.fees + node.burned = Balance - node.balance
  /\ \A p \in DOMAIN node.payments : Cardinality(Ordered(p)) <= 1

\* The chunk of a client that only ever uploads one content can be restored once an
\* upload was acknowledged, until a file is lost: overlapping uploads, repairs and
\* one failure (a write, a query, a crash between deleting and inserting the list)
\* leave a listed good copy.  Two failures need not: without a list the row names
\* the first worker picked, whose write may be the one that failed.
Rewriting(o) == \E t \in Threads : At(t, "insert") /\ th[t].order = o
AckedIsReadable ==
  \A o \in Orders :
    order[o].acked # {} /\ Cardinality(Contents) = 1 /\ ~lost /\ faults <= 1 /\ ~Rewriting(o) =>
      \E w \in Names(Listed(o)) : FileOK(o, w)

\* "Clears the upload token so further uploads fail closed": no request that came
\* after the cancel was written gets to work on the order, although an upload
\* under way may set its status again.
CancelFailsClosed == \A t \in Requests : th[t].late => At(t, "pick")

\* "chunk copies on distinct storage workers": a list names nobody twice.
CopiesAreDistinct ==
  \A o \in Orders : LET s == Listed(o) IN Cardinality(Names(s)) = Len(s)
=============================================================================
