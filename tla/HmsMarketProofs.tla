-------------------------- MODULE HmsMarketProofs --------------------------
(***************************************************************************)
(* What holds of the storage market for every number of workers, orders,   *)
(* requests and keys: a key is debited and served once, a cancel closes    *)
(* an order to the requests that come after it, and an acknowledged chunk  *)
(* has a listed good copy through any single failure.                      *)
(*                                                                         *)
(* The first two rest on two facts about a step: what it can do to an      *)
(* order's payment, token and cancel mark (Ordering), and what it can do   *)
(* to the late mark of a request (Threaded).  The third has an inductive   *)
(* invariant of its own (ReadInv), in the second half of the module.       *)
(***************************************************************************)
EXTENDS HmsMarket, SumLemmas

----------------------------------------------------------------------------
(* Shapes: the records keep their fields whatever is written in them.       *)

ThreadShape ==
  /\ th = [t \in Threads |-> th[t]]
  /\ \A t \in Threads : DOMAIN th[t] = DOMAIN Idle
OrderShape ==
  /\ order = [o \in Orders |-> order[o]]
  /\ \A o \in Orders : DOMAIN order[o] = DOMAIN NoOrder
Shape == ThreadShape /\ OrderShape

\* Fields of the initial records, so that they need not be expanded elsewhere.
LEMMA Values ==
  /\ {"pc", "late", "pay"} \subseteq DOMAIN Idle
  /\ {"pay", "token", "cancelled"} \subseteq DOMAIN NoOrder
  /\ Idle.late = FALSE /\ NoOrder.pay = 0
  /\ NoOrder.token = FALSE /\ NoOrder.cancelled = FALSE
BY DEF Idle, NoOrder

\* A thread ends with the idle record, or some of its fields other than the late
\* mark are written.
Kept(t) == DOMAIN th'[t] = DOMAIN Idle /\ th'[t].late = th[t].late
Ended(t) == th'[t] = Idle

\* What a thread takes on when a request for the order comes in.
Came(t) == \E o \in Orders :
  /\ Token(o)
  /\ DOMAIN th'[t] = DOMAIN Idle /\ th'[t].late = order[o].cancelled

Fresh(t) == DOMAIN th'[t] = DOMAIN Idle /\ th'[t].late = FALSE

\* The threads after a step: they are functions as before, and each one is in one of
\* the four cases.
Threaded ==
  /\ th' = [t \in Threads |-> th'[t]]
  /\ \A t \in Threads : Kept(t) \/ Ended(t) \/ Came(t) \/ Fresh(t)

\* A step of one thread changes that thread alone.
LEMMA OneThread ==
  ASSUME ThreadShape, NEW t \in Threads, NEW r, th' = [th EXCEPT ![t] = r]
  PROVE  /\ th' = [u \in Threads |-> th'[u]] /\ th'[t] = r
         /\ \A u \in Threads \ {t} : th'[u] = th[u]
BY DEF ThreadShape

\* Hence it is enough to look at that thread.
LEMMA OneThreaded ==
  ASSUME ThreadShape, NEW t \in Threads, NEW r, th' = [th EXCEPT ![t] = r],
         \/ DOMAIN r = DOMAIN Idle /\ r.late = th[t].late
         \/ r = Idle
         \/ \E o \in Orders : Token(o) /\ DOMAIN r = DOMAIN Idle /\ r.late = order[o].cancelled
         \/ DOMAIN r = DOMAIN Idle /\ r.late = FALSE
  PROVE  Threaded
<1>1. /\ th' = [u \in Threads |-> th'[u]] /\ th'[t] = r
      /\ \A u \in Threads \ {t} : th'[u] = th[u]
  BY OneThread
<1>2. \A u \in Threads \ {t} : Kept(u)
  BY <1>1 DEF Kept, ThreadShape
<1>3. Kept(t) \/ Ended(t) \/ Came(t) \/ Fresh(t)
  BY <1>1 DEF Kept, Ended, Came, Fresh
<1> QED BY <1>1, <1>2, <1>3 DEF Threaded

LEMMA StepThreaded ==
  ASSUME ThreadShape, NEW t \in Threads, NEW pc, Step(t, pc)
  PROVE  Threaded
<1> DEFINE r == [th[t] EXCEPT !.pc = pc]
<1>1. th' = [th EXCEPT ![t] = r] BY DEF Step
<1>2. DOMAIN r = DOMAIN Idle /\ r.late = th[t].late BY Values DEF ThreadShape
<1> HIDE DEF r
<1> QED BY <1>1, <1>2, OneThreaded

LEMMA EndsThreaded ==
  ASSUME ThreadShape, NEW t \in Threads, Ends(t)
  PROVE  Threaded
BY OneThreaded DEF Ends

LEMMA SameThreaded ==
  ASSUME ThreadShape, UNCHANGED th
  PROVE  Threaded
BY DEF ThreadShape, Threaded, Kept

----------------------------------------------------------------------------
(* Orders.                                                                  *)

\* An order after a write that leaves its payment, token and cancel mark alone.
OrderKept(o) ==
  /\ DOMAIN order'[o] = DOMAIN NoOrder
  /\ order'[o].pay = order[o].pay
  /\ order'[o].token = order[o].token /\ order'[o].cancelled = order[o].cancelled

\* An order that is inserted: for a payment that has none.
Inserted(o) ==
  /\ DOMAIN order'[o] = DOMAIN NoOrder
  /\ \E t \in Requests \cup {"tick"} :
       Ordered(th[t].pay) = {} /\ order'[o].pay = th[t].pay
  /\ order'[o].cancelled = FALSE

\* An order that is cancelled.
Closed(o) ==
  /\ DOMAIN order'[o] = DOMAIN NoOrder
  /\ order'[o].pay = order[o].pay
  /\ order'[o].token = FALSE /\ order'[o].cancelled = TRUE

\* The orders after a step: at most one of them is inserted or cancelled.
Ordering ==
  /\ order' = [o \in Orders |-> order'[o]]
  /\ \E o \in Orders :
       /\ OrderKept(o) \/ Inserted(o) \/ Closed(o)
       /\ \A q \in Orders \ {o} : OrderKept(q)

\* There is an order to look at.
LEMMA SomeOrder == 1 \in Orders
BY MarketAssumption DEF Orders

LEMMA SameOrdering ==
  ASSUME OrderShape, UNCHANGED order
  PROVE  Ordering
BY SomeOrder DEF OrderShape, Ordering, OrderKept

\* A write to one order, which need not be an order: then nothing is written.
LEMMA OneOrdering ==
  ASSUME OrderShape, NEW o, NEW r, order' = [order EXCEPT ![o] = r],
         o \in Orders =>
           /\ DOMAIN r = DOMAIN NoOrder
           /\ \/ r.pay = order[o].pay /\ r.token = order[o].token /\ r.cancelled = order[o].cancelled
              \/ /\ \E t \in Requests \cup {"tick"} :
                       Ordered(th[t].pay) = {} /\ r.pay = th[t].pay
                 /\ r.cancelled = FALSE
              \/ r.pay = order[o].pay /\ r.token = FALSE /\ r.cancelled = TRUE
  PROVE  Ordering
<1>1. CASE o \in Orders
  <2>1. /\ order' = [q \in Orders |-> order'[q]] /\ order'[o] = r
        /\ \A q \in Orders \ {o} : order'[q] = order[q]
    BY <1>1 DEF OrderShape
  <2>2. \A q \in Orders \ {o} : OrderKept(q)
    BY <2>1 DEF OrderKept, OrderShape
  <2>3. OrderKept(o) \/ Inserted(o) \/ Closed(o)
    BY <1>1, <2>1 DEF OrderKept, Inserted, Closed
  <2> QED BY <1>1, <2>1, <2>2, <2>3 DEF Ordering
<1>2. CASE o \notin Orders
  <2>1. order' = order BY <1>2 DEF OrderShape
  <2> QED BY <2>1, SameOrdering
<1> QED BY <1>1, <1>2

----------------------------------------------------------------------------
(* Every action.                                                            *)

\* Paying marks the request as one that is to create an order.
LEMMA AboutOrder ==
  ASSUME Shape, NEW t \in Requests, NEW k \in Keys, Order(t, k)
  PROVE  Threaded /\ Ordering
<1>1. PICK p \in 1..Len(node.payments) + 1 :
         th' = [th EXCEPT ![t] = [Idle EXCEPT !.pc = "create", !.pay = p]]
  BY DEF Order
<1> DEFINE r == [Idle EXCEPT !.pc = "create", !.pay = p]
<1>2. DOMAIN r = DOMAIN Idle /\ r.late = FALSE BY Values
<1> HIDE DEF r
<1>3. th' = [th EXCEPT ![t] = r] BY <1>1 DEF r
<1> QED BY <1>2, <1>3, OneThreaded, SameOrdering DEF Shape, Threads, Order

\* The check before an order is inserted reads only.
LEMMA AboutCheckOrder ==
  ASSUME Shape, NEW t \in Threads, CheckOrder(t)
  PROVE  Threaded /\ Ordering
BY EndsThreaded, StepThreaded, SameOrdering DEF Shape, CheckOrder

\* An order is inserted for a payment that has none.
LEMMA AboutInsertOrder ==
  ASSUME Shape, NEW t \in Threads, NEW a, InsertOrder(t, a)
  PROVE  Threaded /\ Ordering
<1>1. PICK o \in Ordered(0) : order' = [order EXCEPT ![o] = [NoOrder EXCEPT !.pay = th[t].pay,
                      !.status = "draft", !.token = TRUE, !.known = a]]
  BY DEF InsertOrder
<1> DEFINE r == [NoOrder EXCEPT !.pay = th[t].pay,
                      !.status = "draft", !.token = TRUE, !.known = a]
<1>2. DOMAIN r = DOMAIN NoOrder /\ r.pay = th[t].pay /\ r.cancelled = FALSE BY Values
<1> HIDE DEF r
<1>3. order' = [order EXCEPT ![o] = r] BY <1>1 DEF r
<1>4. Ordered(th[t].pay) = {} BY DEF InsertOrder, UniquePayment
<1>5. Ordering BY <1>2, <1>3, <1>4, OneOrdering DEF Shape, Threads
<1> QED BY <1>5, EndsThreaded DEF Shape, InsertOrder

\* A refused order leaves nothing.
LEMMA AboutRefuseOrder ==
  ASSUME Shape, NEW t \in Threads, RefuseOrder(t)
  PROVE  Threaded /\ Ordering
BY EndsThreaded, SameOrdering DEF Shape, RefuseOrder

\* The replica list is deleted before it is written.
LEMMA AboutDeleteList ==
  ASSUME Shape, NEW t \in Threads, DeleteList(t)
  PROVE  Threaded /\ Ordering
<1> DEFINE o == th[t].order
           r == [order[o] EXCEPT !.list = << >>]
           u == [th[t] EXCEPT !.pc = "insert", !.index = 1]
<1>1. order' = [order EXCEPT ![o] = r] /\ th' = [th EXCEPT ![t] = u] BY DEF DeleteList
<1>2. o \in Orders => /\ DOMAIN r = DOMAIN NoOrder /\ r.pay = order[o].pay
                      /\ r.token = order[o].token /\ r.cancelled = order[o].cancelled
  BY Values DEF Shape, OrderShape
<1>3. DOMAIN u = DOMAIN Idle /\ u.late = th[t].late BY Values DEF Shape, ThreadShape
<1> HIDE DEF o, r, u
<1>4. Ordering BY <1>1, <1>2, OneOrdering DEF Shape
<1> QED BY <1>1, <1>3, <1>4, OneThreaded DEF Shape

\* The end of a list's rewrite.
LEMMA AboutRecorded ==
  ASSUME Shape, NEW t \in Threads, Recorded(t), UNCHANGED order
  PROVE  Threaded /\ Ordering
<1>1. CASE t # "tick"
  BY <1>1, StepThreaded, SameOrdering DEF Shape, Recorded
<1>2. CASE t = "tick"
  <2> DEFINE u == [th["tick"] EXCEPT !.need = @ - 1,
                     !.pc = IF th["tick"].need = 1 THEN "read" ELSE "pickSpare"]
  <2>1. th' = [th EXCEPT !["tick"] = u] BY <1>2 DEF Recorded
  <2>2. DOMAIN u = DOMAIN Idle /\ u.late = th["tick"].late
    BY <1>2, Values DEF Shape, ThreadShape
  <2> HIDE DEF u
  <2> QED BY <1>2, <2>1, <2>2, OneThreaded, SameOrdering DEF Shape
<1> QED BY <1>1, <1>2

\* An entry of the replica list is inserted, or is there already.
LEMMA AboutInsertEntry ==
  ASSUME Shape, NEW t \in Threads, InsertEntry(t)
  PROVE  Threaded /\ Ordering
<1> DEFINE o == th[t].order
           n == th[t].index
           list == order[o].list
           new == [i \in DOMAIN list \cup {n} |-> IF i = n THEN th[t].list[n] ELSE list[i]]
           r == [order[o] EXCEPT !.list = new]
           u == [th[t] EXCEPT !.index = n + 1]
<1>1. \/ (Recorded(t) \/ Ends(t)) /\ UNCHANGED order
      \/ order' = [order EXCEPT ![o] = r] /\ th' = [th EXCEPT ![t] = u]
  BY DEF InsertEntry
<1>2. CASE (Recorded(t) \/ Ends(t)) /\ UNCHANGED order
  BY <1>2, AboutRecorded, EndsThreaded, SameOrdering DEF Shape
<1>3. CASE order' = [order EXCEPT ![o] = r] /\ th' = [th EXCEPT ![t] = u]
  <2> HIDE DEF new
  <2>1. o \in Orders => /\ DOMAIN r = DOMAIN NoOrder /\ r.pay = order[o].pay
                        /\ r.token = order[o].token /\ r.cancelled = order[o].cancelled
    BY Values DEF Shape, OrderShape
  <2>2. DOMAIN u = DOMAIN Idle /\ u.late = th[t].late BY Values DEF Shape, ThreadShape
  <2> HIDE DEF o, r, u
  <2>3. Ordering BY <1>3, <2>1, OneOrdering DEF Shape
  <2> QED BY <1>3, <2>2, <2>3, OneThreaded DEF Shape
<1> QED BY <1>1, <1>2, <1>3

\* An upload comes with the order's token.
LEMMA AboutUpload ==
  ASSUME Shape, NEW t \in Requests, NEW o \in Orders, NEW c \in Contents, Upload(t, o, c)
  PROVE  Threaded /\ Ordering
<1> DEFINE u == [Idle EXCEPT !.pc = "pick", !.order = o, !.content = c, !.late = order[o].cancelled]
<1>1. th' = [th EXCEPT ![t] = u] BY DEF Upload
<1>2. DOMAIN u = DOMAIN Idle /\ u.late = order[o].cancelled /\ (Token(o) \/ u.late = FALSE)
  BY Values DEF Upload
<1> HIDE DEF u
<1> QED BY <1>1, <1>2, OneThreaded, SameOrdering DEF Shape, Threads, Upload

\* A complete comes with the order's token.
LEMMA AboutComplete ==
  ASSUME Shape, NEW t \in Requests, NEW o \in Orders, Complete(t, o)
  PROVE  Threaded /\ Ordering
<1> DEFINE u == [Idle EXCEPT !.pc = "store", !.order = o, !.late = order[o].cancelled]
<1>1. th' = [th EXCEPT ![t] = u] BY DEF Complete
<1>2. DOMAIN u = DOMAIN Idle /\ u.late = order[o].cancelled /\ (Token(o) \/ u.late = FALSE)
  BY Values DEF Complete
<1> HIDE DEF u
<1> QED BY <1>1, <1>2, OneThreaded, SameOrdering DEF Shape, Threads, Complete

\* A cancel needs no token.
LEMMA AboutCancel ==
  ASSUME Shape, NEW t \in Requests, NEW o \in Orders, Cancel(t, o)
  PROVE  Threaded /\ Ordering
<1> DEFINE u == [Idle EXCEPT !.pc = "cancel", !.order = o]
<1>1. th' = [th EXCEPT ![t] = u] BY DEF Cancel
<1>2. DOMAIN u = DOMAIN Idle /\ u.late = FALSE /\ (Token(o) \/ u.late = FALSE)
  BY Values DEF Cancel
<1> HIDE DEF u
<1> QED BY <1>1, <1>2, OneThreaded, SameOrdering DEF Shape, Threads, Cancel

\* The workers of an upload are picked.
LEMMA AboutPickWorkers ==
  ASSUME Shape, NEW t \in Threads, PickWorkers(t)
  PROVE  Threaded /\ Ordering
<1>1. CASE Ends(t) BY <1>1, EndsThreaded, SameOrdering DEF Shape, PickWorkers
<1>2. CASE \E s \in Picks : th' = [th EXCEPT ![t].pc = "write", ![t].todo = s, ![t].first = s[1]]
  <2>1. PICK s \in Picks : th' = [th EXCEPT ![t].pc = "write", ![t].todo = s, ![t].first = s[1]]
    BY <1>2
  <2> DEFINE u == [th[t] EXCEPT !.pc = "write", !.todo = s, !.first = s[1]]
  <2>2. th' = [th EXCEPT ![t] = u] BY <2>1
  <2>3. DOMAIN u = DOMAIN Idle /\ u.late = th[t].late BY Values DEF Shape, ThreadShape
  <2> HIDE DEF u
  <2> QED BY <2>2, <2>3, OneThreaded, SameOrdering DEF Shape, PickWorkers
<1> QED BY <1>1, <1>2 DEF PickWorkers

\* A copy is written.
LEMMA AboutWriteCopy ==
  ASSUME Shape, NEW t \in Threads, WriteCopy(t)
  PROVE  Threaded /\ Ordering
<1> DEFINE u == [th[t] EXCEPT !.todo = Tail(@), !.list = Append(@, Head(th[t].todo))]
<1>1. th' = [th EXCEPT ![t] = u] BY DEF WriteCopy
<1>2. DOMAIN u = DOMAIN Idle /\ u.late = th[t].late BY Values DEF Shape, ThreadShape, Threads
<1> HIDE DEF u
<1> QED BY <1>1, <1>2, OneThreaded, SameOrdering DEF Shape, Threads, WriteCopy

\* A copy's write fails.
LEMMA AboutWriteFails ==
  ASSUME Shape, NEW t \in Threads, WriteFails(t)
  PROVE  Threaded /\ Ordering
<1> DEFINE u == [th[t] EXCEPT !.todo = Tail(@), !.list = AfterFailedWrite(@, Head(th[t].todo))]
<1>1. th' = [th EXCEPT ![t] = u] BY DEF WriteFails
<1>2. DOMAIN u = DOMAIN Idle /\ u.late = th[t].late BY Values DEF Shape, ThreadShape, Threads
<1> HIDE DEF u
<1> QED BY <1>1, <1>2, OneThreaded, SameOrdering DEF Shape, Threads, WriteFails

\* The chunk is registered with the first copy.
LEMMA AboutAssign ==
  ASSUME Shape, NEW t \in Threads, AssignMarketChunk(t)
  PROVE  Threaded /\ Ordering
<1> DEFINE o == th[t].order
           r == [order[o] EXCEPT !.hash = th[t].content, !.holder = th[t].list[1]]
<1>1. \/ Ends(t) /\ UNCHANGED order
      \/ order' = [order EXCEPT ![o] = r] /\ Step(t, "delete")
  BY DEF AssignMarketChunk
<1>2. o \in Orders => /\ DOMAIN r = DOMAIN NoOrder /\ r.pay = order[o].pay
                      /\ r.token = order[o].token /\ r.cancelled = order[o].cancelled
  BY Values DEF Shape, OrderShape
<1> HIDE DEF o, r
<1>3. CASE Ends(t) /\ UNCHANGED order
  BY <1>3, EndsThreaded, SameOrdering DEF Shape
<1>4. CASE order' = [order EXCEPT ![o] = r] /\ Step(t, "delete")
  BY <1>2, <1>4, OneOrdering, StepThreaded DEF Shape
<1> QED BY <1>1, <1>3, <1>4

\* The chunk's row is written.
LEMMA AboutUpsertRow ==
  ASSUME Shape, NEW t \in Threads, UpsertRow(t)
  PROVE  Threaded /\ Ordering
<1> DEFINE o == th[t].order
           r == [order[o] EXCEPT !.row = th[t].first]
<1>1. order' = [order EXCEPT ![o] = r] BY DEF UpsertRow
<1>2. o \in Orders => /\ DOMAIN r = DOMAIN NoOrder /\ r.pay = order[o].pay
                      /\ r.token = order[o].token /\ r.cancelled = order[o].cancelled
  BY Values DEF Shape, OrderShape
<1> HIDE DEF o, r
<1>3. Ordering BY <1>1, <1>2, OneOrdering DEF Shape
<1> QED BY <1>3, StepThreaded DEF Shape, UpsertRow

\* The upload is acknowledged.
LEMMA AboutAckUpload ==
  ASSUME Shape, NEW t \in Threads, AckUpload(t)
  PROVE  Threaded /\ Ordering
<1> DEFINE o == th[t].order
           r == [order[o] EXCEPT !.status = "uploading", !.acked = @ \cup {th[t].content}]
<1>1. order' = [order EXCEPT ![o] = r] BY DEF AckUpload
<1>2. o \in Orders => /\ DOMAIN r = DOMAIN NoOrder /\ r.pay = order[o].pay
                      /\ r.token = order[o].token /\ r.cancelled = order[o].cancelled
  BY Values DEF Shape, OrderShape
<1> HIDE DEF o, r
<1>3. Ordering BY <1>1, <1>2, OneOrdering DEF Shape
<1> QED BY <1>3, EndsThreaded DEF Shape, AckUpload

\* The order is stored.
LEMMA AboutStoreOrder ==
  ASSUME Shape, NEW t \in Threads, StoreOrder(t)
  PROVE  Threaded /\ Ordering
<1> DEFINE o == th[t].order
           r == [order[o] EXCEPT !.status = "stored"]
<1>1. order' = [order EXCEPT ![o] = r] BY DEF StoreOrder
<1>2. o \in Orders => /\ DOMAIN r = DOMAIN NoOrder /\ r.pay = order[o].pay
                      /\ r.token = order[o].token /\ r.cancelled = order[o].cancelled
  BY Values DEF Shape, OrderShape
<1> HIDE DEF o, r
<1>3. Ordering BY <1>1, <1>2, OneOrdering DEF Shape
<1> QED BY <1>3, StepThreaded DEF Shape, StoreOrder

\* The refreshed status is written.
LEMMA AboutSetHealth ==
  ASSUME Shape, NEW t \in Threads, SetHealth(t)
  PROVE  Threaded /\ Ordering
<1> DEFINE o == th[t].order
           r == [order[o] EXCEPT !.status = IF @ \in {"failed", "cancelled"} THEN @ ELSE th[t].next]
<1>1. order' = [order EXCEPT ![o] = r] BY DEF SetHealth
<1>2. o \in Orders => /\ DOMAIN r = DOMAIN NoOrder /\ r.pay = order[o].pay
                      /\ r.token = order[o].token /\ r.cancelled = order[o].cancelled
  BY Values DEF Shape, OrderShape
<1> HIDE DEF o, r
<1>3. Ordering BY <1>1, <1>2, OneOrdering DEF Shape
<1> QED BY <1>3, EndsThreaded DEF Shape, SetHealth

\* A cancel takes the token.
LEMMA AboutCancelOrder ==
  ASSUME Shape, NEW t \in Threads, CancelOrder(t)
  PROVE  Threaded /\ Ordering
<1> DEFINE o == th[t].order
           r == CancelledOrder(order[o])
<1>1. order' = [order EXCEPT ![o] = r] BY DEF CancelOrder
<1>2. o \in Orders => /\ DOMAIN r = DOMAIN NoOrder /\ r.pay = order[o].pay
                      /\ r.token = FALSE /\ r.cancelled = TRUE
  BY Values DEF Shape, OrderShape, CancelledOrder
<1> HIDE DEF o, r
<1>3. Ordering BY <1>1, <1>2, OneOrdering DEF Shape
<1> QED BY <1>3, StepThreaded DEF Shape, CancelOrder

\* The tick takes an order.
LEMMA AboutTick ==
  ASSUME Shape, NEW o \in Orders, Tick(o)
  PROVE  Threaded /\ Ordering
<1> DEFINE u == [Idle EXCEPT !.pc = "scan", !.order = o, !.list = Listed(o)]
<1>1. th' = [th EXCEPT !["tick"] = u] BY DEF Tick
<1>2. DOMAIN u = DOMAIN Idle /\ u.late = FALSE BY Values DEF Shape, ThreadShape, Threads
<1> HIDE DEF u
<1> QED BY <1>1, <1>2, OneThreaded, SameOrdering DEF Shape, Threads, Tick

\* The tick counts the copies.
LEMMA AboutScan ==
  ASSUME Shape, Scan
  PROVE  Threaded /\ Ordering
<1> DEFINE o == th["tick"].order
           u == [th["tick"] EXCEPT !.pc = "pickSpare", !.content = order[o].hash,
                   !.need = Replicas - Healthy(o, th["tick"].list)]
<1>1. Step("tick", "read") \/ th' = [th EXCEPT !["tick"] = u] BY DEF Scan
<1>2. DOMAIN u = DOMAIN Idle /\ u.late = th["tick"].late
  BY Values DEF Shape, ThreadShape, Threads
<1> HIDE DEF u
<1> QED BY <1>1, <1>2, OneThreaded, StepThreaded, SameOrdering DEF Shape, Threads, Scan

\* The tick picks a spare worker.
LEMMA AboutPickSpare ==
  ASSUME Shape, PickSpare
  PROVE  Threaded /\ Ordering
<1>1. Step("tick", "read") \/ \E w : th' = [th EXCEPT !["tick"].pc = "copy", !["tick"].first = w]
  BY DEF PickSpare
<1>2. ASSUME NEW w, th' = [th EXCEPT !["tick"].pc = "copy", !["tick"].first = w]
      PROVE  Threaded
  <2> DEFINE u == [th["tick"] EXCEPT !.pc = "copy", !.first = w]
  <2>1. th' = [th EXCEPT !["tick"] = u] BY <1>2
  <2>2. DOMAIN u = DOMAIN Idle /\ u.late = th["tick"].late
    BY Values DEF Shape, ThreadShape, Threads
  <2> HIDE DEF u
  <2> QED BY <2>1, <2>2, OneThreaded DEF Shape, Threads
<1> QED BY <1>1, <1>2, StepThreaded, SameOrdering DEF Shape, Threads, PickSpare

\* The tick copies the chunk.
LEMMA AboutCopySpare ==
  ASSUME Shape, CopySpare
  PROVE  Threaded /\ Ordering
<1> DEFINE u == [th["tick"] EXCEPT !.pc = "delete", !.list = Append(@, th["tick"].first)]
<1>1. th' = [th EXCEPT !["tick"] = u] BY DEF CopySpare
<1>2. DOMAIN u = DOMAIN Idle /\ u.late = th["tick"].late BY Values DEF Shape, ThreadShape, Threads
<1> HIDE DEF u
<1> QED BY <1>1, <1>2, OneThreaded, SameOrdering DEF Shape, Threads, CopySpare

\* The refresh reads the list.
LEMMA AboutReadList ==
  ASSUME Shape, NEW t \in Threads, ReadList(t)
  PROVE  Threaded /\ Ordering
<1> DEFINE o == th[t].order
           u == [Idle EXCEPT !.pc = "count", !.order = o, !.list = Listed(o), !.late = th[t].late]
<1>1. Ends(t) \/ th' = [th EXCEPT ![t] = u] BY DEF ReadList
<1>2. DOMAIN u = DOMAIN Idle /\ u.late = th[t].late BY Values
<1> HIDE DEF u
<1> QED BY <1>1, <1>2, OneThreaded, EndsThreaded, SameOrdering DEF Shape, ReadList

\* The refresh counts the copies.
LEMMA AboutCountHealthy ==
  ASSUME Shape, NEW t \in Threads, CountHealthy(t)
  PROVE  Threaded /\ Ordering
<1> DEFINE u == [th[t] EXCEPT !.pc = "current", !.list = << >>, !.healthy = Healthy(th[t].order, th[t].list)]
<1>1. th' = [th EXCEPT ![t] = u] BY DEF CountHealthy
<1>2. DOMAIN u = DOMAIN Idle /\ u.late = th[t].late BY Values DEF Shape, ThreadShape, Threads
<1> HIDE DEF u
<1> QED BY <1>1, <1>2, OneThreaded, SameOrdering DEF Shape, Threads, CountHealthy

\* The refresh reads the status.
LEMMA AboutReadStatus ==
  ASSUME Shape, NEW t \in Threads, ReadStatus(t)
  PROVE  Threaded /\ Ordering
<1> DEFINE u == [th[t] EXCEPT !.pc = "set", !.healthy = 0, !.next = HealthStatus(th[t].healthy, Mine(t).status)]
<1>1. th' = [th EXCEPT ![t] = u] BY DEF ReadStatus
<1>2. DOMAIN u = DOMAIN Idle /\ u.late = th[t].late BY Values DEF Shape, ThreadShape, Threads
<1> HIDE DEF u
<1> QED BY <1>1, <1>2, OneThreaded, SameOrdering DEF Shape, Threads, ReadStatus

\* A crash ends every request and the tick.
LEMMA AboutCrash ==
  ASSUME Shape, Crash
  PROVE  Threaded /\ Ordering
<1>1. th' = [t \in Threads |-> Idle] /\ UNCHANGED order BY DEF Crash
<1>2. Threaded BY <1>1 DEF Threaded, Ended
<1> QED BY <1>1, <1>2, SameOrdering DEF Shape

\* Every step a thread takes on its own.
LEMMA AboutThreadStep ==
  ASSUME Shape, NEW t \in Threads, ThreadStep(t)
  PROVE  Threaded /\ Ordering
BY AboutCheckOrder, AboutInsertOrder, AboutRefuseOrder, AboutPickWorkers, AboutWriteCopy,
   AboutAssign, AboutDeleteList, AboutInsertEntry, AboutUpsertRow, AboutAckUpload,
   AboutStoreOrder, AboutCancelOrder, AboutReadList, AboutCountHealthy, AboutReadStatus,
   AboutSetHealth DEF ThreadStep, CreateOrder

\* Every step.
LEMMA AboutNext ==
  ASSUME Shape, [Next]_vars
  PROVE  Threaded /\ Ordering
<1>1. CASE \E t \in Requests : ThreadStep(t)
  BY <1>1, AboutThreadStep DEF Threads
<1>2. CASE \E t \in Requests : CreateAnswerLost(t) \/ WriteFails(t)
  BY <1>2, AboutInsertOrder, AboutWriteFails DEF Threads, CreateAnswerLost
<1>3. CASE \E t \in Requests : HandlerFails(t)
  BY <1>3, EndsThreaded, SameOrdering DEF Shape, Threads, HandlerFails
<1>4. CASE \E t \in Requests : \E k \in Keys : Order(t, k)
  BY <1>4, AboutOrder
<1>5. CASE \E t \in Requests : \E o \in Orders : \E c \in Contents : Upload(t, o, c)
  BY <1>5, AboutUpload
<1>6. CASE \E t \in Requests : \E o \in Orders : Complete(t, o) \/ Cancel(t, o)
  BY <1>6, AboutComplete, AboutCancel
<1>7. CASE TickStep
  BY <1>7, AboutTick, AboutScan, AboutPickSpare, AboutCopySpare, AboutThreadStep
  DEF TickStep, Threads
<1>8. CASE CopyFails
  BY <1>8, AboutRecorded DEF CopyFails, Threads
<1>9. CASE \E w \in Workers : Heartbeat(w) \/ \E o \in Orders : Lose(o, w)
  BY <1>9, SameThreaded, SameOrdering DEF Shape, Heartbeat, Lose
<1>10. CASE Crash
  BY <1>10, AboutCrash
<1>11. CASE UNCHANGED vars
  BY <1>11, SameThreaded, SameOrdering DEF Shape, vars
<1> QED
  BY <1>1, <1>2, <1>3, <1>4, <1>5, <1>6, <1>7, <1>8, <1>9, <1>10, <1>11 DEF Next

----------------------------------------------------------------------------
(* A cancel closes the order.                                               *)

\* A cancelled order has no token, so no request that came with a token finds it
\* cancelled.
CancelInv ==
  /\ Shape
  /\ \A o \in Orders : order[o].cancelled => ~order[o].token
  /\ \A t \in Threads : th[t].late = FALSE

LEMMA CancelInit ==
  ASSUME Init
  PROVE  CancelInv
<1>1. th = [t \in Threads |-> Idle] /\ order = [o \in Orders |-> NoOrder] BY DEF Init
<1> QED BY <1>1, Values DEF CancelInv, Shape, ThreadShape, OrderShape

LEMMA CancelNext ==
  ASSUME CancelInv, [Next]_vars
  PROVE  CancelInv'
<1>1. Threaded /\ Ordering BY AboutNext DEF CancelInv
<1>2. ASSUME NEW t \in Threads
      PROVE  DOMAIN th'[t] = DOMAIN Idle /\ th'[t].late = FALSE
  <2>1. CASE Came(t)
    <3>1. PICK o \in Orders : /\ Token(o)
                              /\ DOMAIN th'[t] = DOMAIN Idle /\ th'[t].late = order[o].cancelled
      BY <2>1 DEF Came
    <3>2. order[o].cancelled = FALSE \/ order[o].cancelled = TRUE
      BY <3>1 DEF Token, CancelInv
    <3> QED BY <3>1, <3>2 DEF CancelInv, Token
  <2>2. CASE Kept(t) \/ Ended(t) \/ Fresh(t)
    BY <2>2, Values DEF CancelInv, Kept, Ended, Fresh
  <2> QED BY <1>1, <2>1, <2>2 DEF Threaded
<1>3. ThreadShape' BY <1>1, <1>2 DEF Threaded, ThreadShape
<1>4. ASSUME NEW o \in Orders
      PROVE  DOMAIN order'[o] = DOMAIN NoOrder /\ (order'[o].cancelled => ~order'[o].token)
  BY <1>1, <1>4 DEF Ordering, OrderKept, Inserted, Closed, CancelInv
<1>5. OrderShape' BY <1>1, <1>4 DEF Ordering, OrderShape
<1> QED BY <1>2, <1>3, <1>4, <1>5 DEF CancelInv, Shape

\* CancelFailsClosed for every instance: a request that came after the cancel was
\* written gets no further than the check of its token, whatever uploads, repairs
\* and completes under way at the cancel still write.
THEOREM CancelHolds == Spec => []CancelFailsClosed
<1>1. Init => CancelInv BY CancelInit
<1>2. CancelInv /\ [Next]_vars => CancelInv' BY CancelNext
<1>3. CancelInv => CancelFailsClosed BY DEF CancelInv, CancelFailsClosed, Threads
<1> QED BY <1>1, <1>2, <1>3, PTL DEF Spec

----------------------------------------------------------------------------
(* A key is paid once and served once.                                      *)

NodeType == [balance : Nat, escrow : Nat, fees : Nat, burned : Nat, payments : Seq(Keys)]

\* The payments are of different keys and in the counters, and different orders
\* have different payments.
PayInv ==
  /\ Shape
  /\ node \in NodeType
  /\ \A p, q \in DOMAIN node.payments : node.payments[p] = node.payments[q] => p = q
  /\ node.balance + Debit * Len(node.payments) = Balance
  /\ node.escrow + node.fees + node.burned = Debit * Len(node.payments)
  /\ \A o, q \in Orders : order[o].pay = order[q].pay => o = q \/ order[o].pay = 0

\* The units are numbers.
LEMMA Units ==
  /\ Storage \in Nat /\ Fee \in Nat /\ Burn \in Nat /\ Balance \in Nat /\ Burn <= Storage
  /\ Debit \in Nat /\ Debit = Storage + Fee
BY MarketAssumption DEF Debit

\* One payment more.
LEMMA OneMore ==
  ASSUME NEW d \in Nat, NEW n \in Nat
  PROVE  d * (n + 1) = d * n + d /\ d * n \in Nat
OBVIOUS

LEMMA PayInit ==
  ASSUME Init
  PROVE  PayInv
<1>1. th = [t \in Threads |-> Idle] /\ order = [o \in Orders |-> NoOrder] BY DEF Init
<1>2. node = [balance |-> Balance, escrow |-> 0, fees |-> 0, burned |-> 0, payments |-> << >>]
  BY DEF Init
<1>3. Debit * 0 = 0 BY Units
<1>4. node \in NodeType BY <1>2, Units DEF NodeType
<1>5. /\ Len(node.payments) = 0 /\ node.balance = Balance /\ node.escrow = 0
      /\ node.fees = 0 /\ node.burned = 0 /\ DOMAIN node.payments = {}
  BY <1>2
<1>6. Shape BY <1>1 DEF Shape, ThreadShape, OrderShape
<1>7. \A o, q \in Orders : order[o].pay = order[q].pay => o = q \/ order[o].pay = 0
  BY <1>1, Values
<1> QED BY <1>3, <1>4, <1>5, <1>6, <1>7, Units DEF PayInv

\* Paying keeps the node's side: a key that is paid is not debited again.
LEMMA PayKeeps ==
  ASSUME PayInv, NEW k \in Keys, NEW p, PayHMSStorageMarket(k, p)
  PROVE  /\ node' \in NodeType
         /\ \A a, b \in DOMAIN node'.payments : node'.payments[a] = node'.payments[b] => a = b
         /\ node'.balance + Debit * Len(node'.payments) = Balance
         /\ node'.escrow + node'.fees + node'.burned = Debit * Len(node'.payments)
<1>1. CASE UNCHANGED node BY <1>1 DEF PayInv
<1>2. CASE /\ PaymentOf(k) = {} /\ node.balance >= Debit
           /\ node' = [node EXCEPT !.balance = @ - Debit, !.fees = @ + Fee, !.burned = @ + Burn,
                             !.escrow = @ + Storage - Burn, !.payments = Append(@, k)]
  <2> DEFINE s == node.payments
             b == node.balance
             e == node.escrow
             f == node.fees
             u == node.burned
             n == Len(s)
  <2>1. /\ s \in Seq(Keys) /\ b \in Nat /\ e \in Nat /\ f \in Nat /\ u \in Nat /\ n \in Nat
    BY DEF PayInv, NodeType
  <2>2. /\ node'.balance = b - Debit /\ node'.fees = f + Fee /\ node'.burned = u + Burn
        /\ node'.escrow = e + Storage - Burn /\ node'.payments = Append(s, k)
        /\ node' = [balance |-> b - Debit, escrow |-> e + Storage - Burn, fees |-> f + Fee,
                    burned |-> u + Burn, payments |-> Append(s, k)]
    BY <1>2 DEF PayInv, NodeType
  <2>3. /\ Len(Append(s, k)) = n + 1 /\ Append(s, k) \in Seq(Keys)
        /\ DOMAIN Append(s, k) = 1..n + 1 /\ DOMAIN s = 1..n
        /\ Append(s, k)[n + 1] = k
        /\ \A i \in 1..n : Append(s, k)[i] = s[i]
    BY <2>1
  <2>4. b >= Debit /\ \A i \in DOMAIN s : s[i] # k
    BY <1>2 DEF PaymentOf
  <2>5. /\ b + Debit * n = Balance /\ e + f + u = Debit * n
        /\ \A i, j \in DOMAIN s : s[i] = s[j] => i = j
    BY DEF PayInv
  <2>6. \A i, j \in 1..n + 1 : Append(s, k)[i] = Append(s, k)[j] => i = j
    <3> DEFINE z == Append(s, k)
    <3>1. /\ z[n + 1] = k /\ \A i \in 1..n : z[i] = s[i]
      BY <2>3
    <3>2. \A i \in 1..n : s[i] # k /\ \A j \in 1..n : s[i] = s[j] => i = j
      BY <2>3, <2>4, <2>5
    <3> HIDE DEF z, s, n
    <3>3. \A i \in 1..n + 1 : i \in 1..n \/ i = n + 1
      BY <2>1
    <3>4. \A i, j \in 1..n + 1 : z[i] = z[j] => i = j
      BY <3>1, <3>2, <3>3
    <3> QED BY <3>4 DEF z
  <2> DEFINE m == Debit * n
  <2>7. Debit * (n + 1) = m + Debit /\ m \in Nat BY <2>1, Units, OneMore
  <2>8. b + m = Balance /\ e + f + u = m BY <2>5
  <2> HIDE DEF b, e, f, u, n, m
  <2>9. /\ b - Debit \in Nat /\ e + Storage - Burn \in Nat /\ f + Fee \in Nat /\ u + Burn \in Nat
        /\ (b - Debit) + (m + Debit) = Balance
        /\ (e + Storage - Burn) + (f + Fee) + (u + Burn) = m + Debit
    BY <2>1, <2>4, <2>7, <2>8, Units
  <2>10. node' \in NodeType BY <2>2, <2>3, <2>9 DEF NodeType
  <2> QED BY <2>2, <2>3, <2>6, <2>7, <2>9, <2>10
<1> QED BY <1>1, <1>2 DEF PayHMSStorageMarket

\* Only a request for an order pays.
LEMMA NodeSteps ==
  ASSUME [Next]_vars
  PROVE  UNCHANGED node \/ \E k \in Keys : \E p : PayHMSStorageMarket(k, p)
<1>1. ASSUME NEW t, ThreadStep(t)
      PROVE  UNCHANGED node
  BY <1>1 DEF ThreadStep, CheckOrder, CreateOrder, InsertOrder, RefuseOrder, PickWorkers,
     WriteCopy, AssignMarketChunk, DeleteList, InsertEntry, UpsertRow, AckUpload, StoreOrder,
     CancelOrder, ReadList, CountHealthy, ReadStatus, SetHealth
<1>2. TickStep => UNCHANGED node
  BY <1>1 DEF TickStep, Tick, Scan, PickSpare, CopySpare
<1>3. \A t \in Requests : CreateAnswerLost(t) \/ WriteFails(t) \/ HandlerFails(t) => UNCHANGED node
  BY DEF CreateAnswerLost, InsertOrder, WriteFails, HandlerFails
<1>4. \A t \in Requests : \A o \in Orders :
         (\E c \in Contents : Upload(t, o, c)) \/ Complete(t, o) \/ Cancel(t, o) => UNCHANGED node
  BY DEF Upload, Complete, Cancel
<1>5. CopyFails \/ Crash \/ (\E w \in Workers : Heartbeat(w) \/ \E o \in Orders : Lose(o, w))
         => UNCHANGED node
  BY DEF CopyFails, Crash, Heartbeat, Lose
<1>6. ASSUME NEW t \in Requests, NEW k \in Keys, Order(t, k)
      PROVE  \E p : PayHMSStorageMarket(k, p)
  BY <1>6 DEF Order
<1>7. UNCHANGED vars => UNCHANGED node BY DEF vars
<1> QED BY <1>1, <1>2, <1>3, <1>4, <1>5, <1>6, <1>7 DEF Next

LEMMA PayNext ==
  ASSUME PayInv, [Next]_vars
  PROVE  PayInv'
<1>1. Threaded /\ Ordering BY AboutNext DEF PayInv
<1>2. /\ node' \in NodeType
      /\ \A a, b \in DOMAIN node'.payments : node'.payments[a] = node'.payments[b] => a = b
      /\ node'.balance + Debit * Len(node'.payments) = Balance
      /\ node'.escrow + node'.fees + node'.burned = Debit * Len(node'.payments)
  <2>1. CASE UNCHANGED node BY <2>1 DEF PayInv
  <2>2. CASE \E k \in Keys : \E p : PayHMSStorageMarket(k, p) BY <2>2, PayKeeps
  <2> QED BY <2>1, <2>2, NodeSteps
<1>3. \A t \in Threads : DOMAIN th'[t] = DOMAIN Idle
  BY <1>1 DEF Threaded, Kept, Ended, Came, Fresh
<1>4. ThreadShape' BY <1>1, <1>3 DEF Threaded, ThreadShape
<1>5. PICK o \in Orders : /\ OrderKept(o) \/ Inserted(o) \/ Closed(o)
                          /\ \A q \in Orders \ {o} : OrderKept(q)
  BY <1>1 DEF Ordering
<1>6. \A q \in Orders : DOMAIN order'[q] = DOMAIN NoOrder
  BY <1>5 DEF OrderKept, Inserted, Closed
<1>7. OrderShape' BY <1>1, <1>6 DEF Ordering, OrderShape
<1>8. ASSUME NEW a \in Orders, NEW b \in Orders, order'[a].pay = order'[b].pay, a # b
      PROVE  order'[a].pay = 0
  <2>1. CASE ~Inserted(o)
    <3>1. order'[a].pay = order[a].pay /\ order'[b].pay = order[b].pay
      BY <1>5, <2>1 DEF OrderKept, Closed
    <3> QED BY <3>1, <1>8 DEF PayInv
  <2>2. CASE Inserted(o)
    <3>1. PICK t \in Requests \cup {"tick"} :
             Ordered(th[t].pay) = {} /\ order'[o].pay = th[t].pay
      BY <2>2 DEF Inserted
    <3>2. \A q \in Orders : order[q].pay # order'[o].pay
      BY <3>1 DEF Ordered
    <3>3. \A q \in Orders \ {o} : order'[q].pay = order[q].pay
      BY <1>5 DEF OrderKept
    <3>4. a # o /\ b # o BY <1>8, <3>2, <3>3
    <3> QED BY <1>8, <3>3, <3>4 DEF PayInv
  <2> QED BY <2>1, <2>2
<1> QED BY <1>2, <1>4, <1>7, <1>8 DEF PayInv, Shape

\* A set whose members are all equal has at most one.
LEMMA AtMostOne ==
  ASSUME NEW S, \A a, b \in S : a = b
  PROVE  Cardinality(S) <= 1
<1>1. CASE S = {} BY <1>1, FS_EmptySet
<1>2. CASE S # {}
  <2>1. PICK a \in S : TRUE BY <1>2
  <2>2. S = {a} BY <2>1
  <2> QED BY <2>2, FS_Singleton
<1> QED BY <1>1, <1>2

LEMMA PaySound ==
  ASSUME PayInv
  PROVE  PaidOnce
<1>1. \A k \in Keys : Cardinality(PaymentOf(k)) <= 1
  <2> TAKE k \in Keys
  <2>1. \A a, b \in PaymentOf(k) : a = b BY DEF PayInv, PaymentOf
  <2> QED BY <2>1, AtMostOne
<1>2. \A p \in DOMAIN node.payments : Cardinality(Ordered(p)) <= 1
  <2> TAKE p \in DOMAIN node.payments
  <2>1. p # 0 BY DEF PayInv, NodeType
  <2>2. \A a, b \in Ordered(p) : a = b BY <2>1 DEF PayInv, Ordered
  <2> QED BY <2>2, AtMostOne
<1>3. /\ Balance - node.balance = Debit * Len(node.payments)
      /\ node.escrow + node.fees + node.burned = Balance - node.balance
  <2> DEFINE m == Debit * Len(node.payments)
             b == node.balance
  <2>1. b + m = Balance /\ node.escrow + node.fees + node.burned = m BY DEF PayInv
  <2>2. b \in Nat BY DEF PayInv, NodeType
  <2>3. m \in Nat BY Units, OneMore DEF PayInv, NodeType
  <2> HIDE DEF m, b
  <2>4. Balance - b = m BY <2>1, <2>2, <2>3
  <2> QED BY <2>1, <2>4 DEF m, b
<1> QED BY <1>1, <1>2, <1>3 DEF PaidOnce

\* PaidOnce for every instance: however requests with the same key repeat, overlap,
\* fail and are cut off by crashes, a key is debited once, what was debited is in
\* the escrow, the fees and the burned units, and a payment has at most one order.
THEOREM PaidOnceHolds == Spec => []PaidOnce
<1>1. Init => PayInv BY PayInit
<1>2. PayInv /\ [Next]_vars => PayInv' BY PayNext
<1>3. PayInv => PaidOnce BY PaySound
<1> QED BY <1>1, <1>2, <1>3, PTL DEF Spec

----------------------------------------------------------------------------
(* An acknowledged chunk can be restored.                                   *)

\* Worker w has the chunk of order o, and the chunk is registered.
Good(o, w) == w \in Workers /\ file[o][w] \in Contents /\ order[o].hash \in Contents
Copies(o, s) == s \in Seq(Workers) /\ s # << >> /\ \A i \in DOMAIN s : Good(o, s[i])

\* Every entry of a replica list is a good copy.
OrderSound(o) ==
  /\ order[o].pay = 0 => ~order[o].known /\ order[o].status = "none" /\ order[o].row = NoOne
  /\ order[o].row \in Workers \cup {NoOne}
  /\ order[o].acked # {} => order[o].row # NoOne
  /\ IsFiniteSet(DOMAIN order[o].list) /\ DOMAIN order[o].list \subseteq Nat
  /\ \A i \in DOMAIN order[o].list : Good(o, order[o].list[i])

\* What a thread with the record u knows in each of its steps: an upload lists only
\* what it wrote, and the tick copies only a list of good copies.
Working(u) == u.pc \notin {"idle", "create", "insertOrder"}
ThreadIs(t, u) ==
  /\ u.order \in Orders
  /\ t = "tick" => u.pc \in {"idle", "scan", "pickSpare", "copy", "delete", "insert",
                             "read", "count", "current", "set"}
  /\ Working(u) => order[u.order].pay # 0
  /\ u.pc \in {"pick", "write", "delete", "insert", "pickSpare", "copy"} => u.content \in Contents
  /\ u.pc = "pick" => u.list = << >>
  /\ u.pc = "write" => /\ u.todo \in Seq(Workers) /\ u.list \in Seq(Workers)
                       /\ \A i \in DOMAIN u.list : file[u.order][u.list[i]] \in Contents
  /\ u.pc = "scan" => /\ u.list \in Seq(Workers) /\ u.list # << >>
                      /\ Len(u.list) = 1 \/ Copies(u.order, u.list)
  /\ u.pc \in {"delete", "insert", "pickSpare", "copy"} => Copies(u.order, u.list)
  /\ u.pc \in {"write", "delete", "insert", "row", "copy"} /\ (t # "tick" \/ u.pc = "copy") =>
       u.first \in Workers
  /\ u.pc = "insert" => u.index \in Nat \ {0}
  /\ u.pc = "ack" => order[u.order].row # NoOne

FileType == file \in [Orders -> [Workers -> Contents \cup {Nothing}]]

CopySound ==
  /\ FileType
  /\ \A o \in Orders : OrderSound(o)
  /\ \A t \in Threads : ThreadIs(t, th[t])

\* No write has failed: the first worker an upload picked has a copy, and so has the
\* worker of the chunk's row.
LeadIs(t, u) ==
  t # "tick" =>
    /\ u.pc = "write" => \/ u.list = << >> /\ u.todo # << >> /\ u.first = Head(u.todo)
                         \/ u.first \in Names(u.list)
    /\ u.pc \in {"delete", "insert"} => u.first \in Names(u.list)
    /\ u.pc = "row" => Good(u.order, u.first)
RowIs(o) == order[o].row # NoOne => Good(o, order[o].row)
RowsLead == (\A o \in Orders : RowIs(o)) /\ (\A t \in Threads : LeadIs(t, th[t]))

\* No rewrite of a list was cut off: a list that was written and is empty has a
\* thread that is about to insert its first entry.
Empty(o) == DOMAIN order[o].list = {}
Passed(u, o) == u.order = o /\ (u.pc = "row" \/ (u.pc = "insert" /\ u.index > 1))
Opens(u, o) == u.order = o /\ u.pc = "insert" /\ u.index = 1
Written(o) == order[o].row # NoOne \/ \E t \in Threads : Passed(th[t], o)
ListsLead == \A o \in Orders : Written(o) /\ Empty(o) => \E t \in Threads : Opens(th[t], o)

\* One fault may break one of the two, and not both.
ReadInv ==
  /\ Shape /\ faults \in Nat /\ lost \in BOOLEAN /\ online \subseteq Workers
  /\ ~lost /\ faults <= 1 =>
       /\ CopySound
       /\ RowsLead \/ ListsLead
       /\ faults = 0 => RowsLead /\ ListsLead

\* More fields of the initial records.
LEMMA Fields ==
  /\ DOMAIN Idle = {"pc", "order", "pay", "content", "todo", "list", "index", "first",
                    "need", "healthy", "next", "late"}
  /\ DOMAIN NoOrder = {"pay", "status", "token", "known", "list", "row", "hash", "holder",
                       "acked", "cancelled"}
  /\ Idle.pc = "idle" /\ Idle.order = 1 /\ Idle.list = << >>
  /\ NoOrder.list = << >> /\ NoOrder.row = NoOne /\ NoOrder.acked = {} /\ NoOrder.pay = 0
  /\ NoOrder.known = FALSE /\ NoOrder.status = "none"
BY DEF Idle, NoOrder

\* An idle thread knows nothing.
LEMMA IdleIs ==
  ASSUME NEW t
  PROVE  /\ ThreadIs(t, Idle) /\ LeadIs(t, Idle)
         /\ \A o \in Orders : ~Passed(Idle, o) /\ ~Opens(Idle, o)
BY Fields, SomeOrder DEF ThreadIs, LeadIs, Passed, Opens, Working

----------------------------------------------------------------------------
(* A list in the order of its indices.                                      *)

\* The largest of a finite set of numbers.
LEMMA Largest ==
  ASSUME NEW S \in SUBSET Nat, IsFiniteSet(S), S # {}
  PROVE  \E n \in S : \A m \in S : m <= n
<1> DEFINE Above(n) == {m \in S : m > n}
           T == {Cardinality(Above(n)) : n \in S}
<1>1. \A n \in S : IsFiniteSet(Above(n)) /\ Cardinality(Above(n)) \in Nat
  BY FS_Subset, FS_CardinalityType
<1> HIDE DEF Above
<1>2. T \in SUBSET Nat /\ T # {} BY <1>1
<1>3. PICK k \in T : \A m \in T : k <= m BY <1>2, LeastNumber
<1>4. PICK n \in S : k = Cardinality(Above(n)) BY <1>3
<1>5. ASSUME NEW m \in S, ~(m <= n) PROVE FALSE
  <2> n < m /\ n \in Nat /\ m \in Nat BY <1>5
  <2>1. m \in Above(n) /\ m \notin Above(m) BY DEF Above
  <2>4. ASSUME NEW x \in Above(m) PROVE x \in Above(n)
    <3>1. x \in S /\ x \in Nat /\ x > m BY DEF Above
    <3> QED BY <3>1 DEF Above
  <2>2. Cardinality(Above(m)) <= Cardinality(Above(n)) /\ Cardinality(Above(m)) # Cardinality(Above(n))
    BY <1>1, <2>1, <2>4, FS_Subset
  <2>3. Cardinality(Above(n)) <= Cardinality(Above(m)) BY <1>3, <1>4
  <2> QED BY <1>1, <2>2, <2>3
<1> QED BY <1>5

\* A finite set of numbers has an n-th one for every n up to its size.
LEMMA NthIn ==
  ASSUME NEW S \in SUBSET Nat, IsFiniteSet(S), NEW i \in 1..Cardinality(S)
  PROVE  Nth(S, i) \in S
<1> DEFINE UpTo(n) == {m \in S : m <= n}
           T == {n \in S : i <= Cardinality(UpTo(n))}
<1>1. Cardinality(S) \in Nat /\ i \in Nat /\ 1 <= i /\ i <= Cardinality(S) BY FS_CardinalityType
<1>2. S # {} BY <1>1, FS_EmptySet
<1>3. PICK top \in S : \A m \in S : m <= top BY <1>2, Largest
<1>4. UpTo(top) = S BY <1>3
<1>5. \A n \in S : /\ IsFiniteSet(UpTo(n)) /\ Cardinality(UpTo(n)) \in Nat
  BY FS_Subset, FS_CardinalityType
<1>6. top \in T BY <1>1, <1>4
<1>7. PICK n \in T : \A m \in T : n <= m BY <1>6, LeastNumber
<1> DEFINE Below == UpTo(n) \ {n}
<1>8. n \in S /\ n \in UpTo(n) /\ i <= Cardinality(UpTo(n)) BY <1>7
<1>9. /\ IsFiniteSet(Below) /\ Cardinality(Below) = Cardinality(UpTo(n)) - 1
      /\ Below \in SUBSET Nat /\ Below \subseteq S
  BY <1>5, <1>8, FS_RemoveElement
<1>10. Cardinality(UpTo(n)) = i
  <2>1. CASE Below = {}
    <3>1. Cardinality(Below) = 0 BY <2>1, FS_EmptySet
    <3> QED BY <1>1, <1>5, <1>8, <1>9, <3>1
  <2>2. CASE Below # {}
    <3>1. PICK p \in Below : \A m \in Below : m <= p BY <1>9, <2>2, Largest
    <3>2. p \in S /\ p < n BY <3>1
    <3>3. UpTo(p) = Below
      <4>1. ASSUME NEW m \in S PROVE m <= p <=> m <= n /\ m # n
        <5>1. m <= n /\ m # n => m \in Below BY <4>1
        <5>2. m \in Nat /\ n \in Nat /\ p \in Nat /\ p < n BY <3>2, <1>8
        <5>3. m <= n /\ m # n => m <= p BY <3>1, <5>1
        <5> QED BY <5>2, <5>3
      <4> QED BY <4>1
    <3>4. p \notin T BY <1>7, <3>2
    <3>5. Cardinality(UpTo(p)) < i BY <1>1, <1>5, <3>2, <3>4
    <3>6. Cardinality(UpTo(n)) - 1 < i BY <1>9, <3>3, <3>5
    <3> HIDE DEF UpTo
    <3> QED BY <1>1, <1>5, <1>8, <3>6
  <2> QED BY <2>1, <2>2
<1>11. \E m \in S : Cardinality({x \in S : x <= m}) = i BY <1>8, <1>10
<1> QED BY <1>11 DEF Nth

\* A list that is not empty is read as a sequence of entries that are in it.
LEMMA InOrderIs ==
  ASSUME NEW list, IsFiniteSet(DOMAIN list), DOMAIN list \subseteq Nat, DOMAIN list # {},
         \A i \in DOMAIN list : list[i] \in Workers
  PROVE  /\ InOrder(list) \in Seq(Workers) /\ InOrder(list) # << >>
         /\ \A i \in DOMAIN InOrder(list) : \E j \in DOMAIN list : InOrder(list)[i] = list[j]
<1> DEFINE S == DOMAIN list
           n == Cardinality(S)
<1>1. n \in Nat /\ n # 0 BY FS_CardinalityType, FS_EmptySet
<1>2. \A i \in 1..n : Nth(S, i) \in S BY NthIn
<1> HIDE DEF n
<1>3. InOrder(list) = [i \in 1..n |-> list[Nth(S, i)]] BY DEF InOrder, n
<1>4. \A i \in 1..n : list[Nth(S, i)] \in Workers BY <1>2
<1>5. InOrder(list) \in [1..n -> Workers] BY <1>3, <1>4
<1>6. InOrder(list) \in Seq(Workers) /\ Len(InOrder(list)) = n BY <1>1, <1>5
<1> QED BY <1>1, <1>2, <1>3, <1>6

----------------------------------------------------------------------------
(* What a step may do: copies stay good, and so does what threads know.     *)

Grows ==
  /\ \A o \in Orders, w \in Workers : file[o][w] \in Contents => file'[o][w] \in Contents
  /\ \A o \in Orders : order[o].pay # 0 =>
       /\ order'[o].pay # 0
       /\ order[o].hash \in Contents => order'[o].hash \in Contents
       /\ order[o].row # NoOne => order'[o].row # NoOne

\* A step that writes no row of an order but its status, or a mark of it.
RowsKept(o) ==
  /\ order'[o].pay = order[o].pay /\ order'[o].known = order[o].known
  /\ order'[o].list = order[o].list /\ order'[o].row = order[o].row
  /\ order'[o].hash = order[o].hash /\ order'[o].acked = order[o].acked
  /\ order[o].pay = 0 => order'[o].status = order[o].status

\* A good copy stays good.
LEMMA GoodStays ==
  ASSUME Grows, NEW o \in Orders, order[o].pay # 0, NEW w, Good(o, w)
  PROVE  Good(o, w)'
BY DEF Grows, Good

\* So does a sequence of them.
LEMMA CopiesStay ==
  ASSUME Grows, NEW o \in Orders, order[o].pay # 0, NEW s, Copies(o, s)
  PROVE  Copies(o, s)'
<1>1. \A i \in DOMAIN s : Good(o, s[i])' BY GoodStays DEF Copies
<1> QED BY <1>1 DEF Copies

\* What a thread knows stays true while others work.
LEMMA ThreadStays ==
  ASSUME Grows, NEW t, NEW u, ThreadIs(t, u)
  PROVE  ThreadIs(t, u)'
<1>1. u.order \in Orders BY DEF ThreadIs
<1>2. CASE ~Working(u)
  <2>1. u.pc \in {"idle", "create", "insertOrder"} BY <1>2 DEF Working
  <2> QED BY <2>1 DEF ThreadIs, Working
<1>3. CASE Working(u)
  <2>1. order[u.order].pay # 0 BY <1>3 DEF ThreadIs
  <2>2. order'[u.order].pay # 0 /\ (order[u.order].row # NoOne => order'[u.order].row # NoOne)
    BY <1>1, <2>1 DEF Grows
  <2>3. Copies(u.order, u.list) => Copies(u.order, u.list)'
    BY <1>1, <2>1, CopiesStay
  <2>4. u.pc = "write" => /\ u.todo \in Seq(Workers) /\ u.list \in Seq(Workers)
                          /\ \A i \in DOMAIN u.list : file'[u.order][u.list[i]] \in Contents
    <3> SUFFICES ASSUME u.pc = "write"
                 PROVE  /\ u.todo \in Seq(Workers) /\ u.list \in Seq(Workers)
                        /\ \A i \in DOMAIN u.list : file'[u.order][u.list[i]] \in Contents
      OBVIOUS
    <3>1. u.todo \in Seq(Workers) /\ u.list \in Seq(Workers) BY DEF ThreadIs
    <3>2. \A i \in DOMAIN u.list : u.list[i] \in Workers /\ file[u.order][u.list[i]] \in Contents
      BY <3>1 DEF ThreadIs
    <3> QED BY <1>1, <3>1, <3>2 DEF Grows
  <2> QED BY <2>2, <2>3, <2>4 DEF ThreadIs, Working
<1> QED BY <1>2, <1>3

\* So does what a thread knows when no write has failed.
LEMMA LeadStays ==
  ASSUME Grows, NEW t, NEW u, ThreadIs(t, u), LeadIs(t, u)
  PROVE  LeadIs(t, u)'
<1>1. u.order \in Orders BY DEF ThreadIs
<1>2. u.pc = "row" => order[u.order].pay # 0 BY DEF ThreadIs, Working
<1>3. u.pc = "row" /\ Good(u.order, u.first) => Good(u.order, u.first)' BY <1>1, <1>2, GoodStays
<1> QED BY <1>3 DEF LeadIs, Names

\* A step of one thread: it is enough to look at that thread.
LEMMA ThreadsHold ==
  ASSUME ThreadShape, CopySound, Grows, NEW t \in Threads, NEW r, th' = [th EXCEPT ![t] = r],
         ThreadIs(t, r)'
  PROVE  \A v \in Threads : ThreadIs(v, th[v])'
<1> TAKE v \in Threads
<1>1. th'[t] = r /\ (v # t => th'[v] = th[v]) BY OneThread
<1>2. PICK u : u = th[v] OBVIOUS
<1>3. ThreadIs(v, u)' BY <1>2, ThreadStays DEF CopySound
<1>4. PICK n : n = th'[v] OBVIOUS
<1>5. ThreadIs(v, n)'
  <2>1. CASE v = t BY <1>1, <1>4, <2>1
  <2>2. CASE v # t
    <3>1. n = u BY <1>1, <1>2, <1>4, <2>2
    <3> QED BY <1>3, <3>1
  <2> QED BY <2>1, <2>2
<1> QED BY <1>4, <1>5 DEF ThreadIs, Working, Copies, Good

\* Nor does the step of one thread take it from the others.
LEMMA LeadsHold ==
  ASSUME ThreadShape, CopySound, Grows, RowsLead, NEW t \in Threads, NEW r,
         th' = [th EXCEPT ![t] = r], LeadIs(t, r)'
  PROVE  \A v \in Threads : LeadIs(v, th[v])'
<1> TAKE v \in Threads
<1>1. th'[t] = r /\ (v # t => th'[v] = th[v]) BY OneThread
<1>2. PICK u : u = th[v] OBVIOUS
<1>3. LeadIs(v, u)' BY <1>2, LeadStays DEF CopySound, RowsLead
<1>4. PICK n : n = th'[v] OBVIOUS
<1>5. LeadIs(v, n)'
  <2>1. CASE v = t BY <1>1, <1>4, <2>1
  <2>2. CASE v # t
    <3>1. n = u BY <1>1, <1>2, <1>4, <2>2
    <3> QED BY <1>3, <3>1
  <2> QED BY <2>1, <2>2
<1> QED BY <1>4, <1>5 DEF LeadIs, Names, Good

\* The row of an order that is not written stays good.
LEMMA RowStays ==
  ASSUME CopySound, Grows, RowsLead, NEW o \in Orders, order'[o].row = order[o].row
  PROVE  RowIs(o)'
<1> SUFFICES ASSUME order[o].row # NoOne PROVE Good(o, order[o].row)'
  BY DEF RowIs
<1>1. order[o].pay # 0 BY DEF CopySound, OrderSound
<1>2. PICK w : w = order[o].row OBVIOUS
<1>3. Good(o, w) BY <1>2 DEF RowsLead, RowIs
<1>4. Good(o, w)' BY <1>1, <1>3, GoodStays
<1> QED BY <1>2, <1>4 DEF Good

\* The rows of an order that are not written stay sound.
LEMMA OrderStays ==
  ASSUME CopySound, Grows, NEW o \in Orders, RowsKept(o)
  PROVE  OrderSound(o)'
<1>1. OrderSound(o) BY DEF CopySound
<1>2. \A i \in DOMAIN order[o].list : Good(o, order[o].list[i])'
  <2> TAKE i \in DOMAIN order[o].list
  <2>1. PICK w : w = order[o].list[i] OBVIOUS
  <2>2. Good(o, w) BY <1>1, <2>1 DEF OrderSound
  <2>3. Good(o, w)' BY <2>2 DEF Good, Grows, RowsKept
  <2> QED BY <2>1, <2>3 DEF Good, RowsKept
<1> QED BY <1>1, <1>2 DEF OrderSound, RowsKept, Good

\* What the step of a thread to the record r leaves to a list that is empty.
Waits(t, r) ==
  \A o \in Orders : /\ Passed(r, o) => Passed(th[t], o) \/ ~Empty(o)
                    /\ Opens(th[t], o) => Opens(r, o) \/ ~Empty(o)

\* A thread outside of the rewrites neither opens nor has passed a list.
LEMMA Elsewhere ==
  ASSUME NEW t, NEW r, th[t].pc # "insert", r.pc \notin {"insert", "row"}
  PROVE  Waits(t, r)
BY DEF Waits, Passed, Opens

\* Steps that write no list and no row of a chunk.
LEMMA ListsHold ==
  ASSUME ThreadShape, ListsLead, NEW t \in Threads, NEW r, th' = [th EXCEPT ![t] = r],
         Waits(t, r),
         \A o \in Orders : order'[o].list = order[o].list /\ order'[o].row = order[o].row
  PROVE  ListsLead'
<1>1. th'[t] = r /\ \A v \in Threads \ {t} : th'[v] = th[v] BY OneThread
<1> SUFFICES ASSUME NEW o \in Orders, Written(o)', Empty(o)'
             PROVE  \E v \in Threads : Opens(th'[v], o)
  BY DEF ListsLead, Opens
<1>2. Empty(o) BY DEF Empty
<1>3. Written(o)
  <2>1. CASE order'[o].row # NoOne BY <2>1 DEF Written
  <2>2. CASE \E v \in Threads : Passed(th'[v], o)
    <3>1. PICK v \in Threads : Passed(th'[v], o) BY <2>2
    <3>2. Passed(th[v], o)
      <4>1. CASE v = t BY <1>1, <1>2, <3>1, <4>1 DEF Waits
      <4>2. CASE v # t BY <1>1, <3>1, <4>2
      <4> QED BY <4>1, <4>2
    <3> QED BY <3>2 DEF Written
  <2> QED BY <2>1, <2>2 DEF Written, Passed
<1>4. PICK v \in Threads : Opens(th[v], o) BY <1>2, <1>3 DEF ListsLead
<1>5. CASE v = t BY <1>1, <1>2, <1>4, <1>5 DEF Waits
<1>6. CASE v # t BY <1>1, <1>4, <1>6
<1> QED BY <1>5, <1>6

\* A step of one thread that writes no file, no list and no row of a chunk.
LEMMA Quiet ==
  ASSUME ThreadShape, CopySound, NEW t \in Threads, NEW r, th' = [th EXCEPT ![t] = r],
         UNCHANGED file, \A o \in Orders : RowsKept(o), ThreadIs(t, r)
  PROVE  /\ CopySound'
         /\ RowsLead /\ LeadIs(t, r) => RowsLead'
         /\ ListsLead /\ Waits(t, r) => ListsLead'
<1>1. Grows BY DEF Grows, RowsKept
<1>2. \A o \in Orders : OrderSound(o)' BY <1>1, OrderStays
<1>3. ThreadIs(t, r)' BY <1>1, ThreadStays
<1>4. \A v \in Threads : ThreadIs(v, th[v])' BY <1>1, <1>3, ThreadsHold
<1>5. FileType' BY DEF FileType, CopySound
<1>6. CopySound' BY <1>2, <1>4, <1>5 DEF CopySound
<1>7. ASSUME RowsLead, LeadIs(t, r) PROVE RowsLead'
  <2>1. LeadIs(t, r)' BY <1>1, <1>7, ThreadStays, LeadStays
  <2>2. \A v \in Threads : LeadIs(v, th[v])' BY <1>1, <1>7, <2>1, LeadsHold
  <2>3. \A o \in Orders : RowIs(o)' BY <1>1, <1>7, RowStays DEF RowsKept
  <2> QED BY <2>2, <2>3 DEF RowsLead
<1>8. ASSUME ListsLead, Waits(t, r) PROVE ListsLead'
  BY <1>8, ListsHold DEF RowsKept
<1> QED BY <1>6, <1>7, <1>8

\* The rows of the orders after a write to one of them.
LEMMA OneOrder ==
  ASSUME OrderShape, NEW o \in Orders, NEW r, order' = [order EXCEPT ![o] = r]
  PROVE  order'[o] = r /\ \A q \in Orders \ {o} : order'[q] = order[q] /\ RowsKept(q)
BY DEF OrderShape, RowsKept

\* Rows that nobody writes.
LEMMA SameRows ==
  ASSUME UNCHANGED order
  PROVE  \A o \in Orders : RowsKept(o)
BY DEF RowsKept

\* A step that keeps what the invariant says of copies, rows and lists.
Steady == CopySound' /\ (RowsLead => RowsLead') /\ (ListsLead => ListsLead')

\* A thread that ends before or after the rewrite of a list.
LEMMA EndsSteady ==
  ASSUME ThreadShape, CopySound, NEW t \in Threads, Ends(t), UNCHANGED file,
         \A o \in Orders : RowsKept(o)
  PROVE  /\ CopySound' /\ (RowsLead => RowsLead')
         /\ ~At(t, "insert") => (ListsLead => ListsLead')
<1>1. th' = [th EXCEPT ![t] = Idle] BY DEF Ends
<1>2. ThreadIs(t, Idle) /\ LeadIs(t, Idle) /\ (~At(t, "insert") => Waits(t, Idle))
  BY IdleIs, Elsewhere, Fields DEF At
<1>3. PICK r : r = Idle OBVIOUS
<1> HIDE DEF ThreadIs, LeadIs, Waits
<1> QED BY <1>1, <1>2, <1>3, Quiet

\* A thread that goes on to a step before which it knows nothing but its order.
LEMMA StepSteady ==
  ASSUME ThreadShape, CopySound, NEW t \in Threads, NEW pc, Step(t, pc),
         UNCHANGED file, \A o \in Orders : RowsKept(o),
         ~At(t, "insert"), Working(th[t]) \/ pc = "insertOrder",
         pc \in {"read", "insertOrder"},
         t = "tick" => pc = "read"
  PROVE  Steady
<1>1. PICK r : r = [th[t] EXCEPT !.pc = pc] OBVIOUS
<1>2. th' = [th EXCEPT ![t] = r] BY <1>1 DEF Step
<1>3. r.pc = pc /\ r.order = th[t].order BY <1>1, Fields DEF ThreadShape
<1>4. ThreadIs(t, th[t]) BY DEF CopySound
<1>5. ThreadIs(t, r) BY <1>3, <1>4 DEF ThreadIs, Working
<1>6. LeadIs(t, r) BY <1>3 DEF LeadIs
<1>7. Waits(t, r) BY <1>3, Elsewhere DEF At
<1> QED BY <1>2, <1>5, <1>6, <1>7, Quiet DEF Steady

----------------------------------------------------------------------------
(* Steps that write no file, no list and no row of a chunk.                 *)

\* A thread whose new record u only has to know its order.
LEMMA LightSteady ==
  ASSUME ThreadShape, CopySound, NEW t \in Threads, NEW r, th' = [th EXCEPT ![t] = r],
         UNCHANGED file, \A o \in Orders : RowsKept(o), ~At(t, "insert"),
         r.order \in Orders, Working(r) => order[r.order].pay # 0,
         \/ r.pc \in {"create", "store", "cancel"} /\ t # "tick"
         \/ r.pc \in {"count", "current", "set"}
  PROVE  Steady
<1>1. ThreadIs(t, r) BY DEF ThreadIs
<1>2. LeadIs(t, r) BY DEF LeadIs
<1>3. Waits(t, r) BY Elsewhere DEF At
<1> QED BY <1>1, <1>2, <1>3, Quiet DEF Steady

\* Whoever has the token, or sees a status or a chunk, has an order that was paid for.
LEMMA PaidFor ==
  ASSUME CopySound, NEW o \in Orders,
         Token(o) \/ order[o].status # "none" \/ order[o].row # NoOne
  PROVE  order[o].pay # 0
BY DEF CopySound, OrderSound, Token

\* Paying for an order.
LEMMA SteadyOrder ==
  ASSUME Shape, CopySound, NEW t \in Requests, NEW k \in Keys, Order(t, k)
  PROVE  Steady
<1>1. PICK p \in 1..Len(node.payments) + 1 :
         th' = [th EXCEPT ![t] = [Idle EXCEPT !.pc = "create", !.pay = p]]
  BY DEF Order
<1>2. PICK r : r = [Idle EXCEPT !.pc = "create", !.pay = p] OBVIOUS
<1>3. r.pc = "create" /\ r.order \in Orders /\ t # "tick" /\ t \in Threads
  BY <1>2, Fields, SomeOrder, MarketAssumption DEF Threads
<1>4. ~At(t, "insert") /\ UNCHANGED file /\ \A o \in Orders : RowsKept(o)
  BY SameRows DEF Order, Free, At
<1> QED BY <1>1, <1>2, <1>3, <1>4, LightSteady DEF Shape, Working

\* The check before an order is inserted.
LEMMA SteadyCheckOrder ==
  ASSUME Shape, CopySound, NEW t \in Threads, CheckOrder(t)
  PROVE  Steady
<1>1. ~At(t, "insert") /\ UNCHANGED file /\ \A o \in Orders : RowsKept(o)
  BY SameRows DEF CheckOrder, At
<1>2. t # "tick" BY DEF CheckOrder, At, CopySound, ThreadIs
<1>3. CASE Ends(t) BY <1>1, <1>3, EndsSteady DEF Shape, Steady
<1>4. CASE Step(t, "insertOrder") BY <1>1, <1>2, <1>4, StepSteady DEF Shape
<1> QED BY <1>3, <1>4 DEF CheckOrder

\* An order that is refused.
LEMMA SteadyRefuseOrder ==
  ASSUME Shape, CopySound, NEW t \in Threads, RefuseOrder(t)
  PROVE  Steady
<1>1. ~At(t, "insert") /\ Ends(t) /\ UNCHANGED file /\ \A o \in Orders : RowsKept(o)
  BY SameRows DEF RefuseOrder, At
<1> QED BY <1>1, EndsSteady DEF Shape, Steady

\* An upload comes in.
LEMMA SteadyUpload ==
  ASSUME Shape, CopySound, NEW t \in Requests, NEW o \in Orders, NEW c \in Contents, Upload(t, o, c)
  PROVE  Steady
<1>1. PICK r : r = [Idle EXCEPT !.pc = "pick", !.order = o, !.content = c,
                                !.late = order[o].cancelled]
  OBVIOUS
<1>2. th' = [th EXCEPT ![t] = r] BY <1>1 DEF Upload
<1>3. r.pc = "pick" /\ r.order = o /\ r.content = c /\ r.list = << >> /\ t # "tick" /\ t \in Threads
  BY <1>1, Fields, MarketAssumption DEF Threads
<1>4. ~At(t, "insert") /\ UNCHANGED file /\ \A q \in Orders : RowsKept(q)
  BY SameRows DEF Upload, Free, At
<1>5. order[o].pay # 0 BY PaidFor DEF Upload
<1>6. ThreadIs(t, r) /\ LeadIs(t, r) BY <1>3, <1>5 DEF ThreadIs, LeadIs
<1>7. Waits(t, r) BY <1>3, <1>4, Elsewhere DEF At
<1> QED BY <1>2, <1>3, <1>4, <1>6, <1>7, Quiet DEF Shape, Steady

\* A complete comes in.
LEMMA SteadyComplete ==
  ASSUME Shape, CopySound, NEW t \in Requests, NEW o \in Orders, Complete(t, o)
  PROVE  Steady
<1>1. PICK r : r = [Idle EXCEPT !.pc = "store", !.order = o, !.late = order[o].cancelled]
  OBVIOUS
<1>2. th' = [th EXCEPT ![t] = r] BY <1>1 DEF Complete
<1>3. r.pc = "store" /\ r.order = o /\ t # "tick" /\ t \in Threads
  BY <1>1, Fields, MarketAssumption DEF Threads
<1>4. ~At(t, "insert") /\ UNCHANGED file /\ \A q \in Orders : RowsKept(q)
  BY SameRows DEF Complete, Free, At
<1>5. order[o].pay # 0 BY PaidFor DEF Complete
<1> QED BY <1>2, <1>3, <1>4, <1>5, LightSteady DEF Shape

\* A cancel comes in.
LEMMA SteadyCancel ==
  ASSUME Shape, CopySound, NEW t \in Requests, NEW o \in Orders, Cancel(t, o)
  PROVE  Steady
<1>1. PICK r : r = [Idle EXCEPT !.pc = "cancel", !.order = o] OBVIOUS
<1>2. th' = [th EXCEPT ![t] = r] BY <1>1 DEF Cancel
<1>3. r.pc = "cancel" /\ r.order = o /\ t # "tick" /\ t \in Threads
  BY <1>1, Fields, MarketAssumption DEF Threads
<1>4. ~At(t, "insert") /\ UNCHANGED file /\ \A q \in Orders : RowsKept(q)
  BY SameRows DEF Cancel, Free, At
<1>5. order[o].pay # 0 BY PaidFor DEF Cancel
<1> QED BY <1>2, <1>3, <1>4, <1>5, LightSteady DEF Shape

\* Workers that are picked are a sequence of online ones, at least one.
LEMMA PicksAre ==
  ASSUME online \subseteq Workers, online # {}, NEW s \in Picks
  PROVE  s \in Seq(Workers) /\ s # << >> /\ s[1] = Head(s) /\ s[1] \in Workers
<1> DEFINE n == IF Cardinality(online) < Replicas THEN Cardinality(online) ELSE Replicas
<1>1. IsFiniteSet(online) BY MarketAssumption, FS_Subset
<1>2. Cardinality(online) \in Nat /\ Cardinality(online) # 0
  BY <1>1, FS_CardinalityType, FS_EmptySet
<1>3. n \in Nat /\ n # 0 BY <1>2, MarketAssumption
<1>4. s \in [1..n -> online] BY DEF Picks
<1> HIDE DEF n
<1>5. s \in [1..n -> Workers] BY <1>4
<1>6. s \in Seq(Workers) /\ Len(s) = n BY <1>3, <1>5
<1> QED BY <1>3, <1>6

\* The workers of an upload are picked.
LEMMA SteadyPickWorkers ==
  ASSUME Shape, CopySound, online \subseteq Workers, NEW t \in Threads, PickWorkers(t)
  PROVE  Steady
<1>1. ~At(t, "insert") /\ UNCHANGED file /\ \A o \in Orders : RowsKept(o)
  BY SameRows DEF PickWorkers, At
<1>2. ThreadIs(t, th[t]) /\ th[t].pc = "pick" BY DEF CopySound, PickWorkers, At
<1>3. t # "tick" BY <1>2 DEF ThreadIs
<1>4. CASE Ends(t) BY <1>1, <1>4, EndsSteady DEF Shape, Steady
<1>5. CASE online # {} /\ \E s \in Picks :
             th' = [th EXCEPT ![t].pc = "write", ![t].todo = s, ![t].first = s[1]]
  <2>1. PICK s \in Picks : th' = [th EXCEPT ![t].pc = "write", ![t].todo = s, ![t].first = s[1]]
    BY <1>5
  <2>2. s \in Seq(Workers) /\ s # << >> /\ s[1] = Head(s) /\ s[1] \in Workers BY <1>5, PicksAre
  <2>3. PICK r : r = [th[t] EXCEPT !.pc = "write", !.todo = s, !.first = s[1]] OBVIOUS
  <2>4. th' = [th EXCEPT ![t] = r] BY <2>1, <2>3
  <2>5. /\ r.pc = "write" /\ r.todo = s /\ r.first = s[1] /\ r.order = th[t].order
        /\ r.content = th[t].content /\ r.list = th[t].list
    BY <2>3, Fields DEF Shape, ThreadShape
  <2>6. th[t].list = << >> BY <1>2 DEF ThreadIs
  <2>7. ThreadIs(t, r) BY <1>2, <2>2, <2>5, <2>6 DEF ThreadIs, Working
  <2>8. LeadIs(t, r) BY <2>2, <2>5, <2>6 DEF LeadIs
  <2>9. Waits(t, r) BY <1>1, <2>5, Elsewhere DEF At
  <2> QED BY <1>1, <2>4, <2>7, <2>8, <2>9, Quiet DEF Shape, Steady
<1> QED BY <1>4, <1>5 DEF PickWorkers

\* A failed write: the first worker picked may have no copy.
LEMMA SteadyWriteFails ==
  ASSUME Shape, CopySound, NEW t \in Threads, WriteFails(t)
  PROVE  CopySound' /\ (ListsLead => ListsLead')
<1>1. ~At(t, "insert") /\ UNCHANGED file /\ \A o \in Orders : RowsKept(o)
  BY SameRows DEF WriteFails, At
<1>2. ThreadIs(t, th[t]) /\ th[t].pc = "write" /\ th[t].todo # << >>
  BY DEF CopySound, WriteFails, At
<1>3. PICK r : r = [th[t] EXCEPT !.todo = Tail(@), !.list = AfterFailedWrite(@, Head(th[t].todo))]
  OBVIOUS
<1>4. th' = [th EXCEPT ![t] = r] BY <1>3 DEF WriteFails
<1>5. /\ r.pc = "write" /\ r.todo = Tail(th[t].todo) /\ r.first = th[t].first
      /\ r.order = th[t].order /\ r.content = th[t].content /\ r.list = th[t].list
  BY <1>2, <1>3, Fields DEF Shape, ThreadShape, AfterFailedWrite
<1>6. th[t].todo \in Seq(Workers) /\ Tail(th[t].todo) \in Seq(Workers) BY <1>2 DEF ThreadIs
<1>7. ThreadIs(t, r) BY <1>2, <1>5, <1>6 DEF ThreadIs, Working
<1>8. Waits(t, r) BY <1>1, <1>5, Elsewhere DEF At
<1> QED BY <1>1, <1>4, <1>7, <1>8, Quiet DEF Shape

\* A write of the status, the token or the cancel mark of a paid order.
LEMMA StatusKeeps ==
  ASSUME OrderShape, NEW o \in Orders, order[o].pay # 0, NEW r, order' = [order EXCEPT ![o] = r],
         r.pay = order[o].pay, r.known = order[o].known, r.list = order[o].list,
         r.row = order[o].row, r.hash = order[o].hash, r.acked = order[o].acked
  PROVE  \A q \in Orders : RowsKept(q)
BY OneOrder DEF RowsKept

\* The order of a thread at work was paid for.
LEMMA AtWork ==
  ASSUME CopySound, NEW t \in Threads, Working(th[t])
  PROVE  th[t].order \in Orders /\ order[th[t].order].pay # 0
BY DEF CopySound, ThreadIs

\* The order is stored.
LEMMA SteadyStoreOrder ==
  ASSUME Shape, CopySound, NEW t \in Threads, StoreOrder(t)
  PROVE  Steady
<1>1. th[t].pc = "store" BY DEF StoreOrder, At
<1>2. PICK o : o = th[t].order OBVIOUS
<1>3. Working(th[t]) BY <1>1 DEF Working
<1>4. o \in Orders /\ order[o].pay # 0 BY <1>2, <1>3, AtWork
<1>5. PICK r : r = [order[o] EXCEPT !.status = "stored"] OBVIOUS
<1>6. order' = [order EXCEPT ![o] = r] BY <1>2, <1>5 DEF StoreOrder
<1>7. /\ r.pay = order[o].pay /\ r.known = order[o].known /\ r.list = order[o].list
      /\ r.row = order[o].row /\ r.hash = order[o].hash /\ r.acked = order[o].acked
  BY <1>4, <1>5, Fields DEF Shape, OrderShape
<1>8. \A q \in Orders : RowsKept(q) BY <1>4, <1>6, <1>7, StatusKeeps DEF Shape
<1> QED BY <1>1, <1>3, <1>8, StepSteady DEF Shape, StoreOrder, At

\* The order is cancelled.
LEMMA SteadyCancelOrder ==
  ASSUME Shape, CopySound, NEW t \in Threads, CancelOrder(t)
  PROVE  Steady
<1>1. th[t].pc = "cancel" BY DEF CancelOrder, At
<1>2. PICK o : o = th[t].order OBVIOUS
<1>3. Working(th[t]) BY <1>1 DEF Working
<1>4. o \in Orders /\ order[o].pay # 0 BY <1>2, <1>3, AtWork
<1>5. PICK r : r = CancelledOrder(order[o]) OBVIOUS
<1>6. order' = [order EXCEPT ![o] = r] BY <1>2, <1>5 DEF CancelOrder
<1>7. /\ r.pay = order[o].pay /\ r.known = order[o].known /\ r.list = order[o].list
      /\ r.row = order[o].row /\ r.hash = order[o].hash /\ r.acked = order[o].acked
  BY <1>4, <1>5, Fields DEF Shape, OrderShape, CancelledOrder
<1>8. \A q \in Orders : RowsKept(q) BY <1>4, <1>6, <1>7, StatusKeeps DEF Shape
<1> QED BY <1>1, <1>3, <1>8, StepSteady DEF Shape, CancelOrder, At

\* The refreshed status is written.
LEMMA SteadySetHealth ==
  ASSUME Shape, CopySound, NEW t \in Threads, SetHealth(t)
  PROVE  Steady
<1>1. th[t].pc = "set" BY DEF SetHealth, At
<1>2. PICK o : o = th[t].order OBVIOUS
<1>3. Working(th[t]) BY <1>1 DEF Working
<1>4. o \in Orders /\ order[o].pay # 0 BY <1>2, <1>3, AtWork
<1>5. PICK r : r = [order[o] EXCEPT !.status =
                      IF @ \in {"failed", "cancelled"} THEN @ ELSE th[t].next]
  OBVIOUS
<1>6. order' = [order EXCEPT ![o] = r] BY <1>2, <1>5 DEF SetHealth
<1>7. /\ r.pay = order[o].pay /\ r.known = order[o].known /\ r.list = order[o].list
      /\ r.row = order[o].row /\ r.hash = order[o].hash /\ r.acked = order[o].acked
  BY <1>4, <1>5, Fields DEF Shape, OrderShape
<1>8. \A q \in Orders : RowsKept(q) BY <1>4, <1>6, <1>7, StatusKeeps DEF Shape
<1> QED BY <1>1, <1>8, EndsSteady DEF Shape, SetHealth, At, Steady

\* The refresh reads a list.
LEMMA SteadyReadList ==
  ASSUME Shape, CopySound, NEW t \in Threads, ReadList(t)
  PROVE  Steady
<1>1. ~At(t, "insert") /\ UNCHANGED file /\ \A q \in Orders : RowsKept(q)
  BY SameRows DEF ReadList, At
<1>2. PICK o : o = th[t].order OBVIOUS
<1>3. th[t].pc = "read" BY DEF ReadList, At
<1>4. o \in Orders /\ order[o].pay # 0 BY <1>2, <1>3, AtWork DEF Working
<1>5. CASE Ends(t) BY <1>1, <1>5, EndsSteady DEF Shape, Steady
<1>6. CASE th' = [th EXCEPT ![t] = [Idle EXCEPT !.pc = "count", !.order = o,
                                    !.list = Listed(o), !.late = th[t].late]]
  <2>1. PICK r : r = [Idle EXCEPT !.pc = "count", !.order = o,
                                  !.list = Listed(o), !.late = th[t].late]
    OBVIOUS
  <2>2. r.pc = "count" /\ r.order = o BY <2>1, Fields
  <2> QED BY <1>1, <1>4, <1>6, <2>1, <2>2, LightSteady DEF Shape
<1> QED BY <1>2, <1>5, <1>6 DEF ReadList

\* The refresh counts.
LEMMA SteadyCountHealthy ==
  ASSUME Shape, CopySound, NEW t \in Threads, CountHealthy(t)
  PROVE  Steady
<1>1. ~At(t, "insert") /\ UNCHANGED file /\ \A q \in Orders : RowsKept(q)
  BY SameRows DEF CountHealthy, At
<1>2. th[t].pc = "count" BY DEF CountHealthy, At
<1>3. th[t].order \in Orders /\ order[th[t].order].pay # 0 BY <1>2, AtWork DEF Working
<1>4. PICK r : r = [th[t] EXCEPT !.pc = "current", !.list = << >>,
                                 !.healthy = Healthy(th[t].order, th[t].list)]
  OBVIOUS
<1>5. th' = [th EXCEPT ![t] = r] BY <1>4 DEF CountHealthy
<1>6. r.pc = "current" /\ r.order = th[t].order BY <1>4, Fields DEF Shape, ThreadShape
<1> QED BY <1>1, <1>3, <1>5, <1>6, LightSteady DEF Shape

\* The refresh reads the status again.
LEMMA SteadyReadStatus ==
  ASSUME Shape, CopySound, NEW t \in Threads, ReadStatus(t)
  PROVE  Steady
<1>1. ~At(t, "insert") /\ UNCHANGED file /\ \A q \in Orders : RowsKept(q)
  BY SameRows DEF ReadStatus, At
<1>2. th[t].pc = "current" BY DEF ReadStatus, At
<1>3. th[t].order \in Orders /\ order[th[t].order].pay # 0 BY <1>2, AtWork DEF Working
<1>4. PICK r : r = [th[t] EXCEPT !.pc = "set", !.healthy = 0,
                                 !.next = HealthStatus(th[t].healthy, Mine(t).status)]
  OBVIOUS
<1>5. th' = [th EXCEPT ![t] = r] BY <1>4 DEF ReadStatus
<1>6. r.pc = "set" /\ r.order = th[t].order BY <1>4, Fields DEF Shape, ThreadShape
<1> QED BY <1>1, <1>3, <1>5, <1>6, LightSteady DEF Shape

----------------------------------------------------------------------------
(* The health tick.                                                         *)

\* A list that is read has good copies only, or it is the worker of the chunk's row.
LEMMA ListedIs ==
  ASSUME CopySound, NEW o \in Orders, order[o].row # NoOne
  PROVE  /\ Listed(o) \in Seq(Workers) /\ Listed(o) # << >>
         /\ Empty(o) => Listed(o) = << order[o].row >>
         /\ ~Empty(o) => Copies(o, Listed(o))
<1>1. OrderSound(o) /\ order[o].row \in Workers BY DEF CopySound, OrderSound
<1>2. CASE Empty(o)
  <2>1. Listed(o) = << order[o].row >> BY <1>2 DEF Listed, Empty
  <2> QED BY <1>1, <1>2, <2>1
<1>3. CASE ~Empty(o)
  <2> DEFINE list == order[o].list
  <2>1. Listed(o) = InOrder(list) BY <1>3 DEF Listed, Empty
  <2>2. /\ IsFiniteSet(DOMAIN list) /\ DOMAIN list \subseteq Nat /\ DOMAIN list # {}
        /\ \A i \in DOMAIN list : Good(o, list[i])
    BY <1>1, <1>3 DEF OrderSound, Empty
  <2>3. \A i \in DOMAIN list : list[i] \in Workers BY <2>2 DEF Good
  <2> HIDE DEF list
  <2>4. /\ InOrder(list) \in Seq(Workers) /\ InOrder(list) # << >>
        /\ \A i \in DOMAIN InOrder(list) : \E j \in DOMAIN list : InOrder(list)[i] = list[j]
    BY <2>2, <2>3, InOrderIs
  <2>5. \A i \in DOMAIN InOrder(list) : Good(o, InOrder(list)[i]) BY <2>2, <2>4
  <2> QED BY <1>3, <2>1, <2>4, <2>5 DEF Copies
<1> QED BY <1>2, <1>3

\* The tick takes an order.
LEMMA SteadyTick ==
  ASSUME Shape, CopySound, NEW o \in Orders, Tick(o)
  PROVE  Steady
<1>1. order[o].row # NoOne BY DEF Tick, Active
<1>2. order[o].pay # 0 BY <1>1, PaidFor
<1>3. PICK s : s = Listed(o) OBVIOUS
<1>4. s \in Seq(Workers) /\ s # << >> /\ (Len(s) = 1 \/ Copies(o, s))
  BY <1>1, <1>3, ListedIs
<1>5. PICK r : r = [Idle EXCEPT !.pc = "scan", !.order = o, !.list = s] OBVIOUS
<1>6. th' = [th EXCEPT !["tick"] = r] BY <1>3, <1>5 DEF Tick
<1>7. r.pc = "scan" /\ r.order = o /\ r.list = s BY <1>5, Fields
<1>8. ~At("tick", "insert") /\ UNCHANGED file /\ (\A q \in Orders : RowsKept(q)) /\ "tick" \in Threads
  BY SameRows DEF Tick, At, Threads
<1>9. ThreadIs("tick", r) BY <1>2, <1>4, <1>7 DEF ThreadIs
<1>10. LeadIs("tick", r) BY DEF LeadIs
<1>11. Waits("tick", r) BY <1>7, <1>8, Elsewhere DEF At
<1> QED BY <1>6, <1>8, <1>9, <1>10, <1>11, Quiet DEF Shape, Steady

\* The tick goes on with a list that has a copy.
LEMMA SteadyScan ==
  ASSUME Shape, CopySound, Scan
  PROVE  Steady
<1> DEFINE o == th["tick"].order
           s == th["tick"].list
<1>1. ~At("tick", "insert") /\ UNCHANGED file /\ (\A q \in Orders : RowsKept(q)) /\ "tick" \in Threads
  BY SameRows DEF Scan, At, Threads
<1>2. th["tick"].pc = "scan" /\ ThreadIs("tick", th["tick"]) BY <1>1 DEF Scan, At, CopySound
<1>3. Working(th["tick"]) BY <1>2 DEF Working
<1>4. CASE Step("tick", "read") BY <1>1, <1>3, <1>4, StepSteady DEF Shape
<1>5. CASE /\ ~\A w \in Names(s) : ~FileOK(o, w)
           /\ th' = [th EXCEPT !["tick"].pc = "pickSpare", !["tick"].content = order[o].hash,
                              !["tick"].need = Replicas - Healthy(o, s)]
  <2>1. PICK i \in DOMAIN s : FileOK(o, s[i]) BY <1>5 DEF Names
  <2>2. o \in Orders /\ order[o].pay # 0 BY <1>3, <1>1, AtWork
  <2>3. s \in Seq(Workers) /\ s # << >> /\ (Len(s) = 1 \/ Copies(o, s)) BY <1>2 DEF ThreadIs
  <2>4. s[i] \in Workers BY <2>1, <2>3
  <2>5. file[o][s[i]] \in Contents BY <2>1, <2>2, <2>4 DEF FileOK, CopySound, FileType
  <2>6. Good(o, s[i]) /\ order[o].hash \in Contents BY <2>1, <2>4, <2>5 DEF Good, FileOK
  <2>7. Copies(o, s)
    <3>1. CASE Len(s) = 1
      <4>1. \A j \in DOMAIN s : j = i BY <2>1, <2>3, <3>1
      <4> QED BY <2>3, <2>6, <4>1 DEF Copies
    <3> QED BY <2>3, <3>1
  <2>8. PICK r : r = [th["tick"] EXCEPT !.pc = "pickSpare", !.content = order[o].hash,
                              !.need = Replicas - Healthy(o, s)]
    OBVIOUS
  <2>9. th' = [th EXCEPT !["tick"] = r] BY <1>5, <2>8
  <2>10. r.pc = "pickSpare" /\ r.order = o /\ r.list = s /\ r.content = order[o].hash
    BY <2>8, <1>1, Fields DEF Shape, ThreadShape
  <2> HIDE DEF o, s
  <2>11. ThreadIs("tick", r) BY <2>2, <2>6, <2>7, <2>10 DEF ThreadIs
  <2>12. LeadIs("tick", r) BY DEF LeadIs
  <2>13. Waits("tick", r) BY <1>1, <2>10, Elsewhere DEF At
  <2> QED BY <1>1, <2>9, <2>11, <2>12, <2>13, Quiet DEF Shape, Steady
<1> QED BY <1>4, <1>5 DEF Scan

\* The tick picks a spare worker.
LEMMA SteadyPickSpare ==
  ASSUME Shape, CopySound, online \subseteq Workers, PickSpare
  PROVE  Steady
<1>1. ~At("tick", "insert") /\ UNCHANGED file /\ (\A q \in Orders : RowsKept(q)) /\ "tick" \in Threads
  BY SameRows DEF PickSpare, At, Threads
<1>2. th["tick"].pc = "pickSpare" /\ ThreadIs("tick", th["tick"])
  BY <1>1 DEF PickSpare, At, CopySound
<1>3. Working(th["tick"]) BY <1>2 DEF Working
<1>4. CASE Step("tick", "read") BY <1>1, <1>3, <1>4, StepSteady DEF Shape
<1>5. CASE online # {} /\ \E s \in Picks : \E i \in DOMAIN s :
             th' = [th EXCEPT !["tick"].pc = "copy", !["tick"].first = s[i]]
  <2>1. PICK s \in Picks : \E i \in DOMAIN s :
           th' = [th EXCEPT !["tick"].pc = "copy", !["tick"].first = s[i]]
    BY <1>5
  <2>2. PICK i \in DOMAIN s : th' = [th EXCEPT !["tick"].pc = "copy", !["tick"].first = s[i]]
    BY <2>1
  <2>3. s \in Seq(Workers) BY <1>5, PicksAre
  <2>4. s[i] \in Workers BY <2>2, <2>3
  <2>5. PICK r : r = [th["tick"] EXCEPT !.pc = "copy", !.first = s[i]] OBVIOUS
  <2>6. th' = [th EXCEPT !["tick"] = r] BY <2>2, <2>5
  <2>7. /\ r.pc = "copy" /\ r.first = s[i] /\ r.order = th["tick"].order
        /\ r.list = th["tick"].list /\ r.content = th["tick"].content
    BY <2>5, <1>1, Fields DEF Shape, ThreadShape
  <2>8. ThreadIs("tick", r) BY <1>2, <2>4, <2>7 DEF ThreadIs, Working
  <2>9. LeadIs("tick", r) BY DEF LeadIs
  <2>10. Waits("tick", r) BY <1>1, <2>7, Elsewhere DEF At
  <2> QED BY <1>1, <2>6, <2>8, <2>9, <2>10, Quiet DEF Shape, Steady
<1> QED BY <1>4, <1>5 DEF PickSpare

\* The end of a rewrite, or of a copy that failed.
LEMMA SteadyRecorded ==
  ASSUME Shape, CopySound, NEW t \in Threads, Recorded(t), UNCHANGED <<file, order>>,
         \/ t = "tick" /\ At(t, "copy")
         \/ At(t, "insert")
  PROVE  /\ CopySound' /\ (RowsLead => RowsLead')
         /\ \/ At(t, "copy")
            \/ ~Empty(th[t].order) \/ th[t].index > 1
            => (ListsLead => ListsLead')
<1>1. UNCHANGED file /\ (\A q \in Orders : RowsKept(q)) BY SameRows
<1>2. ThreadIs(t, th[t]) BY DEF CopySound
<1>3. PICK r : IF t # "tick" THEN r = [th[t] EXCEPT !.pc = "row"]
               ELSE r = [th["tick"] EXCEPT !.need = @ - 1,
                           !.pc = IF th["tick"].need = 1 THEN "read" ELSE "pickSpare"]
  OBVIOUS
<1>4. th' = [th EXCEPT ![t] = r] BY <1>3 DEF Recorded, Step
<1>5. /\ r.order = th[t].order /\ r.list = th[t].list /\ r.first = th[t].first
      /\ r.content = th[t].content
      /\ IF t = "tick" THEN r.pc \in {"read", "pickSpare"} ELSE r.pc = "row"
  <2>1. CASE t # "tick" BY <1>3, <2>1, Fields DEF Shape, ThreadShape
  <2>2. CASE t = "tick"
    <3>1. PICK pc \in {"read", "pickSpare"} : r = [th["tick"] EXCEPT !.need = @ - 1, !.pc = pc]
      BY <1>3, <2>2
    <3> QED BY <2>2, <3>1, Fields DEF Shape, ThreadShape
  <2> QED BY <2>1, <2>2
<1>6. ThreadIs(t, r)
  <2>1. t = "tick" => th["tick"].content \in Contents
    BY <1>2 DEF ThreadIs, At
  <2> QED BY <1>2, <1>5, <2>1 DEF ThreadIs, Working, At
<1>7. ASSUME RowsLead PROVE LeadIs(t, r)
  <2>1. CASE t = "tick" BY <2>1 DEF LeadIs
  <2>2. CASE t # "tick"
    <3>1. Copies(th[t].order, th[t].list) /\ th[t].first \in Names(th[t].list)
      BY <1>2, <1>7, <2>2 DEF ThreadIs, At, RowsLead, LeadIs
    <3>2. Good(th[t].order, th[t].first) BY <3>1 DEF Copies, Names
    <3> QED BY <1>5, <2>2, <3>2 DEF LeadIs
  <2> QED BY <2>1, <2>2
<1>8. ASSUME At(t, "copy") \/ ~Empty(th[t].order) \/ th[t].index > 1 PROVE Waits(t, r)
  BY <1>5, <1>8 DEF Waits, Passed, Opens, At
<1> QED BY <1>1, <1>4, <1>6, <1>7, <1>8, Quiet DEF Shape

----------------------------------------------------------------------------
(* Steps that write files, lists and rows.                                  *)

\* What is left to show for such a step.
LEMMA Loud ==
  ASSUME ThreadShape, CopySound, Grows, NEW t \in Threads, NEW r, th' = [th EXCEPT ![t] = r],
         FileType', \A o \in Orders : OrderSound(o)', ThreadIs(t, r)'
  PROVE  /\ CopySound'
         /\ RowsLead /\ LeadIs(t, r)' /\ (\A o \in Orders : RowIs(o)') => RowsLead'
<1>1. \A v \in Threads : ThreadIs(v, th[v])' BY ThreadsHold
<1>2. CopySound' BY <1>1 DEF CopySound
<1>3. ASSUME RowsLead, LeadIs(t, r)', \A o \in Orders : RowIs(o)' PROVE RowsLead'
  <2>1. \A v \in Threads : LeadIs(v, th[v])' BY <1>3, LeadsHold
  <2> QED BY <1>3, <2>1 DEF RowsLead
<1> QED BY <1>2, <1>3

\* A step that writes a file only.
LEMMA FileWritten ==
  ASSUME CopySound, NEW o \in Orders, NEW w \in Workers, NEW c \in Contents,
         file' = [file EXCEPT ![o][w] = c], UNCHANGED order
  PROVE  /\ Grows /\ FileType' /\ file'[o][w] = c
         /\ \A q \in Orders : OrderSound(q)'
         /\ RowsLead => \A q \in Orders : RowIs(q)'
<1>1. file \in [Orders -> [Workers -> Contents \cup {Nothing}]] BY DEF CopySound, FileType
<1>2. FileType' BY <1>1 DEF FileType
<1>3. \A q \in Orders, v \in Workers : file'[q][v] = IF q = o /\ v = w THEN c ELSE file[q][v]
  BY <1>1
<1>4. Grows BY <1>3 DEF Grows
<1>5. \A q \in Orders : OrderSound(q)' BY <1>4, SameRows, OrderStays
<1>6. RowsLead => \A q \in Orders : RowIs(q)' BY <1>4, RowStays
<1> QED BY <1>2, <1>3, <1>4, <1>5, <1>6

\* A copy is written.
LEMMA SteadyWriteCopy ==
  ASSUME Shape, CopySound, NEW t \in Threads, WriteCopy(t)
  PROVE  Steady
<1>1. th[t].pc = "write" /\ th[t].todo # << >> BY DEF WriteCopy, At
<1>2. ThreadIs(t, th[t]) BY DEF CopySound
<1>3. PICK o : o = th[t].order OBVIOUS
<1>4. PICK w : w = Head(th[t].todo) OBVIOUS
<1>5. PICK c : c = th[t].content OBVIOUS
<1>6. PICK s : s = th[t].list OBVIOUS
<1>7. o \in Orders /\ c \in Contents /\ order[o].pay # 0 /\ t # "tick"
  BY <1>1, <1>2, <1>3, <1>5 DEF ThreadIs, Working
<1>8. /\ th[t].todo \in Seq(Workers) /\ s \in Seq(Workers)
      /\ \A i \in DOMAIN s : file[o][s[i]] \in Contents
  BY <1>1, <1>2, <1>3, <1>6 DEF ThreadIs
<1>9. w \in Workers /\ Tail(th[t].todo) \in Seq(Workers) BY <1>1, <1>4, <1>8
<1>10. file' = [file EXCEPT ![o][w] = c] /\ UNCHANGED order
  BY <1>3, <1>4, <1>5 DEF WriteCopy
<1>11. /\ Grows /\ FileType' /\ file'[o][w] = c /\ (\A q \in Orders : OrderSound(q)')
       /\ RowsLead => \A q \in Orders : RowIs(q)'
  BY <1>7, <1>9, <1>10, FileWritten
<1>12. PICK r : r = [th[t] EXCEPT !.todo = Tail(@), !.list = Append(@, w)] OBVIOUS
<1>13. th' = [th EXCEPT ![t] = r] BY <1>4, <1>12 DEF WriteCopy
<1>14. /\ r.pc = "write" /\ r.todo = Tail(th[t].todo) /\ r.list = Append(s, w)
       /\ r.order = o /\ r.content = c /\ r.first = th[t].first
  BY <1>1, <1>3, <1>5, <1>6, <1>12, Fields DEF Shape, ThreadShape
<1>15. /\ Append(s, w) \in Seq(Workers) /\ DOMAIN Append(s, w) = 1..Len(s) + 1
       /\ Append(s, w)[Len(s) + 1] = w /\ Len(s) \in Nat /\ DOMAIN s = 1..Len(s)
       /\ \A i \in 1..Len(s) : Append(s, w)[i] = s[i]
  BY <1>8, <1>9
<1>16. \A i \in DOMAIN Append(s, w) : file'[o][Append(s, w)[i]] \in Contents
  <2> TAKE i \in DOMAIN Append(s, w)
  <2>1. CASE i = Len(s) + 1 BY <1>7, <1>11, <1>15, <2>1
  <2>2. CASE i # Len(s) + 1
    <3>1. i \in 1..Len(s) BY <1>15, <2>2
    <3>2. file[o][s[i]] \in Contents /\ s[i] \in Workers BY <1>8, <1>15, <3>1
    <3> QED BY <1>7, <1>11, <1>15, <3>1, <3>2 DEF Grows
  <2> QED BY <2>1, <2>2
<1>17. th[t].first \in Workers BY <1>1, <1>2, <1>7 DEF ThreadIs
<1>18. ThreadIs(t, r)'
  BY <1>7, <1>9, <1>10, <1>14, <1>15, <1>16, <1>17 DEF ThreadIs, Working
<1>19. ASSUME RowsLead PROVE LeadIs(t, r)'
  <2>1. \/ s = << >> /\ th[t].first = w
        \/ th[t].first \in Names(s)
    BY <1>1, <1>4, <1>6, <1>7, <1>19 DEF RowsLead, LeadIs
  <2>2. th[t].first \in Names(Append(s, w))
    <3>1. CASE th[t].first = w BY <1>15, <3>1 DEF Names
    <3>2. CASE th[t].first \in Names(s) BY <1>15, <3>2 DEF Names
    <3> QED BY <2>1, <3>1, <3>2
  <2> QED BY <1>14, <2>2 DEF LeadIs, Names
<1>20. Waits(t, r) BY <1>1, <1>14, Elsewhere
<1>21. ListsLead => ListsLead' BY <1>10, <1>13, <1>20, ListsHold DEF Shape
<1>22. CopySound' /\ (RowsLead => RowsLead')
  BY <1>11, <1>13, <1>18, <1>19, Loud DEF Shape
<1> QED BY <1>21, <1>22 DEF Steady

\* The tick copies the chunk to a spare worker.
LEMMA SteadyCopySpare ==
  ASSUME Shape, CopySound, CopySpare
  PROVE  Steady
<1>1. th["tick"].pc = "copy" /\ "tick" \in Threads BY DEF CopySpare, At, Threads
<1>2. ThreadIs("tick", th["tick"]) BY <1>1 DEF CopySound
<1>3. PICK o : o = th["tick"].order OBVIOUS
<1>4. PICK w : w = th["tick"].first OBVIOUS
<1>5. PICK c : c = th["tick"].content OBVIOUS
<1>6. PICK s : s = th["tick"].list OBVIOUS
<1>7. o \in Orders /\ c \in Contents /\ order[o].pay # 0 /\ w \in Workers
  BY <1>1, <1>2, <1>3, <1>4, <1>5 DEF ThreadIs, Working
<1>8. Copies(o, s) BY <1>1, <1>2, <1>3, <1>6 DEF ThreadIs
<1>9. s \in Seq(Workers) /\ s # << >> /\ 1 \in DOMAIN s BY <1>8 DEF Copies
<1>10. order[o].hash \in Contents BY <1>8, <1>9 DEF Copies, Good
<1>11. file' = [file EXCEPT ![o][w] = c] /\ UNCHANGED order
  BY <1>3, <1>4, <1>5 DEF CopySpare
<1>12. /\ Grows /\ FileType' /\ file'[o][w] = c /\ (\A q \in Orders : OrderSound(q)')
       /\ RowsLead => \A q \in Orders : RowIs(q)'
  BY <1>7, <1>11, FileWritten
<1>13. PICK r : r = [th["tick"] EXCEPT !.pc = "delete", !.list = Append(@, w)] OBVIOUS
<1>14. th' = [th EXCEPT !["tick"] = r] BY <1>4, <1>13 DEF CopySpare
<1>15. r.pc = "delete" /\ r.list = Append(s, w) /\ r.order = o /\ r.content = c
  BY <1>1, <1>3, <1>5, <1>6, <1>13, Fields DEF Shape, ThreadShape
<1>16. /\ Append(s, w) \in Seq(Workers) /\ DOMAIN Append(s, w) = 1..Len(s) + 1
       /\ Append(s, w)[Len(s) + 1] = w /\ Len(s) \in Nat /\ DOMAIN s = 1..Len(s)
       /\ \A i \in 1..Len(s) : Append(s, w)[i] = s[i]
       /\ Append(s, w) # << >>
  BY <1>7, <1>9
<1>17. Good(o, w)' BY <1>7, <1>10, <1>11, <1>12 DEF Good
<1>18. \A i \in DOMAIN s : Good(o, s[i])' BY <1>7, <1>8, <1>12, GoodStays DEF Copies
<1>19. \A i \in DOMAIN Append(s, w) : Good(o, Append(s, w)[i])'
  <2> TAKE i \in DOMAIN Append(s, w)
  <2>1. CASE i = Len(s) + 1 BY <1>16, <1>17, <2>1
  <2>2. CASE i # Len(s) + 1
    <3>1. i \in 1..Len(s) BY <1>16, <2>2
    <3> QED BY <1>16, <1>18, <3>1
  <2> QED BY <2>1, <2>2
<1>20. ThreadIs("tick", r)'
  BY <1>7, <1>11, <1>15, <1>16, <1>19 DEF ThreadIs, Working, Copies
<1>21. LeadIs("tick", r)' BY DEF LeadIs
<1>22. Waits("tick", r) BY <1>1, <1>15, Elsewhere
<1>23. ListsLead => ListsLead' BY <1>1, <1>11, <1>14, <1>22, ListsHold DEF Shape
<1>24. CopySound' /\ (RowsLead => RowsLead')
  BY <1>1, <1>12, <1>14, <1>20, <1>21, Loud DEF Shape
<1> QED BY <1>23, <1>24 DEF Steady

\* A step that writes the rows of one order.
LEMMA OrderWritten ==
  ASSUME CopySound, OrderShape, NEW o \in Orders, NEW r, order' = [order EXCEPT ![o] = r],
         UNCHANGED file,
         order[o].pay # 0 => /\ r.pay # 0
                             /\ order[o].hash \in Contents => r.hash \in Contents
                             /\ order[o].row # NoOne => r.row # NoOne
  PROVE  /\ Grows /\ FileType' /\ order'[o] = r
         /\ \A q \in Orders \ {o} : /\ order'[q] = order[q] /\ OrderSound(q)'
                                    /\ RowsLead => RowIs(q)'
<1>1. order'[o] = r /\ \A q \in Orders \ {o} : order'[q] = order[q] /\ RowsKept(q) BY OneOrder
<1>2. Grows BY <1>1 DEF Grows
<1>3. FileType' BY DEF FileType, CopySound
<1>4. \A q \in Orders \ {o} : OrderSound(q)' BY <1>1, <1>2, OrderStays
<1>5. RowsLead => \A q \in Orders \ {o} : RowIs(q)' BY <1>1, <1>2, RowStays
<1> QED BY <1>1, <1>2, <1>3, <1>4, <1>5

\* A step that writes the list or the row of the thread's order.
LEMMA ListsHoldAt ==
  ASSUME ThreadShape, ListsLead, NEW t \in Threads, NEW r, th' = [th EXCEPT ![t] = r],
         NEW o \in Orders,
         \A q \in Orders \ {o} : order'[q] = order[q],
         th[t].pc # "insert" \/ th[t].order = o, r.pc \notin {"insert", "row"} \/ r.order = o,
         Written(o)' /\ Empty(o)' => \E v \in Threads : Opens(th'[v], o)
  PROVE  ListsLead'
<1>1. th'[t] = r /\ \A v \in Threads \ {t} : th'[v] = th[v] BY OneThread
<1> SUFFICES ASSUME NEW q \in Orders, Written(q)', Empty(q)'
             PROVE  \E v \in Threads : Opens(th'[v], q)
  BY DEF ListsLead, Opens
<1>2. CASE q = o BY <1>2
<1>3. CASE q # o
  <2>1. Empty(q) BY <1>3 DEF Empty
  <2>2. Written(q)
    <3>1. CASE order'[q].row # NoOne BY <1>3, <3>1 DEF Written
    <3>2. CASE \E v \in Threads : Passed(th'[v], q)
      <4>1. PICK v \in Threads : Passed(th'[v], q) BY <3>2
      <4>2. v # t BY <1>1, <1>3, <4>1 DEF Passed
      <4> QED BY <1>1, <4>1, <4>2 DEF Written
    <3> QED BY <3>1, <3>2 DEF Written, Passed
  <2>3. PICK v \in Threads : Opens(th[v], q) BY <2>1, <2>2 DEF ListsLead
  <2>4. v # t BY <1>3, <2>3 DEF Opens
  <2> QED BY <1>1, <2>3, <2>4
<1> QED BY <1>2, <1>3

\* The chunk is registered.
LEMMA SteadyAssign ==
  ASSUME Shape, CopySound, NEW t \in Threads, AssignMarketChunk(t)
  PROVE  Steady
<1>1. th[t].pc = "write" /\ th[t].todo = << >> BY DEF AssignMarketChunk, At
<1>2. ThreadIs(t, th[t]) BY DEF CopySound
<1>3. CASE th[t].list = << >>
  <2>1. Ends(t) /\ UNCHANGED <<order, file>> BY <1>3 DEF AssignMarketChunk
  <2> QED BY <1>1, <2>1, SameRows, EndsSteady DEF Shape, Steady, At
<1>4. CASE th[t].list # << >>
  <2>1. PICK o : o = th[t].order OBVIOUS
  <2>2. PICK c : c = th[t].content OBVIOUS
  <2>3. PICK s : s = th[t].list OBVIOUS
  <2>4. o \in Orders /\ c \in Contents /\ order[o].pay # 0 /\ t # "tick"
    BY <1>1, <1>2, <2>1, <2>2 DEF ThreadIs, Working
  <2>5. /\ s \in Seq(Workers) /\ s # << >> /\ \A i \in DOMAIN s : file[o][s[i]] \in Contents
    BY <1>1, <1>2, <1>4, <2>1, <2>3 DEF ThreadIs
  <2>6. PICK r : r = [order[o] EXCEPT !.hash = c, !.holder = s[1]] OBVIOUS
  <2>7. /\ r.pay = order[o].pay /\ r.known = order[o].known /\ r.list = order[o].list
        /\ r.row = order[o].row /\ r.hash = c /\ r.acked = order[o].acked
        /\ r.status = order[o].status
    BY <2>4, <2>6, Fields DEF Shape, OrderShape
  <2>8. order' = [order EXCEPT ![o] = r] /\ UNCHANGED file
    BY <1>4, <2>1, <2>2, <2>3, <2>6 DEF AssignMarketChunk
  <2>9. /\ Grows /\ FileType' /\ order'[o] = r
        /\ \A q \in Orders \ {o} : /\ order'[q] = order[q] /\ OrderSound(q)'
                                   /\ RowsLead => RowIs(q)'
    BY <2>4, <2>7, <2>8, OrderWritten DEF Shape
  <2>10. OrderSound(o)'
    <3>1. OrderSound(o) BY <2>4 DEF CopySound
    <3>2. ASSUME NEW i \in DOMAIN order[o].list PROVE Good(o, order[o].list[i])'
      <4>1. PICK w : w = order[o].list[i] OBVIOUS
      <4>2. Good(o, w)' BY <2>4, <2>9, <3>1, <3>2, <4>1, GoodStays DEF OrderSound
      <4> QED BY <2>7, <2>9, <4>1, <4>2 DEF Good
    <3> QED BY <2>4, <2>7, <2>9, <3>1, <3>2 DEF OrderSound, Good
  <2>11. RowsLead => RowIs(o)' BY <2>4, <2>7, <2>9, RowStays
  <2>12. PICK u : u = [th[t] EXCEPT !.pc = "delete"] OBVIOUS
  <2>13. th' = [th EXCEPT ![t] = u] BY <1>4, <2>12 DEF AssignMarketChunk, Step
  <2>14. /\ u.pc = "delete" /\ u.order = o /\ u.list = s /\ u.content = c
         /\ u.first = th[t].first
    BY <2>1, <2>2, <2>3, <2>12, Fields DEF Shape, ThreadShape
  <2>15. \A i \in DOMAIN s : Good(o, s[i])'
    BY <2>4, <2>5, <2>7, <2>8, <2>9 DEF Good
  <2>16. th[t].first \in Workers BY <1>1, <1>2, <2>4 DEF ThreadIs
  <2>17. ThreadIs(t, u)'
    BY <2>4, <2>5, <2>7, <2>9, <2>14, <2>15, <2>16 DEF ThreadIs, Working, Copies
  <2>18. ASSUME RowsLead PROVE LeadIs(t, u)'
    <3>1. th[t].first \in Names(s)
      BY <1>1, <2>3, <2>4, <2>18 DEF RowsLead, LeadIs
    <3> QED BY <2>14, <3>1 DEF LeadIs, Names
  <2>19. Waits(t, u) BY <1>1, <2>14, Elsewhere
  <2>20. \A q \in Orders : order'[q].list = order[q].list /\ order'[q].row = order[q].row
    BY <2>7, <2>9
  <2>21. ListsLead => ListsLead' BY <2>13, <2>19, <2>20, ListsHold DEF Shape
  <2>22. \A q \in Orders : OrderSound(q)' BY <2>9, <2>10
  <2>23. CopySound' /\ (RowsLead => RowsLead')
    BY <2>9, <2>11, <2>13, <2>17, <2>18, <2>22, Loud DEF Shape
  <2> QED BY <2>21, <2>23 DEF Steady
<1> QED BY <1>3, <1>4

\* The list is deleted; the thread goes on to insert its first entry.
LEMMA SteadyDeleteList ==
  ASSUME Shape, CopySound, NEW t \in Threads, DeleteList(t)
  PROVE  Steady
<1>1. th[t].pc = "delete" /\ ThreadIs(t, th[t]) BY DEF DeleteList, At, CopySound
<1>2. PICK o : o = th[t].order OBVIOUS
<1>3. o \in Orders /\ order[o].pay # 0 BY <1>1, <1>2 DEF ThreadIs, Working
<1>4. PICK r : r = [order[o] EXCEPT !.list = << >>] OBVIOUS
<1>5. /\ r.pay = order[o].pay /\ r.known = order[o].known /\ r.list = << >>
      /\ r.row = order[o].row /\ r.hash = order[o].hash /\ r.acked = order[o].acked
      /\ r.status = order[o].status
  BY <1>3, <1>4, Fields DEF Shape, OrderShape
<1>6. order' = [order EXCEPT ![o] = r] /\ UNCHANGED file BY <1>2, <1>4 DEF DeleteList
<1>7. /\ Grows /\ FileType' /\ order'[o] = r
      /\ \A q \in Orders \ {o} : /\ order'[q] = order[q] /\ OrderSound(q)'
                                 /\ RowsLead => RowIs(q)'
  BY <1>3, <1>5, <1>6, OrderWritten DEF Shape
<1>8. OrderSound(o)'
  <2>1. OrderSound(o) BY <1>3 DEF CopySound
  <2>2. DOMAIN r.list = {} /\ IsFiniteSet(DOMAIN r.list) BY <1>5, FS_EmptySet
  <2> QED BY <1>5, <1>7, <2>1, <2>2 DEF OrderSound
<1>9. RowsLead => RowIs(o)' BY <1>3, <1>5, <1>7, RowStays
<1>10. PICK u : u = [th[t] EXCEPT !.pc = "insert", !.index = 1] OBVIOUS
<1>11. th' = [th EXCEPT ![t] = u] BY <1>10 DEF DeleteList
<1>12. /\ u.pc = "insert" /\ u.index = 1 /\ u.order = o /\ u.list = th[t].list
       /\ u.content = th[t].content /\ u.first = th[t].first
  BY <1>2, <1>10, Fields DEF Shape, ThreadShape
<1>13. ThreadIs(t, u) BY <1>1, <1>2, <1>12 DEF ThreadIs, Working
<1>14. ThreadIs(t, u)' BY <1>7, <1>13, ThreadStays
<1>15. ASSUME RowsLead PROVE LeadIs(t, u)'
  <2>1. LeadIs(t, u) BY <1>1, <1>12, <1>15 DEF RowsLead, LeadIs
  <2> QED BY <1>7, <1>13, <2>1, LeadStays
<1>16. \A q \in Orders : OrderSound(q)' BY <1>7, <1>8
<1>17. CopySound' /\ (RowsLead => RowsLead')
  BY <1>7, <1>9, <1>11, <1>14, <1>15, <1>16, Loud DEF Shape
<1>18. Opens(th'[t], o) BY <1>11, <1>12, OneThread DEF Shape, Opens
<1>19. Written(o)' /\ Empty(o)' => \E v \in Threads : Opens(th'[v], o) BY <1>18
<1>20. ASSUME ListsLead PROVE ListsLead'
  <2>1. \A q \in Orders \ {o} : order'[q] = order[q] BY <1>7
  <2> QED BY <1>2, <1>3, <1>11, <1>12, <1>19, <1>20, <2>1, ListsHoldAt DEF Shape
<1> QED BY <1>17, <1>20 DEF Steady

\* An entry is inserted, or the rewrite ends.
LEMMA SteadyInsertEntry ==
  ASSUME Shape, CopySound, NEW t \in Threads, InsertEntry(t)
  PROVE  Steady
<1>1. th[t].pc = "insert" /\ ThreadIs(t, th[t]) BY DEF InsertEntry, At, CopySound
<1>2. PICK o : o = th[t].order OBVIOUS
<1>3. PICK n : n = th[t].index OBVIOUS
<1>4. PICK s : s = th[t].list OBVIOUS
<1>5. PICK list : list = order[o].list OBVIOUS
<1>6. o \in Orders /\ order[o].pay # 0 /\ n \in Nat \ {0} /\ Copies(o, s)
  BY <1>1, <1>2, <1>3, <1>4 DEF ThreadIs, Working
<1>7. s \in Seq(Workers) /\ Len(s) \in Nat /\ Len(s) # 0 /\ DOMAIN s = 1..Len(s)
  BY <1>6 DEF Copies
<1>8. CASE n > Len(s)
  <2>1. Recorded(t) /\ UNCHANGED <<file, order>> BY <1>3, <1>4, <1>8 DEF InsertEntry
  <2>2. th[t].index > 1 BY <1>3, <1>6, <1>7, <1>8
  <2> QED BY <1>1, <2>1, <2>2, SteadyRecorded DEF At, Steady
<1>9. CASE ~(n > Len(s)) /\ n \in DOMAIN list
  <2>1. ~Empty(o) BY <1>5, <1>9 DEF Empty
  <2>2. /\ (IF t = "tick" THEN Recorded(t) ELSE Ends(t)) /\ UNCHANGED <<file, order>>
    BY <1>2, <1>3, <1>4, <1>5, <1>9 DEF InsertEntry
  <2>3. CASE t = "tick" BY <1>1, <1>2, <2>1, <2>2, <2>3, SteadyRecorded DEF At, Steady
  <2>4. CASE t # "tick"
    <3>1. th' = [th EXCEPT ![t] = Idle] BY <2>2, <2>4 DEF Ends
    <3>2. PICK r : r = Idle OBVIOUS
    <3>3. ThreadIs(t, r) /\ LeadIs(t, r) BY <3>2, IdleIs
    <3>4. Waits(t, r) BY <1>2, <2>1, <3>2, Fields DEF Waits, Passed, Opens
    <3> QED BY <2>2, <3>1, <3>2, <3>3, <3>4, SameRows, Quiet DEF Shape, Steady
  <2> QED BY <2>3, <2>4
<1>10. CASE ~(n > Len(s)) /\ n \notin DOMAIN list
  <2>1. n \in DOMAIN s BY <1>6, <1>7, <1>10
  <2>2. PICK new : new = [i \in DOMAIN list \cup {n} |-> IF i = n THEN s[n] ELSE list[i]] OBVIOUS
  <2>3. PICK r : r = [order[o] EXCEPT !.list = new] OBVIOUS
  <2>4. PICK u : u = [th[t] EXCEPT !.index = n + 1] OBVIOUS
  <2>5. order' = [order EXCEPT ![o] = r] /\ th' = [th EXCEPT ![t] = u] /\ UNCHANGED file
    BY <1>2, <1>3, <1>4, <1>5, <1>10, <2>2, <2>3, <2>4 DEF InsertEntry
  <2>6. /\ r.pay = order[o].pay /\ r.known = order[o].known /\ r.list = new
        /\ r.row = order[o].row /\ r.hash = order[o].hash /\ r.acked = order[o].acked
        /\ r.status = order[o].status
    BY <1>6, <2>3, Fields DEF Shape, OrderShape
  <2>7. /\ u.pc = "insert" /\ u.index = n + 1 /\ u.order = o /\ u.list = s
        /\ u.content = th[t].content /\ u.first = th[t].first
    BY <1>1, <1>2, <1>4, <2>4, Fields DEF Shape, ThreadShape
  <2>8. /\ Grows /\ FileType' /\ order'[o] = r
        /\ \A q \in Orders \ {o} : /\ order'[q] = order[q] /\ OrderSound(q)'
                                   /\ RowsLead => RowIs(q)'
    BY <1>6, <2>5, <2>6, OrderWritten DEF Shape
  <2>9. OrderSound(o) BY <1>6 DEF CopySound
  <2>10. /\ IsFiniteSet(DOMAIN new) /\ DOMAIN new \subseteq Nat /\ DOMAIN new # {}
    <3>1. DOMAIN new = DOMAIN list \cup {n} BY <2>2
    <3>2. IsFiniteSet(DOMAIN list) /\ DOMAIN list \subseteq Nat BY <1>5, <2>9 DEF OrderSound
    <3> QED BY <1>6, <3>1, <3>2, FS_AddElement
  <2>11. \A i \in DOMAIN new : Good(o, new[i])'
    <3> TAKE i \in DOMAIN new
    <3>1. PICK w : w = new[i] OBVIOUS
    <3>2. Good(o, w)
      <4>1. CASE i = n BY <1>6, <2>1, <2>2, <3>1, <4>1 DEF Copies
      <4>2. CASE i # n BY <1>5, <2>2, <2>9, <3>1, <4>2 DEF OrderSound
      <4> QED BY <4>1, <4>2
    <3>3. Good(o, w)' BY <1>6, <2>8, <3>2, GoodStays
    <3> QED BY <3>1, <3>3
  <2>12. OrderSound(o)' BY <2>6, <2>8, <2>9, <2>10, <2>11 DEF OrderSound, Good
  <2>13. \A q \in Orders : OrderSound(q)' BY <2>8, <2>12
  <2>14. RowsLead => RowIs(o)' BY <1>6, <2>6, <2>8, RowStays
  <2>15. ThreadIs(t, u) BY <1>1, <1>2, <1>4, <1>6, <2>7 DEF ThreadIs, Working
  <2>16. ThreadIs(t, u)' BY <2>8, <2>15, ThreadStays
  <2>17. ASSUME RowsLead PROVE LeadIs(t, u)'
    <3>1. LeadIs(t, u) BY <1>1, <1>4, <2>7, <2>17 DEF RowsLead, LeadIs
    <3> QED BY <2>8, <2>15, <3>1, LeadStays
  <2>18. CopySound' /\ (RowsLead => RowsLead')
    BY <2>5, <2>8, <2>13, <2>14, <2>16, <2>17, Loud DEF Shape
  <2>19. ~Empty(o)' BY <2>6, <2>8, <2>10 DEF Empty
  <2>20. ASSUME ListsLead PROVE ListsLead'
    <3>1. \A q \in Orders \ {o} : order'[q] = order[q] BY <2>8
    <3>2. Written(o)' /\ Empty(o)' => \E v \in Threads : Opens(th'[v], o) BY <2>19
    <3> QED BY <1>2, <1>6, <2>5, <2>7, <2>20, <3>1, <3>2, ListsHoldAt DEF Shape
  <2> QED BY <2>18, <2>20 DEF Steady
<1> QED BY <1>8, <1>9, <1>10

\* The row of the chunk is written.
LEMMA SteadyUpsertRow ==
  ASSUME Shape, CopySound, NEW t \in Threads, UpsertRow(t)
  PROVE  Steady
<1>1. th[t].pc = "row" /\ ThreadIs(t, th[t]) BY DEF UpsertRow, At, CopySound
<1>2. PICK o : o = th[t].order OBVIOUS
<1>3. PICK w : w = th[t].first OBVIOUS
<1>4. o \in Orders /\ order[o].pay # 0 /\ w \in Workers /\ w # NoOne /\ t # "tick"
  BY <1>1, <1>2, <1>3, MarketAssumption DEF ThreadIs, Working
<1>5. PICK r : r = [order[o] EXCEPT !.row = w] OBVIOUS
<1>6. /\ r.pay = order[o].pay /\ r.known = order[o].known /\ r.list = order[o].list
      /\ r.row = w /\ r.hash = order[o].hash /\ r.acked = order[o].acked
      /\ r.status = order[o].status
  BY <1>4, <1>5, Fields DEF Shape, OrderShape
<1>7. order' = [order EXCEPT ![o] = r] /\ UNCHANGED file BY <1>2, <1>3, <1>5 DEF UpsertRow
<1>8. /\ Grows /\ FileType' /\ order'[o] = r
      /\ \A q \in Orders \ {o} : /\ order'[q] = order[q] /\ OrderSound(q)'
                                 /\ RowsLead => RowIs(q)'
  BY <1>4, <1>6, <1>7, OrderWritten DEF Shape
<1>9. OrderSound(o)'
  <2>1. OrderSound(o) BY <1>4 DEF CopySound
  <2> QED BY <1>4, <1>6, <1>7, <1>8, <2>1 DEF OrderSound, Good
<1>10. ASSUME RowsLead PROVE RowIs(o)'
  <2>1. Good(o, w) BY <1>1, <1>2, <1>3, <1>4, <1>10 DEF RowsLead, LeadIs
  <2>2. Good(o, w)' BY <1>4, <1>8, <2>1, GoodStays
  <2> QED BY <1>6, <1>8, <2>2 DEF RowIs, Good
<1>11. PICK u : u = [th[t] EXCEPT !.pc = "ack"] OBVIOUS
<1>12. th' = [th EXCEPT ![t] = u] BY <1>11 DEF UpsertRow, Step
<1>13. u.pc = "ack" /\ u.order = o BY <1>2, <1>11, Fields DEF Shape, ThreadShape
<1>14. ThreadIs(t, u)' BY <1>4, <1>6, <1>8, <1>13 DEF ThreadIs
<1>15. LeadIs(t, u)' BY <1>13 DEF LeadIs
<1>16. \A q \in Orders : OrderSound(q)' BY <1>8, <1>9
<1>17. CopySound' /\ (RowsLead => RowsLead')
  BY <1>8, <1>10, <1>12, <1>14, <1>15, <1>16, Loud DEF Shape
<1>18. ASSUME ListsLead PROVE ListsLead'
  <2>1. ASSUME Empty(o)' PROVE \E v \in Threads : Opens(th'[v], o)
    <3>1. Empty(o) BY <1>6, <1>8, <2>1 DEF Empty
    <3>2. Written(o) BY <1>1, <1>2 DEF Written, Passed
    <3>3. PICK v \in Threads : Opens(th[v], o) BY <1>4, <1>18, <3>1, <3>2 DEF ListsLead
    <3>4. v # t BY <1>1, <3>3 DEF Opens
    <3>5. th'[v] = th[v] BY <1>12, <3>4, OneThread DEF Shape
    <3> QED BY <3>3, <3>5
  <2>2. \A q \in Orders \ {o} : order'[q] = order[q] BY <1>8
  <2> QED BY <1>1, <1>4, <1>12, <1>13, <1>18, <2>1, <2>2, ListsHoldAt DEF Shape
<1> QED BY <1>17, <1>18 DEF Steady

\* The upload is acknowledged.
LEMMA SteadyAckUpload ==
  ASSUME Shape, CopySound, NEW t \in Threads, AckUpload(t)
  PROVE  Steady
<1>1. th[t].pc = "ack" /\ ThreadIs(t, th[t]) BY DEF AckUpload, At, CopySound
<1>2. PICK o : o = th[t].order OBVIOUS
<1>3. o \in Orders /\ order[o].pay # 0 /\ order[o].row # NoOne
  BY <1>1, <1>2 DEF ThreadIs, Working
<1>4. PICK r : r = [order[o] EXCEPT !.status = "uploading", !.acked = @ \cup {th[t].content}]
  OBVIOUS
<1>5. /\ r.pay = order[o].pay /\ r.known = order[o].known /\ r.list = order[o].list
      /\ r.row = order[o].row /\ r.hash = order[o].hash
  BY <1>3, <1>4, Fields DEF Shape, OrderShape
<1>6. order' = [order EXCEPT ![o] = r] /\ UNCHANGED file BY <1>2, <1>4 DEF AckUpload
<1>7. /\ Grows /\ FileType' /\ order'[o] = r
      /\ \A q \in Orders \ {o} : /\ order'[q] = order[q] /\ OrderSound(q)'
                                 /\ RowsLead => RowIs(q)'
  BY <1>3, <1>5, <1>6, OrderWritten DEF Shape
<1>8. OrderSound(o)'
  <2>1. OrderSound(o) BY <1>3 DEF CopySound
  <2> QED BY <1>3, <1>5, <1>6, <1>7, <2>1 DEF OrderSound, Good
<1>9. RowsLead => RowIs(o)' BY <1>3, <1>5, <1>7, RowStays
<1>10. th' = [th EXCEPT ![t] = Idle] BY DEF AckUpload, Ends
<1>11. PICK u : u = Idle OBVIOUS
<1>12. ThreadIs(t, u) /\ LeadIs(t, u) BY <1>11, IdleIs
<1>13. ThreadIs(t, u)' /\ LeadIs(t, u)' BY <1>7, <1>12, ThreadStays, LeadStays
<1>14. \A q \in Orders : OrderSound(q)' BY <1>7, <1>8
<1>15. CopySound' /\ (RowsLead => RowsLead')
  BY <1>7, <1>9, <1>10, <1>11, <1>13, <1>14, Loud DEF Shape
<1>16. Waits(t, u) BY <1>1, <1>11, Fields, Elsewhere
<1>17. \A q \in Orders : order'[q].list = order[q].list /\ order'[q].row = order[q].row
  BY <1>5, <1>7
<1>18. ListsLead => ListsLead' BY <1>10, <1>11, <1>16, <1>17, ListsHold DEF Shape
<1> QED BY <1>15, <1>18 DEF Steady

\* An order is inserted: nobody works on it yet.
LEMMA SteadyInsertOrder ==
  ASSUME Shape, CopySound, NEW t \in Threads, NEW a, InsertOrder(t, a)
  PROVE  Steady
<1>1. PICK o \in Ordered(0) : order' = [order EXCEPT ![o] = [NoOrder EXCEPT !.pay = th[t].pay,
                      !.status = "draft", !.token = TRUE, !.known = a]]
  BY DEF InsertOrder
<1>2. PICK r : r = [NoOrder EXCEPT !.pay = th[t].pay, !.status = "draft", !.token = TRUE,
                                   !.known = a]
  OBVIOUS
<1>3. o \in Orders /\ order[o].pay = 0 BY DEF Ordered
<1>4. r.pay # 0 /\ r.list = << >> /\ r.row = NoOne /\ r.acked = {}
  <2>1. Ordered(th[t].pay) = {} BY DEF InsertOrder, UniquePayment
  <2>2. th[t].pay # 0 BY <1>3, <2>1 DEF Ordered
  <2> QED BY <1>2, <2>2, Fields
<1>5. order' = [order EXCEPT ![o] = r] /\ UNCHANGED file BY <1>1, <1>2 DEF InsertOrder
<1>6. /\ Grows /\ FileType' /\ order'[o] = r
      /\ \A q \in Orders \ {o} : /\ order'[q] = order[q] /\ OrderSound(q)'
                                 /\ RowsLead => RowIs(q)'
  BY <1>3, <1>5, OrderWritten DEF Shape
<1>7. OrderSound(o)'
  <2>1. DOMAIN r.list = {} /\ IsFiniteSet(DOMAIN r.list) BY <1>4, FS_EmptySet
  <2> QED BY <1>4, <1>6, <2>1 DEF OrderSound
<1>8. RowIs(o)' BY <1>4, <1>6 DEF RowIs
<1>9. th' = [th EXCEPT ![t] = Idle] /\ th[t].pc = "insertOrder" BY DEF InsertOrder, Ends, At
<1>10. PICK u : u = Idle OBVIOUS
<1>11. ThreadIs(t, u) /\ LeadIs(t, u) BY <1>10, IdleIs
<1>12. ThreadIs(t, u)' /\ LeadIs(t, u)' BY <1>6, <1>11, ThreadStays, LeadStays
<1>13. \A q \in Orders : OrderSound(q)' BY <1>6, <1>7
<1>14. CopySound' /\ (RowsLead => RowsLead')
  BY <1>6, <1>8, <1>9, <1>10, <1>12, <1>13, Loud DEF Shape
<1>15. ASSUME ListsLead PROVE ListsLead'
  <2>1. ~Written(o)'
    <3>1. ASSUME NEW v \in Threads, Passed(th'[v], o) PROVE FALSE
      <4>1. v # t BY <1>9, <3>1, Fields, OneThread DEF Shape, Passed
      <4>2. Passed(th[v], o) BY <1>9, <3>1, <4>1, OneThread DEF Shape
      <4>3. Working(th[v]) /\ th[v].order = o BY <4>2 DEF Passed, Working
      <4> QED BY <1>3, <4>3, AtWork
    <3> QED BY <1>4, <1>6, <3>1 DEF Written, Passed
  <2>2. \A q \in Orders \ {o} : order'[q] = order[q] BY <1>6
  <2>3. u.pc = "idle" BY <1>10, Fields
  <2> QED BY <1>3, <1>9, <1>10, <1>15, <2>1, <2>2, <2>3, ListsHoldAt DEF Shape
<1> QED BY <1>14, <1>15 DEF Steady

\* A crash leaves the rows as they are.
LEMMA SteadyCrash ==
  ASSUME Shape, CopySound, Crash
  PROVE  CopySound' /\ (RowsLead => RowsLead')
<1>1. th' = [t \in Threads |-> Idle] /\ UNCHANGED <<order, file>> BY DEF Crash
<1>2. \A o \in Orders : RowsKept(o) BY <1>1, SameRows
<1>3. Grows BY <1>1 DEF Grows
<1>4. \A o \in Orders : OrderSound(o)' BY <1>2, <1>3, OrderStays
<1>5. FileType' BY <1>1 DEF FileType, CopySound
<1>6. ASSUME NEW t \in Threads PROVE ThreadIs(t, th[t])' /\ LeadIs(t, th[t])'
  <2>1. PICK u : u = Idle OBVIOUS
  <2>2. ThreadIs(t, u)' /\ LeadIs(t, u)' BY <1>3, <2>1, IdleIs, ThreadStays, LeadStays
  <2>3. th'[t] = u BY <1>1, <2>1
  <2> QED BY <2>2, <2>3 DEF ThreadIs, LeadIs, Working, Copies, Good, Names
<1>7. RowsLead => \A o \in Orders : RowIs(o)' BY <1>1, <1>3, RowStays
<1> QED BY <1>4, <1>5, <1>6, <1>7 DEF CopySound, RowsLead

\* So does a step of nobody.
LEMMA SteadyIdle ==
  ASSUME CopySound, UNCHANGED <<order, file, th>>
  PROVE  Steady
<1>1. FileType' BY DEF CopySound, FileType
<1>2. \A o \in Orders : OrderSound(o)' BY DEF CopySound, OrderSound, Good
<1>3. \A t \in Threads : ThreadIs(t, th[t])'
  <2>1. Grows BY DEF Grows
  <2> TAKE t \in Threads
  <2>2. PICK u : u = th[t] OBVIOUS
  <2>3. ThreadIs(t, u)' BY <2>1, <2>2, ThreadStays DEF CopySound
  <2> QED BY <2>2, <2>3 DEF ThreadIs, Working, Copies, Good
<1>4. RowsLead => RowsLead' BY DEF RowsLead, RowIs, LeadIs, Good, Names
<1>5. ListsLead => ListsLead' BY DEF ListsLead, Written, Passed, Opens, Empty
<1> QED BY <1>1, <1>2, <1>3, <1>4, <1>5 DEF Steady, CopySound

----------------------------------------------------------------------------
(* Every step, and what follows.                                            *)

\* Every step a thread takes on its own.
LEMMA SteadyThreadStep ==
  ASSUME Shape, CopySound, online \subseteq Workers, NEW t \in Threads, ThreadStep(t)
  PROVE  Steady /\ UNCHANGED <<online, faults, lost>>
<1>1. Steady
  BY SteadyCheckOrder, SteadyInsertOrder, SteadyRefuseOrder, SteadyPickWorkers, SteadyWriteCopy,
     SteadyAssign, SteadyDeleteList, SteadyInsertEntry, SteadyUpsertRow, SteadyAckUpload,
     SteadyStoreOrder, SteadyCancelOrder, SteadyReadList, SteadyCountHealthy, SteadyReadStatus,
     SteadySetHealth DEF ThreadStep, CreateOrder
<1>2. UNCHANGED <<online, faults, lost>>
  BY DEF ThreadStep, CheckOrder, CreateOrder, InsertOrder, RefuseOrder, PickWorkers,
     WriteCopy, AssignMarketChunk, DeleteList, InsertEntry, UpsertRow, AckUpload, StoreOrder,
     CancelOrder, ReadList, CountHealthy, ReadStatus, SetHealth, bounds
<1> QED BY <1>1, <1>2

\* A step keeps rows and lists, or it is a fault: one that leaves the rows good, one
\* that leaves the lists whole, or a lost file.
Faulty == faults' = faults + 1 /\ UNCHANGED <<online, lost>>
\* A step keeps all three facts, or it is the fault that may break one of them.
LEMMA Effects ==
  ASSUME Shape, CopySound, online \subseteq Workers, [Next]_vars
  PROVE  \/ Steady /\ UNCHANGED <<faults, lost>> /\ online' \subseteq Workers
         \/ Faulty /\ CopySound' /\ (RowsLead => RowsLead')
         \/ Faulty /\ CopySound' /\ (ListsLead => ListsLead')
         \/ faults' = faults + 1 /\ lost' = TRUE /\ UNCHANGED online
<1>1. CASE \E t \in Requests : ThreadStep(t)
  BY <1>1, SteadyThreadStep DEF Threads
<1>2. CASE \E t \in Requests : CreateAnswerLost(t)
  <2>1. PICK t \in Requests : CreateAnswerLost(t) BY <1>2
  <2>2. Steady BY <2>1, SteadyInsertOrder DEF CreateAnswerLost, Threads
  <2>3. Faulty BY <2>1 DEF CreateAnswerLost, InsertOrder, Fault, Faulty
  <2> QED BY <2>2, <2>3 DEF Steady
<1>3. CASE \E t \in Requests : WriteFails(t)
  <2>1. PICK t \in Requests : WriteFails(t) BY <1>3
  <2>2. CopySound' /\ (ListsLead => ListsLead') BY <2>1, SteadyWriteFails DEF Threads
  <2>3. Faulty BY <2>1 DEF WriteFails, Fault, Faulty
  <2> QED BY <2>2, <2>3
<1>4. CASE \E t \in Requests : HandlerFails(t)
  <2>1. PICK t \in Requests : HandlerFails(t) BY <1>4
  <2>2. CopySound' /\ (RowsLead => RowsLead')
    BY <2>1, SameRows, EndsSteady DEF HandlerFails, Threads, Shape
  <2>3. Faulty BY <2>1 DEF HandlerFails, Fault, Faulty
  <2> QED BY <2>2, <2>3
<1>5. CASE \E t \in Requests : \E k \in Keys : Order(t, k)
  BY <1>5, SteadyOrder DEF Order
<1>6. CASE \E t \in Requests : \E o \in Orders : \E c \in Contents : Upload(t, o, c)
  BY <1>6, SteadyUpload DEF Upload, bounds
<1>7. CASE \E t \in Requests : \E o \in Orders : Complete(t, o) \/ Cancel(t, o)
  BY <1>7, SteadyComplete, SteadyCancel DEF Complete, Cancel, bounds
<1>8. CASE TickStep
  <2>1. CASE ThreadStep("tick") BY <2>1, SteadyThreadStep DEF Threads
  <2>2. CASE \E o \in Orders : Tick(o) BY <2>2, SteadyTick DEF Tick, bounds
  <2>3. CASE Scan BY <2>3, SteadyScan DEF Scan, bounds
  <2>4. CASE PickSpare BY <2>4, SteadyPickSpare DEF PickSpare, bounds
  <2>5. CASE CopySpare BY <2>5, SteadyCopySpare DEF CopySpare, bounds
  <2> QED BY <1>8, <2>1, <2>2, <2>3, <2>4, <2>5 DEF TickStep
<1>9. CASE CopyFails
  <2>1. CopySound' /\ (RowsLead => RowsLead')
    BY <1>9, SteadyRecorded DEF CopyFails, Threads
  <2>2. Faulty BY <1>9 DEF CopyFails, Fault, Faulty
  <2> QED BY <2>1, <2>2
<1>10. CASE \E w \in Workers : Heartbeat(w)
  <2>1. UNCHANGED <<order, file, th, faults, lost>> /\ online' \subseteq Workers
    BY <1>10 DEF Heartbeat, bounds
  <2> QED BY <2>1, SteadyIdle
<1>11. CASE \E w \in Workers : \E o \in Orders : Lose(o, w)
  BY <1>11 DEF Lose, Fault
<1>12. CASE Crash
  <2>1. Faulty BY <1>12 DEF Crash, Fault, Faulty
  <2> QED BY <1>12, <2>1, SteadyCrash
<1>13. CASE UNCHANGED vars
  BY <1>13, SteadyIdle DEF vars
<1> QED
  BY <1>1, <1>2, <1>3, <1>4, <1>5, <1>6, <1>7, <1>8, <1>9, <1>10, <1>11, <1>12, <1>13 DEF Next

\* The records keep their fields.
LEMMA ShapeNext ==
  ASSUME Shape, [Next]_vars
  PROVE  Shape'
<1>1. Threaded /\ Ordering BY AboutNext
<1>2. \A t \in Threads : DOMAIN th'[t] = DOMAIN Idle
  BY <1>1 DEF Threaded, Kept, Ended, Came, Fresh
<1>3. \A o \in Orders : DOMAIN order'[o] = DOMAIN NoOrder
  BY <1>1 DEF Ordering, OrderKept, Inserted, Closed
<1> QED BY <1>1, <1>2, <1>3 DEF Shape, ThreadShape, OrderShape, Threaded, Ordering

\* Faults and the loss of a file are for good, and workers stay workers.
\* The counters only grow; the bounds of the environment stay in their types.
LEMMA BoundsNext ==
  ASSUME faults \in Nat, lost \in BOOLEAN, online \subseteq Workers, [Next]_vars
  PROVE  /\ faults' \in Nat /\ lost' \in BOOLEAN /\ online' \subseteq Workers
         /\ faults <= faults' /\ (lost => lost')
<1> DEFINE Same  == UNCHANGED <<online, faults, lost>>
           Fails == faults' = faults + 1 /\ UNCHANGED <<online, lost>>
           Beat  == UNCHANGED <<faults, lost>> /\ online' \subseteq Workers
           Loses == faults' = faults + 1 /\ lost' = TRUE /\ UNCHANGED online
<1>1. ASSUME NEW t, ThreadStep(t)
      PROVE  Same
  BY <1>1 DEF ThreadStep, CheckOrder, CreateOrder, InsertOrder, RefuseOrder, PickWorkers,
     WriteCopy, AssignMarketChunk, DeleteList, InsertEntry, UpsertRow, AckUpload, StoreOrder,
     CancelOrder, ReadList, CountHealthy, ReadStatus, SetHealth, bounds
<1>2. Same \/ Fails \/ Beat \/ Loses
  <2>1. CASE \E t \in Requests : ThreadStep(t) BY <1>1, <2>1
  <2>2. CASE \E t \in Requests : CreateAnswerLost(t) \/ WriteFails(t) \/ HandlerFails(t)
    BY <2>2 DEF CreateAnswerLost, InsertOrder, WriteFails, HandlerFails, Fault
  <2>3. CASE \E t \in Requests : \E k \in Keys : Order(t, k)
    BY <2>3 DEF Order, bounds
  <2>4. CASE \E t \in Requests : \E o \in Orders : \E c \in Contents : Upload(t, o, c)
    BY <2>4 DEF Upload, bounds
  <2>5. CASE \E t \in Requests : \E o \in Orders : Complete(t, o) \/ Cancel(t, o)
    BY <2>5 DEF Complete, Cancel, bounds
  <2>6. CASE TickStep
    BY <1>1, <2>6 DEF TickStep, Tick, Scan, PickSpare, CopySpare, bounds
  <2>7. CASE CopyFails \/ Crash BY <2>7 DEF CopyFails, Crash, Fault
  <2>8. CASE \E w \in Workers : Heartbeat(w)
    BY <2>8 DEF Heartbeat, bounds
  <2>9. CASE \E w \in Workers : \E o \in Orders : Lose(o, w)
    BY <2>9 DEF Lose, Fault
  <2>10. CASE UNCHANGED vars BY <2>10 DEF vars
  <2> HIDE DEF Same, Fails, Beat, Loses
  <2> QED BY <2>1, <2>2, <2>3, <2>4, <2>5, <2>6, <2>7, <2>8, <2>9, <2>10 DEF Next
<1>3. CASE Same BY <1>3
<1>4. CASE Fails BY <1>4
<1>5. CASE Beat BY <1>5
<1>6. CASE Loses BY <1>6
<1> QED BY <1>2, <1>3, <1>4, <1>5, <1>6

\* ReadInv holds at first.
LEMMA ReadInit ==
  ASSUME Init
  PROVE  ReadInv
<1>1. /\ th = [t \in Threads |-> Idle] /\ order = [o \in Orders |-> NoOrder]
      /\ file = [o \in Orders |-> [w \in Workers |-> Nothing]]
      /\ faults = 0 /\ lost = FALSE /\ online \subseteq Workers
  BY DEF Init
<1>2. Shape BY <1>1 DEF Shape, ThreadShape, OrderShape
<1>3. \A o \in Orders : OrderSound(o) /\ RowIs(o) /\ order[o].row = NoOne
  <2>1. IsFiniteSet(DOMAIN NoOrder.list) /\ DOMAIN NoOrder.list = {} BY Fields, FS_EmptySet
  <2> QED BY <1>1, <2>1, Fields DEF OrderSound, RowIs
<1>4. \A t \in Threads : ThreadIs(t, th[t]) /\ LeadIs(t, th[t])
  <2> TAKE t \in Threads
  <2>1. th[t] = Idle BY <1>1
  <2> QED BY <2>1, IdleIs
<1>5. FileType BY <1>1 DEF FileType
<1>6. ListsLead BY <1>1, <1>3, IdleIs DEF ListsLead, Written
<1> QED BY <1>1, <1>2, <1>3, <1>4, <1>5, <1>6 DEF ReadInv, CopySound, RowsLead

\* And every step keeps it.
LEMMA ReadNext ==
  ASSUME ReadInv, [Next]_vars
  PROVE  ReadInv'
<1>1. Shape' BY ShapeNext DEF ReadInv
<1>2. /\ faults' \in Nat /\ lost' \in BOOLEAN /\ online' \subseteq Workers
      /\ faults <= faults' /\ (lost => lost')
  BY BoundsNext DEF ReadInv
<1>3. ASSUME ~lost', faults' <= 1
      PROVE  /\ CopySound'
             /\ RowsLead' \/ ListsLead'
             /\ faults' = 0 => RowsLead' /\ ListsLead'
  <2>1. faults \in Nat BY DEF ReadInv
  <2>2. ~lost /\ faults <= 1 BY <1>2, <1>3, <2>1
  <2>3. /\ CopySound /\ (RowsLead \/ ListsLead) /\ (faults = 0 => RowsLead /\ ListsLead)
        /\ Shape /\ online \subseteq Workers
    BY <2>2 DEF ReadInv
  <2>4. CASE Steady /\ UNCHANGED <<faults, lost>> BY <2>3, <2>4 DEF Steady
  <2>5. CASE Faulty /\ CopySound' /\ (RowsLead => RowsLead')
    <3>1. faults = 0 /\ faults' = 1 BY <1>3, <2>1, <2>5 DEF Faulty
    <3> QED BY <2>3, <2>5, <3>1
  <2>6. CASE Faulty /\ CopySound' /\ (ListsLead => ListsLead')
    <3>1. faults = 0 /\ faults' = 1 BY <1>3, <2>1, <2>6 DEF Faulty
    <3> QED BY <2>3, <2>6, <3>1
  <2>7. CASE lost' = TRUE BY <1>3, <2>7
  <2> QED BY <2>3, <2>4, <2>5, <2>6, <2>7, Effects
<1> QED BY <1>1, <1>2, <1>3 DEF ReadInv

\* With one content, a good copy is one that can be restored.
LEMMA GoodIsOK ==
  ASSUME Cardinality(Contents) = 1, NEW o, NEW w, Good(o, w)
  PROVE  FileOK(o, w)
<1>1. PICK c : Contents = {c} BY FS_Singleton, MarketAssumption
<1> QED BY <1>1, MarketAssumption DEF Good, FileOK

\* It gives the property: the first listed worker of a chunk has a good copy.
LEMMA ReadSound ==
  ASSUME ReadInv
  PROVE  AckedIsReadable
<1> SUFFICES ASSUME NEW o \in Orders, order[o].acked # {}, Cardinality(Contents) = 1,
                    ~lost, faults <= 1, ~Rewriting(o)
             PROVE  \E w \in Names(Listed(o)) : FileOK(o, w)
  BY DEF AckedIsReadable
<1>1. CopySound /\ (RowsLead \/ ListsLead) BY DEF ReadInv
<1>2. order[o].row # NoOne BY <1>1 DEF CopySound, OrderSound
<1>3. /\ Listed(o) \in Seq(Workers) /\ Listed(o) # << >>
      /\ Empty(o) => Listed(o) = << order[o].row >>
      /\ ~Empty(o) => Copies(o, Listed(o))
  BY <1>1, <1>2, ListedIs
<1>4. 1 \in DOMAIN Listed(o) BY <1>3
<1>5. Good(o, Listed(o)[1])
  <2>1. CASE ~Empty(o) BY <1>3, <1>4, <2>1 DEF Copies
  <2>2. CASE Empty(o)
    <3>1. ~\E t \in Threads : Opens(th[t], o) BY DEF Rewriting, Opens, At
    <3>2. ~ListsLead BY <1>2, <2>2, <3>1 DEF ListsLead, Written
    <3>3. Good(o, order[o].row) BY <1>1, <1>2, <3>2 DEF RowsLead, RowIs
    <3>4. Listed(o)[1] = order[o].row BY <1>3, <2>2
    <3> QED BY <3>3, <3>4
  <2> QED BY <2>1, <2>2
<1>6. FileOK(o, Listed(o)[1]) BY <1>5, GoodIsOK
<1> QED BY <1>4, <1>6 DEF Names

\* AckedIsReadable for every instance: whatever uploads, repairs, completes and
\* cancels overlap, on however many workers and copies, an acknowledged chunk has a
\* listed good copy between the rewrites of its list, through any single failure.
THEOREM ReadableHolds == Spec => []AckedIsReadable
<1>1. Init => ReadInv BY ReadInit
<1>2. ReadInv /\ [Next]_vars => ReadInv' BY ReadNext
<1>3. ReadInv => AckedIsReadable BY ReadSound
<1> QED BY <1>1, <1>2, <1>3, PTL DEF Spec
=============================================================================
