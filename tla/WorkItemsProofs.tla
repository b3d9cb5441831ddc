-------------------------- MODULE WorkItemsProofs --------------------------
(***************************************************************************)
(* What holds of the work items for every number of items, workers,        *)
(* verifiers, leases, retries, stops and restarts.                         *)
(*                                                                         *)
(* Steps says what a step may do to an item, to a row of the replay queue, *)
(* to a handler, to a verifier, to the ticker and to the admin; there is   *)
(* one lemma per action that shows it.  The invariants are then proved     *)
(* from Steps alone, case by case.                                         *)
(***************************************************************************)
EXTENDS WorkItems, SumLemmas

----------------------------------------------------------------------------
(* Types.                                                                   *)

CampaignStatus == {"running", "paused", "completed", "cancelled"}
ThreadNames == {"tick", "admin"}
Ends == {"", "idle", "stalled", "old", "repair"}
Forcing == {"force", "forceRow", "forced"}

HandlerType ==
  [pc : {"idle", "undo", "takeover", "release", "forget", "recheck", "track", "stamp", "finish"},
   item : Items, lease : 0..scenario.leases, got : SUBSET LeaseNo,
   due : BOOLEAN, accepts : BOOLEAN]
VerifierType ==
  [pc : {"idle", "check", "cancel", "replay", "own", "commit", "progress", "close", "failed",
         "retry", "reject", "rejectItem"},
   item : Items, prev : 0..MaxRetries, err : {"", "busy", "fatal", "lost"}]
ThreadType ==
  [pc : Ends \cup Forcing \cup {"items", "rows", "revive", "reclaim", "churn"},
   next : Ends, hits : SUBSET (Items \X BOOLEAN)]

Rows == {i \in Items : queue[i].status # "none"}

ScenarioInv ==
  /\ scenario \in ScenarioType
  /\ campaign \in CampaignStatus
  /\ mem \in [Items -> SUBSET LeaseNo]
  /\ stops \in 0..scenario.stops /\ restarts \in 0..scenario.restarts

\* The last lease an item was given is the one it has, and nothing was proved
\* under a later one.  Only an item that is done has been decided on.
ItemInv ==
  /\ item \in [Items -> ItemType]
  /\ given \in [Items -> Seq(Workers)]
  /\ proved \in [Items -> SUBSET LeaseNo]
  /\ \A i \in Items :
       /\ item[i].lease = Len(given[i])
       /\ \A n \in proved[i] : n <= item[i].lease
       /\ item[i].status = "leased" =>
            item[i].lease > 0 /\ item[i].owner = given[i][item[i].lease]
       /\ item[i].status # "done" => item[i].pay = ""

\* Rows are numbered in the order they were made.
QueueInv ==
  /\ queue \in [Items -> RowType]
  /\ \A i \in Items : queue[i].id \in 0..Cardinality(Rows)
  /\ \A i \in Rows : queue[i].id # 0
  /\ \A i, j \in Items : queue[i].id = queue[j].id => i = j \/ queue[i].id = 0

\* Evidence is noted for a lease.
HandlerInv ==
  /\ hd \in [Handlers -> HandlerType]
  /\ \A h \in Handlers : hd[h].pc \in {"recheck", "track"} => hd[h].lease # 0

\* A verifier has a job, and retries one only below the limit.
VerifierInv ==
  /\ ver \in [Verifiers -> VerifierType]
  /\ \A v \in Verifiers :
       /\ ver[v].pc # "idle" => ver[v].item \in Rows
       /\ ver[v].pc = "retry" => ver[v].prev < MaxRetries

\* The ticker has items to end exactly while it ends them.
ThreadInv ==
  /\ th \in [ThreadNames -> ThreadType]
  /\ \A t \in ThreadNames : th[t].hits # {} <=> th[t].pc \in Forcing

TypeInv == ScenarioInv /\ ItemInv /\ QueueInv /\ HandlerInv /\ VerifierInv /\ ThreadInv

----------------------------------------------------------------------------
(* What a step does to an item i, whose record becomes r.                   *)

\* Nothing is decided.
Undecided(i, r) ==
  /\ r.ok = item[i].ok /\ r.pay = item[i].pay /\ r.how = item[i].how /\ r.due = item[i].due
SameLease(i, r) == r.lease = item[i].lease /\ r.vanished = item[i].vanished
SameHolder(i, r) == r.status = item[i].status /\ r.owner = item[i].owner

Quiet(i, r) ==
  /\ Undecided(i, r) /\ SameLease(i, r) /\ SameHolder(i, r)
  /\ r.proven = item[i].proven /\ r.by = item[i].by
LeasedBy(i, r) ==
  /\ \E h \in Handlers : hd[h].pc \in {"idle", "takeover"} /\ r.owner = WorkerOf[h]
  /\ item[i].status \in {"pending", "leased"} /\ r.status = "leased"
  /\ r.lease = item[i].lease + 1 /\ r.vanished = FALSE /\ r.proven = {}
  /\ Undecided(i, r)
GivenUp(i, r) ==
  /\ item[i].status = "leased" /\ r.status = "pending"
  /\ Undecided(i, r) /\ SameLease(i, r)
TakenBack(i, r) ==
  /\ th["tick"].pc = "reclaim"
  /\ item[i].status = "leased" /\ r.status = "pending"
  /\ Undecided(i, r) /\ r.lease = item[i].lease /\ r.proven = item[i].proven
Noted(i, r) ==
  /\ \E h \in Handlers : hd[h].pc = "idle" /\ Owned(i, WorkerOf[h])
  /\ Undecided(i, r) /\ SameLease(i, r) /\ SameHolder(i, r)
  /\ item[i].proven \subseteq r.proven
Stamped(i, r) ==
  /\ \E h \in Handlers : /\ hd[h].pc = "stamp" /\ hd[h].item = i /\ Owned(i, WorkerOf[h])
                         /\ r.proven = hd[h].got
  /\ Undecided(i, r) /\ SameLease(i, r) /\ SameHolder(i, r)
Finished(i, r) ==
  /\ \E h \in Handlers : /\ hd[h].pc = "finish" /\ hd[h].item = i /\ Owned(i, WorkerOf[h])
                         /\ r.due = hd[h].due /\ (r.pay = "floor" => hd[h].got = {})
  /\ r.status = "done" /\ r.how = "submit" /\ SameLease(i, r)
ToReplay(i, r) ==
  /\ item[i].status = "leased" /\ r.status = "replay_pending"
  /\ Undecided(i, r) /\ SameLease(i, r)
  /\ i \notin Rows => queue'[i].status \in Unfinished
Decided(i, r) ==
  /\ item[i].status = "replay_pending" /\ r.status = "done"
  /\ r.how \in {"replay", "rejected"} /\ r.pay # "floor"
  /\ SameLease(i, r) /\ r.proven = item[i].proven
Cancelled(i, r) ==
  /\ \/ campaign # "running"
     \/ \E v \in Verifiers : ver[v].pc = "cancel"
     \/ \E t \in ThreadNames : th[t].pc = "items"
  /\ item[i].status \in Open /\ r.status = "cancelled"
  /\ Undecided(i, r) /\ SameLease(i, r) /\ r.proven = item[i].proven
Revived(i, r) ==
  /\ \E t \in ThreadNames : th[t].pc = "revive"
  /\ item[i].status = "cancelled" /\ r.status = "pending"
  /\ Undecided(i, r) /\ SameLease(i, r) /\ r.proven = item[i].proven

\* The item the ticker ends next.
HitOf(S) == CHOOSE x \in S : \A y \in S : x[1] <= y[1]
Ended(i, r) ==
  /\ th["tick"].pc = "force" /\ HitOf(th["tick"].hits)[1] = i
  /\ item[i].status \in Open /\ r.status = "done" /\ r.how = "forced"
  /\ r.ok = HitOf(th["tick"].hits)[2] /\ r.pay = item[i].pay
  /\ SameLease(i, r) /\ r.proven = item[i].proven

ItemCase(i, r) ==
  \/ Quiet(i, r) \/ GivenUp(i, r) \/ TakenBack(i, r) \/ Noted(i, r) \/ Stamped(i, r)
  \/ Finished(i, r) \/ ToReplay(i, r) \/ Decided(i, r) \/ Cancelled(i, r) \/ Revived(i, r)
  \/ Ended(i, r)

\* Evidence is accepted for the lease the item has, and the row has it.
ProvedCase(i) ==
  \/ proved'[i] = proved[i]
  \/ /\ proved'[i] = proved[i] \cup {item[i].lease}
     /\ item[i].lease \in LeaseNo /\ item'[i].lease = item[i].lease
     /\ item[i].status = "leased" /\ item'[i].status = "leased"
     /\ item[i].lease \in item'[i].proven

ItemStep(i) ==
  /\ item'[i] \in ItemType
  /\ \/ ItemCase(i, item'[i]) /\ given'[i] = given[i] /\ ProvedCase(i)
     \/ /\ LeasedBy(i, item'[i]) /\ given'[i] = Append(given[i], item'[i].owner)
        /\ proved'[i] = proved[i]

ItemsStep ==
  /\ item' = [i \in Items |-> item'[i]] /\ given' = [i \in Items |-> given'[i]]
  /\ proved' = [i \in Items |-> proved'[i]]
  /\ \A i \in Items : ItemStep(i)

----------------------------------------------------------------------------
(* What a step does to a row, a handler, a verifier and a thread.           *)

Enqueued(i, r) ==
  /\ i \notin Rows /\ r.status = "pending" /\ r.id = 1 + Cardinality(Rows)
  /\ item'[i].status = "replay_pending"
RowCase(i, r) ==
  /\ r.id = queue[i].id
  /\ \/ r.status = queue[i].status
     \/ queue[i].status \in Unfinished /\ r.status \in Unfinished
     \/ /\ r.status = "done"
        /\ \E v \in Verifiers : ver[v].pc = "close" /\ ver[v].item = i
     \/ /\ r.status = "failed"
        /\ \E v \in Verifiers : /\ ver[v].pc = "reject" /\ ver[v].item = i
                                /\ ver'[v].pc = "rejectItem" /\ ver'[v].item = i
     \/ /\ queue[i].status \in Unfinished /\ r.status = "failed"
        /\ \/ \E t \in ThreadNames : th[t].pc = "rows"
           \/ th["tick"].pc = "forceRow" /\ HitOf(th["tick"].hits)[1] = i

\* At most one row is made.
QueueStep ==
  /\ queue' = [i \in Items |-> queue'[i]]
  /\ \A i \in Items : queue'[i] \in RowType
  /\ \/ \A i \in Items : RowCase(i, queue'[i])
     \/ \E i \in Items : /\ Enqueued(i, queue'[i])
                         /\ \A j \in Items \ {i} : RowCase(j, queue'[j])

Submitted(h) ==
  LET i == hd'[h].item
  IN /\ hd'[h].pc = "stamp" /\ UNCHANGED <<item, proved>>
     /\ hd'[h].got = Proven(i)
     /\ hd'[h].due => item[i].lease = hd'[h].lease /\ hd'[h].lease \in proved[i]
StampedBy(h) ==
  /\ hd[h].pc = "stamp" /\ hd'[h].pc = "finish" /\ hd'[h].item = hd[h].item
  /\ hd'[h].got = hd[h].got /\ hd'[h].due = hd[h].due
HandlerCase(h) ==
  \/ hd'[h] = hd[h]
  \/ hd'[h].pc \notin {"stamp", "finish"}
  \/ Submitted(h)
  \/ StampedBy(h)
HandlersStep ==
  /\ hd' \in [Handlers -> HandlerType]
  /\ \A h \in Handlers : hd'[h].pc \in {"recheck", "track"} => hd'[h].lease # 0
  /\ \A h \in Handlers : HandlerCase(h)

Rested(v) ==
  /\ ver'[v].pc = "idle"
  /\ restarts' # 0 \/ (ver[v].pc = "rejectItem" => item'[ver[v].item].status # "replay_pending")
Took(v) == ver'[v].pc = "check" /\ ver'[v].item \in Rows /\ ver[v].pc = "idle"
Moved(v) ==
  LET i == ver[v].item
      pc == ver'[v].pc
  IN /\ ver'[v].item = i /\ ver[v].pc \notin {"idle", "rejectItem"}
     /\ pc = "progress" => item'[i].status = "done"
     /\ pc = "close" => ver[v].pc = "progress" \/ item[i].status = "done"
     /\ pc = "cancel" => campaign # "running"
     /\ pc = "retry" => ver'[v].prev < MaxRetries
VerifiersStep ==
  /\ ver' \in [Verifiers -> VerifierType]
  /\ \A v \in Verifiers : ver'[v] = ver[v] \/ Rested(v) \/ Took(v) \/ Moved(v)

HitsStep ==
  LET hits == th["tick"].hits
      new == th'["tick"].hits
  IN \/ new \subseteq hits
     \/ \A x \in new : /\ x[2] = (item[x[1]].proven # {})
                       /\ item'[x[1]].proven = item[x[1]].proven
                       /\ item'[x[1]].vanished = item[x[1]].vanished
TickMoves ==
  LET pc == th["tick"].pc
      new == th'["tick"].pc
  IN /\ new = "items" => campaign' # "running"
     /\ new = "rows" => pc = "items" /\ \A i \in Items : item'[i].status \notin Open
     /\ new = "revive" => campaign = "running" /\ \E i \in Items : item[i].status = "cancelled"
     /\ new = "forceRow" => /\ th'["tick"].hits = th["tick"].hits
                            /\ item'[HitOf(th["tick"].hits)[1]].status = "done"
ThreadsStep ==
  /\ th' \in [ThreadNames -> ThreadType]
  /\ \A t \in ThreadNames : th'[t].hits # {} <=> th'[t].pc \in Forcing
  /\ th'["admin"] = th["admin"] \/ th["admin"].pc # "idle" \/ stops' # 0 \/ th'["admin"].pc = "idle"
  /\ th'["tick"] = th["tick"] \/ TickMoves
  /\ HitsStep

CampaignStep ==
  /\ scenario' = scenario
  /\ campaign' \in CampaignStatus
  /\ campaign' = "running" => campaign = "running" \/ stops' # 0
  /\ mem' \in [Items -> SUBSET LeaseNo]
  /\ stops' \in 0..scenario.stops /\ restarts' \in 0..scenario.restarts
  /\ stops' >= stops /\ restarts' >= restarts

Steps == ItemsStep /\ QueueStep /\ HandlersStep /\ VerifiersStep /\ ThreadsStep /\ CampaignStep

----------------------------------------------------------------------------
(* The invariants.                                                          *)

\* Evidence.  While an item is leased, and after its holder vanished, the row has
\* the evidence that was accepted for the lease; a submit that still has the lease
\* took all of it; the ticker's note of a vanished worker's item is up to date.
EvidenceInv ==
  /\ \A i \in Items :
       /\ item[i].vanished => item[i].status # "leased"
       /\ (item[i].status = "leased" \/ item[i].vanished) /\ item[i].lease \in proved[i] =>
            item[i].proven # {}
       /\ item[i].status = "done" /\ item[i].pay = "floor" => ~item[i].due
       /\ item[i].status = "done" /\ item[i].how = "forced" /\ item[i].vanished /\ ~item[i].ok =>
            item[i].lease \notin proved[i]
  /\ \A h \in Handlers :
       hd[h].pc \in {"stamp", "finish"} /\ Owned(hd[h].item, WorkerOf[h]) =>
         /\ hd[h].due => hd[h].got # {}
         /\ hd[h].pc = "stamp" => item[hd[h].item].proven \subseteq hd[h].got
  /\ \A x \in th["tick"].hits : item[x[1]].vanished => x[2] = (item[x[1]].proven # {})

\* Jobs.  While nobody stopped the campaign it only goes from running to not running;
\* an item that has a row has been submitted; a verifier that closes its job, and the
\* ticker that fails the row of an item it ended, find the item done.
JobInv ==
  stops = 0 /\ restarts = 0 =>
    /\ th["admin"].pc = "idle" /\ th["tick"].pc # "revive"
    /\ campaign = "running" =>
         /\ \A i \in Items : item[i].status # "cancelled"
         /\ th["tick"].pc \notin {"items", "rows"}
         /\ \A v \in Verifiers : ver[v].pc # "cancel"
    /\ th["tick"].pc = "rows" => \A i \in Items : item[i].status \notin Open
    /\ \A i \in Rows : item[i].status \in {"replay_pending", "done", "cancelled"}
    /\ \A v \in Verifiers : ver[v].pc \in {"progress", "close"} => item[ver[v].item].status = "done"
    /\ th["tick"].pc = "forceRow" => item[HitOf(th["tick"].hits)[1]].status = "done"
    /\ ReplayHasJob

----------------------------------------------------------------------------
(* The invariants follow from Steps.                                        *)

\* What the assumptions say of the constants.
LEMMA Constants ==
  /\ NItems \in Nat \ {0} /\ Items = 1..NItems /\ 1 \in Items /\ IsFiniteSet(Items)
  /\ Cardinality(Items) = NItems
  /\ WorkerOf \in [Handlers -> Workers] /\ NoOne \notin Workers /\ NoOne \notin Verifiers
  /\ MaxAttempts \in Nat /\ MaxRetries \in Nat /\ NearDone \in Nat
<1>1. NItems \in Nat \ {0} /\ Items = 1..NItems /\ 1 \in Items
  BY WorkItemsAssumption DEF Items
<1>2. IsFiniteSet(Items) /\ Cardinality(Items) = NItems
  BY <1>1, FS_Interval
<1> QED BY <1>1, <1>2, WorkItemsAssumption

\* Items keep their types, and the last lease stays the one that was given last.
LEMMA ItemsFromSteps ==
  ASSUME TypeInv, Steps
  PROVE  ItemInv'
<1>1. scenario' = scenario /\ scenario.leases \in Nat
  BY DEF Steps, CampaignStep, TypeInv, ScenarioInv, ScenarioType
<1>2. ItemType' = ItemType /\ LeaseNo' = LeaseNo BY <1>1 DEF ItemType, LeaseNo
<1> HIDE DEF ItemType, LeaseNo
<1>3. ASSUME NEW i \in Items
      PROVE  /\ item'[i] \in ItemType /\ given'[i] \in Seq(Workers) /\ proved'[i] \in SUBSET LeaseNo
             /\ item'[i].lease = Len(given'[i])
             /\ \A n \in proved'[i] : n <= item'[i].lease
             /\ item'[i].status = "leased" =>
                  item'[i].lease > 0 /\ item'[i].owner = given'[i][item'[i].lease]
             /\ item'[i].status # "done" => item'[i].pay = ""
  <2> DEFINE r == item'[i]
             s == given[i]
             n == item[i].lease
  <2>1. /\ s \in Seq(Workers) /\ proved[i] \in SUBSET LeaseNo
        /\ n = Len(s) /\ n \in Nat /\ \A m \in proved[i] : m <= n
        /\ item[i].status = "leased" => n > 0 /\ item[i].owner = s[n]
        /\ item[i].status # "done" => item[i].pay = ""
    <3>1. s \in Seq(Workers) /\ n = Len(s) BY DEF TypeInv, ItemInv
    <3>2. n \in Nat BY <3>1
    <3> QED BY <3>1, <3>2 DEF TypeInv, ItemInv
  <2>2. ItemStep(i) BY DEF Steps, ItemsStep
  <2>3. r \in ItemType BY <2>2 DEF ItemStep
  <2>4. LeaseNo \subseteq Nat BY <1>1 DEF LeaseNo
  <2>5. CASE ItemCase(i, r) /\ given'[i] = s /\ ProvedCase(i)
    <3>1. /\ r.lease = n
          /\ r.status = "leased" => item[i].status = "leased" /\ r.owner = item[i].owner
          /\ r.status # "done" => item[i].status # "done" /\ r.pay = item[i].pay
      BY <2>5 DEF ItemCase, Quiet, GivenUp, TakenBack, Noted, Stamped, Finished, ToReplay, Decided,
         Cancelled, Revived, Ended, Undecided, SameLease, SameHolder, Open
    <3>2. proved'[i] \in SUBSET LeaseNo /\ \A m \in proved'[i] : m <= n
      <4> DEFINE p == proved[i]
                 q == proved'[i]
      <4>1. q = p \/ (q = p \cup {n} /\ n \in LeaseNo) BY <2>5 DEF ProvedCase
      <4>2. p \in SUBSET LeaseNo /\ n \in Nat /\ \A m \in p : m <= n BY <2>1
      <4> HIDE DEF p, q, n
      <4> QED BY <4>1, <4>2 DEF q, n
    <3> HIDE DEF r, s, n
    <3> QED BY <2>1, <2>3, <2>5, <3>1, <3>2 DEF r, s, n
  <2>6. CASE LeasedBy(i, r) /\ given'[i] = Append(s, r.owner) /\ proved'[i] = proved[i]
    <3>1. r.lease = n + 1 /\ r.status = "leased" /\ r.pay = item[i].pay /\ item[i].status # "done"
      BY <2>6 DEF LeasedBy, Undecided
    <3>2. r.owner \in Workers
      BY <2>6, Constants DEF LeasedBy
    <3>3. /\ Append(s, r.owner) \in Seq(Workers) /\ Len(Append(s, r.owner)) = n + 1
          /\ Append(s, r.owner)[n + 1] = r.owner
      <4> DEFINE w == r.owner
      <4>1. w \in Workers /\ s \in Seq(Workers) /\ n = Len(s) BY <2>1, <3>2
      <4> HIDE DEF w, s, n
      <4>2. /\ Append(s, w) \in Seq(Workers) /\ Len(Append(s, w)) = n + 1
            /\ Append(s, w)[n + 1] = w
        BY <4>1
      <4> QED BY <4>2 DEF w
    <3>4. \A m \in proved[i] : m <= n + 1
      <4> DEFINE p == proved[i]
      <4>1. n \in Nat /\ p \in SUBSET Nat /\ \A m \in p : m <= n BY <2>1, <2>4
      <4> HIDE DEF p, n
      <4>2. \A m \in p : m <= n + 1 BY <4>1
      <4> QED BY <4>2 DEF p
    <3>5. n + 1 > 0
      <4>1. n \in Nat BY <2>1
      <4> HIDE DEF n
      <4> QED BY <4>1
    <3> HIDE DEF s, n, r
    <3>6. given'[i] \in Seq(Workers) /\ Len(given'[i]) = r.lease /\ r.owner = given'[i][r.lease]
      BY <2>6, <3>1, <3>3
    <3>7. (\A m \in proved'[i] : m <= r.lease) /\ proved'[i] \in SUBSET LeaseNo /\ r.lease > 0
      BY <2>1, <2>6, <3>1, <3>4, <3>5
    <3>8. r.pay = "" BY <2>1, <3>1
    <3> QED BY <2>3, <3>6, <3>7, <3>8 DEF r
  <2> QED BY <2>2, <2>5, <2>6 DEF ItemStep
<1>4. /\ item' \in [Items -> ItemType] /\ given' \in [Items -> Seq(Workers)]
      /\ proved' \in [Items -> SUBSET LeaseNo]
  BY <1>3 DEF Steps, ItemsStep
<1> QED BY <1>2, <1>3, <1>4 DEF ItemInv

\* A row stays, and what has no row has the number 0.
LEMMA RowsStay ==
  ASSUME TypeInv, Steps
  PROVE  Rows \subseteq Rows'
<1>1. \A i \in Rows : queue'[i].status # "none"
  BY DEF Steps, QueueStep, RowCase, Enqueued, Rows, Unfinished
<1> QED BY <1>1 DEF Rows

\* Rows keep their types and their ids stay unique.
LEMMA QueueFromSteps ==
  ASSUME TypeInv, Steps
  PROVE  QueueInv'
<1>1. queue' \in [Items -> RowType] BY DEF Steps, QueueStep
<1>2. IsFiniteSet(Items) /\ Rows \subseteq Items BY Constants DEF Rows
<1>3. IsFiniteSet(Rows) /\ Cardinality(Rows) \in Nat BY <1>2, FS_Subset, FS_CardinalityType
<1>4. /\ \A i \in Items : queue[i].id \in 0..Cardinality(Rows)
      /\ \A i \in Rows : queue[i].id # 0
      /\ \A i, j \in Items : queue[i].id = queue[j].id => i = j \/ queue[i].id = 0
  BY DEF TypeInv, QueueInv
<1>5. CASE \A i \in Items : RowCase(i, queue'[i])
  <2>1. \A i \in Items : queue'[i].id = queue[i].id BY <1>5 DEF RowCase
  <2>2. \A i \in Items \ Rows : queue'[i].status = "none"
    BY <1>5 DEF RowCase, Rows, Unfinished, TypeInv, VerifierInv
  <2>3. Rows' = Rows BY <2>2, RowsStay DEF Rows
  <2> DEFINE n == Cardinality(Rows)
  <2>4. Cardinality(Rows') = n BY <2>3
  <2>5. \A i \in Items : queue'[i].id \in 0..n BY <1>4, <2>1
  <2>6. \A i \in Rows' : queue'[i].id # 0 BY <1>2, <1>4, <2>1, <2>3
  <2>7. \A i, j \in Items : queue'[i].id = queue'[j].id => i = j \/ queue'[i].id = 0
    BY <1>4, <2>1
  <2> HIDE DEF n
  <2> QED BY <1>1, <2>4, <2>5, <2>6, <2>7 DEF QueueInv
<1>6. CASE \E i \in Items : /\ Enqueued(i, queue'[i])
                            /\ \A j \in Items \ {i} : RowCase(j, queue'[j])
  <2>1. PICK i \in Items : /\ Enqueued(i, queue'[i])
                           /\ \A j \in Items \ {i} : RowCase(j, queue'[j])
    BY <1>6
  <2> DEFINE n == Cardinality(Rows)
  <2>2. /\ i \notin Rows /\ queue'[i].status # "none" /\ queue'[i].id = n + 1
        /\ \A j \in Items \ {i} : queue'[j].id = queue[j].id
    BY <2>1, <1>3 DEF Enqueued, RowCase
  <2>3. \A j \in (Items \ {i}) \ Rows : queue'[j].status = "none"
    BY <2>1 DEF RowCase, Rows, Unfinished, TypeInv, VerifierInv
  <2>4. Rows' = Rows \cup {i} BY <2>2, <2>3, RowsStay DEF Rows
  <2>5. Cardinality(Rows') = n + 1 BY <2>2, <2>4, <1>3, FS_AddElement
  <2> HIDE DEF n
  <2>6. n \in Nat /\ \A j \in Items : queue[j].id \in 0..n BY <1>3, <1>4 DEF n
  <2>7. \A j \in Items : queue'[j].id \in 0..n + 1 BY <2>2, <2>6
  <2>8. \A j \in Rows' : queue'[j].id # 0 BY <2>2, <2>4, <2>6, <1>2, <1>4
  <2>9. \A j \in Items \ {i} : queue'[j].id # n + 1 BY <2>2, <2>6
  <2>10. \A j, k \in Items : queue'[j].id = queue'[k].id => j = k \/ queue'[j].id = 0
    BY <2>2, <2>9, <1>4
  <2> QED BY <1>1, <2>5, <2>7, <2>8, <2>10 DEF QueueInv
<1> QED BY <1>5, <1>6 DEF Steps, QueueStep

\* A step that is one of Steps keeps the types.
LEMMA TypeFromSteps ==
  ASSUME TypeInv, Steps
  PROVE  TypeInv'
<1>1. scenario' = scenario BY DEF Steps, CampaignStep
<1>2. LeaseNo' = LeaseNo /\ HandlerType' = HandlerType BY <1>1 DEF LeaseNo, HandlerType
<1>3. ScenarioInv' BY <1>1, <1>2 DEF Steps, CampaignStep, TypeInv, ScenarioInv
<1>4. HandlerInv' BY <1>2 DEF Steps, HandlersStep, HandlerInv
<1>5. ThreadInv' BY DEF Steps, ThreadsStep, ThreadInv
<1>6. VerifierInv'
  <2>1. ver' \in [Verifiers -> VerifierType] BY DEF Steps, VerifiersStep
  <2>2. ASSUME NEW v \in Verifiers
        PROVE  /\ ver'[v].pc # "idle" => ver'[v].item \in Rows'
               /\ ver'[v].pc = "retry" => ver'[v].prev < MaxRetries
    <3>1. ver'[v] = ver[v] \/ Rested(v) \/ Took(v) \/ Moved(v) BY DEF Steps, VerifiersStep
    <3> QED BY <3>1, RowsStay DEF Rested, Took, Moved, TypeInv, VerifierInv
  <2> QED BY <2>1, <2>2 DEF VerifierInv
<1> QED BY <1>3, <1>4, <1>5, <1>6, ItemsFromSteps, QueueFromSteps DEF TypeInv

\* A least hit is one of the hits.
LEMMA HitIsHit ==
  ASSUME NEW S \in SUBSET (Items \X BOOLEAN), S # {}
  PROVE  HitOf(S) \in S
<1> DEFINE T == {x[1] : x \in S}
<1>1. T \in SUBSET Nat /\ T # {} BY Constants
<1>2. PICK n \in T : \A m \in T : n <= m BY <1>1, LeastNumber
<1>3. PICK x \in S : n = x[1] BY <1>2
<1>4. \A y \in S : x[1] <= y[1] BY <1>2, <1>3
<1> QED BY <1>4 DEF HitOf

\* Every handler is another worker: a worker waits for the answer to a request
\* before it sends the next one.
WaitsForAnswers == \A h, k \in Handlers : WorkerOf[h] = WorkerOf[k] => h = k

\* A handler that is busy with a submit does not get the lease of its item.
LEMMA NotRegained ==
  ASSUME WaitsForAnswers, TypeInv, Steps, NEW h \in Handlers, NEW i \in Items,
         hd[h].pc \in {"stamp", "finish"},
         item'[i].status = "leased", item'[i].owner = WorkerOf[h]
  PROVE  /\ Owned(i, WorkerOf[h])
         /\ ~Noted(i, item'[i])
         /\ Quiet(i, item'[i]) \/ Stamped(i, item'[i])
<1>1. ItemStep(i) BY DEF Steps, ItemsStep
<1>2. ~LeasedBy(i, item'[i])
  BY DEF LeasedBy, WaitsForAnswers
<1>3. Quiet(i, item'[i]) \/ Noted(i, item'[i]) \/ Stamped(i, item'[i])
  BY <1>1, <1>2 DEF ItemStep, ItemCase, GivenUp, TakenBack, Finished, ToReplay, Decided,
     Cancelled, Revived, Ended
<1>4. Owned(i, WorkerOf[h])
  BY <1>3 DEF Quiet, Noted, Stamped, SameHolder, Owned
<1>5. ~Noted(i, item'[i])
  BY <1>4 DEF Noted, Owned, WaitsForAnswers
<1> QED BY <1>3, <1>4, <1>5

\* The item of a submit that holds the lease keeps its evidence.
LEMMA HandlerEvidence ==
  ASSUME WaitsForAnswers, TypeInv, EvidenceInv, Steps, NEW h \in Handlers,
         hd'[h].pc \in {"stamp", "finish"},
         item'[hd'[h].item].status = "leased", item'[hd'[h].item].owner = WorkerOf[h]
  PROVE  /\ hd'[h].due => hd'[h].got # {}
         /\ hd'[h].pc = "stamp" => item'[hd'[h].item].proven \subseteq hd'[h].got
<1> DEFINE i == hd'[h].item
<1>1. HandlerCase(h) /\ hd'[h] \in HandlerType BY DEF Steps, HandlersStep
<1>2. i \in Items BY <1>1 DEF HandlerType
<1>3. CASE hd'[h] = hd[h] \/ StampedBy(h)
  <2>1. /\ hd[h].pc \in {"stamp", "finish"} /\ hd[h].item = i
        /\ hd'[h].got = hd[h].got /\ hd'[h].due = hd[h].due
        /\ hd'[h].pc = "stamp" => hd[h].pc = "stamp"
    BY <1>3 DEF StampedBy
  <2>2. /\ Owned(i, WorkerOf[h])
        /\ Quiet(i, item'[i]) \/ Stamped(i, item'[i])
    BY <1>2, <2>1, NotRegained
  <2>3. /\ hd[h].due => hd[h].got # {}
        /\ hd[h].pc = "stamp" => item[i].proven \subseteq hd[h].got
    BY <2>1, <2>2 DEF EvidenceInv
  <2>4. Stamped(i, item'[i]) => item'[i].proven = hd[h].got
    BY <2>2 DEF Stamped, Owned, WaitsForAnswers
  <2>5. Quiet(i, item'[i]) => item'[i].proven = item[i].proven
    BY DEF Quiet
  <2> QED BY <2>1, <2>2, <2>3, <2>4, <2>5
<1>4. CASE Submitted(h)
  <2>1. /\ item' = item /\ hd'[h].got = Proven(i)
        /\ hd'[h].due => item[i].lease \in proved[i]
    BY <1>4 DEF Submitted
  <2>2. item[i].proven \subseteq hd'[h].got BY <2>1 DEF Proven
  <2>3. item[i].lease \in proved[i] => item[i].proven # {}
    BY <1>2, <2>1 DEF EvidenceInv
  <2> QED BY <2>1, <2>2, <2>3
<1> QED BY <1>1, <1>3, <1>4 DEF HandlerCase

\* What EvidenceInv says of the items.
LEMMA ItemEvidence ==
  ASSUME WaitsForAnswers, TypeInv, EvidenceInv, Steps, NEW i \in Items
  PROVE  /\ item'[i].vanished => item'[i].status # "leased"
         /\ (item'[i].status = "leased" \/ item'[i].vanished) /\ item'[i].lease \in proved'[i] =>
              item'[i].proven # {}
         /\ item'[i].status = "done" /\ item'[i].pay = "floor" => ~item'[i].due
         /\ item'[i].status = "done" /\ item'[i].how = "forced" /\ item'[i].vanished /\ ~item'[i].ok =>
              item'[i].lease \notin proved'[i]
<1> DEFINE r == item'[i]
           P == (r.status = "leased" \/ r.vanished) /\ r.lease \in proved'[i] => r.proven # {}
           D == r.status = "done" /\ r.pay = "floor" => ~r.due
           F == r.status = "done" /\ r.how = "forced" /\ r.vanished /\ ~r.ok =>
                  r.lease \notin proved'[i]
<1>1. ItemStep(i) BY DEF Steps, ItemsStep
<1>2. /\ item[i].vanished => item[i].status # "leased"
      /\ (item[i].status = "leased" \/ item[i].vanished) /\ item[i].lease \in proved[i] =>
           item[i].proven # {}
      /\ item[i].status = "done" /\ item[i].pay = "floor" => ~item[i].due
      /\ item[i].status = "done" /\ item[i].how = "forced" /\ item[i].vanished /\ ~item[i].ok =>
           item[i].lease \notin proved[i]
  BY DEF EvidenceInv
<1>3. /\ item[i].lease \in Nat /\ \A n \in proved[i] : n \in Nat /\ n <= item[i].lease
      /\ item[i].status # "done" => item[i].pay = ""
  <2>1. scenario.leases \in Nat BY DEF TypeInv, ScenarioInv, ScenarioType
  <2>2. item[i] \in ItemType /\ proved[i] \in SUBSET LeaseNo BY DEF TypeInv, ItemInv
  <2>3. item[i].lease \in 0..scenario.leases BY <2>2 DEF ItemType
  <2>4. item[i].lease \in Nat BY <2>1, <2>3
  <2>5. \A n \in proved[i] : n \in Nat BY <2>1, <2>2 DEF LeaseNo
  <2> QED BY <2>4, <2>5 DEF TypeInv, ItemInv
<1>4. CASE LeasedBy(i, r) /\ proved'[i] = proved[i]
  <2>1. item[i].lease + 1 \notin proved[i]
    <3> DEFINE n == item[i].lease
               p == proved[i]
    <3>1. n \in Nat /\ \A m \in p : m \in Nat /\ m <= n BY <1>3
    <3> HIDE DEF n, p
    <3>2. n + 1 \notin p BY <3>1
    <3> QED BY <3>2 DEF n, p
  <2> QED BY <1>4, <2>1 DEF LeasedBy
<1>5. CASE ItemCase(i, r) /\ ProvedCase(i)
  <2>1. CASE proved'[i] # proved[i]
    BY <1>2, <1>5, <2>1 DEF ProvedCase, ItemCase, Quiet, GivenUp, TakenBack, Noted, Stamped,
       Finished, ToReplay, Decided, Cancelled, Revived, Ended, SameLease, SameHolder, Undecided
  <2>2. CASE proved'[i] = proved[i]
    <3>1. CASE Quiet(i, r)
      BY <1>2, <2>2, <3>1 DEF Quiet, SameLease, SameHolder, Undecided
    <3>2. CASE GivenUp(i, r) \/ ToReplay(i, r)
      BY <1>2, <3>2 DEF GivenUp, ToReplay, SameLease
    <3>3. CASE TakenBack(i, r) \/ Noted(i, r)
      BY <1>2, <2>2, <3>3 DEF TakenBack, Noted, SameLease, SameHolder, Owned
    <3>4. CASE Stamped(i, r)
      <4>1. PICK h \in Handlers : /\ hd[h].pc = "stamp" /\ hd[h].item = i /\ Owned(i, WorkerOf[h])
                                  /\ r.proven = hd[h].got
        BY <3>4 DEF Stamped
      <4>2. item[i].proven \subseteq r.proven BY <4>1 DEF EvidenceInv
      <4> QED BY <1>2, <2>2, <3>4, <4>1, <4>2 DEF Stamped, SameLease, SameHolder, Owned
    <3>5. CASE Finished(i, r)
      <4>1. PICK h \in Handlers : /\ hd[h].pc = "finish" /\ hd[h].item = i /\ Owned(i, WorkerOf[h])
                                  /\ r.due = hd[h].due /\ (r.pay = "floor" => hd[h].got = {})
        BY <3>5 DEF Finished
      <4>2. hd[h].due => hd[h].got # {} BY <4>1 DEF EvidenceInv
      <4> QED BY <1>2, <3>5, <4>1, <4>2 DEF Finished, SameLease, Owned
    <3>6. CASE Cancelled(i, r) \/ Revived(i, r)
      BY <1>2, <2>2, <3>6 DEF Cancelled, Revived, SameLease
    <3>7. CASE Decided(i, r)
      BY <1>2, <2>2, <3>7 DEF Decided, SameLease
    <3>8. CASE Ended(i, r)
      <4> DEFINE x == HitOf(th["tick"].hits)
      <4>1. x \in th["tick"].hits
        <5>1. th["tick"].hits # {} /\ th["tick"].hits \in SUBSET (Items \X BOOLEAN)
          BY <3>8 DEF Ended, TypeInv, ThreadInv, ThreadType, ThreadNames, Forcing
        <5> QED BY <5>1, HitIsHit
      <4>2. x[1] = i /\ r.ok = x[2] /\ r.pay = item[i].pay /\ item[i].status # "done"
        BY <3>8 DEF Ended, Open
      <4>3. item[i].vanished => x[2] = (item[i].proven # {}) BY <4>1, <4>2 DEF EvidenceInv
      <4> HIDE DEF x
      <4> QED BY <1>2, <1>3, <2>2, <3>8, <4>2, <4>3 DEF Ended, SameLease
    <3> QED BY <1>5, <3>1, <3>2, <3>3, <3>4, <3>5, <3>6, <3>7, <3>8 DEF ItemCase
  <2> QED BY <2>1, <2>2
<1> QED BY <1>1, <1>4, <1>5 DEF ItemStep

\* A step that is one of Steps keeps the evidence.
LEMMA EvidenceFromSteps ==
  ASSUME WaitsForAnswers, TypeInv, EvidenceInv, Steps
  PROVE  EvidenceInv'
<1>1. ASSUME NEW x \in th'["tick"].hits, item'[x[1]].vanished
      PROVE  x[2] = (item'[x[1]].proven # {})
  <2> DEFINE i == x[1]
  <2>1. x \in Items \X BOOLEAN BY DEF Steps, ThreadsStep, ThreadType, ThreadNames
  <2>2. i \in Items BY <2>1
  <2>3. CASE x \in th["tick"].hits
    <3>1. th["tick"].pc # "reclaim"
      BY <2>3 DEF TypeInv, ThreadInv, ThreadNames, Forcing
    <3>2. item[i].vanished => x[2] = (item[i].proven # {}) BY <2>3 DEF EvidenceInv
    <3>3. item[i].vanished => item[i].status # "leased" BY <2>2 DEF EvidenceInv
    <3>4. ItemStep(i) BY <2>2 DEF Steps, ItemsStep
    <3>5. item[i].vanished /\ item'[i].proven = item[i].proven
      BY <1>1, <3>1, <3>3, <3>4 DEF ItemStep, LeasedBy, ItemCase, Quiet, GivenUp, TakenBack, Noted,
         Stamped, Finished, ToReplay, Decided, Cancelled, Revived, Ended, SameLease, Owned
    <3> QED BY <3>2, <3>5
  <2>4. CASE x \notin th["tick"].hits
    BY <2>4 DEF Steps, ThreadsStep, HitsStep
  <2> QED BY <2>3, <2>4
<1>2. ASSUME NEW h \in Handlers, hd'[h].pc \in {"stamp", "finish"},
             item'[hd'[h].item].status = "leased", item'[hd'[h].item].owner = WorkerOf[h]
      PROVE  /\ hd'[h].due => hd'[h].got # {}
             /\ hd'[h].pc = "stamp" => item'[hd'[h].item].proven \subseteq hd'[h].got
  BY <1>2, HandlerEvidence
<1> QED BY <1>1, <1>2, ItemEvidence DEF EvidenceInv, Owned

\* A step that is one of Steps keeps the jobs of the items that wait for one.
LEMMA JobFromSteps ==
  ASSUME TypeInv, JobInv, Steps
  PROVE  JobInv'
<1> SUFFICES ASSUME stops' = 0, restarts' = 0
             PROVE  /\ th'["admin"].pc = "idle" /\ th'["tick"].pc # "revive"
                    /\ campaign' = "running" =>
                         /\ \A i \in Items : item'[i].status # "cancelled"
                         /\ th'["tick"].pc \notin {"items", "rows"}
                         /\ \A v \in Verifiers : ver'[v].pc # "cancel"
                    /\ th'["tick"].pc = "rows" => \A i \in Items : item'[i].status \notin Open
                    /\ \A i \in Rows' : item'[i].status \in {"replay_pending", "done", "cancelled"}
                    /\ \A v \in Verifiers :
                         ver'[v].pc \in {"progress", "close"} => item'[ver'[v].item].status = "done"
                    /\ th'["tick"].pc = "forceRow" => item'[HitOf(th'["tick"].hits)[1]].status = "done"
                    /\ \A i \in Items : item'[i].status = "replay_pending" =>
                         \/ queue'[i].status \in Unfinished
                         \/ \E v \in Verifiers : ver'[v].item = i /\ ver'[v].pc = "rejectItem"
  BY DEF JobInv, ReplayHasJob, InStatus, VAt
<1>1. stops = 0 /\ restarts = 0
  BY DEF Steps, CampaignStep, TypeInv, ScenarioInv, ScenarioType
<1>2. /\ th["admin"].pc = "idle" /\ th["tick"].pc # "revive"
      /\ campaign = "running" =>
           /\ \A i \in Items : item[i].status # "cancelled"
           /\ th["tick"].pc \notin {"items", "rows"}
           /\ \A v \in Verifiers : ver[v].pc # "cancel"
      /\ th["tick"].pc = "rows" => \A i \in Items : item[i].status \notin Open
      /\ \A i \in Rows : item[i].status \in {"replay_pending", "done", "cancelled"}
      /\ \A v \in Verifiers : ver[v].pc \in {"progress", "close"} => item[ver[v].item].status = "done"
      /\ th["tick"].pc = "forceRow" => item[HitOf(th["tick"].hits)[1]].status = "done"
  BY <1>1 DEF JobInv
<1>3. \A i \in Items : item[i].status = "replay_pending" =>
        \/ queue[i].status \in Unfinished
        \/ \E v \in Verifiers : ver[v].item = i /\ ver[v].pc = "rejectItem"
  BY <1>1 DEF JobInv, ReplayHasJob, InStatus, VAt
<1>4. \A t \in ThreadNames : th[t].pc # "revive" BY <1>2 DEF ThreadNames
<1>5. campaign' = "running" => campaign = "running" BY DEF Steps, CampaignStep
<1>6. \A i \in Items : ItemStep(i) BY DEF Steps, ItemsStep
<1>7. th'["tick"] = th["tick"] \/ TickMoves BY DEF Steps, ThreadsStep
<1>8. \A v \in Verifiers : ver'[v] = ver[v] \/ Rested(v) \/ Took(v) \/ Moved(v)
  BY DEF Steps, VerifiersStep
\* A cancelled item and one that is done stay so, and none is opened.
<1>9. ASSUME NEW i \in Items
      PROVE  /\ item[i].status = "done" => item'[i].status = "done"
             /\ item[i].status \notin Open => item'[i].status \notin Open
             /\ item[i].status \in {"replay_pending", "done", "cancelled"} =>
                  item'[i].status \in {"replay_pending", "done", "cancelled"}
             /\ item'[i].status = "replay_pending" =>
                  item[i].status = "replay_pending" \/ ToReplay(i, item'[i])
             /\ item'[i].status = "cancelled" => item[i].status = "cancelled" \/ Cancelled(i, item'[i])
  <2>1. ~Revived(i, item'[i]) BY <1>4 DEF Revived
  <2>2. ItemStep(i) BY <1>6
  <2> QED
    BY <2>1, <2>2 DEF ItemStep, LeasedBy, ItemCase, Quiet, GivenUp, TakenBack, Noted,
       Stamped, Finished, ToReplay, Decided, Cancelled, Ended, SameHolder, Owned, Open
<1>10. th'["admin"].pc = "idle" BY <1>2 DEF Steps, ThreadsStep
<1>11. th'["tick"].pc # "revive" BY <1>2, <1>7 DEF TickMoves
<1>12. ASSUME campaign' = "running"
       PROVE  /\ \A i \in Items : item'[i].status # "cancelled"
              /\ th'["tick"].pc \notin {"items", "rows"}
              /\ \A v \in Verifiers : ver'[v].pc # "cancel"
  <2>1. campaign = "running" BY <1>5, <1>12
  <2>2. \A t \in ThreadNames : th[t].pc # "items" BY <1>2, <2>1 DEF ThreadNames
  <2>3. \A i \in Items : ~Cancelled(i, item'[i]) BY <1>2, <2>1, <2>2 DEF Cancelled
  <2>4. \A i \in Items : item'[i].status # "cancelled" BY <1>2, <1>9, <2>1, <2>3
  <2>5. th'["tick"].pc \notin {"items", "rows"} BY <1>2, <1>7, <1>12, <2>1 DEF TickMoves
  <2>6. \A v \in Verifiers : ver'[v].pc # "cancel"
    BY <1>2, <1>8, <2>1 DEF Rested, Took, Moved
  <2> QED BY <2>4, <2>5, <2>6
<1>13. th'["tick"].pc = "rows" => \A i \in Items : item'[i].status \notin Open
  BY <1>2, <1>7, <1>9 DEF TickMoves
<1>14. ASSUME NEW i \in Rows'
       PROVE  item'[i].status \in {"replay_pending", "done", "cancelled"}
  <2>1. i \in Items BY DEF Rows
  <2>2. CASE i \in Rows BY <1>2, <1>9, <2>1, <2>2
  <2>3. CASE i \notin Rows
    <3>1. queue[i].status = "none" /\ queue'[i].status # "none" BY <2>1, <2>3, <1>14 DEF Rows
    <3>2. \A v \in Verifiers : ver[v].pc # "idle" => ver[v].item # i
      BY <2>3 DEF TypeInv, VerifierInv
    <3>3. ~RowCase(i, queue'[i]) BY <3>1, <3>2 DEF RowCase, Unfinished
    <3>4. Enqueued(i, queue'[i]) BY <2>1, <3>3 DEF Steps, QueueStep
    <3> QED BY <3>4 DEF Enqueued
  <2> QED BY <2>2, <2>3
<1>15. ASSUME NEW v \in Verifiers, ver'[v].pc \in {"progress", "close"}
       PROVE  item'[ver'[v].item].status = "done"
  <2>1. ver[v].item \in Items BY DEF TypeInv, VerifierInv, VerifierType
  <2>2. CASE ver'[v] = ver[v] BY <1>2, <1>9, <1>15, <2>1, <2>2
  <2>3. CASE Moved(v) BY <1>2, <1>9, <1>15, <2>1, <2>3 DEF Moved
  <2> QED BY <1>8, <1>15, <2>2, <2>3 DEF Rested, Took
<1>16. ASSUME th'["tick"].pc = "forceRow"
       PROVE  item'[HitOf(th'["tick"].hits)[1]].status = "done"
  <2>1. CASE th'["tick"] = th["tick"]
    <3> DEFINE x == HitOf(th["tick"].hits)
    <3>1. th["tick"].hits # {} /\ th["tick"].hits \in SUBSET (Items \X BOOLEAN)
      BY <1>16, <2>1 DEF TypeInv, ThreadInv, ThreadType, ThreadNames, Forcing
    <3>2. x \in Items \X BOOLEAN BY <3>1, HitIsHit
    <3>3. x[1] \in Items /\ item[x[1]].status = "done" BY <1>2, <1>16, <2>1, <3>2
    <3>4. item'[x[1]].status = "done" BY <1>9, <3>3
    <3> QED BY <2>1, <3>4
  <2>2. CASE TickMoves BY <1>16, <2>2 DEF TickMoves
  <2> QED BY <1>7, <2>1, <2>2
<1>17. ASSUME NEW i \in Items, item'[i].status = "replay_pending"
       PROVE  \/ queue'[i].status \in Unfinished
              \/ \E v \in Verifiers : ver'[v].item = i /\ ver'[v].pc = "rejectItem"
  <2>1. CASE ToReplay(i, item'[i])
    <3>1. item[i].status = "leased" BY <2>1 DEF ToReplay
    <3>2. i \notin Rows BY <1>2, <3>1
    <3> QED BY <2>1, <3>2 DEF ToReplay
  <2>2. CASE item[i].status = "replay_pending"
    <3>1. CASE \E v \in Verifiers : ver[v].item = i /\ ver[v].pc = "rejectItem"
      <4>1. PICK v \in Verifiers : ver[v].item = i /\ ver[v].pc = "rejectItem" BY <3>1
      <4>2. ver'[v] = ver[v] BY <1>8, <1>17, <4>1 DEF Rested, Took, Moved
      <4> QED BY <4>1, <4>2
    <3>2. CASE queue[i].status \in Unfinished
      <4>1. i \in Rows BY <3>2 DEF Rows, Unfinished
      <4>2. RowCase(i, queue'[i]) BY <4>1 DEF Steps, QueueStep, Enqueued
      <4>3. ASSUME NEW v \in Verifiers, ver[v].pc = "close"
            PROVE  ver[v].item # i
        BY <1>2, <2>2, <4>3
      <4>4. th["tick"].pc # "rows" BY <1>2, <2>2 DEF Open
      <4>5. \A t \in ThreadNames : th[t].pc # "rows" BY <1>2, <4>4 DEF ThreadNames
      <4>6. ~(th["tick"].pc = "forceRow" /\ HitOf(th["tick"].hits)[1] = i) BY <1>2, <2>2
      <4> QED BY <3>2, <4>2, <4>3, <4>5, <4>6 DEF RowCase
    <3> QED BY <1>3, <2>2, <3>1, <3>2
  <2> QED BY <1>9, <1>17, <2>1, <2>2
<1> QED BY <1>10, <1>11, <1>12, <1>13, <1>14, <1>15, <1>16, <1>17

----------------------------------------------------------------------------
(* The initial states.                                                      *)

\* The initial records, so that they need not be expanded elsewhere.
LEMMA Values ==
  ASSUME scenario \in ScenarioType
  PROVE  /\ Pending \in ItemType /\ [Pending EXCEPT !.status = "done", !.ok = TRUE] \in ItemType
         /\ NoRow \in RowType /\ Free \in HandlerType /\ Waiting \in VerifierType
         /\ Resting \in ThreadType
         /\ NoRow.status = "none" /\ NoRow.id = 0
         /\ Free.pc = "idle" /\ Waiting.pc = "idle" /\ Resting.pc = "idle" /\ Resting.hits = {}
<1>1. scenario.leases \in Nat BY DEF ScenarioType
<1>2. Pending \in ItemType /\ [Pending EXCEPT !.status = "done", !.ok = TRUE] \in ItemType
  <2>1. 0 \in 0..scenario.leases /\ {} \in SUBSET LeaseNo BY <1>1
  <2>2. Pending \in ItemType BY <2>1 DEF Pending, ItemType, Open
  <2> HIDE DEF Pending
  <2>4. [Pending EXCEPT !.status = "done", !.ok = TRUE] \in ItemType
    BY <2>2 DEF ItemType
  <2> QED BY <2>2, <2>4
<1>3. NoRow \in RowType BY Constants DEF NoRow, RowType, Unfinished
<1>4. Free \in HandlerType BY <1>1, Constants DEF Free, HandlerType, LeaseNo
<1>5. Waiting \in VerifierType BY Constants DEF Waiting, VerifierType
<1>6. Resting \in ThreadType BY DEF Resting, ThreadType, Ends
<1> QED BY <1>2, <1>3, <1>4, <1>5, <1>6 DEF NoRow, Free, Waiting, Resting

\* The invariants hold of a coordinator that starts.
LEMMA InvInit ==
  ASSUME Init
  PROVE  TypeInv /\ EvidenceInv /\ JobInv
<1> DEFINE Done == [Pending EXCEPT !.status = "done", !.ok = TRUE]
<1>1. scenario \in ScenarioType BY WorkItemsAssumption DEF Init
<1>2. /\ Pending.status = "pending" /\ Pending.lease = 0 /\ Pending.vanished = FALSE
      /\ Pending.pay = "" /\ Pending.due = FALSE /\ Pending.how = ""
      /\ Done.status = "done" /\ Done.lease = 0 /\ Done.vanished = FALSE
      /\ Done.pay = "" /\ Done.due = FALSE /\ Done.how = ""
  BY DEF Pending
<1>3. Pending \in ItemType /\ Done \in ItemType BY <1>1, Values
<1> HIDE DEF Done
<1>4. item = [i \in Items |-> IF i <= DoneBefore THEN Done ELSE Pending] BY DEF Init, Done
<1>5. \A i \in Items : item[i] = Done \/ item[i] = Pending BY <1>4
<1>6. ItemInv
  <2>1. given = [i \in Items |-> << >>] /\ proved = [i \in Items |-> {}] BY DEF Init
  <2>2. item \in [Items -> ItemType] BY <1>3, <1>4
  <2>3. << >> \in Seq(Workers) /\ Len(<< >>) = 0 OBVIOUS
  <2>4. \A i \in Items : given[i] = << >> /\ proved[i] = {} BY <2>1
  <2>5. given \in [Items -> Seq(Workers)] /\ proved \in [Items -> SUBSET LeaseNo]
    BY <2>1, <2>3
  <2>6. \A i \in Items : item[i].lease = Len(given[i]) BY <1>2, <1>5, <2>3, <2>4
  <2>7. \A i \in Items : item[i].status # "leased" /\ item[i].pay = "" BY <1>2, <1>5
  <2> QED BY <2>2, <2>4, <2>5, <2>6, <2>7 DEF ItemInv
<1>7. queue = [i \in Items |-> NoRow] BY DEF Init
<1>8. Rows = {} BY <1>1, <1>7, Values DEF Rows
<1>9. QueueInv
  <2>1. Cardinality(Rows) = 0 BY <1>8, FS_EmptySet
  <2> QED BY <1>1, <1>7, <1>8, <2>1, Values DEF QueueInv
<1>10. hd = [h \in Handlers |-> Free] /\ ver = [v \in Verifiers |-> Waiting]
  BY DEF Init
<1>11. th = [t \in ThreadNames |-> Resting] BY DEF Init, ThreadNames
<1>12. HandlerInv /\ VerifierInv BY <1>1, <1>10, Values DEF HandlerInv, VerifierInv
<1>13. ThreadInv BY <1>1, <1>11, Values DEF ThreadInv, Forcing
<1>14. ScenarioInv
  BY <1>1 DEF Init, ScenarioInv, ScenarioType, CampaignStatus
<1>15. EvidenceInv
  <2>1. \A h \in Handlers : hd[h].pc = "idle" BY <1>1, <1>10, Values
  <2>2. th["tick"].hits = {} BY <1>1, <1>11, Values DEF ThreadNames
  <2> QED BY <1>2, <1>5, <2>1, <2>2 DEF EvidenceInv
<1>16. JobInv
  <2>1. \A v \in Verifiers : ver[v].pc = "idle" BY <1>1, <1>10, Values
  <2>2. th["tick"].pc = "idle" /\ th["admin"].pc = "idle" BY <1>1, <1>11, Values DEF ThreadNames
  <2>3. \A i \in Items : item[i].status \in {"done", "pending"} BY <1>2, <1>5
  <2> QED BY <1>8, <2>1, <2>2, <2>3 DEF JobInv, ReplayHasJob, InStatus
<1> QED BY <1>6, <1>9, <1>12, <1>13, <1>14, <1>15, <1>16 DEF TypeInv

----------------------------------------------------------------------------
(* The records that are written.                                            *)

\* The end of a lease.
LEMMA UnleasedSound ==
  ASSUME NEW r \in ItemType, NEW s \in Open \cup {"done", "cancelled"}
  PROVE  LET q == Unleased(r, s)
         IN /\ q \in ItemType /\ q.status = s /\ q.lease = r.lease
            /\ q.vanished = r.vanished /\ q.proven = r.proven /\ q.attempts = r.attempts
            /\ q.ok = r.ok /\ q.pay = r.pay /\ q.by = r.by /\ q.how = r.how /\ q.due = r.due
BY DEF Unleased, ItemType

----------------------------------------------------------------------------
(* Parts of Steps.                                                          *)

\* Parts that a step leaves alone.
LEMMA SameItems ==
  ASSUME TypeInv, UNCHANGED <<item, given, proved>>
  PROVE  ItemsStep
<1>1. \A i \in Items : Quiet(i, item[i]) BY DEF Quiet, Undecided, SameLease, SameHolder
<1> QED BY <1>1 DEF TypeInv, ItemInv, ItemsStep, ItemStep, ItemCase, ProvedCase

\* A step that leaves the replay queue alone.
LEMMA SameQueue ==
  ASSUME TypeInv, UNCHANGED queue
  PROVE  QueueStep
BY DEF TypeInv, QueueInv, QueueStep, RowCase

\* A step that leaves the handlers alone.
LEMMA SameHandlers ==
  ASSUME TypeInv, UNCHANGED hd
  PROVE  HandlersStep
BY DEF TypeInv, HandlerInv, HandlersStep, HandlerCase

\* A step that leaves the verifiers alone.
LEMMA SameVerifiers ==
  ASSUME TypeInv, UNCHANGED ver
  PROVE  VerifiersStep
BY DEF TypeInv, VerifierInv, VerifiersStep

\* A step that leaves the ticker and the admin alone.
LEMMA SameThreads ==
  ASSUME TypeInv, UNCHANGED th
  PROVE  ThreadsStep
BY DEF TypeInv, ThreadInv, ThreadsStep, HitsStep

\* A step that leaves the campaign and the counts of stops and restarts alone.
LEMMA SameCampaign ==
  ASSUME TypeInv, UNCHANGED <<scenario, campaign, stops, restarts>>,
         mem' \in [Items -> SUBSET LeaseNo]
  PROVE  CampaignStep
<1>1. /\ scenario \in ScenarioType /\ campaign \in CampaignStatus
      /\ stops \in 0..scenario.stops /\ restarts \in 0..scenario.restarts
  BY DEF TypeInv, ScenarioInv
<1>2. scenario.stops \in Nat /\ scenario.restarts \in Nat BY <1>1 DEF ScenarioType
<1>3. stops >= stops /\ restarts >= restarts BY <1>1, <1>2
<1> QED BY <1>1, <1>3 DEF CampaignStep

\* A step that leaves the evidence track alone.
LEMMA SameMemory ==
  ASSUME TypeInv, UNCHANGED mem
  PROVE  mem' \in [Items -> SUBSET LeaseNo]
BY DEF TypeInv, ScenarioInv

\* One item, row, handler, verifier or thread is written.
LEMMA OneItem ==
  ASSUME TypeInv, NEW i \in Items, NEW r \in ItemType, ItemCase(i, r),
         item' = [item EXCEPT ![i] = r], UNCHANGED <<given, proved>>
  PROVE  ItemsStep
<1>1. /\ item' = [j \in Items |-> item'[j]] /\ item'[i] = r
      /\ \A j \in Items \ {i} : item'[j] = item[j]
  BY DEF TypeInv, ItemInv
<1>2. ItemStep(i) BY <1>1 DEF ItemStep, ProvedCase
<1>3. ASSUME NEW j \in Items \ {i}
      PROVE  ItemStep(j)
  <2>1. Quiet(j, item'[j]) BY <1>1 DEF Quiet, Undecided, SameLease, SameHolder
  <2>2. item'[j] \in ItemType BY <1>1 DEF TypeInv, ItemInv
  <2> QED BY <2>1, <2>2 DEF ItemStep, ItemCase, ProvedCase
<1>4. given' = [j \in Items |-> given'[j]] /\ proved' = [j \in Items |-> proved'[j]]
  BY DEF TypeInv, ItemInv
<1> QED BY <1>1, <1>2, <1>3, <1>4 DEF ItemsStep

\* Every item is rewritten.
LEMMA AllItems ==
  ASSUME TypeInv, item' = [i \in Items |-> item'[i]], UNCHANGED <<given, proved>>,
         \A i \in Items : item'[i] \in ItemType /\ ItemCase(i, item'[i])
  PROVE  ItemsStep
<1>1. given' = [j \in Items |-> given'[j]] /\ proved' = [j \in Items |-> proved'[j]]
  BY DEF TypeInv, ItemInv
<1> QED BY <1>1 DEF ItemsStep, ItemStep, ProvedCase

\* A step that changes one row of the queue.
LEMMA OneRow ==
  ASSUME TypeInv, NEW i \in Items, NEW r \in RowType, RowCase(i, r) \/ Enqueued(i, r),
         queue' = [queue EXCEPT ![i] = r]
  PROVE  QueueStep
<1>1. /\ queue' = [j \in Items |-> queue'[j]] /\ queue'[i] = r
      /\ \A j \in Items \ {i} : queue'[j] = queue[j]
  BY DEF TypeInv, QueueInv
<1>2. \A j \in Items : queue'[j] \in RowType BY <1>1 DEF TypeInv, QueueInv
<1>3. \A j \in Items \ {i} : RowCase(j, queue'[j]) BY <1>1 DEF RowCase
<1> QED BY <1>1, <1>2, <1>3 DEF QueueStep

\* A step of one handler.
LEMMA OneHandler ==
  ASSUME TypeInv, NEW h \in Handlers, NEW r \in HandlerType,
         hd' = [hd EXCEPT ![h] = r], hd'[h] = r => HandlerCase(h),
         r.pc \in {"recheck", "track"} => r.lease # 0
  PROVE  HandlersStep
<1>1. hd' \in [Handlers -> HandlerType] /\ hd'[h] = r /\ \A k \in Handlers \ {h} : hd'[k] = hd[k]
  BY DEF TypeInv, HandlerInv
<1>2. \A k \in Handlers \ {h} : HandlerCase(k) BY <1>1 DEF HandlerCase
<1> QED BY <1>1, <1>2 DEF HandlersStep, TypeInv, HandlerInv

\* A step of one verifier.
LEMMA OneVerifier ==
  ASSUME TypeInv, NEW v \in Verifiers, NEW r \in VerifierType,
         ver' = [ver EXCEPT ![v] = r],
         ver'[v] = r => Rested(v) \/ Took(v) \/ Moved(v)
  PROVE  VerifiersStep
<1>1. ver' \in [Verifiers -> VerifierType] /\ ver'[v] = r
      /\ \A k \in Verifiers \ {v} : ver'[k] = ver[k]
  BY DEF TypeInv, VerifierInv
<1> QED BY <1>1 DEF VerifiersStep

\* A step of the ticker or of the admin.
LEMMA OneThread ==
  ASSUME TypeInv, NEW t \in ThreadNames, NEW r \in ThreadType,
         th' = [th EXCEPT ![t] = r], r.hits # {} <=> r.pc \in Forcing,
         t = "admin" => th["admin"].pc # "idle" \/ stops' # 0 \/ r.pc = "idle",
         t = "tick" /\ th'["tick"] = r => TickMoves /\ HitsStep
  PROVE  ThreadsStep
<1>1. th' \in [ThreadNames -> ThreadType] /\ th'[t] = r
      /\ \A k \in ThreadNames \ {t} : th'[k] = th[k]
  BY DEF TypeInv, ThreadInv
<1>2. \A k \in ThreadNames : th'[k].hits # {} <=> th'[k].pc \in Forcing
  BY <1>1 DEF TypeInv, ThreadInv
<1>3. CASE t = "tick"
  BY <1>1, <1>2, <1>3 DEF ThreadsStep, ThreadNames
<1>4. CASE t = "admin"
  <2>1. th'["tick"] = th["tick"] /\ th'["admin"] = r BY <1>1, <1>4 DEF ThreadNames
  <2>2. HitsStep BY <2>1 DEF HitsStep
  <2> QED BY <1>1, <1>2, <1>4, <2>1, <2>2 DEF ThreadsStep
<1> QED BY <1>3, <1>4 DEF ThreadNames

----------------------------------------------------------------------------
(* Small steps of handlers, verifiers and threads.                          *)

\* A handler that answers is idle.
LEMMA HandlerEnds ==
  ASSUME TypeInv, NEW h \in Handlers, HEnds(h)
  PROVE  HandlersStep
<1>1. Free \in HandlerType /\ Free.pc = "idle" BY Values DEF TypeInv, ScenarioInv
<1> QED BY <1>1, OneHandler DEF HEnds, HandlerCase

\* A request that is not a submit.
OtherRequests == {"undo", "takeover", "release", "forget", "recheck"}
\* The record of a request a handler begins.
LEMMA RequestSound ==
  ASSUME TypeInv, NEW pc \in OtherRequests \cup {"stamp"}, NEW i \in Items,
         NEW n \in 0..scenario.leases
  PROVE  LET r == Request(pc, i, n)
         IN /\ r \in HandlerType /\ r.pc = pc /\ r.item = i /\ r.lease = n
<1>1. Free \in HandlerType BY Values DEF TypeInv, ScenarioInv
<1> QED BY <1>1 DEF Request, HandlerType, OtherRequests

\* A handler that begins a request other than a submit.
LEMMA HandlerRequests ==
  ASSUME TypeInv, NEW h \in Handlers, NEW pc \in OtherRequests, NEW i \in Items,
         NEW n \in 0..scenario.leases, hd' = [hd EXCEPT ![h] = Request(pc, i, n)],
         pc = "recheck" => n # 0
  PROVE  HandlersStep
<1> DEFINE r == Request(pc, i, n)
<1>1. r \in HandlerType /\ r.pc = pc /\ r.lease = n BY RequestSound
<1> HIDE DEF r
<1>2. hd' = [hd EXCEPT ![h] = r] BY DEF r
<1> QED BY <1>1, <1>2, OneHandler DEF HandlerCase, OtherRequests

\* Zero, for no lease, is in the range of the leases.
LEMMA NoLease ==
  ASSUME TypeInv
  PROVE  0 \in 0..scenario.leases /\ scenario.leases \in Nat
BY DEF TypeInv, ScenarioInv, ScenarioType

\* The item a handler works on.
LEMMA HandlerItem ==
  ASSUME TypeInv, NEW h \in Handlers
  PROVE  hd[h] \in HandlerType /\ hd[h].item \in Items /\ WorkerOf[h] \in Workers
BY Constants DEF TypeInv, HandlerInv, HandlerType

\* A handler whose request fails goes on to give the item back.
LEMMA HandlerFails ==
  ASSUME TypeInv, NEW h \in Handlers, HFails(h)
  PROVE  HandlersStep
BY HandlerItem, HandlerRequests, NoLease DEF HFails, OtherRequests

\* The item a verifier works on.
LEMMA VerifierItem ==
  ASSUME TypeInv, NEW v \in Verifiers
  PROVE  ver[v] \in VerifierType /\ ver[v].item \in Items
BY DEF TypeInv, VerifierInv, VerifierType

\* A verifier that is through with its job.
LEMMA VerifierEnds ==
  ASSUME TypeInv, NEW v \in Verifiers, VEnds(v),
         ver[v].pc = "rejectItem" => item'[ver[v].item].status # "replay_pending"
  PROVE  VerifiersStep
<1>1. Waiting \in VerifierType /\ Waiting.pc = "idle" BY Values DEF TypeInv, ScenarioInv
<1> QED BY <1>1, OneVerifier DEF VEnds, Rested

\* The steps of a job in their order.
LEMMA VerifierSteps ==
  ASSUME TypeInv, NEW v \in Verifiers, ver[v].pc \notin {"idle", "rejectItem"},
         NEW pc \in {"replay", "cancel", "own", "commit", "progress", "close", "retry", "reject",
                     "rejectItem"},
         VStep(v, pc),
         pc = "progress" => item'[ver[v].item].status = "done",
         pc = "close" => ver[v].pc = "progress" \/ item[ver[v].item].status = "done",
         pc = "cancel" => campaign # "running",
         pc = "retry" => ver[v].prev < MaxRetries
  PROVE  VerifiersStep /\ ver'[v].pc = pc /\ ver'[v].item = ver[v].item
<1> DEFINE r == [ver[v] EXCEPT !.pc = pc]
<1>1. r \in VerifierType /\ r.pc = pc /\ r.item = ver[v].item /\ r.prev = ver[v].prev
  BY VerifierItem DEF VerifierType
<1>2. ver' = [ver EXCEPT ![v] = r] BY DEF VStep
<1> HIDE DEF r
<1>3. ver'[v] = r BY <1>2 DEF TypeInv, VerifierInv
<1>4. Moved(v) BY <1>1, <1>3 DEF Moved
<1> QED BY <1>1, <1>2, <1>3, <1>4, OneVerifier

\* A verifier that meets an error.
LEMMA VerifierFails ==
  ASSUME TypeInv, NEW v \in Verifiers, ver[v].pc \notin {"idle", "rejectItem"},
         NEW err \in {"busy", "fatal", "lost"}, VFails(v, err)
  PROVE  VerifiersStep
<1> DEFINE r == [ver[v] EXCEPT !.pc = "failed", !.err = err]
<1>1. r \in VerifierType /\ r.pc = "failed" /\ r.item = ver[v].item
  BY VerifierItem DEF VerifierType
<1>2. ver' = [ver EXCEPT ![v] = r] BY DEF VFails
<1> HIDE DEF r
<1>3. ver'[v] = r BY <1>2 DEF TypeInv, VerifierInv
<1>4. Moved(v) BY <1>1, <1>3 DEF Moved
<1> QED BY <1>1, <1>2, <1>4, OneVerifier

\* The records of the ticker and of the admin.
LEMMA ThreadRecord ==
  ASSUME TypeInv, NEW t \in ThreadNames
  PROVE  th[t] \in ThreadType /\ (th[t].hits # {} <=> th[t].pc \in Forcing)
BY DEF TypeInv, ThreadInv

\* A thread that has nothing more to do.
LEMMA ThreadEnds ==
  ASSUME TypeInv, NEW t \in ThreadNames, TEnds(t)
  PROVE  ThreadsStep
<1>1. Resting \in ThreadType /\ Resting.pc = "idle" /\ Resting.hits = {}
  BY Values DEF TypeInv, ScenarioInv
<1>2. th'["tick"] = Resting => TickMoves /\ HitsStep
  BY <1>1 DEF TickMoves, HitsStep
<1> QED BY <1>1, <1>2, OneThread DEF TEnds, Forcing

\* A thread that ends nothing by force goes on.
LEMMA ThreadGoes ==
  ASSUME TypeInv, NEW t \in ThreadNames,
         NEW pc \in Ends \cup {"items", "rows", "revive", "reclaim", "churn"},
         NEW r \in ThreadType, th' = [th EXCEPT ![t] = r], r.pc = pc,
         th[t].pc \notin Forcing, r.hits = th[t].hits,
         t = "admin" => th["admin"].pc # "idle" \/ stops' # 0,
         pc = "items" => campaign' # "running",
         pc = "rows" => th[t].pc = "items" /\ \A i \in Items : item'[i].status \notin Open,
         pc = "revive" => campaign = "running" /\ \E i \in Items : item[i].status = "cancelled"
  PROVE  ThreadsStep
<1>1. r.hits = {} /\ r.pc \notin Forcing BY ThreadRecord DEF Forcing, Ends
<1>2. t = "tick" /\ th'["tick"] = r => TickMoves /\ HitsStep
  BY <1>1 DEF TickMoves, HitsStep, Ends
<1> QED BY <1>1, <1>2, OneThread

\* A thread that goes on without items to end.
LEMMA ThreadSteps ==
  ASSUME TypeInv, NEW t \in ThreadNames,
         NEW pc \in Ends \cup {"items", "rows", "revive", "reclaim", "churn"},
         TStep(t, pc), th[t].pc \notin Forcing,
         t = "admin" => th["admin"].pc # "idle" \/ stops' # 0,
         pc = "items" => campaign' # "running",
         pc = "rows" => th[t].pc = "items" /\ \A i \in Items : item'[i].status \notin Open,
         pc = "revive" => campaign = "running" /\ \E i \in Items : item[i].status = "cancelled"
  PROVE  ThreadsStep
<1> DEFINE r == [th[t] EXCEPT !.pc = pc]
<1>1. r \in ThreadType /\ r.pc = pc /\ r.hits = th[t].hits BY ThreadRecord DEF ThreadType
<1>2. th' = [th EXCEPT ![t] = r] BY DEF TStep
<1> HIDE DEF r
<1> QED BY <1>1, <1>2, ThreadGoes

----------------------------------------------------------------------------
(* The actions of handlers.                                                 *)

\* The record of an item.
LEMMA ItemRecord ==
  ASSUME TypeInv, NEW i \in Items
  PROVE  /\ item[i] \in ItemType /\ item[i].status \in Open \cup {"done", "cancelled"}
         /\ item[i].lease \in 0..scenario.leases /\ item[i].attempts \in Nat
         /\ item[i].proven \in SUBSET LeaseNo
BY DEF TypeInv, ItemInv, ItemType

\* The lease of an item.
LEMMA LeaseSound ==
  ASSUME TypeInv, NEW i \in Items, NEW h \in Handlers, hd[h].pc \in {"idle", "takeover"},
         item[i].status \in {"pending", "leased"}, Lease(i, WorkerOf[h]), UNCHANGED proved
  PROVE  ItemsStep
<1> DEFINE w == WorkerOf[h]
           r == LeasedTo(i, w)
<1>1. w \in Workers BY HandlerItem
<1>2. item[i] \in ItemType BY ItemRecord
<1>3. item[i].lease + 1 \in 0..scenario.leases
  <2>1. item[i].lease < scenario.leases BY DEF Lease
  <2>2. item[i].lease \in 0..scenario.leases /\ scenario.leases \in Nat BY ItemRecord, NoLease
  <2> DEFINE n == item[i].lease
             m == scenario.leases
  <2>3. n < m /\ n \in 0..m /\ m \in Nat BY <2>1, <2>2
  <2> HIDE DEF n, m
  <2>4. n + 1 \in 0..m BY <2>3
  <2> QED BY <2>4 DEF n, m
<1>4. /\ r \in ItemType /\ r.status = "leased" /\ r.owner = w /\ r.lease = item[i].lease + 1
      /\ r.vanished = FALSE /\ r.proven = {} /\ Undecided(i, r)
  BY <1>1, <1>2, <1>3 DEF LeasedTo, ItemType, Open, Undecided
<1>5. item' = [item EXCEPT ![i] = r] /\ given' = [given EXCEPT ![i] = Append(@, w)]
  BY DEF Lease
<1> HIDE DEF r
<1>6. LeasedBy(i, r) BY <1>4 DEF LeasedBy
<1>7. /\ item' = [j \in Items |-> item'[j]] /\ item'[i] = r
      /\ \A j \in Items \ {i} : item'[j] = item[j]
      /\ given' = [j \in Items |-> given'[j]] /\ given'[i] = Append(given[i], w)
      /\ \A j \in Items \ {i} : given'[j] = given[j]
      /\ proved' = [j \in Items |-> proved'[j]]
  BY <1>5 DEF TypeInv, ItemInv
<1>8. ItemStep(i) BY <1>4, <1>6, <1>7 DEF ItemStep
<1>9. ASSUME NEW j \in Items \ {i}
      PROVE  ItemStep(j)
  <2>1. Quiet(j, item'[j]) BY <1>7 DEF Quiet, Undecided, SameLease, SameHolder
  <2>2. item'[j] \in ItemType BY <1>7, ItemRecord
  <2> QED BY <1>7, <2>1, <2>2 DEF ItemStep, ItemCase, ProvedCase
<1> QED BY <1>7, <1>8, <1>9 DEF ItemsStep

\* Claim leases a pending item.
LEMMA StepClaim ==
  ASSUME TypeInv, NEW h \in Handlers, Claim(h)
  PROVE  Steps
<1>1. PICK i \in InStatus({"pending"}) :
        /\ Lease(i, WorkerOf[h])
        /\ UNCHANGED hd \/ hd' = [hd EXCEPT ![h] = Request("undo", i, 0)]
  BY DEF Claim
<1>2. i \in Items /\ item[i].status = "pending" BY DEF InStatus
<1>3. hd[h].pc = "idle" BY DEF Claim, HAt
<1>4. ItemsStep BY <1>1, <1>2, <1>3, LeaseSound DEF Claim
<1>5. HandlersStep
  BY <1>1, <1>2, SameHandlers, HandlerRequests, NoLease DEF OtherRequests
<1> QED
  BY <1>4, <1>5, SameQueue, SameVerifiers, SameThreads, SameMemory, SameCampaign
  DEF Claim, bounds, Steps

\* UndoClaim gives the lease back.
LEMMA StepUndoClaim ==
  ASSUME TypeInv, NEW h \in Handlers, UndoClaim(h)
  PROVE  Steps
<1> DEFINE i == hd[h].item
           r == Unleased(item[i], "pending")
<1>1. i \in Items BY HandlerItem
<1>2. ItemsStep
  <2>1. CASE Owned(i, WorkerOf[h])
    <3>1. r \in ItemType /\ GivenUp(i, r)
      BY <1>1, <2>1, ItemRecord, UnleasedSound DEF GivenUp, Owned, Undecided, SameLease, Open
    <3>2. item' = [item EXCEPT ![i] = r] BY <2>1 DEF UndoClaim
    <3> HIDE DEF r
    <3> QED BY <1>1, <3>1, <3>2, OneItem DEF ItemCase, UndoClaim, history
  <2>2. CASE ~Owned(i, WorkerOf[h])
    BY <2>2, SameItems DEF UndoClaim, history
  <2> QED BY <2>1, <2>2
<1>3. HandlersStep BY HandlerEnds DEF UndoClaim
<1> QED
  BY <1>2, <1>3, SameQueue, SameVerifiers, SameThreads, SameMemory, SameCampaign
  DEF UndoClaim, bounds, Steps

\* Forgetting the track of an item.
LEMMA ClearedMemory ==
  ASSUME TypeInv, NEW i, mem' = [mem EXCEPT ![i] = {}]
  PROVE  mem' \in [Items -> SUBSET LeaseNo]
BY DEF TypeInv, ScenarioInv

\* ClaimExpired finds an item whose lease ran out.
LEMMA StepClaimExpired ==
  ASSUME TypeInv, NEW h \in Handlers, ClaimExpired(h)
  PROVE  Steps
<1>1. PICK i \in Expired : /\ mem' = [mem EXCEPT ![i] = {}]
                           /\ hd' = [hd EXCEPT ![h] = Request("takeover", i, 0)]
  BY DEF ClaimExpired
<1>2. i \in Items BY DEF Expired, InStatus
<1>3. HandlersStep BY <1>1, <1>2, HandlerRequests, NoLease DEF OtherRequests
<1>4. CampaignStep BY <1>1, ClearedMemory, SameCampaign DEF ClaimExpired, bounds
<1> QED
  BY <1>3, <1>4, SameItems, SameQueue, SameVerifiers, SameThreads
  DEF ClaimExpired, history, Steps

\* TakeOver leases an item whose lease ran out.
LEMMA StepTakeOver ==
  ASSUME TypeInv, NEW h \in Handlers, TakeOver(h)
  PROVE  Steps
<1> DEFINE i == hd[h].item
<1>1. i \in Items /\ hd[h].pc = "takeover" BY HandlerItem DEF TakeOver, HAt
<1>2. ItemsStep
  <2>1. CASE i \in Expired
    <3>1. item[i].status = "leased" BY <2>1 DEF Expired, InStatus
    <3> QED BY <1>1, <2>1, <3>1, LeaseSound DEF TakeOver
  <2>2. CASE i \notin Expired
    BY <2>2, SameItems DEF TakeOver
  <2> QED BY <2>1, <2>2
<1>3. HandlersStep BY HandlerEnds DEF TakeOver
<1> QED
  BY <1>2, <1>3, SameQueue, SameVerifiers, SameThreads, SameMemory, SameCampaign
  DEF TakeOver, bounds, Steps

\* A lease runs out.
LEMMA StepExpire ==
  ASSUME TypeInv, NEW i \in Items, Expire(i)
  PROVE  Steps
<1> DEFINE r == [item[i] EXCEPT !.expired = TRUE]
<1>1. r \in ItemType /\ Quiet(i, r)
  BY ItemRecord DEF ItemType, Quiet, Undecided, SameLease, SameHolder
<1>2. item' = [item EXCEPT ![i] = r] BY DEF Expire
<1> HIDE DEF r
<1>3. ItemsStep BY <1>1, <1>2, OneItem DEF ItemCase, Expire, history
<1> QED
  BY <1>3, SameHandlers, SameQueue, SameVerifiers, SameThreads, SameMemory, SameCampaign
  DEF Expire, bounds, Steps

\* The row of a lease that is given back.
LEMMA ReleaseSound ==
  ASSUME TypeInv, NEW h \in Handlers, NEW i \in Items, ReleaseRow(h, i), UNCHANGED <<given, proved>>
  PROVE  ItemsStep /\ HandlersStep
<1> DEFINE q == Unleased(item[i], "pending")
           r == [q EXCEPT !.proven = {}]
<1>1. q \in ItemType /\ GivenUp(i, q)
  BY ItemRecord, UnleasedSound DEF ReleaseRow, GivenUp, Owned, Undecided, SameLease, Open
<1> HIDE DEF q
<1>2. r \in ItemType /\ GivenUp(i, r)
  BY <1>1 DEF ItemType, GivenUp, Undecided, SameLease
<1>3. item' = [item EXCEPT ![i] = r] BY DEF ReleaseRow, q
<1> HIDE DEF r
<1>4. ItemsStep BY <1>2, <1>3, OneItem DEF ItemCase
<1>5. HandlersStep BY HandlerRequests, NoLease DEF ReleaseRow, OtherRequests
<1> QED BY <1>4, <1>5

\* Release begins to give an item back.
LEMMA StepRelease ==
  ASSUME TypeInv, NEW h \in Handlers, NEW i \in Items, Release(h, i)
  PROVE  Steps
BY ReleaseSound, SameQueue, SameVerifiers, SameThreads, SameMemory, SameCampaign
DEF Release, bounds, history, Steps

\* GiveBack makes the item pending.
LEMMA StepGiveBack ==
  ASSUME TypeInv, NEW h \in Handlers, GiveBack(h)
  PROVE  Steps
<1>1. hd[h].item \in Items BY HandlerItem
<1>2. ItemsStep /\ HandlersStep
  BY <1>1, ReleaseSound, HandlerEnds, SameItems DEF GiveBack, history
<1> QED
  BY <1>2, SameQueue, SameVerifiers, SameThreads, SameMemory, SameCampaign
  DEF GiveBack, bounds, Steps

\* Forget drops the track of an item that was given back.
LEMMA StepForget ==
  ASSUME TypeInv, NEW h \in Handlers, Forget(h)
  PROVE  Steps
<1>1. HandlersStep BY HandlerEnds DEF Forget
<1>2. CampaignStep BY ClearedMemory, SameCampaign DEF Forget, bounds
<1> QED
  BY <1>1, <1>2, SameItems, SameQueue, SameVerifiers, SameThreads
  DEF Forget, history, Steps

\* NoteRow notes evidence in the row.
LEMMA StepNoteRow ==
  ASSUME TypeInv, NEW h \in Handlers, NEW i \in Items, NEW n \in LeaseNo, NoteRow(h, i, n)
  PROVE  Steps
<1> DEFINE r == [item[i] EXCEPT !.proven = @ \cup {n}]
<1>1. /\ r \in ItemType /\ Undecided(i, r) /\ SameLease(i, r) /\ SameHolder(i, r)
      /\ r.proven = item[i].proven \cup {n}
  BY ItemRecord DEF ItemType, Undecided, SameLease, SameHolder
<1>2. Noted(i, r) BY <1>1 DEF Noted, NoteRow, HAt
<1>3. item' = [item EXCEPT ![i] = r] BY DEF NoteRow
<1> HIDE DEF r
<1>4. /\ item' = [j \in Items |-> item'[j]] /\ item'[i] = r
      /\ \A j \in Items \ {i} : item'[j] = item[j]
      /\ given' = given /\ given' = [j \in Items |-> given'[j]]
  BY <1>3 DEF NoteRow, TypeInv, ItemInv
<1>5. /\ proved' = [j \in Items |-> proved'[j]] /\ \A j \in Items \ {i} : proved'[j] = proved[j]
      /\ proved'[i] = proved[i] \/ (proved'[i] = proved[i] \cup {n} /\ item[i].lease = n)
  BY DEF NoteRow, TypeInv, ItemInv
<1>6. ProvedCase(i)
  BY <1>1, <1>4, <1>5 DEF ProvedCase, SameLease, SameHolder, NoteRow, Owned
<1>7. ItemStep(i) BY <1>1, <1>2, <1>4, <1>6 DEF ItemStep, ItemCase
<1>8. ASSUME NEW j \in Items \ {i}
      PROVE  ItemStep(j)
  <2>1. Quiet(j, item'[j]) BY <1>4 DEF Quiet, Undecided, SameLease, SameHolder
  <2>2. item'[j] \in ItemType BY <1>4, ItemRecord
  <2> QED BY <1>4, <1>5, <2>1, <2>2 DEF ItemStep, ItemCase, ProvedCase
<1>9. ItemsStep BY <1>4, <1>5, <1>7, <1>8 DEF ItemsStep
<1>10. n \in 0..scenario.leases /\ n # 0 BY NoLease DEF LeaseNo
<1>11. HandlersStep BY <1>10, HandlerRequests DEF NoteRow, OtherRequests
<1> QED
  BY <1>9, <1>11, SameQueue, SameVerifiers, SameThreads, SameMemory, SameCampaign
  DEF NoteRow, bounds, Steps

\* Recheck looks at the owner again.
LEMMA StepRecheck ==
  ASSUME TypeInv, NEW h \in Handlers, Recheck(h)
  PROVE  Steps
<1>1. HandlersStep
  <2>1. CASE HEnds(h) BY <2>1, HandlerEnds
  <2>2. CASE HStep(h, "track")
    <3> DEFINE r == [hd[h] EXCEPT !.pc = "track"]
    <3>1. r \in HandlerType /\ r.pc = "track" /\ r.lease = hd[h].lease
      BY HandlerItem DEF HandlerType
    <3>3. r.lease # 0 BY <3>1 DEF Recheck, HAt, TypeInv, HandlerInv
    <3>2. hd' = [hd EXCEPT ![h] = r] BY <2>2 DEF HStep
    <3> HIDE DEF r
    <3> QED BY <3>1, <3>2, <3>3, OneHandler DEF HandlerCase
  <2> QED BY <2>1, <2>2 DEF Recheck
<1> QED
  BY <1>1, SameItems, SameQueue, SameVerifiers, SameThreads, SameMemory, SameCampaign
  DEF Recheck, bounds, history, Steps

\* NoteTrack notes evidence in the track.
LEMMA StepNoteTrack ==
  ASSUME TypeInv, NEW h \in Handlers, NoteTrack(h)
  PROVE  Steps
<1>1. HandlersStep BY HandlerEnds DEF NoteTrack
<1>2. mem' \in [Items -> SUBSET LeaseNo]
  <2>1. hd[h].lease \in 0..scenario.leases /\ hd[h].lease # 0
    BY HandlerItem DEF HandlerType, NoteTrack, HAt, TypeInv, HandlerInv
  <2>2. hd[h].lease \in LeaseNo BY <2>1, NoLease DEF LeaseNo
  <2> HIDE DEF LeaseNo
  <2> QED BY <2>2 DEF NoteTrack, TypeInv, ScenarioInv
<1>3. CampaignStep BY <1>2, SameCampaign DEF NoteTrack, bounds
<1> QED
  BY <1>1, <1>3, SameItems, SameQueue, SameVerifiers, SameThreads
  DEF NoteTrack, history, Steps

\* SubmitEngine reads the evidence of an item.
LEMMA StepSubmitEngine ==
  ASSUME TypeInv, NEW h \in Handlers, NEW i \in Items, NEW n \in LeaseNo, SubmitEngine(h, i, n)
  PROVE  Steps
<1> DEFINE q == Request("stamp", i, n)
           g == Proven(i)
           d == item[i].lease = n /\ n \in proved[i]
           r == [q EXCEPT !.got = g, !.due = d]
<1>1. n \in 0..scenario.leases BY NoLease DEF LeaseNo
<1>2. q \in HandlerType /\ q.pc = "stamp" /\ q.item = i /\ q.lease = n
  BY <1>1, RequestSound
<1>3. g \in SUBSET LeaseNo /\ d \in BOOLEAN
  BY ItemRecord DEF Proven, TypeInv, ScenarioInv
<1> HIDE DEF q, g, d
<1>4. /\ r \in HandlerType /\ r.pc = "stamp" /\ r.item = i /\ r.lease = n
      /\ r.got = g /\ r.due = d
  BY <1>2, <1>3 DEF HandlerType
<1>5. hd' = [hd EXCEPT ![h] = r] BY DEF SubmitEngine, q, g, d
<1> HIDE DEF r
<1>6. hd'[h] = r => Submitted(h)
  BY <1>4 DEF Submitted, SubmitEngine, history, g, d
<1>7. HandlersStep BY <1>4, <1>5, <1>6, OneHandler DEF HandlerCase
<1>8. CampaignStep BY ClearedMemory, SameCampaign DEF SubmitEngine, bounds
<1> QED
  BY <1>7, <1>8, SameItems, SameQueue, SameVerifiers, SameThreads
  DEF SubmitEngine, history, Steps

\* Stamp writes the evidence into the row.
LEMMA StepStamp ==
  ASSUME TypeInv, NEW h \in Handlers, Stamp(h)
  PROVE  Steps
<1> DEFINE i == hd[h].item
           q == [item[i] EXCEPT !.proven = hd[h].got]
           a == campaign # "cancelled"
           r == [hd[h] EXCEPT !.pc = "finish", !.accepts = a]
<1>1. i \in Items /\ hd[h] \in HandlerType /\ hd[h].got \in SUBSET LeaseNo
  BY HandlerItem DEF HandlerType
<1>2. ItemsStep
  <2>1. CASE Owned(i, WorkerOf[h])
    <3>1. /\ q \in ItemType /\ Undecided(i, q) /\ SameLease(i, q) /\ SameHolder(i, q)
          /\ q.proven = hd[h].got
      BY <1>1, ItemRecord DEF ItemType, Undecided, SameLease, SameHolder
    <3>2. item' = [item EXCEPT ![i] = q] BY <2>1 DEF Stamp
    <3> HIDE DEF q
    <3>3. Stamped(i, q) BY <2>1, <3>1 DEF Stamped, Stamp, HAt
    <3> QED BY <1>1, <3>1, <3>2, <3>3, OneItem DEF ItemCase, Stamp, history
  <2>2. CASE ~Owned(i, WorkerOf[h])
    BY <2>2, SameItems DEF Stamp, history
  <2> QED BY <2>1, <2>2
<1>3. HandlersStep
  <2>1. a \in BOOLEAN OBVIOUS
  <2> HIDE DEF a
  <2>2. /\ r \in HandlerType /\ r.pc = "finish" /\ r.item = i
        /\ r.got = hd[h].got /\ r.due = hd[h].due
    BY <1>1, <2>1 DEF HandlerType
  <2>3. hd' = [hd EXCEPT ![h] = r] BY DEF Stamp, a
  <2> HIDE DEF r
  <2>4. hd'[h] = r => StampedBy(h) BY <2>2 DEF StampedBy, Stamp, HAt
  <2> QED BY <2>2, <2>3, <2>4, OneHandler DEF HandlerCase
<1> QED
  BY <1>2, <1>3, SameQueue, SameVerifiers, SameThreads, SameMemory, SameCampaign
  DEF Stamp, bounds, Steps

\* The progress of the campaign: it is completed or left as it is.
LEMMA ProgressSound ==
  ASSUME TypeInv, Progress, UNCHANGED <<scenario, mem, stops, restarts>>
  PROVE  CampaignStep
<1>1. campaign' = "completed" \/ campaign' = campaign BY DEF Progress
<1>2. /\ scenario \in ScenarioType /\ campaign \in CampaignStatus
      /\ stops \in 0..scenario.stops /\ restarts \in 0..scenario.restarts
      /\ mem \in [Items -> SUBSET LeaseNo]
  BY DEF TypeInv, ScenarioInv
<1>3. scenario.stops \in Nat /\ scenario.restarts \in Nat BY <1>2 DEF ScenarioType
<1>4. stops >= stops /\ restarts >= restarts BY <1>2, <1>3
<1> QED BY <1>1, <1>2, <1>4 DEF CampaignStep, CampaignStatus

\* Finish decides an item.
LEMMA StepFinish ==
  ASSUME TypeInv, NEW h \in Handlers, Finish(h)
  PROVE  Steps
<1> DEFINE i == hd[h].item
<1>1. i \in Items /\ hd[h] \in HandlerType BY HandlerItem
<1>2. ItemsStep /\ HandlersStep
  <2>1. CASE MayFinish(h)
    <3>1. PICK clean \in BOOLEAN :
            item' = [item EXCEPT ![i] = FinishedItem(h, item[i], clean)]
      BY <2>1 DEF Finish
    <3> DEFINE q == Unleased(item[i], "done")
               p == EnginePay(h, clean)
               n == hd[h].lease
               d == hd[h].due
               a == q.attempts + 1
               r == [q EXCEPT !.attempts = @ + 1, !.ok = clean, !.pay = p, !.by = n,
                              !.how = "submit", !.due = d]
               z == [q EXCEPT !.attempts = a, !.ok = clean, !.pay = p, !.by = n,
                              !.how = "submit", !.due = d]
    <3>2. /\ q \in ItemType /\ q.status = "done" /\ SameLease(i, q) /\ q.attempts = item[i].attempts
      BY <1>1, ItemRecord, UnleasedSound DEF SameLease
    <3>3. /\ p \in {"", "floor", "full"} /\ (p = "floor" => hd[h].got = {})
      BY DEF EnginePay
    <3>4. n \in 0..scenario.leases /\ d \in BOOLEAN BY <1>1 DEF HandlerType
    <3>5. a \in Nat BY <1>1, <3>2, ItemRecord
    <3>6. item' = [item EXCEPT ![i] = z]
      <4>1. FinishedItem(h, item[i], clean) = r BY DEF FinishedItem
      <4>2. r = z OBVIOUS
      <4> HIDE DEF r, z
      <4> QED BY <3>1, <4>1, <4>2
    <3> HIDE DEF q, p, n, a, d
    <3>7. /\ z \in ItemType /\ z.status = "done" /\ z.lease = q.lease /\ z.vanished = q.vanished
          /\ z.how = "submit" /\ z.due = d /\ z.pay = p
      <4>1. z \in ItemType BY <3>2, <3>3, <3>4, <3>5, ZenonT(40) DEF ItemType
      <4>2. /\ z.status = "done" /\ z.lease = q.lease /\ z.vanished = q.vanished
            /\ z.how = "submit" /\ z.due = d /\ z.pay = p
        BY <3>2 DEF ItemType
      <4> QED BY <4>1, <4>2
    <3> HIDE DEF z
    <3>8. Finished(i, z)
      BY <2>1, <3>2, <3>3, <3>7 DEF Finished, MayFinish, Finish, HAt, SameLease, d
    <3>9. ItemsStep BY <1>1, <3>6, <3>7, <3>8, OneItem DEF ItemCase, Finish, history
    <3> QED BY <2>1, <3>9, HandlerEnds DEF Finish
  <2>2. CASE ~MayFinish(h)
    BY <2>2, SameItems, HandlerEnds, HandlerFails DEF Finish, history
  <2> QED BY <2>1, <2>2
<1>3. CampaignStep BY ProgressSound DEF Finish, bounds
<1> QED
  BY <1>2, <1>3, SameQueue, SameVerifiers, SameThreads DEF Finish, Steps

\* SubmitFails gives a failed item back.
LEMMA StepSubmitFails ==
  ASSUME TypeInv, NEW h \in Handlers, SubmitFails(h)
  PROVE  Steps
BY HandlerFails, HandlerEnds, SameItems, SameQueue, SameVerifiers, SameThreads, SameMemory,
   SameCampaign
DEF SubmitFails, bounds, history, Steps

\* The row of a submitted item.
LEMMA EnsuredSound ==
  ASSUME TypeInv, NEW i \in Items, NEW w \in Workers, item'[i].status = "replay_pending"
  PROVE  LET r == EnsuredRow(i, w)
         IN /\ r \in RowType
            /\ RowCase(i, r) \/ Enqueued(i, r)
            /\ i \notin Rows => r.status \in Unfinished
<1> DEFINE r == EnsuredRow(i, w)
<1>1. queue[i] \in RowType BY DEF TypeInv, QueueInv
<1>2. CASE i \in Rows
  <2> DEFINE n == IF queue[i].status \in {"done", "failed"} THEN queue[i].retries ELSE 0
             q == queue[i]
             z == [q EXCEPT !.retries = n, !.stale = FALSE]
  <2>1. n \in 0..MaxRetries BY <1>1, Constants DEF RowType
  <2>2. r = z BY <1>2 DEF EnsuredRow, Rows
  <2> HIDE DEF n, q
  <2>3. z \in RowType /\ z.id = q.id /\ z.status = q.status
    BY <1>1, <2>1 DEF RowType, q
  <2> HIDE DEF z
  <2> QED BY <1>2, <2>2, <2>3 DEF RowCase, q
<1>3. CASE i \notin Rows
  <2> DEFINE n == 1 + Cardinality(Rows)
             z == [NoRow EXCEPT !.status = "pending", !.worker = w, !.id = n]
  <2>1. r = z BY <1>3 DEF EnsuredRow, Rows
  <2>2. n \in 0..NItems
    <3>1. Rows \subseteq Items \ {i} /\ IsFiniteSet(Items) /\ IsFiniteSet(Items \ {i})
      BY <1>3, Constants, FS_RemoveElement DEF Rows
    <3>2. Cardinality(Items \ {i}) = NItems - 1
      <4>1. IsFiniteSet(Items) /\ Cardinality(Items) = NItems BY Constants
      <4> HIDE DEF Items
      <4>2. Cardinality(Items \ {i}) = Cardinality(Items) - 1 BY <4>1, FS_RemoveElement
      <4> QED BY <4>1, <4>2
    <3>3. Cardinality(Rows) <= NItems - 1 /\ Cardinality(Rows) \in Nat
      BY <3>1, <3>2, FS_Subset, FS_CardinalityType
    <3> QED BY <3>3, Constants
  <2>3. NoRow \in RowType BY Values DEF TypeInv, ScenarioInv
  <2> HIDE DEF n
  <2>4. z \in RowType /\ z.id = n /\ z.status = "pending"
    BY <2>2, <2>3 DEF RowType, Unfinished
  <2> HIDE DEF z
  <2> QED BY <1>3, <2>1, <2>4 DEF Enqueued, Unfinished, n
<1> QED BY <1>2, <1>3

\* EnqueueReplay makes the row of a submitted shard.
LEMMA StepEnqueueReplay ==
  ASSUME TypeInv, NEW h \in Handlers, NEW i \in Items, NEW n \in LeaseNo, EnqueueReplay(h, i, n)
  PROVE  Steps
<1> DEFINE r == EnsuredRow(i, WorkerOf[h])
           q == Unleased(item[i], "replay_pending")
           z == [q EXCEPT !.by = n]
<1>1. WorkerOf[h] \in Workers BY HandlerItem
<1>2. n \in 0..scenario.leases BY NoLease DEF LeaseNo
<1>3. queue' = [queue EXCEPT ![i] = r] BY DEF EnqueueReplay
<1>4. queue'[i] = r BY <1>3 DEF TypeInv, QueueInv
<1>5. /\ q \in ItemType /\ q.status = "replay_pending" /\ Undecided(i, q) /\ SameLease(i, q)
  BY ItemRecord, UnleasedSound DEF Undecided, SameLease, Open
<1> HIDE DEF q, r
<1>6. /\ z \in ItemType /\ z.status = "replay_pending" /\ Undecided(i, z) /\ SameLease(i, z)
  BY <1>2, <1>5 DEF ItemType, Undecided, SameLease
<1>7. item'[i].status = "replay_pending"
  <2>1. CASE item' = [item EXCEPT ![i] = z]
    BY <2>1, <1>6 DEF TypeInv, ItemInv
  <2>2. CASE item[i].status = "replay_pending" /\ item' = item BY <2>2
  <2> QED BY <2>1, <2>2 DEF EnqueueReplay, q
<1>8. r \in RowType /\ (RowCase(i, r) \/ Enqueued(i, r)) /\ (i \notin Rows => r.status \in Unfinished)
  BY <1>1, <1>7, EnsuredSound DEF r
<1>9. QueueStep BY <1>3, <1>8, OneRow
<1>10. ItemsStep
  <2>1. CASE Owned(i, WorkerOf[h]) /\ item' = [item EXCEPT ![i] = z]
    <3> HIDE DEF z
    <3>1. ToReplay(i, z) BY <2>1, <1>4, <1>6, <1>8 DEF ToReplay, Owned
    <3> QED BY <2>1, <1>6, <3>1, OneItem DEF ItemCase, EnqueueReplay, history
  <2>2. CASE item' = item BY <2>2, SameItems DEF EnqueueReplay, history
  <2> QED BY <2>1, <2>2 DEF EnqueueReplay, q
<1> QED
  BY <1>9, <1>10, SameHandlers, SameVerifiers, SameThreads, SameMemory, SameCampaign
  DEF EnqueueReplay, bounds, Steps

----------------------------------------------------------------------------
(* The actions of verifiers.                                                *)

\* The record of a row.
LEMMA RowRecord ==
  ASSUME TypeInv, NEW i \in Items
  PROVE  queue[i] \in RowType /\ queue[i].retries \in 0..MaxRetries
BY DEF TypeInv, QueueInv, RowType

\* A row with another status, and no retries or one more.
LEMMA RowWrites ==
  ASSUME NEW q \in RowType, NEW s \in Unfinished \cup {"none", "done", "failed"}
  PROVE  LET r == [q EXCEPT !.status = s, !.retries = 0]
         IN r \in RowType /\ r.id = q.id /\ r.status = s
<1> DEFINE M == 0..MaxRetries
<1>1. 0 \in M BY Constants
<1> HIDE DEF M
<1> QED BY <1>1 DEF RowType, M

\* A row that is put back for another retry.
LEMMA RowRetried ==
  ASSUME NEW q \in RowType, NEW n \in 0..MaxRetries
  PROVE  LET r == [q EXCEPT !.status = "pending", !.verifier = NoOne, !.retries = n,
                            !.stale = FALSE]
         IN r \in RowType /\ r.id = q.id /\ r.status = "pending"
BY DEF RowType, Unfinished

\* A row gets old.
LEMMA StepAge ==
  ASSUME TypeInv, NEW i \in Items, Age(i)
  PROVE  Steps
<1> DEFINE r == [queue[i] EXCEPT !.stale = TRUE]
<1>1. r \in RowType /\ RowCase(i, r) BY RowRecord DEF RowType, RowCase
<1>2. queue' = [queue EXCEPT ![i] = r] BY DEF Age
<1> HIDE DEF r
<1>3. QueueStep BY <1>1, <1>2, OneRow
<1> QED
  BY <1>3, SameItems, SameHandlers, SameVerifiers, SameThreads, SameMemory, SameCampaign
  DEF Age, bounds, history, Steps

\* ReclaimStale frees the rows of verifiers that went away.
LEMMA StepReclaimStale ==
  ASSUME TypeInv, NEW v \in Verifiers, ReclaimStale(v)
  PROVE  Steps
<1>1. ASSUME NEW i \in Items
      PROVE  queue'[i] \in RowType /\ RowCase(i, queue'[i])
  <2> DEFINE r == [queue[i] EXCEPT !.status = "pending", !.verifier = NoOne, !.stale = FALSE]
  <2>1. queue'[i] = IF i \in Stale THEN r ELSE queue[i] BY DEF ReclaimStale
  <2>2. r \in RowType /\ r.id = queue[i].id /\ r.status = "pending"
    BY RowRecord DEF RowType, Unfinished
  <2> HIDE DEF r
  <2>3. CASE i \in Stale
    BY <2>1, <2>2, <2>3 DEF RowCase, Stale, Unfinished
  <2>4. CASE i \notin Stale
    BY <2>1, <2>4, RowRecord DEF RowCase
  <2> QED BY <2>3, <2>4
<1>2. queue' = [i \in Items |-> queue'[i]] BY DEF ReclaimStale
<1>3. QueueStep BY <1>1, <1>2 DEF QueueStep
<1> QED
  BY <1>3, SameItems, SameHandlers, SameVerifiers, SameThreads, SameMemory, SameCampaign
  DEF ReclaimStale, bounds, history, Steps

\* TakeJob takes a row.
LEMMA StepTakeJob ==
  ASSUME TypeInv, NEW v \in Verifiers, TakeJob(v)
  PROVE  Steps
<1>1. PICK i \in Items :
        /\ queue[i].status = "pending"
        /\ queue' = [queue EXCEPT ![i].status = "processing", ![i].verifier = v, ![i].stale = FALSE]
        /\ ver' = [ver EXCEPT ![v] = [Waiting EXCEPT !.pc = "check", !.item = i,
                                        !.prev = queue[i].retries]]
  BY DEF TakeJob
<1> DEFINE r == [queue[i] EXCEPT !.status = "processing", !.verifier = v, !.stale = FALSE]
           n == queue[i].retries
           q == [Waiting EXCEPT !.pc = "check", !.item = i, !.prev = n]
<1>2. r \in RowType /\ r.id = queue[i].id /\ r.status = "processing"
  BY RowRecord DEF RowType, Unfinished
<1>3. queue' = [queue EXCEPT ![i] = r] BY <1>1
<1> HIDE DEF r
<1>4. RowCase(i, r) BY <1>1, <1>2 DEF RowCase, Unfinished
<1>5. QueueStep BY <1>2, <1>3, <1>4, OneRow
<1>6. n \in 0..MaxRetries BY RowRecord
<1>7. Waiting \in VerifierType BY Values DEF TypeInv, ScenarioInv
<1> HIDE DEF n
<1>8. q \in VerifierType /\ q.pc = "check" /\ q.item = i BY <1>6, <1>7 DEF VerifierType
<1>9. ver' = [ver EXCEPT ![v] = q] BY <1>1 DEF n
<1> HIDE DEF q
<1>10. i \in Rows BY <1>1 DEF Rows
<1>11. ver'[v] = q => Took(v) BY <1>8, <1>10 DEF Took, TakeJob, VAt
<1>12. VerifiersStep BY <1>8, <1>9, <1>11, OneVerifier
<1> QED
  BY <1>5, <1>12, SameItems, SameHandlers, SameThreads, SameMemory, SameCampaign
  DEF TakeJob, bounds, history, Steps

\* A heartbeat keeps the row's status.
LEMMA TouchSound ==
  ASSUME TypeInv, NEW v \in Verifiers, queue' = Touched(v)
  PROVE  QueueStep
<1> DEFINE i == ver[v].item
           b == IF Job(v).status = "processing" THEN FALSE ELSE queue[i].stale
           r == [queue[i] EXCEPT !.stale = b]
<1>1. i \in Items BY VerifierItem
<1>2. b \in BOOLEAN BY <1>1, RowRecord DEF RowType
<1>3. queue' = [queue EXCEPT ![i] = r] BY DEF Touched
<1> HIDE DEF b
<1>4. r \in RowType /\ RowCase(i, r) BY <1>1, <1>2, RowRecord DEF RowType, RowCase
<1> HIDE DEF r, i
<1> QED BY <1>1, <1>3, <1>4, OneRow

\* Check looks at the campaign.
LEMMA StepCheck ==
  ASSUME TypeInv, NEW v \in Verifiers, Check(v)
  PROVE  Steps
<1>1. QueueStep BY TouchSound DEF Check
<1>2. ver[v].pc = "check" BY DEF Check, VAt
<1>3. VerifiersStep
  <2>1. CASE campaign = "running" BY <1>2, <2>1, VerifierSteps DEF Check
  <2>2. CASE campaign # "running" BY <1>2, <2>2, VerifierSteps DEF Check
  <2> QED BY <2>1, <2>2
<1> QED
  BY <1>1, <1>3, SameItems, SameHandlers, SameThreads, SameMemory, SameCampaign
  DEF Check, bounds, history, Steps

\* CancelItem cancels the item of a stopped campaign.
LEMMA StepCancelItem ==
  ASSUME TypeInv, NEW v \in Verifiers, CancelItem(v)
  PROVE  Steps
<1> DEFINE i == ver[v].item
           r == Unleased(item[i], "cancelled")
<1>1. i \in Items /\ ver[v].pc = "cancel" BY VerifierItem DEF CancelItem, VAt
<1>2. ItemsStep
  <2>1. CASE item[i].status = "replay_pending"
    <3>1. r \in ItemType /\ Cancelled(i, r)
      BY <1>1, <2>1, ItemRecord, UnleasedSound DEF Cancelled, Undecided, SameLease, Open
    <3>2. item' = [item EXCEPT ![i] = r] BY <2>1 DEF CancelItem
    <3> HIDE DEF r
    <3> QED BY <1>1, <3>1, <3>2, OneItem DEF ItemCase, CancelItem, history
  <2>2. CASE item[i].status # "replay_pending"
    BY <2>2, SameItems DEF CancelItem, history
  <2> QED BY <2>1, <2>2
<1>3. VerifiersStep BY <1>1, VerifierFails DEF CancelItem
<1> QED
  BY <1>2, <1>3, SameQueue, SameHandlers, SameThreads, SameMemory, SameCampaign
  DEF CancelItem, bounds, Steps

\* Touch keeps a row young.
LEMMA StepTouch ==
  ASSUME TypeInv, NEW v \in Verifiers, Touch(v)
  PROVE  Steps
BY TouchSound, SameItems, SameHandlers, SameVerifiers, SameThreads, SameMemory, SameCampaign
DEF Touch, bounds, history, Steps

\* Replay runs the shard again.
LEMMA StepReplay ==
  ASSUME TypeInv, NEW v \in Verifiers, Replay(v)
  PROVE  Steps
<1>1. ver[v].pc = "replay" BY DEF Replay, VAt
<1>2. VerifiersStep BY <1>1, VerifierSteps, VerifierFails DEF Replay, Errors
<1> QED
  BY <1>2, SameItems, SameQueue, SameHandlers, SameThreads, SameMemory, SameCampaign
  DEF Replay, bounds, history, Steps

\* OwnerCheck looks whether the row is still its own.
LEMMA StepOwnerCheck ==
  ASSUME TypeInv, NEW v \in Verifiers, OwnerCheck(v)
  PROVE  Steps
<1>1. ver[v].pc = "own" BY DEF OwnerCheck, VAt
<1>2. VerifiersStep BY <1>1, VerifierSteps, VerifierFails DEF OwnerCheck
<1> QED
  BY <1>2, SameItems, SameQueue, SameHandlers, SameThreads, SameMemory, SameCampaign
  DEF OwnerCheck, bounds, history, Steps

\* CommitReplay decides the item.
LEMMA StepCommitReplay ==
  ASSUME TypeInv, NEW v \in Verifiers, CommitReplay(v)
  PROVE  Steps
<1> DEFINE i == ver[v].item
<1>1. i \in Items /\ ver[v].pc = "commit" BY VerifierItem DEF CommitReplay, VAt
<1>2. ItemsStep /\ VerifiersStep
  <2>1. CASE /\ item[i].status = "replay_pending"
             /\ \E clean \in BOOLEAN : item' = [item EXCEPT ![i] = ReplayedItem(@, clean)]
             /\ VStep(v, "progress")
    <3>1. PICK clean \in BOOLEAN : item' = [item EXCEPT ![i] = ReplayedItem(item[i], clean)]
      BY <2>1
    <3> DEFINE r == ReplayedItem(item[i], clean)
               q == Unleased(item[i], "done")
               a == q.attempts + 1
               p == IF clean /\ campaign # "cancelled" THEN "full" ELSE ""
               z == [q EXCEPT !.attempts = a, !.ok = clean, !.how = "replay", !.pay = p]
    <3>2. /\ q \in ItemType /\ q.status = "done" /\ SameLease(i, q) /\ q.proven = item[i].proven
          /\ q.attempts = item[i].attempts
      BY <1>1, ItemRecord, UnleasedSound DEF SameLease
    <3>3. a \in Nat /\ p \in {"", "full"} BY <1>1, <3>2, ItemRecord
    <3>4. r = z BY DEF ReplayedItem
    <3> HIDE DEF q, a, p
    <3>5. /\ z \in ItemType /\ z.status = "done" /\ z.lease = q.lease /\ z.vanished = q.vanished
          /\ z.how = "replay" /\ z.proven = q.proven /\ z.pay = p
      BY <3>2, <3>3 DEF ItemType
    <3> HIDE DEF r, z
    <3>6. r \in ItemType /\ r.status = "done" /\ Decided(i, r)
      BY <2>1, <3>2, <3>3, <3>4, <3>5 DEF Decided, SameLease
    <3>7. item' = [item EXCEPT ![i] = r] BY <3>1 DEF r
    <3>8. ItemsStep BY <1>1, <3>6, <3>7, OneItem DEF ItemCase, CommitReplay, history
    <3>9. item'[i].status = "done" BY <1>1, <3>6, <3>7 DEF TypeInv, ItemInv
    <3> QED BY <1>1, <2>1, <3>8, <3>9, VerifierSteps
  <2>2. CASE item[i].status = "done" /\ VStep(v, "progress") /\ UNCHANGED item
    BY <1>1, <2>2, SameItems, VerifierSteps DEF CommitReplay, history
  <2>3. CASE VFails(v, "fatal") /\ UNCHANGED item
    BY <1>1, <2>3, SameItems, VerifierFails DEF CommitReplay, history
  <2>4. CASE \E err \in Errors : VFails(v, err) /\ UNCHANGED item
    BY <1>1, <2>4, SameItems, VerifierFails DEF CommitReplay, history, Errors
  <2> QED BY <2>1, <2>2, <2>3, <2>4 DEF CommitReplay
<1> QED
  BY <1>2, SameQueue, SameHandlers, SameThreads, SameMemory, SameCampaign
  DEF CommitReplay, bounds, Steps

\* VProgress recomputes the campaign.
LEMMA StepVProgress ==
  ASSUME TypeInv, NEW v \in Verifiers, VProgress(v)
  PROVE  Steps
<1>1. ver[v].pc = "progress" BY DEF VProgress, VAt
<1>2. VerifiersStep BY <1>1, VerifierSteps, VerifierFails DEF VProgress, Errors
<1>3. CampaignStep
  BY ProgressSound, SameMemory, SameCampaign DEF VProgress, bounds
<1> QED
  BY <1>2, <1>3, SameItems, SameQueue, SameHandlers, SameThreads
  DEF VProgress, history, Steps

\* CloseJob closes the row.
LEMMA StepCloseJob ==
  ASSUME TypeInv, NEW v \in Verifiers, CloseJob(v)
  PROVE  Steps
<1> DEFINE i == ver[v].item
           r == [queue[i] EXCEPT !.status = "done", !.retries = 0]
<1>1. i \in Items /\ ver[v].pc = "close" BY VerifierItem DEF CloseJob, VAt
<1>2. r \in RowType /\ r.id = queue[i].id /\ r.status = "done"
  <2>1. queue[i] \in RowType BY <1>1, RowRecord
  <2> QED BY <2>1, RowWrites
<1>3. queue' = [queue EXCEPT ![i] = r] BY DEF CloseJob
<1> HIDE DEF r
<1>4. RowCase(i, r) BY <1>1, <1>2 DEF RowCase
<1>5. QueueStep BY <1>1, <1>2, <1>3, <1>4, OneRow
<1>6. VerifiersStep BY <1>1, VerifierEnds DEF CloseJob
<1> QED
  BY <1>5, <1>6, SameItems, SameHandlers, SameThreads, SameMemory, SameCampaign
  DEF CloseJob, bounds, history, Steps

\* ReadItem looks whether a failed replay was decided by another.
LEMMA StepReadItem ==
  ASSUME TypeInv, NEW v \in Verifiers, ReadItem(v)
  PROVE  Steps
<1>1. ver[v].pc = "failed" BY DEF ReadItem, VAt
<1>2. VerifiersStep
  <2>1. CASE MayRetry(v) BY <1>1, <2>1, VerifierSteps DEF ReadItem, MayRetry
  <2>2. CASE ~MayRetry(v) /\ item[ver[v].item].status = "done"
    BY <1>1, <2>2, VerifierSteps DEF ReadItem
  <2>3. CASE ~MayRetry(v) /\ item[ver[v].item].status # "done"
    BY <1>1, <2>3, VerifierSteps DEF ReadItem
  <2> QED BY <2>1, <2>2, <2>3
<1> QED
  BY <1>2, SameItems, SameQueue, SameHandlers, SameThreads, SameMemory, SameCampaign
  DEF ReadItem, bounds, history, Steps

\* RetryJob puts the row back.
LEMMA StepRetryJob ==
  ASSUME TypeInv, NEW v \in Verifiers, RetryJob(v)
  PROVE  Steps
<1> DEFINE i == ver[v].item
           n == ver[v].prev + 1
           r == [queue[i] EXCEPT !.status = "pending", !.verifier = NoOne, !.retries = n,
                                 !.stale = FALSE]
<1>1. i \in Items /\ ver[v].pc = "retry" BY VerifierItem DEF RetryJob, VAt
<1>2. n \in 0..MaxRetries
  <2> DEFINE m == ver[v].prev
  <2>1. m \in 0..MaxRetries /\ m < MaxRetries /\ MaxRetries \in Nat
    BY <1>1, VerifierItem, Constants DEF VerifierType, TypeInv, VerifierInv
  <2> HIDE DEF m
  <2>2. m + 1 \in 0..MaxRetries BY <2>1
  <2> QED BY <2>2 DEF m
<1>3. QueueStep
  <2>1. CASE queue[i].status = "processing"
    <3>1. queue' = [queue EXCEPT ![i] = r] BY <2>1 DEF RetryJob, Job
    <3> HIDE DEF n
    <3>2. r \in RowType /\ r.id = queue[i].id /\ r.status = "pending"
      <4>1. queue[i] \in RowType BY <1>1, RowRecord
      <4> QED BY <1>2, <4>1, RowRetried
    <3> HIDE DEF r
    <3>3. RowCase(i, r) BY <2>1, <3>2 DEF RowCase, Unfinished
    <3> QED BY <1>1, <3>1, <3>2, <3>3, OneRow
  <2>2. CASE queue[i].status # "processing"
    BY <2>2, SameQueue DEF RetryJob, Job
  <2> QED BY <2>1, <2>2
<1>4. VerifiersStep BY <1>1, VerifierEnds DEF RetryJob
<1> QED
  BY <1>3, <1>4, SameItems, SameHandlers, SameThreads, SameMemory, SameCampaign
  DEF RetryJob, bounds, history, Steps

\* RejectJob fails the row.
LEMMA StepRejectJob ==
  ASSUME TypeInv, NEW v \in Verifiers, RejectJob(v)
  PROVE  Steps
<1> DEFINE i == ver[v].item
           r == [queue[i] EXCEPT !.status = "failed", !.retries = 0]
<1>1. i \in Items /\ ver[v].pc = "reject" BY VerifierItem DEF RejectJob, VAt
<1>2. r \in RowType /\ r.id = queue[i].id /\ r.status = "failed"
  <2>1. queue[i] \in RowType BY <1>1, RowRecord
  <2> QED BY <2>1, RowWrites
<1>3. queue' = [queue EXCEPT ![i] = r] BY DEF RejectJob
<1> HIDE DEF r
<1>4. VerifiersStep /\ ver'[v].pc = "rejectItem" /\ ver'[v].item = i
  BY <1>1, VerifierSteps DEF RejectJob
<1>5. RowCase(i, r) BY <1>1, <1>2, <1>4 DEF RowCase
<1>6. QueueStep BY <1>1, <1>2, <1>3, <1>5, OneRow
<1> QED
  BY <1>4, <1>6, SameItems, SameHandlers, SameThreads, SameMemory, SameCampaign
  DEF RejectJob, bounds, history, Steps

\* RejectItem decides the item of a failed row.
LEMMA StepRejectItem ==
  ASSUME TypeInv, NEW v \in Verifiers, RejectItem(v)
  PROVE  Steps
<1> DEFINE i == ver[v].item
           q == Unleased(item[i], "done")
           r == [q EXCEPT !.ok = FALSE, !.how = "rejected"]
<1>1. i \in Items BY VerifierItem
<1>2. ItemsStep /\ item'[i].status # "replay_pending"
  <2>1. CASE item[i].status = "replay_pending"
    <3>1. /\ q \in ItemType /\ q.status = "done" /\ SameLease(i, q) /\ q.proven = item[i].proven
          /\ q.pay = item[i].pay
      BY <1>1, ItemRecord, UnleasedSound DEF SameLease
    <3>2. item[i].pay = "" BY <1>1, <2>1 DEF TypeInv, ItemInv
    <3>3. item' = [item EXCEPT ![i] = r] BY <2>1 DEF RejectItem, StillWaiting
    <3> HIDE DEF q
    <3>4. /\ r \in ItemType /\ r.status = "done" /\ r.lease = q.lease /\ r.vanished = q.vanished
          /\ r.how = "rejected" /\ r.proven = q.proven /\ r.pay = q.pay
      BY <3>1 DEF ItemType
    <3> HIDE DEF r
    <3>5. Decided(i, r) BY <2>1, <3>1, <3>2, <3>4 DEF Decided, SameLease
    <3>6. ItemsStep BY <1>1, <3>3, <3>4, <3>5, OneItem DEF ItemCase, RejectItem, history
    <3>7. item'[i] = r BY <1>1, <3>3 DEF TypeInv, ItemInv
    <3> QED BY <3>4, <3>6, <3>7
  <2>2. CASE item[i].status # "replay_pending"
    BY <2>2, SameItems DEF RejectItem, StillWaiting, history
  <2> QED BY <2>1, <2>2
<1>3. VerifiersStep BY <1>2, VerifierEnds DEF RejectItem
<1> QED
  BY <1>2, <1>3, SameQueue, SameHandlers, SameThreads, SameMemory, SameCampaign
  DEF RejectItem, bounds, Steps

----------------------------------------------------------------------------
(* The actions of the ticker and the admin.                                 *)

\* Items that are cancelled, and pending again, with the same lease.
LEMMA CancelledSound ==
  ASSUME NEW r \in ItemType
  PROVE  LET q == [r EXCEPT !.status = "cancelled"]
         IN /\ q \in ItemType /\ q.status = "cancelled" /\ q.lease = r.lease
            /\ q.vanished = r.vanished /\ q.proven = r.proven
            /\ q.ok = r.ok /\ q.pay = r.pay /\ q.how = r.how /\ q.due = r.due
BY DEF ItemType

\* An item that a step leaves alone.
LEMMA QuietItem ==
  ASSUME NEW i \in Items
  PROVE  ItemCase(i, item[i])
BY DEF ItemCase, Quiet, Undecided, SameLease, SameHolder

\* StopItems cancels the items of a stopped campaign.
LEMMA StepStopItems ==
  ASSUME TypeInv, NEW t \in ThreadNames, StopItems(t)
  PROVE  Steps
<1>1. th[t].pc = "items" BY DEF StopItems, TAt
<1>2. ASSUME NEW i \in Items
      PROVE  item'[i] \in ItemType /\ ItemCase(i, item'[i]) /\ item'[i].status \notin Open
  <2> DEFINE r == [item[i] EXCEPT !.status = "cancelled"]
  <2>1. item'[i] = IF item[i].status \in Open THEN r ELSE item[i] BY DEF StopItems
  <2>2. CASE item[i].status \in Open
    <3>1. item[i] \in ItemType BY ItemRecord
    <3>2. r \in ItemType /\ r.status = "cancelled" /\ Undecided(i, r) /\ SameLease(i, r)
          /\ r.proven = item[i].proven
      BY <3>1, CancelledSound DEF Undecided, SameLease
    <3>3. item'[i] = r BY <2>1, <2>2
    <3> HIDE DEF r
    <3>4. Cancelled(i, r) BY <1>1, <2>2, <3>2 DEF Cancelled
    <3> QED BY <3>2, <3>3, <3>4 DEF ItemCase, Open
  <2>3. CASE item[i].status \notin Open
    BY <2>1, <2>3, ItemRecord, QuietItem
  <2> QED BY <2>2, <2>3
<1>3. item' = [i \in Items |-> item'[i]] BY DEF StopItems
<1>4. ItemsStep BY <1>2, <1>3, AllItems DEF StopItems, history
<1>5. ThreadsStep BY <1>1, <1>2, ThreadSteps DEF StopItems, Forcing
<1> QED
  BY <1>4, <1>5, SameQueue, SameHandlers, SameVerifiers, SameMemory, SameCampaign
  DEF StopItems, bounds, Steps

\* A row that is failed.
LEMMA FailedSound ==
  ASSUME NEW r \in RowType
  PROVE  LET q == FailedRow(r)
         IN /\ q \in RowType /\ q.id = r.id
            /\ q.status = IF r.status \in Unfinished THEN "failed" ELSE r.status
<1>1. CASE r.status \in Unfinished
  BY <1>1, RowWrites DEF FailedRow
<1>2. CASE r.status \notin Unfinished
  BY <1>2 DEF FailedRow
<1> QED BY <1>1, <1>2

\* StopRows fails the rows of a stopped campaign.
LEMMA StepStopRows ==
  ASSUME TypeInv, NEW t \in ThreadNames, StopRows(t)
  PROVE  Steps
<1>1. th[t].pc = "rows" BY DEF StopRows, TAt
<1>2. ASSUME NEW i \in Items
      PROVE  queue'[i] \in RowType /\ RowCase(i, queue'[i])
  <2> DEFINE q == FailedRow(queue[i])
             r == [q EXCEPT !.verifier = NoOne]
  <2>1. queue'[i] = IF queue[i].status \in Unfinished THEN r ELSE queue[i] BY DEF StopRows
  <2>2. queue[i] \in RowType BY RowRecord
  <2>3. CASE queue[i].status \in Unfinished
    <3>1. q \in RowType /\ q.id = queue[i].id /\ q.status = "failed"
      BY <2>2, <2>3, FailedSound
    <3> HIDE DEF q
    <3>2. r \in RowType /\ r.id = q.id /\ r.status = q.status BY <3>1 DEF RowType
    <3>3. queue'[i] = r BY <2>1, <2>3
    <3> HIDE DEF r
    <3> QED BY <1>1, <2>3, <3>1, <3>2, <3>3 DEF RowCase
  <2>4. CASE queue[i].status \notin Unfinished
    BY <2>1, <2>2, <2>4 DEF RowCase
  <2> QED BY <2>3, <2>4
<1>3. queue' = [i \in Items |-> queue'[i]] BY DEF StopRows
<1>4. QueueStep BY <1>2, <1>3 DEF QueueStep
<1>5. ThreadsStep
  <2>1. th[t].next \in Ends BY ThreadRecord DEF ThreadType
  <2>2. CASE TEnds(t) BY <2>2, ThreadEnds
  <2>3. CASE TStep(t, th[t].next)
    BY <1>1, <2>1, <2>3, ThreadSteps DEF Forcing, Ends
  <2> QED BY <2>2, <2>3 DEF StopRows
<1> QED
  BY <1>4, <1>5, SameItems, SameHandlers, SameVerifiers, SameMemory, SameCampaign
  DEF StopRows, bounds, history, Steps

\* The ticker begins a tick.
LEMMA StepTick ==
  ASSUME TypeInv, Tick
  PROVE  Steps
<1>1. mem' \in [Items -> SUBSET LeaseNo] BY DEF Tick, TypeInv, ScenarioInv
<1>2. CampaignStep BY <1>1, SameCampaign DEF Tick, bounds
<1>3. ThreadsStep BY ThreadSteps DEF Tick, TAt, ThreadNames, Forcing
<1> QED
  BY <1>2, <1>3, SameItems, SameQueue, SameHandlers, SameVerifiers
  DEF Tick, history, Steps

\* ReclaimExpired takes back every item whose lease ran out.
LEMMA StepReclaimExpired ==
  ASSUME TypeInv, ReclaimExpired
  PROVE  Steps
<1>1. th["tick"].pc = "reclaim" BY DEF ReclaimExpired, TAt
<1>2. ASSUME NEW i \in Items
      PROVE  item'[i] \in ItemType /\ ItemCase(i, item'[i])
  <2> DEFINE q == Unleased(item[i], "pending")
             a == q.attempts + 1
             r == [q EXCEPT !.attempts = a, !.vanished = TRUE]
  <2>1. item'[i] = IF i \in Expired THEN Reclaimed(i) ELSE item[i] BY DEF ReclaimExpired
  <2>2. CASE i \in Expired
    <3>1. /\ q \in ItemType /\ q.status = "pending" /\ Undecided(i, q) /\ SameLease(i, q)
          /\ q.proven = item[i].proven /\ q.attempts = item[i].attempts
      BY ItemRecord, UnleasedSound DEF Undecided, SameLease, Open
    <3>2. a \in Nat BY <3>1, ItemRecord
    <3>3. Reclaimed(i) = r BY DEF Reclaimed
    <3> HIDE DEF q, a
    <3>4. /\ r \in ItemType /\ r.status = "pending" /\ Undecided(i, r) /\ r.lease = q.lease
          /\ r.proven = q.proven
      BY <3>1, <3>2 DEF ItemType, Undecided
    <3> HIDE DEF r
    <3>5. item'[i] = r BY <2>1, <2>2, <3>3
    <3>6. TakenBack(i, r)
      BY <1>1, <2>2, <3>1, <3>4 DEF TakenBack, Expired, InStatus, SameLease
    <3> QED BY <3>4, <3>5, <3>6 DEF ItemCase
  <2>3. CASE i \notin Expired
    BY <2>1, <2>3, ItemRecord, QuietItem
  <2> QED BY <2>2, <2>3
<1>3. item' = [i \in Items |-> item'[i]] BY DEF ReclaimExpired
<1>4. ItemsStep BY <1>2, <1>3, AllItems DEF ReclaimExpired, history
<1>5. ThreadsStep BY <1>1, ThreadSteps DEF ReclaimExpired, ThreadNames, Forcing
<1> QED
  BY <1>4, <1>5, SameQueue, SameHandlers, SameVerifiers, SameMemory, SameCampaign
  DEF ReclaimExpired, bounds, Steps

\* The ticker notes which items it will end.
LEMMA ForceSound ==
  ASSUME TypeInv, NEW S \in SUBSET Items, NEW next \in {"old", "repair"}, EndByForce(S, next),
         \A i \in Items : /\ item'[i].proven = item[i].proven
                          /\ item'[i].vanished = item[i].vanished
  PROVE  ThreadsStep
<1> DEFINE pc == IF S = {} THEN next ELSE "force"
           hits == Hits(S)
           r == [th["tick"] EXCEPT !.pc = pc, !.next = next, !.hits = hits]
<1>1. th' = [th EXCEPT !["tick"] = r] BY DEF EndByForce
<1>2. hits \in SUBSET (Items \X BOOLEAN)
  <2>1. ASSUME NEW x \in hits PROVE x \in Items \X BOOLEAN
    <3>1. PICK i \in S : x = <<i, item[i].proven # {}>> BY <2>1 DEF Hits
    <3>2. i \in Items /\ (item[i].proven # {}) \in BOOLEAN OBVIOUS
    <3> QED BY <3>1, <3>2
  <2> QED BY <2>1
<1>3. pc \in {"old", "repair", "force"} /\ (pc = "force" <=> hits # {})
  <2>1. S = {} => hits = {} BY DEF Hits
  <2>2. ASSUME S # {} PROVE hits # {}
    <3>1. PICK i \in S : TRUE BY <2>2
    <3>2. <<i, item[i].proven # {}>> \in hits BY <3>1 DEF Hits
    <3> QED BY <3>2
  <2> QED BY <2>1, <2>2
<1>4. \A x \in hits : x[1] \in Items /\ x[2] = (item[x[1]].proven # {}) BY DEF Hits
<1> HIDE DEF pc, hits
<1>5. r \in ThreadType /\ r.pc = pc /\ r.hits = hits
  BY <1>2, <1>3, ThreadRecord DEF ThreadType, ThreadNames, Ends, Forcing
<1> HIDE DEF r
<1>6. th'["tick"] = r => TickMoves /\ HitsStep
  BY <1>3, <1>4, <1>5 DEF TickMoves, HitsStep
<1> QED BY <1>1, <1>3, <1>5, <1>6, OneThread DEF ThreadNames, Forcing

\* SelectChurn notes the items that were tried too often.
LEMMA StepSelectChurn ==
  ASSUME TypeInv, NEW sweep \in BOOLEAN, SelectChurn(sweep)
  PROVE  Steps
<1> DEFINE S == Churning
           next == IF sweep THEN "old" ELSE "repair"
<1>1. S \in SUBSET Items /\ next \in {"old", "repair"} BY DEF Churning, InStatus
<1>2. EndByForce(S, next) /\ item' = item BY DEF SelectChurn
<1> HIDE DEF S, next
<1>3. ThreadsStep BY <1>1, <1>2, ForceSound
<1> QED
  BY <1>3, SameItems, SameQueue, SameHandlers, SameVerifiers, SameMemory, SameCampaign
  DEF SelectChurn, bounds, history, Steps

\* The hit the ticker looks at.
LEMMA FirstHitIsHit ==
  ASSUME TypeInv, th["tick"].pc \in Forcing
  PROVE  /\ FirstHit = HitOf(th["tick"].hits) /\ FirstHit \in th["tick"].hits
         /\ FirstHit[1] \in Items /\ FirstHit[2] \in BOOLEAN
<1>1. FirstHit = HitOf(th["tick"].hits) BY DEF FirstHit, HitOf
<1>2. th["tick"].hits # {} /\ th["tick"].hits \in SUBSET (Items \X BOOLEAN)
  BY ThreadRecord DEF ThreadNames, ThreadType
<1>3. FirstHit \in th["tick"].hits BY <1>1, <1>2, HitIsHit
<1> QED BY <1>1, <1>2, <1>3

\* The ticker is through with an item, and ends the next one or goes on.
LEMMA NextHitSound ==
  ASSUME TypeInv, NextHit
  PROVE  ThreadsStep
<1> DEFINE left == th["tick"].hits \ {FirstHit}
           pc == IF left = {} THEN th["tick"].next ELSE "force"
           r == [th["tick"] EXCEPT !.pc = pc, !.hits = left]
<1>1. th' = [th EXCEPT !["tick"] = r] BY DEF NextHit
<1>2. th["tick"] \in ThreadType BY ThreadRecord DEF ThreadNames
<1>3. /\ left \in SUBSET (Items \X BOOLEAN) /\ left \subseteq th["tick"].hits
      /\ pc \in Ends \cup {"force"} /\ (pc = "force" <=> left # {})
  BY <1>2 DEF ThreadType, Ends
<1> HIDE DEF left, pc
<1>4. r \in ThreadType /\ r.pc = pc /\ r.hits = left
  BY <1>2, <1>3 DEF ThreadType, Forcing
<1> HIDE DEF r
<1>5. th'["tick"] = r => TickMoves /\ HitsStep
  BY <1>3, <1>4 DEF TickMoves, HitsStep, Ends
<1> QED BY <1>1, <1>3, <1>4, <1>5, OneThread DEF ThreadNames, Forcing, Ends

\* A step of the ticker between ending an item and the next one.
LEMMA ForcingStep ==
  ASSUME TypeInv, NEW pc \in {"forceRow", "forced"}, TStep("tick", pc),
         th["tick"].pc \in Forcing,
         pc = "forceRow" => item'[HitOf(th["tick"].hits)[1]].status = "done"
  PROVE  ThreadsStep
<1> DEFINE r == [th["tick"] EXCEPT !.pc = pc]
<1>1. r \in ThreadType /\ r.pc = pc /\ r.hits = th["tick"].hits /\ r.hits # {}
  BY ThreadRecord DEF ThreadType, ThreadNames, Forcing
<1>2. th' = [th EXCEPT !["tick"] = r] BY DEF TStep
<1> HIDE DEF r
<1>3. th'["tick"] = r => TickMoves /\ HitsStep BY <1>1 DEF TickMoves, HitsStep
<1> QED BY <1>1, <1>2, <1>3, OneThread DEF ThreadNames, Forcing

\* ForceItem ends an item.
LEMMA StepForceItem ==
  ASSUME TypeInv, ForceItem
  PROVE  Steps
<1> DEFINE x == FirstHit
           i == x[1]
<1>1. th["tick"].pc = "force" BY DEF ForceItem, TAt
<1>2. x = HitOf(th["tick"].hits) /\ i \in Items /\ x[2] \in BOOLEAN
  BY <1>1, FirstHitIsHit DEF Forcing
<1>3. ItemsStep /\ ThreadsStep
  <2>1. CASE item[i].status \in Open
    <3> DEFINE q == Unleased(item[i], "done")
               a == q.attempts + 1
               b == x[2]
               r == [q EXCEPT !.attempts = a, !.ok = b, !.how = "forced"]
               f == ForcedItem(item[i])
    <3>1. /\ q \in ItemType /\ q.status = "done" /\ SameLease(i, q) /\ q.proven = item[i].proven
          /\ q.attempts = item[i].attempts /\ q.pay = item[i].pay
      BY <1>2, ItemRecord, UnleasedSound DEF SameLease
    <3>2. a \in Nat BY <1>2, <3>1, ItemRecord
    <3>3. f = r BY DEF ForcedItem
    <3>4. item' = [item EXCEPT ![i] = f] /\ TStep("tick", "forceRow") BY <2>1 DEF ForceItem
    <3> HIDE DEF q, a, b, f
    <3>5. /\ r \in ItemType /\ r.status = "done" /\ r.lease = q.lease /\ r.vanished = q.vanished
          /\ r.how = "forced" /\ r.proven = q.proven /\ r.pay = q.pay /\ r.ok = b
      BY <1>2, <3>1, <3>2 DEF ItemType, b
    <3> HIDE DEF r
    <3>6. Ended(i, f)
      BY <1>1, <1>2, <2>1, <3>1, <3>3, <3>5 DEF Ended, SameLease, b
    <3>7. ItemsStep BY <1>2, <3>3, <3>4, <3>5, <3>6, OneItem DEF ItemCase, ForceItem, history
    <3>8. item'[i].status = "done" BY <1>2, <3>3, <3>4, <3>5 DEF TypeInv, ItemInv
    <3>9. ThreadsStep BY <1>1, <1>2, <3>4, <3>8, ForcingStep DEF Forcing
    <3> QED BY <3>7, <3>9
  <2>2. CASE item[i].status \notin Open
    BY <2>2, SameItems, NextHitSound DEF ForceItem, history
  <2> QED BY <2>1, <2>2
<1> QED
  BY <1>3, SameQueue, SameHandlers, SameVerifiers, SameMemory, SameCampaign
  DEF ForceItem, bounds, Steps

\* ForceRow fails the row of an item that was ended.
LEMMA StepForceRow ==
  ASSUME TypeInv, ForceRow
  PROVE  Steps
<1> DEFINE i == FirstHit[1]
           r == FailedRow(queue[i])
<1>1. th["tick"].pc = "forceRow" BY DEF ForceRow, TAt
<1>2. i \in Items /\ FirstHit = HitOf(th["tick"].hits) BY <1>1, FirstHitIsHit DEF Forcing
<1>3. /\ r \in RowType /\ r.id = queue[i].id
      /\ r.status = IF queue[i].status \in Unfinished THEN "failed" ELSE queue[i].status
  BY <1>2, RowRecord, FailedSound
<1>4. queue' = [queue EXCEPT ![i] = r] BY DEF ForceRow
<1> HIDE DEF r
<1>5. RowCase(i, r) BY <1>1, <1>2, <1>3 DEF RowCase
<1>6. QueueStep BY <1>2, <1>3, <1>4, <1>5, OneRow
<1>7. ThreadsStep BY <1>1, ForcingStep DEF ForceRow, Forcing
<1> QED
  BY <1>6, <1>7, SameItems, SameHandlers, SameVerifiers, SameMemory, SameCampaign
  DEF ForceRow, bounds, history, Steps

\* Forced recomputes the campaign.
LEMMA StepForced ==
  ASSUME TypeInv, Forced
  PROVE  Steps
<1>1. CampaignStep BY ProgressSound DEF Forced, bounds
<1>2. ThreadsStep BY NextHitSound DEF Forced
<1> QED
  BY <1>1, <1>2, SameItems, SameQueue, SameHandlers, SameVerifiers
  DEF Forced, history, Steps

\* The campaign is stopped.
LEMMA StopSound ==
  ASSUME TypeInv, campaign' \in {"paused", "completed", "cancelled"},
         UNCHANGED <<scenario, mem, restarts>>, stops' \in 0..scenario.stops, stops' >= stops
  PROVE  CampaignStep
<1>1. /\ scenario \in ScenarioType /\ restarts \in 0..scenario.restarts
      /\ mem \in [Items -> SUBSET LeaseNo]
  BY DEF TypeInv, ScenarioInv
<1>2. restarts >= restarts BY <1>1 DEF ScenarioType
<1> QED BY <1>1, <1>2 DEF CampaignStep, CampaignStatus

\* A step that neither stops nor restarts.
LEMMA SameStops ==
  ASSUME TypeInv
  PROVE  stops \in 0..scenario.stops /\ stops \in Nat /\ stops >= stops
BY DEF TypeInv, ScenarioInv, ScenarioType

\* A thread that stops the campaign goes on to its items.
LEMMA StopThread ==
  ASSUME TypeInv, NEW t \in ThreadNames, NEW status \in {"paused", "completed", "cancelled"},
         NEW next \in Ends, StopCampaign(t, status, next), th[t].pc \notin Forcing,
         t = "admin" => th["admin"].pc # "idle" \/ stops' # 0
  PROVE  ThreadsStep
<1> DEFINE r == [th[t] EXCEPT !.pc = "items", !.next = next]
<1>1. r \in ThreadType /\ r.pc = "items" /\ r.hits = th[t].hits BY ThreadRecord DEF ThreadType
<1>2. th' = [th EXCEPT ![t] = r] /\ campaign' # "running" BY DEF StopCampaign
<1> HIDE DEF r
<1> QED BY <1>1, <1>2, ThreadGoes

\* CancelHopeless cancels a campaign nobody finishes.
LEMMA StepCancelHopeless ==
  ASSUME TypeInv, NEW old \in BOOLEAN, CancelHopeless(old)
  PROVE  Steps
<1>1. th["tick"].pc = "old" BY DEF CancelHopeless, TAt
<1>2. ThreadsStep /\ CampaignStep
  <2>1. CASE old
    <3>1. StopCampaign("tick", "cancelled", "stalled") BY <2>1 DEF CancelHopeless
    <3>2. campaign' = "cancelled" BY <3>1 DEF StopCampaign
    <3>3. ThreadsStep BY <1>1, <3>1, StopThread DEF ThreadNames, Ends, Forcing
    <3>4. CampaignStep BY <3>2, SameStops, StopSound DEF CancelHopeless, bounds
    <3> QED BY <3>3, <3>4
  <2>2. CASE ~old
    <3>1. ThreadsStep BY <1>1, <2>2, ThreadSteps DEF CancelHopeless, ThreadNames, Ends, Forcing
    <3>2. CampaignStep BY <2>2, SameMemory, SameCampaign DEF CancelHopeless, bounds
    <3> QED BY <3>1, <3>2
  <2> QED BY <2>1, <2>2
<1> QED
  BY <1>2, SameItems, SameQueue, SameHandlers, SameVerifiers
  DEF CancelHopeless, history, Steps

\* SweepStalled notes the items a stalled campaign waits for.
LEMMA StepSweepStalled ==
  ASSUME TypeInv, NEW stalled \in BOOLEAN, SweepStalled(stalled)
  PROVE  Steps
<1>1. ASSUME NEW i \in Items
      PROVE  /\ item'[i] \in ItemType /\ ItemCase(i, item'[i])
             /\ item'[i].proven = item[i].proven /\ item'[i].vanished = item[i].vanished
  <2> DEFINE r == [item[i] EXCEPT !.status = "cancelled"]
             C == campaign \in {"completed", "cancelled"} /\ item[i].status = "pending"
  <2>1. item'[i] = IF C THEN r ELSE item[i] BY DEF SweepStalled
  <2>2. item[i] \in ItemType BY ItemRecord
  <2>3. CASE C
    <3>1. r \in ItemType /\ r.status = "cancelled" /\ Undecided(i, r) /\ SameLease(i, r)
          /\ r.proven = item[i].proven
      BY <2>2, CancelledSound DEF Undecided, SameLease
    <3>2. item'[i] = r BY <2>1, <2>3
    <3> HIDE DEF r
    <3>3. Cancelled(i, r) BY <2>3, <3>1 DEF Cancelled, Open
    <3> QED BY <3>1, <3>2, <3>3 DEF ItemCase, SameLease
  <2>4. CASE ~C
    BY <2>1, <2>2, <2>4, QuietItem
  <2> QED BY <2>3, <2>4
<1>2. item' = [i \in Items |-> item'[i]] BY DEF SweepStalled
<1>3. ItemsStep BY <1>1, <1>2, AllItems DEF SweepStalled, history
<1>4. ThreadsStep
  <2> DEFINE S == IF stalled THEN Leftover ELSE {}
  <2>1. S \in SUBSET Items BY DEF Leftover, InStatus
  <2>2. EndByForce(S, "repair") BY DEF SweepStalled
  <2> HIDE DEF S
  <2> QED BY <1>1, <2>1, <2>2, ForceSound
<1> QED
  BY <1>3, <1>4, SameQueue, SameHandlers, SameVerifiers, SameMemory, SameCampaign
  DEF SweepStalled, bounds, Steps

\* Repair looks for cancelled items of a running campaign.
LEMMA StepRepair ==
  ASSUME TypeInv, NEW t \in ThreadNames, Repair(t)
  PROVE  Steps
<1>1. th[t].pc = "repair" BY DEF Repair, TAt
<1>2. ThreadsStep /\ CampaignStep
  <2>1. CASE campaign = "running" /\ InStatus({"done"}) = Items
    <3>1. StopCampaign(t, "completed", "idle") BY <2>1 DEF Repair
    <3>2. campaign' = "completed" BY <3>1 DEF StopCampaign
    <3>3. ThreadsStep BY <1>1, <3>1, StopThread DEF Ends, Forcing
    <3>4. CampaignStep BY <3>2, SameStops, StopSound DEF Repair, bounds
    <3> QED BY <3>3, <3>4
  <2>2. CASE ~(campaign = "running" /\ InStatus({"done"}) = Items)
    <3>1. CampaignStep BY <2>2, SameMemory, SameCampaign DEF Repair, bounds
    <3>2. CASE TEnds(t) BY <3>1, <3>2, ThreadEnds
    <3>3. CASE /\ campaign = "running" /\ InStatus({"cancelled"}) # {}
               /\ TStep(t, "revive")
      <4>1. \E i \in Items : item[i].status = "cancelled" BY <3>3 DEF InStatus
      <4> QED BY <1>1, <3>1, <3>3, <4>1, ThreadSteps DEF Forcing
    <3> QED BY <2>2, <3>2, <3>3 DEF Repair
  <2> QED BY <2>1, <2>2
<1> QED
  BY <1>2, SameItems, SameQueue, SameHandlers, SameVerifiers
  DEF Repair, history, Steps

\* Revive makes the cancelled items pending again.
LEMMA StepRevive ==
  ASSUME TypeInv, NEW t \in ThreadNames, Revive(t)
  PROVE  Steps
<1>1. th[t].pc = "revive" BY DEF Revive, TAt
<1>2. ASSUME NEW i \in Items
      PROVE  item'[i] \in ItemType /\ ItemCase(i, item'[i])
  <2> DEFINE q == Unleased(item[i], "pending")
             r == [q EXCEPT !.attempts = 0]
  <2>1. item'[i] = IF item[i].status = "cancelled" THEN r ELSE item[i] BY DEF Revive
  <2>2. CASE item[i].status = "cancelled"
    <3>1. /\ q \in ItemType /\ q.status = "pending" /\ Undecided(i, q) /\ SameLease(i, q)
          /\ q.proven = item[i].proven
      BY ItemRecord, UnleasedSound DEF Undecided, SameLease, Open
    <3> HIDE DEF q
    <3>2. /\ r \in ItemType /\ r.status = "pending" /\ Undecided(i, r) /\ SameLease(i, r)
          /\ r.proven = item[i].proven
      BY <3>1 DEF ItemType, Undecided, SameLease
    <3>3. item'[i] = r BY <2>1, <2>2
    <3> HIDE DEF r
    <3>4. Revived(i, r) BY <1>1, <2>2, <3>2 DEF Revived
    <3> QED BY <3>2, <3>3, <3>4 DEF ItemCase
  <2>3. CASE item[i].status # "cancelled"
    BY <2>1, <2>3, ItemRecord, QuietItem
  <2> QED BY <2>2, <2>3
<1>3. item' = [i \in Items |-> item'[i]] BY DEF Revive
<1>4. ItemsStep BY <1>2, <1>3, AllItems DEF Revive, history
<1>5. ThreadsStep BY ThreadEnds DEF Revive
<1> QED
  BY <1>4, <1>5, SameQueue, SameHandlers, SameVerifiers, SameMemory, SameCampaign
  DEF Revive, bounds, Steps

\* The admin pauses, resumes or cancels the campaign.
LEMMA StepAdmin ==
  ASSUME TypeInv, Admin
  PROVE  Steps
<1>1. stops' = stops + 1 /\ stops < scenario.stops /\ th["admin"].pc = "idle"
  BY DEF Admin, TAt
<1>2. stops' \in 0..scenario.stops /\ stops' >= stops /\ stops' # 0
  <2> DEFINE m == scenario.stops
  <2>1. stops \in 0..m /\ m \in Nat BY DEF TypeInv, ScenarioInv, ScenarioType
  <2> HIDE DEF m
  <2>2. stops < m BY <1>1 DEF m
  <2>3. stops' \in 0..m /\ stops' >= stops /\ stops' # 0 BY <1>1, <2>1, <2>2
  <2> QED BY <2>3 DEF m
<1>3. ThreadsStep /\ CampaignStep
  <2>1. CASE \E status \in {"paused", "cancelled"} : StopCampaign("admin", status, "idle")
    <3>1. PICK status \in {"paused", "cancelled"} : StopCampaign("admin", status, "idle") BY <2>1
    <3>2. campaign' \in {"paused", "completed", "cancelled"} BY <3>1 DEF StopCampaign
    <3>3. ThreadsStep BY <1>1, <1>2, <3>1, StopThread DEF ThreadNames, Ends, Forcing
    <3>4. CampaignStep BY <1>2, <3>2, StopSound DEF Admin
    <3> QED BY <3>3, <3>4
  <2>2. CASE campaign' = "running" /\ TStep("admin", "repair")
    <3>1. ThreadsStep BY <1>1, <1>2, <2>2, ThreadSteps DEF ThreadNames, Ends, Forcing
    <3>2. /\ scenario \in ScenarioType /\ restarts \in 0..scenario.restarts
          /\ mem \in [Items -> SUBSET LeaseNo]
      BY DEF TypeInv, ScenarioInv
    <3>3. restarts >= restarts BY <3>2 DEF ScenarioType
    <3>4. CampaignStep BY <1>2, <2>2, <3>2, <3>3 DEF CampaignStep, CampaignStatus, Admin
    <3> QED BY <3>1, <3>4
  <2> QED BY <2>1, <2>2 DEF Admin
<1> QED
  BY <1>3, SameItems, SameQueue, SameHandlers, SameVerifiers
  DEF Admin, history, Steps

\* The coordinator restarts.
LEMMA StepRestart ==
  ASSUME TypeInv, Restart
  PROVE  Steps
<1>1. restarts' = restarts + 1 /\ restarts < scenario.restarts BY DEF Restart
<1>2. restarts' \in 0..scenario.restarts /\ restarts' >= restarts /\ restarts' # 0
  <2> DEFINE m == scenario.restarts
  <2>1. restarts \in 0..m /\ m \in Nat BY DEF TypeInv, ScenarioInv, ScenarioType
  <2> HIDE DEF m
  <2>2. restarts < m BY <1>1 DEF m
  <2>3. restarts' \in 0..m /\ restarts' >= restarts /\ restarts' # 0 BY <1>1, <2>1, <2>2
  <2> QED BY <2>3 DEF m
<1>3. scenario \in ScenarioType BY DEF TypeInv, ScenarioInv
<1>4. CampaignStep
  <2>1. mem' \in [Items -> SUBSET LeaseNo] BY DEF Restart
  <2> QED BY <1>2, <2>1, SameStops DEF Restart, CampaignStep, TypeInv, ScenarioInv
<1>5. HandlersStep
  BY <1>3, Values DEF Restart, HandlersStep, HandlerCase
<1>6. VerifiersStep
  BY <1>2, <1>3, Values DEF Restart, VerifiersStep, Rested
<1>7. ThreadsStep
  <2>1. DOMAIN th = ThreadNames BY DEF TypeInv, ThreadInv
  <2>2. th' = [t \in ThreadNames |-> Resting] BY <2>1 DEF Restart
  <2>3. \A t \in ThreadNames : th'[t] = Resting BY <2>2
  <2>4. Resting \in ThreadType /\ Resting.pc = "idle" /\ Resting.hits = {} BY <1>3, Values
  <2>5. HitsStep /\ TickMoves BY <2>3, <2>4 DEF HitsStep, TickMoves, ThreadNames
  <2> QED BY <2>2, <2>3, <2>4, <2>5 DEF ThreadsStep, ThreadNames, Forcing
<1> QED
  BY <1>4, <1>5, <1>6, <1>7, SameItems, SameQueue DEF Restart, history, Steps

\* Every step is one of Steps.
LEMMA AllSteps ==
  ASSUME TypeInv, [Next]_vars
  PROVE  Steps
<1>1. CASE \E h \in Handlers : HandlerStep(h) \/ SubmitFails(h) \/ Claim(h) \/ ClaimExpired(h)
  BY <1>1, StepUndoClaim, StepTakeOver, StepGiveBack, StepForget, StepRecheck, StepNoteTrack,
     StepStamp, StepFinish, StepSubmitFails, StepClaim, StepClaimExpired DEF HandlerStep
<1>2. CASE \E h \in Handlers : \E i \in Items :
             \/ Release(h, i)
             \/ \E n \in LeaseNo : \/ NoteRow(h, i, n) \/ SubmitEngine(h, i, n)
                                   \/ EnqueueReplay(h, i, n)
  BY <1>2, StepRelease, StepNoteRow, StepSubmitEngine, StepEnqueueReplay
<1>3. CASE \E v \in Verifiers : VerifierStep(v) \/ Touch(v)
  BY <1>3, StepReclaimStale, StepTakeJob, StepCheck, StepCancelItem, StepReplay, StepOwnerCheck,
     StepCommitReplay, StepVProgress, StepCloseJob, StepReadItem, StepRetryJob, StepRejectJob,
     StepRejectItem, StepTouch DEF VerifierStep
<1>4. CASE \E i \in Items : Expire(i) \/ Age(i)
  BY <1>4, StepExpire, StepAge
<1>5. CASE \E t \in DOMAIN th : ThreadStep(t)
  <2>1. DOMAIN th = ThreadNames BY DEF TypeInv, ThreadInv
  <2> QED BY <1>5, <2>1, StepStopItems, StepStopRows, StepRepair, StepRevive DEF ThreadStep
<1>6. CASE TickStep
  BY <1>6, StepTick, StepReclaimExpired, StepSelectChurn, StepForceItem, StepForceRow,
     StepForced, StepCancelHopeless, StepSweepStalled DEF TickStep
<1>7. CASE Admin \/ Restart
  BY <1>7, StepAdmin, StepRestart
<1>8. CASE UNCHANGED vars
  BY <1>8, SameItems, SameQueue, SameHandlers, SameVerifiers, SameThreads, SameMemory,
     SameCampaign DEF vars, Steps
<1> QED BY <1>1, <1>2, <1>3, <1>4, <1>5, <1>6, <1>7, <1>8 DEF Next

----------------------------------------------------------------------------
(* The theorems.                                                            *)

\* The types, with who was given which lease, are kept by every step.
LEMMA TypeNext ==
  ASSUME TypeInv, [Next]_vars
  PROVE  TypeInv'
<1> QED BY AllSteps, TypeFromSteps

\* The item of a live lease belongs to the worker it was last given to.
LEMMA TypeImplies ==
  ASSUME TypeInv
  PROVE  TypeOK
<1>1. ASSUME NEW i \in InStatus({"leased"})
      PROVE  Given(i, item[i].lease, item[i].owner)
  <2> DEFINE n == item[i].lease
             s == given[i]
             w == item[i].owner
  <2>1. /\ i \in Items /\ s \in Seq(Workers) /\ n = Len(s) /\ n > 0 /\ w = s[n]
    BY <1>1 DEF InStatus, TypeInv, ItemInv
  <2>2. Leases(i, w) = {m \in 1..Len(s) : s[m] = w} BY DEF Leases
  <2> HIDE DEF n, s, w
  <2>3. n \in Leases(i, w) /\ \A m \in Leases(i, w) : m <= n BY <2>1, <2>2
  <2> QED BY <2>3 DEF Given, n, w
<1>2. \A i \in Items : item[i].lease = Len(given[i]) BY DEF TypeInv, ItemInv
<1> QED
  BY <1>1, <1>2 DEF TypeOK, TypeInv, ScenarioInv, ItemInv, QueueInv, CampaignStatus

\* TypeOK: the records of the items, of the replay queue and of the evidence
\* track keep their types, row ids are unique, and a leased item belongs to the
\* worker that was given its last lease.
THEOREM TypeCorrect == Spec => []TypeOK
<1>1. Init => TypeInv BY InvInit
<1>2. TypeInv /\ [Next]_vars => TypeInv' BY TypeNext
<1>3. TypeInv => TypeOK BY TypeImplies
<1> QED BY <1>1, <1>2, <1>3, PTL DEF Spec

\* A step leaves the result of an item that is done alone.
LEMMA DoneKept ==
  ASSUME TypeInv, Steps
  PROVE  DoneStays
<1> SUFFICES ASSUME NEW i \in Items, item[i].status = "done"
             PROVE  item'[i].status = "done" /\ Result(i)' = Result(i)
  BY DEF DoneStays, InStatus
<1>1. ItemCase(i, item'[i])
  BY DEF Steps, ItemsStep, ItemStep, LeasedBy
<1>2. Quiet(i, item'[i])
  BY <1>1 DEF ItemCase, GivenUp, TakenBack, Noted, Stamped, Finished, ToReplay, Decided,
              Cancelled, Revived, Ended, Owned, Open
<1> QED BY <1>2 DEF Quiet, Undecided, SameHolder, Result

\* DoneIsFinal: no late submit, verifier, sweep, stop, resume or restart changes
\* the result or the payee of an item that is done.
THEOREM DoneHolds == Spec => DoneIsFinal
<1>1. Init => TypeInv BY InvInit
<1>2. TypeInv /\ [Next]_vars => TypeInv' BY TypeNext
<1>3. TypeInv /\ [Next]_vars => [DoneStays]_vars BY AllSteps, DoneKept
<1> QED BY <1>1, <1>2, <1>3, PTL DEF Spec, DoneIsFinal

\* EvidenceIsPaid: when every worker waits for its answers, none whose evidence
\* the coordinator had accepted for the lease it submits is paid the floor.
THEOREM EvidenceHolds ==
  ASSUME WaitsForAnswers
  PROVE  Spec => []EvidenceIsPaid
<1>1. Init => TypeInv /\ EvidenceInv BY InvInit
<1>2. TypeInv /\ EvidenceInv /\ [Next]_vars => (TypeInv /\ EvidenceInv)'
  BY AllSteps, TypeFromSteps, EvidenceFromSteps
<1>3. EvidenceInv => EvidenceIsPaid BY DEF EvidenceInv, EvidenceIsPaid, InStatus
<1> QED BY <1>1, <1>2, <1>3, PTL DEF Spec

\* VanishedProofCounts: an item that is ended for a worker that vanished is not
\* counted as failed when the worker had proved units under its lease.
THEOREM VanishedHolds ==
  ASSUME WaitsForAnswers
  PROVE  Spec => []VanishedProofCounts
<1>1. Init => TypeInv /\ EvidenceInv BY InvInit
<1>2. TypeInv /\ EvidenceInv /\ [Next]_vars => (TypeInv /\ EvidenceInv)'
  BY AllSteps, TypeFromSteps, EvidenceFromSteps
<1>3. EvidenceInv => VanishedProofCounts BY DEF EvidenceInv, VanishedProofCounts, InStatus
<1> QED BY <1>1, <1>2, <1>3, PTL DEF Spec

\* ReplayHasJob: while nobody stopped the campaign and nothing crashed, a shard
\* that waits for its replay has a job, or a verifier that is giving it up.
THEOREM JobHolds == Spec => []ReplayHasJob
<1>1. Init => TypeInv /\ JobInv BY InvInit
<1>2. TypeInv /\ JobInv /\ [Next]_vars => (TypeInv /\ JobInv)'
  BY AllSteps, TypeFromSteps, JobFromSteps
<1>3. JobInv => ReplayHasJob
  <2>1. stops = 0 /\ restarts = 0 /\ JobInv => ReplayHasJob BY DEF JobInv
  <2>2. ~(stops = 0 /\ restarts = 0) => ReplayHasJob BY DEF ReplayHasJob
  <2> QED BY <2>1, <2>2
<1> QED BY <1>1, <1>2, <1>3, PTL DEF Spec
=============================================================================
