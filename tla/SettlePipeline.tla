--------------------------- MODULE SettlePipeline ---------------------------
(***************************************************************************)
(* How a finished work item is paid: the coordinator (internal/poolfuzz)   *)
(* stamps an intent on the item, turns it into a durable outbox row and,   *)
(* once nothing is unpaid, asks for the escrow to be finalized; the origin *)
(* node pulls the rows (fuzz_settle_pull.go), or the coordinator pushes    *)
(* them (relay_settler.go), and applies each to the escrow row of          *)
(* FuzzEscrowOps at most once; an acknowledgement marks the row applied.   *)
(*                                                                         *)
(* One campaign.  Submits run in threads of the coordinator; every query   *)
(* and every transaction of theirs is a step.  A drain is the settle-pull  *)
(* ticker, the drain before a close, the pull of an operator's reopen, or  *)
(* the push relay.  The coordinator runs with its default SkipInlineHTTP,  *)
(* so a submit only enqueues.                                              *)
(***************************************************************************)
EXTENDS FuzzEscrowOps, Sequences, FiniteSets

CONSTANTS
  NItems,        \* work items of the campaign, its budget_runs
  Threads,       \* request handlers and ticks of the coordinator
  Miner,         \* [1..NItems -> miners]: the payout address of an item
  Price,         \* the escrow the campaign was opened with
  Scenarios      \* deployments and campaigns to look at, see ScenarioType

Items == 1..NItems
NoRowID == 0

Drains == {"ticker", "closer", "reopener", "pusher"}

\* A scenario: how the campaign's escrow is split, how many threads are busy at
\* once and which drains run, which results the submits have, whether the
\* campaign also ends by budget_seconds, whether an admin may cancel it, and
\* whether an operator may replay its settles.  The bound on faults: coordinator
\* crashes, lost requests and answers, failed writes.
ScenarioType ==
  [split : Splits, handlers : Nat, drains : SUBSET Drains,
   outcomes : SUBSET {"clean", "floor", "crash", "reject"},
   timeBudget : BOOLEAN, cancels : BOOLEAN, replays : BOOLEAN, faults : Nat]

ASSUME PipelineAssumption ==
  /\ NItems \in Nat \ {0} /\ Price \in Nat
  /\ Scenarios \subseteq ScenarioType
  /\ \A s \in Scenarios :
       /\ SplitOK(Price, NItems, s.split)
       /\ "floor" \in s.outcomes => s.split = "50_50"
  /\ DOMAIN Miner = Items /\ NoOne \notin {Miner[i] : i \in Items}

VARIABLES
  scenario,  \* it never changes
  campaign,  \* coordinator: status of the campaign
  items,     \* coordinator: fuzz_work_items
  outbox,    \* coordinator: fuzz_settle_outbox; a row's id is its index
  th,        \* coordinator: the threads
  row,       \* origin: fuzz_campaign_escrow
  applied,   \* origin: fuzz_settle_applied
  drain,     \* the drains
  faults     \* how many faults have happened

vars == <<scenario, campaign, items, outbox, th, row, applied, drain, faults>>
coordinator == <<campaign, items, outbox>>
origin == <<row, applied>>

Leased == [status |-> "leased", run |-> "", runRow |-> NoRowID, find |-> "",
           findRow |-> NoRowID, found |-> FALSE]
Idle == [pc |-> "idle", item |-> 1, outcome |-> "reject", accepts |-> FALSE,
         read |-> Leased, id |-> NoRowID, paid |-> FALSE, next |-> "", then |-> "end",
         todo |-> {}]
NoDrain == [pc |-> "idle", batch |-> {}, acked |-> {}, failed |-> FALSE,
            attempt |-> 0]

Init ==
  /\ scenario \in Scenarios
  /\ campaign = "running"
  /\ items = [i \in Items |-> Leased]
  /\ outbox = << >>
  /\ th = [t \in Threads |-> Idle]
  /\ row = OpenedRow(Price, NItems, scenario.split, NoFee)
  /\ applied = {}
  /\ drain = [d \in scenario.drains |-> NoDrain]
  /\ faults = 0

Fault == faults < scenario.faults /\ faults' = faults + 1

----------------------------------------------------------------------------
(* Settle intents and outbox rows.                                          *)

RunKinds == {"run", "run_floor"}
UnpaidRun == {"pending", "queued", "pending_floor", "queued_floor"}
UnpaidFind == {"pending", "queued"}
Floor(st) == st \in {"pending_floor", "queued_floor"}

RowIDs == 1..Len(outbox)
Pending == {e \in RowIDs : outbox[e].status = "pending"}
NewRow(kind, miner, item) ==
  [kind |-> kind, miner |-> miner, item |-> item, status |-> "pending"]

\* EnqueueSettleOutbox: a logical key has one row for ever.
SameKey(r, kind, miner, item) ==
  r.kind = kind /\ r.miner = miner /\ r.item = item

\* Mutant: the lookup only sees rows that are not settled yet.
KeptPendingOnly(kind, miner, item) ==
  {e \in Pending : SameKey(outbox[e], kind, miner, item)}

Kept(kind, miner, item) == {e \in RowIDs : SameKey(outbox[e], kind, miner, item)}

\* Writes the row of a key unless it is there, and its id to id.
Enqueue(kind, miner, item, id) ==
  IF Kept(kind, miner, item) # {}
  THEN id \in Kept(kind, miner, item) /\ UNCHANGED outbox
  ELSE id = Len(outbox) + 1 /\ outbox' = Append(outbox, NewRow(kind, miner, item))

\* The items whose intents point to rows S are paid (ackSettleOutbox and
\* PromoteAppliedSettleIntents).
Promoted(S) ==
  [i \in Items |->
    [items[i] EXCEPT
       !.run = IF @ \in UnpaidRun /\ items[i].runRow \in S THEN "paid" ELSE @,
       !.find = IF @ \in UnpaidFind /\ items[i].findRow \in S THEN "paid" ELSE @]]

Acked(S) == [e \in RowIDs |-> IF e \in S THEN [outbox[e] EXCEPT !.status = "applied"]
                              ELSE outbox[e]]

----------------------------------------------------------------------------
(* The coordinator: a submit and the flush of its intents.                  *)

Step(t, pc) == th' = [th EXCEPT ![t].pc = pc]
Ends(t) == th' = [th EXCEPT ![t] = Idle]
At(t, pc) == th[t].pc = pc
Busy == {t \in Threads : ~At(t, "idle")}
Free(t) == At(t, "idle") /\ Cardinality(Busy) < scenario.handlers
Cur(t) == items[th[t].item]

\* A Hunt campaign is split evenly, a Dig campaign is not.
Hunt == scenario.split = "50_50"

\* What a verified result stamps on the item's run intent: a Hunt crash is not a
\* pass, and a clean Hunt shard without a new edge earns the floor.
RunStamp(outcome) ==
  IF outcome = "clean" \/ (outcome = "crash" /\ ~Hunt) THEN "pending"
  ELSE IF outcome = "floor" THEN "pending_floor" ELSE ""

\* campaignAcceptsSettle.
AcceptsSettle == campaign \in {"running", "completed"}

\* SubmitWithOutcome, finalizeHuntSubmit: the result is verified and the
\* campaign's status read.  A Hunt finding is recorded before the item is done,
\* a Dig finding after.
Submit(t, i, o) ==
  /\ Free(t)
  /\ th' = [th EXCEPT ![t] = [Idle EXCEPT
                 !.pc = IF Hunt /\ o = "crash" THEN "insert" ELSE "commit",
                 !.item = i, !.outcome = o, !.accepts = AcceptsSettle,
                 !.then = "progress"]]
  /\ UNCHANGED <<coordinator, origin, drain, faults>>

\* The item is done and its run intent stamped in one statement.  A repeated
\* submit only flushes what the first one left; a Hunt submit of a cancelled item
\* is an error.
Commit(t) ==
  LET o == th[t].outcome
      i == th[t].item
  IN /\ At(t, "commit")
     /\ IF Cur(t).status = "leased"
        THEN /\ items' = [items EXCEPT ![i].status = "done",
                            ![i].run = IF th[t].accepts THEN RunStamp(o) ELSE @]
             /\ Step(t, IF o = "crash" THEN IF Hunt THEN "stamp" ELSE "insert"
                        ELSE IF o = "reject" THEN "read" ELSE "flush")
        ELSE /\ IF Hunt /\ Cur(t).status = "cancelled" THEN Ends(t)
                ELSE th' = [th EXCEPT ![t].pc = "flush", ![t].outcome = "reject"]
             /\ UNCHANGED items
     /\ UNCHANGED <<campaign, outbox, origin, drain, faults>>

InsertFinding(t) ==
  /\ At(t, "insert")
  /\ items' = [items EXCEPT ![th[t].item].found = TRUE]
  /\ Step(t, IF Hunt THEN "commit" ELSE "stamp")
  /\ UNCHANGED <<campaign, outbox, origin, drain, faults>>

StampFinding(t) ==
  /\ At(t, "stamp")
  /\ items' = [items EXCEPT ![th[t].item].find = "pending"]
  /\ Step(t, "flush")
  /\ UNCHANGED <<campaign, outbox, origin, drain, faults>>

\* flushPendingSettles reads the item, then settles the run and the finding
\* from what it read.
Flush(t) ==
  /\ At(t, "flush")
  /\ th' = [th EXCEPT ![t].pc = "run", ![t].read = Cur(t)]
  /\ UNCHANGED <<coordinator, origin, drain, faults>>

\* relay: the row an intent is stamped with is used again, and the intent is
\* paid if that row is applied; otherwise a row is enqueued.
Relay(t, kind, stamped, pc) ==
  LET i == th[t].item
  IN \E id \in 1..Len(outbox) + 1 :
       /\ IF stamped # NoRowID THEN id = stamped /\ UNCHANGED outbox
          ELSE Enqueue(kind, Miner[i], i, id)
       /\ th' = [th EXCEPT ![t].pc = pc, ![t].id = id,
                   ![t].paid = stamped # NoRowID /\ outbox[id].status = "applied"]

EnqueueRun(t) ==
  /\ At(t, "run")
  /\ IF th[t].read.run \in UnpaidRun
     THEN Relay(t, IF Floor(th[t].read.run) THEN "run_floor" ELSE "run",
                th[t].read.runRow, "stampRun")
     ELSE Step(t, "find") /\ UNCHANGED outbox
  /\ UNCHANGED <<campaign, items, origin, drain, faults>>

\* Mutant: a status no other query knows.
EnqueuedStatus(st, paid) == IF paid THEN "paid" ELSE "enqueued"

\* Mutant: an enqueued payout counts as paid.
PaidOnEnqueue(st, paid) == "paid"

\* The status an intent gets with its row.
NextStatus(st, paid) ==
  IF paid THEN "paid" ELSE IF Floor(st) THEN "queued_floor" ELSE "queued"

StampRun(t) ==
  LET i == th[t].item
  IN /\ At(t, "stampRun")
     /\ items' = IF Cur(t).run \in UnpaidRun
                 THEN [items EXCEPT ![i].runRow = th[t].id,
                                    ![i].run = NextStatus(th[t].read.run, th[t].paid)]
                 ELSE items
     /\ Step(t, "find")
     /\ UNCHANGED <<campaign, outbox, origin, drain, faults>>

EnqueueFinding(t) ==
  /\ At(t, "find")
  /\ IF th[t].read.find \in UnpaidFind
     THEN Relay(t, "finding", th[t].read.findRow, "stampFind")
     ELSE Step(t, "bonus") /\ UNCHANGED outbox
  /\ UNCHANGED <<campaign, items, origin, drain, faults>>

StampFind(t) ==
  LET i == th[t].item
  IN /\ At(t, "stampFind")
     /\ items' = IF Cur(t).find \in UnpaidFind
                 THEN [items EXCEPT ![i].findRow = th[t].id,
                                    ![i].find = NextStatus(th[t].read.find, th[t].paid)]
                 ELSE items
     /\ Step(t, "bonus")
     /\ UNCHANGED <<campaign, outbox, origin, drain, faults>>

\* The crash bonus belongs to the campaign (work item 0) and to the miner.
CrashBonus(t) ==
  /\ At(t, "bonus")
  /\ IF th[t].outcome = "crash"
     THEN \E id \in 1..Len(outbox) + 1 : Enqueue("crash_bonus", Miner[th[t].item], 0, id)
     ELSE UNCHANGED outbox
  /\ Step(t, "read")
  /\ UNCHANGED <<campaign, items, origin, drain, faults>>

----------------------------------------------------------------------------
(* The coordinator: progress, finalize, cancel, replay.                     *)

\* recomputeProgress reads the items and the status, and writes the status.
AllDone == \A i \in Items : items[i].status = "done"
ReadProgress(t) ==
  /\ At(t, "read")
  /\ \E over \in {FALSE, scenario.timeBudget} :
       th' = [th EXCEPT ![t].pc = "write",
               ![t].next = IF AllDone \/ over THEN "completed" ELSE campaign]
  /\ UNCHANGED <<coordinator, origin, drain, faults>>

WriteProgress(t) ==
  /\ At(t, "write")
  /\ campaign' = th[t].next
  /\ IF th[t].next = "completed" /\ th[t].then = "progress"
     THEN Step(t, "promote") ELSE Ends(t)
  /\ UNCHANGED <<items, outbox, origin, drain, faults>>

\* The tick recomputes the progress of a running campaign and leaves the escrow
\* alone.
Tick(t) ==
  /\ Free(t) /\ campaign = "running"
  /\ th' = [th EXCEPT ![t] = [Idle EXCEPT !.pc = "read"]]
  /\ UNCHANGED <<coordinator, origin, drain, faults>>

\* tryFinalizeEscrow: heal the intents, then refuse while a row is pending or an
\* intent unpaid, then enqueue the finalize row.
Promote(t) ==
  /\ At(t, "promote")
  /\ items' = Promoted(RowIDs \ Pending)
  /\ Step(t, "count")
  /\ UNCHANGED <<campaign, outbox, origin, drain, faults>>

CountPending(t) ==
  /\ At(t, "count")
  /\ IF Pending # {} THEN Ends(t) ELSE Step(t, "unpaid")
  /\ UNCHANGED <<coordinator, origin, drain, faults>>

\* Mutant: the intents are not looked at.
NoneUnpaid == {}

UnpaidItems == {i \in Items : items[i].run \in UnpaidRun \/ items[i].find \in UnpaidFind}
CountUnpaid(t) ==
  /\ At(t, "unpaid")
  /\ IF UnpaidItems # {} THEN Ends(t) ELSE Step(t, "finalize")
  /\ UNCHANGED <<coordinator, origin, drain, faults>>

Finalize(t) ==
  /\ At(t, "finalize")
  /\ \E id \in 1..Len(outbox) + 1 : Enqueue("finalize", NoOne, 0, id)
  /\ Ends(t)
  /\ UNCHANGED <<campaign, items, origin, drain, faults>>

\* SetCampaignStatus("cancelled"): the campaign first, then its open items.
Cancel(t) ==
  /\ scenario.cancels
  /\ Free(t) /\ campaign # "cancelled"
  /\ campaign' = "cancelled"
  /\ th' = [th EXCEPT ![t] = [Idle EXCEPT !.pc = "sweep"]]
  /\ UNCHANGED <<items, outbox, origin, drain, faults>>

Sweep(t) ==
  /\ At(t, "sweep")
  /\ items' = [i \in Items |-> IF items[i].status = "leased"
                               THEN [items[i] EXCEPT !.status = "cancelled"] ELSE items[i]]
  /\ Ends(t)
  /\ UNCHANGED <<campaign, outbox, origin, drain, faults>>

\* ReplayCampaignSettles: the unpaid runs of done items one by one, the first
\* finding, and the finalize row without any gate.
Replay(t) ==
  /\ scenario.replays
  /\ Free(t) /\ \E i \in Items : items[i].status = "done"
  /\ th' = [th EXCEPT ![t] = [Idle EXCEPT !.pc = "replay",
               !.todo = {<<i, Floor(items[i].run)>> : i \in {j \in Items :
                           items[j].status = "done" /\ items[j].run \in UnpaidRun}}]]
  /\ UNCHANGED <<coordinator, origin, drain, faults>>

ReplayRun(t) ==
  /\ At(t, "replay")
  /\ IF th[t].todo = {} THEN Step(t, "replayFinding") /\ UNCHANGED outbox
     ELSE LET r == CHOOSE x \in th[t].todo : \A y \in th[t].todo : x[1] <= y[1]
          IN /\ \E id \in 1..Len(outbox) + 1 :
                  Enqueue(IF r[2] THEN "run_floor" ELSE "run", Miner[r[1]], r[1], id)
             /\ th' = [th EXCEPT ![t].todo = @ \ {r}]
  /\ UNCHANGED <<campaign, items, origin, drain, faults>>

ReplayFinding(t) ==
  LET found == {i \in Items : items[i].found}
  IN /\ At(t, "replayFinding")
     /\ IF found = {} THEN UNCHANGED outbox
        ELSE \E i \in found, id \in 1..Len(outbox) + 1 :
               Enqueue("finding", Miner[i], 0, id)
     /\ Step(t, "finalize")
     /\ UNCHANGED <<campaign, items, origin, drain, faults>>

\* A query or write of a handler fails, and the handler returns the error.
HandlerFails(t) ==
  /\ ~At(t, "idle")
  /\ Fault
  /\ Ends(t)
  /\ UNCHANGED <<coordinator, origin, drain>>

\* The coordinator dies: its database stays, its threads and its relay do not.
Crash ==
  /\ Fault
  /\ th' = [t \in Threads |-> Idle]
  /\ drain' = [d \in scenario.drains |-> IF d = "pusher" THEN NoDrain ELSE drain[d]]
  /\ UNCHANGED <<coordinator, origin>>

----------------------------------------------------------------------------
(* The origin: applying a row to the escrow.                                *)

\* The event id of row e is in fuzz_settle_applied.
WasApplied(e) == e \in applied

\* The error ApplyFuzzSettleOnce returns for row e, and the escrow after it.
SettleErr(e) ==
  LET k == outbox[e].kind
  IN IF WasApplied(e) \/ k = "finalize" THEN "ok"
     ELSE IF k \in RunKinds THEN RunErr(row, k)
     ELSE IF k = "crash_bonus" THEN CrashErr(row)
     ELSE BountyErr(row, "critical")

SettledRow(e) ==
  LET k == outbox[e].kind
  IN IF WasApplied(e) THEN row
     ELSE IF k = "finalize" THEN ClosedRow(row)
     ELSE IF k \in RunKinds THEN RunRow(row, k)
     ELSE IF k = "crash_bonus" THEN CrashRow(row)
     ELSE BountyRow(row, "critical", outbox[e].miner)

ApplyOnce(e) == row' = SettledRow(e) /\ applied' = applied \cup {e}

IsPay(e) == outbox[e].kind # "finalize"
Before(e, f) == (IsPay(e) /\ ~IsPay(f)) \/ (IsPay(e) = IsPay(f) /\ e <= f)

DrainAt(d, pc) == d \in scenario.drains /\ drain[d].pc = pc
Goto(d, pc) == drain' = [drain EXCEPT ![d].pc = pc]
Quit(d) == drain' = [drain EXCEPT ![d] = NoDrain]
First(d) == CHOOSE e \in drain[d].batch : \A f \in drain[d].batch : Before(e, f)

\* The ticker fires; the origin learns that the campaign is over and drains
\* before it closes the escrow; the relay's tick.
StartDrain(d) ==
  /\ DrainAt(d, "idle") /\ d # "reopener"
  /\ d = "closer" => campaign # "running" /\ Live(row)
  /\ Goto(d, "fetch")
  /\ UNCHANGED <<coordinator, th, origin, faults>>

\* A pass: the pending rows, payments before finalize.
Fetch(d) ==
  /\ DrainAt(d, "fetch")
  /\ IF Pending = {} THEN IF d = "closer" THEN Goto(d, "look") ELSE Quit(d)
     ELSE drain' = [drain EXCEPT ![d].pc = "row", ![d].batch = Pending,
                                 ![d].acked = {}, ![d].failed = FALSE]
  /\ UNCHANGED <<coordinator, th, origin, faults>>

\* Drop the head of the batch, acknowledging it or noting a failed payment.
Done(d, ack, fail) ==
  drain' = [drain EXCEPT ![d].batch = @ \ {First(d)},
              ![d].acked = IF ack THEN @ \cup {First(d)} ELSE @,
              ![d].failed = @ \/ fail,
              ![d].pc = IF drain[d].batch = {First(d)} THEN "ack" ELSE "row"]

\* fuzzSettleOutboxAction: by the escrow's status, what to do with a row.

\* Mutant: a closed escrow acknowledges every row.
ClosedDrainsAll(st, e) ==
  IF st = "closed" THEN "drain" ELSE IF st = "bounty_paid" /\ outbox[e].kind = "finding"
  THEN "drain" ELSE "apply"

OutboxAction(st, e) ==
  IF st = "closed" THEN IF IsPay(e) THEN "keep" ELSE "drain"
  ELSE IF st = "bounty_paid" /\ outbox[e].kind = "finding" THEN "drain"
  ELSE "apply"

\* Mutant: a finalize row is applied although a payment of its batch failed.
NeverSkips(d, e) == FALSE

SkipFinalize(d, e) == ~IsPay(e) /\ drain[d].failed

\* The drains of the origin look at the escrow first.
Look(d) ==
  LET e == First(d)
      action == OutboxAction(row.status, e)
  IN /\ DrainAt(d, "row") /\ d # "pusher"
     /\ IF SkipFinalize(d, e) THEN Done(d, FALSE, FALSE)
        ELSE IF action = "apply" THEN Goto(d, "apply")
        ELSE Done(d, action = "drain", FALSE)
     /\ UNCHANGED <<coordinator, th, origin, faults>>

\* Mutant: an already paid bounty is not terminal.
DrainOnDepleted(err) == err = "Depleted"

DrainOnErr(err) == err \in {"Depleted", "AlreadyPaid"}

Apply(d) ==
  LET e == First(d)
      err == SettleErr(e)
  IN /\ DrainAt(d, "apply")
     /\ IF err = "ok" THEN ApplyOnce(e) ELSE UNCHANGED origin
     /\ Done(d, err = "ok" \/ DrainOnErr(err), IsPay(e) /\ err # "ok" /\ ~DrainOnErr(err))
     /\ UNCHANGED <<coordinator, th, faults>>

\* The transaction fails for another reason.  A failed finalize is the last of its
\* batch and, like a failed payment, ends the pull with an error.
ApplyFails(d) ==
  /\ DrainAt(d, "apply")
  /\ Fault
  /\ Done(d, FALSE, TRUE)
  /\ UNCHANGED <<coordinator, th, origin>>

\* The end of a pass: acknowledge and start the next one.  A pass that drained
\* nothing ends a tick; the drain before a close goes on to its look at the
\* outbox unless a payment failed.
Ack(d) ==
  /\ DrainAt(d, "ack") /\ d # "pusher"
  /\ IF drain[d].acked # {}
     THEN /\ outbox' = Acked(drain[d].acked)
          /\ items' = Promoted(drain[d].acked)
          /\ drain' = [drain EXCEPT ![d].pc = "fetch", ![d].acked = {}, ![d].failed = FALSE]
     ELSE /\ IF d = "closer" /\ ~drain[d].failed THEN Goto(d, "look") ELSE Quit(d)
          /\ UNCHANGED <<outbox, items>>
  /\ UNCHANGED <<campaign, th, origin, faults>>

\* A pull that fails ends a tick; the drain before a close may try again.
PullFails(d) ==
  \/ Quit(d)
  \/ d = "closer" /\ drain' = [drain EXCEPT ![d] = [NoDrain EXCEPT !.pc = "fetch", !.attempt = 1]]

FetchFails(d) ==
  /\ DrainAt(d, "fetch")
  /\ Fault
  /\ PullFails(d)
  /\ UNCHANGED <<coordinator, th, origin>>

\* The acknowledgement is lost, cut short, or its answer is.
AckLost(d) ==
  /\ DrainAt(d, "ack") /\ drain[d].acked # {}
  /\ Fault
  /\ \E S \in SUBSET drain[d].acked : \E R \in SUBSET S :
       outbox' = Acked(S) /\ items' = Promoted(R)
  /\ PullFails(d)
  /\ UNCHANGED <<campaign, th, origin>>

\* drainFuzzSettleBeforeClose: an empty outbox counts from the second attempt.
MayClose(d) == Pending = {} /\ drain[d].attempt > 0
LookForPending(d) ==
  /\ DrainAt(d, "look")
  /\ IF MayClose(d) THEN Goto(d, "close")
     ELSE drain' = [drain EXCEPT ![d].pc = "fetch", ![d].attempt = 1]
  /\ UNCHANGED <<coordinator, th, origin, faults>>

\* CancelFuzzEscrow or FinalizeFuzzEscrow.
CloseEscrow(d) ==
  /\ DrainAt(d, "close")
  /\ row' = ClosedRow(row)
  /\ Quit(d)
  /\ UNCHANGED <<coordinator, th, applied, faults>>

\* Attempts run out, or the coordinator does not answer: no close.
RefuseClose(d) ==
  /\ DrainAt(d, "fetch") \/ DrainAt(d, "look")
  /\ d = "closer"
  /\ Quit(d)
  /\ UNCHANGED <<coordinator, th, origin, faults>>

\* handleFuzzEscrowReopenSettleDrain: reopen a closed escrow whose run pool is
\* not used up, with a wallet that covers it, and pull unless told not to.  An
\* escrow that is already open is pulled all the same.
Reopen(d) ==
  LET closed == row.status = "closed"
  IN /\ DrainAt(d, "idle") /\ d = "reopener"
     /\ closed => RunsLeftUnits(row) > 0
     /\ row' = IF closed THEN [row EXCEPT !.status = "open"] ELSE row
     /\ Goto(d, "fetch") \/ UNCHANGED drain
     /\ UNCHANGED <<coordinator, th, applied, faults>>

\* DrainPendingSettleHTTP: one request per row; only an ok is acknowledged.
Push(d) ==
  LET e == First(d)
      ok == SettleErr(e) = "ok"
  IN /\ DrainAt(d, "row") /\ d = "pusher"
     /\ IF SkipFinalize(d, e) THEN Done(d, FALSE, FALSE) /\ UNCHANGED <<outbox, items, origin>>
        ELSE /\ Done(d, FALSE, IsPay(e) /\ ~ok)
             /\ IF ok THEN ApplyOnce(e) /\ outbox' = Acked({e}) /\ items' = Promoted({e})
                ELSE UNCHANGED <<outbox, items, origin>>
     /\ UNCHANGED <<campaign, th, faults>>

\* The request or its answer is lost, or the acknowledgement fails after the
\* origin's ok, which the relay does not count as a failed payment.
PushLost(d) ==
  LET e == First(d)
      ok == SettleErr(e) = "ok"
  IN /\ DrainAt(d, "row") /\ d = "pusher" /\ ~SkipFinalize(d, e)
     /\ Fault
     /\ \/ ok /\ ApplyOnce(e) /\ \E fail \in BOOLEAN : Done(d, FALSE, fail /\ IsPay(e))
        \/ UNCHANGED origin /\ Done(d, FALSE, IsPay(e))
     /\ UNCHANGED <<coordinator, th>>

EndPush(d) ==
  /\ DrainAt(d, "ack") /\ d = "pusher"
  /\ Quit(d)
  /\ UNCHANGED <<coordinator, th, origin, faults>>

----------------------------------------------------------------------------

ThreadStep(t) ==
  /\ UNCHANGED scenario
  /\ \/ Commit(t) \/ InsertFinding(t) \/ StampFinding(t) \/ Flush(t) \/ EnqueueRun(t) \/ StampRun(t)
     \/ EnqueueFinding(t) \/ StampFind(t) \/ CrashBonus(t)
     \/ ReadProgress(t) \/ WriteProgress(t)
     \/ Promote(t) \/ CountPending(t) \/ CountUnpaid(t) \/ Finalize(t)
     \/ Sweep(t) \/ ReplayRun(t) \/ ReplayFinding(t)

DrainStep(d) ==
  /\ UNCHANGED scenario
  /\ \/ StartDrain(d) \/ Fetch(d) \/ Look(d) \/ Apply(d) \/ Ack(d)
     \/ Push(d) \/ EndPush(d)

Next ==
  /\ UNCHANGED scenario
  /\ \/ \E t \in Threads : \/ \E i \in Items, o \in scenario.outcomes : Submit(t, i, o)
                           \/ ThreadStep(t) \/ HandlerFails(t)
                           \/ Tick(t) \/ Cancel(t) \/ Replay(t)
     \/ \E d \in scenario.drains : \/ DrainStep(d) \/ ApplyFails(d) \/ FetchFails(d) \/ AckLost(d)
                          \/ PushLost(d) \/ LookForPending(d) \/ CloseEscrow(d)
                          \/ RefuseClose(d) \/ Reopen(d)
     \/ Crash

Spec == Init /\ [][Next]_vars

\* Handlers finish, the drains' timers fire and their passes go on.
FairSpec ==
  /\ Spec
  /\ \A t \in Threads : WF_vars(ThreadStep(t))
  /\ \A d \in Drains : WF_vars(DrainStep(d))

----------------------------------------------------------------------------
(* Properties.                                                              *)

RunStatus == UnpaidRun \cup {"", "paid"}
FindStatus == UnpaidFind \cup {"", "paid"}
ItemType == [status : {"leased", "done", "cancelled"}, run : RunStatus, runRow : Nat,
             find : FindStatus, findRow : Nat, found : BOOLEAN]
RowType == [kind : Kinds, miner : {Miner[i] : i \in Items} \cup {NoOne},
            item : Nat, status : {"pending", "applied"}]

\* Type invariant of both sides; in particular a stamped row id exists, an
\* applied event has a row, and no pool of the escrow is overdrawn.
TypeOK ==
  /\ campaign \in {"running", "completed", "cancelled"}
  /\ items \in [Items -> ItemType]
  /\ outbox \in Seq(RowType)
  /\ \A i \in Items : {items[i].runRow, items[i].findRow} \subseteq RowIDs \cup {NoRowID}
  /\ applied \subseteq RowIDs
  /\ \A d \in scenario.drains : drain[d].batch \cup drain[d].acked \subseteq RowIDs
  /\ row.runsPaid \in 0..row.runsPool
  /\ row.bountyPaid + row.crashBonus + row.refundedBounty <= row.bountyPool
  /\ faults \in 0..scenario.faults

\* However often an item is submitted, flushed, replayed and delivered, by
\* whatever threads and drains at once, the chain pays its run once, and it has
\* paid no more runs than there are such items.
PaidRuns(i) == {e \in applied : outbox[e].item = i /\ outbox[e].kind \in RunKinds}
RunPaidOnce ==
  /\ \A i \in Items : Cardinality(PaidRuns(i)) <= 1
  /\ row.runsDone = Cardinality({i \in Items : PaidRuns(i) # {}})

\* Why the chain owes nothing for a row: the run pool is used up, or the
\* campaign's bounty or bonus went to another finder or leaves nothing for it.
NothingOwed(kind) ==
  LET bonus == UniqueCrashBonusUnits(row.bountyPool, row.split)
  IN \/ kind \in RunKinds /\ RunsLeftUnits(row) = 0
     \/ kind = "finding" /\ (row.winner # NoOne \/ row.bountyPool <= row.crashBonus)
     \/ kind = "crash_bonus" /\ (row.crashBonus > 0 \/ bonus = 0
                                   \/ row.bountyPool - row.bountyPaid < bonus)

\* An acknowledged payment was applied on the chain or nothing was owed for it:
\* no miner's payout is dropped by a close, a lost answer or a retry (C-01).
AckedWasPaid ==
  \A e \in RowIDs \ Pending : IsPay(e) => e \in applied \/ NothingOwed(outbox[e].kind)

\* An item the coordinator calls paid was paid on the chain, or the run pool was
\* used up.
PaidItemWasPaid ==
  \A i \in Items : items[i].run = "paid" =>
    items[i].runRow \in applied \/ RunsLeftUnits(row) = 0

\* A finalize row refunds the payer only after every payment enqueued before it.
FinalizeOvertakesNone ==
  \A e \in applied' \ applied :
    (~IsPay(e) /\ row.status # "closed") =>
      \A f \in Pending : (IsPay(f) /\ f < e) => f \in applied \/ NothingOwed(outbox[f].kind)
FinalizeIsLast == [][FinalizeOvertakesNone]_vars

\* A closed escrow leaves no run unpaid: neither a pending row nor an intent
\* that will become one ("undrainable heads").
NoStrandedRun ==
  row.status = "closed" =>
    /\ \A e \in Pending : outbox[e].kind \in RunKinds => e \in applied
    /\ \A i \in Items : items[i].run \in UnpaidRun => PaidRuns(i) # {}

\* Every row is settled and acknowledged in the end, and so the finalize row
\* behind it can be.
EventuallyDrained == <>[](Pending = {})
=============================================================================
