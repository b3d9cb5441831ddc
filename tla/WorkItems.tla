----------------------------- MODULE WorkItems -----------------------------
(***************************************************************************)
(* The work items of one Hunt campaign of a customer on the coordinator    *)
(* (internal/poolfuzz): workers claim, prove, submit and release leases;   *)
(* a submit is decided at once (coverage engine) or queued for verifiers   *)
(* that replay it (hunt_replay_async.go); a ticker takes back expired      *)
(* leases and ends items that churn; an admin stops and resumes the        *)
(* campaign.                                                               *)
(*                                                                         *)
(* Every SQL write or transaction is a step, and so is every write of the  *)
(* in-memory track of proven work; a read is a step where what it read is  *)
(* used later.  Evidence is the set of leases it was proved under: a       *)
(* counter is positive when its set is not empty.                          *)
(* Settlement of the result is in SettlePipeline.                          *)
(***************************************************************************)
EXTENDS Naturals, Sequences, FiniteSets

CONSTANTS
  NItems,       \* work items of the campaign, its budget_runs
  DoneBefore,   \* how many of them are done when the behaviour begins
  Workers,
  Handlers,     \* requests the coordinator handles at once
  WorkerOf,     \* [Handlers -> Workers]: whose requests they are
  Verifiers,    \* replay workers of the coordinator or of a verifier node
  MaxAttempts,  \* maxLeaseChurnAttempts (8)
  MaxRetries,   \* huntReplayMaxRetries (8)
  NearDone,     \* remaining items at which the stall sweep acts (2)
  Sweeps,       \* the ticker also sweeps, every twelfth time
  Scenarios     \* campaigns to look at, see ScenarioType

NoOne == "nobody"
Items == 1..NItems

\* A scenario: whether a coverage engine decides a submit or a replay does, and
\* the bounds: leases of an item, stops and resumes by an admin, crashes of the
\* coordinator.
ScenarioType == [engine : BOOLEAN, leases : Nat, stops : Nat, restarts : Nat]

ASSUME WorkItemsAssumption ==
  /\ NItems \in Nat \ {0} /\ DoneBefore \in 0..NItems - 1 /\ Sweeps \in BOOLEAN
  /\ WorkerOf \in [Handlers -> Workers] /\ NoOne \notin Workers \cup Verifiers
  /\ {MaxAttempts, MaxRetries, NearDone} \subseteq Nat
  /\ Scenarios \subseteq ScenarioType

VARIABLES
  scenario,  \* it never changes
  campaign,  \* fuzz_campaigns.status
  item,      \* fuzz_work_items
  mem,       \* leaseProven: evidence of an item, lost by a restart
  queue,     \* fuzz_hunt_replay_queue: the row of an item
  hd,        \* the handlers
  ver,       \* the verifiers
  th,        \* the ticker and the admin
  given,     \* history: given[i][n] is the worker of the n-th lease of item i
  proved,    \* history: the leases the coordinator accepted evidence for
  stops, restarts

vars == <<scenario, campaign, item, mem, queue, hd, ver, th, given, proved, stops, restarts>>
LeaseNo == 1..scenario.leases
history == <<given, proved>>
bounds == <<scenario, stops, restarts>>

Pending == [status |-> "pending", owner |-> NoOne, lease |-> 0, expired |-> FALSE,
            attempts |-> 0, proven |-> {}, ok |-> FALSE, pay |-> "", by |-> 0,
            how |-> "", due |-> FALSE, vanished |-> FALSE]
NoRow == [status |-> "none", id |-> 0, worker |-> NoOne, verifier |-> NoOne,
          retries |-> 0, stale |-> FALSE]
Free == [pc |-> "idle", item |-> 1, lease |-> 0, got |-> {},
         due |-> FALSE, accepts |-> FALSE]
Waiting == [pc |-> "idle", item |-> 1, prev |-> 0, err |-> ""]
Resting == [pc |-> "idle", next |-> "", hits |-> {}]

Init ==
  /\ scenario \in Scenarios
  /\ campaign = "running"
  /\ item = [i \in Items |-> IF i <= DoneBefore
                             THEN [Pending EXCEPT !.status = "done", !.ok = TRUE] ELSE Pending]
  /\ mem = [i \in Items |-> {}]
  /\ queue = [i \in Items |-> NoRow]
  /\ hd = [h \in Handlers |-> Free]
  /\ ver = [v \in Verifiers |-> Waiting]
  /\ th = [t \in {"tick", "admin"} |-> Resting]
  /\ given = [i \in Items |-> << >>]
  /\ proved = [i \in Items |-> {}]
  /\ stops = 0 /\ restarts = 0

Open == {"pending", "leased", "replay_pending"}
Unfinished == {"pending", "processing"}
InStatus(S) == {i \in Items : item[i].status \in S}
Owned(i, w) == item[i].status = "leased" /\ item[i].owner = w
Expired == {i \in InStatus({"leased"}) : item[i].expired}

\* An item whose lease has ended.
Unleased(r, status) == [r EXCEPT !.status = status, !.owner = NoOne, !.expired = FALSE]

\* recomputeProgress; it is split in its read and its write in SettlePipeline.
Progress ==
  campaign' = IF \A i \in Items : item'[i].status = "done" THEN "completed" ELSE campaign

----------------------------------------------------------------------------
(* Leases.                                                                  *)

Request(pc, i, n) == [Free EXCEPT !.pc = pc, !.item = i, !.lease = n]
HStep(h, pc) == hd' = [hd EXCEPT ![h].pc = pc]
HEnds(h) == hd' = [hd EXCEPT ![h] = Free]
HFails(h) == hd' = [hd EXCEPT ![h] = Request("release", hd[h].item, 0)]
HAt(h, pc) == hd[h].pc = pc

\* A lease starts without evidence in the row.
LeasedTo(i, w) ==
  [item[i] EXCEPT !.status = "leased", !.owner = w, !.lease = @ + 1, !.expired = FALSE,
                  !.vanished = FALSE, !.proven = {}]

Lease(i, w) ==
  /\ item[i].lease < scenario.leases
  /\ item' = [item EXCEPT ![i] = LeasedTo(i, w)]
  /\ given' = [given EXCEPT ![i] = Append(@, w)]

\* claimOnePendingInCampaignOpts: the first pending item.  When the claim cannot
\* be put together it is undone.
Claim(h) ==
  /\ HAt(h, "idle") /\ campaign = "running"
  /\ \E i \in InStatus({"pending"}) :
       /\ \A j \in InStatus({"pending"}) : i <= j
       /\ Lease(i, WorkerOf[h])
       /\ \/ UNCHANGED hd
          \/ hd' = [hd EXCEPT ![h] = Request("undo", i, 0)]
  /\ UNCHANGED <<campaign, mem, queue, ver, th, proved, bounds>>

UndoClaim(h) ==
  LET i == hd[h].item
  IN /\ HAt(h, "undo")
     /\ item' = IF Owned(i, WorkerOf[h])
                THEN [item EXCEPT ![i] = Unleased(@, "pending")] ELSE item
     /\ HEnds(h)
     /\ UNCHANGED <<campaign, mem, queue, ver, th, history, bounds>>

\* Phase 3 of ClaimWithOptions: without pending work an expired lease goes to
\* the next worker.  The track is cleared first.
ClaimExpired(h) ==
  /\ HAt(h, "idle") /\ campaign = "running" /\ InStatus({"pending"}) = {}
  /\ \E i \in Expired :
       /\ item[i].lease < scenario.leases
       /\ mem' = [mem EXCEPT ![i] = {}]
       /\ hd' = [hd EXCEPT ![h] = Request("takeover", i, 0)]
  /\ UNCHANGED <<campaign, item, queue, ver, th, history, bounds>>

TakeOver(h) ==
  LET i == hd[h].item
  IN /\ HAt(h, "takeover")
     /\ IF i \in Expired THEN Lease(i, WorkerOf[h]) ELSE UNCHANGED <<item, given>>
     /\ HEnds(h)
     /\ UNCHANGED <<campaign, mem, queue, ver, th, proved, bounds>>

\* lease_until passes.
Expire(i) ==
  /\ item[i].status = "leased" /\ ~item[i].expired
  /\ item' = [item EXCEPT ![i].expired = TRUE]
  /\ UNCHANGED <<campaign, mem, queue, hd, ver, th, history, bounds>>

\* ReleaseWorkLease: by the worker, for a claim it may not keep, or after a
\* submit that failed.  The row first, then the track.
ReleaseRow(h, i) ==
  /\ Owned(i, WorkerOf[h])
  /\ item' = [item EXCEPT ![i] = [Unleased(@, "pending") EXCEPT !.proven = {}]]
  /\ hd' = [hd EXCEPT ![h] = Request("forget", i, 0)]

Release(h, i) ==
  /\ HAt(h, "idle") /\ ReleaseRow(h, i)
  /\ UNCHANGED <<campaign, mem, queue, ver, th, history, bounds>>

GiveBack(h) ==
  LET i == hd[h].item
  IN /\ HAt(h, "release")
     /\ IF Owned(i, WorkerOf[h]) THEN ReleaseRow(h, i) ELSE HEnds(h) /\ UNCHANGED item
     /\ UNCHANGED <<campaign, mem, queue, ver, th, history, bounds>>

Forget(h) ==
  /\ HAt(h, "forget")
  /\ mem' = [mem EXCEPT ![hd[h].item] = {}]
  /\ HEnds(h)
  /\ UNCHANGED <<campaign, item, queue, ver, th, history, bounds>>

----------------------------------------------------------------------------
(* Evidence and the submit of a coverage engine.                            *)

\* A request is for the last lease of the item its worker was given, however late
\* it is: the worker does not see that the lease is over.
Leases(i, w) == {n \in 1..Len(given[i]) : given[i][n] = w}
Given(i, n, w) == n \in Leases(i, w) /\ \A m \in Leases(i, w) : m <= n

\* AcceptResearchCorpusDelta replays the units of a worker that holds the lease,
\* and noteLeaseProvenPersist notes them if it still does: in the row, and after
\* a second look at the owner in the track.
NoteRow(h, i, n) ==
  /\ scenario.engine /\ HAt(h, "idle") /\ Given(i, n, WorkerOf[h]) /\ Owned(i, WorkerOf[h])
  /\ item' = [item EXCEPT ![i].proven = @ \cup {n}]
  /\ proved' = IF item[i].lease = n THEN [proved EXCEPT ![i] = @ \cup {n}] ELSE proved
  /\ hd' = [hd EXCEPT ![h] = Request("recheck", i, n)]
  /\ UNCHANGED <<campaign, mem, queue, ver, th, given, bounds>>

Recheck(h) ==
  /\ HAt(h, "recheck")
  /\ IF Owned(hd[h].item, WorkerOf[h]) THEN HStep(h, "track") ELSE HEnds(h)
  /\ UNCHANGED <<campaign, item, mem, queue, ver, th, history, bounds>>

NoteTrack(h) ==
  /\ HAt(h, "track")
  /\ mem' = [mem EXCEPT ![hd[h].item] = @ \cup {hd[h].lease}]
  /\ HEnds(h)
  /\ UNCHANGED <<campaign, item, queue, ver, th, history, bounds>>

\* Mutant: the row's counters are only a report.
TrackOnly(i) == mem[i]

\* takeLeaseProvenPersist: the track and the row.
Proven(i) == mem[i] \cup item[i].proven

\* SubmitWithOutcome of an engine.  The item was leased, to whomever, when the
\* wall check looked at it; the verification then takes a while (its verdict is
\* drawn in Finish), and the track is taken from whoever holds the lease now.
SubmitEngine(h, i, n) ==
  /\ scenario.engine /\ HAt(h, "idle") /\ Given(i, n, WorkerOf[h]) /\ item[i].status # "done"
  /\ hd' = [hd EXCEPT ![h] = [Request("stamp", i, n) EXCEPT !.got = Proven(i),
                                !.due = item[i].lease = n /\ n \in proved[i]]]
  /\ mem' = [mem EXCEPT ![i] = {}]
  /\ UNCHANGED <<campaign, item, queue, ver, th, history, bounds>>

\* stampHuntProvenOnSubmit, then finalizeHuntSubmit asks whether the campaign
\* still settles.
Stamp(h) ==
  LET i == hd[h].item
  IN /\ HAt(h, "stamp")
     /\ item' = IF Owned(i, WorkerOf[h])
                THEN [item EXCEPT ![i].proven = hd[h].got] ELSE item
     /\ hd' = [hd EXCEPT ![h].pc = "finish", ![h].accepts = campaign # "cancelled"]
     /\ UNCHANGED <<campaign, mem, queue, ver, th, history, bounds>>

\* DecideHuntEnginePay: proven work earns the full run, a clean run the floor.
\* (A confirmed finding earns the full run too; it is in SettlePipeline.)
EnginePay(h, clean) ==
  IF ~clean \/ ~hd[h].accepts THEN ""
  ELSE IF hd[h].got # {} THEN "full" ELSE "floor"

\* Mutant: a done item is written again.
MayFinishAgain(h) == Owned(hd[h].item, WorkerOf[h]) \/ item[hd[h].item].status = "done"

\* finalizeHuntSubmit of a leased item: done for the owner.
MayFinish(h) == Owned(hd[h].item, WorkerOf[h])
FinishedItem(h, r, clean) ==
  [Unleased(r, "done") EXCEPT !.attempts = @ + 1, !.ok = clean, !.pay = EnginePay(h, clean),
                              !.by = hd[h].lease, !.how = "submit", !.due = hd[h].due]
Finish(h) ==
  LET i == hd[h].item
  IN /\ HAt(h, "finish")
     /\ IF MayFinish(h)
        THEN /\ \E clean \in BOOLEAN : item' = [item EXCEPT ![i] = FinishedItem(h, @, clean)]
             /\ HEnds(h)
        ELSE /\ UNCHANGED item
             /\ IF item[i].status = "done" THEN HEnds(h) ELSE HFails(h)
     /\ Progress
     /\ UNCHANGED <<mem, queue, ver, th, history, bounds>>

\* An error of the verification or of a write.  The lease is given back when the
\* worker's payout address is proven.
SubmitFails(h) ==
  /\ hd[h].pc \in {"stamp", "finish"}
  /\ HFails(h) \/ HEnds(h)
  /\ UNCHANGED <<campaign, item, mem, queue, ver, th, history, bounds>>

----------------------------------------------------------------------------
(* The replay queue.                                                        *)

\* ensureHuntReplayQueueRowTx: the first writer of a row stays its worker, and a
\* row that is decided or being replayed keeps its status.
EnsuredRow(i, w) ==
  LET r == queue[i]
  IN IF r.status = "none"
     THEN [NoRow EXCEPT !.status = "pending", !.worker = w,
             !.id = 1 + Cardinality({j \in Items : queue[j].status # "none"})]
     ELSE [r EXCEPT !.retries = IF r.status \in {"done", "failed"} THEN @ ELSE 0,
                    !.stale = FALSE]

\* enqueueHuntReplay, in one transaction.  A repeated submit changes nothing but
\* the row's error; another worker's is refused.
EnqueueReplay(h, i, n) ==
  /\ ~scenario.engine /\ HAt(h, "idle") /\ Given(i, n, WorkerOf[h])
  /\ \/ /\ Owned(i, WorkerOf[h])
        /\ item' = [item EXCEPT ![i] = [Unleased(@, "replay_pending") EXCEPT !.by = n]]
     \/ /\ item[i].status = "replay_pending" /\ queue[i].worker \in {WorkerOf[h], NoOne}
        /\ UNCHANGED item
  /\ queue' = [queue EXCEPT ![i] = EnsuredRow(i, WorkerOf[h])]
  /\ UNCHANGED <<campaign, mem, hd, ver, th, history, bounds>>

VStep(v, pc) == ver' = [ver EXCEPT ![v].pc = pc]
VEnds(v) == ver' = [ver EXCEPT ![v] = Waiting]
VAt(v, pc) == ver[v].pc = pc
VFails(v, err) == ver' = [ver EXCEPT ![v].pc = "failed", ![v].err = err]
Job(v) == queue[ver[v].item]

\* huntReplayRetryable tells an error that is worth a retry from one that is not.
Errors == {"busy", "fatal"}

\* A processing row has not been touched for huntReplayStaleProcessingSec.
Age(i) ==
  /\ queue[i].status = "processing" /\ ~queue[i].stale
  /\ queue' = [queue EXCEPT ![i].stale = TRUE]
  /\ UNCHANGED <<campaign, item, mem, hd, ver, th, history, bounds>>

\* reclaimStaleHuntReplayJobs, before a verifier looks for a job.
Stale == {i \in Items : queue[i].status = "processing" /\ queue[i].stale}
ReclaimStale(v) ==
  /\ VAt(v, "idle") /\ Stale # {}
  /\ queue' = [i \in Items |->
       IF i \in Stale THEN [queue[i] EXCEPT !.status = "pending", !.verifier = NoOne,
                                            !.stale = FALSE]
       ELSE queue[i]]
  /\ UNCHANGED <<campaign, item, mem, hd, ver, th, history, bounds>>

\* processNextHuntReplayJob: the oldest pending row.
TakeJob(v) ==
  LET todo == {i \in Items : queue[i].status = "pending"}
  IN /\ VAt(v, "idle")
     /\ \E i \in todo :
          /\ \A j \in todo : queue[i].id <= queue[j].id
          /\ queue' = [queue EXCEPT ![i].status = "processing", ![i].verifier = v,
                                    ![i].stale = FALSE]
          /\ ver' = [ver EXCEPT ![v] = [Waiting EXCEPT !.pc = "check", !.item = i,
                                          !.prev = queue[i].retries]]
     /\ UNCHANGED <<campaign, item, mem, hd, th, history, bounds>>

\* touchHuntReplayJob, whoever owns the row.
Touched(v) ==
  [queue EXCEPT ![ver[v].item].stale = IF Job(v).status = "processing" THEN FALSE ELSE @]

\* runHuntReplayJob: a stopped campaign cancels the item.
Check(v) ==
  /\ VAt(v, "check")
  /\ queue' = Touched(v)
  /\ VStep(v, IF campaign = "running" THEN "replay" ELSE "cancel")
  /\ UNCHANGED <<campaign, item, mem, hd, th, history, bounds>>

CancelItem(v) ==
  LET i == ver[v].item
  IN /\ VAt(v, "cancel")
     /\ item' = IF item[i].status = "replay_pending"
                THEN [item EXCEPT ![i] = Unleased(@, "cancelled")] ELSE item
     /\ VFails(v, "fatal")
     /\ UNCHANGED <<campaign, mem, queue, hd, th, history, bounds>>

\* onProgress keeps the row fresh.
Touch(v) ==
  /\ VAt(v, "replay") /\ Job(v).stale
  /\ queue' = Touched(v)
  /\ UNCHANGED <<campaign, item, mem, hd, ver, th, history, bounds>>

\* evalHuntSubmitCheckProgress: a verdict, drawn in CommitReplay, or an error.
Replay(v) ==
  /\ VAt(v, "replay")
  /\ \/ VStep(v, "own")
     \/ \E err \in Errors : VFails(v, err)
  /\ UNCHANGED <<campaign, item, mem, queue, hd, th, history, bounds>>

\* huntReplayStillOwned.
StillOwned(v) == Job(v).status = "processing" /\ Job(v).verifier = v
OwnerCheck(v) ==
  /\ VAt(v, "own")
  /\ IF StillOwned(v) THEN VStep(v, "commit") ELSE VFails(v, "lost")
  /\ UNCHANGED <<campaign, item, mem, queue, hd, th, history, bounds>>

\* finalizeHuntSubmit of a replayed item.  An item that is already done only has
\* its payout flushed.
ReplayedItem(r, clean) ==
  [Unleased(r, "done") EXCEPT !.attempts = @ + 1, !.ok = clean, !.how = "replay",
                              !.pay = IF clean /\ campaign # "cancelled" THEN "full" ELSE ""]
CommitReplay(v) ==
  LET i == ver[v].item
  IN /\ VAt(v, "commit")
     /\ \/ /\ item[i].status = "replay_pending"
           /\ \E clean \in BOOLEAN : item' = [item EXCEPT ![i] = ReplayedItem(@, clean)]
           /\ VStep(v, "progress")
        \/ item[i].status = "done" /\ VStep(v, "progress") /\ UNCHANGED item
        \/ item[i].status \notin {"done", "replay_pending"} /\ VFails(v, "fatal") /\ UNCHANGED item
        \/ \E err \in Errors : VFails(v, err) /\ UNCHANGED item
     /\ UNCHANGED <<campaign, mem, queue, hd, th, history, bounds>>

\* The payout is flushed, which may fail and be worth a retry, and the progress
\* recomputed.
VProgress(v) ==
  /\ VAt(v, "progress")
  /\ UNCHANGED item
  /\ \/ Progress /\ VStep(v, "close")
     \/ \E err \in Errors : VFails(v, err) /\ UNCHANGED campaign
  /\ UNCHANGED <<mem, queue, hd, th, history, bounds>>

CloseJob(v) ==
  /\ VAt(v, "close")
  /\ queue' = [queue EXCEPT ![ver[v].item].status = "done", ![ver[v].item].retries = 0]
  /\ VEnds(v)
  /\ UNCHANGED <<campaign, item, mem, hd, th, history, bounds>>

\* Mutant: one retry too many.
RetriesOnceMore(v) == ver[v].err = "busy" /\ ver[v].prev <= MaxRetries

\* A failed job: the item's status decides between closing, retrying and failing
\* it.
MayRetry(v) == ver[v].err = "busy" /\ ver[v].prev < MaxRetries
ReadItem(v) ==
  /\ VAt(v, "failed")
  /\ VStep(v, IF MayRetry(v) THEN "retry"
              ELSE IF item[ver[v].item].status = "done" THEN "close" ELSE "reject")
  /\ UNCHANGED <<campaign, item, mem, queue, hd, th, history, bounds>>

RetryJob(v) ==
  LET i == ver[v].item
  IN /\ VAt(v, "retry")
     /\ queue' = IF Job(v).status = "processing"
                 THEN [queue EXCEPT ![i].status = "pending", ![i].verifier = NoOne,
                                    ![i].retries = ver[v].prev + 1, ![i].stale = FALSE]
                 ELSE queue
     /\ VEnds(v)
     /\ UNCHANGED <<campaign, item, mem, hd, th, history, bounds>>

\* Mutant: only the queue is told.
RejectRowOnly(v) ==
  /\ VAt(v, "reject")
  /\ queue' = [queue EXCEPT ![ver[v].item].status = "failed", ![ver[v].item].retries = 0]
  /\ VEnds(v)
  /\ UNCHANGED <<campaign, item, mem, hd, th, history, bounds>>

RejectJob(v) ==
  /\ VAt(v, "reject")
  /\ queue' = [queue EXCEPT ![ver[v].item].status = "failed", ![ver[v].item].retries = 0]
  /\ VStep(v, "rejectItem")
  /\ UNCHANGED <<campaign, item, mem, hd, th, history, bounds>>

\* Mutant: the item is rejected whatever has become of it.
RejectedAnyway(v) == TRUE

StillWaiting(v) == item[ver[v].item].status = "replay_pending"
RejectItem(v) ==
  LET i == ver[v].item
  IN /\ VAt(v, "rejectItem")
     /\ item' = IF StillWaiting(v)
                THEN [item EXCEPT ![i] = [Unleased(@, "done") EXCEPT !.ok = FALSE, !.how = "rejected"]]
                ELSE item
     /\ VEnds(v)
     /\ UNCHANGED <<campaign, mem, queue, hd, th, history, bounds>>

----------------------------------------------------------------------------
(* The ticker and the admin.                                                *)

TStep(t, pc) == th' = [th EXCEPT ![t].pc = pc]
TEnds(t) == th' = [th EXCEPT ![t] = Resting]
TAt(t, pc) == th[t].pc = pc

\* SetCampaignStatus: the campaign, then its open items, then their rows.
StopCampaign(t, status, then) ==
  /\ campaign' = status
  /\ th' = [th EXCEPT ![t].pc = "items", ![t].next = then]

StopItems(t) ==
  /\ TAt(t, "items")
  /\ item' = [i \in Items |-> IF item[i].status \in Open
                              THEN [item[i] EXCEPT !.status = "cancelled"] ELSE item[i]]
  /\ TStep(t, "rows")
  /\ UNCHANGED <<campaign, mem, queue, hd, ver, history, bounds>>

FailedRow(r) ==
  IF r.status \in Unfinished THEN [r EXCEPT !.status = "failed", !.retries = 0] ELSE r

StopRows(t) ==
  /\ TAt(t, "rows")
  /\ queue' = [i \in Items |-> IF queue[i].status \in Unfinished
                               THEN [FailedRow(queue[i]) EXCEPT !.verifier = NoOne]
                               ELSE queue[i]]
  /\ IF th[t].next = "idle" THEN TEnds(t) ELSE TStep(t, th[t].next)
  /\ UNCHANGED <<campaign, item, mem, hd, ver, history, bounds>>

\* Tick, ReclaimExpiredLeases: the tracks of the expired leases, then their rows.
Tick ==
  /\ TAt("tick", "idle")
  /\ mem' = [i \in Items |-> IF i \in Expired THEN {} ELSE mem[i]]
  /\ TStep("tick", "reclaim")
  /\ UNCHANGED <<campaign, item, queue, hd, ver, history, bounds>>

\* Mutant: what a vanished worker proved goes with its lease.
ReclaimedWithoutProof(i) ==
  [Unleased(item[i], "pending") EXCEPT !.attempts = @ + 1, !.vanished = TRUE, !.proven = {}]

Reclaimed(i) ==
  [Unleased(item[i], "pending") EXCEPT !.attempts = @ + 1, !.vanished = TRUE]
ReclaimExpired ==
  /\ TAt("tick", "reclaim")
  /\ item' = [i \in Items |-> IF i \in Expired THEN Reclaimed(i) ELSE item[i]]
  /\ TStep("tick", "churn")
  /\ UNCHANGED <<campaign, mem, queue, hd, ver, history, bounds>>

\* ForceCompleteLeaseChurnItems and ForceCompleteStalledNearDoneCampaigns: which
\* items, and whether something was proved on them, is read first.
Hits(S) == {<<i, item[i].proven # {}>> : i \in S}
Churning ==
  {i \in InStatus(Open) : campaign = "running" /\ item[i].attempts >= MaxAttempts}

\* The ticker ends the items of S one by one and goes on with next.
EndByForce(S, next) ==
  th' = [th EXCEPT !["tick"].pc = IF S = {} THEN next ELSE "force",
                   !["tick"].next = next, !["tick"].hits = Hits(S)]

\* Every twelfth tick goes on with the sweeps.
SelectChurn(sweep) ==
  /\ TAt("tick", "churn") /\ (sweep => Sweeps)
  /\ EndByForce(Churning, IF sweep THEN "old" ELSE "repair")
  /\ UNCHANGED <<campaign, item, mem, queue, hd, ver, history, bounds>>

FirstHit == CHOOSE x \in th["tick"].hits : \A y \in th["tick"].hits : x[1] <= y[1]
NextHit ==
  LET left == th["tick"].hits \ {FirstHit}
  IN th' = [th EXCEPT !["tick"].pc = IF left = {} THEN th["tick"].next ELSE "force",
                      !["tick"].hits = left]

\* forceCompleteWorkItem: the item, its replay row, the progress.
ForcedItem(r) ==
  [Unleased(r, "done") EXCEPT !.attempts = @ + 1, !.ok = FirstHit[2], !.how = "forced"]
ForceItem ==
  LET i == FirstHit[1]
  IN /\ TAt("tick", "force")
     /\ IF item[i].status \in Open
        THEN /\ item' = [item EXCEPT ![i] = ForcedItem(@)]
             /\ TStep("tick", "forceRow")
        ELSE NextHit /\ UNCHANGED item
     /\ UNCHANGED <<campaign, mem, queue, hd, ver, history, bounds>>

ForceRow ==
  LET i == FirstHit[1]
  IN /\ TAt("tick", "forceRow")
     /\ queue' = [queue EXCEPT ![i] = FailedRow(@)]
     /\ TStep("tick", "forced")
     /\ UNCHANGED <<campaign, item, mem, hd, ver, history, bounds>>

Forced ==
  /\ TAt("tick", "forced")
  /\ UNCHANGED item /\ Progress
  /\ NextHit
  /\ UNCHANGED <<mem, queue, hd, ver, history, bounds>>

\* CancelStuckExpiredLeaseCampaigns, CancelZeroProgressPoolCampaigns: a campaign
\* that is old enough and has no finished item is cancelled.
CancelHopeless(old) ==
  /\ TAt("tick", "old") /\ (old => campaign = "running" /\ InStatus({"done"}) = {})
  /\ IF old THEN StopCampaign("tick", "cancelled", "stalled")
     ELSE TStep("tick", "stalled") /\ UNCHANGED campaign
  /\ UNCHANGED <<item, mem, queue, hd, ver, history, bounds>>

\* Mutant: items that wait for their replay are left out.
LeftoverLeases == InStatus({"pending", "leased"})

\* The last NearDone items of a campaign that has not moved for a while.
Leftover == InStatus(Open)
NearlyDone ==
  /\ campaign = "running" /\ InStatus({"done"}) # {}
  /\ Cardinality(Items \ InStatus({"done"})) \in 1..NearDone

\* CancelPendingOfFinishedCampaigns, then
\* ForceCompleteStalledNearDoneCampaigns for a running one.
SweepStalled(stalled) ==
  /\ TAt("tick", "stalled") /\ (stalled => NearlyDone)
  /\ item' = [i \in Items |->
       IF campaign \in {"completed", "cancelled"} /\ item[i].status = "pending"
       THEN [item[i] EXCEPT !.status = "cancelled"] ELSE item[i]]
  /\ EndByForce(IF stalled THEN Leftover ELSE {}, "repair")
  /\ UNCHANGED <<campaign, mem, queue, hd, ver, history, bounds>>

\* reconcileActiveCampaignWork of an active campaign, after a tick or a resume:
\* completed when everything is done, and cancelled items come back when nothing
\* else can be claimed.
Repair(t) ==
  /\ TAt(t, "repair")
  /\ IF campaign = "running" /\ InStatus({"done"}) = Items
     THEN StopCampaign(t, "completed", "idle")
     ELSE /\ UNCHANGED campaign
          /\ IF /\ campaign = "running" /\ InStatus({"cancelled"}) # {}
                /\ InStatus({"pending"}) \cup Expired = {}
             THEN TStep(t, "revive") ELSE TEnds(t)
  /\ UNCHANGED <<item, mem, queue, hd, ver, history, bounds>>

Revive(t) ==
  /\ TAt(t, "revive")
  /\ item' = [i \in Items |->
       IF item[i].status = "cancelled"
       THEN [Unleased(item[i], "pending") EXCEPT !.attempts = 0] ELSE item[i]]
  /\ TEnds(t)
  /\ UNCHANGED <<campaign, mem, queue, hd, ver, history, bounds>>

\* The admin pauses or cancels the campaign (so does the sweep that finds its
\* harness gone), or resumes or registers it again.
Admin ==
  /\ TAt("admin", "idle") /\ stops < scenario.stops /\ stops' = stops + 1
  /\ \/ \E status \in {"paused", "cancelled"} : StopCampaign("admin", status, "idle")
     \/ campaign # "running" /\ campaign' = "running" /\ TStep("admin", "repair")
  /\ UNCHANGED <<scenario, item, mem, queue, hd, ver, history, restarts>>

\* The coordinator crashes and starts again: what it had in memory is gone.
Restart ==
  /\ restarts < scenario.restarts /\ restarts' = restarts + 1
  /\ mem' = [i \in Items |-> {}]
  /\ hd' = [h \in Handlers |-> Free]
  /\ ver' = [v \in Verifiers |-> Waiting]
  /\ th' = [t \in DOMAIN th |-> Resting]
  /\ UNCHANGED <<scenario, campaign, item, queue, history, stops>>

----------------------------------------------------------------------------

HandlerStep(h) ==
  \/ UndoClaim(h) \/ TakeOver(h) \/ GiveBack(h) \/ Forget(h)
  \/ Recheck(h) \/ NoteTrack(h) \/ Stamp(h) \/ Finish(h)

VerifierStep(v) ==
  \/ ReclaimStale(v) \/ TakeJob(v) \/ Check(v) \/ CancelItem(v) \/ Replay(v) \/ OwnerCheck(v)
  \/ CommitReplay(v) \/ VProgress(v) \/ CloseJob(v)
  \/ ReadItem(v) \/ RetryJob(v) \/ RejectJob(v) \/ RejectItem(v)

ThreadStep(t) == StopItems(t) \/ StopRows(t) \/ Repair(t) \/ Revive(t)

TickStep ==
  \/ Tick \/ ReclaimExpired
  \/ \E sweep \in BOOLEAN : SelectChurn(sweep)
  \/ ForceItem \/ ForceRow \/ Forced
  \/ \E old \in BOOLEAN : CancelHopeless(old)
  \/ \E stalled \in BOOLEAN : SweepStalled(stalled)

Next ==
  \/ \E h \in Handlers :
       \/ HandlerStep(h) \/ SubmitFails(h) \/ Claim(h) \/ ClaimExpired(h)
       \/ \E i \in Items : \/ Release(h, i)
                            \/ \E n \in LeaseNo : \/ NoteRow(h, i, n) \/ SubmitEngine(h, i, n)
                                                 \/ EnqueueReplay(h, i, n)
  \/ \E v \in Verifiers : VerifierStep(v) \/ Touch(v)
  \/ \E i \in Items : Expire(i) \/ Age(i)
  \/ \E t \in DOMAIN th : ThreadStep(t)
  \/ TickStep \/ Admin \/ Restart

Spec == Init /\ [][Next]_vars

\* Handlers, verifiers, the ticker and the admin's requests go on; time passes
\* for an untouched row; every twelfth tick sweeps, and the ages the sweeps ask
\* for are reached.  Workers owe nothing.
FairSpec ==
  /\ Spec
  /\ \A h \in Handlers : WF_vars(HandlerStep(h))
  /\ \A v \in Verifiers : WF_vars(VerifierStep(v))
  /\ \A i \in Items : WF_vars(Age(i))
  /\ WF_vars(ThreadStep("tick") \/ TickStep) /\ WF_vars(ThreadStep("admin"))
  /\ SF_vars(SelectChurn(TRUE)) /\ SF_vars(CancelHopeless(TRUE)) /\ SF_vars(SweepStalled(TRUE))

----------------------------------------------------------------------------
(* Properties.                                                              *)

ItemType ==
  [status : Open \cup {"done", "cancelled"}, owner : Workers \cup {NoOne},
   lease : 0..scenario.leases, expired : BOOLEAN, attempts : Nat, proven : SUBSET LeaseNo,
   ok : BOOLEAN, pay : {"", "floor", "full"}, by : 0..scenario.leases,
   how : {"", "submit", "replay", "forced", "rejected"},
   due : BOOLEAN, vanished : BOOLEAN]
RowType ==
  [status : Unfinished \cup {"none", "done", "failed"}, id : 0..NItems,
   worker : Workers \cup {NoOne}, verifier : Verifiers \cup {NoOne},
   retries : 0..MaxRetries, stale : BOOLEAN]

\* Type invariant; in particular a row's id is its own, and a leased item belongs
\* to the worker that was given its last lease.
TypeOK ==
  /\ campaign \in {"running", "paused", "completed", "cancelled"}
  /\ item \in [Items -> ItemType]
  /\ mem \in [Items -> SUBSET LeaseNo]
  /\ queue \in [Items -> RowType]
  /\ \A i, j \in Items : queue[i].id = queue[j].id => i = j \/ queue[i].id = 0
  /\ \A i \in Items : item[i].lease = Len(given[i])
  /\ \A i \in InStatus({"leased"}) : Given(i, item[i].lease, item[i].owner)
  /\ stops \in 0..scenario.stops /\ restarts \in 0..scenario.restarts

\* A worker that waits for its answers and whose evidence the coordinator had
\* accepted when its submit arrived is not paid the floor, whatever other
\* workers' submits, restarts and late requests do to the track in between (the
\* durable counters, M3).
EvidenceIsPaid ==
  \A i \in InStatus({"done"}) :
    item[i].pay = "floor" /\ item[i].due => item[i].by # item[i].lease

\* What a vanished worker proved still counts when its item is ended for it.
VanishedProofCounts ==
  \A i \in InStatus({"done"}) :
    item[i].how = "forced" /\ item[i].vanished /\ ~item[i].ok => item[i].lease \notin proved[i]

\* Once an item is done neither its result nor its payee changes: no late
\* submit, verifier, sweep, stop or resume touches it.
Result(i) == <<item[i].ok, item[i].pay, item[i].by, item[i].how>>
DoneStays ==
  \A i \in InStatus({"done"}) : item'[i].status = "done" /\ Result(i)' = Result(i)
DoneIsFinal == [][DoneStays]_vars

\* While nothing crashed and nobody stopped the campaign, an item that waits for
\* its replay has a job that is open or being given up.
ReplayHasJob ==
  restarts = 0 /\ stops = 0 =>
    \A i \in InStatus({"replay_pending"}) :
      \/ queue[i].status \in Unfinished
      \/ \E v \in Verifiers : ver[v].item = i /\ VAt(v, "rejectItem")

\* A submitted shard of a running campaign is decided, whatever crashes between
\* two statements and however verifiers fail.
ReplayEnds ==
  \A i \in Items :
    item[i].status = "replay_pending" ~> item[i].status # "replay_pending" \/ campaign # "running"
=============================================================================
