---------------------------- MODULE WorkManager ----------------------------
(***************************************************************************)
(* The work manager of the coordinator (cmd/coordinator/work.go): nonce    *)
(* ranges leased to workers, submits that credit a worker within the day   *)
(* budget, a found block relayed while the lock is released, the durable   *)
(* copy of the credits (work_accrual_persist.go), revoking and pruning     *)
(* workers, and the binding of a worker to its payout address              *)
(* (work_dedup.go).                                                        *)
(*                                                                         *)
(* A critical section of m.mu is one step, except where it writes to the   *)
(* database twice or takes payoutLockMu: then mu names its holder between  *)
(* the steps.  A database statement or transaction is one step.            *)
(***************************************************************************)
EXTENDS Naturals, FiniteSets

CONSTANTS
  Workers,
  Addresses,     \* payout addresses of the workers' keys
  Handlers,      \* HTTP requests handled at once
  Persists,      \* goroutines of persistWorkerAccrual at once
  DayBudget,     \* poolDailyBudgetHMC, in units
  Payouts,       \* what a submit may be worth before the budget, in units
  Revokes,       \* values of "permaban" an admin revokes with
  IgnorePayout,  \* values of "ignore_payout" of a prune
  Midnight,      \* TRUE: a day may end between a submit's entry and its credit
  MaxRanges,     \* bound: ranges taken from the nonce space
  MaxClaims,     \* bound: claims
  MaxDays,       \* bound: days
  MaxEvents,     \* bound: revokes, prunes, unbinds, flushes and midnights
  MaxCrashes     \* bound: crashes

NoOne == "nobody"
Admin == "admin"
NoAddress == "none"
Ranges == 1..MaxRanges
Days == 1..MaxDays

ASSUME WorkManagerAssumption ==
  /\ DayBudget \in Nat /\ Payouts \subseteq Nat
  /\ Revokes \subseteq BOOLEAN /\ IgnorePayout \subseteq BOOLEAN /\ Midnight \in BOOLEAN
  /\ MaxRanges \in Nat /\ MaxClaims \in Nat /\ MaxDays \in Nat \ {0} /\ MaxEvents \in Nat /\ MaxCrashes \in Nat
  /\ NoAddress \notin Addresses /\ NoOne \notin Workers
  /\ {NoOne, Admin} \cap (Handlers \cup Persists) = {} /\ Handlers \cap Persists = {}

VARIABLES
  active,     \* m.active: the lease of a range
  next,       \* m.nextNonce: ranges taken so far
  worker,     \* m.worker: a worker's row in memory
  epoch,      \* m.accrualEpoch
  banned,     \* m.abuse: workers banned for good
  pay,        \* m.poolPayDayID and m.poolPayAccruedDay
  mu, payoutLockMu,
  hd, ps, adm,  \* the handlers, the persists and the admin's revoke
  accrual,    \* worker_accrual
  revoked,    \* worker_accrual_revoked, the tombstones
  lockRow,    \* worker_payout_lock
  payRow,     \* pool_pay_day
  banFile,    \* the permaban file
  today,
  earned,     \* history: units credited to a worker since it was last revoked
  spent,      \* history: units credited by the submits of a day
  paidFor,    \* history: how often a range was credited
  lifted,     \* history: banned workers whose ban a prune or a strike lifted
  claims, events, crashes

memory == <<active, worker, epoch, banned, pay>>
locks == <<mu, payoutLockMu>>
procs == <<hd, ps, adm>>
tables == <<accrual, revoked, lockRow, payRow, banFile>>
history == <<earned, spent, paidFor, lifted>>
bounds == <<claims, events, crashes>>
vars == <<memory, next, locks, procs, tables, today, history, bounds>>

NoLease == [w |-> NoOne, live |-> FALSE]
NoRow == [units |-> 0, addr |-> NoAddress, there |-> FALSE]
Idle == [pc |-> "idle", op |-> "", w |-> NoOne, a |-> NoAddress, r |-> 1,
         day |-> 1, units |-> 0, row |-> NoRow]
Asleep == [pc |-> "idle", w |-> NoOne, row |-> NoRow, epoch |-> 0]
Still == [pc |-> "idle", w |-> NoOne, ban |-> FALSE]

Init ==
  /\ active = [r \in Ranges |-> NoLease] /\ next = 0
  /\ worker = [w \in Workers |-> NoRow]
  /\ epoch = [w \in Workers |-> 0]
  /\ banned = {} /\ banFile = {}
  /\ pay = [day |-> 1, units |-> 0] /\ payRow = [d \in Days |-> 0] /\ today = 1
  /\ mu = NoOne /\ payoutLockMu = NoOne
  /\ hd = [h \in Handlers |-> Idle]
  /\ ps = [p \in Persists |-> Asleep]
  /\ adm = Still
  /\ accrual = [w \in Workers |-> NoRow]
  /\ revoked = {}
  /\ lockRow = [w \in Workers |-> NoAddress]
  /\ earned = [w \in Workers |-> 0]
  /\ spent = [d \in Days |-> 0]
  /\ paidFor = [r \in Ranges |-> 0]
  /\ lifted = {}
  /\ claims = 0 /\ events = 0 /\ crashes = 0

MuFree == mu = NoOne
At(h, pc) == hd[h].pc = pc
Step(h, pc) == hd' = [hd EXCEPT ![h].pc = pc]
Ends(h) == hd' = [hd EXCEPT ![h] = Idle]
Bounded == events < MaxEvents /\ events' = events + 1 /\ UNCHANGED crashes

\* A worker's row with an address, created when it is not there.
WithAddress(row, a) == [row EXCEPT !.addr = a, !.there = TRUE]

----------------------------------------------------------------------------
(* Payout bindings.                                                         *)

\* lockedPayoutAddress, in memory: the address a request of worker w meets, and
\* what the request does next.
Look(h, request) ==
  LET locked == worker[request.w].addr
  IN /\ At(h, "idle") /\ MuFree
     /\ \/ locked = NoAddress /\ hd' = [hd EXCEPT ![h] = [request EXCEPT !.pc = "lookup"]]
        \/ /\ locked # NoAddress
           /\ hd' = [hd EXCEPT ![h] =
                IF request.op = "claim" /\ request.a \notin {NoAddress, locked}
                THEN Idle ELSE [request EXCEPT !.pc = request.op]]
     /\ UNCHANGED <<memory, next, locks, ps, adm, tables, today, history>>

\* The fallback to the durable row; its address is put in memory in a second
\* critical section.
Lookup(h) ==
  LET q == hd[h]
  IN /\ At(h, "lookup")
     /\ hd' = [hd EXCEPT ![h] =
          IF lockRow[q.w] = NoAddress THEN [q EXCEPT !.pc = q.op]
          ELSE [q EXCEPT !.pc = "hydrate", !.row.addr = lockRow[q.w]]]
     /\ UNCHANGED <<memory, next, locks, ps, adm, tables, today, history, bounds>>

Hydrate(h) ==
  LET q == hd[h]
  IN /\ At(h, "hydrate") /\ MuFree
     /\ worker' = IF worker[q.w].addr = NoAddress
                  THEN [worker EXCEPT ![q.w] = WithAddress(@, q.row.addr)] ELSE worker
     /\ hd' = [hd EXCEPT ![h] =
          IF q.op = "claim" /\ q.a \notin {NoAddress, q.row.addr}
          THEN Idle ELSE [q EXCEPT !.pc = q.op, !.row = NoRow]]
     /\ UNCHANGED <<active, epoch, banned, pay, next, locks, ps, adm, tables, today, history, bounds>>

\* persistPayoutLock: the first address stays.
Locked(w, a) == IF lockRow[w] = NoAddress THEN [lockRow EXCEPT ![w] = a] ELSE lockRow

\* notePayoutLock after a claim: the address in memory, then the durable row
\* outside m.mu.
Note(h) ==
  LET q == hd[h]
      cur == IF worker[q.w].addr = NoAddress THEN q.a ELSE worker[q.w].addr
  IN /\ At(h, "note") /\ MuFree
     /\ worker' = [worker EXCEPT ![q.w] = WithAddress(@, cur)]
     /\ Step(h, IF cur = q.a THEN "lock" ELSE "stamp")
     /\ UNCHANGED <<active, epoch, banned, pay, next, locks, ps, adm, tables, today, history, bounds>>

Lock(h) ==
  /\ At(h, "lock") /\ payoutLockMu = NoOne
  /\ lockRow' = Locked(hd[h].w, hd[h].a)
  /\ Step(h, "stamp")
  /\ UNCHANGED <<memory, next, locks, ps, adm, accrual, revoked, payRow, banFile, today, history, bounds>>

\* clearPayoutLock: the durable row under payoutLockMu, then memory under m.mu
\* as well.
Unbind(h) ==
  /\ At(h, "unbind") /\ payoutLockMu = NoOne
  /\ payoutLockMu' = h
  /\ lockRow' = [lockRow EXCEPT ![hd[h].w] = NoAddress]
  /\ Step(h, "clear")
  /\ UNCHANGED <<memory, next, mu, ps, adm, accrual, revoked, payRow, banFile, today, history, bounds>>

Clear(h) ==
  /\ At(h, "clear") /\ MuFree
  /\ worker' = [worker EXCEPT ![hd[h].w].addr = NoAddress]
  /\ payoutLockMu' = NoOne
  /\ Ends(h)
  /\ UNCHANGED <<active, epoch, banned, pay, next, mu, ps, adm, tables, today, history, bounds>>

----------------------------------------------------------------------------
(* Claims.                                                                  *)

StartClaim(h, w, a) ==
  /\ claims < MaxClaims /\ claims' = claims + 1
  /\ Look(h, [Idle EXCEPT !.op = "claim", !.w = w, !.a = a])
  /\ UNCHANGED <<events, crashes>>

StartUnbind(h, w) ==
  /\ Bounded
  /\ Look(h, [Idle EXCEPT !.op = "unbind", !.w = w])
  /\ UNCHANGED claims

\* allowClaimPeer.
Gate(h) ==
  /\ At(h, "claim") /\ MuFree
  /\ IF hd[h].w \in banned THEN Ends(h) ELSE Step(h, "lease")
  /\ UNCHANGED <<memory, next, locks, ps, adm, tables, today, history, bounds>>

\* claim: an expired range of the same batch size goes to this worker; without
\* one the expired leases are dropped and a new range is taken.
Purged == [r \in Ranges |-> IF active[r].live THEN active[r] ELSE NoLease]

Leased(h, r) ==
  hd' = [hd EXCEPT ![h].pc = IF hd[h].a = NoAddress THEN "stamp" ELSE "note", ![h].r = r]

Lease(h) ==
  LET w == hd[h].w
  IN /\ At(h, "lease") /\ MuFree
     /\ \/ \E r \in Ranges :
             /\ active[r] # NoLease /\ ~active[r].live
             /\ active' = [active EXCEPT ![r] = [w |-> w, live |-> TRUE]]
             /\ Leased(h, r)
             /\ UNCHANGED next
        \/ /\ next < MaxRanges /\ next' = next + 1
           /\ active' = [Purged EXCEPT ![next + 1] = [w |-> w, live |-> TRUE]]
           /\ Leased(h, next + 1)
        \/ next = MaxRanges /\ UNCHANGED <<active, next>> /\ Ends(h)
     /\ UNCHANGED <<worker, epoch, banned, pay, locks, ps, adm, tables, today, history, bounds>>

\* The end of a claim: the lease is taken away again when the tip is unknown or the
\* worker claims too often; else noteWorkerClientIP, which makes the worker's row.
Stamp(h) ==
  /\ At(h, "stamp") /\ MuFree
  /\ \/ active' = [active EXCEPT ![hd[h].r] = NoLease] /\ UNCHANGED worker
     \/ worker' = [worker EXCEPT ![hd[h].w].there = TRUE] /\ UNCHANGED active
  /\ Ends(h)
  /\ UNCHANGED <<epoch, banned, pay, next, locks, ps, adm, tables, today, history, bounds>>

Expire(r) ==
  /\ active[r].live
  /\ active' = [active EXCEPT ![r].live = FALSE]
  /\ UNCHANGED <<worker, epoch, banned, pay, next, locks, procs, tables, today, history, bounds>>

----------------------------------------------------------------------------
(* Submits.                                                                 *)

\* allowSubmitPeer, then the first look of prefetchWorkerAccrual.  The time of
\* the submit is taken here.
StartSubmit(h, w, a, r) ==
  /\ At(h, "idle") /\ MuFree /\ w \notin banned /\ r <= next
  /\ hd' = [hd EXCEPT ![h] = [Idle EXCEPT !.pc = IF worker[w].there THEN "enter" ELSE "tomb",
                               !.op = "submit", !.w = w, !.a = a, !.r = r, !.day = today]]
  /\ UNCHANGED <<memory, next, locks, ps, adm, tables, today, history, bounds>>

\* fetchDurableAccrual: tombstone and row are two reads.
FetchTomb(h) ==
  /\ At(h, "tomb")
  /\ Step(h, IF hd[h].w \in revoked THEN "enter" ELSE "row")
  /\ UNCHANGED <<memory, next, locks, ps, adm, tables, today, history, bounds>>

FetchRow(h) ==
  LET row == accrual[hd[h].w]
  IN /\ At(h, "row")
     /\ hd' = [hd EXCEPT ![h].pc = IF row.there THEN "install" ELSE "enter", ![h].row = row]
     /\ UNCHANGED <<memory, next, locks, ps, adm, tables, today, history, bounds>>

Install(h) ==
  LET q == hd[h]
  IN /\ At(h, "install") /\ MuFree
     /\ worker' = IF worker[q.w].there THEN worker ELSE [worker EXCEPT ![q.w] = q.row]
     /\ hd' = [hd EXCEPT ![h].pc = "enter", ![h].row = NoRow]
     /\ UNCHANGED <<active, epoch, banned, pay, next, locks, ps, adm, tables, today, history, bounds>>

\* submit accepts only the lessee, signed by the bound address if signed.
Admitted(q) ==
  /\ active[q.r].w = q.w
  /\ q.a = NoAddress \/ worker[q.w].addr \in {NoAddress, q.a}

\* applyPoolDailyBudget.  When nothing is left the row holds the counter already.
Accrued(day) == IF pay.day = day THEN pay.units ELSE 0
Capped(payout, day) ==
  LET left == IF Accrued(day) < DayBudget THEN DayBudget - Accrued(day) ELSE 0
  IN IF payout <= left THEN payout ELSE left

\* Mutant: the day's counter is not written to pool_pay_day.
ApplyBudgetUnsaved(payout, day) ==
  /\ pay' = [day |-> day, units |-> Accrued(day) + Capped(payout, day)]
  /\ spent' = [spent EXCEPT ![day] = @ + Capped(payout, day)]
  /\ UNCHANGED payRow

ApplyBudget(payout, day) ==
  IF payout = 0 THEN UNCHANGED <<pay, payRow, spent>>
  ELSE LET sum == Accrued(day) + Capped(payout, day)
       IN /\ pay' = [day |-> day, units |-> sum]
          /\ payRow' = [payRow EXCEPT ![day] = sum]
          /\ spent' = [spent EXCEPT ![day] = @ + Capped(payout, day)]

\* go persistWorkerAccrual; one that comes too soon after the last returns at once.
Spawn(w) ==
  \/ UNCHANGED ps
  \/ \E p \in Persists : ps[p].pc = "idle" /\ ps' = [ps EXCEPT ![p] = [Asleep EXCEPT !.pc = "snap", !.w = w]]

\* Mutant: the tombstone of a banned worker is lifted too.
UntombedAlways(w) == revoked \ {w}

\* New credit lifts the tombstone of a worker that is not banned.
Untombed(w) == IF w \in banned THEN revoked ELSE revoked \ {w}

Credit(h, w, a, units) ==
  /\ worker' = [worker EXCEPT ![w] =
       [units |-> @.units + units, there |-> TRUE,
        addr |-> IF @.addr = NoAddress THEN a ELSE @.addr]]
  /\ earned' = [earned EXCEPT ![w] = @ + units]
  /\ revoked' = Untombed(w)
  /\ Spawn(w)
  /\ Ends(h)

\* The lease is gone and the budget charged; the first signed submit of an unbound
\* worker goes on to persistPayoutLock with m.mu held.
Accept(h, payout, day, leases) ==
  LET q == hd[h]
  IN /\ active' = [leases EXCEPT ![q.r] = NoLease]
     /\ paidFor' = [paidFor EXCEPT ![q.r] = @ + 1]
     /\ ApplyBudget(payout, day)
     /\ IF q.a # NoAddress /\ worker[q.w].addr = NoAddress
        THEN /\ mu' = h
             /\ hd' = [hd EXCEPT ![h].pc = "bind", ![h].units = Capped(payout, day)]
             /\ UNCHANGED <<worker, earned, revoked, ps>>
        ELSE Credit(h, q.w, q.a, Capped(payout, day)) /\ UNCHANGED mu
     /\ UNCHANGED <<epoch, banned, next, payoutLockMu, adm, accrual, lockRow, banFile, today, lifted,
                    bounds>>

\* A submit that ends without credit.
Refuse(h, leases) ==
  /\ active' = leases
  /\ Ends(h)
  /\ UNCHANGED <<worker, epoch, banned, pay, next, locks, ps, adm, tables, today, history, bounds>>

\* A submit that fails a check after the lease's: the statistics of its shares may
\* have made a row, or markSubmitOutcome counts a strike against the worker.
Reject(h, leases) ==
  /\ active' = leases
  /\ \/ UNCHANGED worker /\ (Ends(h) \/ Step(h, "strike"))
     \/ worker' = [worker EXCEPT ![hd[h].w].there = TRUE] /\ Ends(h)
  /\ UNCHANGED <<epoch, banned, pay, next, locks, ps, adm, tables, today, history, bounds>>

\* A batch or a rate of finds no worker can have: banned in memory, then striked.
AutoBan(h) ==
  /\ active' = [active EXCEPT ![hd[h].r] = NoLease]
  /\ banned' = banned \cup {hd[h].w}
  /\ Step(h, "strike")
  /\ UNCHANGED <<worker, epoch, pay, next, locks, ps, adm, tables, today, history, bounds>>

\* A strike that reaches the limit sets the end of the ban, also of one for good.
Strike(h) ==
  /\ At(h, "strike") /\ MuFree
  /\ banned' = banned \ {hd[h].w}
  /\ lifted' = lifted \cup (banned \cap {hd[h].w})
  /\ Ends(h)
  /\ UNCHANGED <<active, worker, epoch, pay, next, locks, ps, adm, tables, today, earned, spent, paidFor,
                 bounds>>

\* Mutant: the lease stays while the block is relayed.
LeaseKept(r) == active

\* The lease is consumed before m.mu is released for the relay.
Consumed(r) == [active EXCEPT ![r] = NoLease]

Enter(h) ==
  LET q == hd[h]
  IN /\ At(h, "enter") /\ MuFree
     /\ \/ ~Admitted(q) /\ Refuse(h, active)
        \/ Admitted(q) /\ ~active[q.r].live /\ Refuse(h, [active EXCEPT ![q.r] = NoLease])
        \/ /\ Admitted(q) /\ active[q.r].live
           /\ \/ Reject(h, active) \/ AutoBan(h)
              \/ \E payout \in Payouts : Accept(h, payout, q.day, active)
              \/ /\ active' = Consumed(q.r)
                 /\ Step(h, "relay")
                 /\ UNCHANGED <<worker, epoch, banned, pay, next, locks, ps, adm, tables, today, history, bounds>>

\* The block or the order was not relayed: the lease comes back if its time is not
\* over.  The submit is refused, or its shares are paid without the block.
Restored(q, live) ==
  IF live /\ active[q.r] = NoLease THEN [active EXCEPT ![q.r] = [w |-> q.w, live |-> TRUE]]
  ELSE active

RelayFails(h, live) ==
  LET q == hd[h]
      leases == Restored(q, live)
  IN /\ At(h, "relay") /\ MuFree
     /\ \/ Reject(h, leases)
        \/ /\ leases[q.r].w = q.w /\ leases[q.r].live
           /\ \E payout \in Payouts : Accept(h, payout, today, leases)

\* The block was taken: the consumed lease is paid, or lost to a later check.
RelayDone(h) ==
  /\ At(h, "relay") /\ MuFree
  /\ \/ Reject(h, active)
     \/ \E payout \in Payouts : Accept(h, payout, today, active)

Bind(h) ==
  LET q == hd[h]
  IN /\ At(h, "bind") /\ payoutLockMu = NoOne
     /\ lockRow' = Locked(q.w, q.a)
     /\ Credit(h, q.w, q.a, q.units)
     /\ mu' = NoOne
     /\ UNCHANGED <<active, epoch, banned, pay, next, payoutLockMu, adm, accrual, payRow, banFile,
                    today, spent, paidFor, lifted, bounds>>

----------------------------------------------------------------------------
(* persistWorkerAccrual.                                                    *)

PAt(p, pc) == ps[p].pc = pc
PStep(p, pc) == ps' = [ps EXCEPT ![p].pc = pc]
PEnds(p) == ps' = [ps EXCEPT ![p] = Asleep]

Snapshot(p) ==
  LET w == ps[p].w
  IN /\ PAt(p, "snap") /\ MuFree
     /\ IF worker[w].there
        THEN ps' = [ps EXCEPT ![p].pc = "revoked", ![p].row = worker[w], ![p].epoch = epoch[w]]
        ELSE PEnds(p)
     /\ UNCHANGED <<memory, next, locks, hd, adm, tables, today, history, bounds>>

CheckTomb(p) ==
  /\ PAt(p, "revoked")
  /\ PStep(p, IF ps[p].w \in revoked THEN "drop" ELSE "upsert")
  /\ UNCHANGED <<memory, next, locks, hd, adm, tables, today, history, bounds>>

Drop(p) ==
  /\ PAt(p, "drop")
  /\ accrual' = [accrual EXCEPT ![ps[p].w] = NoRow]
  /\ PEnds(p)
  /\ UNCHANGED <<memory, next, locks, hd, adm, revoked, lockRow, payRow, banFile, today, history, bounds>>

\* The transaction: the tombstone again, then the row if the snapshot is not
\* behind it.  It may fail.
\* Mutant: the last writer wins.
AnySnapshot(row, old) == TRUE
NotBehind(row, old) == row.units >= old.units

Upsert(p) ==
  LET w == ps[p].w
  IN /\ PAt(p, "upsert")
     /\ IF w \in revoked
        THEN accrual' = [accrual EXCEPT ![w] = NoRow] /\ PEnds(p)
        ELSE /\ accrual' = IF NotBehind(ps[p].row, accrual[w])
                           THEN [accrual EXCEPT ![w] = ps[p].row] ELSE accrual
             /\ PStep(p, "epoch")
     /\ UNCHANGED <<memory, next, locks, hd, adm, revoked, lockRow, payRow, banFile, today, history, bounds>>

UpsertFails(p) ==
  /\ PAt(p, "upsert")
  /\ PEnds(p)
  /\ UNCHANGED <<memory, next, locks, hd, adm, tables, today, history, bounds>>

\* deleteWorkerAccrualLocked: the tombstone, then the row, with m.mu held.
CheckEpoch(p) ==
  LET w == ps[p].w
  IN /\ PAt(p, "epoch") /\ MuFree
     /\ IF epoch[w] = ps[p].epoch
        THEN PEnds(p) /\ UNCHANGED <<revoked, mu>>
        ELSE revoked' = revoked \cup {w} /\ mu' = p /\ PStep(p, "purge")
     /\ UNCHANGED <<memory, next, payoutLockMu, hd, adm, accrual, lockRow, payRow, banFile, today, history, bounds>>

\* Mutant: m.mu is not released.
PurgeStaysLocked(p) ==
  /\ PAt(p, "purge")
  /\ accrual' = [accrual EXCEPT ![ps[p].w] = NoRow]
  /\ PEnds(p)
  /\ UNCHANGED <<memory, next, locks, hd, adm, revoked, lockRow, payRow, banFile, today, history, bounds>>

Purge(p) ==
  /\ PAt(p, "purge")
  /\ accrual' = [accrual EXCEPT ![ps[p].w] = NoRow]
  /\ mu' = NoOne
  /\ PEnds(p)
  /\ UNCHANGED <<memory, next, payoutLockMu, hd, adm, revoked, lockRow, payRow, banFile, today, history, bounds>>

\* flushAllWorkerAccruals, of one worker.
Flush(w) ==
  /\ Bounded /\ worker[w].there
  /\ \E p \in Persists : PAt(p, "idle") /\ ps' = [ps EXCEPT ![p] = [Asleep EXCEPT !.pc = "snap", !.w = w]]
  /\ UNCHANGED <<memory, next, locks, hd, adm, tables, today, history, claims>>

----------------------------------------------------------------------------
(* Admin operations, time and crashes.                                      *)

\* revokeWorker: memory and the tombstone, then the durable row and the ban,
\* with m.mu held.  The leases go only with a row in memory.
Revoke(w, ban) ==
  /\ Bounded /\ adm.pc = "idle" /\ MuFree
  /\ worker' = [worker EXCEPT ![w] = NoRow]
  /\ active' = IF worker[w].there
               THEN [r \in Ranges |-> IF active[r].w = w THEN NoLease ELSE active[r]] ELSE active
  /\ epoch' = [epoch EXCEPT ![w] = @ + 1]
  /\ earned' = [earned EXCEPT ![w] = 0]
  /\ revoked' = revoked \cup {w}
  /\ mu' = Admin
  /\ adm' = [pc |-> "delete", w |-> w, ban |-> ban]
  /\ UNCHANGED <<banned, pay, next, payoutLockMu, hd, ps, accrual, lockRow, payRow, banFile, today,
                 spent, paidFor, lifted, claims>>

RevokeRow ==
  LET ban == IF adm.ban THEN {adm.w} ELSE {}
  IN /\ adm.pc = "delete"
     /\ accrual' = [accrual EXCEPT ![adm.w] = NoRow]
     /\ banned' = banned \cup ban
     /\ banFile' = banFile \cup ban
     /\ lifted' = lifted \ ban
     /\ mu' = NoOne
     /\ adm' = Still
     /\ UNCHANGED <<active, worker, epoch, pay, next, payoutLockMu, hd, ps, revoked, lockRow, payRow,
                    today, earned, spent, paidFor, bounds>>

\* pruneStaleWorkersLocked: an offline row without lease goes, and with it the
\* ban in memory; a row that carries credit stays unless ignore is set.
MayPrune(w, ignore) ==
  /\ worker[w].there /\ \A r \in Ranges : active[r].w # w
  /\ ignore \/ worker[w].units = 0

Prune(w, ignore) ==
  /\ Bounded /\ MuFree /\ MayPrune(w, ignore)
  /\ worker' = [worker EXCEPT ![w] = NoRow]
  /\ banned' = banned \ {w}
  /\ lifted' = lifted \cup (banned \cap {w})
  /\ UNCHANGED <<active, epoch, pay, next, locks, procs, tables, today, earned, spent, paidFor, claims>>

NewDay ==
  /\ Bounded /\ today < MaxDays /\ today' = today + 1
  /\ Midnight \/ \A h \in Handlers : hd[h].op # "submit"
  /\ UNCHANGED <<memory, next, locks, procs, tables, history, claims>>

\* loadPayoutLocks, then loadWorkerAccruals, whose rows win.
Loaded(w) ==
  IF accrual[w].there /\ w \notin revoked THEN accrual[w]
  ELSE IF lockRow[w] # NoAddress THEN WithAddress(NoRow, lockRow[w]) ELSE NoRow

\* The coordinator stops anywhere and starts again (attachDedupDB).  Its next
\* ranges start at a random place.
Crash ==
  /\ crashes < MaxCrashes /\ crashes' = crashes + 1
  /\ active' = [r \in Ranges |-> NoLease]
  /\ worker' = [w \in Workers |-> Loaded(w)]
  /\ epoch' = [w \in Workers |-> 0]
  /\ banned' = banFile
  /\ pay' = [day |-> today, units |-> payRow[today]]
  /\ mu' = NoOne /\ payoutLockMu' = NoOne
  /\ hd' = [h \in Handlers |-> Idle]
  /\ ps' = [p \in Persists |-> Asleep]
  /\ adm' = Still
  /\ UNCHANGED <<next, tables, today, history, claims, events>>

----------------------------------------------------------------------------

Binding(h) == Lookup(h) \/ Hydrate(h) \/ Note(h) \/ Lock(h) \/ Unbind(h) \/ Clear(h) \/ Bind(h)
Request(h) ==
  \/ Gate(h) \/ Lease(h) \/ Stamp(h) \/ Strike(h)
  \/ FetchTomb(h) \/ FetchRow(h) \/ Install(h) \/ Enter(h)
  \/ RelayDone(h) \/ \E live \in BOOLEAN : RelayFails(h, live)
Persist(p) ==
  \/ Snapshot(p) \/ CheckTomb(p) \/ Drop(p) \/ Upsert(p) \/ UpsertFails(p)
  \/ CheckEpoch(p) \/ Purge(p)

Next ==
  \/ \E h \in Handlers :
       \/ Binding(h) \/ Request(h)
       \/ \E w \in Workers :
            \/ StartUnbind(h, w)
            \/ \E a \in Addresses \cup {NoAddress} :
                 StartClaim(h, w, a) \/ \E r \in Ranges : StartSubmit(h, w, a, r)
  \/ \E p \in Persists : Persist(p)
  \/ \E w \in Workers :
       \/ Flush(w)
       \/ \E ban \in Revokes : Revoke(w, ban)
       \/ \E ignore \in IgnorePayout : Prune(w, ignore)
  \/ \E r \in Ranges : Expire(r)
  \/ RevokeRow \/ NewDay \/ Crash

Spec == Init /\ [][Next]_vars

----------------------------------------------------------------------------
(* Properties.                                                              *)

RowType == [units : Nat, addr : Addresses \cup {NoAddress}, there : BOOLEAN]

\* Type invariant; in particular a lock that is held has a holder that is in one
\* of the steps that hold it.
TypeOK ==
  /\ active \in [Ranges -> [w : Workers \cup {NoOne}, live : BOOLEAN]]
  /\ worker \in [Workers -> RowType] /\ accrual \in [Workers -> RowType]
  /\ lockRow \in [Workers -> Addresses \cup {NoAddress}]
  /\ revoked \subseteq Workers /\ banned \subseteq Workers /\ banFile \subseteq Workers
  /\ pay.day \in Days /\ payRow \in [Days -> Nat]
  /\ mu \in Handlers => At(mu, "bind")
  /\ mu \in Persists => PAt(mu, "purge")
  /\ mu = Admin <=> adm.pc = "delete"
  /\ payoutLockMu # NoOne => payoutLockMu \in Handlers /\ At(payoutLockMu, "clear")

\* A nonce range is credited once, whoever it was leased to and however submits
\* of it, relays that fail late, expiry, reissue, revokes and crashes interleave.
RangePaidOnce == \A r \in Ranges : paidFor[r] <= 1

\* The submits of a day are credited at most the day's budget, across restarts.
\* "Solvency: never accrue more than the UTC-day emission budget."
DayBudgetKept == \A d \in Days : spent[d] <= DayBudget

\* What a restart would load for a worker that is banned for good is at most what
\* it was credited since: neither a submit or a persist that was under way, nor a
\* crash between the two statements of the revoke brings the old balance back.
\* (A prune or a strike that comes later lifts its ban in memory.)
Loadable(w) == IF Loaded(w).there THEN Loaded(w).units ELSE 0
BannedStaysRevoked == \A w \in banFile \ lifted : Loadable(w) <= earned[w]

\* The durable counter never falls back to an older snapshot.
NoFallBack ==
  \A w \in Workers : accrual'[w].there => accrual'[w].units >= accrual[w].units
DurableNeverFallsBack == [][NoFallBack]_vars

\* No two requests wait for each other's lock: the locks are taken in one order.
\* "Order: payoutLockMu -> m.mu; never the reverse."
NoLockCycle ==
  ~\E h, g \in Handlers : mu = h /\ At(h, "bind") /\ payoutLockMu = g /\ At(g, "clear")
=============================================================================
